-------------------------- MODULE ReplacersProofs --------------------------
(***************************************************************************)
(* Both replacers, for any number of frames and any capacity of the clock. *)
(*                                                                         *)
(* LRUReplacer answers from lru_list_ what module Replacer asks of a set,  *)
(* so LruInv ties the list to lru_map_ and to the order of the unpins.     *)
(* For ClockReplacer the measure is Ahead(f), the rounds until the hand    *)
(* reaches f: a round moves the hand one frame closer to all frames but    *)
(* the one it reaches, so bounds on rounds + Ahead(f) and on               *)
(* age[f] + Ahead(f) are kept by every round.                              *)
(***************************************************************************)
EXTENDS Replacers, SequenceTheorems, FiniteSetTheorems, TLAPS

LruInv ==
  /\ lruList \in Seq(Frames)
  /\ lruMap = {lruList[i] : i \in 1 .. Len(lruList)}
  /\ \A i, j \in 1 .. Len(lruList) : lruList[i] = lruList[j] => i = j
  /\ newer \subseteq lruMap \X lruMap
  /\ \A i, j \in 1 .. Len(lruList) : <<lruList[i], lruList[j]>> \in newer => i < j

Ahead(f) == IF f > hand THEN f - hand ELSE f - hand + Capacity

ClockTypeOK ==
  /\ inClock \subseteq Clock!Ring /\ refBits \subseteq inClock
  /\ hand \in Clock!Ring
  /\ size = Cardinality(inClock)
  /\ rounds \in Nat
  /\ age \in [Clock!Ring -> 0 .. Clock!AgeBound]
RoundsInv ==
  /\ ~scanning => rounds <= 2 * Capacity
  /\ scanning =>
       /\ inClock # {}
       /\ \A f \in inClock : rounds + Ahead(f) <= 2 * Capacity
       /\ \A f \in refBits : rounds + Ahead(f) <= Capacity
AgeInv == \A f \in inClock \ refBits : age[f] + Ahead(f) > Capacity

ReplacersInv == kind \in {"lru", "clock"} /\ LruInv /\ ClockTypeOK /\ RoundsInv /\ AgeInv

-----------------------------------------------------------------------------
\* The hand moves to the next frame, and from the last one to the first.
LEMMA NextHand ==
  ASSUME NEW h \in Clock!Ring
  PROVE  (h + 1) % Capacity = IF h = Capacity - 1 THEN 0 ELSE h + 1
BY CapacityAssumption, SMTT(30) DEF Clock!Ring

\* A round brings the hand one frame closer to every frame, except that the frame it
\* reaches is a full rotation ahead again.
LEMMA AheadAfterRound ==
  ASSUME hand \in Clock!Ring, hand' = (hand + 1) % Capacity, NEW f \in Clock!Ring
  PROVE  /\ hand' \in Clock!Ring
         /\ Ahead(f) \in 1 .. Capacity
         /\ f = hand' => Ahead(f) = 1 /\ Ahead(f)' = Capacity
         /\ f # hand' => Ahead(f)' = Ahead(f) - 1
<1>1. hand' = IF hand = Capacity - 1 THEN 0 ELSE hand + 1
  BY Zenon, NextHand
<1> QED
  BY <1>1, CapacityAssumption, SMTT(30) DEF Clock!Ring, Ahead

\* The frames of the clock are finitely many, so size_ is 0 exactly if there are none.
LEMMA ClockFinite ==
  ASSUME NEW S, S \subseteq Clock!Ring
  PROVE  IsFiniteSet(S) /\ Cardinality(S) \in Nat /\ (Cardinality(S) = 0 <=> S = {})
<1>1. IsFiniteSet(Clock!Ring)
  <2>1. 0 \in Int /\ Capacity - 1 \in Int
    BY CapacityAssumption
  <2> QED
    BY ZenonT(30), <2>1, FS_Interval DEF Clock!Ring
<1>2. IsFiniteSet(S)
  BY ZenonT(30), <1>1, FS_Subset
<1> QED
  BY ZenonT(30), <1>2, FS_CardinalityType, FS_EmptySet

\* The initial state satisfies the invariant.
LEMMA InvInit == Init => ReplacersInv
<1> SUFFICES ASSUME Init PROVE ReplacersInv
  BY Zenon
<1>1. LruInv
  BY SMTT(30) DEF Init, LRU!Init, LruInv
<1>2. ClockTypeOK
  <2>1. Cardinality(inClock) = 0
    BY Zenon, FS_EmptySet DEF Init, Clock!Init
  <2>2. age \in [Clock!Ring -> 0 .. Clock!AgeBound]
    BY CapacityAssumption DEF Init, Clock!Init, Clock!AgeBound
  <2> QED
    BY <2>1, <2>2, CapacityAssumption DEF Init, Clock!Init, ClockTypeOK, Clock!Ring
<1>3. RoundsInv /\ AgeInv
  BY CapacityAssumption DEF Init, Clock!Init, RoundsInv, AgeInv
<1> QED
  BY <1>1, <1>2, <1>3 DEF Init, ReplacersInv

-----------------------------------------------------------------------------
(* LRUReplacer *)

\* Victim takes the head of the list and its entry of the map: what is left is still
\* one list without repetitions, in the order of the unpins.
LEMMA LruVictim == ASSUME LruInv, LRU!Victim PROVE LruInv'
<1> DEFINE n == Len(lruList)
<1>1. lruList' \in Seq(Frames) /\ Len(lruList') = n - 1 /\ n \in Nat /\ n > 0
      /\ \A i \in 1 .. n - 1 : lruList'[i] = lruList[i + 1]
  BY HeadTailProperties, SMTT(30) DEF LruInv, LRU!Victim
<1>2. Head(lruList) = lruList[1]
  BY <1>1 DEF LruInv
<1>3. lruMap' = {lruList'[i] : i \in 1 .. Len(lruList')}
  <2>1. ASSUME NEW f \in lruMap' PROVE \E i \in 1 .. n - 1 : f = lruList'[i]
    <3>1. PICK j \in 1 .. n : f = lruList[j]
      BY Zenon DEF LruInv, LRU!Victim
    <3>2. j # 1
      BY ZenonT(30), <1>2, <3>1 DEF LRU!Victim
    <3>3. j - 1 \in 1 .. n - 1 /\ lruList'[j - 1] = lruList[(j - 1) + 1] /\ (j - 1) + 1 = j
      BY <1>1, <3>2
    <3> QED
      BY <3>1, <3>3, Zenon
  <2>2. ASSUME NEW i \in 1 .. n - 1 PROVE lruList'[i] \in lruMap'
    BY <1>1, <1>2, SMTT(30) DEF LruInv, LRU!Victim
  <2> QED
    BY ZenonT(30), <1>1, <2>1, <2>2
<1>4. \A i, j \in 1 .. Len(lruList') : lruList'[i] = lruList'[j] => i = j
  BY <1>1, SMTT(30) DEF LruInv
<1>5. newer' \subseteq lruMap' \X lruMap'
  BY ZenonT(30) DEF LruInv, LRU!Victim, LRU!Forget
<1>6. \A i, j \in 1 .. Len(lruList') : <<lruList'[i], lruList'[j]>> \in newer' => i < j
  <2> SUFFICES ASSUME NEW i \in 1 .. n - 1, NEW j \in 1 .. n - 1,
                      <<lruList[i + 1], lruList[j + 1]>> \in newer
               PROVE  i < j
    BY Zenon, <1>1 DEF LRU!Victim, LRU!Forget
  <2>1. i + 1 \in 1 .. n /\ j + 1 \in 1 .. n
    BY <1>1
  <2>2. i + 1 < j + 1
    BY Zenon, <2>1 DEF LruInv
  <2> QED
    BY <2>2
<1> QED
  BY ZenonT(30), <1>1, <1>3, <1>4, <1>5, <1>6 DEF LruInv

\* The entry of lru_map_ points at the frame, and nothing else of the list is the frame.
LEMMA LruPlace ==
  ASSUME LruInv, NEW f \in lruMap
  PROVE  /\ LRU!PlaceOf(f) \in 1 .. Len(lruList)
         /\ lruList[LRU!PlaceOf(f)] = f
<1>1. DOMAIN lruList = 1 .. Len(lruList)
  BY Zenon, LenProperties DEF LruInv
<1>2. \E i \in DOMAIN lruList : lruList[i] = f
  BY Zenon, <1>1 DEF LruInv
<1> QED
  BY ZenonT(30), <1>1, <1>2 DEF LRU!PlaceOf

\* What erasing place p of a list leaves: the elements before p, and those after it
\* one place further to the front.
LEMMA ErasedList ==
  ASSUME LruInv, NEW p \in 1 .. Len(lruList)
  PROVE  /\ LRU!Erase(p) \in Seq(Frames)
         /\ Len(LRU!Erase(p)) = Len(lruList) - 1
         /\ \A i \in 1 .. Len(lruList) - 1 :
              LRU!Erase(p)[i] = lruList[IF i < p THEN i ELSE i + 1]
<1>1. lruList \in Seq(Frames) /\ Len(lruList) \in Nat /\ \A i \in 1 .. Len(lruList) : lruList[i] \in Frames
  BY ZenonT(30), LenProperties, ElementOfSeq DEF LruInv
<1> DEFINE a == SubSeq(lruList, 1, p - 1)
           b == SubSeq(lruList, p + 1, Len(lruList))
<1>2. a \in Seq(Frames) /\ Len(a) = p - 1 /\ \A i \in 1 .. p - 1 : a[i] = lruList[i]
  BY <1>1, SubSeqProperties, SMTT(30)
<1>3. b \in Seq(Frames) /\ Len(b) = Len(lruList) - p /\ \A i \in 1 .. Len(lruList) - p : b[i] = lruList[p + i]
  BY <1>1, SubSeqProperties, SMTT(30)
<1> HIDE DEF a, b
<1>4. a \o b \in Seq(Frames) /\ Len(a \o b) = Len(lruList) - 1
      /\ \A i \in 1 .. Len(lruList) - 1 : (a \o b)[i] = IF i < p THEN a[i] ELSE b[i - (p - 1)]
  <2>1. /\ a \o b \in Seq(Frames)
        /\ Len(a \o b) = Len(a) + Len(b)
        /\ \A i \in 1 .. Len(a) + Len(b) :
             (a \o b)[i] = IF i <= Len(a) THEN a[i] ELSE b[i - Len(a)]
    BY ZenonT(30), <1>2, <1>3, ConcatProperties
  <2> QED
    BY <1>1, <1>2, <1>3, <2>1
<1>5. LRU!Erase(p) = a \o b
  BY Zenon DEF LRU!Erase, a, b
<1>6. ASSUME NEW i \in 1 .. Len(lruList) - 1
      PROVE  (a \o b)[i] = lruList[IF i < p THEN i ELSE i + 1]
  <2>1. CASE i < p
    BY <1>1, <1>2, <1>4, <2>1
  <2>2. CASE ~(i < p)
    <3>1. i - (p - 1) \in 1 .. Len(lruList) - p /\ p + (i - (p - 1)) = i + 1
      BY <1>1, <2>2
    <3> QED
      BY <1>3, <1>4, <2>2, <3>1
  <2> QED
    BY ZenonT(30), <2>1, <2>2
<1> QED
  BY <1>4, <1>5, <1>6, Zenon

\* Pin erases a frame of the list at the place the map holds for it.
LEMMA LruPin == ASSUME LruInv, NEW f \in Frames, LRU!Pin(f) PROVE LruInv'
<1>1. CASE f \notin lruMap
  BY <1>1 DEF LRU!Pin, LruInv
<1>2. CASE f \in lruMap
  <2> DEFINE n == Len(lruList)
             p == LRU!PlaceOf(f)
             old(i) == IF i < p THEN i ELSE i + 1
  <2>1. p \in 1 .. n /\ lruList[p] = f /\ n \in Nat
    BY Zenon, <1>2, LruPlace, LenProperties DEF LruInv
  <2>2. lruList' = LRU!Erase(p) /\ lruMap' = lruMap \ {f} /\ newer' = LRU!Forget(f)
    BY Zenon, <1>2 DEF LRU!Pin
  <2> HIDE DEF p
  <2>3. /\ lruList' \in Seq(Frames)
        /\ Len(lruList') = n - 1
        /\ \A i \in 1 .. n - 1 : lruList'[i] = lruList[old(i)] /\ old(i) \in 1 .. n /\ old(i) # p
    <3>1. /\ lruList' \in Seq(Frames)
          /\ Len(lruList') = n - 1
          /\ \A i \in 1 .. n - 1 : lruList'[i] = lruList[old(i)]
      BY <2>1, <2>2, ErasedList, Zenon DEF LruInv
    <3>2. \A i \in 1 .. n - 1 : old(i) \in 1 .. n /\ old(i) # p
      BY <2>1
    <3> QED
      BY <3>1, <3>2, Zenon
  <2>4. lruMap' = {lruList'[i] : i \in 1 .. Len(lruList')}
    <3>1. ASSUME NEW g \in lruMap' PROVE \E i \in 1 .. n - 1 : g = lruList'[i]
      <4>1. PICK j \in 1 .. n : g = lruList[j]
        BY ZenonT(30), <2>2 DEF LruInv
      <4>2. j # p
        BY ZenonT(30), <2>1, <2>2, <4>1
      <4> DEFINE m == IF j < p THEN j ELSE j - 1
      <4>3. m \in 1 .. n - 1 /\ old(m) = j
        BY <2>1, <4>2
      <4> QED
        BY <2>3, <4>1, <4>3, Zenon
    <3>2. ASSUME NEW i \in 1 .. n - 1 PROVE lruList'[i] \in lruMap'
      <4>1. lruList[old(i)] \in lruMap
        BY <2>3, Zenon DEF LruInv
      <4>2. lruList[old(i)] # lruList[p]
        BY <2>1, <2>3, Zenon DEF LruInv
      <4> QED
        BY <2>1, <2>2, <2>3, <4>1, <4>2, Zenon
    <3> QED
      BY <2>3, <3>1, <3>2, Zenon
  <2>5. \A i, j \in 1 .. Len(lruList') : lruList'[i] = lruList'[j] => i = j
    BY <2>1, <2>3, SMTT(30) DEF LruInv
  <2>6. newer' \subseteq lruMap' \X lruMap'
    BY Zenon, <2>2 DEF LruInv, LRU!Forget
  <2>7. \A i, j \in 1 .. Len(lruList') : <<lruList'[i], lruList'[j]>> \in newer' => i < j
    <3> SUFFICES ASSUME NEW i \in 1 .. n - 1, NEW j \in 1 .. n - 1,
                        <<lruList[old(i)], lruList[old(j)]>> \in newer
                 PROVE  i < j
      BY ZenonT(30), <2>2, <2>3 DEF LRU!Forget
    <3>1. old(i) < old(j)
      BY Zenon, <2>3 DEF LruInv
    <3> QED
      BY <2>1, <3>1
  <2> QED
    BY Zenon, <2>3, <2>4, <2>5, <2>6, <2>7 DEF LruInv
<1> QED
  BY ZenonT(30), <1>1, <1>2

\* Unpin appends a frame that is not in the list, so it comes after all the others.
LEMMA LruUnpin == ASSUME LruInv, NEW f \in Frames, LRU!Unpin(f) PROVE LruInv'
<1>1. CASE f \in lruMap
  BY <1>1 DEF LRU!Unpin, LruInv
<1>2. CASE f \notin lruMap
  <2> DEFINE n == Len(lruList)
  <2>1. n \in Nat
    BY Zenon, LenProperties DEF LruInv
  <2>2. /\ lruList' = Append(lruList, f)
        /\ lruMap' = lruMap \cup {f}
        /\ newer' = newer \cup {<<g, f>> : g \in lruMap}
    BY Zenon, <1>2 DEF LRU!Unpin
  <2>3. /\ lruList' \in Seq(Frames)
        /\ Len(lruList') = n + 1
        /\ \A i \in 1 .. n : lruList'[i] = lruList[i]
        /\ lruList'[n + 1] = f
    BY <2>2, AppendProperties DEF LruInv
  <2>4. lruMap' = {lruList'[i] : i \in 1 .. Len(lruList')}
    BY <2>1, <2>2, <2>3, SMTT(30) DEF LruInv
  <2>5. \A i \in 1 .. n : lruList[i] # f
    BY Zenon, <1>2 DEF LruInv
  <2>6. \A i, j \in 1 .. Len(lruList') : lruList'[i] = lruList'[j] => i = j
    BY <2>1, <2>3, <2>5, SMTT(30) DEF LruInv
  <2>7. newer' \subseteq lruMap' \X lruMap'
    BY <2>2 DEF LruInv
  <2>8. \A i, j \in 1 .. Len(lruList') : <<lruList'[i], lruList'[j]>> \in newer' => i < j
    <3> SUFFICES ASSUME NEW i \in 1 .. n + 1, NEW j \in 1 .. n + 1,
                        <<lruList'[i], lruList'[j]>> \in newer'
                 PROVE  i < j
      BY Zenon, <2>3
    <3>1. CASE <<lruList'[i], lruList'[j]>> \in newer
      <4>1. lruList'[i] # f /\ lruList'[j] # f
        BY <1>2, <3>1 DEF LruInv
      <4>2. i \in 1 .. n /\ j \in 1 .. n
        BY <2>1, <2>3, <4>1
      <4> QED
        BY ZenonT(30), <2>3, <3>1, <4>2 DEF LruInv
    <3>2. CASE <<lruList'[i], lruList'[j]>> \notin newer
      <4>1. lruList'[j] = f /\ lruList'[i] # f
        BY ZenonT(30), <1>2, <2>2, <3>2
      <4> QED
        BY <2>1, <2>3, <2>5, <4>1
    <3> QED
      BY Zenon, <3>1, <3>2
  <2> QED
    BY Zenon, <2>3, <2>4, <2>6, <2>7, <2>8 DEF LruInv
<1> QED
  BY ZenonT(30), <1>1, <1>2

-----------------------------------------------------------------------------
(* ClockReplacer *)

\* Pin and Unpin run outside the loop: the hand stays, a pinned frame leaves the clock,
\* and an unpinned one is in it with its bit set.
LEMMA ClockPin ==
  ASSUME ClockTypeOK, RoundsInv, AgeInv, NEW f \in Clock!Ring, Clock!Pin(f)
  PROVE  ClockTypeOK' /\ RoundsInv' /\ AgeInv'
<1>1. ~scanning /\ ~scanning' /\ rounds' = rounds /\ age' = age /\ hand' = hand
  BY ZenonT(30) DEF Clock!Pin
<1>2. inClock' = inClock \ {f} /\ refBits' = refBits \ {f}
  BY Zenon DEF Clock!Pin, ClockTypeOK
<1>3. size' = Cardinality(inClock')
  <2>1. IsFiniteSet(inClock)
    BY ZenonT(30), ClockFinite DEF ClockTypeOK
  <2> QED
    BY <1>2, <2>1, FS_RemoveElement DEF Clock!Pin, ClockTypeOK
<1>4. ClockTypeOK'
  BY ZenonT(30), <1>1, <1>2, <1>3 DEF ClockTypeOK, Clock!Ring, Clock!AgeBound
<1>5. RoundsInv'
  BY ZenonT(30), <1>1 DEF RoundsInv
<1>6. AgeInv'
  BY Zenon, <1>1, <1>2 DEF AgeInv, Ahead
<1> QED
  BY ZenonT(30), <1>4, <1>5, <1>6

\* CLOCK's Unpin puts the frame in the clock with its reference bit set; the hand stays.
LEMMA ClockUnpin ==
  ASSUME ClockTypeOK, RoundsInv, AgeInv, NEW f \in Clock!Ring, Clock!Unpin(f)
  PROVE  ClockTypeOK' /\ RoundsInv' /\ AgeInv'
<1>1. ~scanning /\ ~scanning' /\ rounds' = rounds /\ hand' = hand
  BY Zenon DEF Clock!Unpin
<1>2. inClock' = inClock \cup {f} /\ refBits' = refBits \cup {f}
  BY Zenon DEF Clock!Unpin
<1>3. size' = Cardinality(inClock')
  <2>1. IsFiniteSet(inClock)
    BY ZenonT(30), ClockFinite DEF ClockTypeOK
  <2>2. CASE f \in inClock
    <3>1. inClock' = inClock /\ size' = size
      BY ZenonT(30), <1>2, <2>2 DEF Clock!Unpin
    <3> QED
      BY ZenonT(30), <3>1 DEF ClockTypeOK
  <2>3. CASE f \notin inClock
    <3>1. Cardinality(inClock \cup {f}) = Cardinality(inClock) + 1
      BY ZenonT(30), <2>1, <2>3, FS_AddElement
    <3> QED
      BY <1>2, <2>3, <3>1 DEF Clock!Unpin, ClockTypeOK
  <2> QED
    BY ZenonT(30), <2>2, <2>3
<1>4. age' \in [Clock!Ring -> 0 .. Clock!AgeBound]
  BY CapacityAssumption, SMTT(30) DEF Clock!Unpin, ClockTypeOK, Clock!AgeBound
<1>5. ClockTypeOK'
  BY Zenon, <1>1, <1>2, <1>3, <1>4 DEF ClockTypeOK, Clock!Ring, Clock!AgeBound
<1>6. RoundsInv'
  BY ZenonT(30), <1>1 DEF RoundsInv
<1>7. AgeInv'
  <2> SUFFICES ASSUME NEW g \in inClock' \ refBits' PROVE age[g] + Ahead(g) > Capacity /\ age'[g] = age[g]
    BY Zenon, <1>1 DEF AgeInv, Ahead
  <2>1. g \in inClock \ refBits /\ g # f
    BY ZenonT(30), <1>2
  <2> QED
    BY ZenonT(30), <2>1 DEF AgeInv, Clock!Unpin, ClockTypeOK
<1> QED
  BY ZenonT(30), <1>5, <1>6, <1>7

\* Victim's loop starts with no round made, so two rotations are ahead of every frame.
LEMMA ClockBegin ==
  ASSUME ClockTypeOK, RoundsInv, AgeInv, Clock!VictimBegin
  PROVE  ClockTypeOK' /\ RoundsInv' /\ AgeInv'
<1>1. inClock # {}
  BY ZenonT(30), ClockFinite DEF Clock!VictimBegin, ClockTypeOK
<1>2. \A f \in Clock!Ring : Ahead(f) \in 1 .. Capacity
  BY CapacityAssumption DEF ClockTypeOK, Ahead, Clock!Ring
<1>3. rounds' = 0 /\ UNCHANGED <<inClock, refBits, hand, size, age>>
  BY Zenon DEF Clock!VictimBegin
<1>4. ClockTypeOK'
  BY Zenon, <1>3 DEF ClockTypeOK, Clock!Ring, Clock!AgeBound
<1>5. RoundsInv'
  BY <1>1, <1>2, <1>3, CapacityAssumption DEF RoundsInv, ClockTypeOK, Ahead, Clock!VictimBegin
<1>6. AgeInv'
  BY ZenonT(30), <1>3 DEF AgeInv, Ahead
<1> QED
  BY ZenonT(30), <1>4, <1>5, <1>6

\* What a round does to the two counters.
LEMMA ClockRound ==
  ASSUME ClockTypeOK, RoundsInv, scanning, Clock!Advance
  PROVE  /\ hand' \in Clock!Ring
         /\ rounds' = rounds + 1
         /\ age' \in [Clock!Ring -> 0 .. Clock!AgeBound]
         /\ \A f \in Clock!Ring : age'[f] > Capacity \/ age'[f] = age[f] + 1
<1>1. hand' \in Clock!Ring
  BY ZenonT(30), AheadAfterRound, CapacityAssumption DEF Clock!Advance, ClockTypeOK
<1>2. rounds' = rounds + 1
  <2>1. PICK f \in inClock : rounds + Ahead(f) <= 2 * Capacity
    BY Zenon DEF RoundsInv
  <2>2. Ahead(f) \in 1 .. Capacity
    BY ZenonT(30), AheadAfterRound DEF Clock!Advance, ClockTypeOK
  <2>3. rounds < Clock!RoundBound
    BY <2>1, <2>2, CapacityAssumption DEF Clock!RoundBound, ClockTypeOK
  <2> QED
    BY Zenon, <2>3 DEF Clock!Advance
<1>3. age' \in [Clock!Ring -> 0 .. Clock!AgeBound]
      /\ \A f \in Clock!Ring : age'[f] > Capacity \/ age'[f] = age[f] + 1
  BY CapacityAssumption, SMTT(30) DEF Clock!Advance, ClockTypeOK, Clock!AgeBound
<1> QED
  BY ZenonT(30), <1>1, <1>2, <1>3

\* A frame the hand passes over had its bit set, and so was not reached in this loop
\* before: it has at least one more rotation.
LEMMA ClockSkip ==
  ASSUME ClockTypeOK, RoundsInv, AgeInv, Clock!VictimSkip
  PROVE  ClockTypeOK' /\ RoundsInv' /\ AgeInv'
<1>1. scanning /\ scanning' /\ inClock' = inClock /\ size' = size
      /\ (hand' \in inClock => hand' \in refBits) /\ refBits' = refBits \ {hand'}
  BY Zenon DEF Clock!VictimSkip, ClockTypeOK
<1>2. /\ hand' \in Clock!Ring
      /\ rounds' = rounds + 1
      /\ age' \in [Clock!Ring -> 0 .. Clock!AgeBound]
      /\ \A f \in Clock!Ring : age'[f] > Capacity \/ age'[f] = age[f] + 1
  BY ZenonT(30), <1>1, ClockRound DEF Clock!VictimSkip
<1>3. \A f \in Clock!Ring :
        /\ Ahead(f) \in 1 .. Capacity /\ age[f] \in Nat
        /\ f = hand' => Ahead(f) = 1 /\ Ahead(f)' = Capacity
        /\ f # hand' => Ahead(f)' = Ahead(f) - 1
  BY AheadAfterRound DEF Clock!VictimSkip, Clock!Advance, ClockTypeOK, Clock!AgeBound
<1>4. ClockTypeOK'
  BY <1>1, <1>2 DEF ClockTypeOK, Clock!Ring, Clock!AgeBound
<1>5. RoundsInv'
  <2>1. ASSUME NEW f \in inClock PROVE rounds' + Ahead(f)' <= 2 * Capacity
    <3>1. f \in Clock!Ring /\ rounds + Ahead(f) <= 2 * Capacity /\ rounds \in Nat
      BY ZenonT(30), <1>1 DEF ClockTypeOK, RoundsInv
    <3>2. CASE f = hand'
      <4>1. rounds + 1 <= Capacity
        BY ZenonT(30), <1>1, <1>3, <3>1, <3>2 DEF RoundsInv
      <4> QED
        BY <1>2, <1>3, <3>1, <3>2, <4>1, CapacityAssumption
    <3>3. CASE f # hand'
      BY <1>2, <1>3, <3>1, <3>3, CapacityAssumption
    <3> QED
      BY Zenon, <3>2, <3>3
  <2>2. ASSUME NEW f \in refBits' PROVE rounds' + Ahead(f)' <= Capacity
    <3>1. f \in Clock!Ring /\ rounds + Ahead(f) <= Capacity /\ rounds \in Nat /\ f # hand'
      BY ZenonT(30), <1>1 DEF ClockTypeOK, RoundsInv
    <3> QED
      BY <1>2, <1>3, <3>1, CapacityAssumption
  <2> QED
    BY Zenon, <1>1, <2>1, <2>2 DEF RoundsInv
<1>6. AgeInv'
  <2> SUFFICES ASSUME NEW f \in inClock \ refBits' PROVE age'[f] + Ahead(f)' > Capacity
    BY Zenon, <1>1 DEF AgeInv
  <2>1. f \in Clock!Ring /\ age[f] \in Nat /\ age'[f] \in Nat /\ Ahead(f)' \in Nat
    BY <1>2, <1>3, CapacityAssumption DEF ClockTypeOK, Clock!AgeBound
  <2>2. CASE f = hand'
    BY <1>2, <1>3, <2>1, <2>2, CapacityAssumption
  <2>3. CASE f # hand'
    <3>1. age[f] + Ahead(f) > Capacity
      BY Zenon, <1>1, <2>3 DEF AgeInv
    <3> QED
      BY <1>2, <1>3, <2>1, <2>3, <3>1, CapacityAssumption
  <2> QED
    BY ZenonT(30), <2>2, <2>3
<1> QED
  BY ZenonT(30), <1>4, <1>5, <1>6

\* The victim was reached within two rotations, and a full one after its last unpin.
LEMMA ClockFound ==
  ASSUME ClockTypeOK, RoundsInv, AgeInv, Clock!VictimFound
  PROVE  ClockTypeOK' /\ RoundsInv' /\ AgeInv' /\ age'[hand'] > Capacity
<1>1. scanning /\ ~scanning' /\ hand' \in inClock \ refBits
      /\ inClock' = inClock \ {hand'} /\ refBits' = refBits \ {hand'} /\ size' = size - 1
  BY Zenon DEF Clock!VictimFound
<1>2. /\ hand' \in Clock!Ring
      /\ rounds' = rounds + 1
      /\ age' \in [Clock!Ring -> 0 .. Clock!AgeBound]
      /\ \A f \in Clock!Ring : age'[f] > Capacity \/ age'[f] = age[f] + 1
  BY ZenonT(30), <1>1, ClockRound DEF Clock!VictimFound
<1>3. \A f \in Clock!Ring :
        /\ Ahead(f) \in 1 .. Capacity /\ age[f] \in Nat
        /\ f = hand' => Ahead(f) = 1 /\ Ahead(f)' = Capacity
        /\ f # hand' => Ahead(f)' = Ahead(f) - 1
  BY AheadAfterRound DEF Clock!VictimFound, Clock!Advance, ClockTypeOK, Clock!AgeBound
<1>4. size' = Cardinality(inClock')
  <2>1. IsFiniteSet(inClock)
    BY Zenon, ClockFinite DEF ClockTypeOK
  <2> QED
    BY ZenonT(30), <1>1, <2>1, FS_RemoveElement DEF ClockTypeOK
<1>5. ClockTypeOK'
  BY <1>1, <1>2, <1>4 DEF ClockTypeOK, Clock!Ring, Clock!AgeBound
<1>6. RoundsInv'
  <2>1. rounds + Ahead(hand') <= 2 * Capacity /\ Ahead(hand') = 1
    BY ZenonT(30), <1>1, <1>2, <1>3 DEF RoundsInv
  <2> QED
    BY Zenon, <1>1, <1>2, <2>1, CapacityAssumption DEF RoundsInv, ClockTypeOK
<1>7. AgeInv'
  <2> SUFFICES ASSUME NEW f \in inClock' \ refBits' PROVE age'[f] + Ahead(f)' > Capacity
    BY Zenon DEF AgeInv
  <2>1. f \in inClock \ refBits /\ f # hand' /\ f \in Clock!Ring
    BY Zenon, <1>1 DEF ClockTypeOK
  <2>2. age[f] + Ahead(f) > Capacity
    BY Zenon, <2>1 DEF AgeInv
  <2>3. age'[f] \in Nat
    BY <1>2, <2>1, CapacityAssumption DEF Clock!AgeBound
  <2> QED
    BY <1>2, <1>3, <2>1, <2>2, <2>3, CapacityAssumption
<1>8. age'[hand'] > Capacity
  <2>1. age[hand'] + Ahead(hand') > Capacity /\ Ahead(hand') = 1
    BY Zenon, <1>1, <1>2, <1>3 DEF AgeInv
  <2> QED
    BY Zenon, <1>2, <1>3, <2>1, CapacityAssumption
<1> QED
  BY ZenonT(30), <1>5, <1>6, <1>7, <1>8

-----------------------------------------------------------------------------
\* A step of the replacer that is not in use changes nothing, and a step of the one
\* that is keeps its part of the invariant.
LEMMA LruStep == ASSUME LruInv, LRU!Next PROVE LruInv'
<1>1. CASE LRU!Victim
  BY ZenonT(30), <1>1, LruVictim
<1>2. CASE LRU!NoVictim
  BY <1>2 DEF LRU!NoVictim, LruInv
<1>3. ASSUME NEW f \in Frames, LRU!Pin(f) \/ LRU!Unpin(f) PROVE LruInv'
  BY Zenon, <1>3, LruPin, LruUnpin
<1> QED
  BY ZenonT(30), <1>1, <1>2, <1>3 DEF LRU!Next

\* Every call of the CLOCK replacer keeps its part of the invariant.
LEMMA ClockStep ==
  ASSUME ClockTypeOK, RoundsInv, AgeInv, Clock!Next
  PROVE  ClockTypeOK' /\ RoundsInv' /\ AgeInv'
<1>1. CASE Clock!VictimEmpty
  <2>1. UNCHANGED <<inClock, refBits, hand, size, scanning, rounds, age>>
    BY Zenon, <1>1 DEF Clock!VictimEmpty
  <2> QED
    BY Zenon, <2>1 DEF ClockTypeOK, RoundsInv, AgeInv, Ahead, Clock!Ring, Clock!AgeBound
<1>2. CASE Clock!VictimBegin
  BY ZenonT(30), <1>2, ClockBegin
<1>3. CASE Clock!Loop
  BY ZenonT(30), <1>3, ClockSkip, ClockFound DEF Clock!Loop
<1>4. ASSUME NEW f \in Clock!Ring, Clock!Pin(f) \/ Clock!Unpin(f)
      PROVE  ClockTypeOK' /\ RoundsInv' /\ AgeInv'
  BY ZenonT(30), <1>4, ClockPin, ClockUnpin
<1> QED
  BY Zenon, <1>1, <1>2, <1>3, <1>4 DEF Clock!Next

\* Every call of either replacer keeps the invariant.
LEMMA InvStep == ReplacersInv /\ [Next]_vars => ReplacersInv'
<1> SUFFICES ASSUME ReplacersInv, [Next]_vars PROVE ReplacersInv'
  BY Zenon
<1>1. CASE kind = "lru" /\ LRU!Next /\ UNCHANGED <<kind, clockVars>>
  <2>1. LruInv'
    BY ZenonT(30), <1>1, LruStep DEF ReplacersInv
  <2> QED
    BY ZenonT(30), <1>1, <2>1
    DEF ReplacersInv, clockVars, ClockTypeOK, RoundsInv, AgeInv, Ahead, Clock!Ring, Clock!AgeBound
<1>2. CASE kind = "clock" /\ Clock!Next /\ UNCHANGED <<kind, lruVars>>
  <2>1. ClockTypeOK' /\ RoundsInv' /\ AgeInv'
    BY Zenon, <1>2, ClockStep DEF ReplacersInv
  <2> QED
    BY <1>2, <2>1 DEF ReplacersInv, lruVars, LruInv
<1>3. CASE UNCHANGED vars
  BY ZenonT(30), <1>3 DEF vars, lruVars, clockVars, ReplacersInv, LruInv, ClockTypeOK, RoundsInv, AgeInv,
              Ahead, Clock!Ring, Clock!AgeBound
<1> QED
  BY ZenonT(30), <1>1, <1>2, <1>3 DEF Next

\* The invariant holds of every reachable state.
THEOREM InvariantHolds == Spec => []ReplacersInv
BY InvInit, InvStep, PTL DEF Spec

\* ClockReplacer's loop finds a victim within two rotations of the hand, whatever the
\* capacity and however frames were pinned and unpinned before.
THEOREM TwoRotationsHolds == Spec => []TwoRotations
<1>1. ReplacersInv => TwoRotations
  <2> SUFFICES ASSUME ReplacersInv PROVE TwoRotations
    BY ZenonT(30)
  <2>1. CASE ~scanning
    BY ZenonT(30), <2>1 DEF ReplacersInv, RoundsInv, TwoRotations
  <2>2. CASE scanning
    <3>1. PICK f \in inClock : rounds + Ahead(f) <= 2 * Capacity
      BY ZenonT(30), <2>2 DEF ReplacersInv, RoundsInv
    <3>2. Ahead(f) \in Nat /\ rounds \in Nat
      BY CapacityAssumption DEF ReplacersInv, ClockTypeOK, Ahead, Clock!Ring
    <3> QED
      BY <3>1, <3>2, CapacityAssumption DEF TwoRotations
  <2> QED
    BY ZenonT(30), <2>1, <2>2
<1> QED
  BY <1>1, InvariantHolds, PTL

\* A frame ClockReplacer evicts was last unpinned more than a rotation ago.
THEOREM SecondChanceHolds == Spec => SecondChance
<1> DEFINE Spared == \A f \in inClock \ inClock' : Clock!VictimFound => age'[f] > Capacity
<1>1. ReplacersInv /\ [Next]_vars => [Spared]_vars
  BY Zenon, ClockFound DEF ReplacersInv, Clock!VictimFound
<1> QED
  BY <1>1, InvariantHolds, PTL DEF Spec, SecondChance

\* LRUReplacer's victim has been evictable longest of all frames in the list.
THEOREM LeastRecentFirstHolds == Spec => LeastRecentFirst
<1> DEFINE Oldest == LRU!Victim => \A g \in lruMap' : <<g, out'>> \notin newer
<1>1. ReplacersInv /\ [Next]_vars => [Oldest]_vars
  <2> SUFFICES ASSUME LruInv, LRU!Victim, NEW g \in lruMap', <<g, out'>> \in newer
               PROVE  FALSE
    BY Zenon DEF ReplacersInv
  <2>1. lruList # <<>> /\ out' = lruList[1] /\ Len(lruList) \in Nat /\ Len(lruList) > 0
    BY EmptySeq, LenProperties DEF LruInv, LRU!Victim
  <2>2. PICK j \in 1 .. Len(lruList) : g = lruList[j]
    BY Zenon DEF LruInv, LRU!Victim
  <2>3. 1 \in 1 .. Len(lruList)
    BY <2>1
  <2>4. j < 1
    BY Zenon, <2>1, <2>2, <2>3 DEF LruInv
  <2> QED
    BY <2>4
<1> QED
  BY <1>1, InvariantHolds, PTL DEF Spec, LeastRecentFirst

-----------------------------------------------------------------------------
\* Each replacer starts with nothing evictable, and each of its steps is a step of
\* Replacer, or, for the rounds of the clock's loop, changes nothing Replacer sees.
LEMMA ReplacerInit == Init => Abstract!Init
BY Zenon DEF Init, LRU!Init, Clock!Init, Abstract!Init

\* Every call of the LRU replacer is a call of the abstract replacer.
LEMMA LruImplements ==
  ASSUME LruInv, kind = "lru", kind' = kind, LRU!Next
  PROVE  Abstract!Next
<1>1. CASE LRU!Victim
  <2>1. Head(lruList) \in lruMap /\ Head(lruList) \in Frames
    BY <1>1, EmptySeq, LenProperties, ElementOfSeq, SMTT(30) DEF LRU!Victim, LruInv
  <2>2. Abstract!Victim(Head(lruList))
    BY Zenon, <1>1, <2>1 DEF LRU!Victim, Abstract!Victim
  <2> QED
    BY ZenonT(30), <2>1, <2>2 DEF Abstract!Next
<1>2. CASE LRU!NoVictim
  <2>1. lruMap = {}
    BY <1>2 DEF LRU!NoVictim, LruInv
  <2> QED
    BY Zenon, <1>2, <2>1 DEF LRU!NoVictim, Abstract!NoVictim, Abstract!Next
<1>3. ASSUME NEW f \in Frames, LRU!Pin(f) PROVE Abstract!Next
  <2>1. lruMap' = lruMap \ {f} /\ out' = NoFrame
    BY Zenon, <1>3 DEF LRU!Pin
  <2> QED
    BY Zenon, <2>1 DEF Abstract!Pin, Abstract!Next
<1>4. ASSUME NEW f \in Frames, LRU!Unpin(f) PROVE Abstract!Next
  <2>1. lruMap' = lruMap \cup {f} /\ out' = NoFrame
    BY Zenon, <1>4 DEF LRU!Unpin
  <2> QED
    BY Zenon, <2>1 DEF Abstract!Unpin, Abstract!Next
<1> QED
  BY ZenonT(30), <1>1, <1>2, <1>3, <1>4 DEF LRU!Next

\* Every call of the CLOCK replacer is a call of the abstract replacer, or one step of
\* Victim's loop that the caller does not see.
LEMMA ClockImplements ==
  ASSUME ClockTypeOK, RoundsInv, kind = "clock", kind' = kind, Clock!Next
  PROVE  Abstract!Next \/ (inClock' = inClock /\ out' = out)
<1>0. Clock!Ring \subseteq Frames
  BY Zenon, CapacityAssumption DEF Clock!Ring
<1>1. CASE Clock!VictimEmpty
  <2>1. inClock = {}
    BY ZenonT(30), <1>1, ClockFinite DEF Clock!VictimEmpty, ClockTypeOK
  <2> QED
    BY ZenonT(30), <1>1, <2>1 DEF Clock!VictimEmpty, Abstract!NoVictim, Abstract!Next
<1>2. CASE Clock!VictimBegin
  BY Zenon, <1>2 DEF Clock!VictimBegin
<1>3. CASE Clock!VictimSkip
  BY ZenonT(30), <1>3 DEF Clock!VictimSkip
<1>4. CASE Clock!VictimFound
  <2>1. hand' \in inClock /\ inClock' = inClock \ {hand'} /\ out' = hand' /\ hand' \in Frames
    BY ZenonT(30), <1>0, <1>4 DEF Clock!VictimFound, ClockTypeOK
  <2> QED
    BY Zenon, <2>1 DEF Abstract!Victim, Abstract!Next
<1>5. ASSUME NEW f \in Clock!Ring, Clock!Pin(f) PROVE Abstract!Next
  <2>1. inClock' = inClock \ {f} /\ out' = NoFrame /\ f \in Frames
    BY ZenonT(30), <1>0, <1>5 DEF Clock!Pin
  <2> QED
    BY Zenon, <2>1 DEF Abstract!Pin, Abstract!Next
<1>6. ASSUME NEW f \in Clock!Ring, Clock!Unpin(f) PROVE Abstract!Next
  <2>1. inClock' = inClock \cup {f} /\ out' = NoFrame /\ f \in Frames
    BY ZenonT(30), <1>0, <1>6 DEF Clock!Unpin
  <2> QED
    BY Zenon, <2>1 DEF Abstract!Unpin, Abstract!Next
<1> QED
  BY <1>1, <1>2, <1>3, <1>4, <1>5, <1>6 DEF Clock!Next, Clock!Loop

\* Every step of either replacer is a step of the abstract one, or leaves it alone.
LEMMA ReplacerStep ==
  ReplacersInv /\ [Next]_vars
    => [Abstract!Next]_<<IF kind = "lru" THEN lruMap ELSE inClock, out>>
<1> SUFFICES ASSUME ReplacersInv, [Next]_vars
             PROVE  Abstract!Next
                    \/ UNCHANGED <<IF kind = "lru" THEN lruMap ELSE inClock, out>>
  BY Zenon
<1>1. CASE kind = "lru" /\ LRU!Next /\ UNCHANGED <<kind, clockVars>>
  BY ZenonT(30), <1>1, LruImplements DEF ReplacersInv
<1>2. CASE kind = "clock" /\ Clock!Next /\ UNCHANGED <<kind, lruVars>>
  BY ZenonT(30), <1>2, ClockImplements DEF ReplacersInv
<1>3. CASE UNCHANGED vars
  BY ZenonT(30), <1>3 DEF vars, lruVars, clockVars
<1> QED
  BY ZenonT(30), <1>1, <1>2, <1>3 DEF Next

\* Either implementation is a replacer as the buffer pool expects one.
THEOREM ReplacerImplemented == Spec => ImplementsReplacer
BY ReplacerInit, ReplacerStep, InvariantHolds, PTL DEF Spec, ImplementsReplacer, Abstract!Spec

=============================================================================
