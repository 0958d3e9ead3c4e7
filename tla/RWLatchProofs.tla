--------------------------- MODULE RWLatchProofs ---------------------------
(***************************************************************************)
(* Mutual exclusion of the page latch, and that no sleeper is forgotten,   *)
(* for any number of threads.                                              *)
(*                                                                         *)
(* Neither is inductive: that a writer is alone follows from the flag and  *)
(* the count it tested under the mutex, so the invariant says what those   *)
(* mean in terms of where the threads are, and who may be asleep where.    *)
(***************************************************************************)
EXTENDS RWLatch, FiniteSetTheorems, TLAPS

Entered == {t \in Threads : pc[t] \in {"drain", "writing"}}

CountInv == readerCount = Cardinality(At("reading"))
EnteredInv ==
  /\ writerEntered <=> Entered # {}
  /\ \A t, u \in Entered : t = u
WriterInv == At("writing") # {} => At("reading") = {}
SleepInv ==
  /\ readerCv \subseteq At("enter") \cup At("await")
  /\ writerCv \subseteq At("drain")
  /\ readerCv # {} => writerEntered
  /\ writerCv # {} => readerCount > 0

LatchInv == TypeOK /\ CountInv /\ EnteredInv /\ WriterInv /\ SleepInv

-----------------------------------------------------------------------------
\* The set of readers is finite, so it is empty exactly if its size is 0.
LEMMA ReadersFinite ==
  ASSUME TypeOK
  PROVE  /\ IsFiniteSet(At("reading"))
         /\ Cardinality(At("reading")) \in Nat
         /\ Cardinality(At("reading")) = 0 <=> At("reading") = {}
<1>1. At("reading") \subseteq Threads
  BY Zenon DEF At
<1>2. IsFiniteSet(At("reading"))
  BY Zenon, <1>1, ThreadsAssumption, FS_Subset
<1> QED
  BY Zenon, <1>2, FS_CardinalityType, FS_EmptySet

\* A step that moves no thread into or out of "reading" leaves the set of readers
\* as it is.
LEMMA SameReaders ==
  ASSUME TypeOK, NEW t \in Threads, NEW place \in Places,
         pc[t] # "reading", place # "reading", pc' = [pc EXCEPT ![t] = place]
  PROVE  At("reading")' = At("reading")
BY Zenon DEF TypeOK, At

\* The initial state satisfies the invariant.
LEMMA LatchInvInit == Init => LatchInv
<1> SUFFICES ASSUME Init PROVE LatchInv
  BY Zenon
<1>1. TypeOK
  BY ZenonT(30) DEF Init, TypeOK, Places
<1>2. At("reading") = {} /\ At("writing") = {} /\ Entered = {}
  BY Zenon DEF Init, At, Entered
<1>3. CountInv
  BY Zenon, <1>2, FS_EmptySet DEF CountInv, Init
<1> QED
  BY Zenon, <1>1, <1>2, <1>3 DEF LatchInv, Init, EnteredInv, WriterInv, SleepInv

-----------------------------------------------------------------------------
(***************************************************************************)
(* One lemma per operation.                                                *)
(***************************************************************************)

\* WLock keeps the invariant.
LEMMA WLockStep ==
  ASSUME LatchInv, NEW t \in Threads, WLock(t)
  PROVE  LatchInv'
<1> USE DEF LatchInv
<1>0. pc[t] \in {"idle", "enter"}
  BY Zenon DEF WLock
<1>1. CASE writerEntered
  <2>1. /\ pc' = [pc EXCEPT ![t] = "enter"] /\ readerCv' = readerCv \cup {t}
        /\ UNCHANGED <<writerEntered, writerCv, readerCount>>
    BY Zenon, <1>1 DEF WLock, Goto
  <2>2. TypeOK'
    BY Zenon, <2>1 DEF TypeOK, Places
  <2>3. At("reading")' = At("reading")
    BY ZenonT(30), <1>0, <2>1, SameReaders DEF Places
  <2>4. Entered' = Entered /\ At("writing")' = At("writing")
    BY Zenon, <1>0, <2>1 DEF Entered, At, TypeOK
  <2>5. SleepInv'
    BY ZenonT(30), <1>0, <1>1, <2>1 DEF SleepInv, At, TypeOK
  <2> QED
    BY Zenon, <2>1, <2>2, <2>3, <2>4, <2>5 DEF CountInv, EnteredInv, WriterInv
<1>2. CASE ~writerEntered /\ readerCount > 0
  <2>1. /\ pc' = [pc EXCEPT ![t] = "drain"] /\ writerCv' = writerCv \cup {t}
        /\ writerEntered' = TRUE /\ UNCHANGED <<readerCv, readerCount>>
    BY Zenon, <1>2 DEF WLock, Goto
  <2>2. TypeOK'
    BY Zenon, <2>1 DEF TypeOK, Places
  <2>3. At("reading")' = At("reading")
    BY ZenonT(30), <1>0, <2>1, SameReaders DEF Places
  <2>4. Entered = {}
    BY Zenon, <1>2 DEF EnteredInv
  <2>5. Entered' = {t} /\ At("writing")' = {}
    BY Zenon, <2>1, <2>4 DEF Entered, At, TypeOK
  <2>6. SleepInv'
    BY Zenon, <1>0, <1>2, <2>1 DEF SleepInv, At, TypeOK
  <2> QED
    BY Zenon, <2>1, <2>2, <2>3, <2>5, <2>6 DEF CountInv, EnteredInv, WriterInv
<1>3. CASE ~writerEntered /\ ~(readerCount > 0)
  <2>1. /\ pc' = [pc EXCEPT ![t] = "writing"] /\ writerEntered' = TRUE
        /\ UNCHANGED <<readerCv, readerCount, writerCv>>
    BY Zenon, <1>3 DEF WLock, Goto
  <2>2. TypeOK'
    BY Zenon, <2>1 DEF TypeOK, Places
  <2>3. At("reading")' = At("reading")
    BY ZenonT(30), <1>0, <2>1, SameReaders DEF Places
  <2>4. Entered = {}
    BY Zenon, <1>3 DEF EnteredInv
  <2>5. Entered' = {t}
    BY Zenon, <2>1, <2>4 DEF Entered, TypeOK
  <2>6. At("reading") = {}
    BY <1>3, ReadersFinite DEF CountInv, TypeOK
  <2>7. SleepInv'
    BY Zenon, <1>3, <1>0, <2>1 DEF SleepInv, At, TypeOK
  <2> QED
    BY Zenon, <2>1, <2>2, <2>3, <2>5, <2>6, <2>7 DEF CountInv, EnteredInv, WriterInv
<1> QED
  BY Zenon, <1>1, <1>2, <1>3

\* The second loop of WLock keeps the invariant.
LEMMA WLockDrainStep ==
  ASSUME LatchInv, NEW t \in Threads, WLockDrain(t)
  PROVE  LatchInv'
<1> USE DEF LatchInv
<1>0. pc[t] = "drain" /\ t \notin writerCv /\ UNCHANGED <<readerCount, writerEntered, readerCv>>
  BY Zenon DEF WLockDrain
<1>1. CASE readerCount > 0
  <2>1. writerCv' = writerCv \cup {t} /\ UNCHANGED pc
    BY Zenon, <1>1 DEF WLockDrain
  <2> QED
    BY <1>0, <1>1, <2>1 DEF TypeOK, CountInv, EnteredInv, WriterInv, SleepInv, At, Entered
<1>2. CASE ~(readerCount > 0)
  <2>1. pc' = [pc EXCEPT ![t] = "writing"] /\ UNCHANGED writerCv
    BY Zenon, <1>2 DEF WLockDrain, Goto
  <2>2. TypeOK'
    BY Zenon, <1>0, <2>1 DEF TypeOK, Places
  <2>3. At("reading")' = At("reading")
    BY ZenonT(30), <1>0, <2>1, SameReaders DEF Places
  <2>4. Entered' = Entered
    BY Zenon, <1>0, <2>1 DEF Entered, TypeOK
  <2>5. At("reading") = {}
    BY <1>2, ReadersFinite DEF CountInv, TypeOK
  <2>6. SleepInv'
    BY Zenon, <1>0, <1>2, <2>1 DEF SleepInv, At, TypeOK
  <2> QED
    BY Zenon, <1>0, <2>1, <2>2, <2>3, <2>4, <2>5, <2>6 DEF CountInv, EnteredInv, WriterInv
<1> QED
  BY Zenon, <1>1, <1>2

\* WUnlock keeps the invariant.
LEMMA WUnlockStep ==
  ASSUME LatchInv, NEW t \in Threads, WUnlock(t)
  PROVE  LatchInv'
<1> USE DEF LatchInv
<1>1. /\ pc[t] = "writing" /\ pc' = [pc EXCEPT ![t] = "idle"]
      /\ writerEntered' = FALSE /\ readerCv' = {} /\ UNCHANGED <<readerCount, writerCv>>
  BY Zenon DEF WUnlock, Goto
<1>2. TypeOK'
  BY ZenonT(30), <1>1 DEF TypeOK, Places
<1>3. At("reading")' = At("reading")
  BY ZenonT(30), <1>1, SameReaders DEF Places
<1>4. Entered' = {} /\ At("writing")' = {}
  BY Zenon, <1>1 DEF EnteredInv, Entered, At, TypeOK
<1>5. SleepInv'
  BY Zenon, <1>1 DEF SleepInv, At, TypeOK
<1> QED
  BY Zenon, <1>1, <1>2, <1>3, <1>4, <1>5 DEF CountInv, EnteredInv, WriterInv

\* RLock keeps the invariant.
LEMMA RLockStep ==
  ASSUME LatchInv, NEW t \in Threads, RLock(t)
  PROVE  LatchInv'
<1> USE DEF LatchInv
<1>0. pc[t] \in {"idle", "await"} /\ UNCHANGED <<writerEntered, writerCv>>
  BY Zenon DEF RLock
<1>1. CASE writerEntered
  <2>1. /\ pc' = [pc EXCEPT ![t] = "await"] /\ readerCv' = readerCv \cup {t}
        /\ UNCHANGED readerCount
    BY Zenon, <1>1 DEF RLock, Goto
  <2>2. TypeOK'
    BY Zenon, <1>0, <2>1 DEF TypeOK, Places
  <2>3. At("reading")' = At("reading")
    BY ZenonT(30), <1>0, <2>1, SameReaders DEF Places
  <2>4. Entered' = Entered /\ At("writing")' = At("writing")
    BY Zenon, <1>0, <2>1 DEF Entered, At, TypeOK
  <2>5. SleepInv'
    BY ZenonT(30), <1>0, <1>1, <2>1 DEF SleepInv, At, TypeOK
  <2> QED
    BY Zenon, <1>0, <2>1, <2>2, <2>3, <2>4, <2>5 DEF CountInv, EnteredInv, WriterInv
<1>2. CASE ~writerEntered
  <2>1. /\ pc' = [pc EXCEPT ![t] = "reading"] /\ readerCount' = readerCount + 1
        /\ UNCHANGED readerCv
    BY Zenon, <1>2 DEF RLock, Goto
  <2>2. TypeOK'
    BY <1>0, <2>1 DEF TypeOK, Places
  <2>3. At("reading")' = At("reading") \cup {t} /\ t \notin At("reading")
    BY Zenon, <1>0, <2>1 DEF At, TypeOK
  <2>4. Cardinality(At("reading") \cup {t}) = Cardinality(At("reading")) + 1
    BY Zenon, <2>3, ReadersFinite, FS_AddElement
  <2>5. Entered = {} /\ Entered' = {} /\ At("writing")' = {}
    BY Zenon, <1>0, <1>2, <2>1 DEF EnteredInv, Entered, At, TypeOK
  <2>6. SleepInv'
    BY <1>0, <1>2, <2>1 DEF SleepInv, At, TypeOK
  <2> QED
    BY Zenon, <1>0, <1>2, <2>1, <2>2, <2>3, <2>4, <2>5, <2>6 DEF CountInv, EnteredInv, WriterInv
<1> QED
  BY Zenon, <1>1, <1>2

\* RUnlock keeps the invariant.  The last reader out leaves no writer asleep: the
\* only thread that can sleep on writer_ is the one that has entered.
LEMMA RUnlockStep ==
  ASSUME LatchInv, NEW t \in Threads, RUnlock(t)
  PROVE  LatchInv'
<1> USE DEF LatchInv
<1>1. /\ pc[t] = "reading" /\ pc' = [pc EXCEPT ![t] = "idle"]
      /\ readerCount' = readerCount - 1 /\ UNCHANGED <<writerEntered, readerCv>>
  BY Zenon DEF RUnlock, Goto
<1>2. At("reading")' = At("reading") \ {t} /\ t \in At("reading")
  BY Zenon, <1>1 DEF At, TypeOK
<1>3. Cardinality(At("reading") \ {t}) = Cardinality(At("reading")) - 1
  BY Zenon, <1>2, ReadersFinite, FS_RemoveElement
<1>4. readerCount > 0
  BY <1>2, ReadersFinite DEF CountInv, TypeOK
<1>5. writerCv' \subseteq writerCv
  BY Zenon DEF RUnlock, NotifyWriter
<1>6. TypeOK'
  BY <1>1, <1>4, <1>5 DEF TypeOK, Places
<1>7. Entered' = Entered /\ At("writing")' = At("writing")
  BY Zenon, <1>1 DEF Entered, At, TypeOK
<1>8. writerCv' # {} => readerCount' > 0
  <2> SUFFICES ASSUME writerCv' # {}, readerCount = 1 PROVE FALSE
    BY <1>1, <1>4, <1>6 DEF TypeOK
  <2>1. PICK w \in writerCv : w \in writerCv'
    BY Zenon, <1>5
  <2>2. writerCv \subseteq Entered
    BY Zenon DEF SleepInv, At, Entered
  <2>3. writerEntered
    BY Zenon, <2>1, <2>2 DEF EnteredInv
  <2>4. PICK v \in writerCv : writerCv' = writerCv \ {v}
    BY Zenon, <2>1, <2>3 DEF RUnlock, NotifyWriter
  <2>5. v = w
    BY Zenon, <2>1, <2>2, <2>4 DEF EnteredInv
  <2> QED
    BY Zenon, <2>1, <2>4, <2>5
<1>9. SleepInv'
  BY Zenon, <1>1, <1>5, <1>8 DEF SleepInv, At, TypeOK
<1> QED
  BY ZenonT(30), <1>1, <1>2, <1>3, <1>6, <1>7, <1>9 DEF CountInv, EnteredInv, WriterInv

\* Every step keeps the invariant.
LEMMA LatchInvStep == LatchInv /\ [Next]_vars => LatchInv'
<1> SUFFICES ASSUME LatchInv, [Next]_vars PROVE LatchInv'
  BY Zenon
<1>1. CASE UNCHANGED vars
  BY ZenonT(30), <1>1 DEF vars, LatchInv, TypeOK, CountInv, EnteredInv, WriterInv, SleepInv, At, Entered
<1>2. ASSUME NEW t \in Threads, Spurious(t)
      PROVE  LatchInv'
  BY ZenonT(30), <1>2 DEF Spurious, LatchInv, TypeOK, CountInv, EnteredInv, WriterInv, SleepInv, At, Entered
<1> QED
  BY Zenon, <1>1, <1>2, WLockStep, WLockDrainStep, WUnlockStep, RLockStep, RUnlockStep DEF Next

-----------------------------------------------------------------------------
\* The latch's flag, count and condition variables always mean what LatchInv says.
THEOREM LatchInvariance == Spec => []LatchInv
BY LatchInvInit, LatchInvStep, PTL DEF Spec

\* A thread inside WLock...WUnlock is alone: Exclusion, for any set of threads.
THEOREM LatchExclusion == Spec => []Exclusion
<1>1. LatchInv => Exclusion
  BY Zenon DEF LatchInv, EnteredInv, WriterInv, Exclusion, At, Entered
<1> QED
  BY <1>1, LatchInvariance, PTL

\* Nobody sleeps on reader_ or writer_ without a thread inside that will wake it.
THEOREM LatchWakes == Spec => []NobodyForgotten
<1>1. ASSUME LatchInv PROVE NobodyForgotten
  <2>1. readerCv # {} => \E t \in Threads : pc[t] \in {"drain", "writing"}
    BY Zenon, <1>1 DEF LatchInv, SleepInv, EnteredInv, Entered
  <2>2. writerCv # {} => At("reading") # {}
    BY <1>1, ReadersFinite DEF LatchInv, SleepInv, CountInv, TypeOK
  <2> QED
    BY Zenon, <2>1, <2>2 DEF NobodyForgotten
<1> QED
  BY <1>1, LatchInvariance, PTL

=============================================================================
