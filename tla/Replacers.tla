----------------------------- MODULE Replacers -----------------------------
(***************************************************************************)
(* A buffer pool creates one of the two implementations of replacer.h and  *)
(* keeps it: LRUReplacer or ClockReplacer.  Both are to deliver what       *)
(* module Replacer, and the pool, expect.                                  *)
(***************************************************************************)
EXTENDS Integers, FiniteSets

CONSTANTS Frames, Capacity, NoFrame

ASSUME FramesAssumption == IsFiniteSet(Frames) /\ NoFrame \notin Frames
ASSUME CapacityAssumption == Capacity \in Nat \ {0} /\ 0 .. Capacity - 1 \subseteq Frames

VARIABLES
  kind,                                                    \* the class of replacer_
  lruList, lruMap, newer,                                  \* of LRUReplacer
  inClock, refBits, hand, size, scanning, rounds, age,     \* of ClockReplacer
  out                                                      \* of either

lruVars == <<lruList, lruMap, newer>>
clockVars == <<inClock, refBits, hand, size, scanning, rounds, age>>
vars == <<kind, lruVars, clockVars, out>>

LRU   == INSTANCE LRUReplacer
Clock == INSTANCE ClockReplacer

Init == kind \in {"lru", "clock"} /\ LRU!Init /\ Clock!Init

Next ==
  \/ kind = "lru" /\ LRU!Next /\ UNCHANGED <<kind, clockVars>>
  \/ kind = "clock" /\ Clock!Next /\ UNCHANGED <<kind, lruVars>>

Spec == Init /\ [][Next]_vars

-----------------------------------------------------------------------------
\* LRUReplacer: the victim is the frame that has been evictable longest.  Nothing
\* left in the replacer was there before it, however frames were pinned, unpinned
\* again and unpinned twice in between.
LeastRecentFirst ==
  [][LRU!Victim => \A g \in lruMap' : <<g, out'>> \notin newer]_vars

\* ClockReplacer: "The loop is guaranteed to terminate": "in the worst case the hand
\* makes up to 2 full rotations before finding a victim."
TwoRotations == rounds <= 2 * Capacity

\* ClockReplacer: "Recently accessed frames survive one full rotation of the clock
\* hand before eviction" (clock_replacer.cpp:112-113), counted from the last Unpin
\* of the frame, also when it was in the clock then.  Were that Unpin the no-op that
\* clock_replacer.cpp:92-93 calls it, this would not hold (UnpinNoOp).
SecondChance ==
  [][\A f \in inClock \ inClock' : Clock!VictimFound => age'[f] > Capacity]_vars

Abstract == INSTANCE Replacer WITH evictable <- IF kind = "lru" THEN lruMap ELSE inClock

\* Either is a replacer: Victim reports an evictable frame and takes exactly that
\* one out, and reports none only if none is evictable, although LRUReplacer looks
\* at lru_list_ and lru_map_, and ClockReplacer at size_ and in_clock_, for it.
ImplementsReplacer == Abstract!Spec

=============================================================================
