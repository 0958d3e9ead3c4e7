--------------------------- MODULE ClockReplacer ---------------------------
(***************************************************************************)
(* The clock replacer (clock_replacer.cpp).  Each operation holds latch_:  *)
(* while the loop of Victim runs no other operation does, so the loop's    *)
(* rounds are the only steps then.  The frames of a pool are numbered      *)
(* below capacity_, so that Pin and Unpin do not return at their checks    *)
(* of frame_id.                                                            *)
(***************************************************************************)
EXTENDS Integers, FiniteSets

CONSTANTS
  Capacity,  \* capacity_
  NoFrame    \* no frame reported

VARIABLES
  inClock,   \* frames with in_clock_ set
  refBits,   \* frames with ref_bits_ set
  hand,      \* clock_hand_
  size,      \* size_
  scanning,  \* Victim is in its loop
  rounds,    \* rounds of the loop so far, up to RoundBound
  out,       \* *frame_id of the last call
  age        \* history: rounds since the frame was last unpinned, up to AgeBound

vars == <<inClock, refBits, hand, size, scanning, rounds, out, age>>

Ring == 0 .. Capacity - 1
AgeBound == Capacity + 1
RoundBound == 2 * Capacity + 1

Init ==
  /\ inClock = {} /\ refBits = {} /\ hand = 0 /\ size = 0
  /\ scanning = FALSE /\ rounds = 0 /\ out = NoFrame
  /\ age = [f \in Ring |-> 0]

VictimEmpty ==
  /\ ~scanning /\ size = 0
  /\ out' = NoFrame
  /\ UNCHANGED <<inClock, refBits, hand, size, scanning, rounds, age>>

VictimBegin ==
  /\ ~scanning /\ size # 0
  /\ scanning' = TRUE /\ rounds' = 0
  /\ UNCHANGED <<inClock, refBits, hand, size, out, age>>

Advance ==
  /\ hand' = (hand + 1) % Capacity
  /\ rounds' = IF rounds < RoundBound THEN rounds + 1 ELSE rounds
  /\ age' = [f \in Ring |-> IF age[f] < AgeBound THEN age[f] + 1 ELSE age[f]]

\* The frame under the hand is not in the clock, or gets its second chance.
VictimSkipKeepsBit ==
  /\ scanning
  /\ Advance
  /\ hand' \in inClock => hand' \in refBits
  /\ UNCHANGED <<refBits, inClock, size, scanning, out>>
VictimSkip ==
  /\ scanning
  /\ Advance
  /\ hand' \in inClock => hand' \in refBits
  /\ refBits' = IF hand' \in inClock THEN refBits \ {hand'} ELSE refBits
  /\ UNCHANGED <<inClock, size, scanning, out>>

VictimFoundStays ==
  /\ scanning
  /\ Advance
  /\ hand' \in inClock \ refBits
  /\ size' = size - 1
  /\ out' = hand'
  /\ scanning' = FALSE
  /\ UNCHANGED <<inClock, refBits>>
VictimFound ==
  /\ scanning
  /\ Advance
  /\ hand' \in inClock \ refBits
  /\ inClock' = inClock \ {hand'}
  /\ refBits' = refBits \ {hand'}
  /\ size' = size - 1
  /\ out' = hand'
  /\ scanning' = FALSE

Pin(f) ==
  /\ ~scanning
  /\ out' = NoFrame
  /\ IF f \in inClock
     THEN inClock' = inClock \ {f} /\ refBits' = refBits \ {f} /\ size' = size - 1
     ELSE UNCHANGED <<inClock, refBits, size>>
  /\ UNCHANGED <<hand, scanning, rounds, age>>

\* A frame that is in the clock already has its reference bit set again, by the code
\* (clock_replacer.cpp:111-114); the function's own comment says that "this is a
\* no-op (it keeps its current reference bit and position)".
UnpinNoOp(f) ==
  /\ ~scanning
  /\ inClock' = inClock \cup {f}
  /\ refBits' = IF f \in inClock THEN refBits ELSE refBits \cup {f}
  /\ size' = IF f \in inClock THEN size ELSE size + 1
  /\ out' = NoFrame
  /\ age' = [age EXCEPT ![f] = 0]
  /\ UNCHANGED <<hand, scanning, rounds>>
Unpin(f) ==
  /\ ~scanning
  /\ inClock' = inClock \cup {f}
  /\ refBits' = refBits \cup {f}
  /\ size' = IF f \in inClock THEN size ELSE size + 1
  /\ out' = NoFrame
  /\ age' = [age EXCEPT ![f] = 0]
  /\ UNCHANGED <<hand, scanning, rounds>>

Loop == VictimSkip \/ VictimFound

Next == VictimEmpty \/ VictimBegin \/ Loop \/ \E f \in Ring : Pin(f) \/ Unpin(f)

Spec == Init /\ [][Next]_vars

=============================================================================
