------------------------------ MODULE Replacer ------------------------------
(***************************************************************************)
(* What the buffer pool expects of a replacer (replacer.h): a set of       *)
(* evictable frames.  Victim takes out and reports one of them, or reports *)
(* nothing when there are none.                                            *)
(***************************************************************************)
CONSTANTS Frames, NoFrame

VARIABLES evictable, out   \* out: what the last call reported

Init == evictable = {} /\ out = NoFrame

Pin(f)   == evictable' = evictable \ {f} /\ out' = NoFrame
Unpin(f) == evictable' = evictable \cup {f} /\ out' = NoFrame
Victim(f) == f \in evictable /\ evictable' = evictable \ {f} /\ out' = f
NoVictim == evictable = {} /\ out' = NoFrame /\ UNCHANGED evictable

Next == NoVictim \/ \E f \in Frames : Pin(f) \/ Unpin(f) \/ Victim(f)

Spec == Init /\ [][Next]_<<evictable, out>>

=============================================================================
