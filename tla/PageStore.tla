----------------------------- MODULE PageStore -----------------------------
(***************************************************************************)
(* What the buffer pool promises its callers: a map from page ids to       *)
(* contents.  A new page is zeroed, a page changes only when a caller      *)
(* writes to it, and moving pages between memory and disk is invisible.    *)
(***************************************************************************)
CONSTANTS Pages, Values, Zero, Absent

VARIABLE content

Init == content = [p \in Pages |-> Absent]

Create(p) == content[p] = Absent /\ content' = [content EXCEPT ![p] = Zero]
Write(p, v) == content[p] # Absent /\ content' = [content EXCEPT ![p] = v]
Delete(p) == content[p] # Absent /\ content' = [content EXCEPT ![p] = Absent]

Next == \E p \in Pages : Create(p) \/ Delete(p) \/ \E v \in Values : Write(p, v)

Spec == Init /\ [][Next]_content

=============================================================================
