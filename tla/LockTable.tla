----------------------------- MODULE LockTable -----------------------------
(***************************************************************************)
(* What the lock manager promises its clients, without queues, flags,      *)
(* counters or threads: a table of who holds which row in which mode.      *)
(***************************************************************************)
CONSTANTS Txns, Rows

VARIABLES shared, exclusive      \* who holds what: [Txns -> SUBSET Rows]

vars == <<shared, exclusive>>

Free(r)        == \A t \in Txns : r \notin shared[t] \cup exclusive[t]
Unwritten(r)   == \A t \in Txns : r \notin exclusive[t]
OnlyReader(t, r) == \A u \in Txns \ {t} : r \notin shared[u] \cup exclusive[u]

Init ==
  /\ shared = [t \in Txns |-> {}]
  /\ exclusive = [t \in Txns |-> {}]

AcquireShared(t, r) ==
  /\ Unwritten(r)
  /\ r \notin shared[t]
  /\ shared' = [shared EXCEPT ![t] = @ \cup {r}]
  /\ UNCHANGED exclusive

AcquireExclusive(t, r) ==
  /\ Free(r)
  /\ exclusive' = [exclusive EXCEPT ![t] = @ \cup {r}]
  /\ UNCHANGED shared

Upgrade(t, r) ==
  /\ r \in shared[t]
  /\ OnlyReader(t, r)
  /\ shared' = [shared EXCEPT ![t] = @ \ {r}]
  /\ exclusive' = [exclusive EXCEPT ![t] = @ \cup {r}]

Release(t, r) ==
  /\ r \in shared[t] \cup exclusive[t]
  /\ shared' = [shared EXCEPT ![t] = @ \ {r}]
  /\ exclusive' = [exclusive EXCEPT ![t] = @ \ {r}]

Next == \E t \in Txns, r \in Rows :
  AcquireShared(t, r) \/ AcquireExclusive(t, r) \/ Upgrade(t, r) \/ Release(t, r)

Spec == Init /\ [][Next]_vars

=============================================================================
