-------------------------- MODULE LockWaitProofs ---------------------------
(***************************************************************************)
(* What the lock manager promises, for any finite set of transactions, any *)
(* set of rows, and any of them aborted by other threads or upgrading.     *)
(*                                                                         *)
(* The counter and the flag of a queue agree with the lock sets, which     *)
(* gives mutual exclusion and the lock table.  With the invariants of      *)
(* LockManagerProofs every step that can end a thread's reason to wait is  *)
(* seen to notify it, the upgrade flag to belong to a thread that waits,   *)
(* and every edge of the detector's graph to leave from a transaction that *)
(* cannot go on.                                                           *)
(***************************************************************************)
EXTENDS LockManagerProofs, FiniteSetTheorems, WellFoundedInduction

-----------------------------------------------------------------------------
(* The graph of the detector. *)

\* Who lies on a cycle has an edge out of it.
LEMMA VictimHasEdge ==
  ASSUME NEW edges, NEW t \in Txns, NewestOnCycle(edges, t)
  PROVE  \E e \in edges : e[1] = t
<1>1. {} \in SUBSET Txns
  BY Zenon
<1>2. ~ \A e \in {e \in edges : e[1] <= t /\ e[2] <= t} : e[1] \in {} \cup {t} => e[2] \in {}
  BY ZenonT(30), <1>1 DEF NewestOnCycle
<1> QED
  BY ZenonT(30), <1>2

\* A finite set of ids that is not empty has a largest one.
LEMMA Newest ==
  ASSUME NEW X, X \subseteq Txns, X # {}
  PROVE  \E m \in X : \A x \in X : x <= m
<1> DEFINE Above(x) == {y \in X : y > x}
           Sizes == {Cardinality(Above(x)) : x \in X}
           Less == {ss \in Nat \X Nat : ss[1] < ss[2]}
<1> X \subseteq Nat /\ IsFiniteSet(X)
  BY ZenonT(30), TxnsAssumption, FS_Subset
<1>2. \A x \in X : IsFiniteSet(Above(x)) /\ Cardinality(Above(x)) \in Nat
  BY Zenon, FS_Subset, FS_CardinalityType
<1>3. Sizes \subseteq Nat /\ Sizes # {}
  BY ZenonT(30), <1>2
<1>4. IsWellFoundedOn(Less, Nat)
  BY Zenon, NatLessThanWellFounded DEF OpToRel
<1> HIDE DEF Less
<1>5. PICK n \in Sizes : \A k \in Sizes : ~ (<<k, n>> \in Less)
  BY ZenonT(30), <1>3, <1>4, WFMin
<1>6. PICK m \in X : n = Cardinality(Above(m))
  BY Zenon
<1>7. ASSUME NEW x \in X, x > m PROVE FALSE
  <2>1. Above(x) \subseteq Above(m) /\ Above(x) # Above(m)
    <3>1. x \in Above(m) /\ x \notin Above(x)
      BY <1>7
    <3>2. \A y \in X : y > x => y > m
      BY <1>7
    <3> QED
      BY ZenonT(30), <3>1, <3>2
  <2>2. Cardinality(Above(x)) < Cardinality(Above(m))
    <3>1. PICK A, B : A = Above(x) /\ B = Above(m)
      BY Zenon
    <3>2. A \in SUBSET B /\ A # B /\ IsFiniteSet(B) /\ Cardinality(A) \in Nat /\ Cardinality(B) \in Nat
      BY Zenon, <1>2, <2>1, <3>1
    <3>3. Cardinality(A) <= Cardinality(B) /\ Cardinality(A) # Cardinality(B)
      BY Zenon, <3>2, FS_Subset
    <3> QED
      BY <3>1, <3>2, <3>3
  <2>3. Cardinality(Above(x)) \in Sizes
    BY Zenon
  <2> QED
    BY ZenonT(30), <1>2, <1>5, <1>6, <2>2, <2>3 DEF Less
<1> QED
  BY <1>7

\* A graph in which every member of some set has a successor in the set has a cycle, and
\* one whose newest member HasCycle may answer.
LEMMA CycleHasVictim ==
  ASSUME NEW edges, NEW D, D \subseteq Txns, D # {},
         \A t \in D : \E u \in D : <<t, u>> \in edges
  PROVE  Victims(edges) # {}
<1> DEFINE Goes(X) == X # {} /\ \A t \in X : \E u \in X : <<t, u>> \in edges
           Tops == {m \in Txns : \E X \in SUBSET Txns : Goes(X) /\ \A x \in X : x <= m}
           Less == {ss \in Nat \X Nat : ss[1] < ss[2]}
<1>1. ASSUME NEW X \in SUBSET Txns, Goes(X) PROVE \E m \in X : m \in Tops /\ \A x \in X : x <= m
  <2>1. PICK m \in X : \A x \in X : x <= m
    BY ZenonT(30), <1>1, Newest
  <2> QED
    BY ZenonT(30), <1>1, <2>1
<1>2. Tops # {} /\ Tops \subseteq Nat
  <2>1. Goes(D) /\ D \in SUBSET Txns
    BY Zenon
  <2>2. PICK m \in D : m \in Tops
    BY ZenonT(30), <1>1, <2>1
  <2> QED
    BY ZenonT(30), <2>2, TxnsAssumption
<1>3. IsWellFoundedOn(Less, Nat)
  BY Zenon, NatLessThanWellFounded DEF OpToRel
<1> HIDE DEF Less
<1>4. PICK m \in Tops : \A k \in Tops : ~ (<<k, m>> \in Less)
  BY ZenonT(30), <1>2, <1>3, WFMin
<1>5. ASSUME NEW k \in Tops PROVE m <= k
  <2>1. k \in Nat /\ m \in Nat
    BY Zenon, <1>2, <1>4
  <2>2. ~ (<<k, m>> \in Less)
    BY Zenon, <1>4
  <2> HIDE DEF Tops
  <2> QED
    BY <2>1, <2>2 DEF Less
<1>6. PICK X \in SUBSET Txns : Goes(X) /\ \A x \in X : x <= m
  BY Zenon, <1>4
<1>7. m \in Txns /\ m \in Nat /\ \A x \in Txns : x \in Nat
  BY ZenonT(30), <1>4, TxnsAssumption
<1>8. m \in X
  <2>1. PICK k \in X : k \in Tops
    BY ZenonT(30), <1>1, <1>6
  <2>2. k <= m /\ m <= k
    BY Zenon, <1>5, <1>6, <2>1
  <2> QED
    BY <1>7, <2>1, <2>2
<1>9. NewestOnCycle(edges, m)
  <2> DEFINE older == {e \in edges : e[1] <= m /\ e[2] <= m}
  <2> SUFFICES ASSUME NEW S \in SUBSET Txns, \A e \in older : e[1] \in S \cup {m} => e[2] \in S,
                      m \notin S
               PROVE  FALSE
    BY Zenon DEF NewestOnCycle
  <2>1. ASSUME NEW y \in X, y \in S \cup {m} PROVE \E u \in S \cap X : <<y, u>> \in edges
    <3>1. PICK u \in X : <<y, u>> \in edges
      BY Zenon, <1>6
    <3>2. <<y, u>> \in older /\ <<y, u>>[1] = y /\ <<y, u>>[2] = u
      BY Zenon, <1>6, <3>1
    <3> QED
      BY Zenon, <2>1, <3>1, <3>2
  <2>2. Goes(S \cap X) /\ S \cap X \in SUBSET Txns
    BY ZenonT(30), <1>8, <2>1
  <2>3. PICK k \in S \cap X : k \in Tops
    BY ZenonT(30), <1>1, <2>2
  <2>4. k <= m /\ m <= k
    BY ZenonT(30), <1>5, <1>6, <2>3
  <2> QED
    BY <1>7, <2>3, <2>4
<1> QED
  BY ZenonT(30), <1>7, <1>9 DEF Victims

-----------------------------------------------------------------------------
(* Counter, flag and lock sets. *)

CountInv == QueueMatchesLockSets /\ MutualExclusion

\* Sets of holders are finite, so sharing_cnt_ can count them.
LEMMA HoldersFinite ==
  ASSUME NEW r \in Rows
  PROVE  IsFiniteSet(SharedHolders(r)) /\ Cardinality(SharedHolders(r)) \in Nat
<1>1. SharedHolders(r) \in SUBSET Txns
  BY Zenon DEF SharedHolders
<1>2. IsFiniteSet(SharedHolders(r))
  BY ZenonT(30), <1>1, TxnsAssumption, FS_Subset
<1> QED
  BY ZenonT(30), <1>2, FS_CardinalityType

\* A step leaves the queue's counter and flag in agreement with the lock sets.
LEMMA QueueStep == LockInv /\ CountInv /\ [Next]_vars => QueueMatchesLockSets'
<1> SUFFICES ASSUME LockInv, CountInv, [Next]_vars, NEW q \in Rows
             PROVE  /\ sharingCnt'[q] = Cardinality(SharedHolders(q)')
                    /\ isWriting'[q] <=> ExclusiveHolders(q)' # {}
  BY Zenon DEF QueueMatchesLockSets
<1>   /\ LockTypes /\ GrantsMatch /\ MutualExclusion
      /\ sharingCnt[q] = Cardinality(SharedHolders(q))
      /\ isWriting[q] <=> ExclusiveHolders(q) # {}
  BY Zenon DEF LockInv, CountInv, TypeOK, QueueMatchesLockSets
<1>1. CASE UNCHANGED HoldVars
  BY Zenon, <1>1 DEF HoldVars, SharedHolders, ExclusiveHolders
<1>2. ASSUME NEW t \in Txns, NEW r \in Rows, GrantShared(t, r), granted[r][t] = "None"
      PROVE  /\ sharingCnt'[q] = Cardinality(SharedHolders(q)')
             /\ isWriting'[q] <=> ExclusiveHolders(q)' # {}
  <2>1. SharedHolders(q)' = IF q = r THEN SharedHolders(q) \cup {t} ELSE SharedHolders(q)
    BY ZenonT(30), <1>2 DEF GrantShared, SharedHolders, LockTypes
  <2>2. q = r => t \notin SharedHolders(q)
    BY ZenonT(30), <1>2 DEF SharedHolders, GrantsMatch
  <2>3. sharingCnt'[q] = IF q = r THEN sharingCnt[q] + 1 ELSE sharingCnt[q]
    BY ZenonT(30), <1>2 DEF GrantShared, LockTypes
  <2>4. ExclusiveHolders(q)' = ExclusiveHolders(q) /\ isWriting'[q] = isWriting[q]
    BY ZenonT(30), <1>2 DEF GrantShared, ExclusiveHolders
  <2>5. q = r => Cardinality(SharedHolders(q) \cup {t}) = Cardinality(SharedHolders(q)) + 1
    BY ZenonT(30), <2>2, HoldersFinite, FS_AddElement
  <2> QED
    BY ZenonT(30), <2>1, <2>3, <2>4, <2>5
<1>3. ASSUME NEW t \in Txns, NEW r \in Rows, GrantExclusive(t, r)
      PROVE  /\ sharingCnt'[q] = Cardinality(SharedHolders(q)')
             /\ isWriting'[q] <=> ExclusiveHolders(q)' # {}
  <2>1. SharedHolders(q)' = SharedHolders(q) /\ sharingCnt'[q] = sharingCnt[q]
    BY Zenon, <1>3 DEF GrantExclusive, SharedHolders
  <2>2. ExclusiveHolders(q)' = IF q = r THEN ExclusiveHolders(q) \cup {t} ELSE ExclusiveHolders(q)
    BY ZenonT(30), <1>3 DEF GrantExclusive, ExclusiveHolders, LockTypes
  <2>3. isWriting'[q] <=> q = r \/ isWriting[q]
    BY ZenonT(30), <1>3 DEF GrantExclusive, LockTypes
  <2> QED
    BY ZenonT(30), <2>1, <2>2, <2>3
<1>4. ASSUME NEW t \in Txns, NEW r \in Rows, GrantUpgrade(t, r), granted[r][t] = "S"
      PROVE  /\ sharingCnt'[q] = Cardinality(SharedHolders(q)')
             /\ isWriting'[q] <=> ExclusiveHolders(q)' # {}
  <2>1. SharedHolders(q)' = IF q = r THEN SharedHolders(q) \ {t} ELSE SharedHolders(q)
    BY Zenon, <1>4 DEF GrantUpgrade, SharedHolders, LockTypes
  <2>2. q = r => t \in SharedHolders(q)
    BY Zenon, <1>4 DEF SharedHolders, GrantsMatch
  <2>3. sharingCnt'[q] = IF q = r THEN sharingCnt[q] - 1 ELSE sharingCnt[q]
    BY Zenon, <1>4 DEF GrantUpgrade, LockTypes
  <2>4. ExclusiveHolders(q)' = IF q = r THEN ExclusiveHolders(q) \cup {t} ELSE ExclusiveHolders(q)
    BY ZenonT(30), <1>4 DEF GrantUpgrade, ExclusiveHolders, LockTypes
  <2>5. isWriting'[q] <=> q = r \/ isWriting[q]
    BY ZenonT(30), <1>4 DEF GrantUpgrade, LockTypes
  <2>6. q = r => Cardinality(SharedHolders(q) \ {t}) = Cardinality(SharedHolders(q)) - 1
    BY ZenonT(30), <2>2, HoldersFinite, FS_RemoveElement
  <2> QED
    BY <2>1, <2>3, <2>4, <2>5, <2>6
<1>5. ASSUME NEW t \in Txns, NEW r \in Rows, Unlock(t, r), mode[r][t] # "None"
      PROVE  /\ sharingCnt'[q] = Cardinality(SharedHolders(q)')
             /\ isWriting'[q] <=> ExclusiveHolders(q)' # {}
  <2>   /\ sharedSet' = [sharedSet EXCEPT ![t] = @ \ {r}]
        /\ exclusiveSet' = [exclusiveSet EXCEPT ![t] = @ \ {r}]
        /\ sharingCnt' = [sharingCnt EXCEPT ![r] = IF r \in sharedSet[t] THEN @ - 1 ELSE @]
        /\ r \in exclusiveSet[t] => isWriting' = [isWriting EXCEPT ![r] = FALSE]
        /\ r \notin exclusiveSet[t] => isWriting' = isWriting
    BY ZenonT(30), <1>5, UnlockEffect
  <2>1. SharedHolders(q)' = IF q = r THEN SharedHolders(q) \ {t} ELSE SharedHolders(q)
    BY Zenon DEF SharedHolders, LockTypes
  <2>2. sharingCnt'[q] = IF q = r /\ t \in SharedHolders(q) THEN sharingCnt[q] - 1
                                                            ELSE sharingCnt[q]
    BY DEF SharedHolders, LockTypes
  <2>3. ExclusiveHolders(q)' = IF q = r THEN ExclusiveHolders(q) \ {t} ELSE ExclusiveHolders(q)
    BY Zenon DEF ExclusiveHolders, LockTypes
  <2>4. isWriting'[q] <=> isWriting[q] /\ ~(q = r /\ t \in ExclusiveHolders(q))
    BY Zenon DEF ExclusiveHolders, LockTypes
  <2>5. t \in ExclusiveHolders(q) => ExclusiveHolders(q) = {t}
    BY DEF MutualExclusion
  <2>6. Cardinality(SharedHolders(q) \ {t}) =
          IF t \in SharedHolders(q) THEN Cardinality(SharedHolders(q)) - 1
                                    ELSE Cardinality(SharedHolders(q))
    BY ZenonT(30), HoldersFinite, FS_RemoveElement
  <2>7. sharingCnt'[q] = Cardinality(SharedHolders(q)')
    BY Zenon, <2>1, <2>2, <2>6
  <2> QED
    BY ZenonT(30), <2>3, <2>4, <2>5, <2>7
<1> QED
  BY <1>1, <1>2, <1>3, <1>4, <1>5, Classify DEF HoldStep

\* LockUpgrade's loop ends with the upgrader as the only reader.
LEMMA LoneHolder ==
  ASSUME LockTypes, QueueMatchesLockSets, NEW r \in Rows, NEW t \in SharedHolders(r),
         ~UpgradeBlocked(r)
  PROVE  SharedHolders(r) = {t}
<1>1. Cardinality(SharedHolders(r)) <= 1
  BY HoldersFinite DEF UpgradeBlocked, QueueMatchesLockSets
<1>2. Cardinality(SharedHolders(r)) # 0
  BY Zenon, HoldersFinite, FS_EmptySet
<1>3. Cardinality(SharedHolders(r)) = 1
  BY SMTT(30), <1>1, <1>2, HoldersFinite
<1> QED
  BY <1>3, HoldersFinite, FS_Singleton

\* A step never breaks mutual exclusion: the wait loops' conditions, read
\* through the counter and the flag, are what keeps conflicting locks apart.
LEMMA MutexStep == LockInv /\ CountInv /\ [Next]_vars => MutualExclusion'
<1> SUFFICES ASSUME LockInv, CountInv, [Next]_vars PROVE MutualExclusion'
  BY Zenon
<1> LockTypes /\ GrantsMatch /\ MutualExclusion /\ QueueMatchesLockSets
  BY Zenon DEF LockInv, CountInv, TypeOK
<1> USE DEF MutualExclusion, SharedHolders, ExclusiveHolders
<1>1. CASE UNCHANGED HoldVars
  BY ZenonT(30), <1>1 DEF HoldVars
<1>2. ASSUME NEW t \in Txns, NEW r \in Rows, GrantShared(t, r), ~SharedBlocked(r)
      PROVE  MutualExclusion'
  <2>1. \A u \in Txns : r \notin exclusiveSet[u]
    BY ZenonT(30), <1>2 DEF SharedBlocked, QueueMatchesLockSets
  <2> QED
    BY SMTT(30), <1>2, <2>1 DEF GrantShared, LockTypes
<1>3. ASSUME NEW t \in Txns, NEW r \in Rows, GrantExclusive(t, r), ~ExclusiveBlocked(r)
      PROVE  MutualExclusion'
  <2>1. \A u \in Txns : r \notin exclusiveSet[u]
    BY ZenonT(30), <1>3 DEF ExclusiveBlocked, QueueMatchesLockSets
  <2>2. SharedHolders(r) = {}
    <3> HIDE DEF SharedHolders
    <3>1. Cardinality(SharedHolders(r)) = 0
      BY <1>3, HoldersFinite DEF ExclusiveBlocked, QueueMatchesLockSets
    <3> QED
      BY ZenonT(30), <3>1, HoldersFinite, FS_EmptySet
  <2> QED
    BY <1>3, <2>1, <2>2 DEF GrantExclusive, LockTypes
<1>4. ASSUME NEW t \in Txns, NEW r \in Rows, GrantUpgrade(t, r), granted[r][t] = "S",
             ~UpgradeBlocked(r)
      PROVE  MutualExclusion'
  <2>1. \A u \in Txns : r \notin exclusiveSet[u]
    BY ZenonT(30), <1>4 DEF UpgradeBlocked, QueueMatchesLockSets
  <2>2. t \in SharedHolders(r)
    BY ZenonT(30), <1>4 DEF GrantsMatch
  <2>3. SharedHolders(r) = {t}
    <3> HIDE DEF SharedHolders
    <3> QED
      BY ZenonT(30), <1>4, <2>2, LoneHolder
  <2> QED
    BY SMTT(30), <1>4, <2>1, <2>3 DEF GrantUpgrade, LockTypes
<1>5. ASSUME NEW t \in Txns, NEW r \in Rows, Unlock(t, r), mode[r][t] # "None"
      PROVE  MutualExclusion'
  <2>1. /\ sharedSet' = [sharedSet EXCEPT ![t] = @ \ {r}]
        /\ exclusiveSet' = [exclusiveSet EXCEPT ![t] = @ \ {r}]
    BY ZenonT(30), <1>5, UnlockEffect
  <2>2. \A u \in Txns : /\ sharedSet'[u] \subseteq sharedSet[u]
                        /\ exclusiveSet'[u] \subseteq exclusiveSet[u]
    BY Zenon, <2>1 DEF LockTypes
  <2> QED
    BY Zenon, <2>2
<1> QED
  BY ZenonT(30), <1>1, <1>2, <1>3, <1>4, <1>5, Classify DEF HoldStep

\* Both hold throughout: the grants rely on the counter, and the counter on mutual exclusion.
THEOREM CountInvariance == Spec => []CountInv
<1>1. Init => CountInv
  <2> SUFFICES ASSUME Init PROVE CountInv
    BY Zenon
  <2>1. \A r \in Rows : SharedHolders(r) = {} /\ ExclusiveHolders(r) = {}
    BY Zenon DEF Init, SharedHolders, ExclusiveHolders
  <2>2. QueueMatchesLockSets
    BY ZenonT(30), <2>1, FS_EmptySet DEF Init, QueueMatchesLockSets
  <2> QED
    BY ZenonT(30), <2>1, <2>2 DEF CountInv, MutualExclusion
<1>2. LockInv /\ CountInv /\ [Next]_vars => CountInv'
  BY ZenonT(30), QueueStep, MutexStep DEF CountInv
<1> QED
  BY <1>1, <1>2, LockInvariance, PTL DEF Spec

\* For any number of transactions and rows: no row is ever held exclusively by
\* one transaction and in any mode by another.
THEOREM MutualExclusionHolds == Spec => []MutualExclusion
<1>1. CountInv => MutualExclusion
  BY ZenonT(30) DEF CountInv
<1> QED
  BY <1>1, CountInvariance, PTL

\* sharing_cnt_ and is_writing_, which the wait loops read, always agree with
\* the lock sets kept in the transactions.
THEOREM QueueMatchesHolds == Spec => []QueueMatchesLockSets
<1>1. CountInv => QueueMatchesLockSets
  BY Zenon DEF CountInv
<1> QED
  BY <1>1, CountInvariance, PTL

\* The lock manager, with its queues, flags, threads and detector, implements
\* the lock table: the locks start free and every step acquires, upgrades or
\* releases one lock by the table's rules or leaves them alone.
THEOREM ImplementsTable == Spec => ImplementsLockTable
<1>1. Init => Table!Init
  BY Zenon DEF Init, Table!Init
<1>2. ASSUME LockInv, CountInv, [Next]_vars
      PROVE  [Table!Next]_(Table!vars)
  <2> LockTypes /\ GrantsMatch /\ MutualExclusion /\ QueueMatchesLockSets
    BY ZenonT(30), <1>2 DEF LockInv, CountInv, TypeOK
  <2>1. CASE UNCHANGED HoldVars
    BY Zenon, <2>1 DEF HoldVars, Table!vars
  <2>2. ASSUME NEW t \in Txns, NEW r \in Rows, GrantShared(t, r), granted[r][t] = "None",
               ~SharedBlocked(r)
        PROVE  Table!AcquireShared(t, r)
    <3>1. \A u \in Txns : r \notin exclusiveSet[u]
      BY ZenonT(30), <2>2 DEF SharedBlocked, QueueMatchesLockSets, ExclusiveHolders
    <3> QED
      BY ZenonT(30), <2>2, <3>1 DEF GrantShared, GrantsMatch, Table!AcquireShared, Table!Unwritten
  <2>3. ASSUME NEW t \in Txns, NEW r \in Rows, GrantExclusive(t, r), ~ExclusiveBlocked(r)
        PROVE  Table!AcquireExclusive(t, r)
    <3>1. \A u \in Txns : r \notin exclusiveSet[u]
      BY ZenonT(30), <2>3 DEF ExclusiveBlocked, QueueMatchesLockSets, ExclusiveHolders
    <3>2. Cardinality(SharedHolders(r)) = 0
      BY <2>3, HoldersFinite DEF ExclusiveBlocked, QueueMatchesLockSets
    <3>3. \A u \in Txns : r \notin sharedSet[u]
      BY <3>2, HoldersFinite, FS_EmptySet DEF SharedHolders
    <3> QED
      BY ZenonT(30), <2>3, <3>1, <3>3 DEF GrantExclusive, Table!AcquireExclusive, Table!Free
  <2>4. ASSUME NEW t \in Txns, NEW r \in Rows, GrantUpgrade(t, r), granted[r][t] = "S",
               ~UpgradeBlocked(r)
        PROVE  Table!Upgrade(t, r)
    <3>1. \A u \in Txns : r \notin exclusiveSet[u]
      BY ZenonT(30), <2>4 DEF UpgradeBlocked, QueueMatchesLockSets, ExclusiveHolders
    <3>2. r \in sharedSet[t] /\ t \in SharedHolders(r)
      BY Zenon, <2>4 DEF GrantsMatch, SharedHolders
    <3>3. SharedHolders(r) = {t}
      BY ZenonT(30), <2>4, <3>2, LoneHolder
    <3>4. \A u \in Txns \ {t} : r \notin sharedSet[u]
      BY Zenon, <3>3 DEF SharedHolders
    <3> QED
      BY Zenon, <2>4, <3>1, <3>2, <3>4 DEF GrantUpgrade, Table!Upgrade, Table!OnlyReader
  <2>5. ASSUME NEW t \in Txns, NEW r \in Rows, Unlock(t, r), mode[r][t] # "None"
        PROVE  Table!Release(t, r) \/ UNCHANGED Table!vars
    <3>1. /\ sharedSet' = [sharedSet EXCEPT ![t] = @ \ {r}]
          /\ exclusiveSet' = [exclusiveSet EXCEPT ![t] = @ \ {r}]
      BY ZenonT(30), <2>5, UnlockEffect
    <3>2. CASE r \in Held(t)
      BY ZenonT(30), <3>1, <3>2 DEF Held, Table!Release
    <3>3. CASE r \notin Held(t)
      BY <3>1, <3>3 DEF Held, LockTypes, Table!vars
    <3> QED
      BY ZenonT(30), <3>2, <3>3
  <2> QED
    BY ZenonT(30), <1>2, <2>1, <2>2, <2>3, <2>4, <2>5, Classify DEF HoldStep, Table!Next
<1> QED
  BY <1>1, <1>2, LockInvariance, CountInvariance, PTL DEF Spec, ImplementsLockTable, Table!Spec

-----------------------------------------------------------------------------
(* Wakeups *)

\* No wait loop on q has lost its reason to wait.
StillBlocking(q) ==
  /\ isWriting[q] => isWriting'[q]
  /\ isUpgrading[q] => isUpgrading'[q]
  /\ sharingCnt[q] <= sharingCnt'[q]

\* Whatever may end a thread's reason to wait notifies every thread that waits on the row.
Notifies(t) ==
  /\ woken \ {t} \subseteq woken'
  /\ \A q \in Rows : Waiters(q) \ {t} \subseteq woken' \/ StillBlocking(q)

\* GrantShared and GrantExclusive take nobody's reason to wait away; GrantUpgrade,
\* Unlock and a withdrawn request notify.
LEMMA QueueNotifies ==
  ASSUME TypeOK, NEW t \in Txns, NEW r \in Rows
  PROVE  /\ GrantShared(t, r) => Notifies(t)
         /\ GrantExclusive(t, r) => Notifies(t)
         /\ GrantUpgrade(t, r) => Notifies(t)
         /\ Unlock(t, r) => Notifies(t)
         /\ AbortWait(t, r) => Notifies(t)
<1> LockTypes
  BY Zenon DEF TypeOK
<1>1. ASSUME NEW q \in Rows, q # r,
             \/ GrantShared(t, r) \/ GrantExclusive(t, r) \/ GrantUpgrade(t, r)
             \/ Unlock(t, r) \/ AbortWait(t, r)
      PROVE  StillBlocking(q)
  <2>1. sharingCnt'[q] = sharingCnt[q]
    BY ZenonT(30), <1>1 DEF LockTypes, GrantShared, GrantExclusive, GrantUpgrade, Unlock, AbortWait, queueVars
  <2>2. isWriting'[q] = isWriting[q] /\ isUpgrading'[q] = isUpgrading[q]
    <3>1. CASE UNCHANGED queueVars
      BY ZenonT(30), <3>1 DEF queueVars
    <3>2. CASE Unlock(t, r) /\ mode[r][t] # "None"
      BY ZenonT(60), <1>1, <3>2 DEF LockTypes, Unlock
    <3>3. CASE GrantShared(t, r) \/ GrantExclusive(t, r) \/ GrantUpgrade(t, r)
      BY ZenonT(60), <1>1, <3>3 DEF LockTypes, GrantShared, GrantExclusive, GrantUpgrade
    <3>4. CASE AbortWait(t, r)
      BY ZenonT(60), <1>1, <3>4 DEF LockTypes, AbortWait
    <3> QED
      BY ZenonT(30), <1>1, <3>1, <3>2, <3>3, <3>4 DEF Unlock
  <2>3. sharingCnt[q] \in Int
    BY Zenon DEF LockTypes
  <2> QED
    BY SMTT(30), <2>1, <2>2, <2>3 DEF StillBlocking
<1>2. ASSUME GrantShared(t, r) \/ GrantExclusive(t, r) PROVE StillBlocking(r)
  <2>1. sharingCnt[r] <= sharingCnt'[r]
    BY <1>2 DEF LockTypes, GrantShared, GrantExclusive
  <2>2. (isWriting[r] => isWriting'[r]) /\ (isUpgrading[r] => isUpgrading'[r])
    BY ZenonT(60), <1>2 DEF LockTypes, GrantShared, GrantExclusive
  <2> QED
    BY ZenonT(30), <2>1, <2>2 DEF StillBlocking
<1>3. ASSUME GrantUpgrade(t, r) \/ AbortWait(t, r) \/ (Unlock(t, r) /\ mode[r][t] # "None")
      PROVE  woken' = (woken \cup Waiters(r)) \ {t} \/ woken' = woken \cup Waiters(r)
  BY ZenonT(30), <1>3 DEF GrantUpgrade, AbortWait, Unlock
<1>4. ASSUME Unlock(t, r), mode[r][t] = "None" PROVE Notifies(t)
  BY <1>4 DEF Unlock, queueVars, Notifies, StillBlocking, LockTypes
<1>5. ASSUME GrantShared(t, r) \/ GrantExclusive(t, r) PROVE Notifies(t)
  <2>1. woken' = woken \ {t}
    BY Zenon, <1>5 DEF GrantShared, GrantExclusive
  <2> QED
    BY Zenon, <1>1, <1>2, <1>5, <2>1 DEF Notifies
<1>6. ASSUME GrantUpgrade(t, r) \/ AbortWait(t, r) \/ (Unlock(t, r) /\ mode[r][t] # "None")
      PROVE  Notifies(t)
  BY ZenonT(30), <1>1, <1>3, <1>6 DEF Notifies
<1> QED
  BY ZenonT(30), <1>4, <1>5, <1>6

\* So does every step of a thread, also of one that only tries.
LEMMA StepNotifies ==
  ASSUME LockInv, NEW t \in Txns, Latched(t) \/ Client(t) \/ External(t)
  PROVE  Notifies(t)
<1> TypeOK /\ LockTypes /\ ThreadTypes
  BY Zenon DEF LockInv, TypeOK
<1>1. pc[t] \in InCall => row[t] \in Rows
  BY Zenon DEF ThreadTypes
<1>2. ASSUME UNCHANGED <<isWriting, isUpgrading, sharingCnt>>, woken \ {t} \subseteq woken'
      PROVE  Notifies(t)
  BY <1>2 DEF Notifies, StillBlocking, LockTypes
<1>3. \A r \in Rows : /\ GrantShared(t, r) => Notifies(t)
                      /\ GrantExclusive(t, r) => Notifies(t)
                      /\ GrantUpgrade(t, r) => Notifies(t)
                      /\ Unlock(t, r) => Notifies(t)
                      /\ AbortWait(t, r) => Notifies(t)
  BY Zenon, QueueNotifies
<1>4. ASSUME NEW r \in Rows, isUpgrading' = [isUpgrading EXCEPT ![r] = TRUE],
             UNCHANGED <<isWriting, sharingCnt, woken>>
      PROVE  Notifies(t)
  <2>1. \A q \in Rows : isUpgrading[q] => isUpgrading'[q]
    BY ZenonT(30), <1>4 DEF LockTypes
  <2>2. \A q \in Rows : sharingCnt[q] <= sharingCnt'[q]
    BY <1>4 DEF LockTypes
  <2> QED
    BY Zenon, <1>4, <2>1, <2>2 DEF Notifies, StillBlocking
<1> USE DEF queueVars
<1>5. ASSUME EnterShared(t) \/ EnterExclusive(t) PROVE Notifies(t)
  BY ZenonT(30), <1>1, <1>2, <1>3, <1>5 DEF EnterShared, EnterExclusive, InCall, Entering
<1>6. ASSUME EnterUpgrade(t) PROVE Notifies(t)
  BY SMTT(30), <1>1, <1>2, <1>3, <1>4, <1>6 DEF EnterUpgrade, InCall, Entering
<1>7. ASSUME NEW r \in Rows, NEW blocked, Resume(t, r, blocked), ~Granted(t, r, blocked)
      PROVE  Notifies(t)
  BY ZenonT(30), <1>2, <1>3, <1>7 DEF Resume, Granted
<1>8. ASSUME WakeShared(t) \/ WakeExclusive(t) \/ WakeUpgrade(t) PROVE Notifies(t)
  <2>1. row[t] \in Rows
    BY ZenonT(30), <1>1, <1>8 DEF WakeShared, WakeExclusive, WakeUpgrade, Notified, InCall, Waiting
  <2> QED
    BY ZenonT(30), <1>3, <1>7, <1>8, <2>1 DEF WakeShared, WakeExclusive, WakeUpgrade
<1>9. ASSUME NEW r \in Rows, ReleaseOne(t, r) \/ ExternalRelease(t, r) \/ ClientUnlock(t, r)
      PROVE  Notifies(t)
  BY ZenonT(30), <1>3, <1>9 DEF ReleaseOne, ExternalRelease, ClientUnlock
<1>10. ASSUME NEW r \in Rows, LockShared(t, r) \/ LockExclusive(t, r) \/ LockUpgrade(t, r)
       PROVE  Notifies(t)
  BY ZenonT(30), <1>2, <1>10 DEF LockShared, LockExclusive, LockUpgrade
<1>11. ASSUME Begin(t) \/ Commit(t) \/ Abort(t) \/ External(t) PROVE Notifies(t)
  BY ZenonT(30), <1>2, <1>11 DEF Begin, Commit, Abort, Finish, External, ExternalAbort, ExternalCopy,
     ctlVars
<1> QED
  BY ZenonT(30), <1>5, <1>6, <1>8, <1>9, <1>10, <1>11 DEF Latched, Client

\* A thread asleep has a reason to be.
SleepOf(u) ==
  Asleep(u) => /\ pc[u] = "waitS" => SharedBlocked(row[u])
               /\ pc[u] = "waitX" => ExclusiveBlocked(row[u])
               /\ pc[u] = "waitU" => UpgradeBlocked(row[u])

SleepInv == \A u \in Txns : SleepOf(u)

\* The invariant of the sleeping threads is what NoLostWakeup asks of each of them.
LEMMA SleepIsNoLostWakeup == TypeOK /\ SleepInv => NoLostWakeup
BY ZenonT(30) DEF SleepInv, SleepOf, Asleep, NoLostWakeup, TypeOK, ThreadTypes, Waiting

\* A thread that does not move keeps its reason to wait, or is notified.
LEMMA SleepersNotified ==
  ASSUME TypeOK, TypeOK', NEW t, NEW u \in Txns \ {t}, SleepOf(u), Untouched(u), Notifies(t)
  PROVE  SleepOf(u)'
<1> SUFFICES ASSUME Asleep(u)' PROVE SleepOf(u)'
  BY Zenon DEF SleepOf
<1>   /\ pc'[u] = pc[u] /\ row'[u] = row[u] /\ pc[u] \in Waiting
      /\ u \notin woken' /\ state[u] # "Aborted"
  BY ZenonT(30) DEF Untouched, Asleep
<1>2. row[u] \in Rows
  BY Zenon DEF TypeOK, ThreadTypes, InCall
<1>3. u \in Waiters(row[u])
  BY Zenon DEF Waiters
<1>4. u \notin woken /\ StillBlocking(row[u])
  BY ZenonT(30), <1>2, <1>3 DEF Notifies
<1>5. Asleep(u)
  BY ZenonT(30), <1>4 DEF Asleep
<1>6. PICK r \in Rows : r = row[u] /\ r = row'[u]
  BY ZenonT(30), <1>2
<1>7. sharingCnt[r] \in Int /\ sharingCnt'[r] \in Int /\ sharingCnt[r] <= sharingCnt'[r]
  BY ZenonT(30), <1>4, <1>6 DEF StillBlocking, TypeOK, LockTypes
<1>8. (isWriting[r] => isWriting'[r]) /\ (isUpgrading[r] => isUpgrading'[r])
  BY ZenonT(30), <1>4, <1>6 DEF StillBlocking
<1>9. /\ SharedBlocked(r) => SharedBlocked(r)'
      /\ isWriting[r] \/ sharingCnt[r] > 0 => isWriting'[r] \/ sharingCnt'[r] > 0
      /\ isWriting[r] \/ sharingCnt[r] > 1 => isWriting'[r] \/ sharingCnt'[r] > 1
  BY <1>7, <1>8 DEF SharedBlocked
<1> QED
  BY ZenonT(30), <1>5, <1>6, <1>9 DEF SleepOf, SharedBlocked, ExclusiveBlocked, UpgradeBlocked

\* A thread goes to sleep only while its loop condition holds.
LEMMA OwnSleep ==
  ASSUME LockInv, NEW t \in Txns, SleepOf(t), Latched(t) \/ Client(t) \/ External(t)
  PROVE  SleepOf(t)'
<1> TypeOK /\ LockTypes /\ ThreadTypes /\ ThreadInvOf(t)
  BY Zenon DEF LockInv, TypeOK, ThreadInv
<1>1. ASSUME pc'[t] \notin Waiting \/ state'[t] = "Aborted" PROVE SleepOf(t)'
  BY ZenonT(30), <1>1 DEF SleepOf, Asleep
<1>2. /\ Return(t) => pc'[t] \notin Waiting
      /\ Throw(t) => pc'[t] \notin Waiting
      /\ \A p : Block(t, p) => pc'[t] = p /\ row'[t] = row[t]
  BY Zenon DEF Return, Throw, Leave, Block, ThreadTypes, Waiting
<1>3. \A s : SetState(t, s) => state'[t] = s
  BY Zenon DEF SetState, ThreadTypes
<1>4. CASE EnterShared(t)
  <2>1. \/ pc'[t] \notin Waiting
        \/ /\ SharedBlocked(row[t]) /\ pc'[t] = "waitS" /\ row'[t] = row[t]
           /\ UNCHANGED <<isWriting, isUpgrading>>
    BY ZenonT(30), <1>2, <1>4 DEF EnterShared
  <2> QED
    BY ZenonT(30), <1>1, <2>1 DEF SleepOf, SharedBlocked
<1>5. CASE EnterExclusive(t)
  <2>1. \/ pc'[t] \notin Waiting
        \/ /\ ExclusiveBlocked(row[t]) /\ pc'[t] = "waitX" /\ row'[t] = row[t]
           /\ UNCHANGED <<isWriting, sharingCnt>>
    BY SMTT(30), <1>2, <1>5 DEF EnterExclusive, Waiting
  <2> QED
    BY ZenonT(30), <1>1, <2>1 DEF SleepOf, ExclusiveBlocked
<1>6. CASE EnterUpgrade(t)
  <2>1. \/ pc'[t] \notin Waiting
        \/ /\ UpgradeBlocked(row[t]) /\ pc'[t] = "waitU" /\ row'[t] = row[t]
           /\ UNCHANGED <<isWriting, sharingCnt>>
    BY ZenonT(30), <1>2, <1>6 DEF EnterUpgrade
  <2> QED
    BY ZenonT(30), <1>1, <2>1 DEF SleepOf, UpgradeBlocked
<1>7. ASSUME NEW blocked, Resume(t, row[t], blocked), ~Granted(t, row[t], blocked)
      PROVE  \/ pc'[t] \notin Waiting
             \/ /\ blocked /\ pc'[t] = pc[t] /\ row'[t] = row[t]
                /\ UNCHANGED <<isWriting, isUpgrading, sharingCnt>>
  BY ZenonT(30), <1>2, <1>7 DEF Resume, Granted, AbortWait, queueVars
<1>8. CASE WakeShared(t)
  <2>1. pc[t] = "waitS"
    BY ZenonT(30), <1>8 DEF WakeShared, Notified
  <2>2. \/ pc'[t] \notin Waiting
        \/ /\ SharedBlocked(row[t]) /\ pc'[t] = pc[t] /\ row'[t] = row[t]
           /\ UNCHANGED <<isWriting, isUpgrading, sharingCnt>>
    BY ZenonT(30), <1>2, <1>7, <1>8 DEF WakeShared
  <2> QED
    BY ZenonT(30), <1>1, <2>1, <2>2 DEF SleepOf, SharedBlocked
<1>9. CASE WakeExclusive(t)
  <2>1. pc[t] = "waitX"
    BY ZenonT(30), <1>9 DEF WakeExclusive, Notified
  <2>2. \/ pc'[t] \notin Waiting
        \/ /\ ExclusiveBlocked(row[t]) /\ pc'[t] = pc[t] /\ row'[t] = row[t]
           /\ UNCHANGED <<isWriting, isUpgrading, sharingCnt>>
    BY ZenonT(30), <1>2, <1>7, <1>9 DEF WakeExclusive
  <2> QED
    BY ZenonT(30), <1>1, <2>1, <2>2 DEF SleepOf, ExclusiveBlocked
<1>10. CASE WakeUpgrade(t)
  <2>1. pc[t] = "waitU"
    BY ZenonT(30), <1>10 DEF WakeUpgrade, Notified
  <2>2. \/ pc'[t] \notin Waiting
        \/ /\ UpgradeBlocked(row[t]) /\ pc'[t] = pc[t] /\ row'[t] = row[t]
           /\ UNCHANGED <<isWriting, isUpgrading, sharingCnt>>
    BY ZenonT(30), <1>2, <1>7, <1>10 DEF WakeUpgrade
  <2> QED
    BY ZenonT(30), <1>1, <2>1, <2>2 DEF SleepOf, UpgradeBlocked
<1>11. ASSUME NEW r \in Rows, ReleaseOne(t, r) \/ ExternalRelease(t, r) \/ ClientUnlock(t, r)
       PROVE  SleepOf(t)'
  <2>1. pc' = pc /\ (pc[t] \notin Waiting \/ state[t] = "Aborted") /\ Unlock(t, r)
    BY ZenonT(30), <1>11 DEF ReleaseOne, ExternalRelease, ClientUnlock, ThreadInvOf, Waiting
  <2>2. state[t] = "Aborted" => state'[t] = "Aborted"
    <3>1. state' = state \/ state' = [state EXCEPT ![t] = ShrinkOnUnlock(@)]
      BY ZenonT(30), <2>1 DEF Unlock, txnVars
    <3> QED
      BY ZenonT(30), <3>1 DEF ThreadTypes, ShrinkOnUnlock
  <2> QED
    BY SMTT(30), <1>1, <2>1, <2>2
<1>12. ASSUME NEW r \in Rows, LockShared(t, r) \/ LockExclusive(t, r) \/ LockUpgrade(t, r)
       PROVE  SleepOf(t)'
  <2>1. pc'[t] \notin Waiting
    BY <1>2, <1>12 DEF LockShared, LockExclusive, LockUpgrade, LockPrepare, ThreadTypes, Waiting
  <2> QED
    BY ZenonT(30), <1>1, <2>1
<1>13. CASE Begin(t) \/ Commit(t) \/ Abort(t)
  <2>1. pc'[t] \notin Waiting
    BY ZenonT(30), <1>13 DEF Begin, Commit, Abort, Finish, ThreadTypes, Waiting
  <2> QED
    BY Zenon, <1>1, <2>1
<1>14. CASE ExternalAbort(t)
  BY ZenonT(30), <1>1, <1>3, <1>14 DEF ExternalAbort
<1>15. CASE ExternalCopy(t)
  <2>1. UNCHANGED <<pc, row, woken, state, isWriting, isUpgrading, sharingCnt>>
    BY Zenon, <1>15 DEF ExternalCopy, txnVars, queueVars, ctlVars
  <2> QED
    BY ZenonT(30), <2>1 DEF SleepOf, Asleep, SharedBlocked, ExclusiveBlocked, UpgradeBlocked
<1> QED
  BY ZenonT(30), <1>4, <1>5, <1>6, <1>8, <1>9, <1>10, <1>11, <1>12, <1>13, <1>14, <1>15
     DEF Latched, Client, External

\* No step of a thread or of the detector loses a wakeup.
LEMMA SleepStep == LockInv /\ SleepInv /\ [Next]_vars => SleepInv'
<1> SUFFICES ASSUME LockInv, SleepInv, [Next]_vars, NEW u \in Txns PROVE SleepOf(u)'
  BY Zenon DEF SleepInv
<1>0. TypeOK /\ TypeOK' /\ ThreadTypes /\ LockTypes /\ SleepOf(u)
  BY ZenonT(30), TypeStep DEF LockInv, TypeOK, SleepInv
<1>1. ASSUME NEW t \in Txns, Latched(t) \/ Client(t) \/ External(t) PROVE SleepOf(u)'
  <2>1. CASE u = t
    BY ZenonT(30), <1>0, <1>1, <2>1, OwnSleep
  <2>2. CASE u # t
    BY <1>0, <1>1, <2>2, OthersUntouched, StepNotifies, SleepersNotified
  <2> QED
    BY ZenonT(30), <2>1, <2>2
<1>2. ASSUME pc' = pc, row' = row, UNCHANGED <<isWriting, isUpgrading, sharingCnt>>,
             woken \subseteq woken', state'[u] = state[u] \/ state'[u] = "Aborted"
      PROVE  SleepOf(u)'
  BY ZenonT(30), <1>0, <1>2 DEF SleepOf, Asleep, SharedBlocked, ExclusiveBlocked, UpgradeBlocked
<1>3. CASE BuildGraph \/ EndPass \/ UNCHANGED vars \/ \E t \in Txns : SpuriousWakeup(t)
  BY ZenonT(30), <1>2, <1>3 DEF BuildGraph, EndPass, SpuriousWakeup, vars, txnVars, queueVars, ctlVars
<1>4. ASSUME NEW t \in Txns, AbortVictim(t) PROVE SleepOf(u)'
  BY ZenonT(30), <1>0, <1>2, <1>4 DEF AbortVictim, SetState, ThreadTypes, queueVars, ctlVars
<1> QED
  BY ZenonT(30), <1>1, <1>3, <1>4 DEF Next, Detector

-----------------------------------------------------------------------------
(* The upgrade flag *)

\* t waits in LockUpgrade on q.
Upgrades(t, q) == pc[t] = "waitU" /\ row[t] = q /\ UpgradePending(t, q)

\* A step of t sets is_upgrading_ only to wait for the upgrade itself, and resets it when
\* it stops waiting.
LEMMA OwnFlag ==
  ASSUME LockInv, NEW t \in Txns, RequestInvOf(t), Latched(t) \/ Client(t) \/ External(t),
         NEW q \in Rows, isUpgrading'[q]
  PROVE  Upgrades(t, q)' \/ (isUpgrading[q] /\ ~Upgrades(t, q))
<1> TypeOK /\ LockTypes /\ ThreadTypes /\ ThreadInvOf(t)
  BY Zenon DEF LockInv, TypeOK, ThreadInv
<1>1. pc[t] \in InCall => row[t] \in Rows
  BY Zenon DEF ThreadTypes
<1>2. \A r \in Rows, b \in BOOLEAN :
        isUpgrading' = [isUpgrading EXCEPT ![r] = b] => IF q = r THEN b ELSE isUpgrading[q]
  BY ZenonT(30) DEF LockTypes
<1>3. ASSUME isUpgrading' = isUpgrading, pc[t] # "waitU" PROVE isUpgrading[q] /\ ~Upgrades(t, q)
  BY ZenonT(30), <1>3 DEF Upgrades
<1>4. CASE EnterShared(t) \/ EnterExclusive(t)
  <2>1. pc[t] # "waitU" /\ isUpgrading' = isUpgrading
    BY ZenonT(30), <1>4 DEF EnterShared, EnterExclusive, GrantShared, GrantExclusive, queueVars
  <2> QED
    BY ZenonT(30), <1>3, <2>1
<1>5. CASE EnterUpgrade(t)
  <2>1. PICK r \in Rows : r = row[t]
    BY ZenonT(30), <1>1, <1>5 DEF EnterUpgrade, InCall, Entering
  <2>2. ~Upgrades(t, q)
    BY ZenonT(30), <1>5 DEF EnterUpgrade, Upgrades
  <2>3. \/ isUpgrading' = isUpgrading
        \/ isUpgrading' = [isUpgrading EXCEPT ![r] = FALSE]
        \/ /\ isUpgrading' = [isUpgrading EXCEPT ![r] = TRUE]
           /\ mode' = [mode EXCEPT ![r][t] = "X"] /\ granted' = granted
           /\ r \in sharedSet[t] /\ Block(t, "waitU")
    BY ZenonT(30), <1>5, <2>1 DEF EnterUpgrade, GrantUpgrade, queueVars
  <2>4. CASE isUpgrading' = isUpgrading
    BY ZenonT(30), <2>2, <2>4
  <2>5. CASE isUpgrading' = [isUpgrading EXCEPT ![r] = FALSE]
    BY ZenonT(30), <1>2, <2>2, <2>5
  <2>6. CASE /\ isUpgrading' = [isUpgrading EXCEPT ![r] = TRUE]
             /\ mode' = [mode EXCEPT ![r][t] = "X"] /\ granted' = granted
             /\ r \in sharedSet[t] /\ Block(t, "waitU")
    <3>1. CASE q = r
      <4>1. pc'[t] = "waitU" /\ row'[t] = q
        BY ZenonT(30), <2>1, <2>6, <3>1 DEF Block, ThreadTypes
      <4>2. granted'[q][t] = "S"
        BY ZenonT(30), <2>6, <3>1 DEF LockInv, GrantsMatch
      <4>3. mode'[q][t] = "X"
        BY ZenonT(30), <2>6, <3>1 DEF LockTypes
      <4> QED
        BY ZenonT(30), <4>1, <4>2, <4>3 DEF Upgrades, UpgradePending
    <3>2. CASE q # r
      BY ZenonT(30), <1>2, <2>2, <2>6, <3>2
    <3> QED
      BY ZenonT(30), <3>1, <3>2
  <2> QED
    BY <2>3, <2>4, <2>5, <2>6
<1>6. ASSUME NEW r \in Rows, r = row[t], AbortWait(t, r) PROVE isUpgrading[q] /\ ~Upgrades(t, q)
  <2>1. isUpgrading' = [isUpgrading EXCEPT ![r] = IF UpgradePending(t, r) THEN FALSE ELSE @]
    BY ZenonT(30), <1>6 DEF AbortWait
  <2>2. CASE q = r
    <3>1. ~UpgradePending(t, r) /\ isUpgrading[q]
      BY ZenonT(30), <2>1, <2>2 DEF LockTypes
    <3> QED
      BY ZenonT(30), <2>2, <3>1 DEF Upgrades
  <2>3. CASE q # r
    <3>1. isUpgrading[q]
      BY ZenonT(30), <2>1, <2>3 DEF LockTypes
    <3> QED
      BY ZenonT(30), <1>6, <2>3, <3>1 DEF Upgrades
  <2> QED
    BY ZenonT(30), <2>2, <2>3
<1>7. ASSUME NEW r \in Rows, r = row[t], NEW blocked, Resume(t, r, blocked), ~Granted(t, r, blocked)
      PROVE  Upgrades(t, q)' \/ (isUpgrading[q] /\ ~Upgrades(t, q))
  <2>1. CASE AbortWait(t, r)
    BY ZenonT(30), <1>6, <1>7, <2>1
  <2>2. CASE mode[r][t] = "None" /\ UNCHANGED queueVars
    BY ZenonT(30), <1>7, <2>2 DEF queueVars, Upgrades, UpgradePending
  <2>3. CASE Block(t, pc[t]) /\ UNCHANGED queueVars
    <3>1. pc'[t] = pc[t] /\ row'[t] = row[t]
      BY Zenon, <2>3 DEF Block, ThreadTypes
    <3> QED
      BY ZenonT(30), <2>3, <3>1 DEF queueVars, Upgrades, UpgradePending
  <2> QED
    BY ZenonT(30), <1>7, <2>1, <2>2, <2>3 DEF Resume, Granted
<1>8. ASSUME WakeShared(t) \/ WakeExclusive(t) \/ WakeUpgrade(t)
      PROVE  Upgrades(t, q)' \/ (isUpgrading[q] /\ ~Upgrades(t, q))
  <2> PICK r \in Rows : r = row[t]
    BY ZenonT(30), <1>1, <1>8 DEF WakeShared, WakeExclusive, WakeUpgrade, Notified, InCall, Waiting
  <2>2. CASE WakeShared(t)
    <3>1. CASE GrantShared(t, r)
      BY ZenonT(30), <2>2, <3>1, <1>3 DEF WakeShared, Notified, GrantShared
    <3> QED
      BY ZenonT(30), <1>7, <2>2, <3>1 DEF WakeShared
  <2>3. CASE WakeExclusive(t)
    <3>1. CASE GrantExclusive(t, r)
      BY <2>3, <3>1, <1>3 DEF WakeExclusive, Notified, GrantExclusive
    <3> QED
      BY ZenonT(30), <1>7, <2>3, <3>1 DEF WakeExclusive
  <2>4. CASE WakeUpgrade(t)
    <3>1. CASE GrantUpgrade(t, r)
      <4>1. isUpgrading' = [isUpgrading EXCEPT ![r] = FALSE]
        BY ZenonT(30), <3>1 DEF GrantUpgrade
      <4>2. q # r /\ isUpgrading[q]
        BY ZenonT(30), <1>2, <4>1
      <4> QED
        BY ZenonT(30), <4>2 DEF Upgrades
    <3> QED
      BY ZenonT(30), <1>7, <2>4, <3>1 DEF WakeUpgrade
  <2> QED
    BY <1>8, <2>2, <2>3, <2>4
<1>9. ASSUME NEW r \in Rows, ReleaseOne(t, r) \/ ExternalRelease(t, r) \/ ClientUnlock(t, r)
      PROVE  Upgrades(t, q)' \/ (isUpgrading[q] /\ ~Upgrades(t, q))
  <2>1. Unlock(t, r) /\ pc' = pc /\ row' = row
    BY Zenon, <1>9 DEF ReleaseOne, ExternalRelease, ClientUnlock
  <2>2. \A p \in Rows \ {r} : mode'[p][t] = mode[p][t] /\ granted'[p][t] = granted[p][t]
    BY SMTT(30), <2>1, UnlockRequest
  <2>3. isUpgrading[q] /\ (q = r => ~UpgradePending(t, q))
    <3>1. \/ isUpgrading' = isUpgrading /\ mode[r][t] = "None"
          \/ isUpgrading' = [isUpgrading EXCEPT ![r] = IF UpgradePending(t, r) THEN FALSE ELSE @]
      BY ZenonT(30), <2>1 DEF Unlock, queueVars
    <3>2. CASE isUpgrading' = isUpgrading /\ mode[r][t] = "None"
      BY Zenon, <3>2 DEF UpgradePending
    <3>3. CASE isUpgrading' = [isUpgrading EXCEPT ![r] = IF UpgradePending(t, r) THEN FALSE ELSE @]
      BY ZenonT(30), <3>3 DEF LockTypes
    <3> QED
      BY ZenonT(30), <3>1, <3>2, <3>3
  <2> QED
    BY ZenonT(30), <2>1, <2>2, <2>3 DEF Upgrades, UpgradePending
<1>10. ASSUME NEW r \in Rows, LockShared(t, r) \/ LockExclusive(t, r) \/ LockUpgrade(t, r)
       PROVE  isUpgrading[q] /\ ~Upgrades(t, q)
  BY ZenonT(30), <1>3, <1>10 DEF LockShared, LockExclusive, LockUpgrade, queueVars
<1>11. ASSUME Begin(t) \/ Commit(t) \/ Abort(t) PROVE isUpgrading[q] /\ ~Upgrades(t, q)
  BY ZenonT(30), <1>3, <1>11 DEF Begin, Commit, Abort, Finish, queueVars
<1>12. ASSUME External(t) PROVE Upgrades(t, q)' \/ (isUpgrading[q] /\ ~Upgrades(t, q))
  BY Zenon, <1>12 DEF External, ExternalAbort, ExternalCopy, queueVars, ctlVars, Upgrades, UpgradePending
<1> QED
  BY ZenonT(30), <1>4, <1>5, <1>8, <1>9, <1>10, <1>11, <1>12 DEF Latched, Client

\* The flag is never left behind.
LEMMA FlagStep == LockInv /\ RequestInv /\ NoStuckUpgradeFlag /\ [Next]_vars => NoStuckUpgradeFlag'
<1> SUFFICES ASSUME LockInv, RequestInv, NoStuckUpgradeFlag, [Next]_vars
             PROVE  NoStuckUpgradeFlag'
  BY ZenonT(30)
<1> SUFFICES ASSUME NEW q \in Rows, isUpgrading'[q]
             PROVE  \E t \in Txns : pc'[t] = "waitU" /\ row'[t] = q /\ mode'[q][t] = "X" /\ granted'[q][t] = "S"
  BY Zenon DEF NoStuckUpgradeFlag
<1> SUFFICES \E t \in Txns : Upgrades(t, q)'
  BY Zenon DEF Upgrades, UpgradePending
<1>1. isUpgrading[q] => \E t \in Txns : Upgrades(t, q)
  BY SMTT(30) DEF NoStuckUpgradeFlag, Upgrades, UpgradePending
<1>2. ASSUME NEW t \in Txns, Latched(t) \/ Client(t) \/ External(t)
      PROVE  \E u \in Txns : Upgrades(u, q)'
  <2>1. CASE Upgrades(t, q)'
    BY ZenonT(30), <2>1
  <2>2. CASE isUpgrading[q] /\ ~Upgrades(t, q)
    <3>1. PICK u \in Txns : Upgrades(u, q) /\ u # t
      BY Zenon, <1>1, <2>2
    <3>2. Still(u)
      BY ZenonT(30), <1>2, <3>1, OthersStill DEF LockInv
    <3> QED
      BY <3>1, <3>2 DEF Upgrades, UpgradePending, Still, Untouched
  <2> QED
    BY Zenon, <1>2, <2>1, <2>2, OwnFlag DEF RequestInv
<1>3. CASE Detector \/ UNCHANGED vars \/ \E t \in Txns : SpuriousWakeup(t)
  <2>1. UNCHANGED <<pc, row, mode, granted, isUpgrading>>
    BY ZenonT(30), <1>3 DEF Detector, BuildGraph, EndPass, AbortVictim, SpuriousWakeup, vars, queueVars, ctlVars
  <2> QED
    BY ZenonT(30), <1>1, <2>1 DEF Upgrades, UpgradePending
<1> QED
  BY ZenonT(30), <1>2, <1>3 DEF Next

-----------------------------------------------------------------------------
(* The detector *)

\* t cannot go on: it waits, or it has thrown and only its release is left.
Stuck(t) == pc[t] \in Waiting \/ (pc[t] \in {"thrown", "release"} /\ state[t] = "Aborted")

\* The graph exists only during a pass, and its edges leave from transactions that are stuck.
EdgesInv == waitsFor \subseteq {e \in Edges : detecting /\ Stuck(e[1])}

\* Who has a request that is not granted as asked is stuck.
LEMMA WaiterStuck ==
  ASSUME RequestInv, NEW t \in Txns, NEW r \in Rows, IsWaiting(r, t)
  PROVE  Stuck(t)
BY DEF RequestInv, RequestInvOf, RequestOf, IsWaiting, Stuck, Waiting

\* While the detector holds latch_ a stuck transaction stays so.
LEMMA StuckStays ==
  ASSUME LockInv, [Next]_vars, detecting, NEW u \in Txns, Stuck(u)
  PROVE  Stuck(u)'
<1> TypeOK /\ ThreadTypes /\ ThreadInvOf(u)
  BY ZenonT(30) DEF LockInv, TypeOK, ThreadInv
<1>1. ASSUME NEW t \in Txns, Latched(t) PROVE FALSE
  BY ZenonT(30), <1>1 DEF Latched, EnterShared, EnterExclusive, EnterUpgrade, WakeShared, WakeExclusive,
     WakeUpgrade, Notified, ReleaseOne, ExternalRelease
<1>2. ASSUME NEW t \in Txns, Client(t) \/ External(t), u # t PROVE Stuck(u)'
  BY ZenonT(30), <1>2, OthersUntouched DEF Untouched, Stuck
<1>3. CASE Client(u)
  <2>1. pc[u] \in {"thrown", "release"} \cup Waiting
    BY ZenonT(30) DEF Stuck
  <2>2. Abort(u) /\ pc[u] = "thrown"
    BY <1>3, <2>1 DEF Client, Begin, Commit, Abort, LockShared, LockExclusive, LockUpgrade,
       ClientUnlock, Waiting
  <2> QED
    BY ZenonT(30), <2>2 DEF Abort, Finish, SetState, ThreadTypes, Stuck
<1>4. CASE External(u)
  BY ZenonT(30), <1>4 DEF External, ExternalAbort, ExternalCopy, txnVars, ctlVars, SetState, ThreadTypes,
     Stuck
<1>5. CASE BuildGraph \/ EndPass \/ UNCHANGED vars \/ \E t \in Txns : SpuriousWakeup(t)
  BY ZenonT(30), <1>5 DEF BuildGraph, EndPass, SpuriousWakeup, vars, txnVars, ctlVars, Stuck
<1>6. ASSUME NEW t \in Txns, AbortVictim(t) PROVE Stuck(u)'
  BY Zenon, <1>6 DEF AbortVictim, ctlVars, SetState, ThreadTypes, Stuck
<1> QED
  BY Zenon, <1>1, <1>2, <1>3, <1>4, <1>5, <1>6 DEF Next, Detector

\* A pass adds edges only for transactions that wait, and ends without edges.
LEMMA EdgesStep == LockInv /\ RequestInv /\ EdgesInv /\ [Next]_vars => EdgesInv'
<1> SUFFICES ASSUME LockInv, RequestInv, EdgesInv, [Next]_vars PROVE EdgesInv'
  BY Zenon
<1>1. CASE BuildGraph
  <2>1. detecting' /\ waitsFor' = WaitEdges /\ UNCHANGED <<pc, state>>
    BY ZenonT(30), <1>1 DEF BuildGraph, ctlVars, txnVars
  <2>2. \A e \in WaitEdges : e \in Edges /\ e[1] \in Txns /\ Stuck(e[1])
    BY ZenonT(30), WaiterStuck DEF WaitEdges, Edges
  <2> QED
    BY ZenonT(30), <2>1, <2>2 DEF EdgesInv, Stuck
<1>2. CASE EndPass
  BY ZenonT(30), <1>2 DEF EndPass, EdgesInv
<1>3. CASE ~BuildGraph /\ ~EndPass
  <2>1. detecting' = detecting /\ waitsFor' \subseteq waitsFor
    <3>1. CASE \E t \in Txns : AbortVictim(t)
      BY ZenonT(30), <3>1 DEF AbortVictim, DeleteNode
    <3>2. CASE UNCHANGED vars \/ \E t \in Txns : SpuriousWakeup(t) \/ External(t)
      BY ZenonT(30), <3>2 DEF vars, SpuriousWakeup, External, ExternalAbort, ExternalCopy, detVars
    <3>3. CASE \E t \in Txns : Client(t)
      BY ZenonT(30), <3>3 DEF Client, Begin, Commit, Abort, Finish, LockShared, LockExclusive, LockUpgrade,
         ClientUnlock, detVars
    <3>4. CASE \E t \in Txns : Latched(t)
      BY ZenonT(30), <3>4 DEF Latched, EnterShared, EnterExclusive, EnterUpgrade, WakeShared, WakeExclusive,
         WakeUpgrade, ReleaseOne, ExternalRelease, detVars
    <3> QED
      BY <1>3, <3>1, <3>2, <3>3, <3>4 DEF Next, Detector
  <2>2. ASSUME NEW e \in waitsFor' PROVE e \in Edges /\ detecting' /\ Stuck(e[1])'
    <3>1. e \in Edges /\ detecting /\ Stuck(e[1]) /\ e[1] \in Txns
      BY Zenon, <2>1 DEF EdgesInv, Edges
    <3>2. PICK u \in Txns : u = e[1]
      BY Zenon, <3>1
    <3>3. Stuck(u)'
      BY ZenonT(30), <3>1, <3>2, StuckStays
    <3> QED
      BY ZenonT(30), <2>1, <3>1, <3>2, <3>3
  <2> QED
    BY ZenonT(30), <2>2 DEF EdgesInv
<1> QED
  BY ZenonT(30), <1>1, <1>2, <1>3

\* Transactions asleep that each wait for another's lock are all in the graph, upgraders too.
LEMMA HolderDeadlockSeen == LockInv /\ RequestInv => HolderDeadlocksAreSeen
<1> SUFFICES ASSUME LockInv, RequestInv, NEW D \in (SUBSET Txns) \ {{}},
                    \A t \in D : Asleep(t) /\ BlockingHolders(t) \cap D # {}
             PROVE  Victims(WaitEdges) # {}
  BY Zenon DEF HolderDeadlocksAreSeen
<1>1. ASSUME NEW t \in D PROVE \E u \in D : <<t, u>> \in WaitEdges
  <2>1. PICK u \in D : u \in BlockingHolders(t)
    BY Zenon
  <2> t \in Txns /\ u \in Txns /\ pc[t] \in Waiting /\ state[t] # "Aborted"
    BY ZenonT(30) DEF Asleep
  <2>3. PICK r \in Rows : r = row[t]
    BY Zenon DEF LockInv, TypeOK, ThreadTypes, InCall
  <2>4. /\ u # t
        /\ granted[r][u] = "X" \/ (pc[t] # "waitS" /\ granted[r][u] = "S")
    BY ZenonT(30), <2>1, <2>3 DEF BlockingHolders
  <2>5. /\ pc[t] \in {"waitS", "waitX"} => granted[r][t] = "None"
        /\ pc[t] = "waitS" => mode[r][t] = "S"
        /\ pc[t] = "waitX" => mode[r][t] = "X"
        /\ pc[t] = "waitU" => mode[r][t] = "X" /\ granted[r][t] = "S"
    BY ZenonT(30), <2>3 DEF LockInv, ThreadInv, ThreadInvOf, RequestInv, RequestInvOf, PlaceOf, UpgradePending
  <2>6. IsWaiting(r, t) /\ Conflict(r, t, u)
    BY ZenonT(30), <2>4, <2>5 DEF IsWaiting, Conflict, Waiting
  <2> QED
    BY ZenonT(30), <2>6 DEF WaitEdges, Edges
<1>2. D \subseteq Txns /\ D # {}
  BY Zenon
<1>3. PICK edges : edges = WaitEdges
  BY Zenon
<1>4. \A t \in D : \E u \in D : <<t, u>> \in edges
  BY ZenonT(30), <1>1, <1>3
<1> QED
  BY ZenonT(30), <1>2, <1>3, <1>4, CycleHasVictim

-----------------------------------------------------------------------------
(* The theorems *)

WaitInv == LockInv /\ RequestInv /\ SleepInv /\ NoStuckUpgradeFlag /\ EdgesInv

\* The invariant holds of the empty lock table.
LEMMA WaitInvInit == Init => WaitInv
<1> SUFFICES ASSUME Init PROVE WaitInv
  BY Zenon
<1>1. \A t \in Txns : pc[t] = "unborn" /\ kill[t] = {}
  BY Zenon DEF Init
<1>2. \A r \in Rows : \A t \in Txns : mode[r][t] = "None" /\ granted[r][t] = "None"
  BY Zenon DEF Init
<1>3. RequestInv
  BY <1>1, <1>2 DEF RequestInv, RequestInvOf, RequestOf, PlaceOf, InCall, Entering, Waiting
<1>4. SleepInv
  BY Zenon, <1>1 DEF SleepInv, SleepOf, Asleep, Waiting
<1>5. NoStuckUpgradeFlag
  BY ZenonT(30) DEF Init, NoStuckUpgradeFlag
<1>6. EdgesInv
  BY Zenon DEF Init, EdgesInv
<1> QED
  BY <1>3, <1>4, <1>5, <1>6, LockInvInit DEF WaitInv

\* What the queues, the threads and the detector's graph say of each other, always.
THEOREM WaitInvariance == Spec => []WaitInv
<1>1. WaitInv /\ [Next]_vars => WaitInv'
  BY LockInvStep, RequestStep, SleepStep, FlagStep, EdgesStep DEF WaitInv
<1> QED
  BY <1>1, WaitInvInit, PTL DEF Spec

\* No wakeup is lost: a thread asleep in cv_.wait that nobody has notified is still blocked
\* by its loop condition, or has been aborted.
THEOREM NoLostWakeupHolds == Spec => []NoLostWakeup
<1>1. WaitInv => NoLostWakeup
  BY SleepIsNoLostWakeup DEF WaitInv, LockInv
<1> QED
  BY <1>1, WaitInvariance, PTL

\* is_upgrading_ is set only while a thread waits in LockUpgrade.
THEOREM NoStuckUpgradeFlagHolds == Spec => []NoStuckUpgradeFlag
<1>1. WaitInv => NoStuckUpgradeFlag
  BY Zenon DEF WaitInv
<1> QED
  BY <1>1, WaitInvariance, PTL

\* Commit and Abort leave no lock and no request behind, even when another thread's Abort
\* releases the same locks at the same time.
THEOREM FinishedHoldsNothingHolds == Spec => []FinishedHoldsNothing
<1>1. ASSUME WaitInv PROVE FinishedHoldsNothing
  <2> SUFFICES ASSUME NEW t \in Txns, Done(t)
               PROVE  Held(t) = {} /\ \A r \in Rows : mode[r][t] = "None"
    BY Zenon DEF FinishedHoldsNothing
  <2>1. \A r \in Rows : mode[r][t] = "None" /\ granted[r][t] = "None"
    BY <1>1 DEF WaitInv, RequestInv, RequestInvOf, RequestOf, Done
  <2>2. Held(t) \subseteq Rows /\ \A r \in Rows : r \notin Held(t)
    BY Zenon, <1>1, <2>1 DEF WaitInv, LockInv, TypeOK, LockTypes, GrantsMatch, Held
  <2> QED
    BY ZenonT(30), <2>1, <2>2
<1> QED
  BY <1>1, WaitInvariance, PTL

\* Every deadlock among transactions that wait for each other's locks shows in the graph
\* RunCycleDetection builds, for any number of transactions.
THEOREM HolderDeadlocksSeenHolds == Spec => []HolderDeadlocksAreSeen
<1>1. WaitInv => HolderDeadlocksAreSeen
  BY Zenon, HolderDeadlockSeen DEF WaitInv
<1> QED
  BY <1>1, WaitInvariance, PTL

\* EmplaceLockRequest's assert(res) never fails: a thread that is about to queue a request has
\* none in that queue, also if another thread's Abort releases its rows meanwhile.
THEOREM NoDuplicateRequestHolds == Spec => []NoDuplicateRequest
<1>1. ASSUME WaitInv PROVE NoDuplicateRequest
  <2> SUFFICES ASSUME NEW t \in Txns, pc[t] \in {"enterS", "enterX"}, row[t] \notin Held(t)
               PROVE  mode[row[t]][t] = "None"
    BY Zenon DEF NoDuplicateRequest
  <2>1. PICK r \in Rows : r = row[t]
    BY ZenonT(30), <1>1 DEF WaitInv, LockInv, TypeOK, ThreadTypes, InCall, Entering
  <2>2. granted[r][t] = "None"
    <3>1. granted[r][t] \in {"None", "S", "X"}
      BY Zenon, <1>1 DEF WaitInv, LockInv, TypeOK, LockTypes, LockMode
    <3>2. (granted[r][t] = "S" => r \in Held(t)) /\ (granted[r][t] = "X" => r \in Held(t))
      BY Zenon, <1>1 DEF WaitInv, LockInv, GrantsMatch, Held
    <3> QED
      BY Zenon, <2>1, <3>1, <3>2
  <2>3. RequestOf(t, r)
    BY Zenon, <1>1 DEF WaitInv, RequestInv, RequestInvOf
  <2> QED
    BY Zenon, <2>1, <2>2, <2>3 DEF RequestOf
<1> QED
  BY <1>1, WaitInvariance, PTL

\* The detector aborts only transactions that are blocked in a lock call.
THEOREM VictimIsBlockedHolds == Spec => VictimIsBlocked
<1> DEFINE Waits == \A t \in Txns : AbortVictim(t) /\ state[t] # "Aborted" => pc[t] \in Waiting
<1>1. ASSUME WaitInv PROVE Waits
  <2> SUFFICES ASSUME NEW t \in Txns, AbortVictim(t), state[t] # "Aborted" PROVE pc[t] \in Waiting
    BY Zenon
  <2>1. PICK e \in waitsFor : e[1] = t
    BY Zenon, VictimHasEdge DEF AbortVictim, Victims
  <2> QED
    BY ZenonT(30), <1>1, <2>1 DEF WaitInv, EdgesInv, Stuck
<1> QED
  BY <1>1, WaitInvariance, PTL DEF VictimIsBlocked

=============================================================================
