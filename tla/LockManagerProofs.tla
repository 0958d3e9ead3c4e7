------------------------- MODULE LockManagerProofs -------------------------
(***************************************************************************)
(* The lock manager, step by step, for any finite set of transactions, any *)
(* set of rows, and any of them aborted by other threads or upgrading.     *)
(*                                                                         *)
(* LockInv says what a thread's place means and that granted_ agrees with  *)
(* the transactions' lock sets; every step of a thread is one of the five  *)
(* of HoldStep.  RequestInv says what the request queues hold of a thread  *)
(* at a given place: a request without a grant belongs to a thread asleep  *)
(* in that very queue, one whose grant is weaker than its mode to an       *)
(* upgrade that waits or was aborted, and a finished transaction has only  *)
(* requests its release has still to take away.                            *)
(***************************************************************************)
EXTENDS LockManager, TLAPS

-----------------------------------------------------------------------------
(* Types. *)

\* What follows a wait loop keeps the types of the lock table.
LEMMA GrantTypes ==
  ASSUME TypeOK, NEW t \in Txns, NEW r \in Rows,
         GrantShared(t, r) \/ GrantExclusive(t, r) \/ GrantUpgrade(t, r)
  PROVE  LockTypes'
<1> USE DEF TypeOK, LockTypes, LockMode
<1>1. CASE GrantShared(t, r)
  BY <1>1 DEF GrantShared
<1>2. CASE GrantExclusive(t, r)
  BY Zenon, <1>2 DEF GrantExclusive
<1>3. CASE GrantUpgrade(t, r)
  BY <1>3 DEF GrantUpgrade, Waiters
<1> QED
  BY Zenon, <1>1, <1>2, <1>3

\* Unlock keeps every type it touches.
LEMMA UnlockTypes ==
  ASSUME TypeOK, NEW t \in Txns, NEW r \in Rows, Unlock(t, r)
  PROVE  LockTypes' /\ state' \in [Txns -> TxnState]
<1> USE DEF TypeOK, LockTypes
<1>1. CASE mode[r][t] = "None"
  BY Zenon, <1>1 DEF Unlock, txnVars, queueVars, ThreadTypes
<1>2. CASE mode[r][t] # "None"
  <2>1. isWriting' \in [Rows -> BOOLEAN]
    <3>1. CASE granted[r][t] = "X"
      BY ZenonT(30), <1>2, <3>1 DEF Unlock
    <3>2. CASE granted[r][t] # "X"
      BY ZenonT(30), <1>2, <3>2 DEF Unlock
    <3> QED
      BY Zenon, <3>1, <3>2
  <2>2. isUpgrading' \in [Rows -> BOOLEAN]
    <3>1. CASE UpgradePending(t, r)
      BY ZenonT(30), <1>2, <3>1 DEF Unlock
    <3>2. CASE ~UpgradePending(t, r)
      BY <1>2, <3>2 DEF Unlock
    <3> QED
      BY Zenon, <3>1, <3>2
  <2>3. sharedSet' \in [Txns -> SUBSET Rows]
    BY <1>2 DEF Unlock
  <2>7. exclusiveSet' \in [Txns -> SUBSET Rows]
    BY <1>2 DEF Unlock
  <2>4. mode' \in [Rows -> [Txns -> LockMode]]
    <3>1. mode' = [mode EXCEPT ![r][t] = "None"]
      BY Zenon, <1>2 DEF Unlock
    <3> QED
      BY Zenon, <3>1 DEF LockMode
  <2>8. granted' \in [Rows -> [Txns -> LockMode]]
    <3>1. granted' = [granted EXCEPT ![r][t] = "None"]
      BY Zenon, <1>2 DEF Unlock
    <3> QED
      BY Zenon, <3>1 DEF LockMode
  <2>5. sharingCnt' \in [Rows -> Int] /\ woken' \in SUBSET Txns
    BY <1>2 DEF Unlock, Waiters
  <2>6. state' \in [Txns -> TxnState]
    BY <1>2 DEF Unlock, ShrinkOnUnlock, TxnState, ThreadTypes
  <2> QED
    BY Zenon, <2>1, <2>2, <2>3, <2>4, <2>5, <2>6, <2>7, <2>8
<1> QED
  BY Zenon, <1>1, <1>2

\* A thread that resumes after cv_.wait without being granted its lock keeps the
\* types of the lock table.
LEMMA ResumeTypes ==
  ASSUME TypeOK, NEW t \in Txns, NEW r \in Rows, NEW blocked,
         Resume(t, r, blocked), ~Granted(t, r, blocked)
  PROVE  LockTypes' /\ UNCHANGED state
<1> USE DEF TypeOK, LockTypes, LockMode
<1>1. CASE AbortWait(t, r)
  <2>1. isUpgrading' \in [Rows -> BOOLEAN]
    <3>1. CASE UpgradePending(t, r)
      BY Zenon, <1>1, <3>1 DEF AbortWait
    <3>2. CASE ~UpgradePending(t, r)
      BY Zenon, <1>1, <3>2 DEF AbortWait
    <3> QED
      BY Zenon, <3>1, <3>2
  <2>2. mode' \in [Rows -> [Txns -> LockMode]]
    BY <1>1 DEF AbortWait
  <2> QED
    BY ZenonT(30), <1>1, <2>1, <2>2 DEF AbortWait, Waiters, txnVars
<1>2. CASE UNCHANGED <<txnVars, queueVars>> /\ woken' = woken \ {t}
  BY Zenon, <1>2 DEF txnVars, queueVars
<1> QED
  BY ZenonT(30), <1>1, <1>2 DEF Resume, Granted

\* The two halves of the typing of a thread: those a handler's end sets.
PlaceTypes ==
  /\ pc \in [Txns -> PC]
  /\ row \in [Txns -> Rows \cup {NoRow}]
  /\ \A t \in Txns : pc[t] \in InCall => row[t] \in Rows

\* Every way in which a handler ends keeps the typing of pc and row.
LEMMA PlaceTypesStep ==
  ASSUME TypeOK, NEW t \in Txns
  PROVE  /\ Return(t) => PlaceTypes'
         /\ Throw(t) => PlaceTypes'
         /\ \A p \in InCall : pc[t] \in InCall /\ Block(t, p) => PlaceTypes'
<1> USE DEF TypeOK, ThreadTypes, PlaceTypes, PC, InCall, Entering, Waiting
<1>1. Return(t) => PlaceTypes'
  BY DEF Return, Leave
<1>2. Throw(t) => PlaceTypes'
  BY DEF Throw, Leave
<1>3. ASSUME NEW p \in InCall, pc[t] \in InCall, Block(t, p)
      PROVE  PlaceTypes'
  BY Zenon, <1>3 DEF Block
<1> QED
  BY Zenon, <1>1, <1>2, <1>3

\* LockPrepare moves one thread and may abort its transaction; both stay of their type.
LEMMA PrepareTypes ==
  ASSUME TypeOK, NEW t \in Txns, NEW r \in Rows, NEW next \in Entering, LockPrepare(t, r, next)
  PROVE  PlaceTypes' /\ state' \in [Txns -> TxnState]
<1>1. CASE state[t] = "Aborted"
  BY Zenon, <1>1, PlaceTypesStep DEF LockPrepare, TypeOK, ThreadTypes
<1>2. CASE state[t] = "Shrinking"
  BY Zenon, <1>2, PlaceTypesStep DEF LockPrepare, TypeOK, ThreadTypes, SetState, TxnState
<1>3. CASE state[t] \notin {"Aborted", "Shrinking"}
  <2>1. /\ pc' = [pc EXCEPT ![t] = next] /\ row' = [row EXCEPT ![t] = r]
        /\ UNCHANGED state
    BY Zenon, <1>3 DEF LockPrepare
  <2> QED
    BY Zenon, <2>1 DEF TypeOK, ThreadTypes, PlaceTypes, PC, InCall, Entering
<1> QED
  BY Zenon, <1>1, <1>2, <1>3

\* What a thread blocked in one of the loops does next is typed.
LEMMA WakeTypes ==
  ASSUME TypeOK, NEW t \in Txns, NEW blocked, pc[t] \in Waiting, Resume(t, row[t], blocked),
         ~Granted(t, row[t], blocked)
  PROVE  LockTypes' /\ PlaceTypes' /\ UNCHANGED state
<1>1. row[t] \in Rows /\ pc[t] \in InCall
  BY Zenon DEF TypeOK, ThreadTypes, InCall
<1>2. LockTypes' /\ UNCHANGED state
  BY Zenon, <1>1, ResumeTypes
<1>3. Return(t) \/ Throw(t) \/ Block(t, pc[t])
  BY ZenonT(30) DEF Resume, Granted, AbortWait
<1> QED
  BY Zenon, <1>1, <1>2, <1>3, PlaceTypesStep

\* The rest of the typing, which few actions touch.
RestTypes ==
  /\ todo \in [Txns -> SUBSET Rows]
  /\ kill \in [Txns -> SUBSET Rows]
  /\ killed \in SUBSET Txns
  /\ copying \in [Txns -> {"no", "alone", "racing"}]
  /\ detecting \in BOOLEAN
  /\ waitsFor \subseteq Edges

\* TypeOK is the types of the queues, the threads' places, the rest and the states.
LEMMA TypeSplit ==
  /\ TypeOK <=> LockTypes /\ PlaceTypes /\ RestTypes /\ state \in [Txns -> TxnState]
  /\ TypeOK' <=> LockTypes' /\ PlaceTypes' /\ RestTypes' /\ (state \in [Txns -> TxnState])'
BY Zenon DEF TypeOK, ThreadTypes, PlaceTypes, RestTypes

\* The first half of LockShared, LockExclusive and LockUpgrade keeps the types.
LEMMA EnterTypes ==
  ASSUME TypeOK, NEW t \in Txns, EnterShared(t) \/ EnterExclusive(t) \/ EnterUpgrade(t)
  PROVE  TypeOK'
<1> DEFINE r == row[t]
<1>   /\ pc[t] \in InCall /\ r \in Rows
      /\ RestTypes'
  BY Zenon DEF TypeOK, ThreadTypes, RestTypes, InCall, Entering, EnterShared, EnterExclusive,
         EnterUpgrade, killVars, detVars
<1>2. PlaceTypes'
  <2>1. \/ Return(t) \/ Throw(t)
        \/ Block(t, "waitS") \/ Block(t, "waitX") \/ Block(t, "waitU") \/ Block(t, "callU")
    BY Zenon DEF EnterShared, EnterExclusive, EnterUpgrade
  <2> QED
    BY Zenon, <2>1, PlaceTypesStep DEF InCall, Waiting
<1>3. LockTypes' /\ state' \in [Txns -> TxnState]
  <2>1. CASE /\ GrantShared(t, r) \/ GrantExclusive(t, r) \/ GrantUpgrade(t, r)
             /\ UNCHANGED state
    BY Zenon, <2>1, GrantTypes DEF TypeOK, ThreadTypes
  <2>2. CASE UNCHANGED <<sharedSet, exclusiveSet, queueVars, woken>> /\ UNCHANGED state
    BY Zenon, <2>2 DEF TypeOK, LockTypes, ThreadTypes, queueVars
  <2>3. CASE UNCHANGED <<sharedSet, exclusiveSet, queueVars, woken>> /\ SetState(t, "Aborted")
    BY Zenon, <2>3 DEF TypeOK, LockTypes, ThreadTypes, queueVars, SetState, TxnState
  <2>4. CASE /\ \/ mode' = [mode EXCEPT ![r][t] = "S"]
                \/ mode' = [mode EXCEPT ![r][t] = "X"]
             /\ isUpgrading' = isUpgrading \/ isUpgrading' = [isUpgrading EXCEPT ![r] = TRUE]
             /\ UNCHANGED <<txnVars, granted, isWriting, sharingCnt, woken>>
    <3>1. mode' \in [Rows -> [Txns -> LockMode]]
      <4>1. CASE mode' = [mode EXCEPT ![r][t] = "S"]
        BY Zenon, <4>1 DEF TypeOK, LockTypes, LockMode
      <4>2. CASE mode' = [mode EXCEPT ![r][t] = "X"]
        BY Zenon, <4>2 DEF TypeOK, LockTypes, LockMode
      <4> QED
        BY Zenon, <2>4, <4>1, <4>2
    <3>2. isUpgrading' \in [Rows -> BOOLEAN]
      BY ZenonT(30), <2>4 DEF TypeOK, LockTypes
    <3> QED
      BY Zenon, <2>4, <3>1, <3>2 DEF TypeOK, LockTypes, ThreadTypes, txnVars
  <2>5. CASE EnterShared(t)
    BY Zenon, <2>5, <2>1, <2>2, <2>4 DEF EnterShared, txnVars
  <2>6. CASE EnterExclusive(t)
    BY Zenon, <2>6, <2>1, <2>2, <2>4 DEF EnterExclusive, txnVars
  <2>7. CASE EnterUpgrade(t)
    BY Zenon, <2>7, <2>1, <2>2, <2>3, <2>4 DEF EnterUpgrade, txnVars
  <2> QED
    BY Zenon, <2>5, <2>6, <2>7
<1> QED
  BY Zenon, <1>2, <1>3, TypeSplit

\* A thread that returns from its wait keeps the types.
LEMMA WakeStepTypes ==
  ASSUME TypeOK, NEW t \in Txns, WakeShared(t) \/ WakeExclusive(t) \/ WakeUpgrade(t)
  PROVE  TypeOK'
<1> DEFINE r == row[t]
<1>   /\ pc[t] \in Waiting /\ r \in Rows
      /\ RestTypes' /\ state \in [Txns -> TxnState]
  BY Zenon DEF TypeOK, ThreadTypes, RestTypes, InCall, Waiting, WakeShared, WakeExclusive,
         WakeUpgrade, Notified, killVars, detVars
<1>2. CASE /\ GrantShared(t, r) \/ GrantExclusive(t, r) \/ GrantUpgrade(t, r)
           /\ Return(t) /\ UNCHANGED state
  BY Zenon, <1>2, GrantTypes, PlaceTypesStep, TypeSplit
<1>4. CASE WakeShared(t)
  BY Zenon, <1>4, <1>2, WakeTypes, TypeSplit DEF WakeShared
<1>5. CASE WakeExclusive(t)
  BY Zenon, <1>5, <1>2, WakeTypes, TypeSplit DEF WakeExclusive
<1>6. CASE WakeUpgrade(t)
  BY Zenon, <1>6, <1>2, WakeTypes, TypeSplit DEF WakeUpgrade
<1> QED
  BY Zenon, <1>4, <1>5, <1>6

\* Every step of every thread, and of the detector, keeps the types.
LEMMA TypeStep == TypeOK /\ [Next]_vars => TypeOK'
<1> SUFFICES ASSUME TypeOK, [Next]_vars PROVE TypeOK'
  BY Zenon
<1> LockTypes /\ PlaceTypes /\ RestTypes /\ state \in [Txns -> TxnState]
  BY Zenon, TypeSplit
<1>1. CASE UNCHANGED vars
  BY Zenon, <1>1, TypeSplit
     DEF LockTypes, PlaceTypes, RestTypes, vars, txnVars, queueVars, ctlVars, killVars, detVars
<1>2. CASE BuildGraph
  BY Zenon, <1>2, TypeSplit DEF BuildGraph, WaitEdges, LockTypes, PlaceTypes, RestTypes, txnVars,
     queueVars, ctlVars, killVars
<1>3. CASE EndPass
  <2>1. woken' \in SUBSET Txns
    BY <1>3 DEF EndPass, Waiters, LockTypes
  <2>2. LockTypes'
    BY Zenon, <1>3, <2>1 DEF EndPass, LockTypes, txnVars, queueVars
  <2> QED
    BY ZenonT(30), <1>3, <2>2, TypeSplit DEF EndPass, PlaceTypes, RestTypes, txnVars, killVars
<1>4. ASSUME NEW t \in Txns, AbortVictim(t)
      PROVE  TypeOK'
  BY Zenon, <1>4, TypeSplit DEF AbortVictim, SetState, DeleteNode, TxnState, LockTypes, PlaceTypes,
     RestTypes, queueVars, ctlVars, killVars
<1>5. ASSUME NEW t \in Txns, NEW r \in Rows, ReleaseOne(t, r)
      PROVE  TypeOK'
  BY Zenon, <1>5, TypeSplit, UnlockTypes DEF ReleaseOne, PlaceTypes, RestTypes, killVars, detVars
<1>6. ASSUME NEW t \in Txns, NEW r \in Rows, ExternalRelease(t, r)
      PROVE  TypeOK'
  BY Zenon, <1>6, TypeSplit, UnlockTypes DEF ExternalRelease, PlaceTypes, RestTypes, detVars
<1>7. ASSUME NEW t \in Txns, NEW r \in Rows, ClientUnlock(t, r)
      PROVE  TypeOK'
  BY Zenon, <1>7, TypeSplit, UnlockTypes
     DEF ClientUnlock, PlaceTypes, RestTypes, killVars, detVars
<1>8. ASSUME NEW t \in Txns, NEW r \in Rows,
             LockShared(t, r) \/ LockExclusive(t, r) \/ LockUpgrade(t, r)
      PROVE  TypeOK'
  <2>1. LockTypes' /\ RestTypes'
    BY Zenon, <1>8 DEF LockShared, LockExclusive, LockUpgrade, LockTypes, RestTypes, queueVars,
       killVars, detVars
  <2>2. CASE \E next \in Entering : LockPrepare(t, r, next)
    BY Zenon, <2>1, <2>2, PrepareTypes, TypeSplit
  <2>3. CASE Throw(t) /\ SetState(t, "Aborted")
    BY Zenon, <2>1, <2>3, PlaceTypesStep, TypeSplit DEF SetState, TxnState
  <2> QED
    BY Zenon, <1>8, <2>2, <2>3 DEF LockShared, LockExclusive, LockUpgrade, Entering
<1>9. ASSUME NEW t \in Txns, Begin(t) \/ SpuriousWakeup(t)
      PROVE  TypeOK'
  BY ZenonT(30), <1>9, TypeSplit
     DEF Begin, SpuriousWakeup, LockTypes, PlaceTypes, RestTypes, PC, InCall,
     Entering, Waiting, txnVars, queueVars, killVars, detVars
<1>10. ASSUME NEW t \in Txns, Commit(t) \/ Abort(t)
       PROVE  TypeOK'
  <2>1. PICK s \in TxnState : Finish(t, s)
    BY Zenon, <1>10 DEF Commit, Abort, TxnState
  <2>2. LockTypes' /\ state' \in [Txns -> TxnState]
    BY Zenon, <2>1 DEF Finish, SetState, LockTypes, queueVars
  <2>3. PlaceTypes'
    BY Zenon, <2>1 DEF Finish, PlaceTypes, PC, InCall, Entering, Waiting
  <2>4. RestTypes'
    BY Zenon, <2>1 DEF Finish, LockSet, LockTypes, RestTypes, killVars, detVars
  <2> QED
    BY Zenon, <2>2, <2>3, <2>4, TypeSplit
<1>11. ASSUME NEW t \in Txns, ExternalAbort(t)
       PROVE  TypeOK'
  BY Zenon, <1>11, TypeSplit DEF ExternalAbort, SetState, TxnState, LockTypes, PlaceTypes,
     RestTypes, queueVars, ctlVars, detVars
<1>12. ASSUME NEW t \in Txns, ExternalCopy(t)
       PROVE  TypeOK'
  <2>1. PICK seen \in SUBSET LockSet(t) : kill' = [kill EXCEPT ![t] = seen]
    BY Zenon, <1>12 DEF ExternalCopy
  <2>2. seen \subseteq Rows
    BY Zenon, <2>1 DEF LockSet, LockTypes
  <2>3. RestTypes'
    BY Zenon, <1>12, <2>1, <2>2 DEF ExternalCopy, RestTypes, ctlVars, detVars
  <2> QED
    BY Zenon, <1>12, <2>3, TypeSplit
       DEF ExternalCopy, LockTypes, PlaceTypes, txnVars, queueVars, ctlVars
<1> QED
  BY ZenonT(30), <1>1, <1>2, <1>3, <1>4, <1>5, <1>6, <1>7, <1>8, <1>9, <1>10, <1>11, <1>12,
     EnterTypes, WakeStepTypes DEF Next, Detector, Latched, Client, External

-----------------------------------------------------------------------------
(* The inductive invariant. *)

\* A request's granted_ and the transaction's lock sets say the same.
GrantsMatch ==
  \A r \in Rows : \A t \in Txns :
    /\ granted[r][t] = "S" <=> r \in sharedSet[t]
    /\ granted[r][t] = "X" <=> r \in exclusiveSet[t]

\* What a thread's position says about its request; the grants at the end of
\* the wait loops rely on it.
ThreadInvOf(t) ==
  /\ todo[t] # {} => pc[t] = "release"
  /\ kill[t] # {} \/ copying[t] # "no" => state[t] = "Aborted" \/ pc[t] = "release"
  /\ state[t] = "Committed" => pc[t] = "release"
  /\ pc[t] \in InCall => state[t] # "Shrinking"
  /\ pc[t] \in {"waitS", "waitX"} => granted[row[t]][t] = "None"
  /\ pc[t] = "waitU" /\ state[t] # "Aborted" => granted[row[t]][t] = "S"

ThreadInv == \A t \in Txns : ThreadInvOf(t)

LockInv == TypeOK /\ GrantsMatch /\ ThreadInv

HoldVars == <<sharedSet, exclusiveSet, granted, isWriting, sharingCnt>>

\* The five things a step can do to the locks.
HoldStep ==
  \/ UNCHANGED HoldVars
  \/ \E t \in Txns, r \in Rows :
       \/ /\ GrantShared(t, r)
          /\ pc[t] \in InCall /\ granted[r][t] = "None" /\ ~SharedBlocked(r)
       \/ /\ GrantExclusive(t, r)
          /\ pc[t] \in InCall /\ granted[r][t] = "None" /\ ~ExclusiveBlocked(r)
       \/ /\ GrantUpgrade(t, r)
          /\ pc[t] \in InCall /\ granted[r][t] = "S" /\ ~UpgradeBlocked(r)
       \/ Unlock(t, r) /\ mode[r][t] # "None"

\* Every step of the system is one of the five.
LEMMA Classify == LockInv /\ [Next]_vars => HoldStep
<1> SUFFICES ASSUME LockInv, [Next]_vars PROVE HoldStep
  BY Zenon
<1> USE DEF HoldVars, HoldStep
<1>1. ASSUME NEW t \in Txns, NEW r \in Rows, Unlock(t, r)
      PROVE  HoldStep
  <2>1. CASE mode[r][t] = "None"
    <3>1. UNCHANGED HoldVars
      BY Zenon, <1>1, <2>1 DEF Unlock, txnVars, queueVars
    <3> QED
      BY Zenon, <3>1
  <2>2. CASE mode[r][t] # "None"
    BY Zenon, <1>1, <2>2
  <2> QED
    BY ZenonT(30), <2>1, <2>2
<1>2. \A t \in Txns : \A r \in Rows :
        /\ granted[r][t] \in LockMode
        /\ r \notin sharedSet[t] => granted[r][t] # "S"
        /\ r \notin exclusiveSet[t] => granted[r][t] # "X"
        /\ r \in sharedSet[t] => granted[r][t] = "S"
  BY ZenonT(30) DEF LockInv, TypeOK, LockTypes, GrantsMatch
<1>3. \A t \in Txns : pc[t] \in InCall => row[t] \in Rows
  BY Zenon DEF LockInv, TypeOK, ThreadTypes
<1>4. ASSUME NEW t \in Txns, EnterShared(t) PROVE HoldStep
  BY Zenon, <1>2, <1>3, <1>4 DEF EnterShared, InCall, Entering, Held, LockMode, txnVars, queueVars
<1>5. ASSUME NEW t \in Txns, EnterExclusive(t) PROVE HoldStep
  BY Zenon, <1>2, <1>3, <1>5 DEF EnterExclusive, InCall, Entering, Held, LockMode, txnVars, queueVars
<1>6. ASSUME NEW t \in Txns, EnterUpgrade(t) PROVE HoldStep
  BY Zenon, <1>2, <1>3, <1>6 DEF EnterUpgrade, InCall, Entering, txnVars, queueVars
<1>7. ASSUME NEW t \in Txns, NEW r, NEW b, Resume(t, r, b), ~Granted(t, r, b)
      PROVE  HoldStep
  BY ZenonT(30), <1>7 DEF Resume, Granted, AbortWait, txnVars, queueVars
<1>8. ASSUME NEW t \in Txns, WakeShared(t) PROVE HoldStep
  BY ZenonT(30), <1>3, <1>7, <1>8
     DEF WakeShared, Notified, Granted, InCall, Waiting, LockInv, ThreadInv, ThreadInvOf
<1>9. ASSUME NEW t \in Txns, WakeExclusive(t) PROVE HoldStep
  BY Zenon, <1>3, <1>7, <1>9
     DEF WakeExclusive, Notified, Granted, InCall, Waiting, LockInv, ThreadInv, ThreadInvOf
<1>10. ASSUME NEW t \in Txns, WakeUpgrade(t) PROVE HoldStep
  BY ZenonT(30), <1>3, <1>7, <1>10
     DEF WakeUpgrade, Notified, Granted, InCall, Waiting, LockInv, ThreadInv, ThreadInvOf
<1>11. ASSUME NEW t \in Txns, NEW r \in Rows,
              ReleaseOne(t, r) \/ ExternalRelease(t, r) \/ ClientUnlock(t, r)
       PROVE  HoldStep
  BY ZenonT(30), <1>1, <1>11 DEF ReleaseOne, ExternalRelease, ClientUnlock
<1>12. ASSUME NEW t \in Txns,
              \/ Begin(t) \/ Commit(t) \/ Abort(t) \/ SpuriousWakeup(t) \/ External(t)
              \/ AbortVictim(t)
              \/ \E r \in Rows : LockShared(t, r) \/ LockExclusive(t, r) \/ LockUpgrade(t, r)
       PROVE  UNCHANGED HoldVars
  BY Zenon, <1>12 DEF Begin, Commit, Abort, Finish, SpuriousWakeup, External, ExternalAbort, ExternalCopy,
     AbortVictim, LockShared, LockExclusive, LockUpgrade, txnVars, queueVars
<1>13. CASE BuildGraph \/ EndPass \/ UNCHANGED vars
  BY ZenonT(30), <1>13 DEF BuildGraph, EndPass, vars, txnVars, queueVars
<1> QED
  BY ZenonT(30), <1>4, <1>5, <1>6, <1>8, <1>9, <1>10, <1>11, <1>12, <1>13
     DEF Next, Detector, Latched, Client

\* Unlock, read through the agreement of granted_ with the lock sets: it takes
\* the row out of both sets.
LEMMA UnlockEffect ==
  ASSUME LockTypes, GrantsMatch, NEW t \in Txns, NEW r \in Rows, Unlock(t, r), mode[r][t] # "None"
  PROVE  /\ sharedSet' = [sharedSet EXCEPT ![t] = @ \ {r}]
         /\ exclusiveSet' = [exclusiveSet EXCEPT ![t] = @ \ {r}]
         /\ granted' = [granted EXCEPT ![r][t] = "None"]
         /\ sharingCnt' = [sharingCnt EXCEPT ![r] = IF r \in sharedSet[t] THEN @ - 1 ELSE @]
         /\ r \in exclusiveSet[t] => isWriting' = [isWriting EXCEPT ![r] = FALSE]
         /\ r \notin exclusiveSet[t] => isWriting' = isWriting
<1>   /\ granted[r][t] = "S" <=> r \in sharedSet[t]
      /\ granted[r][t] = "X" <=> r \in exclusiveSet[t]
  BY Zenon DEF GrantsMatch
<1>   /\ sharedSet' = [sharedSet EXCEPT ![t] = IF granted[r][t] = "S" THEN @ \ {r} ELSE @]
      /\ exclusiveSet' = [exclusiveSet EXCEPT ![t] = IF granted[r][t] = "X" THEN @ \ {r} ELSE @]
      /\ granted' = [granted EXCEPT ![r][t] = "None"]
      /\ sharingCnt' = [sharingCnt EXCEPT ![r] = IF granted[r][t] = "S" THEN @ - 1 ELSE @]
      /\ isWriting' = [isWriting EXCEPT ![r] = IF granted[r][t] = "X" THEN FALSE ELSE @]
  BY ZenonT(30) DEF Unlock
<1>2. sharedSet' = [sharedSet EXCEPT ![t] = @ \ {r}]
  BY ZenonT(30) DEF LockTypes
<1>3. exclusiveSet' = [exclusiveSet EXCEPT ![t] = @ \ {r}]
  BY ZenonT(30) DEF LockTypes
<1>4. sharingCnt' = [sharingCnt EXCEPT ![r] = IF r \in sharedSet[t] THEN @ - 1 ELSE @]
  BY ZenonT(30)
<1>5. ASSUME r \in exclusiveSet[t] PROVE isWriting' = [isWriting EXCEPT ![r] = FALSE]
  BY ZenonT(30), <1>5
<1>6. ASSUME r \notin exclusiveSet[t] PROVE isWriting' = isWriting
  BY ZenonT(30), <1>6 DEF LockTypes
<1> QED
  BY ZenonT(30), <1>2, <1>3, <1>4, <1>5, <1>6

\* A step leaves granted_ and the lock sets in agreement.
LEMMA GrantsMatchStep == LockInv /\ [Next]_vars => GrantsMatch'
<1> SUFFICES ASSUME LockInv, [Next]_vars PROVE GrantsMatch'
  BY Zenon
<1> USE DEF GrantsMatch
<1> GrantsMatch /\ LockTypes
  BY Zenon DEF LockInv, TypeOK
<1>1. CASE UNCHANGED HoldVars
  BY Zenon, <1>1 DEF HoldVars
<1>2. ASSUME NEW t \in Txns, NEW r \in Rows, GrantShared(t, r), granted[r][t] = "None"
      PROVE  GrantsMatch'
  BY <1>2 DEF GrantShared, LockTypes
<1>3. ASSUME NEW t \in Txns, NEW r \in Rows, GrantExclusive(t, r), granted[r][t] = "None"
      PROVE  GrantsMatch'
  BY <1>3 DEF GrantExclusive, LockTypes
<1>4. ASSUME NEW t \in Txns, NEW r \in Rows, GrantUpgrade(t, r), granted[r][t] = "S"
      PROVE  GrantsMatch'
  BY <1>4 DEF GrantUpgrade, LockTypes
<1>5. ASSUME NEW t \in Txns, NEW r \in Rows, Unlock(t, r), mode[r][t] # "None"
      PROVE  GrantsMatch'
  <2>1. /\ sharedSet' = [sharedSet EXCEPT ![t] = @ \ {r}]
        /\ exclusiveSet' = [exclusiveSet EXCEPT ![t] = @ \ {r}]
        /\ granted' = [granted EXCEPT ![r][t] = "None"]
    BY Zenon, <1>5, UnlockEffect
  <2> QED
    BY <2>1 DEF LockTypes
<1> QED
  BY ZenonT(30), <1>1, <1>2, <1>3, <1>4, <1>5, Classify DEF HoldStep

\* The variables ThreadInvOf(u) is about, for a thread u that does not move.
Untouched(u) ==
  /\ pc'[u] = pc[u] /\ row'[u] = row[u] /\ state'[u] = state[u]
  /\ todo'[u] = todo[u] /\ kill'[u] = kill[u] /\ copying'[u] = copying[u]
  /\ \A r \in Rows : granted'[r][u] = granted[r][u]

\* A thread whose requests and sets a step leaves alone keeps its part of the invariant.
LEMMA UntouchedKeeps ==
  ASSUME TypeOK, NEW u \in Txns, ThreadInvOf(u), Untouched(u)
  PROVE  ThreadInvOf(u)'
BY ZenonT(30) DEF Untouched, ThreadInvOf, TypeOK, ThreadTypes, InCall, Waiting

\* A step by t leaves every other thread's invariant alone.
LEMMA OthersUntouched ==
  ASSUME TypeOK, NEW t \in Txns, Latched(t) \/ Client(t) \/ External(t), NEW u \in Txns \ {t}
  PROVE  Untouched(u)
<1> LockTypes /\ ThreadTypes
  BY Zenon DEF TypeOK
<1> USE DEF Untouched, txnVars, queueVars, ctlVars, killVars, detVars
<1>1. ASSUME NEW r \in Rows, NEW m, granted' = [granted EXCEPT ![r][t] = m]
      PROVE  \A q \in Rows : granted'[q][u] = granted[q][u]
  BY Zenon, <1>1 DEF LockTypes
<1>2. \A r \in Rows : GrantShared(t, r) \/ GrantExclusive(t, r) \/ GrantUpgrade(t, r)
        => \A q \in Rows : granted'[q][u] = granted[q][u]
  BY Zenon, <1>1 DEF GrantShared, GrantExclusive, GrantUpgrade
<1>3. \A r \in Rows : Unlock(t, r)
        => state'[u] = state[u] /\ \A q \in Rows : granted'[q][u] = granted[q][u]
  BY ZenonT(30), <1>1 DEF Unlock, ThreadTypes
<1>4. /\ Return(t) \/ Throw(t) => pc'[u] = pc[u] /\ row'[u] = row[u]
      /\ \A p : Block(t, p) => pc'[u] = pc[u] /\ row'[u] = row[u]
  BY Zenon DEF Return, Throw, Leave, Block, ThreadTypes
<1>5. \A s : SetState(t, s) => state'[u] = state[u]
  BY Zenon DEF SetState, ThreadTypes
<1>6. pc[t] \in InCall => row[t] \in Rows
  BY Zenon DEF ThreadTypes
<1>7. ASSUME EnterShared(t) \/ EnterExclusive(t) \/ EnterUpgrade(t) PROVE Untouched(u)
  BY Zenon, <1>7, <1>2, <1>4, <1>5, <1>6
     DEF EnterShared, EnterExclusive, EnterUpgrade, InCall, Entering
<1>8. ASSUME WakeShared(t) \/ WakeExclusive(t) \/ WakeUpgrade(t) PROVE Untouched(u)
  BY ZenonT(30), <1>8, <1>2, <1>4, <1>6
     DEF WakeShared, WakeExclusive, WakeUpgrade, Resume, Granted, AbortWait, Notified,
     InCall, Waiting
<1>9. ASSUME NEW r \in Rows, ReleaseOne(t, r) \/ ExternalRelease(t, r) \/ ClientUnlock(t, r)
      PROVE  Untouched(u)
  BY ZenonT(30), <1>9, <1>3 DEF ReleaseOne, ExternalRelease, ClientUnlock, ThreadTypes
<1>10. ASSUME NEW r \in Rows, LockShared(t, r) \/ LockExclusive(t, r) \/ LockUpgrade(t, r)
       PROVE  Untouched(u)
  BY ZenonT(30), <1>10, <1>4, <1>5 DEF LockShared, LockExclusive, LockUpgrade, LockPrepare, ThreadTypes
<1>11. ASSUME Begin(t) \/ Commit(t) \/ Abort(t) \/ External(t)
       PROVE  Untouched(u)
  BY ZenonT(30), <1>11, <1>5 DEF Begin, Commit, Abort, Finish, External, ExternalAbort, ExternalCopy, ThreadTypes
<1> QED
  BY ZenonT(30), <1>7, <1>8, <1>9, <1>10, <1>11 DEF Latched, Client

\* A thread's own step keeps its invariant.
LEMMA OwnStep ==
  ASSUME LockInv, NEW t \in Txns, Latched(t) \/ Client(t) \/ External(t)
  PROVE  ThreadInvOf(t)'
<1> LockTypes /\ ThreadTypes /\ ThreadInvOf(t)
  BY Zenon DEF LockInv, TypeOK, ThreadInv
<1>1. \A r \in Rows :
        /\ granted[r][t] \in LockMode
        /\ granted[r][t] = "S" <=> r \in sharedSet[t]
        /\ granted[r][t] = "X" <=> r \in exclusiveSet[t]
  BY ZenonT(30) DEF LockInv, GrantsMatch, LockTypes
<1>2. pc[t] \in InCall => row[t] \in Rows
  BY Zenon DEF ThreadTypes
<1> USE DEF txnVars, queueVars, ctlVars, killVars, detVars
<1>3. /\ Return(t) => pc'[t] = "idle"
      /\ Throw(t) => pc'[t] = "thrown"
      /\ \A p : Block(t, p) => pc'[t] = p /\ row'[t] = row[t]
  BY Zenon DEF Return, Throw, Leave, Block, ThreadTypes
<1>4. \A s : SetState(t, s) => state'[t] = s
  BY Zenon DEF SetState, ThreadTypes
<1>5. ASSUME EnterShared(t) \/ EnterExclusive(t) \/ EnterUpgrade(t) PROVE ThreadInvOf(t)'
  BY SMTT(30), <1>5, <1>1, <1>2, <1>3, <1>4
     DEF EnterShared, EnterExclusive, EnterUpgrade, InCall, Entering, Held,
     LockMode, ThreadInvOf
<1>6. ASSUME WakeShared(t) \/ WakeExclusive(t) \/ WakeUpgrade(t) PROVE ThreadInvOf(t)'
  BY ZenonT(30), <1>6, <1>2, <1>3
     DEF WakeShared, WakeExclusive, WakeUpgrade, Resume, Granted, AbortWait,
     Notified, ThreadInvOf, InCall, Entering, Waiting
<1>7. ASSUME NEW r \in Rows, Unlock(t, r)
      PROVE  /\ state[t] = "Aborted" => state'[t] = "Aborted"
             /\ state'[t] = "Committed" => state[t] = "Committed"
             /\ \A q \in Rows : granted[q][t] = "None" => granted'[q][t] = "None"
  <2>1. \/ granted' = granted /\ state' = state
        \/ /\ granted' = [granted EXCEPT ![r][t] = "None"]
           /\ state' = [state EXCEPT ![t] = ShrinkOnUnlock(@)]
    BY ZenonT(30), <1>7 DEF Unlock
  <2>2. ASSUME granted' = [granted EXCEPT ![r][t] = "None"]
        PROVE  \A q \in Rows : granted[q][t] = "None" => granted'[q][t] = "None"
    BY Zenon, <2>2 DEF LockTypes
  <2>3. ASSUME state' = [state EXCEPT ![t] = ShrinkOnUnlock(@)]
        PROVE  /\ state[t] = "Aborted" => state'[t] = "Aborted"
               /\ state'[t] = "Committed" => state[t] = "Committed"
    BY Zenon, <2>3 DEF ThreadTypes, ShrinkOnUnlock
  <2> QED
    BY Zenon, <2>1, <2>2, <2>3
<1>8. ASSUME NEW r \in Rows, ReleaseOne(t, r) \/ ClientUnlock(t, r)
      PROVE  ThreadInvOf(t)'
  <2>1. pc[t] \in {"release", "idle"}
    BY ZenonT(30), <1>8 DEF ReleaseOne, ClientUnlock, ThreadInvOf
  <2>2. /\ state[t] = "Aborted" => state'[t] = "Aborted"
        /\ state'[t] = "Committed" => state[t] = "Committed"
        /\ UNCHANGED <<pc, kill, copying>>
    BY ZenonT(30), <1>7, <1>8 DEF ReleaseOne, ClientUnlock
  <2>3. todo'[t] # {} => todo[t] # {}
    BY Zenon, <1>8 DEF ReleaseOne, ClientUnlock, ThreadTypes
  <2> QED
    BY ZenonT(30), <2>1, <2>2, <2>3 DEF ThreadInvOf, InCall, Entering, Waiting
<1>9. ASSUME NEW r \in Rows, ExternalRelease(t, r)
      PROVE  ThreadInvOf(t)'
  <2>1. state[t] = "Aborted" \/ pc[t] = "release"
    BY Zenon, <1>9 DEF ExternalRelease, ThreadInvOf
  <2>2. /\ state[t] = "Aborted" => state'[t] = "Aborted"
        /\ state'[t] = "Committed" => state[t] = "Committed"
        /\ \A q \in Rows : granted[q][t] = "None" => granted'[q][t] = "None"
        /\ UNCHANGED <<pc, row, todo>>
    BY Zenon, <1>7, <1>9 DEF ExternalRelease
  <2> QED
    BY ZenonT(30), <1>2, <2>1, <2>2 DEF ThreadInvOf, InCall, Entering, Waiting
<1>10. ASSUME NEW r \in Rows, LockShared(t, r) \/ LockExclusive(t, r) \/ LockUpgrade(t, r)
       PROVE  ThreadInvOf(t)'
  <2>1. /\ pc[t] \in {"idle", "callU"}
        /\ UNCHANGED <<todo, kill, copying>>
        /\ state[t] = "Aborted" => state'[t] = "Aborted"
        /\ state'[t] = "Committed" => state[t] = "Committed"
        /\ state'[t] # "Shrinking"
    BY Zenon, <1>10, <1>4 DEF LockShared, LockExclusive, LockUpgrade, LockPrepare
  <2>2. pc'[t] \in Entering \cup {"thrown"}
    BY Zenon, <1>10, <1>3 DEF LockShared, LockExclusive, LockUpgrade, LockPrepare, ThreadTypes, Entering
  <2> QED
    BY ZenonT(30), <2>1, <2>2 DEF ThreadInvOf, InCall, Entering, Waiting
<1>11. ASSUME Begin(t) \/ Commit(t) \/ Abort(t)
       PROVE  ThreadInvOf(t)'
  BY ZenonT(30), <1>11, <1>4
     DEF Begin, Commit, Abort, Finish, ThreadTypes, ThreadInvOf, InCall, Entering,
     Waiting
<1>12. ASSUME ExternalAbort(t)
       PROVE  ThreadInvOf(t)'
  BY ZenonT(30), <1>12, <1>4 DEF ExternalAbort, ThreadInvOf
<1>13. ASSUME ExternalCopy(t)
       PROVE  ThreadInvOf(t)'
  <2>1. copying[t] # "no" /\ UNCHANGED <<state, granted, pc, row, todo>>
    BY Zenon, <1>13 DEF ExternalCopy
  <2> QED
    BY Zenon, <2>1 DEF ThreadInvOf
<1> QED
  BY ZenonT(30), <1>5, <1>6, <1>8, <1>9, <1>10, <1>11, <1>12, <1>13 DEF Latched, Client, External

\* A step keeps what the threads' positions say about their requests.
LEMMA ThreadStep == LockInv /\ [Next]_vars => ThreadInv'
<1> SUFFICES ASSUME LockInv, [Next]_vars, NEW u \in Txns PROVE ThreadInvOf(u)'
  BY Zenon DEF ThreadInv
<1> TypeOK /\ ThreadInvOf(u)
  BY Zenon DEF LockInv, ThreadInv
<1>1. CASE \E t \in Txns : Latched(t) \/ Client(t) \/ External(t)
  BY Zenon, <1>1, OwnStep, OthersUntouched, UntouchedKeeps
<1>2. CASE \/ BuildGraph \/ EndPass \/ UNCHANGED vars
           \/ \E t \in Txns : SpuriousWakeup(t)
  <2>1. Untouched(u)
    BY Zenon, <1>2 DEF BuildGraph, EndPass, SpuriousWakeup, Untouched, vars, txnVars, queueVars, ctlVars,
       killVars
  <2> QED
    BY Zenon, <2>1, UntouchedKeeps
<1>3. ASSUME NEW t \in Txns, AbortVictim(t)
      PROVE  ThreadInvOf(u)'
  <2>1. /\ state'[u] = IF u = t THEN "Aborted" ELSE state[u]
        /\ UNCHANGED <<pc, row, todo, kill, copying, granted>>
    BY Zenon, <1>3 DEF AbortVictim, SetState, TypeOK, ThreadTypes, queueVars, ctlVars, killVars
  <2> QED
    BY ZenonT(30), <2>1 DEF ThreadInvOf
<1> QED
  BY Zenon, <1>1, <1>2, <1>3 DEF Next, Detector

\* Nothing is held or requested at the start.
LEMMA LockInvInit == Init => LockInv
<1> SUFFICES ASSUME Init PROVE LockInv
  BY Zenon
<1>1. TypeOK
  <2>1. LockTypes
    <3>1. \A r \in Rows : mode[r] \in [Txns -> LockMode] /\ granted[r] \in [Txns -> LockMode]
      BY Zenon DEF Init, LockMode
    <3>2. /\ mode \in [Rows -> [Txns -> LockMode]]
          /\ granted \in [Rows -> [Txns -> LockMode]]
      BY Zenon, <3>1 DEF Init
    <3>3. isWriting \in [Rows -> BOOLEAN] /\ isUpgrading \in [Rows -> BOOLEAN]
      BY Zenon DEF Init
    <3> QED
      BY <3>2, <3>3 DEF Init, LockTypes
  <2>2. PlaceTypes
    BY Zenon DEF Init, PlaceTypes, PC, InCall, Entering, Waiting
  <2>3. RestTypes /\ state \in [Txns -> TxnState]
    BY ZenonT(30) DEF Init, RestTypes, TxnState
  <2> QED
    BY Zenon, <2>1, <2>2, <2>3, TypeSplit
<1>2. GrantsMatch /\ ThreadInv
  BY Zenon DEF Init, GrantsMatch, ThreadInv, ThreadInvOf
<1> QED
  BY Zenon, <1>1, <1>2 DEF LockInv

\* Every step of the lock manager keeps its invariant.
LEMMA LockInvStep == LockInv /\ [Next]_vars => LockInv'
BY Zenon, TypeStep, GrantsMatchStep, ThreadStep DEF LockInv

\* The inductive invariant holds throughout.
THEOREM LockInvariance == Spec => []LockInv
BY LockInvInit, LockInvStep, PTL DEF Spec

\* Every variable of the lock manager keeps its type.
THEOREM TypeCorrect == Spec => []TypeOK
<1>1. LockInv => TypeOK
  BY Zenon DEF LockInv
<1> QED
  BY <1>1, LockInvariance, PTL

\* Two-phase locking holds for every client: whatever is granted is granted to
\* a thread inside a lock call, and LockPrepare lets none in after an Unlock.
THEOREM TwoPhaseHolds == Spec => TwoPhase
<1>1. ASSUME LockInv, [Next]_vars, NEW u \in Txns, state[u] \in {"Shrinking", "Committed"}
      PROVE  Held(u)' \subseteq Held(u)
  <2>0. LockTypes /\ GrantsMatch /\ pc[u] \notin InCall
    BY ZenonT(30), <1>1 DEF LockInv, TypeOK, ThreadInv, ThreadInvOf, InCall, Entering, Waiting
  <2>1. CASE UNCHANGED HoldVars
    BY Zenon, <2>1 DEF HoldVars, Held
  <2>2. ASSUME NEW t \in Txns, NEW r \in Rows, pc[t] \in InCall,
               GrantShared(t, r) \/ GrantExclusive(t, r) \/ GrantUpgrade(t, r)
        PROVE  sharedSet'[u] = sharedSet[u] /\ exclusiveSet'[u] = exclusiveSet[u]
    BY ZenonT(30), <2>0, <2>2 DEF GrantShared, GrantExclusive, GrantUpgrade, LockTypes
  <2>3. ASSUME NEW t \in Txns, NEW r \in Rows, Unlock(t, r), mode[r][t] # "None"
        PROVE  sharedSet'[u] \subseteq sharedSet[u] /\ exclusiveSet'[u] \subseteq exclusiveSet[u]
    <3>1. /\ sharedSet' = [sharedSet EXCEPT ![t] = @ \ {r}]
          /\ exclusiveSet' = [exclusiveSet EXCEPT ![t] = @ \ {r}]
      BY <2>0, <2>3, UnlockEffect
    <3> QED
      BY Zenon, <2>0, <3>1 DEF LockTypes
  <2>4. sharedSet'[u] \subseteq sharedSet[u] /\ exclusiveSet'[u] \subseteq exclusiveSet[u]
    BY ZenonT(30), <1>1, <2>1, <2>2, <2>3, Classify DEF HoldStep, HoldVars
  <2> QED
    BY Zenon, <2>4 DEF Held
<1>2. LockInv /\ [Next]_vars =>
        [\A t \in Txns : state[t] \in {"Shrinking", "Committed"} => Held(t)' \subseteq Held(t)]_vars
  BY Zenon, <1>1
<1> QED
  BY <1>2, LockInvariance, PTL DEF Spec, TwoPhase

-----------------------------------------------------------------------------
(* The requests of a thread. *)

\* What a request of t in r's queue says about t.
RequestOf(t, r) ==
  /\ mode[r][t] = "None" => granted[r][t] = "None"
  /\ mode[r][t] # "None" /\ granted[r][t] = "None" =>
       /\ row[t] = r
       /\ \/ pc[t] = "waitS" /\ mode[r][t] = "S"
          \/ pc[t] = "waitX" /\ mode[r][t] = "X"
  /\ granted[r][t] # "None" /\ mode[r][t] # granted[r][t] =>
       /\ UpgradePending(t, r)
       /\ \/ pc[t] = "waitU" /\ row[t] = r
          \/ pc[t] \in {"thrown", "release"} /\ state[t] = "Aborted"
  /\ pc[t] = "release" /\ mode[r][t] # "None" => r \in todo[t]
  /\ pc[t] \in InCall /\ r \in kill[t] => granted[r][t] # "None"

\* What t's place says about its request.
PlaceOf(t) ==
  /\ pc[t] = "waitS" => mode[row[t]][t] = "S"
  /\ pc[t] = "waitX" => mode[row[t]][t] = "X"
  /\ pc[t] = "waitU" /\ state[t] # "Aborted" => UpgradePending(t, row[t])
  /\ pc[t] = "thrown" => state[t] = "Aborted"

RequestInvOf(t) == PlaceOf(t) /\ \A r \in Rows : RequestOf(t, r)
RequestInv == \A t \in Txns : RequestInvOf(t)

\* The requests of a thread that does not move stay as they are.
Still(u) == Untouched(u) /\ \A r \in Rows : mode'[r][u] = mode[r][u]

\* A thread whose place, state and requests a step leaves alone keeps its part of the
\* request invariant.
LEMMA StillKeeps ==
  ASSUME TypeOK, NEW u \in Txns, RequestInvOf(u), Still(u)
  PROVE  RequestInvOf(u)'
BY DEF Still, Untouched, RequestInvOf, RequestOf, PlaceOf, UpgradePending, TypeOK, ThreadTypes,
   InCall, Waiting

\* Unlock leaves other transactions' requests alone; so does every other step of t.
LEMMA OthersStill ==
  ASSUME TypeOK, NEW t \in Txns, Latched(t) \/ Client(t) \/ External(t), NEW u \in Txns \ {t}
  PROVE  Still(u)
<1>0. LockTypes /\ ThreadTypes
  BY Zenon DEF TypeOK
<1> USE DEF txnVars, queueVars, ctlVars, killVars, detVars
<1>1. Untouched(u)
  BY Zenon, OthersUntouched
<1>2. ASSUME NEW r \in Rows, NEW m, mode' = [mode EXCEPT ![r][t] = m]
      PROVE  \A q \in Rows : mode'[q][u] = mode[q][u]
  BY Zenon, <1>0, <1>2 DEF LockTypes
<1> DEFINE Same == \A q \in Rows : mode'[q][u] = mode[q][u]
<1> HIDE DEF Same
<1>3. \A r \in Rows : \A m : mode' = [mode EXCEPT ![r][t] = m] => Same
  BY Zenon, <1>2 DEF Same
<1> mode' = mode => Same
  BY Zenon DEF Same
<1>5. pc[t] \in InCall => row[t] \in Rows
  BY Zenon, <1>0 DEF ThreadTypes
<1>6. ASSUME EnterShared(t) \/ EnterExclusive(t) \/ EnterUpgrade(t) PROVE Same
  BY ZenonT(30), <1>6, <1>3, <1>5
     DEF EnterShared, EnterExclusive, EnterUpgrade, InCall, Entering, GrantShared, GrantExclusive,
         GrantUpgrade
<1>7. ASSUME WakeShared(t) \/ WakeExclusive(t) \/ WakeUpgrade(t) PROVE Same
  BY ZenonT(30), <1>7, <1>3, <1>5
     DEF WakeShared, WakeExclusive, WakeUpgrade, Resume, Granted, AbortWait, Notified,
         InCall, Waiting, GrantShared, GrantExclusive, GrantUpgrade
<1>8. ASSUME NEW r \in Rows, ReleaseOne(t, r) \/ ExternalRelease(t, r) \/ ClientUnlock(t, r)
      PROVE  Same
  BY ZenonT(30), <1>8, <1>3 DEF ReleaseOne, ExternalRelease, ClientUnlock, Unlock
<1>9. ASSUME NEW r \in Rows, LockShared(t, r) \/ LockExclusive(t, r) \/ LockUpgrade(t, r)
      PROVE  Same
  BY Zenon, <1>9 DEF LockShared, LockExclusive, LockUpgrade
<1>10. ASSUME Begin(t) \/ Commit(t) \/ Abort(t) \/ External(t) PROVE Same
  BY Zenon, <1>10 DEF Begin, Commit, Abort, Finish, External, ExternalAbort, ExternalCopy
<1>11. Same
  BY ZenonT(30), <1>6, <1>7, <1>8, <1>9, <1>10 DEF Latched, Client
<1> QED
  BY Zenon, <1>1, <1>11 DEF Still, Same

\* A thread that gets latch_ and blocks has queued its request; one that goes on has its
\* lock granted.
LEMMA EnterRequests ==
  ASSUME LockInv, NEW t \in Txns, RequestInvOf(t),
         EnterShared(t) \/ EnterExclusive(t) \/ EnterUpgrade(t)
  PROVE  RequestInvOf(t)'
<1> PICK r \in Rows : r = row[t]
  BY Zenon DEF LockInv, TypeOK, ThreadTypes, EnterShared, EnterExclusive, EnterUpgrade, InCall, Entering
<1> LockTypes /\ ThreadTypes /\ pc[t] \in Entering
  BY Zenon DEF LockInv, TypeOK, EnterShared, EnterExclusive, EnterUpgrade, Entering
<1>1. \A q \in Rows : /\ granted[q][t] \in LockMode /\ mode[q][t] \in LockMode
                      /\ granted[q][t] = "S" <=> q \in sharedSet[t]
                      /\ granted[q][t] = "X" <=> q \in exclusiveSet[t]
  BY DEF LockInv, GrantsMatch, LockTypes
<1>2. ~(pc[t] \in Waiting \cup {"thrown", "release"}) /\ pc[t] \in InCall
  BY Zenon DEF Waiting, Entering, InCall
<1>3. \A q \in Rows : mode[q][t] = granted[q][t] /\ (q \in kill[t] => granted[q][t] # "None")
  BY Zenon, <1>2, <1>1 DEF RequestInvOf, RequestOf, Waiting
<1>4. /\ Return(t) => pc'[t] = "idle"
      /\ Throw(t) => pc'[t] = "thrown"
      /\ \A p : Block(t, p) => pc'[t] = p /\ row'[t] = r
  BY Zenon DEF Return, Throw, Leave, Block, ThreadTypes
<1>5. kill' = kill
  BY Zenon DEF EnterShared, EnterExclusive, EnterUpgrade, killVars
<1> USE DEF RequestInvOf, RequestOf, PlaceOf, UpgradePending
<1>6. ASSUME pc'[t] \in {"idle", "callU"}, mode' = mode, granted' = granted
      PROVE  RequestInvOf(t)'
  BY Zenon, <1>3, <1>5, <1>6
<1>7. ASSUME pc'[t] = "idle", NEW m \in LockMode, mode' = [mode EXCEPT ![r][t] = m],
             granted' = [granted EXCEPT ![r][t] = m]
      PROVE  RequestInvOf(t)'
  <2>1. /\ mode'[r][t] = m /\ \A q \in Rows \ {r} : mode'[q][t] = mode[q][t]
        /\ granted'[r][t] = m /\ \A q \in Rows \ {r} : granted'[q][t] = granted[q][t]
    BY <1>7 DEF LockTypes
  <2>2. \A q \in Rows : mode'[q][t] = granted'[q][t]
    BY <1>3, <2>1
  <2> QED
    BY ZenonT(30), <1>7, <2>2 DEF InCall, Entering, Waiting
<1>8. ASSUME pc'[t] \in {"waitS", "waitX"}, row'[t] = r, granted[r][t] = "None",
             mode' = [mode EXCEPT ![r][t] = IF pc'[t] = "waitS" THEN "S" ELSE "X"],
             granted' = granted
      PROVE  RequestInvOf(t)'
  <2>1. /\ mode'[r][t] = (IF pc'[t] = "waitS" THEN "S" ELSE "X")
        /\ \A q \in Rows \ {r} : mode'[q][t] = mode[q][t]
    BY <1>8 DEF LockTypes
  <2>2. \A q \in Rows \ {r} : mode'[q][t] = granted'[q][t]
    BY Zenon, <1>3, <1>8, <2>1
  <2>3. \A q \in Rows : q \in kill'[t] => granted'[q][t] # "None"
    BY Zenon, <1>3, <1>5, <1>8
  <2>4. PlaceOf(t)'
    BY Zenon, <1>8, <2>1
  <2>5. ASSUME NEW q \in Rows PROVE RequestOf(t, q)'
    BY Zenon, <1>8, <2>1, <2>2, <2>3
  <2> QED
    BY Zenon, <2>4, <2>5
<1>9. ASSUME pc'[t] = "waitU", row'[t] = r, granted[r][t] = "S",
             mode' = [mode EXCEPT ![r][t] = "X"], granted' = granted
      PROVE  RequestInvOf(t)'
  <2>1. mode'[r][t] = "X" /\ \A q \in Rows \ {r} : mode'[q][t] = mode[q][t]
    BY Zenon, <1>9 DEF LockTypes
  <2>2. \A q \in Rows \ {r} : mode'[q][t] = granted'[q][t]
    BY <1>3, <1>9, <2>1
  <2>3. \A q \in Rows : q \in kill'[t] => granted'[q][t] # "None"
    BY Zenon, <1>3, <1>5, <1>9
  <2>4. ASSUME NEW q \in Rows PROVE RequestOf(t, q)'
    BY Zenon, <1>9, <2>1, <2>2, <2>3
  <2> QED
    BY ZenonT(30), <1>9, <2>1, <2>4
<1>10. ASSUME pc'[t] = "thrown", state'[t] = "Aborted", mode' = mode, granted' = granted
       PROVE  RequestInvOf(t)'
  BY ZenonT(30), <1>3, <1>10 DEF InCall, Entering, Waiting
<1>11. \A s : SetState(t, s) => state'[t] = s
  BY ZenonT(30) DEF SetState, ThreadTypes
<1> HIDE DEF RequestInvOf
<1>12. CASE EnterShared(t)
  BY Zenon, <1>1, <1>4, <1>6, <1>7, <1>8, <1>12
     DEF EnterShared, Held, GrantShared, queueVars, LockMode
<1>13. CASE EnterExclusive(t)
  BY SMTT(30), <1>1, <1>4, <1>6, <1>7, <1>8, <1>13
     DEF EnterExclusive, Held, GrantExclusive, queueVars, LockMode
<1>14. CASE EnterUpgrade(t)
  BY Zenon, <1>1, <1>4, <1>6, <1>7, <1>9, <1>10, <1>11, <1>14
     DEF EnterUpgrade, GrantUpgrade, queueVars, LockMode
<1> QED
  BY Zenon, <1>12, <1>13, <1>14

\* A thread that resumes after cv_.wait: granted, withdrawn, or back to waiting.
LEMMA WakeRequests ==
  ASSUME LockInv, NEW t \in Txns, RequestInvOf(t),
         WakeShared(t) \/ WakeExclusive(t) \/ WakeUpgrade(t)
  PROVE  RequestInvOf(t)'
<1> LockTypes /\ ThreadTypes /\ ThreadInvOf(t) /\ pc[t] \in Waiting
  BY Zenon DEF LockInv, TypeOK, ThreadInv, WakeShared, WakeExclusive, WakeUpgrade, Notified, Waiting
<1> PICK r \in Rows : r = row[t]
  BY Zenon DEF ThreadTypes, InCall
<1>2. \A q \in Rows : granted[q][t] \in LockMode /\ mode[q][t] \in LockMode
  BY ZenonT(30) DEF LockTypes
<1>3. \A q \in Rows \ {r} : mode[q][t] = granted[q][t]
  BY Zenon, <1>2 DEF RequestInvOf, RequestOf, Waiting
<1>4. /\ Return(t) => pc'[t] = "idle"
      /\ Throw(t) => pc'[t] = "thrown"
      /\ \A p : Block(t, p) => pc'[t] = p /\ row'[t] = row[t]
  BY Zenon DEF Return, Throw, Leave, Block, ThreadTypes
<1>5. kill' = kill /\ copying' = copying /\ todo' = todo
  BY Zenon DEF WakeShared, WakeExclusive, WakeUpgrade, killVars
<1>6. ASSUME pc'[t] = "idle", NEW m \in LockMode, mode' = [mode EXCEPT ![r][t] = m],
             granted' = [granted EXCEPT ![r][t] = m]
      PROVE  RequestInvOf(t)'
  <2>1. /\ mode'[r][t] = m /\ \A q \in Rows \ {r} : mode'[q][t] = mode[q][t]
        /\ granted'[r][t] = m /\ \A q \in Rows \ {r} : granted'[q][t] = granted[q][t]
    BY Zenon, <1>6 DEF LockTypes
  <2>2. \A q \in Rows : mode'[q][t] = granted'[q][t]
    BY ZenonT(30), <1>3, <2>1
  <2> QED
    BY Zenon, <1>6, <2>2 DEF RequestInvOf, RequestOf, PlaceOf, UpgradePending, InCall, Entering, Waiting
<1>7. ASSUME NEW blocked, Resume(t, r, blocked), ~Granted(t, r, blocked) PROVE RequestInvOf(t)'
  <2>1. CASE AbortWait(t, r) /\ state[t] = "Aborted"
    <3>1. pc'[t] = "thrown" /\ state'[t] = "Aborted" /\ granted' = granted
      BY Zenon, <1>4, <2>1 DEF AbortWait, txnVars
    <3>2. /\ mode'[r][t] = IF granted[r][t] = "None" THEN "None" ELSE mode[r][t]
          /\ \A q \in Rows \ {r} : mode'[q][t] = mode[q][t]
      <4>1. mode' = [mode EXCEPT ![r][t] = IF granted[r][t] = "None" THEN "None" ELSE @]
        BY Zenon, <2>1 DEF AbortWait
      <4> QED
        BY Zenon, <4>1 DEF LockTypes
    <3>3. PlaceOf(t)'
      BY Zenon, <3>1 DEF PlaceOf
    <3>4. ASSUME NEW q \in Rows PROVE RequestOf(t, q)'
      <4>1. granted[q][t] # "None" => mode[q][t] = granted[q][t] \/ UpgradePending(t, q)
        BY Zenon DEF RequestInvOf, RequestOf
      <4>2. granted[q][t] # "None" => mode[q][t] # "None"
        BY Zenon DEF RequestInvOf, RequestOf
      <4> QED
        BY SMTT(30), <1>3, <3>1, <3>2, <4>1, <4>2 DEF RequestOf, UpgradePending, InCall, Entering, Waiting
    <3> QED
      BY Zenon, <3>3, <3>4 DEF RequestInvOf
  <2>2. CASE state[t] # "Aborted" /\ mode[r][t] = "None"
    BY Zenon, <2>2 DEF RequestInvOf, PlaceOf, UpgradePending, Waiting
  <2>3. CASE Block(t, pc[t]) /\ UNCHANGED <<txnVars, queueVars>>
    <3>1. Still(t)
      BY Zenon, <1>4, <1>5, <2>3 DEF Still, Untouched, txnVars, queueVars
    <3> QED
      BY Zenon, <3>1, StillKeeps DEF LockInv
  <2> QED
    BY ZenonT(30), <1>7, <2>1, <2>2, <2>3 DEF Resume, Granted
<1>8. CASE WakeShared(t)
  BY Zenon, <1>4, <1>6, <1>7, <1>8 DEF WakeShared, GrantShared, LockMode
<1>9. CASE WakeExclusive(t)
  BY Zenon, <1>4, <1>6, <1>7, <1>9 DEF WakeExclusive, GrantExclusive, LockMode
<1>10. CASE WakeUpgrade(t)
  BY Zenon, <1>4, <1>6, <1>7, <1>10 DEF WakeUpgrade, GrantUpgrade, LockMode
<1> QED
  BY Zenon, <1>8, <1>9, <1>10

\* Unlock leaves no request of t in r's queue, and does not revive an aborted t.
LEMMA UnlockRequest ==
  ASSUME TypeOK, NEW t \in Txns, RequestInvOf(t), NEW r \in Rows, Unlock(t, r)
  PROVE  /\ mode'[r][t] = "None" /\ granted'[r][t] = "None"
         /\ \A q \in Rows \ {r} : mode'[q][t] = mode[q][t] /\ granted'[q][t] = granted[q][t]
         /\ state[t] = "Aborted" => state'[t] = "Aborted"
<1>0. LockTypes /\ ThreadTypes
  BY Zenon DEF TypeOK
<1>1. CASE mode[r][t] = "None"
  <2>1. mode' = mode /\ granted' = granted /\ state' = state
    BY Zenon, <1>1 DEF Unlock, queueVars, txnVars
  <2> QED
    BY Zenon, <1>1, <2>1 DEF RequestInvOf, RequestOf
<1>2. CASE mode[r][t] # "None"
  <2>1. /\ mode' = [mode EXCEPT ![r][t] = "None"]
        /\ granted' = [granted EXCEPT ![r][t] = "None"]
        /\ state' = [state EXCEPT ![t] = ShrinkOnUnlock(@)]
    BY ZenonT(30), <1>2 DEF Unlock
  <2> QED
    BY ZenonT(30), <1>0, <2>1 DEF LockTypes, ThreadTypes, ShrinkOnUnlock
<1> QED
  BY Zenon, <1>1, <1>2

\* Unlock, called by the client, by its own release or by another thread's.
LEMMA ReleaseRequests ==
  ASSUME LockInv, NEW t \in Txns, RequestInvOf(t), NEW r \in Rows,
         ReleaseOne(t, r) \/ ExternalRelease(t, r) \/ ClientUnlock(t, r)
  PROVE  RequestInvOf(t)'
<1> TypeOK /\ ThreadTypes /\ ThreadInvOf(t)
  BY Zenon DEF LockInv, TypeOK, ThreadInv
<1> Unlock(t, r) /\ UNCHANGED <<pc, row>>
  BY Zenon DEF ReleaseOne, ExternalRelease, ClientUnlock
<1>2. /\ mode'[r][t] = "None" /\ granted'[r][t] = "None"
      /\ \A q \in Rows \ {r} : mode'[q][t] = mode[q][t] /\ granted'[q][t] = granted[q][t]
      /\ state[t] = "Aborted" => state'[t] = "Aborted"
  BY Zenon, UnlockRequest
<1>3. /\ \A q \in Rows : q \in todo[t] /\ q # r => q \in todo'[t]
      /\ kill'[t] \subseteq kill[t]
      /\ pc[t] \in InCall => r \in kill[t] /\ r \notin kill'[t] /\ state[t] = "Aborted"
  <2>1. CASE ReleaseOne(t, r)
    BY Zenon, <2>1 DEF ReleaseOne, ThreadTypes, killVars, ThreadInvOf, InCall, Entering, Waiting
  <2>2. CASE ExternalRelease(t, r)
    BY Zenon, <2>2 DEF ExternalRelease, ThreadTypes, ThreadInvOf, InCall, Entering, Waiting
  <2>3. CASE ClientUnlock(t, r)
    BY Zenon, <2>3 DEF ClientUnlock, killVars, InCall, Entering, Waiting
  <2> QED
    BY Zenon, <2>1, <2>2, <2>3
<1>4. PlaceOf(t)'
  <2>1. CASE pc[t] \in {"waitS", "waitX"}
    <3>1. row[t] \in Rows /\ pc[t] \in InCall /\ granted[row[t]][t] = "None"
      BY Zenon, <2>1 DEF ThreadTypes, ThreadInvOf, InCall, Waiting
    <3>2. row[t] # r
      BY Zenon, <1>3, <3>1 DEF RequestInvOf, RequestOf
    <3> QED
      BY Zenon, <1>2, <2>1, <3>1, <3>2 DEF RequestInvOf, PlaceOf
  <2>2. CASE pc[t] = "waitU"
    BY Zenon, <1>2, <1>3, <2>2 DEF PlaceOf, InCall, Waiting
  <2>3. CASE pc[t] \notin Waiting
    BY Zenon, <1>2, <2>3 DEF RequestInvOf, PlaceOf, Waiting
  <2> QED
    BY Zenon, <2>1, <2>2, <2>3 DEF Waiting
<1>5. RequestOf(t, r)'
  BY Zenon, <1>2, <1>3 DEF RequestOf
<1>6. ASSUME NEW q \in Rows \ {r} PROVE RequestOf(t, q)'
  BY <1>2, <1>3 DEF RequestInvOf, RequestOf, UpgradePending
<1> QED
  BY Zenon, <1>4, <1>5, <1>6 DEF RequestInvOf

\* The steps outside latch_: LockPrepare, Begin, and the first half of Commit and Abort.
LEMMA ClientRequests ==
  ASSUME LockInv, NEW t \in Txns, RequestInvOf(t),
         \/ \E r \in Rows : LockShared(t, r) \/ LockExclusive(t, r) \/ LockUpgrade(t, r)
         \/ Begin(t) \/ Commit(t) \/ Abort(t) \/ External(t)
  PROVE  RequestInvOf(t)'
<1> LockTypes /\ ThreadTypes /\ ThreadInvOf(t)
  BY Zenon DEF LockInv, TypeOK, ThreadInv
<1> mode' = mode /\ granted' = granted
  BY ZenonT(30) DEF LockShared, LockExclusive, LockUpgrade, Begin, Commit, Abort, Finish,
     External, ExternalAbort, ExternalCopy, queueVars
<1>2. \A q \in Rows : /\ granted[q][t] \in LockMode
                      /\ granted[q][t] # "None" <=> q \in LockSet(t)
  BY DEF LockInv, GrantsMatch, LockTypes, LockSet, LockMode
<1>3. /\ Throw(t) => pc'[t] = "thrown"
      /\ \A s : SetState(t, s) => state'[t] = s
  BY Zenon DEF Throw, Leave, ThreadTypes, SetState
<1>4. ASSUME pc[t] \in {"idle", "callU", "unborn"} PROVE \A q \in Rows : mode[q][t] = granted[q][t]
  BY Zenon, <1>4 DEF RequestInvOf, RequestOf
<1>5. ASSUME NEW r \in Rows, LockShared(t, r) \/ LockExclusive(t, r) \/ LockUpgrade(t, r)
      PROVE  RequestInvOf(t)'
  <2>1. pc[t] \in {"idle", "callU"}
    BY Zenon, <1>5 DEF LockShared, LockExclusive, LockUpgrade
  <2>2. \/ pc'[t] = "thrown" /\ state'[t] = "Aborted"
        \/ pc'[t] \in Entering /\ state[t] # "Aborted"
    BY ZenonT(30), <1>3, <1>5 DEF LockShared, LockExclusive, LockUpgrade, LockPrepare, ThreadTypes, Entering
  <2>3. kill' = kill
    BY Zenon, <1>5 DEF LockShared, LockExclusive, LockUpgrade, killVars
  <2>4. pc'[t] \in Entering => kill[t] = {}
    BY Zenon, <2>1, <2>2 DEF ThreadInvOf, Entering
  <2> QED
    BY ZenonT(30), <1>4, <2>1, <2>2, <2>3, <2>4
       DEF RequestInvOf, RequestOf, PlaceOf, InCall, Entering, Waiting
<1>6. CASE Begin(t)
  <2>1. pc[t] = "unborn" /\ pc'[t] = "idle"
    BY Zenon, <1>6 DEF Begin, ThreadTypes
  <2> QED
    BY ZenonT(30), <1>4, <2>1 DEF RequestInvOf, RequestOf, PlaceOf, InCall, Entering, Waiting
<1>7. CASE Commit(t) \/ Abort(t)
  <2>1. /\ pc[t] \in {"idle", "thrown"} /\ pc'[t] = "release" /\ todo'[t] = LockSet(t)
        /\ pc[t] = "thrown" => state'[t] = "Aborted"
    BY Zenon, <1>3, <1>7 DEF Commit, Abort, Finish, ThreadTypes
  <2>2. ASSUME NEW q \in Rows PROVE RequestOf(t, q)'
    <3>1. RequestOf(t, q)
      BY Zenon DEF RequestInvOf
    <3> QED
      BY Zenon, <1>2, <2>1, <3>1 DEF RequestOf, UpgradePending, InCall, Entering, Waiting
  <2> QED
    BY ZenonT(30), <2>1, <2>2 DEF RequestInvOf, PlaceOf
<1>8. CASE External(t)
  <2>1. /\ pc' = pc /\ row' = row /\ todo' = todo
        /\ state'[t] = "Aborted" \/ state'[t] = state[t]
        /\ kill'[t] = kill[t] \/ kill'[t] \subseteq LockSet(t)
    BY ZenonT(30), <1>3, <1>8 DEF External, ExternalAbort, ExternalCopy, txnVars, ctlVars, ThreadTypes
  <2>2. ASSUME NEW q \in Rows PROVE RequestOf(t, q)'
    <3>1. RequestOf(t, q)
      BY Zenon DEF RequestInvOf
    <3> QED
      BY ZenonT(30), <1>2, <2>1, <3>1 DEF RequestOf, UpgradePending
  <2> QED
    BY ZenonT(30), <2>1, <2>2 DEF RequestInvOf, PlaceOf, UpgradePending
<1> QED
  BY Zenon, <1>5, <1>6, <1>7, <1>8

\* Every step keeps what the queues and the threads' places say of each other.
LEMMA RequestStep == LockInv /\ RequestInv /\ [Next]_vars => RequestInv'
<1> SUFFICES ASSUME LockInv, RequestInv, [Next]_vars, NEW u \in Txns PROVE RequestInvOf(u)'
  BY Zenon DEF RequestInv
<1> TypeOK /\ ThreadTypes /\ RequestInvOf(u)
  BY Zenon DEF LockInv, TypeOK, RequestInv
<1>1. ASSUME NEW t \in Txns, Latched(t) \/ Client(t) \/ External(t) PROVE RequestInvOf(u)'
  <2>1. CASE u = t
    <3>1. CASE EnterShared(t) \/ EnterExclusive(t) \/ EnterUpgrade(t)
      BY Zenon, <2>1, <3>1, EnterRequests
    <3>2. CASE WakeShared(t) \/ WakeExclusive(t) \/ WakeUpgrade(t)
      BY Zenon, <2>1, <3>2, WakeRequests
    <3>3. CASE \E r \in Rows : ReleaseOne(t, r) \/ ExternalRelease(t, r) \/ ClientUnlock(t, r)
      BY Zenon, <2>1, <3>3, ReleaseRequests
    <3>4. CASE \/ \E r \in Rows : LockShared(t, r) \/ LockExclusive(t, r) \/ LockUpgrade(t, r)
               \/ Begin(t) \/ Commit(t) \/ Abort(t) \/ External(t)
      BY Zenon, <2>1, <3>4, ClientRequests
    <3> QED
      BY ZenonT(30), <1>1, <3>1, <3>2, <3>3, <3>4 DEF Latched, Client
  <2>2. CASE u # t
    BY Zenon, <1>1, <2>2, OthersStill, StillKeeps
  <2> QED
    BY Zenon, <2>1, <2>2
<1>2. CASE BuildGraph \/ EndPass \/ UNCHANGED vars \/ \E t \in Txns : SpuriousWakeup(t)
  <2>1. Still(u)
    BY Zenon, <1>2 DEF BuildGraph, EndPass, SpuriousWakeup, Still, Untouched, vars, txnVars, queueVars,
       ctlVars, killVars
  <2> QED
    BY Zenon, <2>1, StillKeeps
<1>3. ASSUME NEW t \in Txns, AbortVictim(t) PROVE RequestInvOf(u)'
  <2>1. /\ state'[u] = IF u = t THEN "Aborted" ELSE state[u]
        /\ UNCHANGED <<pc, row, todo, kill, granted, mode>>
    BY Zenon, <1>3 DEF AbortVictim, SetState, ThreadTypes, queueVars, ctlVars, killVars
  <2>2. PlaceOf(u)'
    BY Zenon, <2>1 DEF RequestInvOf, PlaceOf, UpgradePending
  <2>3. ASSUME NEW r \in Rows PROVE RequestOf(u, r)'
    BY Zenon, <2>1 DEF RequestInvOf, RequestOf, UpgradePending
  <2> QED
    BY Zenon, <2>2, <2>3 DEF RequestInvOf
<1> QED
  BY Zenon, <1>1, <1>2, <1>3 DEF Next, Detector

=============================================================================
