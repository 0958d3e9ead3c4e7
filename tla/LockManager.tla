---------------------------- MODULE LockManager ----------------------------
(***************************************************************************)
(* Two-phase row locking: LockManager (lock_manager.cpp, lock_manager.h),  *)
(* the transaction manager that drives it (txn_manager.cpp) and the        *)
(* background deadlock detector.                                           *)
(*                                                                         *)
(* Every transaction is run by one thread.  A lock call first runs         *)
(* LockPrepare, WITHOUT latch_, and then takes latch_; the two are         *)
(* separate steps here.  What a thread does while it holds latch_ is one   *)
(* step, up to its return or its cv_.wait.  The detector also runs with    *)
(* latch_ held, but it reads and writes transaction states that other      *)
(* threads change without the latch, so its pass is several steps.         *)
(***************************************************************************)
EXTENDS Integers, FiniteSets, WaitsForGraph

CONSTANTS
  Rows,             \* the RowIds that are locked
  NoRow,            \* "no call in progress"
  ReadUncommitted,  \* transactions begun with IsolationLevel::kReadUncommitted
  Upgraders,        \* transactions that ask for X on a row they hold in S
  Killable,         \* transactions another thread may TxnManager::Abort
  CycleDetection    \* enable_cycle_detection_

ASSUME NoRowAssumption == NoRow \notin Rows
ASSUME RolesAssumption ==
  /\ ReadUncommitted \subseteq Txns
  /\ Upgraders \subseteq Txns
  /\ Killable \subseteq Txns
  /\ CycleDetection \in BOOLEAN

VARIABLES
  state,         \* Txn::state_
  sharedSet,     \* Txn::shared_lock_set_
  exclusiveSet,  \* Txn::exclusive_lock_set_
  mode,          \* lock_mode_ of t's request on r, "None" if it has no request
  granted,       \* granted_ of t's request on r
  isWriting,     \* is_writing_ of r's queue
  isUpgrading,   \* is_upgrading_ of r's queue
  sharingCnt,    \* sharing_cnt_ of r's queue
  pc,            \* where t's thread is
  row,           \* the rid argument of t's current call
  woken,         \* threads in cv_.wait that have been notified
  todo,          \* rows t's own ReleaseLocks has still to unlock
  kill,          \* rows another thread's Abort(t) has still to unlock
  killed,        \* transactions another thread has called Abort on
  copying,       \* whether that Abort has still to copy t's lock sets, and how
  detecting,     \* the detector holds latch_
  waitsFor       \* waits_for_, as a set of edges

txnVars   == <<state, sharedSet, exclusiveSet>>
queueVars == <<mode, granted, isWriting, isUpgrading, sharingCnt>>
ctlVars   == <<pc, row, woken, todo>>
killVars  == <<kill, killed, copying>>
detVars   == <<detecting, waitsFor>>
vars      == <<txnVars, queueVars, ctlVars, killVars, detVars>>

TxnState == {"Growing", "Shrinking", "Committed", "Aborted"}
LockMode == {"None", "S", "X"}
Entering == {"enterS", "enterX", "enterU"}   \* past LockPrepare, before latch_
Waiting  == {"waitS", "waitX", "waitU"}      \* inside cv_.wait
InCall   == Entering \cup Waiting \cup {"callU"}
PC       == InCall \cup {"unborn", "idle", "thrown", "release"}

Held(t) == sharedSet[t] \cup exclusiveSet[t]
Done(t) == pc[t] = "release" /\ todo[t] = {}

\* Whom r's cv_.notify_all wakes.
NotifyNobody(r) == {}
Waiters(r) == {u \in Txns : pc[u] \in Waiting /\ row[u] = r}

Init ==
  /\ state = [t \in Txns |-> "Growing"]
  /\ sharedSet = [t \in Txns |-> {}]
  /\ exclusiveSet = [t \in Txns |-> {}]
  /\ mode = [r \in Rows |-> [t \in Txns |-> "None"]]
  /\ granted = [r \in Rows |-> [t \in Txns |-> "None"]]
  /\ isWriting = [r \in Rows |-> FALSE]
  /\ isUpgrading = [r \in Rows |-> FALSE]
  /\ sharingCnt = [r \in Rows |-> 0]
  /\ pc = [t \in Txns |-> "unborn"]
  /\ row = [t \in Txns |-> NoRow]
  /\ woken = {}
  /\ todo = [t \in Txns |-> {}]
  /\ kill = [t \in Txns |-> {}]
  /\ killed = {}
  /\ copying = [t \in Txns |-> "no"]
  /\ detecting = FALSE
  /\ waitsFor = {}

(***************************************************************************)
(* Pieces shared by the handlers.                                          *)
(***************************************************************************)

\* How a handler ends: it returns to the client, throws, or blocks in cv_.wait.
Leave(t, p) == pc' = [pc EXCEPT ![t] = p] /\ row' = [row EXCEPT ![t] = NoRow]
Return(t)   == Leave(t, "idle")
Throw(t)    == Leave(t, "thrown")
Block(t, p) == pc' = [pc EXCEPT ![t] = p] /\ UNCHANGED row

SetState(t, s) == state' = [state EXCEPT ![t] = s]

\* LockPrepare, run without latch_; "next" is where the call then waits for it.
LockPrepareUnchecked(t, r, next) ==
  IF state[t] = "Aborted" THEN Throw(t) /\ UNCHANGED state
  ELSE /\ pc' = [pc EXCEPT ![t] = next]
       /\ row' = [row EXCEPT ![t] = r]
       /\ UNCHANGED state

LockPrepare(t, r, next) ==
  CASE state[t] = "Aborted"   -> Throw(t) /\ UNCHANGED state
    [] state[t] = "Shrinking" -> Throw(t) /\ SetState(t, "Aborted")
    [] OTHER -> /\ pc' = [pc EXCEPT ![t] = next]
                /\ row' = [row EXCEPT ![t] = r]
                /\ UNCHANGED state

\* The conditions of the three wait loops.
SharedBlocked(r) == isWriting[r] \/ isUpgrading[r]

ExclusiveBlockedByWriter(r) == isWriting[r]
ExclusiveBlocked(r) == isWriting[r] \/ sharingCnt[r] > 0

UpgradeBlocked(r) == isWriting[r] \/ sharingCnt[r] > 1

\* What follows each wait loop.
GrantShared(t, r) ==
  /\ mode' = [mode EXCEPT ![r][t] = "S"]
  /\ granted' = [granted EXCEPT ![r][t] = "S"]
  /\ sharingCnt' = [sharingCnt EXCEPT ![r] = @ + 1]
  /\ sharedSet' = [sharedSet EXCEPT ![t] = @ \cup {r}]
  /\ woken' = woken \ {t}
  /\ UNCHANGED <<isWriting, isUpgrading, exclusiveSet>>

GrantExclusive(t, r) ==
  /\ mode' = [mode EXCEPT ![r][t] = "X"]
  /\ granted' = [granted EXCEPT ![r][t] = "X"]
  /\ isWriting' = [isWriting EXCEPT ![r] = TRUE]
  /\ exclusiveSet' = [exclusiveSet EXCEPT ![t] = @ \cup {r}]
  /\ woken' = woken \ {t}
  /\ UNCHANGED <<isUpgrading, sharingCnt, sharedSet>>

GrantUpgradeKeepsCount(t, r) ==
  /\ mode' = [mode EXCEPT ![r][t] = "X"]
  /\ granted' = [granted EXCEPT ![r][t] = "X"]
  /\ isWriting' = [isWriting EXCEPT ![r] = TRUE]
  /\ isUpgrading' = [isUpgrading EXCEPT ![r] = FALSE]
  /\ sharedSet' = [sharedSet EXCEPT ![t] = @ \ {r}]
  /\ exclusiveSet' = [exclusiveSet EXCEPT ![t] = @ \cup {r}]
  /\ woken' = (woken \cup Waiters(r)) \ {t}
  /\ UNCHANGED sharingCnt
GrantUpgrade(t, r) ==
  /\ mode' = [mode EXCEPT ![r][t] = "X"]
  /\ granted' = [granted EXCEPT ![r][t] = "X"]
  /\ sharingCnt' = [sharingCnt EXCEPT ![r] = @ - 1]
  /\ isWriting' = [isWriting EXCEPT ![r] = TRUE]
  /\ isUpgrading' = [isUpgrading EXCEPT ![r] = FALSE]
  /\ sharedSet' = [sharedSet EXCEPT ![t] = @ \ {r}]
  /\ exclusiveSet' = [exclusiveSet EXCEPT ![t] = @ \cup {r}]
  /\ woken' = (woken \cup Waiters(r)) \ {t}

\* t's request is for an upgrade that has not been granted.
NeverPending(t, r) == FALSE
UpgradePending(t, r) == mode[r][t] = "X" /\ granted[r][t] = "S"

\* The state of a transaction after an Unlock.
ShrinkOnUnlock(s) == IF s = "Growing" THEN "Shrinking" ELSE s

\* Mutant: the request stays in the queue.
UnlockKeepsRequest(t, r) ==
  IF mode[r][t] = "None"
  THEN UNCHANGED <<txnVars, queueVars, woken>>
  ELSE /\ sharingCnt' = [sharingCnt EXCEPT ![r] = IF granted[r][t] = "S" THEN @ - 1 ELSE @]
       /\ isWriting' = [isWriting EXCEPT ![r] = IF granted[r][t] = "X" THEN FALSE ELSE @]
       /\ sharedSet' = [sharedSet EXCEPT ![t] = @ \ {r}]
       /\ exclusiveSet' = [exclusiveSet EXCEPT ![t] = @ \ {r}]
       /\ isUpgrading' = [isUpgrading EXCEPT ![r] = IF UpgradePending(t, r) THEN FALSE ELSE @]
       /\ state' = [state EXCEPT ![t] = ShrinkOnUnlock(@)]
       /\ woken' = woken \cup Waiters(r)
       /\ UNCHANGED <<mode, granted>>

\* LockManager::Unlock, all of it under latch_.  It does nothing (and returns
\* false) when t has no request on r.
Unlock(t, r) ==
  IF mode[r][t] = "None"
  THEN UNCHANGED <<txnVars, queueVars, woken>>
  ELSE /\ sharingCnt' = [sharingCnt EXCEPT ![r] = IF granted[r][t] = "S" THEN @ - 1 ELSE @]
       /\ isWriting' = [isWriting EXCEPT ![r] = IF granted[r][t] = "X" THEN FALSE ELSE @]
       /\ sharedSet' = [sharedSet EXCEPT ![t] = IF granted[r][t] = "S" THEN @ \ {r} ELSE @]
       /\ exclusiveSet' = [exclusiveSet EXCEPT ![t] = IF granted[r][t] = "X" THEN @ \ {r} ELSE @]
       /\ isUpgrading' = [isUpgrading EXCEPT ![r] = IF UpgradePending(t, r) THEN FALSE ELSE @]
       /\ mode' = [mode EXCEPT ![r][t] = "None"]
       /\ granted' = [granted EXCEPT ![r][t] = "None"]
       /\ state' = [state EXCEPT ![t] = ShrinkOnUnlock(@)]
       /\ woken' = woken \cup Waiters(r)

\* CheckAbort once the transaction is aborted: withdraw a request that was
\* never granted, or the upgrade flag, wake the queue and throw.
AbortWait(t, r) ==
  LET withdrawn == granted[r][t] = "None" IN
  /\ mode' = [mode EXCEPT ![r][t] = IF withdrawn THEN "None" ELSE @]
  /\ isUpgrading' = [isUpgrading EXCEPT ![r] = IF UpgradePending(t, r) THEN FALSE ELSE @]
  /\ woken' = (woken \cup Waiters(r)) \ {t}
  /\ Throw(t)
  /\ UNCHANGED <<txnVars, granted, isWriting, sharingCnt>>

-----------------------------------------------------------------------------
(***************************************************************************)
(* TxnManager::Begin and the calls a client makes on its transaction.      *)
(***************************************************************************)

Begin(t) ==
  /\ pc[t] = "unborn"
  /\ \A u \in Txns : u < t => pc[u] # "unborn"      \* next_txn_id_++
  /\ pc' = [pc EXCEPT ![t] = "idle"]
  /\ UNCHANGED <<txnVars, queueVars, row, woken, todo, killVars, detVars>>

LockShared(t, r) ==
  /\ pc[t] = "idle"
  /\ IF t \in ReadUncommitted
     THEN Throw(t) /\ SetState(t, "Aborted")
     ELSE LockPrepare(t, r, "enterS")
  /\ UNCHANGED <<sharedSet, exclusiveSet, queueVars, woken, todo, killVars, detVars>>

LockExclusive(t, r) ==
  /\ pc[t] = "idle"
  /\ r \in sharedSet[t] => t \in Upgraders
  /\ LockPrepare(t, r, "enterX")
  /\ UNCHANGED <<sharedSet, exclusiveSet, queueVars, woken, todo, killVars, detVars>>

\* Called by the client, or by LockExclusive after it has released latch_.
LockUpgrade(t, r) ==
  /\ t \in Upgraders
  /\ \/ pc[t] = "idle"
     \/ pc[t] = "callU" /\ row[t] = r
  /\ LockPrepare(t, r, "enterU")
  /\ UNCHANGED <<sharedSet, exclusiveSet, queueVars, woken, todo, killVars, detVars>>

ClientUnlock(t, r) ==
  /\ pc[t] = "idle"
  /\ ~detecting
  /\ Unlock(t, r)
  /\ UNCHANGED <<pc, row, todo, killVars, detVars>>

\* What ReleaseLocks copies before it unlocks.
LockSetExclusiveOnly(t) == exclusiveSet[t]
LockSet(t) == exclusiveSet[t] \cup sharedSet[t]

\* Commit and Abort set the state and then copy the two lock sets, without
\* latch_; ReleaseOne unlocks the copied rows one by one, in any order.  A
\* client whose call threw aborts.  Nothing is added to the sets any more, as
\* their own thread is here, and Unlock of a row that another thread's Abort
\* has released meanwhile does nothing: the copy may as well be taken at once.
Finish(t, s) ==
  /\ SetState(t, s)
  /\ todo' = [todo EXCEPT ![t] = LockSet(t)]
  /\ pc' = [pc EXCEPT ![t] = "release"]
  /\ UNCHANGED <<sharedSet, exclusiveSet, queueVars, row, woken, killVars, detVars>>

Commit(t) == pc[t] = "idle" /\ Finish(t, "Committed")
Abort(t)  == pc[t] \in {"idle", "thrown"} /\ Finish(t, "Aborted")

ReleaseOne(t, r) ==
  /\ r \in todo[t]
  /\ ~detecting
  /\ Unlock(t, r)
  /\ todo' = [todo EXCEPT ![t] = @ \ {r}]
  /\ UNCHANGED <<pc, row, killVars, detVars>>

-----------------------------------------------------------------------------
(***************************************************************************)
(* The latched part of the lock calls: from latch_ to the return or wait.  *)
(***************************************************************************)

EnterShared(t) ==
  LET r == row[t] IN
  /\ pc[t] = "enterS"
  /\ ~detecting
  /\ CASE r \in Held(t) ->
            Return(t) /\ UNCHANGED <<txnVars, queueVars, woken>>
       [] r \notin Held(t) /\ SharedBlocked(r) ->
            /\ mode' = [mode EXCEPT ![r][t] = "S"]
            /\ Block(t, "waitS")
            /\ UNCHANGED <<txnVars, granted, isWriting, isUpgrading, sharingCnt, woken>>
       [] OTHER ->
            GrantShared(t, r) /\ Return(t) /\ UNCHANGED state
  /\ UNCHANGED <<todo, killVars, detVars>>

EnterExclusive(t) ==
  LET r == row[t] IN
  /\ pc[t] = "enterX"
  /\ ~detecting
  /\ CASE r \in exclusiveSet[t] ->
            Return(t) /\ UNCHANGED <<txnVars, queueVars, woken>>
       [] r \in sharedSet[t] \ exclusiveSet[t] ->
            Block(t, "callU") /\ UNCHANGED <<txnVars, queueVars, woken>>
       [] r \notin Held(t) /\ ExclusiveBlocked(r) ->
            /\ mode' = [mode EXCEPT ![r][t] = "X"]
            /\ Block(t, "waitX")
            /\ UNCHANGED <<txnVars, granted, isWriting, isUpgrading, sharingCnt, woken>>
       [] OTHER ->
            GrantExclusive(t, r) /\ Return(t) /\ UNCHANGED state
  /\ UNCHANGED <<todo, killVars, detVars>>

EnterUpgrade(t) ==
  LET r == row[t] IN
  /\ pc[t] = "enterU"
  /\ ~detecting
  /\ CASE r \in exclusiveSet[t] \/ r \notin sharedSet[t] ->
            Return(t) /\ UNCHANGED <<txnVars, queueVars, woken>>
       [] r \in sharedSet[t] \ exclusiveSet[t] /\ isUpgrading[r] ->
            /\ SetState(t, "Aborted")
            /\ Throw(t)
            /\ UNCHANGED <<sharedSet, exclusiveSet, queueVars, woken>>
       [] r \in sharedSet[t] \ exclusiveSet[t] /\ ~isUpgrading[r] /\ UpgradeBlocked(r) ->
            /\ isUpgrading' = [isUpgrading EXCEPT ![r] = TRUE]
            /\ mode' = [mode EXCEPT ![r][t] = "X"]
            /\ Block(t, "waitU")
            /\ UNCHANGED <<txnVars, granted, isWriting, sharingCnt, woken>>
       [] OTHER ->
            GrantUpgrade(t, r) /\ Return(t) /\ UNCHANGED state
  /\ UNCHANGED <<todo, killVars, detVars>>

\* A notified thread holds latch_ again.  CheckAbort comes first; a request
\* that is gone makes the call return false; then the loop condition decides.
Resume(t, r, blocked) ==
  CASE state[t] = "Aborted" ->
         AbortWait(t, r)
    [] state[t] # "Aborted" /\ mode[r][t] = "None" ->
         Return(t) /\ woken' = woken \ {t} /\ UNCHANGED <<txnVars, queueVars>>
    [] state[t] # "Aborted" /\ mode[r][t] # "None" /\ blocked ->
         Block(t, pc[t]) /\ woken' = woken \ {t} /\ UNCHANGED <<txnVars, queueVars>>

Granted(t, r, blocked) == state[t] # "Aborted" /\ mode[r][t] # "None" /\ ~blocked
Notified(t, p)         == pc[t] = p /\ t \in woken /\ ~detecting

WakeShared(t) ==
  LET r == row[t] IN
  /\ Notified(t, "waitS")
  /\ IF Granted(t, r, SharedBlocked(r))
     THEN GrantShared(t, r) /\ Return(t) /\ UNCHANGED state
     ELSE Resume(t, r, SharedBlocked(r))
  /\ UNCHANGED <<todo, killVars, detVars>>

WakeExclusive(t) ==
  LET r == row[t] IN
  /\ Notified(t, "waitX")
  /\ IF Granted(t, r, ExclusiveBlocked(r))
     THEN GrantExclusive(t, r) /\ Return(t) /\ UNCHANGED state
     ELSE Resume(t, r, ExclusiveBlocked(r))
  /\ UNCHANGED <<todo, killVars, detVars>>

WakeUpgrade(t) ==
  LET r == row[t] IN
  /\ Notified(t, "waitU")
  /\ IF Granted(t, r, UpgradeBlocked(r))
     THEN GrantUpgrade(t, r) /\ Return(t) /\ UNCHANGED state
     ELSE Resume(t, r, UpgradeBlocked(r))
  /\ UNCHANGED <<todo, killVars, detVars>>

\* std::condition_variable may return from wait without a notification.
SpuriousWakeup(t) ==
  /\ pc[t] \in Waiting
  /\ t \notin woken
  /\ woken' = woken \cup {t}
  /\ UNCHANGED <<txnVars, queueVars, pc, row, todo, killVars, detVars>>

-----------------------------------------------------------------------------
(***************************************************************************)
(* TxnManager::Abort(t) called by a thread other than t's, while t is in a *)
(* lock call or between two calls.                                         *)
(***************************************************************************)

ExternalAbort(t) ==
  /\ t \in Killable \ killed
  /\ pc[t] \notin {"unborn", "release"}
  /\ SetState(t, "Aborted")
  /\ copying' = [copying EXCEPT ![t] = IF pc[t] \in Entering THEN "racing" ELSE "alone"]
  /\ killed' = killed \cup {t}
  /\ UNCHANGED <<sharedSet, exclusiveSet, queueVars, ctlVars, kill, detVars>>

\* ReleaseLocks copies the sets row by row.  A call that was past LockPrepare
\* when the state changed may insert into them, or move a row from one to the
\* other, at the same time: the copy may then miss any row.
ExternalCopy(t) ==
  /\ \/ copying[t] = "alone" /\ kill' = [kill EXCEPT ![t] = LockSet(t)]
     \/ copying[t] = "racing" /\ \E seen \in SUBSET LockSet(t) : kill' = [kill EXCEPT ![t] = seen]
  /\ copying' = [copying EXCEPT ![t] = "no"]
  /\ UNCHANGED <<txnVars, queueVars, ctlVars, killed, detVars>>

ExternalRelease(t, r) ==
  /\ r \in kill[t]
  /\ ~detecting
  /\ Unlock(t, r)
  /\ kill' = [kill EXCEPT ![t] = @ \ {r}]
  /\ UNCHANGED <<pc, row, todo, killed, copying, detVars>>

-----------------------------------------------------------------------------
(***************************************************************************)
(* RunCycleDetection: one pass builds waits_for_ from the request queues,  *)
(* aborts a victim for as long as there is a cycle, and wakes every queue. *)
(* HasCycle is used here by what it promises (WaitsForGraph!Victims);      *)
(* module CycleDetection has the depth-first search itself, which          *)
(* MCLockManager!SearchDelivers compares with it.                          *)
(***************************************************************************)

IsWaiting(r, t) == mode[r][t] # "None" /\ granted[r][t] # mode[r][t]
ConflictWritersOnly(r, t, u) == u # t /\ granted[r][u] # "None" /\ mode[r][t] = "X"
Conflict(r, t, u) ==
  /\ u # t
  /\ granted[r][u] # "None"
  /\ mode[r][t] = "X" \/ granted[r][u] = "X"

WaitEdges ==
  {e \in Edges : \E r \in Rows : IsWaiting(r, e[1]) /\ Conflict(r, e[1], e[2])}

\* DeleteNode: t's own edges go, and the edges into t of ungranted requests on
\* rows t holds (an upgrader's edge into t stays).
DeleteNode(edges, t) ==
  {e \in edges : /\ e[1] # t
                 /\ ~(/\ e[2] = t
                      /\ \E r \in Held(t) : mode[r][e[1]] # "None" /\ granted[r][e[1]] = "None")}

BuildGraph ==
  /\ CycleDetection
  /\ ~detecting
  /\ detecting' = TRUE
  /\ waitsFor' = WaitEdges
  /\ UNCHANGED <<txnVars, queueVars, ctlVars, killVars>>

AbortVictim(t) ==
  /\ detecting
  /\ t \in Victims(waitsFor)
  /\ SetState(t, "Aborted")
  /\ waitsFor' = DeleteNode(waitsFor, t)
  /\ UNCHANGED <<sharedSet, exclusiveSet, queueVars, ctlVars, killVars, detecting>>

EndPass ==
  /\ detecting
  /\ Victims(waitsFor) = {}
  /\ detecting' = FALSE
  /\ waitsFor' = {}               \* not read again before the next pass clears it
  /\ woken' = woken \cup UNION {Waiters(r) : r \in Rows}
  /\ UNCHANGED <<txnVars, queueVars, pc, row, todo, killVars>>

-----------------------------------------------------------------------------
\* A transaction's thread, by what it does while it needs latch_ or not.
Latched(t) ==
  \/ EnterShared(t) \/ EnterExclusive(t) \/ EnterUpgrade(t)
  \/ WakeShared(t) \/ WakeExclusive(t) \/ WakeUpgrade(t)
  \/ \E r \in Rows : ReleaseOne(t, r)
  \/ \E r \in Rows : ExternalRelease(t, r)

Client(t) ==
  \/ Begin(t) \/ Commit(t) \/ Abort(t)
  \/ \E r \in Rows : \/ LockShared(t, r) \/ LockExclusive(t, r)
                     \/ LockUpgrade(t, r) \/ ClientUnlock(t, r)

External(t) == ExternalAbort(t) \/ ExternalCopy(t)

Detector == BuildGraph \/ EndPass \/ \E t \in Txns : AbortVictim(t)

Next ==
  \/ Detector
  \/ \E t \in Txns : Latched(t) \/ Client(t) \/ SpuriousWakeup(t) \/ External(t)

Spec == Init /\ [][Next]_vars

\* Fairness.  Threads get a mutex they keep asking for (the detector sleeps
\* between passes), the detector keeps running, and a client does not go on
\* calling the lock manager for ever without ending its transaction.
Fairness ==
  /\ WF_vars(Detector)
  /\ \A t \in Txns : /\ SF_vars(Latched(t))
                     /\ SF_vars(Commit(t) \/ Abort(t))
                     /\ WF_vars(ExternalCopy(t))
                     /\ WF_vars(pc[t] = "callU" /\ \E r \in Rows : LockUpgrade(t, r))

FairSpec == Spec /\ Fairness

-----------------------------------------------------------------------------
(***************************************************************************)
(* Properties.                                                             *)
(***************************************************************************)

LockTypes ==
  /\ sharedSet \in [Txns -> SUBSET Rows]
  /\ exclusiveSet \in [Txns -> SUBSET Rows]
  /\ mode \in [Rows -> [Txns -> LockMode]]
  /\ granted \in [Rows -> [Txns -> LockMode]]
  /\ isWriting \in [Rows -> BOOLEAN]
  /\ isUpgrading \in [Rows -> BOOLEAN]
  /\ sharingCnt \in [Rows -> Int]
  /\ woken \in SUBSET Txns

ThreadTypes ==
  /\ state \in [Txns -> TxnState]
  /\ pc \in [Txns -> PC]
  /\ row \in [Txns -> Rows \cup {NoRow}]
  /\ \A t \in Txns : pc[t] \in InCall => row[t] \in Rows
  /\ todo \in [Txns -> SUBSET Rows]
  /\ kill \in [Txns -> SUBSET Rows]
  /\ killed \in SUBSET Txns
  /\ copying \in [Txns -> {"no", "alone", "racing"}]
  /\ detecting \in BOOLEAN
  /\ waitsFor \subseteq Edges

\* Every variable has its type, and a thread inside a call has its row.
TypeOK == LockTypes /\ ThreadTypes

SharedHolders(r)    == {t \in Txns : r \in sharedSet[t]}
ExclusiveHolders(r) == {t \in Txns : r \in exclusiveSet[t]}

\* A row held exclusively is held by nobody else, in any mode, whatever the
\* interleaving of LockShared, LockExclusive, LockUpgrade, Unlock and aborts.
MutualExclusion ==
  \A r \in Rows : \A t \in ExclusiveHolders(r) :
    SharedHolders(r) \cup ExclusiveHolders(r) = {t} /\ r \notin sharedSet[t]

\* The queue's counter and flag, on which the wait loops decide, agree with
\* the lock sets kept in the transactions (two copies of the same fact, updated
\* by seven different code paths).
QueueMatchesLockSets ==
  \A r \in Rows :
    /\ sharingCnt[r] = Cardinality(SharedHolders(r))
    /\ isWriting[r] <=> ExclusiveHolders(r) # {}

\* No lost wakeup: a thread asleep in cv_.wait that nobody has notified is
\* still blocked by its loop condition (or has been aborted meanwhile).
NoLostWakeup ==
  \A t \in Txns : \A r \in Rows :
    pc[t] \in Waiting /\ row[t] = r /\ t \notin woken /\ state[t] # "Aborted" =>
      CASE pc[t] = "waitS" -> SharedBlocked(r)
        [] pc[t] = "waitX" -> ExclusiveBlocked(r)
        [] pc[t] = "waitU" -> UpgradeBlocked(r)

\* is_upgrading_ never stays set without a thread waiting in LockUpgrade: a
\* stuck flag would block every later reader of the row.
NoStuckUpgradeFlag ==
  \A r \in Rows : isUpgrading[r] =>
    \E t \in Txns : pc[t] = "waitU" /\ row[t] = r /\ mode[r][t] = "X" /\ granted[r][t] = "S"

\* EmplaceLockRequest's assert(res): a thread that is about to queue a request,
\* in LockShared or in LockExclusive, has none in that queue of either mode, also
\* if another thread's Abort has released its rows since its LockPrepare.
NoDuplicateRequest ==
  \A t \in Txns :
    pc[t] \in {"enterS", "enterX"} /\ row[t] \notin Held(t) => mode[row[t]][t] = "None"

\* A transaction whose Commit or Abort has returned holds no lock and has left
\* no request in any queue.
FinishedHoldsNothing ==
  \A t \in Txns : Done(t) =>
    Held(t) = {} /\ \A r \in Rows : mode[r][t] = "None"

\* Two-phase locking: a transaction that has released a lock acquires none.
TwoPhase ==
  [][\A t \in Txns : state[t] \in {"Shrinking", "Committed"} => Held(t)' \subseteq Held(t)]_vars

\* The detector aborts only transactions that are blocked in a lock call.
VictimIsBlocked ==
  [][\A t \in Txns : AbortVictim(t) /\ state[t] # "Aborted" => pc[t] \in Waiting]_vars

\* With the detector running, no thread stays in a lock call for ever: a
\* deadlock is broken, and the victim is woken.
WaitsEnd == \A t \in Txns : pc[t] \in Waiting ~> pc[t] \notin Waiting

\* Whom a sleeping thread really waits for, the transactions that make its loop
\* condition true: holders of the row, and for a reader also a waiting upgrader.
BlockingHolders(t) ==
  {u \in Txns \ {t} : \/ granted[row[t]][u] = "X"
                      \/ pc[t] # "waitS" /\ granted[row[t]][u] = "S"}
BlockingUpgraders(t) ==
  {u \in Txns \ {t} : /\ pc[t] = "waitS" /\ isUpgrading[row[t]]
                      /\ pc[u] = "waitU" /\ row[u] = row[t]}

Asleep(t) == pc[t] \in Waiting /\ t \notin woken /\ state[t] # "Aborted"

\* The graph RunCycleDetection builds shows every deadlock among transactions that
\* each wait for another's lock, also when some of them wait for an upgrade.
HolderDeadlocksAreSeen ==
  (\E D \in (SUBSET Txns) \ {{}} : \A t \in D : Asleep(t) /\ BlockingHolders(t) \cap D # {})
    => Victims(WaitEdges) # {}

\* The graph RunCycleDetection builds shows every deadlock.
DeadlocksAreSeen ==
  (\E D \in (SUBSET Txns) \ {{}} : \A t \in D :
     Asleep(t) /\ (BlockingHolders(t) \cup BlockingUpgraders(t)) \cap D # {})
    => Victims(WaitEdges) # {}

Table == INSTANCE LockTable WITH shared <- sharedSet, exclusive <- exclusiveSet

\* The lock manager implements the abstract lock table: every step acquires,
\* upgrades or releases one lock by the table's rules, or leaves it alone.
ImplementsLockTable == Table!Spec

=============================================================================
