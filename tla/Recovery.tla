------------------------------ MODULE Recovery ------------------------------
(***************************************************************************)
(* Log records and crash recovery (log_rec.h, recovery_manager.h), and the *)
(* transactions that write the log.  A record's LSN is its place in the    *)
(* log; 0 is INVALID_LSN.                                                  *)
(*                                                                         *)
(* The transactions are strict two-phase: a key a transaction has written  *)
(* is its own until it ends (LockManager), so writer[k] is the transaction *)
(* that holds k, and an abort has restored its keys by the time it is      *)
(* logged.  A checkpoint may be taken at any time, with uncommitted data   *)
(* in it.  Recovery runs Init, RedoPhase and UndoPhase over the whole log; *)
(* a crash during recovery starts it over.                                 *)
(***************************************************************************)
EXTENDS Integers, Sequences, FiniteSets

CONSTANTS
  Txns, Keys, Vals,
  NoTxn, NoKey, Absent,  \* a key with no writer; no key in a record; no value
  MaxLog,                \* bound on the length of the log
  MaxCrashes             \* bound on the number of crashes

ASSUME TxnsAssumption == IsFiniteSet(Txns)
ASSUME MaxLogAssumption == MaxLog \in Nat
ASSUME MaxCrashesAssumption == MaxCrashes \in Nat
ASSUME AbsentAssumption == Absent \notin Vals /\ NoTxn \notin Txns /\ NoKey \notin Keys

VARIABLES
  log,        \* log_recs_
  lastLsn,    \* LogRec::prev_lsn_map_, 0 where it has no entry
  data,       \* the database: the running one, then data_ of the recovery
  writer,     \* the transaction that holds each key
  running,    \* transactions that have begun and not ended
  committed,  \* what the ended transactions left
  checkpoint, \* the last checkpoint: active_txns_ and persist_data_
  att,        \* active_txns_ of the recovery, 0 where it has no entry
  phase,      \* "run", "redo", "undo", or "done"
  redoLsn,    \* the record RedoPhase comes to next
  undoTxn,    \* the transaction UndoTxn is working on, or NoTxn
  undoLsn,    \* current_lsn of UndoTxn
  crashes

live == <<log, lastLsn, writer, running, committed, checkpoint>>
vars == <<live, data, att, phase, redoLsn, undoTxn, undoLsn, crashes>>

NoLsn == [t \in Txns |-> 0]
NoData == [k \in Keys |-> Absent]

Init ==
  /\ log = <<>> /\ lastLsn = NoLsn
  /\ data = NoData /\ committed = NoData
  /\ writer = [k \in Keys |-> NoTxn] /\ running = {}
  /\ checkpoint = [active |-> NoLsn, persist |-> NoData]
  /\ att = NoLsn /\ phase = "run" /\ redoLsn = 1
  /\ undoTxn = NoTxn /\ undoLsn = 0 /\ crashes = 0

-----------------------------------------------------------------------------
(***************************************************************************)
(* Transactions.  The records are those of the Create...Log functions.     *)
(***************************************************************************)

Rec(type, t, prev, ok, ov, nk, nv) ==
  [type |-> type, txn |-> t, prev |-> prev,
   oldKey |-> ok, oldVal |-> ov, newKey |-> nk, newVal |-> nv]

\* What every Create...Log function does: the next LSN, and the chain of the
\* transaction's records.
LogAsOneChain(type, t, prev, ok, ov, nk, nv) ==
  /\ phase = "run" /\ Len(log) < MaxLog
  /\ log' = Append(log, Rec(type, t, Len(log), ok, ov, nk, nv))
  /\ lastLsn' = [lastLsn EXCEPT ![t] = Len(log) + 1]
  /\ UNCHANGED <<checkpoint, att, phase, redoLsn, undoTxn, undoLsn, crashes>>
LogAs(type, t, prev, ok, ov, nk, nv) ==
  /\ phase = "run" /\ Len(log) < MaxLog
  /\ log' = Append(log, Rec(type, t, prev, ok, ov, nk, nv))
  /\ lastLsn' = [lastLsn EXCEPT ![t] = Len(log) + 1]
  /\ UNCHANGED <<checkpoint, att, phase, redoLsn, undoTxn, undoLsn, crashes>>

\* Begin starts a new chain, so that a transaction id can be used again.
Begin(t) ==
  /\ t \notin running
  /\ LogAs("begin", t, 0, NoKey, Absent, NoKey, Absent)
  /\ running' = running \cup {t}
  /\ UNCHANGED <<data, writer, committed>>

Mine(t, k) == t \in running /\ writer[k] \in {t, NoTxn}

Insert(t, k, v) ==
  /\ Mine(t, k) /\ data[k] = Absent
  /\ LogAs("insert", t, lastLsn[t], NoKey, Absent, k, v)
  /\ data' = [data EXCEPT ![k] = v]
  /\ writer' = [writer EXCEPT ![k] = t]
  /\ UNCHANGED <<running, committed>>

Delete(t, k) ==
  /\ Mine(t, k) /\ data[k] # Absent
  /\ LogAs("delete", t, lastLsn[t], k, data[k], NoKey, Absent)
  /\ data' = [data EXCEPT ![k] = Absent]
  /\ writer' = [writer EXCEPT ![k] = t]
  /\ UNCHANGED <<running, committed>>

\* An update may move the row to another key.
Update(t, k, n, v) ==
  /\ Mine(t, k) /\ data[k] # Absent
  /\ Mine(t, n) /\ (n # k => data[n] = Absent)
  /\ LogAs("update", t, lastLsn[t], k, data[k], n, v)
  /\ data' = [data EXCEPT ![k] = Absent, ![n] = v]
  /\ writer' = [writer EXCEPT ![k] = t, ![n] = t]
  /\ UNCHANGED <<running, committed>>

Release(t) == [k \in Keys |-> IF writer[k] = t THEN NoTxn ELSE writer[k]]

Commit(t) ==
  /\ t \in running
  /\ LogAs("commit", t, lastLsn[t], NoKey, Absent, NoKey, Absent)
  /\ committed' = [k \in Keys |-> IF writer[k] = t THEN data[k] ELSE committed[k]]
  /\ running' = running \ {t}
  /\ writer' = Release(t)
  /\ UNCHANGED data

Abort(t) ==
  /\ t \in running
  /\ LogAs("abort", t, lastLsn[t], NoKey, Absent, NoKey, Absent)
  /\ data' = [k \in Keys |-> IF writer[k] = t THEN committed[k] ELSE data[k]]
  /\ running' = running \ {t}
  /\ writer' = Release(t)
  /\ UNCHANGED committed

TakeCheckpoint ==
  /\ phase = "run"
  /\ checkpoint' = [active |-> [t \in Txns |-> IF t \in running THEN lastLsn[t] ELSE 0],
                    persist |-> data]
  /\ UNCHANGED <<log, lastLsn, data, writer, running, committed, att, phase,
                 redoLsn, undoTxn, undoLsn, crashes>>

-----------------------------------------------------------------------------
(***************************************************************************)
(* Recovery.                                                               *)
(***************************************************************************)

\* The process dies, running or recovering, and RecoveryManager::Init loads the
\* checkpoint.
Crash ==
  /\ phase # "done" /\ crashes < MaxCrashes
  /\ crashes' = crashes + 1
  /\ data' = checkpoint.persist
  /\ att' = checkpoint.active
  /\ phase' = "redo" /\ redoLsn' = 1
  /\ undoTxn' = NoTxn /\ undoLsn' = 0
  /\ UNCHANGED live

Redone(d, r) ==
  CASE r.type = "insert" -> [d EXCEPT ![r.newKey] = r.newVal]
    [] r.type = "delete" -> [d EXCEPT ![r.oldKey] = Absent]
    [] r.type = "update" -> [d EXCEPT ![r.oldKey] = Absent, ![r.newKey] = r.newVal]
    [] OTHER -> d

UndoneKeepsNewKey(d, r) ==
  CASE r.type = "insert" -> [d EXCEPT ![r.newKey] = Absent]
    [] r.type \in {"delete", "update"} -> [d EXCEPT ![r.oldKey] = r.oldVal]
    [] OTHER -> d
Undone(d, r) ==
  CASE r.type = "insert" -> [d EXCEPT ![r.newKey] = Absent]
    [] r.type = "delete" -> [d EXCEPT ![r.oldKey] = r.oldVal]
    [] r.type = "update" -> [d EXCEPT ![r.newKey] = Absent, ![r.oldKey] = r.oldVal]
    [] OTHER -> d

\* One record of RedoPhase.  An abort record calls UndoTxn, which runs to its end
\* before the next record.
Redo ==
  /\ phase = "redo" /\ undoTxn = NoTxn /\ redoLsn <= Len(log)
  /\ LET r == log[redoLsn] IN
     /\ data' = Redone(data, r)
     /\ IF r.type = "abort"
        THEN undoTxn' = r.txn /\ undoLsn' = r.prev /\ UNCHANGED att
        ELSE /\ att' = [att EXCEPT ![r.txn] = IF r.type = "commit" THEN 0 ELSE redoLsn]
             /\ UNCHANGED <<undoTxn, undoLsn>>
  /\ redoLsn' = redoLsn + 1
  /\ UNCHANGED <<live, phase, crashes>>

RedoEnd ==
  /\ phase = "redo" /\ undoTxn = NoTxn /\ redoLsn > Len(log)
  /\ phase' = "undo"
  /\ UNCHANGED <<live, data, att, redoLsn, undoTxn, undoLsn, crashes>>

\* UndoPhase takes the remaining transactions in no particular order.
UndoBegin(t) ==
  /\ phase = "undo" /\ undoTxn = NoTxn /\ att[t] # 0
  /\ undoTxn' = t /\ undoLsn' = att[t]
  /\ UNCHANGED <<live, data, att, phase, redoLsn, crashes>>

\* One round of UndoTxn, and its return: at the end of the chain or at the
\* transaction's begin record.
UndoStepStuck ==
  /\ undoTxn # NoTxn /\ undoLsn # 0 /\ log[undoLsn].type # "begin"
  /\ data' = Undone(data, log[undoLsn])
  /\ undoLsn' = IF log[undoLsn].prev = 0 THEN 0 ELSE undoLsn
  /\ UNCHANGED <<live, att, phase, redoLsn, undoTxn, crashes>>
UndoStep ==
  /\ undoTxn # NoTxn /\ undoLsn # 0 /\ log[undoLsn].type # "begin"
  /\ data' = Undone(data, log[undoLsn])
  /\ undoLsn' = log[undoLsn].prev
  /\ UNCHANGED <<live, att, phase, redoLsn, undoTxn, crashes>>

UndoReturn ==
  /\ undoTxn # NoTxn
  /\ undoLsn # 0 => log[undoLsn].type = "begin"
  /\ att' = [att EXCEPT ![undoTxn] = 0]
  /\ undoTxn' = NoTxn /\ undoLsn' = 0
  /\ UNCHANGED <<live, data, phase, redoLsn, crashes>>

Done ==
  /\ phase = "undo" /\ undoTxn = NoTxn /\ att = NoLsn
  /\ phase' = "done"
  /\ UNCHANGED <<live, data, att, redoLsn, undoTxn, undoLsn, crashes>>

Recover == Redo \/ RedoEnd \/ UndoStep \/ UndoReturn \/ Done \/ \E t \in Txns : UndoBegin(t)

Next ==
  \/ \E t \in Txns : Begin(t) \/ Commit(t) \/ Abort(t)
  \/ \E t \in Txns, k \in Keys :
       \/ Delete(t, k)
       \/ \E v \in Vals : Insert(t, k, v) \/ \E n \in Keys : Update(t, k, n, v)
  \/ TakeCheckpoint
  \/ Crash
  \/ Recover

Spec == Init /\ [][Next]_vars

-----------------------------------------------------------------------------
\* After recovery the database holds what the committed transactions wrote, each
\* key in full, and nothing of the transactions that had aborted or not ended;
\* wherever the checkpoint was taken, whenever the crash came, and also when
\* recovery itself was cut short and started over.
RecoversCommitted == phase = "done" => data = committed

\* UndoTxn only ever works on records of its own transaction, and stops at the
\* begin record: work of an earlier transaction with the same id stays.
UndoOwnChain ==
  undoTxn # NoTxn /\ undoLsn # 0 =>
    /\ log[undoLsn].txn = undoTxn
    /\ \A l \in undoLsn .. redoLsn - 1 : ~(log[l].txn = undoTxn /\ log[l].type = "commit")

\* What recovery has still to do: the records to redo, the transactions to undo
\* besides the one it is at, and what is left of the chain UndoTxn follows.
ToRedo == Len(log) + 1 - redoLsn
ToUndo == {t \in Txns : att[t] # 0 /\ t # undoTxn}
ChainLeft == IF undoTxn = NoTxn THEN 0 ELSE undoLsn + 1

\* A step of recovery does some of it.  Within RedoPhase the number of records left
\* goes down, or it stays and the chain gets shorter; within UndoPhase the set of
\* transactions left gets smaller, or it stays and the chain gets shorter.
Advances ==
  \/ phase = "redo" /\ phase' = "undo"
  \/ phase = "undo" /\ phase' = "done"
  \/ /\ phase = "redo" /\ phase' = "redo"
     /\ \/ 0 <= ToRedo' /\ ToRedo' < ToRedo
        \/ ToRedo' = ToRedo /\ 0 <= ChainLeft' /\ ChainLeft' < ChainLeft
  \/ /\ phase = "undo" /\ phase' = "undo"
     /\ \/ ToUndo' \subseteq ToUndo /\ ToUndo' # ToUndo
        \/ ToUndo' = ToUndo /\ 0 <= ChainLeft' /\ ChainLeft' < ChainLeft

\* Recovery cannot go on for ever: every step of RedoPhase, UndoPhase and UndoTxn
\* takes it on in an order without infinite descent, the transactions being
\* finitely many.
RecoveryAdvances == [][Recover => Advances]_vars

=============================================================================
