--------------------------- MODULE RecoveryProofs ---------------------------
(***************************************************************************)
(* Recovery is correct for any transactions, keys and values, any length   *)
(* of the log and any number of crashes.                                   *)
(*                                                                         *)
(* A log has a history: a function h from the LSNs, 0 included, to         *)
(* snapshots, h[i] being what the running system was when the record of    *)
(* LSN i had been written.  The first lemmas say that every operation of a *)
(* transaction extends the history, and describe what RedoPhase and        *)
(* UndoTxn make of the data by snapshots of the past.  The invariant says  *)
(* that the log has a history, that the running system is its last         *)
(* snapshot and the checkpoint an earlier one, and which snapshots the     *)
(* data of RedoPhase and UndoPhase are made of.                            *)
(***************************************************************************)
EXTENDS Recovery, TLAPS

Value == Vals \cup {Absent}
DataTypes == {"insert", "delete", "update"}
EndTypes == {"commit", "abort"}
RecTypes == {"begin"} \cup DataTypes \cup EndTypes

LogRec ==
  [type : RecTypes, txn : Txns, prev : Nat,
   oldKey : Keys \cup {NoKey}, oldVal : Value, newKey : Keys \cup {NoKey}, newVal : Value]

Snapshot ==
  [data : [Keys -> Value], writer : [Keys -> Txns \cup {NoTxn}],
   committed : [Keys -> Value], running : SUBSET Txns, last : [Txns -> Nat]]

\* The keys a record changes, and what it says their values were and became.
Touched(r) ==
  {k \in Keys : \/ r.type \in {"insert", "update"} /\ k = r.newKey
                \/ r.type \in {"delete", "update"} /\ k = r.oldKey}
ValueBefore(r, k) == IF r.type \in {"delete", "update"} /\ k = r.oldKey THEN r.oldVal ELSE Absent
ValueAfter(r, k) == IF r.type \in {"insert", "update"} /\ k = r.newKey THEN r.newVal ELSE Absent

-----------------------------------------------------------------------------
(* Histories of a log. *)

\* The record r of LSN i takes the system from the snapshot s to z: the
\* transaction and its chain ...
ChainStep(r, i, s, z) ==
  /\ r \in LogRec
  /\ z.last = [s.last EXCEPT ![r.txn] = i]
  /\ r.type = "begin" => /\ r.prev = 0 /\ r.txn \notin s.running
                         /\ z.running = s.running \cup {r.txn}
  /\ r.type # "begin" => r.prev = s.last[r.txn] /\ r.txn \in s.running
  /\ r.type \in EndTypes => z.running = s.running \ {r.txn}
  /\ r.type \in DataTypes => z.running = s.running

\* ... and the keys.
KeyStep(r, s, z, k) ==
  /\ k \in Touched(r) => /\ s.writer[k] \in {r.txn, NoTxn} /\ z.writer[k] = r.txn
                         /\ s.data[k] = ValueBefore(r, k) /\ z.data[k] = ValueAfter(r, k)
  /\ k \notin Touched(r) =>
       /\ z.writer[k] = IF r.type \in EndTypes /\ s.writer[k] = r.txn THEN NoTxn ELSE s.writer[k]
       /\ z.data[k] = IF r.type = "abort" /\ s.writer[k] = r.txn THEN s.committed[k] ELSE s.data[k]
  /\ z.committed[k] = IF r.type = "commit" /\ s.writer[k] = r.txn THEN s.data[k] ELSE s.committed[k]

SnapStep(r, i, s, z) == ChainStep(r, i, s, z) /\ \A k \in Keys : KeyStep(r, s, z, k)

\* A key is held by a running transaction, or holds what was committed.
Holders(h, i) ==
  \A k \in Keys : IF h[i].writer[k] = NoTxn THEN h[i].data[k] = h[i].committed[k]
                                           ELSE h[i].writer[k] \in h[i].running

\* A key no record has named has no value and no holder.
Unnamed(lg, h, i) ==
  \A k \in Keys :
    (\A j \in 1 .. i : k \notin Touched(lg[j])) => h[i].data[k] = Absent /\ h[i].writer[k] = NoTxn

\* Since the last record of a running transaction it has been running, and the
\* keys it holds are those it held then, with the same values.
Chained(lg, h, i, t, p) ==
  /\ p \in 1 .. i /\ lg[p].txn = t
  /\ \A j \in p .. i : t \in h[j].running
  /\ \A k \in Keys : /\ h[p].writer[k] = t <=> h[i].writer[k] = t
                     /\ h[i].writer[k] = t => h[p].data[k] = h[i].data[k]
Chains(lg, h, i) == \A t \in h[i].running : Chained(lg, h, i, t, h[i].last[t])

\* While a transaction runs it keeps its keys, and their committed values stay.
Keeps(h, i) ==
  \A u \in 0 .. i, t \in Txns :
    (\A j \in u .. i : t \in h[j].running) =>
      \A k \in Keys : h[u].writer[k] = t => /\ h[i].writer[k] = t
                                           /\ h[i].committed[k] = h[u].committed[k]

Sound(lg, h, i) == Holders(h, i) /\ Unnamed(lg, h, i) /\ Chains(lg, h, i) /\ Keeps(h, i)

HistoryOf(lg, h) ==
  /\ lg \in Seq(LogRec)
  /\ h \in [0 .. Len(lg) -> Snapshot]
  /\ \A i \in 1 .. Len(lg) : SnapStep(lg[i], i, h[i - 1], h[i])
  /\ \A i \in 0 .. Len(lg) : Sound(lg, h, i)

-----------------------------------------------------------------------------
(* One more record: the history grows by one snapshot. *)

\* What a step does to the keys of the other transactions: nothing.
LEMMA OthersKeep ==
  ASSUME NEW r \in LogRec, NEW s \in Snapshot, NEW z \in Snapshot, NEW k \in Keys,
         KeyStep(r, s, z, k), NEW t \in Txns, t # r.txn
  PROVE  /\ s.writer[k] = t <=> z.writer[k] = t
         /\ s.writer[k] = t => z.data[k] = s.data[k] /\ z.committed[k] = s.committed[k]
<1>1. t # NoTxn /\ r.txn \in Txns
  BY Zenon, AbsentAssumption DEF LogRec
<1> QED
  BY Zenon, <1>1 DEF KeyStep

\* The facts about one snapshot pass to the next, whatever the record.
LEMMA HoldersStep ==
  ASSUME NEW lg, NEW h, NEW n \in Nat, h \in [0 .. n + 1 -> Snapshot], Holders(h, n),
         SnapStep(lg[n + 1], n + 1, h[n], h[n + 1])
  PROVE  Holders(h, n + 1)
<1> DEFINE r == lg[n + 1]
           s == h[n]
           z == h[n + 1]
<1>1. s \in Snapshot /\ z \in Snapshot /\ r \in LogRec
  BY DEF SnapStep, ChainStep
<1>2. r.txn \in Txns /\ r.txn # NoTxn /\ r.type \in RecTypes
  BY Zenon, <1>1, AbsentAssumption DEF LogRec
<1>3. ASSUME NEW k \in Keys
      PROVE  IF z.writer[k] = NoTxn THEN z.data[k] = z.committed[k] ELSE z.writer[k] \in z.running
  <2>1. KeyStep(r, s, z, k) /\ ChainStep(r, n + 1, s, z)
    BY Zenon DEF SnapStep
  <2>2. IF s.writer[k] = NoTxn THEN s.data[k] = s.committed[k] ELSE s.writer[k] \in s.running
    BY Zenon DEF Holders
  <2> HIDE DEF r, s, z
  <2>3. CASE k \in Touched(r)
    <3>1. r.type \in DataTypes
      BY Zenon, <2>3 DEF Touched, DataTypes
    <3> QED
      BY Zenon, <2>1, <2>3, <3>1, <1>2 DEF KeyStep, ChainStep, DataTypes
  <2>4. CASE k \notin Touched(r) /\ s.writer[k] = r.txn
    <3>1. CASE r.type \in EndTypes
      BY Zenon, <2>1, <2>2, <2>4, <3>1, <1>2 DEF KeyStep, EndTypes
    <3>2. CASE r.type \notin EndTypes
      BY Zenon, <2>1, <2>2, <2>4, <3>2, <1>2 DEF KeyStep, ChainStep, EndTypes, RecTypes, DataTypes
    <3> QED
      BY Zenon, <3>1, <3>2
  <2>5. CASE k \notin Touched(r) /\ s.writer[k] # r.txn
    <3>1. z.writer[k] = s.writer[k] /\ z.data[k] = s.data[k] /\ z.committed[k] = s.committed[k]
      BY Zenon, <2>1, <2>5 DEF KeyStep
    <3>2. s.writer[k] \in s.running => s.writer[k] \in z.running
      BY Zenon, <2>1, <2>5, <1>2 DEF ChainStep, RecTypes
    <3> QED
      BY Zenon, <2>2, <3>1, <3>2
  <2> QED
    BY Zenon, <2>3, <2>4, <2>5
<1> QED
  BY Zenon, <1>3 DEF Holders

\* One more log record: a key no record has named still has no value and no holder.
LEMMA UnnamedStep ==
  ASSUME NEW lg, NEW h, NEW n \in Nat, h \in [0 .. n + 1 -> Snapshot], Unnamed(lg, h, n),
         SnapStep(lg[n + 1], n + 1, h[n], h[n + 1])
  PROVE  Unnamed(lg, h, n + 1)
<1>1. ASSUME NEW k \in Keys, \A j \in 1 .. n + 1 : k \notin Touched(lg[j])
      PROVE  h[n + 1].data[k] = Absent /\ h[n + 1].writer[k] = NoTxn
  <2>1. h[n].data[k] = Absent /\ h[n].writer[k] = NoTxn
    BY <1>1 DEF Unnamed
  <2>2. k \notin Touched(lg[n + 1])
    BY <1>1
  <2>3. KeyStep(lg[n + 1], h[n], h[n + 1], k) /\ lg[n + 1].txn \in Txns
    BY Zenon DEF SnapStep, ChainStep, LogRec
  <2> QED
    BY Zenon, <2>1, <2>2, <2>3, AbsentAssumption DEF KeyStep
<1> QED
  BY Zenon, <1>1 DEF Unnamed

\* One more log record: last_lsn_ of a running transaction still stands for all it holds.
LEMMA ChainsStep ==
  ASSUME NEW lg, NEW h, NEW n \in Nat, h \in [0 .. n + 1 -> Snapshot], Chains(lg, h, n),
         SnapStep(lg[n + 1], n + 1, h[n], h[n + 1])
  PROVE  Chains(lg, h, n + 1)
<1>1. ASSUME NEW t \in h[n + 1].running
      PROVE  Chained(lg, h, n + 1, t, h[n + 1].last[t])
  <2>1. PICK r \in LogRec : r = lg[n + 1]
    BY Zenon DEF SnapStep, ChainStep
  <2>2. PICK s \in Snapshot : s = h[n]
    OBVIOUS
  <2>3. PICK z \in Snapshot : z = h[n + 1]
    OBVIOUS
  <2>4. ChainStep(r, n + 1, s, z) /\ \A k \in Keys : KeyStep(r, s, z, k)
    BY Zenon, <2>1, <2>2, <2>3 DEF SnapStep
  <2>5. t \in Txns /\ r.txn \in Txns /\ r.type \in RecTypes /\ s.last \in [Txns -> Nat]
    BY Zenon, <2>3 DEF Snapshot, LogRec
  <2>6. CASE t = r.txn
    <3>1. z.last[t] = n + 1
      BY Zenon, <2>4, <2>5, <2>6 DEF ChainStep
    <3>2. \A j \in n + 1 .. n + 1 : j = n + 1
      OBVIOUS
    <3> QED
      BY <2>1, <2>3, <2>6, <3>1, <3>2 DEF Chained
  <2>7. CASE t # r.txn
    <3>1. z.last[t] = s.last[t] /\ t \in s.running
      BY <2>3, <2>4, <2>5, <2>7 DEF ChainStep, RecTypes
    <3>2. PICK p : p = s.last[t]
      BY Zenon
    <3>3. Chained(lg, h, n, t, p)
      BY Zenon, <2>2, <3>1, <3>2 DEF Chains
    <3>4. p \in 1 .. n + 1 /\ lg[p].txn = t
      BY <3>3 DEF Chained
    <3>5. \A j \in p .. n + 1 : t \in h[j].running
      <4>1. \A j \in p .. n + 1 : j \in p .. n \/ j = n + 1
        BY <3>4
      <4> QED
        BY Zenon, <3>3, <4>1 DEF Chained
    <3>6. ASSUME NEW k \in Keys
          PROVE  /\ h[p].writer[k] = t <=> h[n + 1].writer[k] = t
                 /\ h[n + 1].writer[k] = t => h[p].data[k] = h[n + 1].data[k]
      <4>1. /\ s.writer[k] = t <=> z.writer[k] = t
            /\ s.writer[k] = t => z.data[k] = s.data[k] /\ z.committed[k] = s.committed[k]
        BY <2>4, <2>5, <2>7, OthersKeep
      <4>2. /\ h[p].writer[k] = t <=> s.writer[k] = t
            /\ s.writer[k] = t => h[p].data[k] = s.data[k]
        BY Zenon, <2>2, <3>3 DEF Chained
      <4> QED
        BY Zenon, <2>3, <4>1, <4>2
    <3> QED
      BY Zenon, <2>3, <3>1, <3>2, <3>4, <3>5, <3>6 DEF Chained
  <2> QED
    BY Zenon, <2>6, <2>7
<1> QED
  BY Zenon, <1>1 DEF Chains

\* One more log record: a running transaction still keeps its keys and their committed
\* values.
LEMMA KeepsStep ==
  ASSUME NEW lg, NEW h, NEW n \in Nat, h \in [0 .. n + 1 -> Snapshot], Keeps(h, n),
         SnapStep(lg[n + 1], n + 1, h[n], h[n + 1])
  PROVE  Keeps(h, n + 1)
<1>1. ASSUME NEW u \in 0 .. n + 1, NEW t \in Txns, \A j \in u .. n + 1 : t \in h[j].running,
             NEW k \in Keys, h[u].writer[k] = t
      PROVE  h[n + 1].writer[k] = t /\ h[n + 1].committed[k] = h[u].committed[k]
  <2>1. CASE u = n + 1
    BY Zenon, <1>1, <2>1
  <2>2. CASE u \in 0 .. n
    <3>1. PICK r \in LogRec : r = lg[n + 1]
      BY Zenon DEF SnapStep, ChainStep
    <3>2. PICK s \in Snapshot : s = h[n]
      OBVIOUS
    <3>3. PICK z \in Snapshot : z = h[n + 1]
      OBVIOUS
    <3>4. ChainStep(r, n + 1, s, z) /\ KeyStep(r, s, z, k)
      BY Zenon, <3>1, <3>2, <3>3 DEF SnapStep
    <3>5. s.writer[k] = t /\ s.committed[k] = h[u].committed[k]
      BY <1>1, <2>2, <3>2 DEF Keeps
    <3>6. t \in z.running
      BY <1>1, <3>3
    <3>7. CASE t # r.txn
      BY <3>3, <3>4, <3>5, <3>7, OthersKeep
    <3>8. CASE t = r.txn
      <4>1. r.type \notin EndTypes
        BY Zenon, <3>4, <3>6, <3>8 DEF ChainStep
      <4> QED
        BY Zenon, <3>3, <3>4, <3>5, <3>8, <4>1 DEF KeyStep, EndTypes
    <3> QED
      BY Zenon, <3>7, <3>8
  <2> QED
    BY <2>1, <2>2
<1> QED
  BY Zenon, <1>1 DEF Keeps

\* What is said of a snapshot looks at no later record or snapshot.
LEMMA SoundIsPast ==
  ASSUME NEW lg, NEW h, NEW lg2, NEW h2, NEW i \in Nat,
         Sound(lg, h, i),
         \A j \in 1 .. i : lg2[j] = lg[j], \A j \in 0 .. i : h2[j] = h[j]
  PROVE  Sound(lg2, h2, i)
<1>1. h2[i] = h[i]
  OBVIOUS
<1>2. Holders(h2, i)
  BY Zenon, <1>1 DEF Sound, Holders
<1>3. Unnamed(lg2, h2, i)
  BY Zenon, <1>1 DEF Sound, Unnamed
<1>4. ASSUME NEW t \in h2[i].running
      PROVE  Chained(lg2, h2, i, t, h2[i].last[t])
  <2>1. PICK p : p = h[i].last[t]
    BY Zenon
  <2>2. Chained(lg, h, i, t, p)
    BY Zenon, <1>1, <2>1 DEF Sound, Chains
  <2>3. p \in 1 .. i /\ lg2[p] = lg[p] /\ h2[p] = h[p] /\ \A j \in p .. i : h2[j] = h[j]
    BY <2>2 DEF Chained
  <2>4. Chained(lg2, h2, i, t, p)
    BY Zenon, <1>1, <2>2, <2>3 DEF Chained
  <2> QED
    BY Zenon, <1>1, <2>1, <2>4
<1>5. Keeps(h2, i)
  <2>1. ASSUME NEW u \in 0 .. i, NEW t \in Txns, \A j \in u .. i : t \in h2[j].running,
               NEW k \in Keys, h2[u].writer[k] = t
        PROVE  h2[i].writer[k] = t /\ h2[i].committed[k] = h2[u].committed[k]
    <3>1. \A j \in u .. i : t \in h[j].running
      BY <2>1
    <3>2. h2[u] = h[u]
      BY Zenon
    <3> QED
      BY <1>1, <2>1, <3>1, <3>2 DEF Sound, Keeps
  <2> QED
    BY Zenon, <2>1 DEF Keeps
<1> QED
  BY Zenon, <1>2, <1>3, <1>4, <1>5 DEF Sound, Chains

\* A record that takes the last snapshot to z extends the history by z.
LEMMA HistoryGrows ==
  ASSUME NEW lg, NEW h, HistoryOf(lg, h), NEW r, NEW z \in Snapshot,
         SnapStep(r, Len(lg) + 1, h[Len(lg)], z)
  PROVE  HistoryOf(Append(lg, r), [i \in 0 .. Len(lg) + 1 |-> IF i <= Len(lg) THEN h[i] ELSE z])
<1>1. PICK n \in Nat : n = Len(lg)
  BY DEF HistoryOf
<1>2. PICK lg2, h2 :
       /\ lg2 = Append(lg, r)
       /\ h2 = [i \in 0 .. n + 1 |-> IF i <= n THEN h[i] ELSE z]
  BY Zenon
<1>4. lg \in Seq(LogRec) /\ r \in LogRec /\ h \in [0 .. n -> Snapshot]
  BY Zenon, <1>1 DEF HistoryOf, SnapStep, ChainStep
<1>5. /\ lg2 \in Seq(LogRec) /\ Len(lg2) = n + 1
      /\ lg2[n + 1] = r /\ \A j \in 1 .. n : lg2[j] = lg[j]
  BY <1>1, <1>2, <1>4
<1>6. /\ h2 \in [0 .. n + 1 -> Snapshot]
      /\ h2[n + 1] = z /\ \A j \in 0 .. n : h2[j] = h[j]
  BY <1>2, <1>4
<1>7. ASSUME NEW i \in 1 .. n + 1
      PROVE  SnapStep(lg2[i], i, h2[i - 1], h2[i])
  <2>1. CASE i = n + 1
    BY <1>1, <1>5, <1>6, <2>1
  <2>2. CASE i # n + 1
    <3>1. i \in 1 .. n /\ i - 1 \in 0 .. n /\ i \in 0 .. n
      BY <2>2
    <3> QED
      BY ZenonT(30), <1>1, <1>5, <1>6, <3>1 DEF HistoryOf
  <2> QED
    BY Zenon, <2>1, <2>2
<1>8. ASSUME NEW i \in 0 .. n
      PROVE  Sound(lg2, h2, i)
  <2>1. Sound(lg, h, i)
    BY Zenon, <1>1 DEF HistoryOf
  <2>2. (\A j \in 1 .. i : lg2[j] = lg[j]) /\ \A j \in 0 .. i : h2[j] = h[j]
    BY <1>5, <1>6
  <2> QED
    BY <2>1, <2>2, SoundIsPast
<1>9. Sound(lg2, h2, n + 1)
  <2>1. SnapStep(lg2[n + 1], n + 1, h2[n], h2[n + 1])
    BY <1>1, <1>5, <1>6
  <2>2. Holders(h2, n) /\ Unnamed(lg2, h2, n) /\ Chains(lg2, h2, n) /\ Keeps(h2, n)
    BY <1>8 DEF Sound
  <2> QED
    BY Zenon, <1>6, <2>1, <2>2, HoldersStep, UnnamedStep, ChainsStep, KeepsStep DEF Sound
<1>10. \A i \in 0 .. n + 1 : i \in 0 .. n \/ i = n + 1
  OBVIOUS
<1>11. HistoryOf(lg2, h2)
  BY Zenon, <1>5, <1>6, <1>7, <1>8, <1>9, <1>10 DEF HistoryOf
<1> QED
  BY Zenon, <1>1, <1>2, <1>11

-----------------------------------------------------------------------------
(* The running system: every operation of a transaction extends the history. *)

Now == [data |-> data, writer |-> writer, committed |-> committed,
        running |-> running, last |-> lastLsn]

\* Every operation writes one record, which takes the present to the next present.
Extends(r) == log' = Append(log, r) /\ Now' \in Snapshot /\ SnapStep(r, Len(log) + 1, Now, Now')

\* The fields of the snapshot of the current state.
LEMMA NowFields ==
  /\ Now.data = data /\ Now.writer = writer /\ Now.committed = committed
  /\ Now.running = running /\ Now.last = lastLsn
BY Zenon DEF Now

\* The snapshot of the current state has its type when the variables have theirs.
LEMMA NowTypes ==
  Now \in Snapshot <=>
    /\ data \in [Keys -> Value] /\ writer \in [Keys -> Txns \cup {NoTxn}]
    /\ committed \in [Keys -> Value] /\ running \in SUBSET Txns /\ lastLsn \in [Txns -> Nat]
BY Zenon DEF Now, Snapshot

\* Begin writes the first record of a chain.
LEMMA BeginExtends ==
  ASSUME Now \in Snapshot, log \in Seq(LogRec), NEW t \in Txns, Begin(t)
  PROVE  \E r : Extends(r)
<1>1. PICK r : r = Rec("begin", t, 0, NoKey, Absent, NoKey, Absent)
  BY Zenon
<1>2. /\ r \in LogRec /\ r.type = "begin" /\ r.txn = t /\ r.prev = 0
  BY Zenon, <1>1 DEF Rec, LogRec, RecTypes, Value
<1>3. /\ data' = data /\ writer' = writer /\ committed' = committed /\ t \notin running
      /\ running' = running \cup {t} /\ lastLsn' = [lastLsn EXCEPT ![t] = Len(log) + 1]
      /\ log' = Append(log, r)
  BY Zenon, <1>1 DEF Begin, LogAs
<1>4. Now' \in Snapshot
  BY <1>3, NowTypes DEF Snapshot, Now
<1>5. ChainStep(r, Len(log) + 1, Now, Now')
  BY Zenon, <1>2, <1>3 DEF ChainStep, Now, EndTypes, DataTypes
<1>6. Touched(r) = {}
  BY Zenon, <1>2 DEF Touched
<1>7. ASSUME NEW k \in Keys
      PROVE  KeyStep(r, Now, Now', k)
  BY Zenon, <1>2, <1>3, <1>6 DEF KeyStep, Now, EndTypes
<1> QED
  BY Zenon, <1>3, <1>4, <1>5, <1>7 DEF Extends, SnapStep

\* Insert, Delete and Update write what the key held and what it holds now.
LEMMA InsertExtends ==
  ASSUME Now \in Snapshot, log \in Seq(LogRec),
         NEW t \in Txns, NEW k \in Keys, NEW v \in Vals, Insert(t, k, v)
  PROVE  \E r : Extends(r)
<1>1. PICK r : r = Rec("insert", t, lastLsn[t], NoKey, Absent, k, v)
  BY Zenon
<1>2. /\ data \in [Keys -> Value] /\ writer \in [Keys -> Txns \cup {NoTxn}]
      /\ lastLsn \in [Txns -> Nat]
  BY Zenon, NowTypes
<1>3. /\ r \in LogRec /\ r.type = "insert" /\ r.txn = t /\ r.prev = lastLsn[t]
      /\ r.newKey = k /\ r.newVal = v
  BY Zenon, <1>1, <1>2 DEF Rec, LogRec, RecTypes, DataTypes, Value
<1>4. /\ t \in running /\ writer[k] \in {t, NoTxn} /\ data[k] = Absent
      /\ data' = [data EXCEPT ![k] = v] /\ writer' = [writer EXCEPT ![k] = t]
      /\ committed' = committed /\ running' = running
      /\ lastLsn' = [lastLsn EXCEPT ![t] = Len(log) + 1] /\ log' = Append(log, r)
  BY Zenon, <1>1 DEF Insert, LogAs, Mine
<1>5. Now' \in Snapshot
  BY <1>2, <1>4, NowTypes DEF Snapshot, Now, Value
<1>6. ChainStep(r, Len(log) + 1, Now, Now')
  BY Zenon, <1>3, <1>4 DEF ChainStep, Now, EndTypes
<1>7. Touched(r) = {k}
  BY Zenon, <1>3 DEF Touched
<1>8. ASSUME NEW j \in Keys
      PROVE  KeyStep(r, Now, Now', j)
  BY Zenon, <1>2, <1>3, <1>4, <1>7 DEF KeyStep, Now, EndTypes, ValueBefore, ValueAfter
<1> QED
  BY Zenon, <1>4, <1>5, <1>6, <1>8 DEF Extends, SnapStep

\* AppendDeleteLog adds one record to the log, and the table moves on by that record.
LEMMA DeleteExtends ==
  ASSUME Now \in Snapshot, log \in Seq(LogRec),
         NEW t \in Txns, NEW k \in Keys, Delete(t, k)
  PROVE  \E r : Extends(r)
<1>1. PICK r : r = Rec("delete", t, lastLsn[t], k, data[k], NoKey, Absent)
  BY Zenon
<1>2. /\ data \in [Keys -> Value] /\ writer \in [Keys -> Txns \cup {NoTxn}]
      /\ lastLsn \in [Txns -> Nat]
  BY Zenon, NowTypes
<1>3. /\ r \in LogRec /\ r.type = "delete" /\ r.txn = t /\ r.prev = lastLsn[t]
      /\ r.oldKey = k /\ r.oldVal = data[k]
  BY Zenon, <1>1, <1>2 DEF Rec, LogRec, RecTypes, DataTypes, Value
<1>4. /\ t \in running /\ writer[k] \in {t, NoTxn}
      /\ data' = [data EXCEPT ![k] = Absent] /\ writer' = [writer EXCEPT ![k] = t]
      /\ committed' = committed /\ running' = running
      /\ lastLsn' = [lastLsn EXCEPT ![t] = Len(log) + 1] /\ log' = Append(log, r)
  BY Zenon, <1>1 DEF Delete, LogAs, Mine
<1>5. Now' \in Snapshot
  BY <1>2, <1>4, NowTypes DEF Snapshot, Now, Value
<1>6. ChainStep(r, Len(log) + 1, Now, Now')
  BY Zenon, <1>3, <1>4 DEF ChainStep, Now, EndTypes
<1>7. Touched(r) = {k}
  BY Zenon, <1>3 DEF Touched
<1>8. ASSUME NEW j \in Keys
      PROVE  KeyStep(r, Now, Now', j)
  BY Zenon, <1>2, <1>3, <1>4, <1>7 DEF KeyStep, Now, EndTypes, ValueBefore, ValueAfter
<1> QED
  BY Zenon, <1>4, <1>5, <1>6, <1>8 DEF Extends, SnapStep

\* AppendUpdateLog adds one record to the log, and the table moves on by that record.
LEMMA UpdateExtends ==
  ASSUME Now \in Snapshot, log \in Seq(LogRec),
         NEW t \in Txns, NEW k \in Keys, NEW n \in Keys, NEW v \in Vals, Update(t, k, n, v)
  PROVE  \E r : Extends(r)
<1>1. PICK r : r = Rec("update", t, lastLsn[t], k, data[k], n, v)
  BY Zenon
<1>2. /\ data \in [Keys -> Value] /\ writer \in [Keys -> Txns \cup {NoTxn}]
      /\ lastLsn \in [Txns -> Nat]
  BY Zenon, NowTypes
<1>3. /\ r \in LogRec /\ r.type = "update" /\ r.txn = t /\ r.prev = lastLsn[t]
      /\ r.oldKey = k /\ r.oldVal = data[k] /\ r.newKey = n /\ r.newVal = v
  BY Zenon, <1>1, <1>2 DEF Rec, LogRec, RecTypes, DataTypes, Value
<1>4. /\ t \in running /\ writer[k] \in {t, NoTxn} /\ writer[n] \in {t, NoTxn}
      /\ n # k => data[n] = Absent
      /\ data' = [data EXCEPT ![k] = Absent, ![n] = v]
      /\ writer' = [writer EXCEPT ![k] = t, ![n] = t]
      /\ committed' = committed /\ running' = running
      /\ lastLsn' = [lastLsn EXCEPT ![t] = Len(log) + 1] /\ log' = Append(log, r)
  BY Zenon, <1>1 DEF Update, LogAs, Mine
<1>5. Now' \in Snapshot
  <2>1. data' \in [Keys -> Value]
    BY Zenon, <1>2, <1>4 DEF Value
  <2>2. writer' \in [Keys -> Txns \cup {NoTxn}]
    BY Zenon, <1>2, <1>4
  <2>3. committed' \in [Keys -> Value] /\ running' \in SUBSET Txns /\ lastLsn' \in [Txns -> Nat]
    BY <1>2, <1>4, NowTypes
  <2> QED
    BY Zenon, <2>1, <2>2, <2>3 DEF Now, Snapshot
<1>6. ChainStep(r, Len(log) + 1, Now, Now')
  BY Zenon, <1>3, <1>4 DEF ChainStep, Now, EndTypes
<1>7. Touched(r) = {k, n}
  BY Zenon, <1>3 DEF Touched
<1>8. ASSUME NEW j \in Keys
      PROVE  KeyStep(r, Now, Now', j)
  BY Zenon, <1>2, <1>3, <1>4, <1>7 DEF KeyStep, Now, EndTypes, ValueBefore, ValueAfter
<1> QED
  BY Zenon, <1>4, <1>5, <1>6, <1>8 DEF Extends, SnapStep

\* Commit and Abort write the last record of a chain, and let the keys go.
LEMMA EndExtends ==
  ASSUME Now \in Snapshot, log \in Seq(LogRec), NEW t \in Txns, Commit(t) \/ Abort(t)
  PROVE  \E r : Extends(r)
<1>1. /\ data \in [Keys -> Value] /\ writer \in [Keys -> Txns \cup {NoTxn}]
      /\ committed \in [Keys -> Value] /\ lastLsn \in [Txns -> Nat]
  BY Zenon, NowTypes
<1>2. PICK type \in EndTypes :
        /\ type = "commit" => Commit(t)
        /\ type = "abort" => Abort(t)
  BY Zenon DEF EndTypes
<1>3. PICK r : r = Rec(type, t, lastLsn[t], NoKey, Absent, NoKey, Absent)
  BY Zenon
<1>4. /\ r \in LogRec /\ r.type = type /\ r.txn = t /\ r.prev = lastLsn[t]
  BY Zenon, <1>1, <1>2, <1>3 DEF Rec, LogRec, RecTypes, EndTypes, Value
<1>5. /\ t \in running /\ running' = running \ {t}
      /\ writer' = [k \in Keys |-> IF writer[k] = t THEN NoTxn ELSE writer[k]]
      /\ lastLsn' = [lastLsn EXCEPT ![t] = Len(log) + 1] /\ log' = Append(log, r)
      /\ type = "commit" => /\ data' = data
                            /\ committed' = [k \in Keys |-> IF writer[k] = t THEN data[k]
                                                                             ELSE committed[k]]
      /\ type = "abort" => /\ committed' = committed
                           /\ data' = [k \in Keys |-> IF writer[k] = t THEN committed[k]
                                                                       ELSE data[k]]
  BY Zenon, <1>2, <1>3 DEF Commit, Abort, LogAs, Release, EndTypes
<1>6. Now' \in Snapshot
  <2>1. data' \in [Keys -> Value] /\ committed' \in [Keys -> Value]
    BY ZenonT(30), <1>1, <1>2, <1>5 DEF EndTypes
  <2>2. writer' \in [Keys -> Txns \cup {NoTxn}]
    BY Zenon, <1>1, <1>5
  <2>3. running' \in SUBSET Txns /\ lastLsn' \in [Txns -> Nat]
    BY <1>1, <1>5, NowTypes
  <2> QED
    BY Zenon, <2>1, <2>2, <2>3 DEF Now, Snapshot
<1>7. ChainStep(r, Len(log) + 1, Now, Now')
  BY Zenon, <1>2, <1>4, <1>5 DEF ChainStep, Now, EndTypes, DataTypes
<1>8. Touched(r) = {}
  BY Zenon, <1>2, <1>4 DEF Touched, EndTypes
<1>9. ASSUME NEW k \in Keys
      PROVE  KeyStep(r, Now, Now', k)
  BY Zenon, <1>1, <1>2, <1>4, <1>5, <1>8 DEF KeyStep, Now, EndTypes
<1> QED
  BY Zenon, <1>5, <1>6, <1>7, <1>9 DEF Extends, SnapStep

-----------------------------------------------------------------------------
(* UndoTxn.  It starts at a snapshot m where t is running, and has come down *)
(* t's chain to the record u.                                                *)

Undoing(lg, h, m, t, u) ==
  /\ t \in Txns /\ u \in 1 .. m /\ lg[u].txn = t
  /\ \A j \in u .. m : t \in h[j].running

\* What a key t holds at m has become by then.
HalfUndone(h, m, t, u, k) == IF h[u].writer[k] = t THEN h[u].data[k] ELSE h[m].committed[k]

\* What Redone and Undone make of one key.
LEMMA RedoneKey ==
  ASSUME NEW r \in LogRec, NEW d \in [Keys -> Value]
  PROVE  /\ Redone(d, r) \in [Keys -> Value]
         /\ \A k \in Keys :
              Redone(d, r)[k] = IF k \in Touched(r) THEN ValueAfter(r, k) ELSE d[k]
<1>1. r.type \in RecTypes /\ r.oldVal \in Value /\ r.newVal \in Value /\ Absent \in Value
  BY Zenon DEF LogRec, Value
<1>2. CASE r.type = "insert"
  BY ZenonT(30), <1>1, <1>2 DEF Redone, Touched, ValueAfter
<1>3. CASE r.type = "delete"
  BY ZenonT(30), <1>1, <1>3 DEF Redone, Touched, ValueAfter
<1>4. CASE r.type = "update"
  BY ZenonT(30), <1>1, <1>4 DEF Redone, Touched, ValueAfter
<1>5. CASE r.type \notin DataTypes
  BY Zenon, <1>1, <1>5 DEF Redone, Touched, DataTypes
<1> QED
  BY Zenon, <1>2, <1>3, <1>4, <1>5 DEF DataTypes

\* What taking back one record does to each key.
LEMMA UndoneKey ==
  ASSUME NEW r \in LogRec, NEW d \in [Keys -> Value]
  PROVE  /\ Undone(d, r) \in [Keys -> Value]
         /\ \A k \in Keys :
              Undone(d, r)[k] = IF k \in Touched(r) THEN ValueBefore(r, k) ELSE d[k]
<1>1. r.type \in RecTypes /\ r.oldVal \in Value /\ r.newVal \in Value /\ Absent \in Value
  BY Zenon DEF LogRec, Value
<1>2. CASE r.type = "insert"
  BY ZenonT(30), <1>1, <1>2 DEF Undone, Touched, ValueBefore
<1>3. CASE r.type = "delete"
  BY ZenonT(30), <1>1, <1>3 DEF Undone, Touched, ValueBefore
<1>4. CASE r.type = "update"
  BY ZenonT(30), <1>1, <1>4 DEF Undone, Touched, ValueBefore
<1>5. CASE r.type \notin DataTypes
  BY Zenon, <1>1, <1>5 DEF Undone, Touched, DataTypes
<1> QED
  BY Zenon, <1>2, <1>3, <1>4, <1>5 DEF DataTypes

\* Undoing starts from the last record of a running transaction, whose keys are
\* then as they are at m.
LEMMA UndoStarts ==
  ASSUME NEW lg, NEW h, HistoryOf(lg, h), NEW m \in 0 .. Len(lg), NEW t \in h[m].running
  PROVE  /\ Undoing(lg, h, m, t, h[m].last[t])
         /\ \A k \in Keys : h[m].writer[k] = t => HalfUndone(h, m, t, h[m].last[t], k) = h[m].data[k]
<1>1. PICK p : p = h[m].last[t]
  BY Zenon
<1>2. Chained(lg, h, m, t, p)
  BY Zenon, <1>1 DEF HistoryOf, Sound, Chains
<1>3. t \in Txns
  BY Zenon DEF HistoryOf, Snapshot
<1>4. Undoing(lg, h, m, t, p)
  BY Zenon, <1>2, <1>3 DEF Undoing, Chained
<1>5. \A k \in Keys : h[m].writer[k] = t => HalfUndone(h, m, t, p, k) = h[m].data[k]
  BY Zenon, <1>2 DEF HalfUndone, Chained
<1> QED
  BY Zenon, <1>1, <1>4, <1>5

\* A transaction holds nothing when it has just begun, so at its begin record its
\* keys are back to what was committed.
LEMMA UndoEnds ==
  ASSUME NEW lg, NEW h, HistoryOf(lg, h), NEW m \in 0 .. Len(lg), NEW t, NEW u,
         Undoing(lg, h, m, t, u), lg[u].type = "begin", NEW k \in Keys
  PROVE  HalfUndone(h, m, t, u, k) = h[m].committed[k]
<1>1. u \in 1 .. Len(lg) /\ u - 1 \in 0 .. Len(lg) /\ Len(lg) \in Nat /\ t \in Txns /\ lg[u].txn = t
  BY DEF HistoryOf, Undoing
<1>2. ChainStep(lg[u], u, h[u - 1], h[u]) /\ KeyStep(lg[u], h[u - 1], h[u], k)
  BY Zenon, <1>1 DEF HistoryOf, SnapStep
<1>3. t \notin h[u - 1].running
  BY Zenon, <1>1, <1>2 DEF ChainStep
<1>4. h[u - 1].writer[k] # t
  BY ZenonT(30), <1>1, <1>3, AbsentAssumption DEF HistoryOf, Sound, Holders
<1>5. k \notin Touched(lg[u])
  BY Zenon DEF Touched
<1>6. h[u].writer[k] # t
  BY Zenon, <1>1, <1>2, <1>4, <1>5, AbsentAssumption DEF KeyStep
<1> QED
  BY Zenon, <1>6 DEF HalfUndone

\* Undoing one record moves to the record before it in the chain: every key of t
\* is then as it was there, or as it was committed.
LEMMA UndoMoves ==
  ASSUME NEW lg, NEW h, HistoryOf(lg, h), NEW m \in 0 .. Len(lg), NEW t, NEW u,
         Undoing(lg, h, m, t, u), lg[u].type # "begin"
  PROVE  /\ lg[u] \in LogRec /\ lg[u].prev \in 1 .. u - 1
         /\ Undoing(lg, h, m, t, lg[u].prev)
         /\ \A k \in Touched(lg[u]) :
              /\ h[m].writer[k] = t
              /\ HalfUndone(h, m, t, lg[u].prev, k) = ValueBefore(lg[u], k)
         /\ \A k \in Keys \ Touched(lg[u]) :
              HalfUndone(h, m, t, lg[u].prev, k) = HalfUndone(h, m, t, u, k)
<1>1. /\ u \in 1 .. Len(lg) /\ u - 1 \in 0 .. Len(lg) /\ u \in 1 .. m /\ Len(lg) \in Nat
      /\ t \in Txns /\ lg[u].txn = t /\ \A j \in u .. m : t \in h[j].running
  BY DEF HistoryOf, Undoing
<1>2. PICK r \in LogRec : r = lg[u]
  BY <1>1 DEF HistoryOf
<1>3. PICK s \in Snapshot : s = h[u - 1]
  BY Zenon, <1>1 DEF HistoryOf
<1>4. PICK z \in Snapshot : z = h[u]
  BY <1>1 DEF HistoryOf
<1>5. ChainStep(r, u, s, z) /\ \A k \in Keys : KeyStep(r, s, z, k)
  BY Zenon, <1>1, <1>2, <1>3, <1>4 DEF HistoryOf, SnapStep
<1>6. PICK p : p = r.prev
  BY Zenon
<1>7. p = s.last[t] /\ t \in s.running /\ r.txn = t /\ t # NoTxn
  BY Zenon, <1>1, <1>2, <1>5, <1>6, AbsentAssumption DEF ChainStep
<1>8. Chained(lg, h, u - 1, t, p)
  BY Zenon, <1>1, <1>3, <1>7 DEF HistoryOf, Sound, Chains
<1>9. r.type \notin EndTypes
  <2>1. t \in z.running
    BY <1>1, <1>4
  <2> QED
    BY Zenon, <1>5, <1>7, <2>1 DEF ChainStep
<1>10. p \in 1 .. u - 1 /\ lg[p].txn = t /\ \A j \in p .. m : t \in h[j].running
  <2>1. p \in 1 .. u - 1 /\ lg[p].txn = t /\ \A j \in p .. u - 1 : t \in h[j].running
    BY Zenon, <1>8 DEF Chained
  <2>2. \A j \in p .. m : j \in p .. u - 1 \/ j \in u .. m
    BY <1>1, <2>1
  <2> QED
    BY Zenon, <1>1, <2>1, <2>2
<1>11. Undoing(lg, h, m, t, p)
  BY <1>1, <1>10 DEF Undoing
<1>12. \A k \in Keys : z.writer[k] = t => h[m].writer[k] = t /\ h[m].committed[k] = z.committed[k]
  <2>1. Keeps(h, m) /\ u \in 0 .. m
    BY <1>1 DEF HistoryOf, Sound
  <2> QED
    BY <1>1, <1>4, <2>1 DEF Keeps
<1>13. \A k \in Keys : /\ h[p].writer[k] = t <=> s.writer[k] = t
                       /\ s.writer[k] = t => h[p].data[k] = s.data[k]
  BY Zenon, <1>3, <1>8 DEF Chained
<1>14. \A k \in Keys : s.writer[k] = NoTxn => s.data[k] = s.committed[k]
  BY Zenon, <1>1, <1>3 DEF HistoryOf, Sound, Holders
<1>15. ASSUME NEW k \in Touched(r)
       PROVE  h[m].writer[k] = t /\ HalfUndone(h, m, t, p, k) = ValueBefore(r, k)
  <2>1. k \in Keys
    BY Zenon DEF Touched
  <2>2. /\ s.writer[k] \in {t, NoTxn} /\ z.writer[k] = t /\ s.data[k] = ValueBefore(r, k)
        /\ z.committed[k] = s.committed[k]
    BY Zenon, <1>5, <1>7, <1>9, <1>15, <2>1 DEF KeyStep, EndTypes
  <2> QED
    BY Zenon, <1>7, <1>12, <1>13, <1>14, <2>1, <2>2 DEF HalfUndone
<1>16. ASSUME NEW k \in Keys \ Touched(r)
       PROVE  HalfUndone(h, m, t, p, k) = HalfUndone(h, m, t, u, k)
  <2>1. z.writer[k] = s.writer[k] /\ z.data[k] = s.data[k]
    BY Zenon, <1>5, <1>9, <1>16 DEF KeyStep, EndTypes
  <2> QED
    BY Zenon, <1>4, <1>13, <2>1 DEF HalfUndone
<1> QED
  BY Zenon, <1>2, <1>6, <1>10, <1>11, <1>15, <1>16

-----------------------------------------------------------------------------
(* RedoPhase.  After the record l a key named by then is as it was at l, and *)
(* any other as the checkpoint pd has it; active_txns_ likewise.             *)

RedoneTo(lg, h, pd, l, k) ==
  IF \E j \in 1 .. l : k \in Touched(lg[j]) THEN h[l].data[k] ELSE pd[k]
ActiveAt(h, l, t) == IF t \in h[l].running THEN h[l].last[t] ELSE 0
ActiveTo(lg, h, ac, l, t) == IF \E j \in 1 .. l : lg[j].txn = t THEN ActiveAt(h, l, t) ELSE ac[t]

\* A record other than an abort changes the keys it names.
LEMMA RedoMoves ==
  ASSUME NEW lg, NEW h, HistoryOf(lg, h), NEW pd, NEW l \in 1 .. Len(lg),
         lg[l].type # "abort", NEW k \in Keys
  PROVE  RedoneTo(lg, h, pd, l, k) = IF k \in Touched(lg[l]) THEN ValueAfter(lg[l], k)
                                                            ELSE RedoneTo(lg, h, pd, l - 1, k)
<1>1. KeyStep(lg[l], h[l - 1], h[l], k) /\ Len(lg) \in Nat
  BY DEF HistoryOf, SnapStep
<1>2. \A j \in 1 .. l : j = l \/ j \in 1 .. l - 1
  OBVIOUS
<1>3. CASE k \in Touched(lg[l])
  <2>1. h[l].data[k] = ValueAfter(lg[l], k)
    BY Zenon, <1>1, <1>3 DEF KeyStep
  <2>2. \E j \in 1 .. l : k \in Touched(lg[j])
    BY SMTT(30), <1>3
  <2> QED
    BY Zenon, <1>3, <2>1, <2>2 DEF RedoneTo
<1>4. CASE k \notin Touched(lg[l])
  <2>1. h[l].data[k] = h[l - 1].data[k]
    BY Zenon, <1>1, <1>4 DEF KeyStep
  <2>2. (\E j \in 1 .. l : k \in Touched(lg[j])) <=> \E j \in 1 .. l - 1 : k \in Touched(lg[j])
    BY <1>2, <1>4
  <2> QED
    BY Zenon, <1>4, <2>1, <2>2 DEF RedoneTo
<1> QED
  BY Zenon, <1>3, <1>4

\* A key a transaction holds has been named, and by redo is as it was.
LEMMA RedoneHeld ==
  ASSUME NEW lg, NEW h, HistoryOf(lg, h), NEW pd, NEW m \in 0 .. Len(lg),
         NEW k \in Keys, h[m].writer[k] # NoTxn
  PROVE  RedoneTo(lg, h, pd, m, k) = h[m].data[k]
<1>1. \E j \in 1 .. m : k \in Touched(lg[j])
  BY Zenon DEF HistoryOf, Sound, Unnamed
<1> QED
  BY Zenon, <1>1 DEF RedoneTo

\* An abort record leaves its transaction's keys as they were committed ...
LEMMA RedoAborts ==
  ASSUME NEW lg, NEW h, HistoryOf(lg, h), NEW pd, NEW l \in 1 .. Len(lg),
         lg[l].type = "abort", NEW k \in Keys, NEW m, m = l - 1, h[m].writer[k] = lg[l].txn
  PROVE  RedoneTo(lg, h, pd, l, k) = h[m].committed[k]
<1>1. KeyStep(lg[l], h[l - 1], h[l], k) /\ Len(lg) \in Nat /\ lg[l].txn \in Txns
  <2>1. SnapStep(lg[l], l, h[l - 1], h[l]) /\ Len(lg) \in Nat
    BY DEF HistoryOf
  <2> QED
    BY Zenon, <2>1 DEF SnapStep, ChainStep, LogRec
<1>2. k \notin Touched(lg[l])
  BY Zenon DEF Touched
<1>3. l - 1 \in 0 .. Len(lg) /\ h[l - 1].writer[k] # NoTxn
  BY <1>1, AbsentAssumption
<1>4. PICK j \in 1 .. l - 1 : k \in Touched(lg[j])
  BY Zenon, <1>3 DEF HistoryOf, Sound, Unnamed
<1>5. j \in 1 .. l
  OBVIOUS
<1>6. h[l].data[k] = h[l - 1].committed[k]
  BY Zenon, <1>1, <1>2 DEF KeyStep
<1> QED
  BY Zenon, <1>4, <1>5, <1>6 DEF RedoneTo

\* ... and the others as they were.
LEMMA RedoAbortsOwn ==
  ASSUME NEW lg, NEW h, HistoryOf(lg, h), NEW pd, NEW l \in 1 .. Len(lg),
         lg[l].type = "abort", NEW k \in Keys, NEW m, m = l - 1, h[m].writer[k] # lg[l].txn
  PROVE  RedoneTo(lg, h, pd, l, k) = RedoneTo(lg, h, pd, m, k)
<1>1. KeyStep(lg[l], h[l - 1], h[l], k)
  BY Zenon DEF HistoryOf, SnapStep
<1>2. k \notin Touched(lg[l])
  BY Zenon DEF Touched
<1>3. \A j \in 1 .. l : j = l \/ j \in 1 .. l - 1
  OBVIOUS
<1>4. (\E j \in 1 .. l : k \in Touched(lg[j])) <=> \E j \in 1 .. l - 1 : k \in Touched(lg[j])
  BY SMTT(30), <1>2, <1>3
<1>5. h[l].data[k] = h[l - 1].data[k]
  BY Zenon, <1>1, <1>2 DEF KeyStep
<1> QED
  BY Zenon, <1>4, <1>5 DEF RedoneTo

\* At the end of the log the data is what it was when the log ended: a key no
\* record has named had no value in the checkpoint either.
LEMMA RedoEnds ==
  ASSUME NEW lg, NEW h, HistoryOf(lg, h), NEW c \in 0 .. Len(lg), NEW k \in Keys
  PROVE  RedoneTo(lg, h, h[c].data, Len(lg), k) = h[Len(lg)].data[k]
<1>1. CASE \E j \in 1 .. Len(lg) : k \in Touched(lg[j])
  BY Zenon, <1>1 DEF RedoneTo
<1>2. CASE \A j \in 1 .. Len(lg) : k \notin Touched(lg[j])
  <2>1. Len(lg) \in Nat /\ Len(lg) \in 0 .. Len(lg)
    BY DEF HistoryOf
  <2>2. Unnamed(lg, h, c) /\ Unnamed(lg, h, Len(lg))
    BY Zenon, <2>1 DEF HistoryOf, Sound
  <2>3. \A j \in 1 .. c : k \notin Touched(lg[j])
    BY <1>2, <2>1
  <2>4. h[c].data[k] = Absent /\ h[Len(lg)].data[k] = Absent
    BY Zenon, <1>2, <2>2, <2>3 DEF Unnamed
  <2> QED
    BY Zenon, <1>2, <2>4 DEF RedoneTo
<1> QED
  BY Zenon, <1>1, <1>2

\* What one record does to active_txns_.
LEMMA ActiveMoves ==
  ASSUME NEW lg, NEW h, HistoryOf(lg, h), NEW ac, NEW l \in 1 .. Len(lg), NEW t \in Txns
  PROVE  ActiveTo(lg, h, ac, l, t) =
           IF t = lg[l].txn THEN (IF lg[l].type \in EndTypes THEN 0 ELSE l)
                            ELSE ActiveTo(lg, h, ac, l - 1, t)
<1>1. Len(lg) \in Nat /\ l \in 0 .. Len(lg) /\ l - 1 \in 0 .. Len(lg)
  BY DEF HistoryOf
<1>2. PICK r \in LogRec : r = lg[l]
  BY DEF HistoryOf
<1>3. PICK s \in Snapshot : s = h[l - 1]
  BY Zenon, <1>1 DEF HistoryOf
<1>4. PICK z \in Snapshot : z = h[l]
  BY Zenon, <1>1 DEF HistoryOf
<1>5. ChainStep(r, l, s, z) /\ r.type \in RecTypes /\ s.last \in [Txns -> Nat]
  BY ZenonT(30), <1>2, <1>3, <1>4 DEF HistoryOf, SnapStep, LogRec, Snapshot
<1>6. \A j \in 1 .. l : j = l \/ j \in 1 .. l - 1
  OBVIOUS
<1>7. CASE t = r.txn
  <2>1. z.last[t] = l
    BY Zenon, <1>5, <1>7 DEF ChainStep
  <2>2. t \in z.running <=> r.type \notin EndTypes
    BY Zenon, <1>5, <1>7 DEF ChainStep, RecTypes, EndTypes, DataTypes
  <2>3. l \in 1 .. l
    OBVIOUS
  <2> QED
    BY Zenon, <1>2, <1>4, <1>7, <2>1, <2>2, <2>3 DEF ActiveTo, ActiveAt
<1>8. CASE t # r.txn
  <2>1. z.last[t] = s.last[t]
    BY Zenon, <1>5, <1>8 DEF ChainStep
  <2>2. t \in z.running <=> t \in s.running
    BY Zenon, <1>5, <1>8 DEF ChainStep, RecTypes
  <2>3. (\E j \in 1 .. l : lg[j].txn = t) <=> \E j \in 1 .. l - 1 : lg[j].txn = t
    BY <1>2, <1>6, <1>8
  <2> QED
    BY Zenon, <1>2, <1>3, <1>4, <1>8, <2>1, <2>2, <2>3 DEF ActiveTo, ActiveAt
<1> QED
  BY Zenon, <1>2, <1>7, <1>8

\* At the end of the log active_txns_ holds the transactions that never ended.
LEMMA ActiveEnds ==
  ASSUME NEW lg, NEW h, HistoryOf(lg, h), NEW c \in 0 .. Len(lg), NEW ac, NEW t \in Txns,
         ac[t] = ActiveAt(h, c, t)
  PROVE  ActiveTo(lg, h, ac, Len(lg), t) = ActiveAt(h, Len(lg), t)
<1>1. Len(lg) \in Nat /\ Len(lg) \in 0 .. Len(lg)
  BY DEF HistoryOf
<1>2. ASSUME NEW i \in 0 .. Len(lg), t \in h[i].running
      PROVE  \E j \in 1 .. Len(lg) : lg[j].txn = t
  <2>1. Undoing(lg, h, i, t, h[i].last[t])
    BY Zenon, <1>2, UndoStarts
  <2> QED
    BY SMTT(30), <1>1, <2>1 DEF Undoing
<1>3. CASE \E j \in 1 .. Len(lg) : lg[j].txn = t
  BY Zenon, <1>3 DEF ActiveTo
<1>4. CASE ~\E j \in 1 .. Len(lg) : lg[j].txn = t
  BY Zenon, <1>1, <1>2, <1>4 DEF ActiveTo, ActiveAt
<1> QED
  BY Zenon, <1>3, <1>4

-----------------------------------------------------------------------------
(* The inductive invariant. *)

VarTypes ==
  /\ data \in [Keys -> Value] /\ att \in [Txns -> Nat]
  /\ phase \in {"run", "redo", "undo", "done"} /\ redoLsn \in Nat
  /\ undoTxn \in Txns \cup {NoTxn} /\ undoLsn \in Nat

\* The history ends in the present, and the checkpoint is one of its snapshots.
Present(h) ==
  /\ phase = "run" => h[Len(log)] = Now /\ undoTxn = NoTxn
  /\ h[Len(log)].committed = committed
SavedAt(h, c) ==
  /\ c \in 0 .. Len(log)
  /\ checkpoint.persist = h[c].data
  /\ checkpoint.active = [t \in Txns |-> ActiveAt(h, c, t)]

\* RedoPhase between two records, ...
RedoAt(h) ==
  /\ \A k \in Keys : data[k] = RedoneTo(log, h, checkpoint.persist, redoLsn - 1, k)
  /\ \A t \in Txns : att[t] = ActiveTo(log, h, checkpoint.active, redoLsn - 1, t)

\* ... and in UndoTxn for the abort record l it has just come to.
AbortAt(h, l) ==
  /\ l \in 1 .. Len(log) /\ log[l].type = "abort" /\ log[l].txn = undoTxn
  /\ Undoing(log, h, l - 1, undoTxn, undoLsn)
  /\ \A k \in Keys :
       data[k] = IF h[l - 1].writer[k] = undoTxn
                 THEN HalfUndone(h, l - 1, undoTxn, undoLsn, k)
                 ELSE RedoneTo(log, h, checkpoint.persist, l - 1, k)
  /\ \A t \in Txns \ {undoTxn} : att[t] = ActiveTo(log, h, checkpoint.active, l, t)

RedoInv(h) ==
  /\ redoLsn \in 1 .. Len(log) + 1
  /\ undoTxn = NoTxn => RedoAt(h)
  /\ undoTxn # NoTxn => AbortAt(h, redoLsn - 1)

\* UndoPhase: the keys of a transaction still to be undone are as when the log
\* ended, those of one already undone as committed.
UndoInv(h, n) ==
  /\ redoLsn = n + 1
  /\ \A t \in Txns : att[t] # 0 => t \in h[n].running /\ att[t] = h[n].last[t]
  /\ undoTxn # NoTxn => Undoing(log, h, n, undoTxn, undoLsn)
  /\ \A k \in Keys :
       data[k] = IF h[n].writer[k] = NoTxn THEN h[n].data[k]
                 ELSE IF h[n].writer[k] = undoTxn THEN HalfUndone(h, n, undoTxn, undoLsn, k)
                 ELSE IF att[h[n].writer[k]] # 0 THEN h[n].data[k]
                 ELSE h[n].committed[k]

LoggedInv(h) == HistoryOf(log, h) /\ Present(h) /\ \E c \in Nat : SavedAt(h, c)

PhaseInv(h) ==
  /\ VarTypes
  /\ phase = "redo" => RedoInv(h)
  /\ phase = "undo" => UndoInv(h, Len(log))
  /\ phase = "done" => data = committed /\ undoTxn = NoTxn

RecoveryInv == \E h : LoggedInv(h) /\ PhaseInv(h)

\* It holds of the empty log.
LEMMA RecoveryInit == Init => RecoveryInv
<1> SUFFICES ASSUME Init
             PROVE  RecoveryInv
  BY Zenon
<1> USE DEF Init
<1>1. PICK h : h = [i \in 0 .. 0 |-> Now]
  BY Zenon
<1>2. Now \in Snapshot
  BY Zenon DEF Now, Snapshot, NoData, NoLsn, Value
<1>3. \A i \in 0 .. 0 : i = 0
  OBVIOUS
<1>4. h[0] = Now /\ h \in [0 .. 0 -> Snapshot]
  BY <1>1, <1>2
<1>5. Sound(log, h, 0)
  <2>1. Holders(h, 0) /\ Unnamed(log, h, 0) /\ Chains(log, h, 0)
    BY SMTT(30), <1>4 DEF Holders, Unnamed, Chains, Now, NoData
  <2>2. Keeps(h, 0)
    BY Zenon, <1>3 DEF Keeps
  <2> QED
    BY Zenon, <2>1, <2>2 DEF Sound
<1>6. HistoryOf(log, h)
  <2>1. log \in Seq(LogRec) /\ Len(log) = 0
    OBVIOUS
  <2> QED
    BY <1>3, <1>4, <1>5, <2>1 DEF HistoryOf
<1>7. Present(h)
  BY SMTT(30), <1>4 DEF Present, Now
<1>8. SavedAt(h, 0)
  BY <1>4 DEF SavedAt, ActiveAt, Now, NoData, NoLsn
<1>9. PhaseInv(h)
  BY Zenon DEF PhaseInv, VarTypes, NoData, NoLsn, Value
<1> QED
  BY Zenon, <1>6, <1>7, <1>8, <1>9 DEF RecoveryInv, LoggedInv

\* A transaction's operation extends the history by the snapshot it leads to.
LEMMA TransactionKeeps ==
  ASSUME RecoveryInv, NEW t \in Txns,
         \/ Begin(t) \/ Commit(t) \/ Abort(t)
         \/ \E k \in Keys :
              \/ Delete(t, k)
              \/ \E v \in Vals : Insert(t, k, v) \/ \E n \in Keys : Update(t, k, n, v)
  PROVE  RecoveryInv'
<1>1. PICK h : LoggedInv(h) /\ PhaseInv(h)
  BY Zenon DEF RecoveryInv
<1>2. /\ phase = "run" /\ phase' = "run"
      /\ UNCHANGED <<checkpoint, att, redoLsn, undoTxn, undoLsn>>
  BY Zenon DEF Begin, Commit, Abort, Delete, Insert, Update, LogAs
<1>3. /\ HistoryOf(log, h) /\ h[Len(log)] = Now /\ log \in Seq(LogRec) /\ Len(log) \in Nat
      /\ h \in [0 .. Len(log) -> Snapshot] /\ undoTxn = NoTxn
  BY <1>1, <1>2 DEF LoggedInv, Present, HistoryOf
<1>4. Now \in Snapshot
  BY <1>3
<1>5. PICK r : Extends(r)
  BY Zenon, <1>3, <1>4, BeginExtends, EndExtends, DeleteExtends, InsertExtends, UpdateExtends
<1>6. PICK z \in Snapshot : z = Now'
  BY Zenon, <1>5 DEF Extends
<1>7. PICK g : g = [i \in 0 .. Len(log) + 1 |-> IF i <= Len(log) THEN h[i] ELSE z]
  BY Zenon
<1>8. HistoryOf(log', g)
  <2>1. PICK lg : lg = log
    BY Zenon
  <2>2. SnapStep(r, Len(lg) + 1, h[Len(lg)], z) /\ log' = Append(lg, r)
    BY Zenon, <1>3, <1>5, <1>6, <2>1 DEF Extends
  <2> QED
    BY <1>3, <1>7, <2>1, <2>2, HistoryGrows
<1>9. Len(log') = Len(log) + 1 /\ g[Len(log) + 1] = z /\ \A i \in 0 .. Len(log) : g[i] = h[i]
  BY <1>3, <1>5, <1>7 DEF Extends
<1>10. Present(g)'
  <2>1. z.committed = committed'
    BY Zenon, <1>6 DEF Now
  <2> QED
    BY Zenon, <1>2, <1>3, <1>6, <1>9, <2>1 DEF Present
<1>11. PICK c \in Nat : SavedAt(h, c)
  BY Zenon, <1>1 DEF LoggedInv
<1>12. SavedAt(g, c)'
  <2>1. c \in 0 .. Len(log) /\ c \in 0 .. Len(log')
    BY SMTT(30), <1>3, <1>9, <1>11 DEF SavedAt
  <2>2. g[c] = h[c]
    BY Zenon, <1>9, <2>1
  <2> QED
    BY Zenon, <1>2, <1>11, <2>1, <2>2 DEF SavedAt, ActiveAt
<1>13. PhaseInv(g)'
  <2>1. data' = z.data /\ z.data \in [Keys -> Value]
    BY ZenonT(30), <1>6 DEF Now, Snapshot
  <2> QED
    BY Zenon, <1>1, <1>2, <2>1 DEF PhaseInv, VarTypes
<1> QED
  BY Zenon, <1>8, <1>10, <1>12, <1>13 DEF RecoveryInv, LoggedInv

\* A checkpoint saves the present, uncommitted data and all.
LEMMA CheckpointKeeps ==
  ASSUME RecoveryInv, TakeCheckpoint
  PROVE  RecoveryInv'
<1>1. PICK h : LoggedInv(h) /\ PhaseInv(h)
  BY Zenon DEF RecoveryInv
<1>2. /\ phase = "run" /\ phase' = "run" /\ Now' = Now
      /\ UNCHANGED <<log, data, committed, att, redoLsn, undoTxn, undoLsn>>
      /\ checkpoint' = [active |-> [t \in Txns |-> IF t \in running THEN lastLsn[t] ELSE 0],
                        persist |-> data]
  BY Zenon DEF TakeCheckpoint, Now
<1>3. HistoryOf(log, h) /\ h[Len(log)] = Now /\ Len(log) \in Nat
  BY <1>1, <1>2 DEF LoggedInv, Present, HistoryOf
<1>4. HistoryOf(log, h)' /\ Present(h)'
  BY Zenon, <1>1, <1>2 DEF LoggedInv, Present
<1>5. SavedAt(h, Len(log))'
  <2>1. checkpoint'.persist = h[Len(log)].data
    BY SMTT(30), <1>2, <1>3 DEF Now
  <2>2. checkpoint'.active = [t \in Txns |-> ActiveAt(h, Len(log), t)]
    BY <1>2, <1>3 DEF Now, ActiveAt
  <2> QED
    BY SMTT(30), <1>2, <1>3, <2>1, <2>2 DEF SavedAt
<1>6. PhaseInv(h)'
  BY Zenon, <1>1, <1>2 DEF PhaseInv, VarTypes
<1> QED
  BY Zenon, <1>2, <1>3, <1>4, <1>5, <1>6 DEF RecoveryInv, LoggedInv

-----------------------------------------------------------------------------
(* Crashes and recovery. *)

\* Once the system has crashed the log is only read.
LEMMA LiveKeeps ==
  ASSUME NEW h, LoggedInv(h), UNCHANGED live, phase' # "run"
  PROVE  LoggedInv(h)'
BY Zenon DEF LoggedInv, Present, SavedAt, live

\* The snapshots the proofs below look at.
LEMMA HistoryTypes ==
  ASSUME NEW lg, NEW h, HistoryOf(lg, h)
  PROVE  /\ Len(lg) \in Nat /\ Len(lg) \in 0 .. Len(lg)
         /\ \A i \in 1 .. Len(lg) : lg[i] \in LogRec
         /\ \A i \in 0 .. Len(lg) : h[i] \in Snapshot
BY DEF HistoryOf

\* Recovery starts from the checkpoint, before the first record, also when a crash
\* has cut an earlier recovery short.
LEMMA CrashKeeps ==
  ASSUME RecoveryInv, Crash
  PROVE  RecoveryInv'
<1>1. PICK h : LoggedInv(h) /\ PhaseInv(h)
  BY Zenon DEF RecoveryInv
<1>2. LoggedInv(h)'
  BY Zenon, <1>1, LiveKeeps DEF Crash
<1>3. PICK c \in Nat : SavedAt(h, c)
  BY Zenon, <1>1 DEF LoggedInv
<1>4. PICK s \in Snapshot : s = h[c]
  BY ZenonT(30), <1>1, <1>3 DEF LoggedInv, HistoryOf, SavedAt
<1>5. checkpoint.persist \in [Keys -> Value]
  BY Zenon, <1>3, <1>4 DEF SavedAt, Snapshot
<1>6. checkpoint.active \in [Txns -> Nat]
  <2>1. \A t \in Txns : ActiveAt(h, c, t) \in Nat
    BY Zenon, <1>4 DEF ActiveAt, Snapshot
  <2> QED
    BY Zenon, <1>3, <2>1 DEF SavedAt
<1>7. RedoInv(h)'
  <2>1. redoLsn' = 1 /\ redoLsn' - 1 = 0 /\ undoTxn' = NoTxn /\ Len(log') \in Nat
    BY <1>1, HistoryTypes DEF Crash, LoggedInv, HistoryOf, live
  <2>2. 1 .. 0 = {}
    OBVIOUS
  <2>3. RedoAt(h)'
    BY Zenon, <2>1, <2>2 DEF RedoAt, RedoneTo, ActiveTo, Crash, live
  <2> QED
    BY <2>1, <2>3 DEF RedoInv
<1>8. VarTypes'
  BY Zenon, <1>5, <1>6 DEF VarTypes, Crash
<1> QED
  BY Zenon, <1>2, <1>7, <1>8 DEF RecoveryInv, PhaseInv, Crash

\* Redo of a record other than an abort.
LEMMA RedoRecord ==
  ASSUME NEW h, LoggedInv(h), PhaseInv(h), Redo, log[redoLsn].type # "abort"
  PROVE  PhaseInv(h)'
<1>1. PICK lg, l, pd, ac :
       /\ lg = log
       /\ l = redoLsn
       /\ pd = checkpoint.persist
       /\ ac = checkpoint.active
  BY Zenon
<1>5. HistoryOf(lg, h) /\ RedoAt(h) /\ VarTypes
  BY Zenon, <1>1 DEF LoggedInv, PhaseInv, RedoInv, Redo
<1>6. Len(lg) \in Nat /\ l \in 1 .. Len(lg)
  BY <1>1, HistoryTypes DEF LoggedInv, PhaseInv, RedoInv, Redo
<1>7. PICK r \in LogRec : r = lg[l]
  BY Zenon, <1>5, <1>6, HistoryTypes
<1>8. /\ data' = Redone(data, r)
      /\ att' = [att EXCEPT ![r.txn] = IF r.type = "commit" THEN 0 ELSE l]
      /\ phase = "redo" /\ undoTxn = NoTxn /\ redoLsn' = l + 1 /\ r.type # "abort"
      /\ UNCHANGED <<phase, undoTxn, undoLsn, log, checkpoint>>
  BY Zenon, <1>1, <1>7 DEF Redo, live
<1>9. /\ data \in [Keys -> Value] /\ att \in [Txns -> Nat] /\ r.txn \in Txns
      /\ r.type \in EndTypes <=> r.type = "commit"
  BY Zenon, <1>5, <1>8 DEF VarTypes, LogRec, EndTypes
<1>10. \A k \in Keys : data'[k] = RedoneTo(lg, h, pd, l, k)
  <2>1. ASSUME NEW k \in Keys
        PROVE  data'[k] = RedoneTo(lg, h, pd, l, k)
    <3>1. data'[k] = IF k \in Touched(r) THEN ValueAfter(r, k) ELSE data[k]
      BY Zenon, <1>8, <1>9, RedoneKey
    <3>2. data[k] = RedoneTo(lg, h, pd, l - 1, k)
      BY Zenon, <1>1, <1>5 DEF RedoAt
    <3> QED
      BY SMTT(30), <1>5, <1>6, <1>7, <1>8, <3>1, <3>2, RedoMoves
  <2> QED
    BY Zenon, <2>1
<1>11. \A t \in Txns : att'[t] = ActiveTo(lg, h, ac, l, t)
  <2>1. ASSUME NEW t \in Txns
        PROVE  att'[t] = ActiveTo(lg, h, ac, l, t)
    <3>1. att[t] = ActiveTo(lg, h, ac, l - 1, t)
      BY Zenon, <1>1, <1>5 DEF RedoAt
    <3>2. ActiveTo(lg, h, ac, l, t) = IF t = r.txn THEN (IF r.type \in EndTypes THEN 0 ELSE l)
                                                   ELSE ActiveTo(lg, h, ac, l - 1, t)
      <4>1. ActiveTo(lg, h, ac, l, t) =
              IF t = lg[l].txn THEN (IF lg[l].type \in EndTypes THEN 0 ELSE l)
                               ELSE ActiveTo(lg, h, ac, l - 1, t)
        <5>1. HistoryOf(lg, h) /\ l \in 1 .. Len(lg)
          BY Zenon, <1>5, <1>6
        <5> QED
          BY SMTT(30), <5>1, ActiveMoves
      <4> QED
        BY Zenon, <1>7, <4>1
    <3>3. CASE t = r.txn
      <4>1. att'[t] = IF r.type = "commit" THEN 0 ELSE l
        BY Zenon, <1>8, <1>9, <3>3
      <4> QED
        BY ZenonT(30), <1>9, <3>2, <3>3, <4>1
    <3>4. CASE t # r.txn
      BY Zenon, <1>8, <1>9, <3>1, <3>2, <3>4
    <3> QED
      BY Zenon, <3>3, <3>4
  <2> QED
    BY Zenon, <2>1
<1>12. VarTypes'
  BY <1>5, <1>6, <1>8, <1>9, RedoneKey DEF VarTypes
<1>13. RedoInv(h)'
  <2>1. redoLsn' \in 1 .. Len(log') + 1 /\ redoLsn' - 1 = l
    BY SMTT(30), <1>1, <1>6, <1>8
  <2>2. RedoAt(h)'
    BY Zenon, <1>1, <1>8, <1>10, <1>11, <2>1 DEF RedoAt
  <2> QED
    BY ZenonT(30), <1>8, <2>1, <2>2 DEF RedoInv
<1> QED
  BY ZenonT(30), <1>8, <1>12, <1>13 DEF PhaseInv

\* At an abort record UndoTxn starts from the record before it in the chain.
LEMMA RedoAbortRecord ==
  ASSUME NEW h, LoggedInv(h), PhaseInv(h), Redo, log[redoLsn].type = "abort"
  PROVE  PhaseInv(h)'
<1>1. PICK lg, l, pd, ac :
       /\ lg = log
       /\ l = redoLsn
       /\ pd = checkpoint.persist
       /\ ac = checkpoint.active
  BY Zenon
<1>5. HistoryOf(lg, h) /\ RedoAt(h) /\ VarTypes
  BY Zenon, <1>1 DEF LoggedInv, PhaseInv, RedoInv, Redo
<1>6. Len(lg) \in Nat /\ l \in 1 .. Len(lg) /\ l - 1 \in 0 .. Len(lg)
  BY <1>1, HistoryTypes DEF LoggedInv, PhaseInv, RedoInv, Redo
<1>7. PICK r \in LogRec : r = lg[l]
  BY Zenon, <1>5, <1>6, HistoryTypes
<1>8. /\ data' = data /\ att' = att /\ undoTxn' = r.txn /\ undoLsn' = r.prev
      /\ phase = "redo" /\ undoTxn = NoTxn /\ redoLsn' = l + 1 /\ r.type = "abort"
      /\ UNCHANGED <<phase, log, checkpoint>>
  BY Zenon, <1>1, <1>7 DEF Redo, Redone, live
<1>9. r.txn \in Txns /\ r.txn # NoTxn /\ r.prev \in Nat
  BY Zenon, AbsentAssumption DEF LogRec
<1>10. r.txn \in h[l - 1].running /\ r.prev = h[l - 1].last[r.txn]
  <2>1. ChainStep(r, l, h[l - 1], h[l])
    BY Zenon, <1>5, <1>6, <1>7 DEF HistoryOf, SnapStep
  <2> QED
    BY Zenon, <1>8, <2>1 DEF ChainStep
<1>11. /\ Undoing(lg, h, l - 1, r.txn, r.prev)
       /\ \A k \in Keys : h[l - 1].writer[k] = r.txn =>
            HalfUndone(h, l - 1, r.txn, r.prev, k) = h[l - 1].data[k]
  BY SMTT(30), <1>5, <1>6, <1>10, UndoStarts
<1>12. ASSUME NEW k \in Keys
       PROVE  data'[k] = IF h[l - 1].writer[k] = r.txn THEN HalfUndone(h, l - 1, r.txn, r.prev, k)
                                                       ELSE RedoneTo(lg, h, pd, l - 1, k)
  <2>1. data[k] = RedoneTo(lg, h, pd, l - 1, k)
    BY ZenonT(30), <1>1, <1>5 DEF RedoAt
  <2>2. PICK m : m = l - 1
    BY Zenon
  <2>3. h[m].writer[k] = r.txn => RedoneTo(lg, h, pd, m, k) = h[m].data[k]
    BY SMTT(30), <1>5, <1>6, <1>9, <2>2, RedoneHeld
  <2> QED
    BY ZenonT(30), <1>8, <1>11, <2>1, <2>2, <2>3
<1>13. ASSUME NEW t \in Txns \ {r.txn}
       PROVE  att'[t] = ActiveTo(lg, h, ac, l, t)
  <2>1. att[t] = ActiveTo(lg, h, ac, l - 1, t)
    BY ZenonT(30), <1>1, <1>5 DEF RedoAt
  <2>2. ActiveTo(lg, h, ac, l, t) = ActiveTo(lg, h, ac, l - 1, t)
    BY SMTT(30), <1>5, <1>6, <1>7, ActiveMoves
  <2> QED
    BY Zenon, <1>8, <2>1, <2>2
<1>14. VarTypes'
  BY <1>5, <1>6, <1>8, <1>9 DEF VarTypes
<1>15. RedoInv(h)'
  <2>1. redoLsn' \in 1 .. Len(log') + 1 /\ redoLsn' - 1 = l /\ undoTxn' # NoTxn
    BY <1>1, <1>6, <1>8, <1>9
  <2>2. AbortAt(h, l)'
    BY ZenonT(30), <1>1, <1>6, <1>7, <1>8, <1>11, <1>12, <1>13 DEF AbortAt
  <2> QED
    BY Zenon, <2>1, <2>2 DEF RedoInv
<1> QED
  BY Zenon, <1>8, <1>14, <1>15 DEF PhaseInv

\* When the log is redone the data is what it was when the log ended.
LEMMA RedoEndKeeps ==
  ASSUME NEW h, LoggedInv(h), PhaseInv(h), RedoEnd
  PROVE  PhaseInv(h)'
<1>1. PICK lg, n : lg = log /\ n = Len(lg)
  BY Zenon
<1>3. HistoryOf(lg, h) /\ RedoAt(h) /\ VarTypes
  BY Zenon, <1>1 DEF LoggedInv, PhaseInv, RedoInv, RedoEnd
<1>4. n \in Nat /\ n \in 0 .. Len(lg) /\ redoLsn = n + 1 /\ redoLsn - 1 = n
  BY <1>1, HistoryTypes DEF LoggedInv, PhaseInv, RedoInv, RedoEnd
<1>5. /\ phase' = "undo" /\ undoTxn' = NoTxn /\ undoTxn = NoTxn
      /\ UNCHANGED <<data, att, redoLsn, undoTxn, undoLsn, log>>
  BY Zenon DEF RedoEnd, live
<1>6. PICK c \in 0 .. Len(lg) : SavedAt(h, c)
  BY Zenon, <1>1 DEF LoggedInv, SavedAt
<1>7. \A k \in Keys : data[k] = h[n].data[k]
  BY <1>1, <1>3, <1>4, <1>6, RedoEnds DEF RedoAt, SavedAt
<1>8. \A t \in Txns : att[t] = ActiveAt(h, n, t)
  <2>1. PICK ac : ac = checkpoint.active
    BY Zenon
  <2>2. ASSUME NEW t \in Txns
        PROVE  att[t] = ActiveAt(h, n, t)
    <3>1. att[t] = ActiveTo(lg, h, ac, n, t)
      BY Zenon, <1>1, <1>3, <1>4, <2>1 DEF RedoAt
    <3>2. ac[t] = ActiveAt(h, c, t)
      BY Zenon, <1>6, <2>1 DEF SavedAt
    <3> QED
      BY Zenon, <1>1, <1>3, <3>1, <3>2, ActiveEnds
  <2> QED
    BY Zenon, <2>2
<1>9. \A t \in h[n].running : t \in Txns /\ att[t] # 0
  <2>1. ASSUME NEW t \in h[n].running
        PROVE  t \in Txns /\ att[t] # 0
    <3>1. Undoing(lg, h, n, t, h[n].last[t])
      BY Zenon, <1>3, <1>4, UndoStarts
    <3> QED
      BY SMTT(30), <1>8, <3>1 DEF Undoing, ActiveAt
  <2> QED
    BY Zenon, <2>1
<1>10. \A k \in Keys : h[n].writer[k] # NoTxn => h[n].writer[k] \in h[n].running
  BY ZenonT(30), <1>3, <1>4 DEF HistoryOf, Sound, Holders
<1>11. UndoInv(h, n)'
  <2>1. \A t \in Txns : att[t] # 0 => t \in h[n].running /\ att[t] = h[n].last[t]
    BY Zenon, <1>8 DEF ActiveAt
  <2> QED
    BY ZenonT(30), <1>4, <1>5, <1>7, <1>9, <1>10, <2>1 DEF UndoInv
<1>12. VarTypes'
  BY Zenon, <1>3, <1>5 DEF VarTypes
<1> QED
  BY Zenon, <1>1, <1>5, <1>11, <1>12 DEF PhaseInv

\* UndoPhase takes up a transaction whose keys are as when the log ended.
LEMMA UndoBeginKeeps ==
  ASSUME NEW h, LoggedInv(h), PhaseInv(h), NEW t \in Txns, UndoBegin(t)
  PROVE  PhaseInv(h)'
<1>1. PICK lg, n : lg = log /\ n = Len(lg)
  BY Zenon
<1>3. HistoryOf(lg, h) /\ UndoInv(h, n) /\ VarTypes
  BY Zenon, <1>1 DEF LoggedInv, PhaseInv, UndoBegin
<1>4. n \in Nat /\ n \in 0 .. Len(lg) /\ t # NoTxn
  BY Zenon, <1>1, <1>3, HistoryTypes, AbsentAssumption
<1>5. /\ phase = "undo" /\ undoTxn = NoTxn /\ att[t] # 0 /\ undoTxn' = t /\ undoLsn' = att[t]
      /\ UNCHANGED <<data, att, phase, redoLsn, log>>
  BY Zenon DEF UndoBegin, live
<1>6. t \in h[n].running /\ att[t] = h[n].last[t]
  BY ZenonT(30), <1>3, <1>5 DEF UndoInv
<1>7. /\ Undoing(lg, h, n, t, undoLsn')
      /\ \A k \in Keys : h[n].writer[k] = t => HalfUndone(h, n, t, undoLsn', k) = h[n].data[k]
  BY SMTT(30), <1>3, <1>4, <1>5, <1>6, UndoStarts
<1>8. UndoInv(h, n)'
  <2>1. ASSUME NEW k \in Keys
        PROVE  data[k] = IF h[n].writer[k] = NoTxn THEN h[n].data[k]
                         ELSE IF h[n].writer[k] = t THEN HalfUndone(h, n, t, undoLsn', k)
                         ELSE IF att[h[n].writer[k]] # 0 THEN h[n].data[k]
                         ELSE h[n].committed[k]
    <3>1. data[k] = IF h[n].writer[k] = NoTxn THEN h[n].data[k]
                    ELSE IF att[h[n].writer[k]] # 0 THEN h[n].data[k]
                    ELSE h[n].committed[k]
      BY Zenon, <1>3, <1>5 DEF UndoInv
    <3> QED
      BY Zenon, <1>5, <1>7, <3>1
  <2> QED
    BY ZenonT(30), <1>1, <1>3, <1>5, <1>7, <2>1 DEF UndoInv
<1>9. VarTypes'
  BY Zenon, <1>3, <1>5 DEF VarTypes
<1> QED
  BY Zenon, <1>1, <1>5, <1>8, <1>9 DEF PhaseInv

\* One round of UndoTxn, in RedoPhase or in UndoPhase.
LEMMA UndoStepKeeps ==
  ASSUME NEW h, LoggedInv(h), PhaseInv(h), UndoStep
  PROVE  PhaseInv(h)'
<1>1. PICK lg, t, u, pd : lg = log /\ t = undoTxn /\ u = undoLsn /\ pd = checkpoint.persist
  BY Zenon
<1>5. HistoryOf(lg, h) /\ VarTypes
  BY Zenon, <1>1 DEF LoggedInv, PhaseInv
<1>6. /\ t # NoTxn /\ lg[u].type # "begin" /\ data' = Undone(data, lg[u])
      /\ undoLsn' = lg[u].prev
      /\ UNCHANGED <<log, checkpoint, att, phase, redoLsn, undoTxn>>
  BY Zenon, <1>1 DEF UndoStep, live
<1>7. phase \in {"redo", "undo"}
  BY Zenon, <1>1, <1>6 DEF PhaseInv, VarTypes, LoggedInv, Present
<1>8. Len(lg) \in Nat
  BY Zenon, <1>5, HistoryTypes
<1>9. CASE phase = "redo"
  <2>1. PICK l : l = redoLsn - 1
    BY Zenon
  <2>2. AbortAt(h, l) /\ redoLsn \in 1 .. Len(log) + 1
    BY Zenon, <1>1, <1>6, <1>9, <2>1 DEF PhaseInv, RedoInv
  <2>3. l \in 1 .. Len(lg) /\ l - 1 \in 0 .. Len(lg) /\ Undoing(lg, h, l - 1, t, u)
    BY SMTT(30), <1>1, <1>8, <2>2 DEF AbortAt
  <2>4. /\ lg[u] \in LogRec /\ lg[u].prev \in 1 .. u - 1
        /\ Undoing(lg, h, l - 1, t, lg[u].prev)
        /\ \A k \in Touched(lg[u]) :
             /\ h[l - 1].writer[k] = t
             /\ HalfUndone(h, l - 1, t, lg[u].prev, k) = ValueBefore(lg[u], k)
        /\ \A k \in Keys \ Touched(lg[u]) :
             HalfUndone(h, l - 1, t, lg[u].prev, k) = HalfUndone(h, l - 1, t, u, k)
    BY SMTT(30), <1>5, <1>6, <2>3, UndoMoves
  <2>5. /\ data' \in [Keys -> Value]
        /\ \A k \in Keys :
             data'[k] = IF k \in Touched(lg[u]) THEN ValueBefore(lg[u], k) ELSE data[k]
    BY SMTT(30), <1>5, <1>6, <2>4, UndoneKey DEF VarTypes
  <2>6. ASSUME NEW k \in Keys
        PROVE  data'[k] = IF h[l - 1].writer[k] = t THEN HalfUndone(h, l - 1, t, lg[u].prev, k)
                                                    ELSE RedoneTo(lg, h, pd, l - 1, k)
    <3>1. data[k] = IF h[l - 1].writer[k] = t THEN HalfUndone(h, l - 1, t, u, k)
                                              ELSE RedoneTo(lg, h, pd, l - 1, k)
      BY ZenonT(30), <1>1, <2>2 DEF AbortAt
    <3> QED
      BY ZenonT(30), <2>4, <2>5, <3>1
  <2>7. AbortAt(h, l)'
    BY ZenonT(30), <1>1, <1>6, <2>2, <2>4, <2>6 DEF AbortAt
  <2>8. VarTypes'
    BY ZenonT(30), <1>5, <1>6, <2>3, <2>4, <2>5 DEF VarTypes, LogRec
  <2> QED
    BY ZenonT(30), <1>1, <1>6, <1>9, <2>1, <2>2, <2>7, <2>8 DEF PhaseInv, RedoInv
<1>10. CASE phase = "undo"
  <2>1. PICK n : n = Len(lg)
    BY Zenon
  <2>2. UndoInv(h, n)
    BY Zenon, <1>1, <1>10, <2>1 DEF PhaseInv
  <2>3. n \in 0 .. Len(lg) /\ Undoing(lg, h, n, t, u)
    BY SMTT(30), <1>1, <1>6, <1>8, <2>1, <2>2 DEF UndoInv
  <2>4. /\ lg[u] \in LogRec /\ lg[u].prev \in 1 .. u - 1
        /\ Undoing(lg, h, n, t, lg[u].prev)
        /\ \A k \in Touched(lg[u]) :
             /\ h[n].writer[k] = t
             /\ HalfUndone(h, n, t, lg[u].prev, k) = ValueBefore(lg[u], k)
        /\ \A k \in Keys \ Touched(lg[u]) :
             HalfUndone(h, n, t, lg[u].prev, k) = HalfUndone(h, n, t, u, k)
    BY SMTT(30), <1>5, <1>6, <2>3, UndoMoves
  <2>5. /\ data' \in [Keys -> Value]
        /\ \A k \in Keys :
             data'[k] = IF k \in Touched(lg[u]) THEN ValueBefore(lg[u], k) ELSE data[k]
    BY ZenonT(30), <1>5, <1>6, <2>4, UndoneKey DEF VarTypes
  <2>6. ASSUME NEW k \in Keys
        PROVE  data'[k] = IF h[n].writer[k] = NoTxn THEN h[n].data[k]
                          ELSE IF h[n].writer[k] = t THEN HalfUndone(h, n, t, lg[u].prev, k)
                          ELSE IF att[h[n].writer[k]] # 0 THEN h[n].data[k]
                          ELSE h[n].committed[k]
    <3>1. data[k] = IF h[n].writer[k] = NoTxn THEN h[n].data[k]
                    ELSE IF h[n].writer[k] = t THEN HalfUndone(h, n, t, u, k)
                    ELSE IF att[h[n].writer[k]] # 0 THEN h[n].data[k]
                    ELSE h[n].committed[k]
      BY ZenonT(30), <1>1, <2>2 DEF UndoInv
    <3> QED
      BY ZenonT(30), <1>6, <2>4, <2>5, <3>1
  <2>7. UndoInv(h, n)'
    BY ZenonT(30), <1>1, <1>6, <2>2, <2>4, <2>6 DEF UndoInv
  <2>8. VarTypes'
    BY ZenonT(30), <1>5, <1>6, <2>3, <2>4, <2>5 DEF VarTypes, LogRec
  <2> QED
    BY ZenonT(30), <1>1, <1>6, <1>10, <2>1, <2>7, <2>8 DEF PhaseInv
<1> QED
  BY Zenon, <1>7, <1>9, <1>10

\* UndoTxn returns at the begin record, when every key of the transaction is as
\* committed.
LEMMA UndoReturnKeeps ==
  ASSUME NEW h, LoggedInv(h), PhaseInv(h), UndoReturn
  PROVE  PhaseInv(h)'
<1>1. PICK lg, t, u : lg = log /\ t = undoTxn /\ u = undoLsn
  BY Zenon
<1>4. HistoryOf(lg, h) /\ VarTypes
  BY Zenon, <1>1 DEF LoggedInv, PhaseInv
<1>5. /\ t # NoTxn /\ (u # 0 => lg[u].type = "begin") /\ att' = [att EXCEPT ![t] = 0]
      /\ undoTxn' = NoTxn /\ undoLsn' = 0
      /\ UNCHANGED <<log, checkpoint, data, phase, redoLsn>>
  BY Zenon, <1>1 DEF UndoReturn, live
<1>6. t \in Txns /\ att \in [Txns -> Nat] /\ data \in [Keys -> Value]
  BY Zenon, <1>1, <1>4, <1>5 DEF VarTypes
<1>7. phase \in {"redo", "undo"} /\ Len(lg) \in Nat
  BY Zenon, <1>1, <1>4, <1>5, HistoryTypes DEF PhaseInv, VarTypes, LoggedInv, Present
<1>8. VarTypes'
  BY Zenon, <1>4, <1>5, <1>6 DEF VarTypes
<1>9. CASE phase = "redo"
  <2>1. PICK l, pd, ac :
         /\ l = redoLsn - 1
         /\ pd = checkpoint.persist
         /\ ac = checkpoint.active
    BY Zenon
  <2>4. AbortAt(h, l) /\ redoLsn \in 1 .. Len(log) + 1
    BY ZenonT(30), <1>1, <1>5, <1>9, <2>1 DEF PhaseInv, RedoInv
  <2>5. /\ l \in 1 .. Len(lg) /\ l - 1 \in 0 .. Len(lg) /\ Undoing(lg, h, l - 1, t, u)
        /\ lg[l].type = "abort" /\ lg[l].txn = t
    BY SMTT(30), <1>1, <1>7, <2>4 DEF AbortAt
  <2>6. lg[u].type = "begin"
    BY SMTT(30), <1>5, <2>5 DEF Undoing
  <2>7. ASSUME NEW k \in Keys
        PROVE  data[k] = RedoneTo(lg, h, pd, l, k)
    <3>1. data[k] = IF h[l - 1].writer[k] = t THEN HalfUndone(h, l - 1, t, u, k)
                                              ELSE RedoneTo(lg, h, pd, l - 1, k)
      BY ZenonT(30), <1>1, <2>1, <2>4 DEF AbortAt
    <3>2. HalfUndone(h, l - 1, t, u, k) = h[l - 1].committed[k]
      BY <1>4, <2>5, <2>6, UndoEnds
    <3>3. PICK m : m = l - 1
      BY Zenon
    <3>4. l \in 1 .. Len(lg) /\ lg[l].type = "abort" /\ lg[l].txn = t
      BY ZenonT(30), <2>5
    <3>5. CASE h[m].writer[k] = t
      <4>1. RedoneTo(lg, h, pd, l, k) = h[m].committed[k]
        BY SMTT(30), <1>4, <3>3, <3>4, <3>5, RedoAborts
      <4> QED
        BY Zenon, <3>1, <3>2, <3>3, <3>5, <4>1
    <3>6. CASE h[m].writer[k] # t
      <4>1. RedoneTo(lg, h, pd, l, k) = RedoneTo(lg, h, pd, m, k)
        BY Zenon, <1>4, <3>3, <3>4, <3>6, RedoAbortsOwn
      <4> QED
        BY Zenon, <3>1, <3>3, <3>6, <4>1
    <3> QED
      BY Zenon, <3>5, <3>6
  <2>8. ASSUME NEW o \in Txns
        PROVE  att'[o] = ActiveTo(lg, h, ac, l, o)
    <3>1. CASE o = t
      <4>1. ActiveTo(lg, h, ac, l, o) = 0
        <5>1. ActiveTo(lg, h, ac, l, o) =
                IF o = lg[l].txn THEN (IF lg[l].type \in EndTypes THEN 0 ELSE l)
                                 ELSE ActiveTo(lg, h, ac, l - 1, o)
          BY SMTT(30), <1>4, <2>5, ActiveMoves
        <5> QED
          BY Zenon, <2>5, <3>1, <5>1 DEF EndTypes
      <4> QED
        BY Zenon, <1>5, <1>6, <3>1, <4>1
    <3>2. CASE o # t
      <4>1. att[o] = ActiveTo(lg, h, ac, l, o)
        BY ZenonT(30), <1>1, <2>1, <2>4, <3>2 DEF AbortAt
      <4> QED
        BY ZenonT(30), <1>5, <1>6, <3>2, <4>1
    <3> QED
      BY Zenon, <3>1, <3>2
  <2>9. RedoAt(h)'
    BY Zenon, <1>1, <1>5, <2>1, <2>7, <2>8 DEF RedoAt
  <2> QED
    BY Zenon, <1>5, <1>8, <1>9, <2>4, <2>9 DEF PhaseInv, RedoInv
<1>10. CASE phase = "undo"
  <2>1. PICK n : n = Len(lg)
    BY Zenon
  <2>2. UndoInv(h, n)
    BY Zenon, <1>1, <1>10, <2>1 DEF PhaseInv
  <2>3. n \in 0 .. Len(lg) /\ Undoing(lg, h, n, t, u)
    BY SMTT(30), <1>1, <1>5, <1>7, <2>1, <2>2 DEF UndoInv
  <2>4. lg[u].type = "begin"
    BY <1>5, <2>3 DEF Undoing
  <2>5. h[n] \in Snapshot
    BY Zenon, <1>4, <2>3, HistoryTypes
  <2>6. ASSUME NEW k \in Keys
        PROVE  data[k] = IF h[n].writer[k] = NoTxn THEN h[n].data[k]
                         ELSE IF att'[h[n].writer[k]] # 0 THEN h[n].data[k]
                         ELSE h[n].committed[k]
    <3>1. data[k] = IF h[n].writer[k] = NoTxn THEN h[n].data[k]
                    ELSE IF h[n].writer[k] = t THEN HalfUndone(h, n, t, u, k)
                    ELSE IF att[h[n].writer[k]] # 0 THEN h[n].data[k]
                    ELSE h[n].committed[k]
      BY ZenonT(30), <1>1, <2>2 DEF UndoInv
    <3>2. HalfUndone(h, n, t, u, k) = h[n].committed[k]
      BY SMTT(30), <1>4, <2>3, <2>4, UndoEnds
    <3>3. h[n].writer[k] \in Txns \cup {NoTxn}
      BY Zenon, <2>5 DEF Snapshot
    <3>4. att'[t] = 0 /\ \A o \in Txns : o # t => att'[o] = att[o]
      BY Zenon, <1>5, <1>6
    <3> QED
      BY ZenonT(30), <3>1, <3>2, <3>3, <3>4
  <2>7. \A o \in Txns : att'[o] # 0 => o \in h[n].running /\ att'[o] = h[n].last[o]
    BY ZenonT(30), <1>5, <1>6, <2>2 DEF UndoInv
  <2>8. UndoInv(h, n)'
    BY ZenonT(30), <1>5, <2>2, <2>6, <2>7 DEF UndoInv
  <2> QED
    BY ZenonT(30), <1>1, <1>5, <1>8, <1>10, <2>1, <2>8 DEF PhaseInv
<1> QED
  BY Zenon, <1>7, <1>9, <1>10

\* When no transaction is left every key is as committed.
LEMMA DoneKeeps ==
  ASSUME NEW h, LoggedInv(h), PhaseInv(h), Done
  PROVE  PhaseInv(h)'
<1>1. PICK n : n = Len(log)
  BY Zenon
<1>2. HistoryOf(log, h) /\ UndoInv(h, n) /\ VarTypes /\ h[n].committed = committed
  BY Zenon, <1>1 DEF LoggedInv, PhaseInv, Done, Present
<1>3. n \in 0 .. Len(log) /\ h[n] \in Snapshot
  BY <1>1, <1>2 DEF HistoryOf
<1>4. /\ undoTxn = NoTxn /\ phase' = "done" /\ att = NoLsn
      /\ UNCHANGED <<data, att, redoLsn, undoTxn, undoLsn, committed>>
  BY Zenon DEF Done, live
<1>5. ASSUME NEW k \in Keys
      PROVE  data[k] = committed[k]
  <2>1. h[n].writer[k] \in Txns \cup {NoTxn}
    BY ZenonT(30), <1>3 DEF Snapshot
  <2>2. h[n].writer[k] # NoTxn => att[h[n].writer[k]] = 0
    BY Zenon, <1>4, <2>1 DEF NoLsn
  <2>3. h[n].writer[k] = NoTxn => h[n].data[k] = h[n].committed[k]
    BY ZenonT(30), <1>2, <1>3 DEF HistoryOf, Sound, Holders
  <2> QED
    BY ZenonT(30), <1>2, <1>4, <2>2, <2>3 DEF UndoInv
<1>6. data = committed
  <2>1. data \in [Keys -> Value] /\ committed \in [Keys -> Value]
    BY Zenon, <1>2, <1>3 DEF VarTypes, Snapshot
  <2> QED
    BY SMTT(30), <1>5, <2>1
<1>7. VarTypes'
  BY Zenon, <1>2, <1>4 DEF VarTypes
<1> QED
  BY Zenon, <1>4, <1>6, <1>7 DEF PhaseInv

\* Every step of recovery keeps the invariant.
LEMMA RecoverKeeps ==
  ASSUME RecoveryInv, Recover
  PROVE  RecoveryInv'
<1>1. PICK h : LoggedInv(h) /\ PhaseInv(h)
  BY Zenon DEF RecoveryInv
<1>2. UNCHANGED live /\ phase' # "run"
  <2>1. undoTxn # NoTxn => phase # "run"
    BY Zenon, <1>1 DEF LoggedInv, Present
  <2> QED
    BY Zenon, <2>1 DEF Recover, Redo, RedoEnd, UndoStep, UndoReturn, Done, UndoBegin
<1>3. LoggedInv(h)'
  BY Zenon, <1>1, <1>2, LiveKeeps
<1>4. PhaseInv(h)'
  BY ZenonT(30), <1>1, RedoRecord, RedoAbortRecord, RedoEndKeeps, UndoBeginKeeps, UndoStepKeeps,
     UndoReturnKeeps, DoneKeeps DEF Recover
<1> QED
  BY Zenon, <1>3, <1>4 DEF RecoveryInv

\* Every step keeps the invariant.
LEMMA RecoveryStep == RecoveryInv /\ [Next]_vars => RecoveryInv'
<1> SUFFICES ASSUME RecoveryInv, [Next]_vars
             PROVE  RecoveryInv'
  BY Zenon
<1>1. CASE UNCHANGED vars
  <2>1. PICK h : LoggedInv(h) /\ PhaseInv(h)
    BY Zenon DEF RecoveryInv
  <2>2. /\ UNCHANGED <<log, lastLsn, writer, running, committed, checkpoint>>
        /\ UNCHANGED <<data, att, phase, redoLsn, undoTxn, undoLsn>>
    BY Zenon, <1>1 DEF vars, live
  <2>3. LoggedInv(h)'
    BY ZenonT(30), <2>1, <2>2 DEF LoggedInv, Present, SavedAt, Now
  <2>4. PhaseInv(h)'
    BY ZenonT(30), <2>1, <2>2 DEF PhaseInv, VarTypes, RedoInv, RedoAt, AbortAt, UndoInv
  <2> QED
    BY Zenon, <2>3, <2>4 DEF RecoveryInv
<1>2. CASE \E t \in Txns : Begin(t) \/ Commit(t) \/ Abort(t)
  BY Zenon, <1>2, TransactionKeeps
<1>3. CASE \E t \in Txns, k \in Keys :
             \/ Delete(t, k)
             \/ \E v \in Vals : Insert(t, k, v) \/ \E n \in Keys : Update(t, k, n, v)
  BY Zenon, <1>3, TransactionKeeps
<1>4. CASE TakeCheckpoint
  BY Zenon, <1>4, CheckpointKeeps
<1>5. CASE Crash
  BY Zenon, <1>5, CrashKeeps
<1>6. CASE Recover
  BY Zenon, <1>6, RecoverKeeps
<1> QED
  BY Zenon, <1>1, <1>2, <1>3, <1>4, <1>5, <1>6 DEF Next

\* The log always has a history, and the data of the recovery is always made of
\* snapshots of that history, as the phase says.
THEOREM RecoveryInvariant == Spec => []RecoveryInv
<1> QED
  BY RecoveryInit, RecoveryStep, PTL DEF Spec

\* After RedoPhase and UndoPhase the database holds what the committed transactions
\* wrote and nothing else, wherever the checkpoint and the crashes came.
THEOREM RecoversCommittedHolds == Spec => []RecoversCommitted
<1>1. RecoveryInv => RecoversCommitted
  BY Zenon DEF RecoveryInv, PhaseInv, RecoversCommitted
<1> QED
  BY <1>1, RecoveryInvariant, PTL

-----------------------------------------------------------------------------
(* UndoTxn stays on the chain of its transaction. *)

\* While a transaction is running it has not committed.
LEMMA RunningNotEnded ==
  ASSUME NEW lg, NEW h, HistoryOf(lg, h), NEW m \in 0 .. Len(lg), NEW t, NEW u,
         Undoing(lg, h, m, t, u), NEW i \in u .. m
  PROVE  ~(lg[i].txn = t /\ lg[i].type = "commit")
<1>1. i \in 1 .. Len(lg) /\ t \in h[i].running
  BY DEF Undoing, HistoryOf
<1>2. ChainStep(lg[i], i, h[i - 1], h[i])
  BY ZenonT(30), <1>1 DEF HistoryOf, SnapStep
<1> QED
  BY ZenonT(30), <1>1, <1>2 DEF ChainStep, EndTypes

\* The invariant gives UndoOwnChain.
LEMMA OwnChain == RecoveryInv => UndoOwnChain
<1> SUFFICES ASSUME RecoveryInv, undoTxn # NoTxn
             PROVE  /\ log[undoLsn].txn = undoTxn
                    /\ \A l \in undoLsn .. redoLsn - 1 :
                         ~(log[l].txn = undoTxn /\ log[l].type = "commit")
  BY Zenon DEF UndoOwnChain
<1>1. PICK h : LoggedInv(h) /\ PhaseInv(h)
  BY Zenon DEF RecoveryInv
<1>2. PICK lg, t, u : lg = log /\ t = undoTxn /\ u = undoLsn
  BY Zenon
<1>5. HistoryOf(lg, h) /\ Len(lg) \in Nat /\ phase \in {"redo", "undo"}
  BY ZenonT(30), <1>1, <1>2, HistoryTypes DEF LoggedInv, Present, PhaseInv, VarTypes, HistoryOf
<1>6. CASE phase = "redo"
  <2>1. PICK l : l = redoLsn - 1
    BY Zenon
  <2>2. AbortAt(h, l)
    BY Zenon, <1>1, <1>6, <2>1 DEF PhaseInv, RedoInv
  <2>3. /\ l \in 1 .. Len(lg) /\ l - 1 \in 0 .. Len(lg) /\ lg[l].type = "abort"
        /\ Undoing(lg, h, l - 1, t, u)
    BY SMTT(30), <1>2, <1>5, <2>2 DEF AbortAt
  <2>4. \A i \in u .. l - 1 : ~(lg[i].txn = t /\ lg[i].type = "commit")
    BY ZenonT(30), <1>5, <2>3, RunningNotEnded
  <2>5. u \in Nat /\ lg[u].txn = t
    BY <2>3 DEF Undoing
  <2>6. \A i \in u .. l : i \in u .. l - 1 \/ i = l
    BY SMTT(30), <2>3, <2>5
  <2> QED
    BY Zenon, <1>2, <2>1, <2>3, <2>4, <2>5, <2>6
<1>7. CASE phase = "undo"
  <2>1. PICK n : n = Len(lg)
    BY Zenon
  <2>2. UndoInv(h, n)
    BY Zenon, <1>1, <1>2, <1>7, <2>1 DEF PhaseInv
  <2>3. redoLsn - 1 = n /\ n \in 0 .. Len(lg) /\ Undoing(lg, h, n, t, u)
    BY SMTT(30), <1>2, <1>5, <2>1, <2>2 DEF UndoInv
  <2>4. \A i \in u .. n : ~(lg[i].txn = t /\ lg[i].type = "commit")
    BY ZenonT(30), <1>5, <2>3, RunningNotEnded
  <2> QED
    BY Zenon, <1>2, <2>3, <2>4 DEF Undoing
<1> QED
  BY Zenon, <1>5, <1>6, <1>7

\* UndoTxn, called for an abort record or by UndoPhase, works on records of its own
\* transaction only, and never goes back past a commit of an earlier transaction
\* with the same id.
THEOREM UndoOwnChainHolds == Spec => []UndoOwnChain
<1> QED
  BY OwnChain, RecoveryInvariant, PTL

-----------------------------------------------------------------------------
(* Recovery advances. *)

\* What the descent needs of a state.
Bounds ==
  /\ VarTypes /\ Len(log) \in Nat
  /\ phase = "redo" => redoLsn \in 1 .. Len(log) + 1
  /\ undoTxn # NoTxn => phase \in {"redo", "undo"} /\ undoLsn \in 1 .. Len(log)
  /\ undoTxn # NoTxn /\ log[undoLsn].type # "begin" => log[undoLsn].prev \in 1 .. undoLsn - 1

\* The invariant bounds the positions RedoPhase and UndoPhase are at.
LEMMA RecoveryBounds == RecoveryInv => Bounds
<1> SUFFICES ASSUME RecoveryInv
             PROVE  Bounds
  BY Zenon
<1>1. PICK h : LoggedInv(h) /\ PhaseInv(h)
  BY Zenon DEF RecoveryInv
<1>2. PICK lg : lg = log
  BY Zenon
<1>3. HistoryOf(lg, h) /\ Len(lg) \in Nat /\ VarTypes
  BY Zenon, <1>1, <1>2, HistoryTypes DEF LoggedInv, PhaseInv, HistoryOf
<1>4. phase = "redo" => redoLsn \in 1 .. Len(log) + 1
  BY Zenon, <1>1 DEF PhaseInv, RedoInv
<1>5. ASSUME undoTxn # NoTxn
      PROVE  /\ phase \in {"redo", "undo"} /\ undoLsn \in 1 .. Len(log)
             /\ log[undoLsn].type # "begin" => log[undoLsn].prev \in 1 .. undoLsn - 1
  <2>1. phase \in {"redo", "undo"}
    BY Zenon, <1>1, <1>5 DEF LoggedInv, Present, PhaseInv, VarTypes
  <2>2. PICK t, u : t = undoTxn /\ u = undoLsn
    BY Zenon
  <2>4. \E m \in 0 .. Len(lg) : Undoing(lg, h, m, t, u)
    <3>1. CASE phase = "redo"
      <4>1. PICK l : l = redoLsn - 1
        BY Zenon
      <4>2. AbortAt(h, l)
        BY Zenon, <1>1, <1>5, <3>1, <4>1 DEF PhaseInv, RedoInv
      <4>3. l - 1 \in 0 .. Len(lg) /\ Undoing(lg, h, l - 1, t, u)
        BY SMTT(30), <1>2, <1>3, <2>2, <4>2 DEF AbortAt
      <4> QED
        BY Zenon, <4>3
    <3>2. CASE phase = "undo"
      <4>1. PICK n \in 0 .. Len(lg) : n = Len(lg)
        BY <1>3
      <4>2. Undoing(lg, h, n, t, u)
        BY ZenonT(30), <1>1, <1>2, <1>5, <2>2, <3>2, <4>1 DEF PhaseInv, UndoInv
      <4> QED
        BY Zenon, <4>2
    <3> QED
      BY Zenon, <2>1, <3>1, <3>2
  <2>5. PICK m \in 0 .. Len(lg) : Undoing(lg, h, m, t, u)
    BY Zenon, <2>4
  <2>6. u \in 1 .. Len(lg)
    BY <1>3, <2>5 DEF Undoing
  <2>7. lg[u].type # "begin" => lg[u].prev \in 1 .. u - 1
    BY ZenonT(30), <1>3, <2>5, UndoMoves
  <2> QED
    BY Zenon, <1>2, <2>1, <2>2, <2>6, <2>7
<1> QED
  BY Zenon, <1>2, <1>3, <1>4, <1>5 DEF Bounds

\* A record redone, an abort record included: there is one record less.
LEMMA RedoAdvances ==
  ASSUME Bounds, Redo
  PROVE  Advances
<1>1. redoLsn \in 1 .. Len(log) /\ Len(log) \in Nat
  BY DEF Bounds, VarTypes, Redo
<1>2. phase = "redo" /\ phase' = "redo" /\ redoLsn' = redoLsn + 1 /\ log' = log
  BY Zenon DEF Redo, live
<1>3. 0 <= ToRedo' /\ ToRedo' < ToRedo
  BY <1>1, <1>2 DEF ToRedo
<1> QED
  BY Zenon, <1>2, <1>3 DEF Advances

\* A transaction taken up by UndoPhase is no longer one of the others.
LEMMA UndoBeginAdvances ==
  ASSUME NEW t \in Txns, UndoBegin(t)
  PROVE  Advances
<1>1. /\ phase = "undo" /\ phase' = "undo" /\ att' = att /\ att[t] # 0
      /\ undoTxn = NoTxn /\ undoTxn' = t /\ t # NoTxn
  BY Zenon, AbsentAssumption DEF UndoBegin
<1>2. t \in ToUndo /\ ToUndo' = ToUndo \ {t}
  <2>1. ToUndo = {o \in Txns : att[o] # 0}
    BY Zenon, <1>1, AbsentAssumption DEF ToUndo
  <2>2. ToUndo' = {o \in Txns : att[o] # 0 /\ o # t}
    BY Zenon, <1>1 DEF ToUndo
  <2> QED
    BY Zenon, <1>1, <2>1, <2>2
<1> QED
  BY Zenon, <1>1, <1>2 DEF Advances

\* A round of UndoTxn or its return shortens the chain and leaves the rest.
LEMMA ChainAdvances ==
  ASSUME Bounds, UndoStep \/ UndoReturn
  PROVE  Advances
<1>1. /\ undoTxn # NoTxn /\ phase \in {"redo", "undo"} /\ undoLsn \in 1 .. Len(log)
      /\ phase' = phase /\ log' = log /\ redoLsn' = redoLsn
  BY ZenonT(30) DEF UndoStep, UndoReturn, live, Bounds
<1>2. ToRedo' = ToRedo
  BY Zenon, <1>1 DEF ToRedo
<1>3. 0 <= ChainLeft' /\ ChainLeft' < ChainLeft
  <2>1. CASE UndoStep
    <3>1. /\ log[undoLsn].type # "begin" /\ undoLsn' = log[undoLsn].prev /\ undoTxn' = undoTxn
      BY Zenon, <2>1 DEF UndoStep
    <3> QED
      BY <1>1, <3>1 DEF Bounds, ChainLeft
  <2>2. CASE UndoReturn
    BY <1>1, <2>2 DEF UndoReturn, ChainLeft
  <2> QED
    BY Zenon, <2>1, <2>2
<1>4. ToUndo' = ToUndo
  <2>1. CASE UndoStep
    BY Zenon, <2>1 DEF UndoStep, ToUndo
  <2>2. CASE UndoReturn
    <3>1. undoTxn \in Txns /\ att \in [Txns -> Nat]
      BY Zenon, <1>1 DEF Bounds, VarTypes
    <3>2. undoTxn' = NoTxn /\ att' = [att EXCEPT ![undoTxn] = 0]
      BY Zenon, <2>2 DEF UndoReturn
    <3> QED
      BY Zenon, <3>1, <3>2, AbsentAssumption DEF ToUndo
  <2> QED
    BY Zenon, <2>1, <2>2
<1> QED
  BY Zenon, <1>1, <1>2, <1>3, <1>4 DEF Advances

\* Every step of RedoPhase, UndoPhase and UndoTxn leaves less to do, so recovery
\* takes only finitely many steps between two crashes.
THEOREM RecoveryAdvancesHolds == Spec => RecoveryAdvances
<1>1. Bounds /\ Recover => Advances
  <2>1. RedoEnd \/ Done => Advances
    BY Zenon DEF RedoEnd, Done, Advances
  <2> QED
    BY Zenon, <2>1, RedoAdvances, UndoBeginAdvances, ChainAdvances DEF Recover
<1>2. RecoveryInv => [Recover => Advances]_vars
  BY Zenon, <1>1, RecoveryBounds
<1> QED
  BY <1>2, RecoveryInvariant, PTL DEF RecoveryAdvances

=============================================================================
