------------------------------ MODULE Replica ------------------------------
(***************************************************************************)
(* One node's replica of the key-value state: the state machine that       *)
(* internal/service/kvservice.go gives to Raft (Apply, Snapshot, Persist,  *)
(* Restore) over the Pebble store of internal/storage/pebble.go, across    *)
(* snapshots, crashes and restarts.                                        *)
(*                                                                         *)
(* Raft is external.  It appears as the sequence log of committed commands *)
(* and as the calls it makes: Apply in log order, one at a time; Snapshot  *)
(* on the same goroutine, Persist on another; Restore when the leader      *)
(* sends its snapshot and when the node starts, newest snapshot first.     *)
(*                                                                         *)
(* The store is written with NoSync, so a crash leaves a prefix of the     *)
(* writes: disk is the version a crash would leave, and Flush moves it     *)
(* forward at any time.                                                    *)
(***************************************************************************)
EXTENDS Naturals, Sequences, FiniteSets, Functions

CONSTANTS
  Keys,
  Values,
  NoValue,       \* content of a key that is absent
  Commands,      \* the commands clients may have committed
  MaxLog,        \* bound on the length of the committed log
  Retain,        \* snapshots kept on disk, retainSnapshotCount
  TrailingLogs,  \* entries kept behind a snapshot when the log is compacted
  batchLimit,    \* keys Restore writes in one PutBatch
  FaultCases     \* sets of I/O failures; a behaviour meets those of one set

FaultKinds == {"clear",     \* ClearAll fails inside Restore
               "restore",   \* a read or a PutBatch fails inside Restore, at start
               "install",   \* the same when the leader has sent the snapshot
               "persist",   \* writing the snapshot fails inside Persist
               "finalize"}  \* closing the sink, Persist's last call, fails

ASSUME ReplicaAssumption ==
  /\ NoValue \notin Values
  /\ MaxLog \in Nat /\ TrailingLogs \in Nat
  /\ Retain \in Nat \ {0} /\ batchLimit \in Nat \ {0}
  /\ FaultCases # {} /\ \A F \in FaultCases : F \subseteq FaultKinds
  /\ \A c \in Commands :
       \/ c.op = "set" /\ c.key \in Keys /\ c.value \in Values
       \/ c.op = "batch_set" /\ c.batch \in UNION {[S -> Values] : S \in SUBSET Keys}
       \/ c.op = "delete" /\ c.key \in Keys
       \/ c.op = "unknown"

VARIABLES
  faults,     \* the I/O failures this behaviour may meet, one of FaultCases
  log,        \* the committed commands of the cluster
  received,   \* how many of them this node's own log has, or had before compaction
  compacted,  \* how many of them compaction has removed from the node's log
  mode,       \* "up", "restoring" (inside Restore) or "down"
  applied,    \* index of the last entry or snapshot given to the state machine
  store,      \* what Pebble reads return
  disk,       \* what Pebble holds after a crash
  snaps,      \* the snapshots in the snapshot store
  persist,    \* the snapshot Persist is writing, or none
  restore,    \* what Restore is doing
  mark,       \* history: no entry beyond this index has ever touched store
  diskMark    \* history: the same for disk

raftVars  == <<faults, log, received, compacted>>
pebbleVars == <<store, disk, mark, diskMark>>
vars == <<raftVars, mode, applied, store, disk, snaps, persist,
          restore, mark, diskMark>>

-----------------------------------------------------------------------------
(* Commands.                                                                *)

Contents == [Keys -> Values \cup {NoValue}]
Empty == [k \in Keys |-> NoValue]

\* The keys a command touches and what it leaves in each.
Touched(c) ==
  CASE c.op \in {"set", "delete"} -> {c.key}
    [] c.op = "batch_set"         -> DOMAIN c.batch
    [] OTHER                      -> {}

Written(c, k) ==
  CASE c.op = "set"       -> c.value
    [] c.op = "batch_set" -> c.batch[k]
    [] OTHER              -> NoValue

\* The switch of FSM.Apply.  An unknown operation is logged and skipped.
Effect(c, s) == [k \in Keys |-> IF k \in Touched(c) THEN Written(c, k) ELSE s[k]]

TouchedBy(n) == {k \in Keys : \E i \in 1 .. n : k \in Touched(log[i])}

LastTouch(n, k) ==
  CHOOSE i \in 1 .. n : /\ k \in Touched(log[i])
                        /\ \A j \in 1 .. n : k \in Touched(log[j]) => j <= i

(* The reference: the state after the first n committed commands. *)
StateAt(n) ==
  [k \in Keys |-> IF k \in TouchedBy(n) THEN Written(log[LastTouch(n, k)], k)
                  ELSE NoValue]

-----------------------------------------------------------------------------
None == [phase |-> "none"]

\* mark is history: no entry beyond it has touched data.
Snapshots == [index : Nat, data : Contents, mark : Nat]

Newest(S) == CHOOSE s \in S : \A t \in S : t.index <= s.index

NewestIndex == IF snaps = {} THEN 0 ELSE Newest(snaps).index

MaxOf(a, b) == IF a >= b THEN a ELSE b

\* Every variable has its type, indices are ordered, retention is respected.
TypeOK ==
  /\ faults \in FaultCases
  /\ log \in Seq(Commands)
  /\ received \in 0 .. Len(log)
  /\ compacted \in 0 .. received
  /\ mode \in {"up", "restoring", "down"}
  /\ applied \in 0 .. received
  /\ store \in Contents /\ disk \in Contents
  /\ snaps \in SUBSET Snapshots /\ Cardinality(snaps) <= Retain
  /\ persist \in {None} \cup [phase : {"write"}, snap : Snapshots]
  /\ restore \in {None} \cup [phase   : {"clear", "fill"},
                              snap    : Snapshots,
                              todo    : SUBSET Keys,
                              startup : BOOLEAN]
  /\ (mode = "restoring") <=> (restore # None)
  /\ mark \in 0 .. Len(log) /\ diskMark \in 0 .. Len(log)

Init ==
  /\ faults \in FaultCases
  /\ log = <<>> /\ received = 0 /\ compacted = 0
  /\ mode = "up" /\ applied = 0
  /\ store = Empty /\ disk = Empty
  /\ snaps = {} /\ persist = None /\ restore = None
  /\ mark = 0 /\ diskMark = 0

-----------------------------------------------------------------------------
(* The cluster commits a command; this node receives entries and applies    *)
(* them.                                                                    *)

Commit(c) ==
  /\ Len(log) < MaxLog
  /\ log' = Append(log, c)
  /\ UNCHANGED <<faults, received, compacted, mode, applied, pebbleVars, snaps, persist, restore>>

Receive ==
  /\ mode = "up"
  /\ received < Len(log)
  /\ received' = received + 1
  /\ UNCHANGED <<faults, log, compacted, mode, applied, pebbleVars, snaps, persist, restore>>

ApplyEntry ==
  /\ mode = "up"
  /\ applied < received
  /\ applied >= compacted
  /\ applied' = applied + 1
  /\ store' = Effect(log[applied + 1], store)
  /\ mark' = MaxOf(mark, applied + 1)
  /\ UNCHANGED <<raftVars, mode, disk, diskMark, snaps, persist, restore>>

\* Pebble's WAL reaches the disk.
Flush ==
  /\ mode # "down"
  /\ disk' = store /\ diskMark' = mark
  /\ <<disk, diskMark>>' # <<disk, diskMark>>
  /\ UNCHANGED <<raftVars, mode, applied, store, mark, snaps, persist, restore>>

-----------------------------------------------------------------------------
(* Snapshots.  Snapshot captures a Pebble snapshot between two Apply calls; *)
(* Persist writes it from another goroutine while Apply goes on.            *)

TakeSnapshot ==
  /\ mode = "up"
  /\ persist = None
  /\ applied > NewestIndex
  /\ persist' = [phase |-> "write", snap |-> [index |-> applied, data |-> store,
                                              mark |-> mark]]
  /\ UNCHANGED <<raftVars, mode, applied, pebbleVars, snaps, restore>>

\* Mutant: one snapshot too many is kept.
RetainedOneMore(S) == {s \in S : Cardinality({t \in S : t.index > s.index}) <= Retain}

\* Raft keeps the newest Retain snapshots and TrailingLogs entries behind one.
Retained(S) == {s \in S : Cardinality({t \in S : t.index > s.index}) < Retain}

CompactTo(n) ==
  compacted' = MaxOf(compacted,
                     IF received < TrailingLogs THEN 0
                     ELSE IF n <= received - TrailingLogs THEN n
                     ELSE received - TrailingLogs)

\* Mutant: the iterator reads the live store instead of the Pebble snapshot.
PersistLive ==
  /\ persist # None
  /\ snaps' = Retained(snaps \cup {[persist.snap EXCEPT !.data = store]})
  /\ CompactTo(persist.snap.index)
  /\ persist' = None
  /\ UNCHANGED <<faults, log, received, mode, applied, pebbleVars, restore>>

\* Mutant: Persist ends without a stored snapshot but returns nil.
PersistLies ==
  /\ persist # None
  /\ CompactTo(persist.snap.index)
  /\ persist' = None
  /\ UNCHANGED <<faults, log, received, mode, applied, pebbleVars, snaps, restore>>

PersistDone ==
  /\ persist # None
  /\ snaps' = Retained(snaps \cup {persist.snap})
  /\ CompactTo(persist.snap.index)
  /\ persist' = None
  /\ UNCHANGED <<faults, log, received, mode, applied, pebbleVars, restore>>

\* Persist cancels the sink and returns the error; Raft keeps its log.
PersistFails ==
  /\ "persist" \in faults
  /\ persist # None
  /\ persist' = None
  /\ UNCHANGED <<raftVars, mode, applied, pebbleVars, snaps, restore>>

(* The deferred sink.Close fails to finalize the snapshot; its error is     *)
(* discarded, Raft's own Close of the closed sink returns nil, and Raft     *)
(* compacts the log as if the snapshot were stored.                         *)
FinalizeFails ==
  /\ "finalize" \in faults
  /\ persist # None
  /\ CompactTo(persist.snap.index)
  /\ persist' = None
  /\ UNCHANGED <<faults, log, received, mode, applied, pebbleVars, snaps, restore>>

-----------------------------------------------------------------------------
(* Restore: clear the store, then write the snapshot in batches.            *)

Restoring(s, startup) ==
  [phase |-> "clear", snap |-> s, startup |-> startup,
   todo |-> {k \in Keys : s.data[k] # NoValue}]

(* The leader no longer has the entries this node lacks and sends a         *)
(* snapshot, which Raft stores before it calls Restore.  The leader may     *)
(* have taken it while it replayed its log over a store that had seen m     *)
(* entries, as this node may.  Sent again after a failure it is the same    *)
(* snapshot.                                                                *)
InstallSnapshot(n, m) ==
  /\ mode = "up"
  /\ n \in (received + 1) .. Len(log)
  /\ m \in n .. Len(log)
  /\ LET data == [k \in Keys |-> IF k \in TouchedBy(n) THEN StateAt(n)[k]
                                 ELSE StateAt(m)[k]]
         s    == [index |-> n, data |-> data, mark |-> m]
     IN  /\ \A t \in snaps : t.index = n => t = s
         /\ snaps' = Retained(snaps \cup {s})
         /\ restore' = Restoring(s, FALSE)
  /\ mode' = "restoring"
  /\ UNCHANGED <<raftVars, applied, pebbleVars, persist>>

\* Mutant: Restore writes the snapshot over the old contents.
RestoreOverOld ==
  /\ restore # None /\ restore.phase = "clear"
  /\ mark' = restore.snap.mark
  /\ restore' = [restore EXCEPT !.phase = "fill"]
  /\ UNCHANGED <<raftVars, mode, applied, store, disk, diskMark, snaps, persist>>

RestoreClear ==
  /\ restore # None /\ restore.phase = "clear"
  /\ store' = Empty
  /\ mark' = restore.snap.mark
  /\ restore' = [restore EXCEPT !.phase = "fill"]
  /\ UNCHANGED <<raftVars, mode, applied, disk, diskMark, snaps, persist>>

\* A failed ClearAll is only logged.
RestoreClearFails ==
  /\ "clear" \in faults
  /\ restore # None /\ restore.phase = "clear"
  /\ mark' = MaxOf(mark, restore.snap.mark)
  /\ restore' = [restore EXCEPT !.phase = "fill"]
  /\ UNCHANGED <<raftVars, mode, applied, store, disk, diskMark, snaps, persist>>

\* Mutant: Restore ends after its first batch.
RestoreFirstBatch(S) ==
  /\ restore # None /\ restore.phase = "fill"
  /\ S \subseteq restore.todo /\ S # {}
  /\ Cardinality(S) = batchLimit \/ (S = restore.todo /\ Cardinality(S) < batchLimit)
  /\ store' = [k \in Keys |-> IF k \in S THEN restore.snap.data[k] ELSE store[k]]
  /\ restore' = [restore EXCEPT !.todo = {}]
  /\ UNCHANGED <<raftVars, mode, applied, disk, mark, diskMark, snaps, persist>>

\* One PutBatch: batchLimit keys, or what is left of them.
RestoreBatch(S) ==
  /\ restore # None /\ restore.phase = "fill"
  /\ S \subseteq restore.todo /\ S # {}
  /\ Cardinality(S) = batchLimit \/ (S = restore.todo /\ Cardinality(S) < batchLimit)
  /\ store' = [k \in Keys |-> IF k \in S THEN restore.snap.data[k] ELSE store[k]]
  /\ restore' = [restore EXCEPT !.todo = @ \ S]
  /\ UNCHANGED <<raftVars, mode, applied, disk, mark, diskMark, snaps, persist>>

RestoreDone ==
  /\ restore # None /\ restore.phase = "fill" /\ restore.todo = {}
  /\ mode' = "up" /\ restore' = None
  /\ applied' = restore.snap.index
  /\ received' = MaxOf(received, restore.snap.index)
  /\ compacted' = IF received < restore.snap.index THEN restore.snap.index
                  ELSE compacted
  /\ UNCHANGED <<faults, log, pebbleVars, snaps, persist>>

(* Restore returns an error.  With the leader's snapshot, Raft goes on with *)
(* the state machine as Restore left it.                                    *)
InstallFails ==
  /\ "install" \in faults
  /\ restore # None /\ ~restore.startup
  /\ mode' = "up" /\ restore' = None
  /\ UNCHANGED <<raftVars, applied, pebbleVars, snaps, persist>>

(* At start, Raft tries the next older snapshot; without one NewKVService   *)
(* fails and the process exits.                                             *)
StartupRestoreFails ==
  /\ "restore" \in faults
  /\ restore # None /\ restore.startup
  /\ LET older == {s \in snaps : s.index < restore.snap.index}
     IN  \/ /\ older # {}
            /\ restore' = Restoring(Newest(older), TRUE)
            /\ UNCHANGED <<mode, store, mark>>
         \/ /\ older = {}
            /\ mode' = "down" /\ restore' = None
            /\ store' = disk /\ mark' = diskMark
  /\ UNCHANGED <<raftVars, applied, disk, diskMark, snaps, persist>>

-----------------------------------------------------------------------------
(* Crash and restart.                                                       *)

\* BoltDB is not synced either: the tail of the node's log may be lost.
Crash(n) ==
  /\ mode # "down"
  /\ n \in compacted .. received
  /\ mode' = "down" /\ received' = n
  /\ applied' = 0
  /\ store' = disk /\ mark' = diskMark
  /\ persist' = None /\ restore' = None
  /\ UNCHANGED <<faults, log, compacted, disk, diskMark, snaps>>

(* NewKVService: the store is opened with what the crash left; Raft restores *)
(* the newest snapshot, or without any replays its log from the first entry. *)
Start ==
  /\ mode = "down"
  /\ IF snaps = {}
     THEN mode' = "up" /\ UNCHANGED restore
     ELSE mode' = "restoring" /\ restore' = Restoring(Newest(snaps), TRUE)
  /\ UNCHANGED <<raftVars, applied, pebbleVars, snaps, persist>>

-----------------------------------------------------------------------------
RestoreStep ==
  \/ RestoreClear \/ (\E S \in SUBSET Keys : RestoreBatch(S)) \/ RestoreDone

Next ==
  \/ \E c \in Commands : Commit(c)
  \/ Receive \/ ApplyEntry \/ Flush
  \/ TakeSnapshot \/ PersistDone \/ PersistFails \/ FinalizeFails
  \/ \E n, m \in 1 .. MaxLog : InstallSnapshot(n, m)
  \/ RestoreStep
  \/ RestoreClearFails \/ InstallFails \/ StartupRestoreFails
  \/ \E n \in 0 .. MaxLog : Crash(n)
  \/ Start

Spec == Init /\ [][Next]_vars

(***************************************************************************)
(* The node is restarted, a running Restore goes on, the leader sends the  *)
(* entries it has and Raft applies what is committed.                      *)
(***************************************************************************)
Fairness ==
  /\ WF_vars(Start) /\ WF_vars(RestoreStep)
  /\ WF_vars(Receive) /\ WF_vars(ApplyEntry)

FairSpec == Spec /\ Fairness

-----------------------------------------------------------------------------
(* Properties.                                                              *)

(* A state that has applied n entries and seen none beyond m: the keys      *)
(* those n entries touch have the value the last of them left, and a key    *)
(* none of the m entries touches is absent.                                 *)
Consistent(s, n, m) ==
  \A k \in Keys :
    /\ k \in TouchedBy(n) => s[k] = StateAt(n)[k]
    /\ k \notin TouchedBy(m) => s[k] = NoValue

(* A running replica that has caught up with whatever an earlier life left  *)
(* in its store is the state of the log prefix it has applied, whatever the *)
(* crashes, partial restores and snapshots it went through.  Not so when    *)
(* ClearAll fails or the leader's snapshot is half restored: see            *)
(* RestoreReplaces and NothingLost.                                         *)
Converged ==
  faults \cap {"clear", "install"} = {} =>
    (mode = "up" /\ applied >= mark => store = StateAt(applied))

(* Every stored snapshot has the effect of all entries up to its index,     *)
(* although Persist runs while Apply goes on; an entry beyond the index     *)
(* shows in it only on keys the prefix does not touch.                      *)
SnapshotsConsistent ==
  faults \cap {"clear", "install"} = {} =>
    \A s \in snaps : Consistent(s.data, s.index, s.mark)

(* What compaction has removed from the log is in a stored snapshot, so the *)
(* node can always restart; unless the sink could not be closed, see        *)
(* RestartsAnyway.                                                          *)
Recoverable == "finalize" \notin faults => compacted <= NewestIndex

(* docs/TEST_REPORT.md:246: after its restart a follower is in sync.        *)
RestartsAnyway == compacted <= NewestIndex

(* The keys the first n entries leave in place have the value they leave.   *)
LiveKeysRight(s, n) ==
  \A k \in Keys : StateAt(n)[k] # NoValue => s[k] = StateAt(n)[k]

(* docs/TEST_REPORT.md:243: the data is complete after a recovery.          *)
LiveKeysKept ==
  /\ mode = "up" => LiveKeysRight(store, applied)
  /\ \A s \in snaps : LiveKeysRight(s.data, s.index)

(* No key the applied prefix leaves in place is missing or has another      *)
(* value, in the replica or in a snapshot, even when ClearAll fails, when a *)
(* snapshot is not finalized and when a start falls back to an older one;   *)
(* only a failed Restore of the leader's snapshot breaks it.                *)
NothingLost == "install" \notin faults => LiveKeysKept

(* The comment of Restore: clearing the store first makes the snapshot      *)
(* replace the state machine completely.                                    *)
RestoreReplaces ==
  restore # None /\ restore.phase = "fill" /\ restore.todo = {} =>
    store = restore.snap.data

(* A node that stops crashing ends up with the state of the whole log.      *)
CatchesUp ==
  <>[](mode # "down") =>
  <>[](mode = "up" /\ applied = Len(log) /\ store = StateAt(Len(log)))
=============================================================================
