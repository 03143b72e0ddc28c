# Verification of HooDB

HooDB is a small replicated key-value store: an HTTP API over a service that
gives writes to a Raft log (`hashicorp/raft`), applies committed commands to a
Pebble store on every node, and reads from the local Pebble store.  This
directory holds TLA+ models of its code, the TLC configurations that check them
on small instances, and TLAPS proofs for every instance.

Paths are relative to the repository: `src/` is its root.

## 1. Inventory

| Component | State it keeps | Operations | Talks to |
|---|---|---|---|
| HTTP API, `api/http/handler.go` | none between requests | PutKey, BatchPut, DeleteKey, GetKey, ListKeys, AddNode, RemoveNode, RunBenchmark, health and status | calls the KV service; waits for a leader, answers redirects, retries writes |
| KV service front, `internal/service/kvservice.go` | `raftToHTTP`, fixed at start | Set, SetBatched, BatchSet, Delete, Get, ListKeys, AddNode, RemoveNode, Close | checks `IsLeader`, then the batcher or Raft |
| Write batcher, `internal/service/batcher.go` | `reqCh`, the batch in collection, `batchCh`, one `errCh` per request, `stopCh`, `stoppedCh` | Submit, run, executeBatch, Stop | goroutines of the callers, the loop, four executors and Close, all over channels; ApplyCommand of Raft |
| Replicated state machine, `kvservice.go` (FSM part) | the Pebble store | Apply, Snapshot, Persist, Release, Restore | called back by Raft on two goroutines |
| Pebble store, `internal/storage/pebble.go` | an LSM store written with NoSync | PutNoSync, PutBatch, DeleteNoSync, Get, ScanPrefix, ClearAll, NewSnapshot | the FSM writes, the readers read without a lock |
| Raft wrapper, `internal/raft/raft.go` | the Raft node, its BoltDB log and snapshot directory | NewRaftNode, Bootstrap, Apply, ApplyCommand, AddVoter, RemoveServer, WaitForLeader, Shutdown | Raft library |
| Raft library | log, term, leadership, membership | external | calls the FSM; answers futures |
| Configuration, main program, bench tools, web client, scripts | none that the store depends on at run time | load and validate, wire, measure, show | |

What is hard in them, and what makes each correct:

* **Write batcher.**  Nine channel operations in four kinds of goroutine, two
  `select`s that race with `stopCh`, and a loop that may execute a batch itself
  while it is being stopped.  Correct when a request is never lost or answered
  twice, every Submit returns, Stop returns with nothing running, and the
  grouping into batches cannot be noticed by a caller.
* **Replicated state machine.**  Apply does not sync, so a crash forgets a
  suffix of the writes; Persist reads while Apply writes; Restore clears and
  refills the store in several writes, any of which may be the last before a
  crash or may fail; snapshots and compaction decide what a restart can start
  from.  Correct when a replica that has caught up equals the log prefix it has
  applied.
* **Prefix scan.**  The upper bound of a prefix is numeric work on its last
  bytes, and a client walks pages while others write.  Correct when the pages
  together are sound and complete.
* **HTTP write path.**  Leadership is looked at by the handler, again by the
  service and again by Raft, and may change between two looks; errors are
  recognised by text; a failed write whose outcome is unknown is retried.
  Correct when an answer is never a lie, every request ends and a retry never
  undoes a later write.
* **Cluster.**  Reads are local, the Raft log is by default not synced, nodes
  come and go.  Correct when what was acknowledged stays and what may be read
  is what the documents promise.

`PROJECT.json` lists the components and, under `hazards`, every place in the
code that is exposed to one of these, with its line and the property for it.

## 2. Modules and their correspondence to the code

### WriteService and WriteBatcher

`WriteService.tla` is the promise: writes take effect in atomic groups, at most
once, after they were submitted; `ok` is returned only for a write in effect;
`failed` is ambiguous.

`WriteBatcher.tla` is `batcher.go` with `Close` of `kvservice.go`.

| Code | Model |
|---|---|
| a goroutine in `Submit` | `pc[r]`, `errCh[r]`; actions Submit, Enqueue, ReceiveAnswer, GiveUp |
| `run` | `runPc`, `batch`; TakeFirst, DrainOne, DrainDone, SendBatch, StopWaiting, ExecuteInline, InlineDone, CloseBatchCh, JoinExecutors |
| the executors, and `run` inside `executeBatch` | `exec[w]`; TakeBatch, ExitExecutor, ApplyCommits, ApplyRejected, ApplyAmbiguous, Reply |
| `Close` | `closePc`; CloseStopCh, StopReturns, ShutdownRaft, CloseStore |
| Raft | `applied`, `store`, `limbo`; LateCommit, LateDrop |

Each channel operation is one step, so every interleaving of them is explored.
A `select` with two ready cases is two enabled actions.  A closed channel is a
function of the program counter of the goroutine that closes it.  A request is
identified with the value it writes; the map that `executeBatch` builds keeps
the last writer of a key (`LastWriter`).  ApplyCommand has three outcomes: it
committed and applied, it failed without an entry, or it failed with an entry in
the log (`limbo`) that Raft may still commit or drop, whatever the caller was
told.  An error returned by the state machine for a committed entry is the
second half of the ambiguous outcome: the entry takes effect or not.

### Replica

`Replica.tla` is one node's state machine through crashes and restarts.
`log` is the committed log of the cluster, `received` what this node has of it,
`compacted` what it has removed; `store` is what Pebble reads return, `disk`
what a crash would leave (Pebble's WAL is a prefix of the writes, so `disk` is
some earlier version of `store`); `snaps` are the stored snapshots; `persist`
and `restore` are the calls in progress.  Persist has captured a Pebble snapshot,
so later Apply calls do not change what it writes.  Restore is one action per
store write: RestoreClear, one RestoreBatch per PutBatch, RestoreDone; a crash
fits between any two.  At start the newest snapshot is restored, or without a
snapshot the log is replayed from its first entry over the store that was left.
`FaultCases` gives the sets of I/O failures a run looks at; each behaviour meets
the failures of one of them (`faults`), and a property that does not survive a
kind of failure says so in its premise.  Without the premise it is the statement
of a run that expects a violation: `RestartsAnyway`, `LiveKeysKept`.

`mark` and `diskMark` are history variables: the highest entry that has ever
touched the store.  They are needed because a replay over a leftover store
passes through states that are *not* the state of any log prefix: a key of a
later entry is already there.  `Converged` therefore speaks of a replica that
has reached its mark, and `SnapshotsConsistent` of a snapshot with its mark; a
snapshot taken in the middle of such a replay is not exact at its index, and
heals when the entries after it are applied.

### PrefixScan

`PrefixScan.tla` is `ScanPrefix` and `prefixUpperBound` with the limit clamping
of the service and the handler, and a client that asks for page after page
while keys are written and deleted.  A key is a sequence of bytes `0 .. MaxByte`.
A page is one step because a Pebble iterator reads one consistent view.  The
store is finite (`Init` says so, which the proofs use); `Nil` is the `nil` of
`prefixUpperBound`, a prefix that nothing bounds from above.

### CommittedLog, WritePath and RaftCluster

`CommittedLog.tla` is the promise to the callers of the HTTP write path: one
growing sequence of committed entries, each of a request or of none (Raft makes
some for itself).  200 means that the request is in it and
enters it no more; 400, 401, 307 and 503 mean that it is not and never will be; after
500, or no answer, it may be or may still come; and no request is in it more
often than its handler tries it.

`RaftCluster.tla` is the cluster as `internal/raft/raft.go` uses it.  The Raft
library is external and appears as elections, AppendEntries, commitment,
configuration changes and futures, each one step; what is translated from the
repository is the start with Bootstrap, Close, the sync option, and the entries
that Apply, AddVoter and RemoveServer propose.  AppendEntries is one step
(`Replicate`), and its answer is counted at the moment of the commitment
(`Acknowledged`): a node counts for an entry it holds while it is still in the
leader's term.  A node that has moved to a later term may have dropped the entry
and got it back from a later leader, so it does not count; that its earlier
answer is then lost is a late commitment, which the model has anyway.

Neither an exit nor a crash empties a node's Pebble store, while Raft, without a
snapshot, begins to apply its log from the first entry again.  So `applied` goes back to
0 and `stored`, the entries the store has been given in all its runs, does not: an exit
leaves all of it, a crash the part up to some write (Pebble's writes are never
synced), and every entry applied is added behind it (`ApplyTo`).  What the last of
these writes leaves in a key is what a reader finds there.

`WritePath.tla` extends it with the handlers.  A request `r` is one goroutine of
the server of node `at[r]`, with `phase[r]` as its program counter and
`count[r]` for its failed attempts or ticks.

| Code | Model |
|---|---|
| the server takes a request; validation, authentication | Receive; BadInput |
| `if !h.kv.IsLeader()` | CheckLeader |
| the redirects; the wait of PutKey, its ticker, its client | RedirectPut, RedirectOther; Poll, ClientGone |
| `retryOnLeaderChange` | Retry, inside CheckWrite and AnswerWrite |
| `SetBatched`, `BatchSet`, `Delete` up to Raft | CheckWrite, ProposeWrite, WriteRejected |
| the future of Apply and the answer | Commit or LostAt in RaftCluster, then AnswerWrite |
| `AddNode`, `RemoveNode` | CheckChange, ProposeChange, ChangeRejected, AnswerChange |
| `NewKVService`, `Close`, the end of `main` | Start, Close, Exit |
| power loss of a machine | Crash, with the tail of the log that noSync leaves unsynced |
| `Get` on a node | Get, the last entry of `stored` that writes the key |

Each look at Raft is a step, so leadership may change between any two.  A request
may be one operation of several kinds (`opOf`); keys and values do not matter to
the properties, which are about the order and the number of commits.  A batch
of writes is one entry with one outcome, which is what `WriteBatcher` shows, so
here a write is an entry of its own.  `Close` stops the batcher, waits for it and
shuts Raft down; seen from a caller these are one step, because a Submit released
by the stop and one whose future is lost both end with 500.  A server takes
requests as soon as its node has started: that `NewKVService` first waits up to
30 s for a leader only delays it.

Two things are left out of the handlers.  `retryOnLeaderChange` sleeps between its
attempts (100 and 200 ms); here the next attempt comes at any time, also after the
500 ms a node must wait before it can lead again, which in the program takes a stall of the
goroutine.  The passing properties hold with more behaviours than the program has;
finding 4 says what it needs.  And Apply may end with the error of a Pebble store
that cannot be written, for an entry that is committed (`src/internal/raft/raft.go:150`):
the request is then answered 500, which CommittedLog allows, but the store lacks an
entry that `stored` says it was given.  `ReadsCommitted` is about stores that can
be written.

`committed` is a history variable, the longest log any leader has committed.
Under the mapping, `history` is the request of each of its entries (`None` for
those Raft makes for itself), `attempts` the tries of each handler, and `call` the
phase.

### MC modules

`MCWriteBatcher`, `MCReplica`, `MCPrefixScan` and `MCWritePath` give the
constants their small values; they define nothing else.

## 3. Runs

| Run | Shows | Bounds |
|---|---|---|
| `batcher_safety` | TypeOK, InOnePlace, QuietAfterStop, and that WriteBatcher implements WriteService | 3 requests, two of them on one key, 2 executors, maxBatch 2, reqCh 2, batchCh 2 |
| `batcher_liveness` | SubmitReturns, CloseReturns under FairSpec | 3 requests, 1 executor, batchCh 1: with one executor busy and batchCh full, `run` blocks in its send, which is the case Stop must break |
| `replica_safety` | TypeOK, Converged, SnapshotsConsistent, Recoverable, NothingLost | all logs of 3 commands over 2 keys (set, delete, batch), 2 snapshots kept, 1 trailing entry, restores in batches of 1; behaviours with failing Persist and failing Restore at start, with a failing Restore of the leader's snapshot, and with failing Persist, ClearAll, sink.Close and Restore at start |
| `replica_liveness` | CatchesUp under FairSpec | 2 commands, the unknown operation among them |
| `prefix_scan` | TypeOK, BoundsArePrefix, PagesSound, PagesComplete, ScanEnds | every subset of 5 keys around the byte boundary, the empty key included, 6 prefixes, limits below, at and above the maximum, 2 writes during a scan |
| `write_safety` | TypeOK, ReadsCommitted, AnsweredKept, CommittedKept (an action property), and that WritePath implements CommittedLog | 3 nodes, a PutKey to any of them, the removal of the bootstrap node sent to itself, 2 elections, 1 crash or shutdown, synced logs |
| `write_liveness` | RequestsEnd under FairSpec | 2 of PutKey, BatchPut, the addition of a third node to a cluster of 2 and the removal of the first, each sent to any node |
| `replica_clear_fails`, `replica_finalize_fails`, `replica_install_fails` | findings 1 to 3, each as a counterexample | as `replica_safety`, one fault each |
| `write_retry`, `write_nosync` | findings 4 and 5, each as a counterexample | 3 nodes, a PutKey and a DeleteKey without crashes, three attempts as in the program; one PutKey and one crash with noSync unset |

**Why the bounds are enough.**  The channels of the batcher matter when they are
empty, when they are full, and when a batch is cut by maxBatch; with three
requests and the capacities above each of these happens, and two batches with
the same key can be in two executors at once.  The theorems of section 5 remove
the bound for the safety part.  In Replica, three entries are the least with
which a snapshot can be older than the store, a second snapshot can retire the
first (Retain is 2 as in the program), and compaction can cut entries that a
restart would need; two keys are the least with which a Restore has a middle.
`MaxLog` and `MaxWrites` are the only counters of these modules bounded by a guard.

WritePath bounds terms (`MaxTerm`), logs, crashes with shutdowns (`MaxCrashes`),
requests (`MaxCalls`), and by `MaxEffort` the sum of the highest term, the
requests and the crashes: with 5, two requests meet one change of leader or one
crash, and one request both, which is where each look at Raft can be stale, an
entry of an old term is committed late, and a retry follows.  The first leader has term 2,
because Bootstrap gives term 1.  In the passing runs `maxRetries` is 2 instead of
the program's 3 and `leaderPolls` 1 or 2 instead of 5: with two the loops have a first
and a last pass.  The one crash or shutdown of `write_safety`
is enough for a node that replays its log over the store of an earlier run, with readers
on it who find a write it has not applied again.  A mixture that no prefix of the log
leaves takes three writes of two keys, which the run does not have; for any number of
writes `ReadsCommitted` is proved (`ReadsRight`, section 5).
`sentTo` lets the client of the removal in `write_safety` talk to
the leader that removes itself only; in `write_liveness` any leader may remove it.  `write_safety` and the two runs with findings use the symmetry
of the two nodes that do not bootstrap, which no operation names; `write_liveness`
uses none.

**Fairness.**  Batcher: every goroutine is scheduled (the Go scheduler), and
ApplyCommand returns, because enqueueing is bounded by `raftTimeout` and a leader
that cannot commit steps down and fails its futures.  Nothing obliges a client to
submit or the service to close.  Replica: the process is restarted, a Restore in
progress goes on, the leader sends what it has and Raft applies it; CatchesUp is
for a node that at some point stops crashing.  PrefixScan: the client asks for
the next page.  WritePath: the goroutines of the handlers run (tickers, retries
and answers included), and a leader with a proposal to finish commits something
or loses its lease and steps down (`Resolve`), since a leader without a majority
does the latter within LeaderLeaseTimeout.  Elections, replication, restarts and
clients are not fair: RequestsEnd holds although no leader may ever be found.

**Deadlock.**  TLC checks deadlock in the runs of Replica and PrefixScan and in
`batcher_safety`; the end of a run is the explicit action `Finished`.  In
`batcher_liveness` a stuck goroutine is a violation of SubmitReturns or
CloseReturns and is reported as such.  The runs of WritePath do not check it: a
cluster whose bounds are used up may have no leader and nothing to do.  A stuck
request is a violation of RequestsEnd.

## 4. Findings

1. `Restore` only logs a failing `ClearAll` (`src/internal/service/kvservice.go:358`)
   and writes the snapshot over the old contents, while its comment promises that
   the snapshot completely replaces the state machine.  Deleted keys come back.
   Run `replica_clear_fails`.
2. `Persist` closes the sink in a `defer` and drops the error
   (`src/internal/service/kvservice.go:541`).  A snapshot that could not be
   finalized is taken for stored (Raft closes the sink again, which returns nil
   the second time), the log is compacted, and after a restart the entries are
   in neither.  Run `replica_finalize_fails`.
3. A `Restore` of the leader's snapshot clears the live store first and may then
   fail (`src/internal/service/kvservice.go:358`); the node goes on serving and
   applying over an empty or half filled store.  Run `replica_install_fails`.

4. `retryOnLeaderChange` (`src/api/http/handler.go:133`) repeats a write whose
   attempt failed with "leadership lost", although its entry may be committed by
   the next leader.  If the node leads again before the attempts are used up, the write is
   committed twice, the second time after a write of another client that was
   committed behind the first and answered 200: a reader of the leader finds the value, then
   not, then again.  `docs/PERFORMANCE_ANALYSIS.md:417` promises linearizable reads and
   writes.  The attempts come about 0, 100 and 300 ms after the loss (line 134), and a
   node that lost its leadership waits at least 500 ms before it can be a candidate
   (`src/internal/raft/raft.go:55`), so in the program this needs the handler's
   goroutine to stall for 200 ms or more between two attempts.  Nothing in the code
   excludes that, but nothing else brings it about; the model has no clock.  Run
   `write_retry`.
5. The default of `noSync` (`src/internal/config/config.go:75`) leaves the Raft
   log unsynced: when one machine of the majority that acknowledged a write loses
   power and comes back without it, the cluster may elect a leader without it.
   `docs/PERFORMANCE_ANALYSIS.md:256` promises RPO = 0.  Run `write_nosync`;
   `write_safety`, with `noSync` false, shows that the write is then safe.

`NothingLost` shows the other side of findings 1 and 2: with these faults, and
with failing restores at start, keys may survive their deletion, but no live key
is lost or has a wrong value while the process runs.

Met while modelling, and too small for a run of their own:

* `docs/TEST_REPORT.md:26` says the handler waits for an election and then
  retries; PutKey waits and then answers 307 with the leader it found, which may
  be its own address.
* The comment at `src/api/http/handler.go:137` says Raft's timeouts are retried,
  but Raft's text is "timed out enqueuing operation", which does not match, so
  the one failure that is certain not to have been proposed is not retried.
* `docs/CLUSTER_SCALING.md:425` says that the leader cannot be removed; the code
  removes it, and it shuts down.  `write_safety` removes it.
* Reads on a follower may be stale, which `docs/PERFORMANCE_ANALYSIS.md:401` and
  `docs/TESTING.md:289` say.  A node that was restarted without a snapshot shows more than old
  states: it serves reads while it replays its log over the store of the run
  before.  After set k1=a, set k1=b, set k2=c and a restart, once the first entry is
  replayed, readers find k1=a and k2=c, which no prefix of the log leaves.
  `ReadsCommitted` is what remains: only committed writes, and in a key that the
  replayed part writes, what that part leaves.

## 5. Proofs

`WriteBatcher_proof.tla`, for any set of requests and keys, any finite set of
executors and any capacities, from `BatcherAssumption` alone:

* `TypeCorrect`: `Spec => []TypeOK`, the capacities of the channels included.
  TypeOK is made inductive by `NonEmpty`: no batch under way is empty, so that
  Reply has a first request.
* `FlowHolds`: `Spec => []IndInv`.  A request passes the stages reqCh, batch,
  batchCh, exec in ApplyCommand, limbo, applied.  `Flow` says that the stages
  are disjoint (`Apart`), that only submitted requests are in them, that the
  members of a stage that leave one by one do not overlap (`Distinct`), and that
  an answer nil is on its way only for applied requests (`Truthful`).  Each part
  needs the others: that a commit applies only new writes needs Apart and the
  disjointness of the executors' batches, which comes from that of batchCh,
  which comes from reqCh.  There is one lemma per action that moves requests.
* `Refinement`: `Spec => ImplementsService`.  ApplyCommits and LateCommit map to
  Apply of the batch's requests, ReceiveAnswer to ReturnOk or ReturnError, GiveUp
  to ReturnError, Submit to Invoke, everything else to a stutter.  The data part
  is `LastWriterWrites`: the value a batch leaves in a key is that of one of its
  writers, which needs that a bounded non-empty set of positions has a maximum.
* `Quiescence`: `Spec => []QuietAfterStop`, from the invariant `Shutdown`: an
  executor has left only if batchCh is closed and drained, run only if all
  executors have, Close goes on only after run.

`WriteBatcherPlaces_proof.tla`, from the same assumption:

* `OnePlace`: `Spec => []InOnePlace`, the requests that wait for the loop and
  those that are answered included.  Its invariant `FullInv` is IndInv and
  `Shutdown` with `PlaceInv`: the five stages (reqCh, the batch in collection,
  batchCh, the batches of the executors, errCh) are apart as sets, a batch names a
  request once, no two executors share one, and a waiting caller is in some stage.
  The places are counted only at the end.

`Replica_proof.tla`, from `ReplicaAssumption`: any commands, keys, retention,
trailing logs, batch sizes and any sets of failures.

* `TypeCorrect`: `Spec => []TypeOK`, the ranges of the indices and the number of
  stored snapshots included.  `SnapInv` has what that rests on: stored snapshots,
  and the one being written, have distinct indices, so that reaping by index keeps
  Retain of them, and no snapshot is ahead of the committed log.
* `CanRestart`: `Spec => []Recoverable`, from `RecInv`: what is compacted is
  below the newest stored snapshot, and so is the snapshot being restored.
* `RestoreComplete`: when ClearAll does not fail, a finished Restore has left
  exactly the data of its snapshot.  Its invariant `FillInv` says of a Restore
  half-way that the store has the snapshot's value of every key that is no longer
  to be written.
* `Convergence`, `SnapshotsRight`: from `DataInv`: the store of a running node and every
  snapshot, stored, being written or being restored, is `Consistent` with the log at
  its index and its mark: the keys the entries up to the index touch have the value
  these leave, and a key no entry up to the mark touches is absent.  For the keys
  in between nothing is said, and Apply of the next entry keeps it so; this is what
  makes a replay over a left-over store, and a snapshot taken in the middle of it,
  come out right.  Of a store at rest, and of the disk, only the second half holds.
* `Durability`: `Spec => []NothingLost`, from `LiveInv`: the keys the prefix
  leaves in place are right, which survives a failing ClearAll.

`PrefixScan_proof.tla`, for every alphabet, key space and finite store:

* `BoundsRight`: `Spec => []BoundsArePrefix`: `InBounds(k, p) <=> IsPrefix(p, k)`
  for every prefix of bytes and every key (`BoundsExact`), by the two cases of
  `prefixUpperBound`: a last byte below 0xff to raise, or none.  It rests on the
  byte order being total, transitive and irreflexive, where the first place at
  which two keys differ is a minimum (`MinExists` of `Extrema.tla`).
* `NothingFalse`, `NothingMissed`: `Spec => []PagesSound` and `[]PagesComplete`.
  `ScanInv` relates the cursor to the pages: every key returned is below the
  cursor, every key of `stable` that has the prefix has been returned or is not below
  the cursor, and the cursor is empty only before the first page or at the end.
  `SortedProperties` says that Sorted, defined by ranks, is the sorted sequence.

`RaftCluster_proof.tla`, `WritePath_proof.tla` and `WritePathLog_proof.tla`, from
the assumptions and `noSync = "false"`, the setting under which `docs/PERFORMANCE_ANALYSIS.md` could
promise what finding 5 refutes for the default:

* `RaftSafe`: `Spec => []RaftInv` (the lemmas on the steps of the cluster are in
  `RaftCluster_proof`, one per action).  `LogInv` is log matching and what a leader
  knows of its own term.  `ConfigInv` is about elections while the membership
  changes one node at a time: a node is *active* when a majority of its own
  configuration has no newer log; active nodes have overlapping configurations,
  and the majorities of an active node know the latest term.  Only active nodes
  can be elected or commit, and logs only become newer, so inactive ones never
  come back.  `CommitInv`: every active node has all that is committed.  Each part
  needs the others: that two configurations overlap needs that the change between
  them was certified by a majority of the one before (`ChangeCertified`, which
  is `Stable`, Raft's condition that the leader has committed in its term), and
  that needs that a leader's log has every committed change.
* `TypeCorrect`: the phases, counts and futures of the handlers agree with Raft's.
* `LogKeeps`: `Spec => CommittedKept`, `AnswersKept`: `Spec => []AnsweredKept`, from
  RaftInv; AnswersKept needs also that a future is answered nil only for a request
  that is in the committed log (`CallInv`).
* `ReadsRight`: `Spec => []ReadsCommitted`, from RaftInv and `StoreInv`: of what a store has been
  given, the last `applied[n]` entries are the first of the committed log, and those before
  them, of earlier runs, are committed too.  An exit or a crash keeps the second
  half and makes the first empty (`FilledAgain`); what Replicate and Commit apply
  is committed by then, which is `CommitInv` (`FilledOn`).  The last write of a key in the
  store is therefore the last of the replayed part, if that has one.
* `LogRefined`: `Spec => ImplementsLog`.  A Commit maps to Extend with the entries
  that are new in the committed log, or to a stutter; a lost leadership, a crash or
  an exit to ReturnError.  The invariant is `TryInv`, about the entries a request has
  in whatever log, committed or not.  A handler proposes in a term at most once,
  because it comes back only after the leadership was lost, and a new leadership is
  of a later term (`TermsRise`): so a request has at most one entry per attempt
  (`Used` counts them), and those of its last attempt are at one index.  When the
  future succeeds, that index is committed (`FinalAt`); every other entry of the
  request is of an earlier term, and a later commit could add it only behind one of
  a greater term, while the terms of a log never fall.  So an answered request takes effect no more.
  A refused one has no entry anywhere.

The first attempt at `RaftSafe` failed in Commit, and rightly: the model then
counted every copy of an entry, also at nodes already in a later term, and with
five nodes that allows a commitment which a leader of the later term does not
have.  No run has five nodes.  `Acknowledged` is the correction, and what Raft does.

`Extrema.tla` has the lemmas about least and greatest elements all of these use.

Only model-checked:

* Every liveness property (SubmitReturns, CloseReturns, CatchesUp, ScanEnds,
  RequestsEnd): liveness under fairness is outside what TLAPS proves.

## 6. Not modelled, and why

* The byte format of a snapshot and of a command, and the legacy JSON form:
  encodings, whose loss of bytes that are not UTF-8 is listed as a hazard;
  logging; routing, CORS and authentication (one refusal in WritePath); the
  validation of the configuration file.
* Which address a 307 carries: the map of Raft to HTTP addresses is fixed at
  start and what a client does with a wrong one is the client's.
* `Set`, and `Put`, `Delete`, `WriteBatch` and `Compact` of the Pebble store, and
  `Snapshot`, `VerifyLeader` and `Restore` of the Raft wrapper, have no caller in
  the service.  `RunBenchmark` submits to the batcher and counts.
* The Raft protocol itself is external; its steps in RaftCluster and its promises
  to the state machine in Replica (log order, one Apply at a time) are what the
  callers can see of it.  Votes, heartbeats and AppendEntries are not messages of
  their own: a lost or late one is a step that does not happen.
* Reads inside a running Restore, and a Pebble error inside Apply (the answer 500 for a
  committed entry included), are in the list of hazards without a property: no
  document says what must hold.  Reads are Get's, key by key; ListKeys over a store
  that changes is PrefixScan's subject.
* Benchmarks, the web client and the scripts hold no state of the system.

## 7. Plan

Done: WriteService and WriteBatcher with its refinement; Replica; PrefixScan;
CommittedLog, RaftCluster and WritePath with their refinement.  Every invariant,
action property and refinement of a passing run is a theorem.
Next:

1. The snapshot stream as encoder and decoder over a stream that may be cut.
