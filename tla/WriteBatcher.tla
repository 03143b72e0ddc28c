---------------------------- MODULE WriteBatcher ----------------------------
(***************************************************************************)
(* The write batcher of internal/service/batcher.go with the Close         *)
(* sequence of internal/service/kvservice.go: goroutines calling Submit,   *)
(* the collecting loop run, the executors it starts, and the goroutine     *)
(* that closes the service.  A channel is a sequence, closing it is part   *)
(* of the program counter of the goroutine that closes it, and every       *)
(* channel operation is a step of its own.                                 *)
(*                                                                         *)
(* A request is identified with the value it writes, so requests are       *)
(* distinct even when their keys are equal.                                *)
(***************************************************************************)
EXTENDS Naturals, Sequences, FiniteSets, Functions

CONSTANTS
  Requests,        \* the Submit calls
  Keys,
  keyOf,           \* [Requests -> Keys], the key each call writes
  NoValue,         \* content of a key never written
  Executors,       \* the executor goroutines; numExecutors of them
  RunLoop,         \* the goroutine of run, which may execute a batch itself
  maxBatch,        \* 200 in the program
  reqChFactor,     \* reqCh holds maxBatch*reqChFactor requests; 8 in the program
  batchChFactor    \* batchCh holds numExecutors*batchChFactor batches; 2 there

ASSUME BatcherAssumption ==
  /\ keyOf \in [Requests -> Keys]
  /\ NoValue \notin Requests
  /\ RunLoop \notin Executors
  /\ maxBatch \in Nat \ {0}
  /\ reqChFactor \in Nat \ {0}
  /\ batchChFactor \in Nat \ {0}
  /\ IsFiniteSet(Executors)

VARIABLES
  pc,        \* where each Submit call is
  errCh,     \* the one-place channel of each request
  reqCh,     \* queue of submitted requests
  runPc,     \* where run is
  batch,     \* the batch run is collecting
  batchCh,   \* queue of collected batches
  exec,      \* what each goroutine that calls executeBatch is doing
  closePc,   \* where KVService.Close is
  limbo,     \* batches whose Raft entry outlived the leadership that proposed it
  applied,   \* requests whose Raft entry has been committed and applied
  store      \* content of the replicated state machine

submitVars == <<pc, errCh>>
runVars    == <<runPc, batch>>
raftVars   == <<limbo, applied, store>>
vars == <<pc, errCh, reqCh, runPc, batch, batchCh, exec, closePc, limbo, applied, store>>

Workers == Executors \cup {RunLoop}

ReqChCap == maxBatch * reqChFactor
BatchChCap == Cardinality(Executors) * batchChFactor

Answers == {"none", "nil", "error"}
Batches == Seq(Requests)

\* Every variable has its type and no channel or batch exceeds its capacity.
TypeOK ==
  /\ pc \in [Requests -> {"idle", "sending", "waiting", "ok", "failed", "stopped"}]
  /\ errCh \in [Requests -> Answers]
  /\ reqCh \in Batches /\ Len(reqCh) <= ReqChCap
  /\ runPc \in {"first", "drain", "send", "inline", "closing", "joining", "exited"}
  /\ batch \in Batches /\ Len(batch) <= maxBatch
  /\ batchCh \in Seq(Batches) /\ Len(batchCh) <= BatchChCap
  /\ exec \in [Workers -> [at    : {"idle", "apply", "reply", "exited"},
                           batch : Batches,
                           err   : Answers]]
  /\ closePc \in {"open", "stopping", "stopped", "raftDown", "closed"}
  /\ limbo \in SUBSET Batches
  /\ applied \in SUBSET Requests
  /\ store \in [Keys -> Requests \cup {NoValue}]

\* The channels that are only ever closed.
StopChClosed == closePc # "open"
StoppedChClosed == runPc = "exited"

\* Mutant: run waits for its executors before it closes batchCh.
ClosedAfterWait == runPc = "exited"

BatchChClosed == runPc \in {"joining", "exited"}

RaftUp == closePc \in {"open", "stopping", "stopped"}

Idle == [at |-> "idle", batch |-> <<>>, err |-> "none"]

Init ==
  /\ pc = [r \in Requests |-> "idle"]
  /\ errCh = [r \in Requests |-> "none"]
  /\ reqCh = <<>>
  /\ runPc = "first"
  /\ batch = <<>>
  /\ batchCh = <<>>
  /\ exec = [w \in Workers |-> Idle]
  /\ closePc = "open"
  /\ limbo = {}
  /\ applied = {}
  /\ store = [k \in Keys |-> NoValue]

-----------------------------------------------------------------------------
(* Submit: hand the request over, then wait for its answer; closing stopCh  *)
(* ends either wait, and a select with both cases ready takes any of them.  *)

Submit(r) ==
  /\ pc[r] = "idle"
  /\ pc' = [pc EXCEPT ![r] = "sending"]
  /\ UNCHANGED <<errCh, reqCh, runVars, batchCh, exec, closePc, raftVars>>

Enqueue(r) ==
  /\ pc[r] = "sending"
  /\ Len(reqCh) < ReqChCap
  /\ reqCh' = Append(reqCh, r)
  /\ pc' = [pc EXCEPT ![r] = "waiting"]
  /\ UNCHANGED <<errCh, runVars, batchCh, exec, closePc, raftVars>>

ReceiveAnswer(r) ==
  /\ pc[r] = "waiting"
  /\ errCh[r] # "none"
  /\ pc' = [pc EXCEPT ![r] = IF errCh[r] = "nil" THEN "ok" ELSE "failed"]
  /\ errCh' = [errCh EXCEPT ![r] = "none"]
  /\ UNCHANGED <<reqCh, runVars, batchCh, exec, closePc, raftVars>>

\* Mutant: the send on reqCh does not select on stopCh.
GiveUpWaitingOnly(r) ==
  /\ pc[r] = "waiting"
  /\ StopChClosed
  /\ pc' = [pc EXCEPT ![r] = "stopped"]
  /\ UNCHANGED <<errCh, reqCh, runVars, batchCh, exec, closePc, raftVars>>

GiveUp(r) ==
  /\ pc[r] \in {"sending", "waiting"}
  /\ StopChClosed
  /\ pc' = [pc EXCEPT ![r] = "stopped"]
  /\ UNCHANGED <<errCh, reqCh, runVars, batchCh, exec, closePc, raftVars>>

-----------------------------------------------------------------------------
(* run: block for a first request, drain the channel up to maxBatch, hand   *)
(* the batch to an executor; on stop, execute a batch already collected,    *)
(* close batchCh and wait for the executors.                                *)

TakeFirst ==
  /\ runPc = "first"
  /\ reqCh # <<>>
  /\ batch' = <<Head(reqCh)>>
  /\ reqCh' = Tail(reqCh)
  /\ runPc' = "drain"
  /\ UNCHANGED <<submitVars, batchCh, exec, closePc, raftVars>>

StopWaiting ==
  /\ runPc = "first"
  /\ StopChClosed
  /\ runPc' = "closing"
  /\ UNCHANGED <<submitVars, reqCh, batch, batchCh, exec, closePc, raftVars>>

\* Mutant: the drain loop runs while len(batch) <= maxBatch.
DrainOneTooMany ==
  /\ runPc = "drain"
  /\ Len(batch) <= maxBatch
  /\ reqCh # <<>>
  /\ batch' = Append(batch, Head(reqCh))
  /\ reqCh' = Tail(reqCh)
  /\ UNCHANGED <<submitVars, runPc, batchCh, exec, closePc, raftVars>>

DrainOne ==
  /\ runPc = "drain"
  /\ Len(batch) < maxBatch
  /\ reqCh # <<>>
  /\ batch' = Append(batch, Head(reqCh))
  /\ reqCh' = Tail(reqCh)
  /\ UNCHANGED <<submitVars, runPc, batchCh, exec, closePc, raftVars>>

DrainDone ==
  /\ runPc = "drain"
  /\ Len(batch) >= maxBatch \/ reqCh = <<>>
  /\ runPc' = "send"
  /\ UNCHANGED <<submitVars, reqCh, batch, batchCh, exec, closePc, raftVars>>

SendBatch ==
  /\ runPc = "send"
  /\ Len(batchCh) < BatchChCap
  /\ batchCh' = Append(batchCh, batch)
  /\ batch' = <<>>
  /\ runPc' = "first"
  /\ UNCHANGED <<submitVars, reqCh, exec, closePc, raftVars>>

\* Mutant: stopped while it holds a batch, run returns without executing it.
DropBatchOnStop ==
  /\ runPc = "send"
  /\ StopChClosed
  /\ batch' = <<>>
  /\ runPc' = "closing"
  /\ UNCHANGED <<submitVars, reqCh, batchCh, exec, closePc, raftVars>>

ExecuteInline ==
  /\ runPc = "send"
  /\ StopChClosed
  /\ exec' = [exec EXCEPT ![RunLoop] = [at |-> "apply", batch |-> batch, err |-> "none"]]
  /\ batch' = <<>>
  /\ runPc' = "inline"
  /\ UNCHANGED <<submitVars, reqCh, batchCh, closePc, raftVars>>

InlineDone ==
  /\ runPc = "inline"
  /\ exec[RunLoop].at = "idle"
  /\ runPc' = "closing"
  /\ UNCHANGED <<submitVars, reqCh, batch, batchCh, exec, closePc, raftVars>>

CloseBatchCh ==
  /\ runPc = "closing"
  /\ runPc' = "joining"
  /\ UNCHANGED <<submitVars, reqCh, batch, batchCh, exec, closePc, raftVars>>

\* Mutant: run closes stoppedCh without execWg.Wait.
ExitWithoutJoin ==
  /\ runPc = "joining"
  /\ runPc' = "exited"
  /\ UNCHANGED <<submitVars, reqCh, batch, batchCh, exec, closePc, raftVars>>

JoinExecutors ==
  /\ runPc = "joining"
  /\ \A w \in Executors : exec[w].at = "exited"
  /\ runPc' = "exited"
  /\ UNCHANGED <<submitVars, reqCh, batch, batchCh, exec, closePc, raftVars>>

-----------------------------------------------------------------------------
(* The executors and executeBatch.                                          *)

TakeBatch(w) ==
  /\ w \in Executors
  /\ exec[w].at = "idle"
  /\ batchCh # <<>>
  /\ exec' = [exec EXCEPT ![w] = [at |-> "apply", batch |-> Head(batchCh), err |-> "none"]]
  /\ batchCh' = Tail(batchCh)
  /\ UNCHANGED <<submitVars, reqCh, runVars, closePc, raftVars>>

ExitExecutor(w) ==
  /\ w \in Executors
  /\ exec[w].at = "idle"
  /\ batchCh = <<>>
  /\ BatchChClosed
  /\ exec' = [exec EXCEPT ![w].at = "exited"]
  /\ UNCHANGED <<submitVars, reqCh, runVars, batchCh, closePc, raftVars>>

\* The map built by "for _, req := range batch { kvs[req.key] = req.value }":
\* the last request of the batch that writes the key decides.
LastWriter(b, k) ==
  b[CHOOSE i \in DOMAIN b :
      /\ keyOf[b[i]] = k
      /\ \A j \in DOMAIN b : keyOf[b[j]] = k => j <= i]

Written(b) == {keyOf[r] : r \in Range(b)}

\* The command of a batch applied to the state machine.
Updated(b) == [k \in Keys |-> IF k \in Written(b) THEN LastWriter(b, k) ELSE store[k]]

Commit(b) ==
  /\ applied' = applied \cup Range(b)
  /\ store' = Updated(b)

ApplyReturns(w, err) ==
  exec' = [exec EXCEPT ![w].at = "reply", ![w].err = err]

(* ApplyCommand returned nil: the entry is committed and applied. *)
ApplyCommits(w) ==
  /\ exec[w].at = "apply"
  /\ RaftUp
  /\ Commit(exec[w].batch)
  /\ ApplyReturns(w, "nil")
  /\ UNCHANGED <<submitVars, reqCh, runVars, batchCh, closePc, limbo>>

(* ApplyCommand failed before the entry entered the log: not the leader,   *)
(* the enqueue timed out, or Raft is shut down.                            *)
ApplyRejected(w) ==
  /\ exec[w].at = "apply"
  /\ ApplyReturns(w, "error")
  /\ UNCHANGED <<submitVars, reqCh, runVars, batchCh, closePc, raftVars>>

\* Mutant: an ambiguous failure is retried as if nothing had been proposed.
RetryAmbiguous(w) ==
  /\ exec[w].at = "apply"
  /\ RaftUp
  /\ exec[w].batch \notin limbo
  /\ limbo' = limbo \cup {exec[w].batch}
  /\ UNCHANGED <<submitVars, reqCh, runVars, batchCh, exec, closePc, applied, store>>

(* ApplyCommand failed with the entry already in the log: leadership was   *)
(* lost, Raft was shut down, or the state machine returned an error.       *)
ApplyAmbiguous(w) ==
  /\ exec[w].at = "apply"
  /\ RaftUp
  /\ limbo' = limbo \cup {exec[w].batch}
  /\ ApplyReturns(w, "error")
  /\ UNCHANGED <<submitVars, reqCh, runVars, batchCh, closePc, applied, store>>

(* The entry is committed after all, by this leader or a later one. *)
LateCommit(b) ==
  /\ b \in limbo
  /\ Commit(b)
  /\ limbo' = limbo \ {b}
  /\ UNCHANGED <<submitVars, reqCh, runVars, batchCh, exec, closePc>>

(* The entry is overwritten by a later leader. *)
LateDrop(b) ==
  /\ b \in limbo
  /\ limbo' = limbo \ {b}
  /\ UNCHANGED <<submitVars, reqCh, runVars, batchCh, exec, closePc, applied, store>>

(* "req.errCh <- err" for the next request of the batch; the channel has   *)
(* one place, so the send blocks if an answer is already there.            *)
Reply(w) ==
  /\ exec[w].at = "reply"
  /\ LET b == exec[w].batch
     IN  /\ errCh[Head(b)] = "none"
         /\ errCh' = [errCh EXCEPT ![Head(b)] = exec[w].err]
         /\ exec' = [exec EXCEPT ![w] = IF Len(b) = 1 THEN Idle
                                        ELSE [@ EXCEPT !.batch = Tail(b)]]
  /\ UNCHANGED <<pc, reqCh, runVars, batchCh, closePc, raftVars>>

-----------------------------------------------------------------------------
(* Close: stop the batcher and wait for it, shut Raft down, close the store. *)

CloseStopCh ==
  /\ closePc = "open"
  /\ closePc' = "stopping"
  /\ UNCHANGED <<submitVars, reqCh, runVars, batchCh, exec, raftVars>>

StopReturns ==
  /\ closePc = "stopping"
  /\ StoppedChClosed
  /\ closePc' = "stopped"
  /\ UNCHANGED <<submitVars, reqCh, runVars, batchCh, exec, raftVars>>

ShutdownRaft ==
  /\ closePc = "stopped"
  /\ closePc' = "raftDown"
  /\ UNCHANGED <<submitVars, reqCh, runVars, batchCh, exec, raftVars>>

CloseStore ==
  /\ closePc = "raftDown"
  /\ closePc' = "closed"
  /\ UNCHANGED <<submitVars, reqCh, runVars, batchCh, exec, raftVars>>

-----------------------------------------------------------------------------
SubmitStep(r) == Enqueue(r) \/ ReceiveAnswer(r) \/ GiveUp(r)

RunStep ==
  \/ TakeFirst \/ StopWaiting \/ DrainOne \/ DrainDone \/ SendBatch
  \/ ExecuteInline \/ InlineDone \/ CloseBatchCh \/ JoinExecutors

WorkerStep(w) ==
  \/ TakeBatch(w) \/ ExitExecutor(w)
  \/ ApplyCommits(w) \/ ApplyRejected(w) \/ ApplyAmbiguous(w)
  \/ Reply(w)

CloseStep == StopReturns \/ ShutdownRaft \/ CloseStore

(* The service is closed and every caller has its answer. *)
Finished ==
  /\ closePc = "closed"
  /\ \A r \in Requests : pc[r] \in {"ok", "failed", "stopped"}
  /\ UNCHANGED vars

Next ==
  \/ \E r \in Requests : Submit(r) \/ SubmitStep(r)
  \/ RunStep
  \/ \E w \in Workers : WorkerStep(w)
  \/ \E b \in limbo : LateCommit(b) \/ LateDrop(b)
  \/ CloseStopCh
  \/ CloseStep
  \/ Finished

(***************************************************************************)
(* Every goroutine is scheduled, and ApplyCommand returns: its enqueue is  *)
(* bounded by raftTimeout and a leader that cannot commit loses its lease. *)
(* Nothing obliges a client to submit, the service to be closed or an      *)
(* entry in limbo to be resolved.                                          *)
(***************************************************************************)
Fairness ==
  /\ \A r \in Requests : WF_vars(SubmitStep(r))
  /\ WF_vars(RunStep)
  /\ \A w \in Workers : WF_vars(WorkerStep(w))
  /\ WF_vars(CloseStep)

Spec == Init /\ [][Next]_vars

FairSpec == Spec /\ Fairness

-----------------------------------------------------------------------------
(* Properties.                                                              *)

At(s, r) == {i \in DOMAIN s : s[i] = r}

\* Every occurrence of the request between its submission and its answer.
Places(r) ==
  ({"reqCh"} \X At(reqCh, r)) \cup ({"batch"} \X At(batch, r))
  \cup (UNION {{<<"batchCh", c>>} \X At(batchCh[c], r) : c \in DOMAIN batchCh})
  \cup (UNION {{<<"exec", w>>} \X At(exec[w].batch, r) : w \in Workers})
  \cup (IF errCh[r] = "none" THEN {} ELSE {"errCh"})

(* Between Submit's send on reqCh and its return, the request is in exactly *)
(* one place of the pipeline, once: it cannot be lost on the way from one   *)
(* goroutine to the next (a waiting caller always has an answer to come),   *)
(* and it is not executed or answered twice (a second answer would block    *)
(* the executor for ever on the one-place errCh).                           *)
InOnePlace ==
  \A r \in Requests :
    /\ pc[r] = "waiting" => Cardinality(Places(r)) = 1
    /\ pc[r] = "stopped" => Cardinality(Places(r)) <= 1
    /\ pc[r] \notin {"waiting", "stopped"} => Places(r) = {}

(* Once Stop has returned to Close, no goroutine of the batcher is in       *)
(* ApplyCommand or about to answer and no collected batch is left: Raft is  *)
(* shut down and the store is closed with no write of the batcher running.  *)
QuietAfterStop ==
  closePc \in {"stopped", "raftDown", "closed"} =>
    /\ batch = <<>> /\ batchCh = <<>>
    /\ \A w \in Workers : exec[w].at \in {"idle", "exited"}

\* How a caller of Submit sees its write.
callState ==
  [r \in Requests |-> CASE pc[r] = "idle"                   -> "idle"
                        [] pc[r] \in {"sending", "waiting"} -> "pending"
                        [] pc[r] = "ok"                     -> "ok"
                        [] OTHER                            -> "failed"]

Service == INSTANCE WriteService WITH call <- callState

(* Batching is invisible: however the requests are grouped into batches and *)
(* the batches spread over the executors, each write takes effect at most   *)
(* once, inside its Submit call when that call returns nil, together with   *)
(* the other writes of its Raft entry, and each key of the entry ends with  *)
(* the value of one of its writers.                                         *)
ImplementsService == Service!Spec

(* Every Submit returns, also when Close runs at any point of it.           *)
SubmitReturns ==
  \A r \in Requests : pc[r] = "sending" ~> pc[r] \in {"ok", "failed", "stopped"}

(* Close ends: run leaves its loop and the executors leave theirs whatever  *)
(* they were blocked on when stopCh was closed.                             *)
CloseReturns == closePc = "stopping" ~> closePc = "closed"
=============================================================================
