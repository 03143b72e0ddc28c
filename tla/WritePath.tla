----------------------------- MODULE WritePath -----------------------------
(***************************************************************************)
(* The requests that change the state of a HooDB cluster, from the HTTP    *)
(* handlers of api/http/handler.go (PutKey, BatchPut, DeleteKey, AddNode,  *)
(* RemoveNode) through KVService and RaftNode to the log of a cluster      *)
(* whose nodes crash, restart and change leaders (RaftCluster).            *)
(*                                                                         *)
(* A request runs on the goroutine of one node's HTTP server.  Each of its *)
(* looks at Raft (State, LeaderWithID, Apply, the future) is a step: the   *)
(* leader may have changed since the one before.                           *)
(***************************************************************************)
EXTENDS RaftCluster

CONSTANTS
  maxRetries,    \* attempts of retryOnLeaderChange, 3
  leaderPolls,   \* ticks PutKey waits for a leader, 5
  sentTo,        \* the nodes the client of each request may send it to
  MaxCalls,      \* bound on the requests sent
  MaxEffort      \* joint bound on terms, requests and crashes

ASSUME WritePathAssumption ==
  /\ maxRetries \in Nat \ {0}
  /\ leaderPolls \in Nat \ {0}
  /\ sentTo \in [Requests -> SUBSET Nodes]
  /\ {MaxCalls, MaxEffort} \subseteq Nat

VARIABLES
  phase,     \* where each request is
  count      \* attempts of the write that failed, or ticks PutKey has waited

callVars == <<phase, count>>
vars == <<raftVars, callVars>>

\* What a step of a handler leaves to Raft.
quiet == <<nodeVars, crashes, committed>>

Answers == {"ok",        \* 200
            "refused",   \* 400, 401, 307 or 503: nothing was proposed
            "error"}     \* 500, or the client or the node went away
Phases == {"idle", "received", "redirect", "waiting", "checking", "proposing",
           "pending"} \cup Answers

TypeOK ==
  /\ RaftTypeOK
  /\ phase \in [Requests -> Phases]
  /\ \A r \in Requests :
       /\ phase[r] = "pending" <=> future[r] # "none"
       /\ phase[r] \in {"idle"} \cup Answers <=> at[r] = None
       /\ count[r] \in 0 .. (IF phase[r] = "waiting" THEN leaderPolls ELSE maxRetries) - 1
       /\ opOf[r] \notin Writes => count[r] = 0

Init ==
  /\ RaftInit
  /\ phase = [r \in Requests |-> "idle"]
  /\ count = [r \in Requests |-> 0]

\* Request r goes on at p with counter c; an answer ends it.
Goto(r, p, c) ==
  /\ phase' = [phase EXCEPT ![r] = p]
  /\ count' = [count EXCEPT ![r] = IF p \in Answers THEN 0 ELSE c]
  /\ at' = [at EXCEPT ![r] = IF p \in Answers THEN None ELSE @]

Calls  == Cardinality({r \in Requests : phase[r] # "idle"})
Effort == Max({term[n] : n \in Nodes}) + Calls + crashes

-----------------------------------------------------------------------------
(* The handler before the write.                                            *)

\* The HTTP server runs while the process does, even after Raft has shut down.
Receive(r, n) ==
  /\ phase[r] = "idle"
  /\ role[n] # "down" /\ n \in sentTo[r]
  /\ Calls < MaxCalls /\ Effort < MaxEffort
  /\ phase' = [phase EXCEPT ![r] = "received"]
  /\ at' = [at EXCEPT ![r] = n]
  /\ UNCHANGED <<quiet, future, count>>

\* A wrong key, a key, value or batch beyond its limit, no JSON: 400 or 401.
BadInput(r) ==
  /\ phase[r] = "received"
  /\ Goto(r, "refused", 0)
  /\ UNCHANGED <<quiet, future>>

IsLeader(n) == role[n] = "leader"

CheckLeader(r) ==
  /\ phase[r] = "received"
  /\ Goto(r, IF IsLeader(at[r]) THEN "checking" ELSE "redirect", 0)
  /\ UNCHANGED <<quiet, future>>

\* PutKey off the leader: 307 with the leader this node knows of, or a wait.
RedirectPut(r) ==
  /\ phase[r] = "redirect" /\ opOf[r] = "put"
  /\ Goto(r, IF known[at[r]] = None THEN "waiting" ELSE "refused", 0)
  /\ UNCHANGED <<quiet, future>>

\* The other handlers answer 307 at once, without an address if need be.
RedirectOther(r) ==
  /\ phase[r] = "redirect" /\ opOf[r] # "put"
  /\ Goto(r, "refused", 0)
  /\ UNCHANGED <<quiet, future>>

\* Mutant: the loop does not count its ticks.
PollForever(r) ==
  /\ phase[r] = "waiting"
  /\ known[at[r]] # None
  /\ Goto(r, "refused", 0)
  /\ UNCHANGED <<quiet, future>>

\* A tick of PutKey's wait: 307 when a leader is known, 503 after the last one.
Poll(r) ==
  /\ phase[r] = "waiting"
  /\ LET found == known[at[r]] # None
         last  == count[r] + 1 = leaderPolls
     IN  Goto(r, IF found \/ last THEN "refused" ELSE "waiting", count[r] + 1)
  /\ UNCHANGED <<quiet, future>>

ClientGone(r) ==
  /\ phase[r] = "waiting"
  /\ Goto(r, "error", 0)
  /\ UNCHANGED <<quiet, future>>

-----------------------------------------------------------------------------
(* Writes, with retryOnLeaderChange around each.                            *)

\* Mutant: one attempt more than maxRetries.
RetryOnceMore(r) ==
  IF count[r] = maxRetries THEN Goto(r, "error", 0)
                           ELSE Goto(r, "checking", count[r] + 1)

(* retryOnLeaderChange sees "not leader" or "leadership lost".  Its sleeps,  *)
(* 100 and 200 ms, are left out: an attempt may come at any time after the  *)
(* one before, also after the HeartbeatTimeout of 500 ms that the node must *)
(* wait before it can lead again.  That allows more than the code does      *)
(* unless the goroutine stalls.                                             *)
Retry(r) ==
  IF count[r] + 1 = maxRetries THEN Goto(r, "error", 0)
                               ELSE Goto(r, "checking", count[r] + 1)

\* SetBatched, BatchSet and Delete check the leader again.
CheckWrite(r) ==
  /\ phase[r] = "checking" /\ opOf[r] \in Writes
  /\ IF IsLeader(at[r]) THEN Goto(r, "proposing", count[r]) ELSE Retry(r)
  /\ UNCHANGED <<quiet, future>>

ProposeWrite(r) ==
  /\ phase[r] = "proposing" /\ opOf[r] \in Writes
  /\ AppendWrite(at[r], r)
  /\ Goto(r, "pending", count[r])

(* Raft refuses: "node is not the leader" and "timed out enqueuing          *)
(* operation" contain none of the texts retryOnLeaderChange looks for, so   *)
(* they end the request.                                                    *)
WriteRejected(r) ==
  /\ phase[r] = "proposing" /\ opOf[r] \in Writes
  /\ Goto(r, "error", 0)
  /\ UNCHANGED <<quiet, future>>

\* Mutant: a lost leadership is answered with a redirect.
AnswerRedirect(r) ==
  /\ phase[r] = "pending" /\ opOf[r] \in Writes
  /\ future[r] # "pending"
  /\ future' = [future EXCEPT ![r] = "none"]
  /\ Goto(r, IF future[r] = "nil" THEN "ok" ELSE "refused", 0)
  /\ UNCHANGED quiet

\* Mutant: the error of the future is not looked at.
AnswerUnchecked(r) ==
  /\ phase[r] = "pending" /\ opOf[r] \in Writes
  /\ future[r] # "pending"
  /\ future' = [future EXCEPT ![r] = "none"]
  /\ Goto(r, "ok", 0)
  /\ UNCHANGED quiet

(* The future of the proposal ends: 200, or "leadership lost".  The error    *)
(* of a Pebble store that cannot be written, which Raft returns with a      *)
(* committed entry, is left out, with all that follows from it.             *)
AnswerWrite(r) ==
  /\ phase[r] = "pending" /\ opOf[r] \in Writes
  /\ future[r] # "pending"
  /\ future' = [future EXCEPT ![r] = "none"]
  /\ IF future[r] = "nil" THEN Goto(r, "ok", 0) ELSE Retry(r)
  /\ UNCHANGED quiet

-----------------------------------------------------------------------------
(* Changes of the membership: AddNode and RemoveNode are not retried.       *)

CheckChange(r) ==
  /\ phase[r] = "checking" /\ opOf[r] \notin Writes
  /\ Goto(r, IF IsLeader(at[r]) THEN "proposing" ELSE "error", 0)
  /\ UNCHANGED <<quiet, future>>

\* AddVoter and RemoveServer wait without a timeout until Raft takes them.
ProposeChange(r) ==
  /\ phase[r] = "proposing" /\ opOf[r] \notin Writes
  /\ AppendChange(at[r], r)
  /\ Goto(r, "pending", 0)

\* The node leads no more, or the change would leave no voter.
ChangeRejected(r) ==
  /\ phase[r] = "proposing" /\ opOf[r] \notin Writes
  /\ ~IsLeader(at[r]) \/ Changed(Servers(log[at[r]]), r) = {}
  /\ Goto(r, "error", 0)
  /\ UNCHANGED <<quiet, future>>

AnswerChange(r) ==
  /\ phase[r] = "pending" /\ opOf[r] \notin Writes
  /\ future[r] # "pending"
  /\ future' = [future EXCEPT ![r] = "none"]
  /\ Goto(r, IF future[r] = "nil" THEN "ok" ELSE "error", 0)
  /\ UNCHANGED quiet

-----------------------------------------------------------------------------
\* The requests a process is serving end with it.
GoneWith(n) ==
  /\ phase' = [r \in Requests |-> IF at[r] = n THEN "error" ELSE phase[r]]
  /\ count' = [r \in Requests |-> IF at[r] = n THEN 0 ELSE count[r]]

Crash(n, k, t) == CrashRaft(n, k, t) /\ GoneWith(n) /\ Effort < MaxEffort

Exit(n) == ExitRaft(n) /\ GoneWith(n)

HandlerStep(r) ==
  \/ CheckLeader(r) \/ RedirectPut(r) \/ Poll(r) \/ RedirectOther(r)
  \/ CheckWrite(r) \/ ProposeWrite(r) \/ WriteRejected(r) \/ AnswerWrite(r)
  \/ CheckChange(r) \/ ProposeChange(r) \/ ChangeRejected(r) \/ AnswerChange(r)

RaftStep ==
  \/ \E n \in Nodes : Start(n) \/ StepDown(n) \/ LoseLeader(n)
  \/ \E n \in Nodes : Close(n) /\ Effort < MaxEffort
  \/ \E n \in Nodes, Q \in SUBSET Nodes : Elect(n, Q) /\ Effort' <= MaxEffort
  \/ \E l, f \in Nodes : Replicate(l, f)
  \/ \E l \in Nodes, k \in 1 .. MaxLog : Commit(l, k)

Next ==
  \/ UNCHANGED callVars /\ RaftStep
  \/ \E r \in Requests, n \in Nodes : Receive(r, n)
  \/ \E r \in Requests : BadInput(r) \/ ClientGone(r) \/ HandlerStep(r)
  \/ \E n \in Nodes : Exit(n)
  \/ \E n \in Nodes, k \in 0 .. MaxLog, t \in 0 .. MaxTerm : Crash(n, k, t)

Spec == Init /\ [][Next]_vars

-----------------------------------------------------------------------------
(* Properties.                                                              *)

CommittedRequests == [i \in DOMAIN committed |-> committed[i].req]

callState ==
  [r \in Requests |-> IF phase[r] \in {"idle"} \cup Answers THEN phase[r] ELSE "open"]

Log == INSTANCE CommittedLog WITH
  history   <- CommittedRequests,
  NoRequest <- None,
  attempts  <- [r \in Requests |-> IF opOf[r] \in Writes THEN maxRetries ELSE 1],
  call      <- callState

ImplementsLog == Log!Spec

\* The last entry of s that writes a key, given the requests X that write it.
Newest(s, X) ==
  LET W == {i \in DOMAIN s : s[i].req \in X}
  IN  {s[i] : i \in {j \in W : \A h \in W : h <= j}}

(* KVService.Get on node n, of the key that the requests X write: whatever  *)
(* the Pebble store has, of this run or of one before it.                   *)
Get(n, X) == Newest(stored[n], X)

(* A reader never sees a write that the cluster does not have for good, on  *)
(* any node, also while Raft replays the log over the store of an earlier   *)
(* run; and of a key that the replayed part of the log writes he sees what  *)
(* that part of the committed log leaves in it.  Only keys that it does not *)
(* write yet show a later state, so a node that has replayed all it had     *)
(* shows a prefix of the committed log.                                     *)
ReadsCommitted ==
  \A n \in Nodes, X \in SUBSET Requests :
    LET replayed == Newest(SubSeq(committed, 1, applied[n]), X)
    IN  /\ applied[n] <= Len(committed)
        /\ Get(n, X) \subseteq ToSet(committed)
        /\ replayed # {} => Get(n, X) = replayed

(* Nothing that was committed is taken back or replaced: a leader of a      *)
(* later term, in whatever configuration, has it all.                       *)
CommittedKept == [][IsPrefix(committed, committed')]_vars

(* docs/PERFORMANCE_ANALYSIS.md:254-256, zero loss: a request answered 200  *)
(* stays in the committed log.                                              *)
AnsweredKept == \A r \in Requests : phase[r] = "ok" => r \in ToSet(CommittedRequests)

(* docs/PERFORMANCE_ANALYSIS.md:417, linearizable: a write that has taken   *)
(* effect does not take effect again over a later write that was answered   *)
(* 200.                                                                     *)
NotUndone ==
  [][\A i, j \in DOMAIN committed, k \in DOMAIN committed' :
       LET first == committed[i].req
           later == committed[j].req
       IN  /\ i < j /\ k > Len(committed)
           /\ first # None /\ committed'[k].req = first
           /\ later \notin {None, first} /\ opOf[later] \in Writes
           => phase[later] # "ok"]_vars

(* Every request ends: with an answer, or because its client or its node    *)
(* went away.                                                               *)
RequestsEnd == \A r \in Requests : phase[r] = "received" ~> phase[r] \in Answers

(***************************************************************************)
(* The goroutines of the requests run.  A leader with a request to finish  *)
(* reaches a majority and commits, or loses its lease and steps down.      *)
(***************************************************************************)
Busy(n) == \E r \in Requests : at[r] = n /\ phase[r] \in {"proposing", "pending"}

Resolve(n) ==
  /\ Busy(n)
  /\ UNCHANGED callVars
  /\ StepDown(n) \/ \E k \in 1 .. MaxLog : Commit(n, k)

Fairness ==
  /\ \A r \in Requests : WF_vars(HandlerStep(r))
  /\ \A n \in Nodes : WF_vars(Resolve(n))

FairSpec == Spec /\ Fairness
=============================================================================
