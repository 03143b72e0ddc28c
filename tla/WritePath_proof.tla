--------------------------- MODULE WritePath_proof ---------------------------
(***************************************************************************)
(* What the write path guarantees on a cluster whose log is synced (noSync *)
(* is "false"), for any nodes, requests, membership changes and bounds:    *)
(* there is one committed log, which is never undone; a request answered   *)
(* 200 stays in it, and readers see what it leaves in a store, also while  *)
(* a node replays it over the store of an earlier run.                     *)
(*                                                                         *)
(* RaftCluster_proof shows that every step of Raft keeps RaftInv; here it  *)
(* meets the handlers, whose own invariant is CallInv, and the stores,     *)
(* whose invariant is StoreInv.                                            *)
(***************************************************************************)
EXTENDS WritePath, RaftCluster_proof

-----------------------------------------------------------------------------
(* The invariant of the handlers.                                           *)

InLog(r) == \E i \in DOMAIN committed : committed[i].req = r

\* TypeOK says this of each request, but for the last two parts: only writes
\* wait for a leader, and success is known only of a committed request.
Call(r) ==
  /\ phase[r] = "pending" <=> future[r] # "none"
  /\ phase[r] \in {"idle"} \cup Answers <=> at[r] = None
  /\ count[r] \in 0 .. (IF phase[r] = "waiting" THEN leaderPolls ELSE maxRetries) - 1
  /\ opOf[r] \notin Writes => count[r] = 0
  /\ phase[r] = "waiting" => opOf[r] \in Writes
  /\ phase[r] = "ok" \/ future[r] = "nil" => InLog(r)

CallType ==
  /\ at \in [Requests -> Nodes \cup {None}]
  /\ future \in [Requests -> {"none", "pending", "nil", "lost"}]
  /\ crashes \in 0 .. MaxCrashes
  /\ phase \in [Requests -> Phases]
  /\ count \in [Requests -> Nat]

CallInv == CallType /\ \A r \in Requests : Call(r)

Inv == RaftInv /\ CallInv

-----------------------------------------------------------------------------
(* The committed log.                                                       *)

\* A step of the committed log, if it has one, adds entries at the end.
Lengthens == Same(committed, committed', Len(committed))

LEMMA Lengthened ==
  ASSUME RaftType, RaftType', Lengthens, NEW r \in Requests, InLog(r)
  PROVE  InLog(r)'
<1>1. /\ DOMAIN committed = 1 .. Len(committed) /\ DOMAIN committed' = 1 .. Len(committed')
      /\ Len(committed) \in Nat /\ Len(committed') \in Nat
  BY EntrySeq DEF RaftType
<1>2. PICK i \in 1 .. Len(committed) : committed[i].req = r
  BY <1>1 DEF InLog
<1>3. i \in 1 .. Len(committed') /\ committed'[i] = committed[i]
  BY <1>1, <1>2 DEF Lengthens, Same
<1> QED
  BY <1>1, <1>2, <1>3 DEF InLog

LEMMA UnchangedLengthens ==
  ASSUME RaftType, committed' = committed
  PROVE  Lengthens
<1>1. Len(committed) \in Nat
  BY Typed
<1> QED
  BY <1>1 DEF Lengthens, Same

-----------------------------------------------------------------------------
(* Steps of the handlers.                                                   *)

LEMMA GotoSafe ==
  ASSUME CallInv, NEW r \in Requests, NEW p \in Phases \ {"idle"}, NEW c \in Nat,
         Goto(r, p, c), phase[r] \notin {"idle"} \cup Answers,
         p \notin Answers =>
           /\ c \in 0 .. (IF p = "waiting" THEN leaderPolls ELSE maxRetries) - 1
           /\ opOf[r] \notin Writes => c = 0,
         p = "waiting" => opOf[r] \in Writes,
         NEW f \in {"none", "pending", "nil", "lost"}, future' = [future EXCEPT ![r] = f],
         p = "pending" <=> f # "none",
         p = "ok" \/ f = "nil" => InLog(r),
         crashes' = crashes, committed' = committed
  PROVE  CallInv'
<1>1. /\ phase' = [phase EXCEPT ![r] = p]
      /\ count' = [count EXCEPT ![r] = IF p \in Answers THEN 0 ELSE c]
      /\ at' = [at EXCEPT ![r] = IF p \in Answers THEN None ELSE @]
  BY DEF Goto
<1>2. CallType'
  BY <1>1 DEF CallInv, CallType
<1>3. \A q \in Requests : InLog(q)' <=> InLog(q)
  BY DEF InLog
<1>4. ASSUME NEW q \in Requests, q # r PROVE Call(q)'
  <2>1. phase'[q] = phase[q] /\ count'[q] = count[q] /\ at'[q] = at[q] /\ future'[q] = future[q]
    BY <1>1, <1>4 DEF CallInv, CallType
  <2> QED
    BY <1>3, <2>1 DEF CallInv, Call
<1>5. Call(r)'
  <2>1. /\ phase'[r] = p /\ count'[r] = (IF p \in Answers THEN 0 ELSE c)
        /\ at'[r] = (IF p \in Answers THEN None ELSE at[r]) /\ future'[r] = f
    BY <1>1 DEF CallInv, CallType
  <2>2. at[r] # None
    BY DEF CallInv, Call
  <2>3. maxRetries \in Nat \ {0} /\ leaderPolls \in Nat \ {0}
    BY WritePathAssumption
  <2>4. p = "pending" <=> future'[r] # "none"
    BY <2>1
  <2>5. p \in {"idle"} \cup Answers <=> at'[r] = None
    BY <2>1, <2>2
  <2>6. count'[r] \in 0 .. (IF p = "waiting" THEN leaderPolls ELSE maxRetries) - 1
    BY <2>1, <2>3 DEF Answers
  <2>7. opOf[r] \notin Writes => count'[r] = 0
    BY <2>1
  <2>8. p = "ok" \/ future'[r] = "nil" => InLog(r)'
    BY <1>3, <2>1
  <2> QED
    BY <2>1, <2>4, <2>5, <2>6, <2>7, <2>8 DEF Call
<1> QED
  BY <1>2, <1>4, <1>5 DEF CallInv

\* A handler's step with a future that stays as it is.
LEMMA GotoAhead ==
  ASSUME CallInv, NEW r \in Requests, NEW p \in Phases \ {"idle", "pending", "ok"}, NEW c \in Nat,
         Goto(r, p, c), phase[r] \notin {"idle", "pending"} \cup Answers,
         p \notin Answers =>
           /\ c \in 0 .. (IF p = "waiting" THEN leaderPolls ELSE maxRetries) - 1
           /\ opOf[r] \notin Writes => c = 0,
         p = "waiting" => opOf[r] \in Writes,
         UNCHANGED <<quiet, future>>
  PROVE  CallInv'
<1>1. future[r] = "none"
  BY DEF CallInv, Call
<1>2. future' = [future EXCEPT ![r] = "none"] /\ crashes' = crashes /\ committed' = committed
  BY <1>1 DEF CallInv, CallType, quiet
<1> QED
  BY <1>2, GotoSafe

LEMMA RequestFacts ==
  ASSUME CallInv, NEW r \in Requests
  PROVE  /\ count[r] \in Nat /\ maxRetries \in Nat \ {0} /\ leaderPolls \in Nat \ {0}
         /\ count[r] \in 0 .. (IF phase[r] = "waiting" THEN leaderPolls ELSE maxRetries) - 1
         /\ opOf[r] \notin Writes => count[r] = 0
         /\ phase[r] = "waiting" => opOf[r] \in Writes
         /\ phase[r] \notin {"idle"} \cup Answers => at[r] \in Nodes
BY WritePathAssumption DEF CallInv, CallType, Call

LEMMA ReceiveSafe ==
  ASSUME CallInv, NEW r \in Requests, NEW n \in Nodes, Receive(r, n)
  PROVE  CallInv'
<1>1. /\ phase[r] = "idle" /\ phase' = [phase EXCEPT ![r] = "received"]
      /\ at' = [at EXCEPT ![r] = n]
      /\ future' = future /\ count' = count /\ crashes' = crashes /\ committed' = committed
  BY DEF Receive, quiet
<1>2. n # None
  BY RaftClusterAssumption
<1>3. CallType'
  BY <1>1 DEF CallInv, CallType, Phases
<1>4. ASSUME NEW q \in Requests, q # r PROVE Call(q)'
  <2>1. phase'[q] = phase[q] /\ at'[q] = at[q]
    BY <1>1, <1>4 DEF CallInv, CallType
  <2> QED
    BY <1>1, <2>1 DEF CallInv, Call, InLog
<1>5. Call(r)'
  <2>1. phase'[r] = "received" /\ at'[r] = n /\ future[r] = "none"
    BY <1>1 DEF CallInv, CallType, Call
  <2> QED
    BY <1>1, <1>2, <2>1 DEF CallInv, Call, Answers
<1> QED
  BY <1>3, <1>4, <1>5 DEF CallInv

LEMMA RetryAhead ==
  ASSUME CallInv, NEW r \in Requests, Retry(r), opOf[r] \in Writes, phase[r] = "checking",
         UNCHANGED <<quiet, future>>
  PROVE  CallInv'
<1>1. count[r] \in Nat /\ maxRetries \in Nat \ {0} /\ count[r] \in 0 .. maxRetries - 1
  BY RequestFacts
<1>2. CASE count[r] + 1 = maxRetries
  <2>1. Goto(r, "error", 0)
    BY <1>2 DEF Retry
  <2> QED
    BY <2>1, GotoAhead DEF Phases, Answers
<1>3. CASE count[r] + 1 # maxRetries
  <2>1. Goto(r, "checking", count[r] + 1)
    BY <1>3 DEF Retry
  <2>2. count[r] + 1 \in Nat /\ count[r] + 1 \in 0 .. maxRetries - 1
    BY <1>1, <1>3
  <2> QED
    BY <2>1, <2>2, GotoAhead DEF Phases, Answers
<1> QED
  BY <1>2, <1>3

\* The steps before and after a proposal.
LEMMA HandlerSafe ==
  ASSUME CallInv, NEW r \in Requests,
         \/ BadInput(r) \/ ClientGone(r) \/ CheckLeader(r) \/ RedirectPut(r) \/ Poll(r)
         \/ RedirectOther(r) \/ CheckWrite(r) \/ WriteRejected(r) \/ CheckChange(r)
         \/ ChangeRejected(r)
  PROVE  CallInv'
<1> USE RequestFacts
<1>1. CASE BadInput(r)
  BY <1>1, GotoAhead DEF BadInput, Phases, Answers
<1>2. CASE ClientGone(r)
  BY <1>2, GotoAhead DEF ClientGone, Phases, Answers
<1>3. CASE CheckLeader(r)
  <2> DEFINE p == IF IsLeader(at[r]) THEN "checking" ELSE "redirect"
  <2>1. p \in {"checking", "redirect"} /\ Goto(r, p, 0)
    BY <1>3 DEF CheckLeader
  <2> HIDE DEF p
  <2> QED
    BY <1>3, <2>1, GotoAhead DEF CheckLeader, Phases, Answers
<1>4. CASE RedirectPut(r)
  <2> DEFINE p == IF known[at[r]] = None THEN "waiting" ELSE "refused"
  <2>1. p \in {"waiting", "refused"} /\ Goto(r, p, 0)
    BY <1>4 DEF RedirectPut
  <2> HIDE DEF p
  <2> QED
    BY <1>4, <2>1, GotoAhead DEF RedirectPut, Phases, Answers, Writes
<1>5. CASE Poll(r)
  <2> DEFINE stop == known[at[r]] # None \/ count[r] + 1 = leaderPolls
  <2>1. phase[r] = "waiting" /\ Goto(r, IF stop THEN "refused" ELSE "waiting", count[r] + 1)
        /\ UNCHANGED <<quiet, future>>
    BY <1>5 DEF Poll
  <2>2. count[r] + 1 \in Nat
    OBVIOUS
  <2>3. CASE stop
    BY <2>1, <2>2, <2>3, GotoAhead DEF Phases, Answers
  <2>4. CASE ~stop
    <3>1. count[r] + 1 \in 0 .. leaderPolls - 1
      BY <2>1, <2>4
    <3> QED
      BY <2>1, <2>2, <2>4, <3>1, GotoAhead DEF Phases, Answers
  <2> QED
    BY <2>3, <2>4
<1>6. CASE RedirectOther(r)
  BY <1>6, GotoAhead DEF RedirectOther, Phases, Answers
<1>7. CASE CheckWrite(r)
  <2>1. CASE IsLeader(at[r])
    BY <1>7, <2>1, GotoAhead DEF CheckWrite, Phases, Answers
  <2>2. CASE ~IsLeader(at[r])
    BY <1>7, <2>2, RetryAhead DEF CheckWrite
  <2> QED
    BY <2>1, <2>2
<1>8. CASE WriteRejected(r)
  BY <1>8, GotoAhead DEF WriteRejected, Phases, Answers
<1>9. CASE CheckChange(r)
  <2> DEFINE p == IF IsLeader(at[r]) THEN "proposing" ELSE "error"
  <2>1. p \in {"proposing", "error"} /\ Goto(r, p, 0)
    BY <1>9 DEF CheckChange
  <2> HIDE DEF p
  <2> QED
    BY <1>9, <2>1, GotoAhead DEF CheckChange, Phases, Answers
<1>10. CASE ChangeRejected(r)
  BY <1>10, GotoAhead DEF ChangeRejected, Phases, Answers
<1> QED
  BY <1>1, <1>2, <1>3, <1>4, <1>5, <1>6, <1>7, <1>8, <1>9, <1>10

\* A proposal's future begins.
LEMMA ProposeSafe ==
  ASSUME CallInv, NEW r \in Requests, ProposeWrite(r) \/ ProposeChange(r)
  PROVE  CallInv'
<1>1. /\ phase[r] = "proposing"
      /\ future' = [future EXCEPT ![r] = "pending"]
      /\ crashes' = crashes /\ committed' = committed
      /\ \/ opOf[r] \in Writes /\ Goto(r, "pending", count[r])
         \/ Goto(r, "pending", 0)
  BY DEF ProposeWrite, ProposeChange, AppendWrite, AppendChange, AppendEntry
<1>2. /\ count[r] \in Nat /\ maxRetries \in Nat \ {0} /\ count[r] \in 0 .. maxRetries - 1
      /\ 0 \in 0 .. maxRetries - 1
  <2>1. count[r] \in Nat /\ maxRetries \in Nat \ {0} /\ count[r] \in 0 .. maxRetries - 1
    BY <1>1, RequestFacts
  <2> QED
    BY <2>1
<1> DEFINE p == "pending"
<1>5. /\ p \in Phases \ {"idle"} /\ phase[r] \notin {"idle"} \cup Answers
      /\ p # "waiting" /\ p # "ok" /\ "pending" # "none" /\ "pending" # "nil" /\ 0 \in Nat
  BY <1>1 DEF Phases, Answers
<1>6. p = "pending"
  OBVIOUS
<1> HIDE DEF p
<1>3. CASE opOf[r] \in Writes /\ Goto(r, p, count[r])
  BY <1>1, <1>2, <1>3, <1>5, <1>6, GotoSafe
<1>4. CASE Goto(r, p, 0)
  BY <1>1, <1>2, <1>4, <1>5, <1>6, GotoSafe
<1> QED
  BY <1>1, <1>3, <1>4, <1>6

\* The future has ended, and with it this attempt.
LEMMA AnswerSafe ==
  ASSUME CallInv, NEW r \in Requests, AnswerWrite(r) \/ AnswerChange(r)
  PROVE  CallInv'
<1>1. /\ phase[r] = "pending" /\ future[r] # "pending"
      /\ future' = [future EXCEPT ![r] = "none"] /\ crashes' = crashes /\ committed' = committed
      /\ \/ future[r] = "nil" /\ Goto(r, "ok", 0)
         \/ opOf[r] \in Writes /\ Retry(r)
         \/ Goto(r, "error", 0)
  BY DEF AnswerWrite, AnswerChange, quiet
<1>2. count[r] \in Nat /\ maxRetries \in Nat \ {0} /\ count[r] \in 0 .. maxRetries - 1
  BY <1>1, RequestFacts
<1>3. CASE future[r] = "nil" /\ Goto(r, "ok", 0)
  <2>1. InLog(r)
    BY <1>3 DEF CallInv, Call
  <2>2. /\ "ok" \in Phases \ {"idle"} /\ phase[r] \notin {"idle"} \cup Answers
        /\ "ok" \in Answers /\ "ok" # "pending" /\ "ok" # "waiting"
    BY <1>1 DEF Phases, Answers
  <2> QED
    BY <1>1, <1>3, <2>1, <2>2, GotoSafe
<1>4. CASE Goto(r, "error", 0)
  <2>1. /\ "error" \in Phases \ {"idle"} /\ phase[r] \notin {"idle"} \cup Answers
        /\ "error" \in Answers /\ "error" # "pending" /\ "error" # "waiting" /\ "error" # "ok"
        /\ "none" # "nil"
    BY <1>1 DEF Phases, Answers
  <2> QED
    BY <1>1, <1>4, <2>1, GotoSafe
<1>5. CASE opOf[r] \in Writes /\ Goto(r, "checking", count[r] + 1) /\ count[r] + 1 # maxRetries
  <2>1. count[r] + 1 \in Nat /\ count[r] + 1 \in 0 .. maxRetries - 1
    BY <1>2, <1>5
  <2>2. /\ "checking" \in Phases \ {"idle"} /\ phase[r] \notin {"idle"} \cup Answers
        /\ "checking" # "pending" /\ "checking" # "waiting" /\ "checking" # "ok"
        /\ "none" # "nil"
    BY <1>1 DEF Phases, Answers
  <2> QED
    BY <1>1, <1>5, <2>1, <2>2, GotoSafe
<1> QED
  BY <1>1, <1>3, <1>4, <1>5 DEF Retry

-----------------------------------------------------------------------------
(* Steps of Raft, and processes that end.                                   *)

LEMMA FuturesSafe ==
  ASSUME CallInv, RaftType, RaftType', Lengthens, UNCHANGED <<phase, count, at>>,
         crashes' \in 0 .. MaxCrashes,
         future' \in [Requests -> {"none", "pending", "nil", "lost"}],
         \A r \in Requests : /\ future'[r] = "none" <=> future[r] = "none"
                             /\ future'[r] = "nil" => future[r] = "nil" \/ InLog(r)'
  PROVE  CallInv'
<1>1. CallType'
  BY DEF CallInv, CallType
<1>2. ASSUME NEW r \in Requests PROVE Call(r)'
  <2>1. InLog(r) => InLog(r)'
    BY Lengthened
  <2> QED
    BY <2>1 DEF CallInv, Call
<1> QED
  BY <1>1, <1>2 DEF CallInv

LEMMA LostAtFacts ==
  ASSUME CallInv, NEW n \in Nodes, future' = LostAt(n, future)
  PROVE  /\ future' \in [Requests -> {"none", "pending", "nil", "lost"}]
         /\ \A r \in Requests : /\ future'[r] = "none" <=> future[r] = "none"
                                /\ future'[r] = "nil" => future[r] = "nil"
BY DEF LostAt, CallInv, CallType

LEMMA CommitCalls ==
  ASSUME CallInv, RaftInv, RaftInv', NEW l \in Nodes, NEW k, Commit(l, k), UNCHANGED callVars
  PROVE  CallInv' /\ Lengthens
<1> DEFINE prefix == SubSeq(log[l], 1, k)
           done == {prefix[i].req : i \in {j \in 1 .. k : prefix[j].term = term[l]}}
           answered == [r \in Requests |->
                          IF at[r] = l /\ future[r] = "pending" /\ r \in done
                          THEN "nil" ELSE future[r]]
<1>1. /\ future' = IF l \notin Servers(prefix) THEN LostAt(l, answered) ELSE answered
      /\ UNCHANGED <<at, crashes, phase, count>>
  BY DEF Commit, callVars
<1>2. /\ k \in 1 .. Len(log[l]) /\ log[l] \in Seq(Entry) /\ Len(log[l]) \in Nat
      /\ RaftType /\ RaftType' /\ Lengthens
      /\ committed' \in Seq(Entry)
      /\ Same(committed', log[l], Len(committed')) /\ Len(committed') >= k
  BY CommitterActive, CommitExtends, Typed DEF RaftInv, LogInv, Lengthens
<1>3. Same(prefix, log[l], k)
  BY <1>2, PrefixOf
<1>4. ASSUME NEW r \in done PROVE InLog(r)'
  <2>1. PICK i \in 1 .. k : prefix[i].req = r
    OBVIOUS
  <2> HIDE DEF prefix, done
  <2>2. DOMAIN committed' = 1 .. Len(committed') /\ Len(committed') \in Nat
    BY <1>2, EntrySeq
  <2>3. i \in DOMAIN committed' /\ committed'[i] = log[l][i] /\ prefix[i] = log[l][i]
    BY <1>2, <1>3, <2>2 DEF Same
  <2> QED
    BY <2>1, <2>3 DEF InLog
<1> HIDE DEF prefix, done
<1>5. /\ answered \in [Requests -> {"none", "pending", "nil", "lost"}]
      /\ \A r \in Requests : /\ answered[r] = "none" <=> future[r] = "none"
                             /\ answered[r] = "nil" => future[r] = "nil" \/ InLog(r)'
  BY <1>4 DEF CallInv, CallType
<1> HIDE DEF answered
<1>6. /\ future' \in [Requests -> {"none", "pending", "nil", "lost"}]
      /\ \A r \in Requests : /\ future'[r] = "none" <=> future[r] = "none"
                             /\ future'[r] = "nil" => future[r] = "nil" \/ InLog(r)'
  BY <1>1, <1>5 DEF LostAt
<1>7. crashes' \in 0 .. MaxCrashes
  BY <1>1 DEF CallInv, CallType
<1> QED
  BY <1>1, <1>2, <1>6, <1>7, FuturesSafe

LEMMA RaftStepCalls ==
  ASSUME CallInv, RaftInv, RaftInv', UNCHANGED callVars, RaftStep
  PROVE  CallInv' /\ Lengthens
<1>1. /\ RaftType /\ RaftType' /\ phase' = phase /\ count' = count
      /\ crashes \in 0 .. MaxCrashes
      /\ future \in [Requests -> {"none", "pending", "nil", "lost"}]
      /\ MaxCrashes \in Nat
  BY RaftClusterAssumption DEF RaftInv, LogInv, callVars, CallInv, CallType
<1>2. ASSUME NEW n \in Nodes, Start(n) \/ LoseLeader(n) PROVE CallInv' /\ Lengthens
  <2>1. UNCHANGED <<at, future, crashes, committed>>
    BY <1>2 DEF Start, LoseLeader
  <2> QED
    BY <1>1, <2>1, UnchangedLengthens, FuturesSafe
<1>3. ASSUME NEW n \in Nodes, StepDown(n) PROVE CallInv' /\ Lengthens
  <2>1. UNCHANGED <<at, crashes, committed>> /\ future' = LostAt(n, future)
    BY <1>3 DEF StepDown
  <2> QED
    BY <1>1, <2>1, LostAtFacts, UnchangedLengthens, FuturesSafe
<1>4. ASSUME NEW n \in Nodes, Close(n) PROVE CallInv' /\ Lengthens
  <2>1. UNCHANGED <<at, committed>> /\ future' = LostAt(n, future)
        /\ crashes < MaxCrashes /\ crashes' = crashes + 1
    BY <1>4 DEF Close
  <2>2. crashes' \in 0 .. MaxCrashes
    BY <1>1, <2>1
  <2> QED
    BY <1>1, <2>1, <2>2, LostAtFacts, UnchangedLengthens, FuturesSafe
<1>5. ASSUME NEW n \in Nodes, NEW Q \in SUBSET Nodes, Elect(n, Q) PROVE CallInv' /\ Lengthens
  <2>1. UNCHANGED <<at, future, crashes, committed>>
    BY <1>5 DEF Elect
  <2> QED
    BY <1>1, <2>1, UnchangedLengthens, FuturesSafe
<1>6. ASSUME NEW l \in Nodes, NEW f \in Nodes, Replicate(l, f) PROVE CallInv' /\ Lengthens
  <2>1. UNCHANGED <<at, crashes, committed>> /\ future' = LostAt(f, future)
    BY <1>6 DEF Replicate
  <2> QED
    BY <1>1, <2>1, LostAtFacts, UnchangedLengthens, FuturesSafe
<1>7. ASSUME NEW l \in Nodes, NEW k, Commit(l, k) PROVE CallInv' /\ Lengthens
  BY <1>7, CommitCalls
<1> QED
  BY <1>2, <1>3, <1>4, <1>5, <1>6, <1>7 DEF RaftStep

LEMMA GoneSafe ==
  ASSUME CallInv, NEW n \in Nodes, Abandon(n), GoneWith(n), committed' = committed,
         crashes' \in 0 .. MaxCrashes
  PROVE  CallInv'
<1>1. n # None
  BY RaftClusterAssumption
<1>2. \A r \in Requests :
        /\ at'[r] = (IF at[r] = n THEN None ELSE at[r])
        /\ future'[r] = (IF at[r] = n THEN "none" ELSE future[r])
        /\ phase'[r] = (IF at[r] = n THEN "error" ELSE phase[r])
        /\ count'[r] = (IF at[r] = n THEN 0 ELSE count[r])
  BY DEF Abandon, GoneWith
<1>3. CallType'
  BY DEF Abandon, GoneWith, CallInv, CallType, Phases, Answers
<1>4. ASSUME NEW r \in Requests PROVE Call(r)'
  <2>1. CASE at[r] = n
    <3>1. 0 \in 0 .. maxRetries - 1
      BY WritePathAssumption
    <3>2. at'[r] = None /\ future'[r] = "none" /\ phase'[r] = "error" /\ count'[r] = 0
      BY <1>2, <2>1
    <3> QED
      BY <3>1, <3>2 DEF Call, Answers
  <2>2. CASE at[r] # n
    <3>1. at'[r] = at[r] /\ future'[r] = future[r] /\ phase'[r] = phase[r] /\ count'[r] = count[r]
      BY <1>2, <2>2
    <3> QED
      BY <3>1 DEF CallInv, Call, InLog
  <2> QED
    BY <2>1, <2>2
<1> QED
  BY <1>3, <1>4 DEF CallInv

-----------------------------------------------------------------------------
(* Every step keeps the invariant, and the committed log only lengthens.    *)

LEMMA RaftStepSafe ==
  ASSUME RaftInv, RaftStep
  PROVE  RaftInv'
BY StartSafe, StepDownSafe, LoseLeaderSafe, CloseSafe, ElectSafe, ReplicateSafe, CommitSafe
   DEF RaftStep

\* A step of a handler that leaves Raft alone.
LEMMA RaftAlone ==
  ASSUME RaftInv, UNCHANGED quiet
  PROVE  RaftInv' /\ Lengthens
<1>1. UNCHANGED <<role, term, log, known, applied, committed>>
  BY DEF quiet, nodeVars
<1>2. RaftType /\ RaftType'
  BY <1>1 DEF RaftInv, LogInv, RaftType
<1>3. \A n \in Nodes : applied'[n] <= applied[n]
  BY <1>1, <1>2, Typed
<1>4. \A n \in Nodes : Leading(n)' =>
        Leading(n) /\ known'[n] = known[n] /\ applied'[n] = applied[n]
  BY <1>1 DEF Leading
<1> QED
  BY <1>1, <1>2, <1>3, <1>4, Quiet, UnchangedLengthens

LEMMA NextSafe ==
  ASSUME Inv, ~GetNoSync, Next
  PROVE  Inv' /\ Lengthens
<1>1. RaftInv /\ CallInv /\ RaftType
  BY DEF Inv, RaftInv, LogInv
<1>2. CASE UNCHANGED callVars /\ RaftStep
  BY <1>1, <1>2, RaftStepSafe, RaftStepCalls DEF Inv
<1>3. ASSUME NEW r \in Requests, NEW n \in Nodes, Receive(r, n) PROVE Inv' /\ Lengthens
  <2>1. UNCHANGED quiet
    BY <1>3 DEF Receive, quiet
  <2> QED
    BY <1>1, <1>3, <2>1, ReceiveSafe, RaftAlone DEF Inv
<1>4. ASSUME NEW r \in Requests,
             \/ BadInput(r) \/ ClientGone(r) \/ CheckLeader(r) \/ RedirectPut(r) \/ Poll(r)
             \/ RedirectOther(r) \/ CheckWrite(r) \/ WriteRejected(r) \/ CheckChange(r)
             \/ ChangeRejected(r)
      PROVE Inv' /\ Lengthens
  <2>1. UNCHANGED quiet
    BY <1>4 DEF BadInput, ClientGone, CheckLeader, RedirectPut, Poll, RedirectOther, CheckWrite,
                WriteRejected, CheckChange, ChangeRejected, quiet
  <2> QED
    BY <1>1, <1>4, <2>1, HandlerSafe, RaftAlone DEF Inv
<1>5. ASSUME NEW r \in Requests, AnswerWrite(r) \/ AnswerChange(r) PROVE Inv' /\ Lengthens
  <2>1. UNCHANGED quiet
    BY <1>5 DEF AnswerWrite, AnswerChange, quiet
  <2> QED
    BY <1>1, <1>5, <2>1, AnswerSafe, RaftAlone DEF Inv
<1>6. ASSUME NEW r \in Requests, ProposeWrite(r) \/ ProposeChange(r) PROVE Inv' /\ Lengthens
  <2>1. at[r] \in Nodes /\ opOf[r] \in Writes \cup {"add", "remove"}
    <3>1. phase[r] = "proposing"
      BY <1>6 DEF ProposeWrite, ProposeChange
    <3>2. at[r] \in Nodes
      BY <1>1, <3>1, RequestFacts DEF Answers
    <3> QED
      BY <3>2, RaftClusterAssumption DEF Operations
  <2>2. committed' = committed
    BY <1>6 DEF ProposeWrite, ProposeChange, AppendWrite, AppendChange, AppendEntry
  <2>3. CASE ProposeWrite(r)
    <3>1. opOf[r] \in Writes /\ AppendWrite(at[r], r)
      BY <2>3 DEF ProposeWrite
    <3> QED
      BY <1>1, <1>6, <2>1, <2>2, <3>1, AppendWriteSafe, ProposeSafe, UnchangedLengthens DEF Inv
  <2>4. CASE ProposeChange(r)
    <3>1. opOf[r] \in {"add", "remove"} /\ AppendChange(at[r], r)
      BY <2>1, <2>4 DEF ProposeChange
    <3> QED
      BY <1>1, <1>6, <2>1, <2>2, <3>1, AppendChangeSafe, ProposeSafe, UnchangedLengthens DEF Inv
  <2> QED
    BY <1>6, <2>3, <2>4
<1>7. ASSUME NEW n \in Nodes, Exit(n) PROVE Inv' /\ Lengthens
  <2>1. /\ ExitRaft(n) /\ Abandon(n) /\ GoneWith(n) /\ committed' = committed
        /\ crashes' \in 0 .. MaxCrashes
    BY <1>1, <1>7 DEF Exit, ExitRaft, CallInv, CallType
  <2> QED
    BY <1>1, <2>1, ExitSafe, GoneSafe, UnchangedLengthens DEF Inv
<1>8. ASSUME NEW n \in Nodes, NEW k, NEW t, Crash(n, k, t) PROVE Inv' /\ Lengthens
  <2>1. /\ CrashRaft(n, k, t) /\ Abandon(n) /\ GoneWith(n) /\ committed' = committed
        /\ crashes < MaxCrashes /\ crashes' = crashes + 1
    BY <1>8 DEF Crash, CrashRaft
  <2>2. crashes' \in 0 .. MaxCrashes
    BY <1>1, <2>1, RaftClusterAssumption DEF CallInv, CallType
  <2> QED
    BY <1>1, <2>1, <2>2, CrashSafe, GoneSafe, UnchangedLengthens DEF Inv
<1> QED
  BY <1>2, <1>3, <1>4, <1>5, <1>6, <1>7, <1>8 DEF Next, HandlerStep

LEMMA StutterSafe ==
  ASSUME Inv, UNCHANGED vars
  PROVE  Inv' /\ Lengthens
<1>1. /\ UNCHANGED quiet /\ UNCHANGED <<phase, count, at, future, crashes, committed>>
  BY DEF vars, raftVars, callVars, quiet
<1>2. RaftInv' /\ Lengthens
  BY <1>1, RaftAlone DEF Inv
<1>3. CallInv'
  BY <1>1 DEF Inv, CallInv, CallType, Call, InLog
<1> QED
  BY <1>2, <1>3 DEF Inv

LEMMA InitHolds ==
  ASSUME Init
  PROVE  Inv
<1>1. RaftInv
  BY InitSafe DEF Init
<1>2. CallType
  BY RaftClusterAssumption DEF Init, RaftInit, CallType, Phases
<1>3. \A r \in Requests : Call(r)
  <2>1. 0 \in 0 .. maxRetries - 1
    BY WritePathAssumption
  <2> QED
    BY <2>1 DEF Init, RaftInit, Call
<1> QED
  BY <1>1, <1>2, <1>3 DEF Inv, CallInv

LEMMA Invariance ==
  ASSUME ~GetNoSync
  PROVE  Spec => []Inv
<1>1. Init => Inv
  BY InitHolds
<1>2. Inv /\ [Next]_vars => Inv'
  BY NextSafe, StutterSafe
<1> QED
  BY <1>1, <1>2, PTL DEF Spec

-----------------------------------------------------------------------------
(* The stores.                                                              *)

(* A node that has applied a entries of the committed log c since it began  *)
(* has a store that was given s: these entries last, and before them only   *)
(* committed entries.                                                       *)
Filled(s, a, c) ==
  /\ s \in Seq(Entry) /\ a <= Len(s)
  /\ \A i \in 1 .. a : s[Len(s) - a + i] = c[i]
  /\ \A i \in 1 .. Len(s) : \E j \in 1 .. Len(c) : s[i] = c[j]

StoreInv ==
  /\ stored \in [Nodes -> Seq(Entry)]
  /\ \A n \in Nodes : Filled(stored[n], applied[n], committed)

LEMMA FilledLonger ==
  ASSUME NEW s, NEW c \in Seq(Entry), NEW d \in Seq(Entry), NEW a \in 0 .. Len(c),
         Filled(s, a, c), Same(c, d, Len(c))
  PROVE  Filled(s, a, d)
<1>1. Len(c) \in Nat /\ Len(d) \in Nat /\ Len(c) <= Len(d) /\ \A i \in 1 .. Len(c) : c[i] = d[i]
  BY EntrySeq DEF Same
<1>2. \A i \in 1 .. a : i \in 1 .. Len(c)
  BY <1>1
<1>3. \A j \in 1 .. Len(c) : j \in 1 .. Len(d)
  BY <1>1
<1> QED
  BY <1>1, <1>2, <1>3 DEF Filled

(* A node that starts again, with as much of the store as a crash has left. *)
LEMMA FilledAgain ==
  ASSUME NEW s \in Seq(Entry), NEW a, NEW c, Filled(s, a, c), NEW j \in 0 .. Len(s)
  PROVE  Filled(SubSeq(s, 1, j), 0, c) /\ Filled(s, 0, c)
<1>1. /\ SubSeq(s, 1, j) \in Seq(Entry) /\ Len(SubSeq(s, 1, j)) = j
      /\ \A i \in 1 .. j : SubSeq(s, 1, j)[i] = s[i]
      /\ Len(s) \in Nat
  BY PrefixOf, EntrySeq DEF Same
<1>2. \A i \in 1 .. j : i \in 1 .. Len(s)
  BY <1>1
<1>3. \A i \in 1 .. 0 : FALSE
  OBVIOUS
<1> QED
  BY <1>1, <1>2, <1>3 DEF Filled

(* A node that applies the entries of l from the one after a to the k-th.   *)
LEMMA FilledOn ==
  ASSUME NEW s, NEW l \in Seq(Entry), NEW c \in Seq(Entry), NEW k \in Nat,
         NEW a \in 0 .. Len(c), Filled(s, a, c), Same(l, c, k)
  PROVE  Filled(s \o SubSeq(l, a + 1, k), IF k > a THEN k ELSE a, c)
<1> DEFINE t == SubSeq(l, a + 1, k)
<1>1. /\ s \in Seq(Entry) /\ Len(s) \in Nat /\ a <= Len(s) /\ Len(c) \in Nat /\ Len(l) \in Nat
      /\ k <= Len(c) /\ \A i \in 1 .. k : l[i] = c[i] /\ l[i] \in Entry
  BY EntrySeq DEF Filled, Same
<1>2. CASE k <= a
  <2>1. t = <<>>
    BY <1>1, <1>2, SubSeqEmpty
  <2>2. s \o t = s
    BY <1>1, <2>1, ConcatEmptySeq
  <2>3. (IF k > a THEN k ELSE a) = a
    BY <1>1, <1>2
  <2> QED
    BY <2>2, <2>3
<1>3. CASE k > a
  <2>1. \A i \in a + 1 .. k : l[i] \in Entry
    BY <1>1
  <2>2. /\ t \in Seq(Entry) /\ Len(t) = k - a
        /\ \A i \in 1 .. k - a : t[i] = c[a + i]
    <3>1. /\ t \in Seq(Entry) /\ Len(t) = IF a + 1 <= k THEN k - (a + 1) + 1 ELSE 0
          /\ \A i \in 1 .. k - (a + 1) + 1 : t[i] = l[a + 1 + i - 1]
      BY <1>1, <2>1, SubSeqProperties
    <3>2. ASSUME NEW i \in 1 .. k - a PROVE t[i] = c[a + i]
      <4>1. i \in 1 .. k - (a + 1) + 1 /\ a + 1 + i - 1 = a + i /\ a + i \in 1 .. k
        BY <1>1, <1>3
      <4> QED
        BY <1>1, <3>1, <4>1
    <3> QED
      BY <1>1, <1>3, <3>1, <3>2
  <2> HIDE DEF t
  <2>3. /\ s \o t \in Seq(Entry) /\ Len(s \o t) = Len(s) + (k - a)
        /\ \A i \in 1 .. Len(s) + (k - a) :
             (s \o t)[i] = IF i <= Len(s) THEN s[i] ELSE t[i - Len(s)]
    <3>1. /\ s \o t \in Seq(Entry) /\ Len(s \o t) = Len(s) + Len(t)
          /\ \A i \in 1 .. Len(s) + Len(t) :
               (s \o t)[i] = IF i <= Len(s) THEN s[i] ELSE t[i - Len(s)]
      <4>1. s \in Seq(Entry) /\ t \in Seq(Entry)
        BY <1>1, <2>2
      <4> QED
        BY <4>1, ConcatProperties
    <3> QED
      BY <2>2, <3>1
  <2>4. ASSUME NEW i \in 1 .. k PROVE (s \o t)[Len(s \o t) - k + i] = c[i]
    <3> DEFINE h == Len(s) - a + i
    <3>1. /\ Len(s \o t) - k + i = h
          /\ h \in 1 .. Len(s) + (k - a)
      BY <1>1, <1>3, <2>3
    <3>2. CASE i <= a
      <4>1. h <= Len(s) /\ s[h] = c[i]
        BY <1>1, <3>2 DEF Filled
      <4> QED
        BY <2>3, <3>1, <4>1
    <3>3. CASE i > a
      <4>1. /\ ~(h <= Len(s)) /\ h - Len(s) = i - a
            /\ i - a \in 1 .. k - a /\ a + (i - a) = i
        BY <1>1, <1>3, <3>3
      <4> HIDE DEF h
      <4>2. (s \o t)[h] = t[h - Len(s)]
        BY <2>3, <3>1, <4>1
      <4>3. t[i - a] = c[a + (i - a)]
        BY <2>2, <4>1
      <4> QED
        BY <3>1, <4>1, <4>2, <4>3
    <3> QED
      <4>1. i <= a \/ i > a
        BY <1>1
      <4> QED
        BY <3>2, <3>3, <4>1
  <2>5. ASSUME NEW i \in 1 .. Len(s \o t) PROVE \E j \in 1 .. Len(c) : (s \o t)[i] = c[j]
    <3>1. CASE i <= Len(s)
      BY <1>1, <2>3, <3>1 DEF Filled
    <3>2. CASE i > Len(s)
      <4>1. i - Len(s) \in 1 .. k - a /\ a + (i - Len(s)) \in 1 .. Len(c)
        BY <1>1, <1>3, <2>3, <3>2
      <4>2. (s \o t)[i] = c[a + (i - Len(s))]
        BY <1>1, <2>2, <2>3, <3>2, <4>1
      <4> QED
        BY <4>1, <4>2
    <3> QED
      BY <1>1, <2>3, <3>1, <3>2
  <2>6. k <= Len(s \o t)
    BY <1>1, <1>3, <2>3
  <2>7. Filled(s \o t, k, c)
    BY <2>3, <2>4, <2>5, <2>6 DEF Filled
  <2> QED
    BY <1>3, <2>7 DEF t
<1> QED
  BY <1>1, <1>2, <1>3

LEMMA StoreFacts ==
  ASSUME RaftInv, NEW n \in Nodes
  PROVE  /\ log[n] \in Seq(Entry) /\ committed \in Seq(Entry) /\ Len(committed) \in Nat
         /\ applied[n] \in 0 .. Len(committed) /\ applied \in [Nodes -> 0 .. MaxLog]
         /\ Same(log[n], committed, applied[n])
<1>1. Same(log[n], committed, applied[n])
  BY DEF RaftInv, CommitInv, AppliedCommitted
<1> QED
  BY <1>1, Typed DEF RaftInv, LogInv, RaftType, Same

\* The node n applies entries that are committed when it has.
LEMMA ApplySafe ==
  ASSUME RaftInv, RaftInv', StoreInv, Lengthens, NEW n \in Nodes, NEW l \in Seq(Entry),
         NEW k \in Nat, ApplyTo(n, l, k), Same(l, committed', k)
  PROVE  StoreInv'
<1>1. /\ committed \in Seq(Entry) /\ committed' \in Seq(Entry) /\ Len(committed) \in Nat
      /\ Same(committed, committed', Len(committed))
      /\ \A m \in Nodes : applied[m] \in 0 .. Len(committed) /\ applied[m] \in 0 .. Len(committed')
      /\ applied \in [Nodes -> 0 .. MaxLog] /\ stored \in [Nodes -> Seq(Entry)]
  <2>1. \A m \in Nodes : applied[m] \in 0 .. Len(committed)
    BY StoreFacts
  <2>2. /\ committed \in Seq(Entry) /\ committed' \in Seq(Entry) /\ Len(committed) \in Nat
        /\ Len(committed') \in Nat /\ applied \in [Nodes -> 0 .. MaxLog]
    BY Typed DEF RaftInv, LogInv, RaftType
  <2> QED
    BY <2>1, <2>2 DEF Lengthens, Same, StoreInv
<1>2. \A m \in Nodes : Filled(stored[m], applied[m], committed')
  BY <1>1, FilledLonger DEF StoreInv
<1>3. /\ stored' = [stored EXCEPT ![n] = stored[n] \o SubSeq(l, applied[n] + 1, k)]
      /\ applied' = [applied EXCEPT ![n] = IF k > applied[n] THEN k ELSE applied[n]]
  BY DEF ApplyTo
<1>4. Filled(stored[n] \o SubSeq(l, applied[n] + 1, k),
             IF k > applied[n] THEN k ELSE applied[n], committed')
  BY <1>1, <1>2, FilledOn
<1>5. stored[n] \o SubSeq(l, applied[n] + 1, k) \in Seq(Entry)
  BY <1>4 DEF Filled
<1>6. stored' \in [Nodes -> Seq(Entry)]
  BY <1>1, <1>3, <1>5
<1>7. ASSUME NEW m \in Nodes PROVE Filled(stored'[m], applied'[m], committed')
  <2>1. CASE m = n
    BY <1>1, <1>3, <1>4, <2>1
  <2>2. CASE m # n
    BY <1>1, <1>2, <1>3, <2>2
  <2> QED
    BY <2>1, <2>2
<1> QED
  BY <1>6, <1>7 DEF StoreInv

\* The process of node n ends, with its machine or without it.
LEMMA EndSafe ==
  ASSUME RaftInv, StoreInv, committed' = committed, NEW n \in Nodes,
         applied' = [applied EXCEPT ![n] = 0],
         NEW j \in 0 .. Len(stored[n]),
         stored' = [stored EXCEPT ![n] = SubSeq(@, 1, j)]
  PROVE  StoreInv'
<1>1. applied \in [Nodes -> 0 .. MaxLog] /\ stored \in [Nodes -> Seq(Entry)]
  BY StoreFacts DEF StoreInv
<1>2. Filled(SubSeq(stored[n], 1, j), 0, committed)
  BY <1>1, FilledAgain DEF StoreInv
<1>3. SubSeq(stored[n], 1, j) \in Seq(Entry)
  BY <1>2 DEF Filled
<1>4. stored' \in [Nodes -> Seq(Entry)]
  BY <1>1, <1>3
<1>5. ASSUME NEW m \in Nodes PROVE Filled(stored'[m], applied'[m], committed)
  <2>1. CASE m = n
    BY <1>1, <1>2, <2>1
  <2>2. CASE m # n
    BY <1>1, <2>2 DEF StoreInv
  <2> QED
    BY <2>1, <2>2
<1> QED
  BY <1>4, <1>5 DEF StoreInv

LEMMA StoreSafe ==
  ASSUME Inv, Inv', StoreInv, Lengthens, [Next]_vars
  PROVE  StoreInv'
<1>1. RaftInv /\ RaftInv'
  BY DEF Inv
<1>2. CASE UNCHANGED <<applied, stored>>
  <2>1. \A n \in Nodes : Filled(stored[n], applied[n], committed')
    <3>1. committed \in Seq(Entry) /\ committed' \in Seq(Entry)
      BY <1>1 DEF RaftInv, LogInv, RaftType
    <3> QED
      BY <1>1, <3>1, StoreFacts, FilledLonger DEF StoreInv, Lengthens
  <2> QED
    BY <1>2, <2>1 DEF StoreInv
<1>3. ASSUME NEW l \in Nodes, NEW f \in Nodes, Replicate(l, f) PROVE StoreInv'
  <2>1. ApplyTo(f, log[l], applied[l]) /\ committed' = committed
    BY <1>3 DEF Replicate
  <2>2. log[l] \in Seq(Entry) /\ applied[l] \in Nat /\ Same(log[l], committed, applied[l])
    BY <1>1, StoreFacts
  <2> QED
    BY <1>1, <2>1, <2>2, ApplySafe
<1>4. ASSUME NEW l \in Nodes, NEW k, Commit(l, k) PROVE StoreInv'
  <2>1. /\ k \in 1 .. Len(log[l]) /\ log[l] \in Seq(Entry) /\ Len(log[l]) \in Nat
        /\ committed' \in Seq(Entry) /\ Len(committed') \in Nat
        /\ Same(committed', log[l], Len(committed')) /\ Len(committed') >= k
    BY <1>1, <1>4, CommitterActive, CommitExtends, Typed, EntrySeq DEF RaftInv, LogInv
  <2>2. Same(log[l], committed', k) /\ k \in Nat
    BY <2>1 DEF Same
  <2>3. ApplyTo(l, log[l], k)
    BY <1>4 DEF Commit
  <2> QED
    BY <1>1, <2>1, <2>2, <2>3, ApplySafe
<1>5. ASSUME NEW n \in Nodes, Exit(n) PROVE StoreInv'
  <2>1. /\ committed' = committed /\ applied' = [applied EXCEPT ![n] = 0] /\ stored' = stored
    BY <1>5 DEF Exit, ExitRaft
  <2>2. stored \in [Nodes -> Seq(Entry)] /\ stored[n] \in Seq(Entry) /\ Len(stored[n]) \in Nat
    BY EntrySeq DEF StoreInv
  <2>3. SubSeq(stored[n], 1, Len(stored[n])) = stored[n]
    BY <2>2, SubSeqFull
  <2>4. stored' = [stored EXCEPT ![n] = SubSeq(@, 1, Len(stored[n]))] /\ Len(stored[n]) \in 0 .. Len(stored[n])
    BY <2>1, <2>2, <2>3
  <2> QED
    BY <1>1, <2>1, <2>4, EndSafe
<1>6. ASSUME NEW n \in Nodes, NEW k, NEW t, Crash(n, k, t) PROVE StoreInv'
  <2>1. /\ committed' = committed /\ applied' = [applied EXCEPT ![n] = 0]
        /\ \E j \in {0} \cup DOMAIN stored[n] : stored' = [stored EXCEPT ![n] = SubSeq(@, 1, j)]
    BY <1>6 DEF Crash, CrashRaft
  <2>2. Len(stored[n]) \in Nat /\ DOMAIN stored[n] = 1 .. Len(stored[n])
    BY EntrySeq DEF StoreInv
  <2>3. {0} \cup DOMAIN stored[n] \in SUBSET (0 .. Len(stored[n]))
    BY <2>2
  <2> QED
    BY <1>1, <2>1, <2>3, EndSafe
<1>7. ASSUME UNCHANGED callVars, RaftStep PROVE StoreInv'
  <2>1. CASE \E n \in Nodes : Start(n) \/ StepDown(n) \/ LoseLeader(n) \/ Close(n)
    BY <1>2, <2>1 DEF Start, StepDown, LoseLeader, Close
  <2>2. CASE \E n \in Nodes, Q \in SUBSET Nodes : Elect(n, Q)
    BY <1>2, <2>2 DEF Elect
  <2> QED
    BY <1>3, <1>4, <1>7, <2>1, <2>2 DEF RaftStep
<1>8. ASSUME NEW r \in Requests,
             (\E n \in Nodes : Receive(r, n)) \/ BadInput(r) \/ ClientGone(r) \/ HandlerStep(r)
      PROVE  StoreInv'
  <2>1. UNCHANGED quiet \/ ProposeWrite(r) \/ ProposeChange(r)
    BY <1>8 DEF Receive, BadInput, ClientGone, HandlerStep, CheckLeader, RedirectPut, Poll,
                RedirectOther, CheckWrite, WriteRejected, AnswerWrite, CheckChange,
                ChangeRejected, AnswerChange, quiet
  <2> QED
    BY <1>2, <2>1 DEF ProposeWrite, ProposeChange, AppendWrite, AppendChange, AppendEntry,
                      quiet, nodeVars
<1>9. CASE UNCHANGED vars
  BY <1>2, <1>9 DEF vars, raftVars, nodeVars
<1> QED
  BY <1>5, <1>6, <1>7, <1>8, <1>9 DEF Next

LEMMA StoreInvariance ==
  ASSUME ~GetNoSync
  PROVE  Spec => [](Inv /\ StoreInv)
<1>1. Init => Inv /\ StoreInv
  <2> SUFFICES ASSUME Init PROVE Inv /\ StoreInv
    OBVIOUS
  <2>1. \A n \in Nodes : stored[n] = <<>> /\ applied[n] = 0
    BY DEF Init, RaftInit
  <2>2. <<>> \in Seq(Entry) /\ Len(<<>>) = 0
    BY EmptySeq
  <2>3. \A i \in 1 .. 0 : FALSE
    OBVIOUS
  <2>4. Filled(<<>>, 0, committed)
    BY <2>2, <2>3 DEF Filled
  <2>5. stored \in [Nodes -> Seq(Entry)]
    BY <2>2 DEF Init, RaftInit
  <2> QED
    BY <2>1, <2>4, <2>5, InitHolds DEF StoreInv
<1>2. Inv /\ StoreInv /\ [Next]_vars => (Inv /\ StoreInv)'
  BY NextSafe, StutterSafe, StoreSafe
<1> QED
  BY <1>1, <1>2, PTL DEF Spec

-----------------------------------------------------------------------------
(* The theorems.                                                            *)

(* With a synced log (GetNoSync returns FALSE only for the value false of   *)
(* the field) every state of the cluster and of the handlers has its type:  *)
(* in particular no node has applied more than it has in its log, a request *)
(* waits on a future exactly while it is pending, a handler never counts    *)
(* past its last attempt, and AddNode and RemoveNode are never retried.     *)
THEOREM TypeCorrect ==
  ASSUME noSync = "false"
  PROVE  Spec => []TypeOK
<1>1. ~GetNoSync
  BY DEF GetNoSync
<1>2. Inv /\ StoreInv => TypeOK
  <2> SUFFICES ASSUME Inv, StoreInv PROVE TypeOK
    OBVIOUS
  <2>1. RaftTypeOK
    BY DEF Inv, RaftInv, LogInv, RaftType, CallInv, CallType, StoreInv, RaftTypeOK
  <2> QED
    BY <2>1 DEF Inv, CallInv, CallType, Call, TypeOK
<1> QED
  BY <1>1, <1>2, StoreInvariance, PTL

(* Raft under HooDB is safe although members come and go: one leader in a   *)
(* term, logs that agree up to a common entry, active nodes (those that can *)
(* still be elected) whose configurations overlap, and every active node    *)
(* with every committed entry.                                              *)
THEOREM RaftSafe ==
  ASSUME noSync = "false"
  PROVE  Spec => []RaftInv
<1>1. ~GetNoSync
  BY DEF GetNoSync
<1>2. Inv => RaftInv
  BY DEF Inv
<1> QED
  BY <1>1, <1>2, Invariance, PTL

LEMMA NewestIs ==
  ASSUME NEW s, NEW X, NEW i \in DOMAIN s, DOMAIN s \in SUBSET Nat, s[i].req \in X,
         \A h \in DOMAIN s : s[h].req \in X => h <= i
  PROVE  Newest(s, X) = {s[i]}
<1> DEFINE W == {j \in DOMAIN s : s[j].req \in X}
<1>1. \A j \in W : (\A h \in W : h <= j) <=> j = i
  OBVIOUS
<1>2. {j \in W : \A h \in W : h <= j} = {i}
  BY <1>1
<1> QED
  BY <1>2 DEF Newest

(* What GetKey reads on any node, leader or follower, current or cut off,   *)
(* is committed; and once a node, started again over the store of an        *)
(* earlier run, has replayed a write of a key, it reads what the replayed   *)
(* part of the one committed log leaves in that key.                        *)
THEOREM ReadsRight ==
  ASSUME noSync = "false"
  PROVE  Spec => []ReadsCommitted
<1>1. ~GetNoSync
  BY DEF GetNoSync
<1>2. Inv /\ StoreInv => ReadsCommitted
  <2> DEFINE P(n) == SubSeq(committed, 1, applied[n])
  <2> SUFFICES ASSUME Inv, StoreInv, NEW n \in Nodes, NEW X \in SUBSET Requests
               PROVE  /\ applied[n] <= Len(committed)
                      /\ Get(n, X) \subseteq ToSet(committed)
                      /\ Newest(P(n), X) # {} => Get(n, X) = Newest(P(n), X)
    BY DEF ReadsCommitted
  <2> DEFINE s == stored[n]
             a == applied[n]
             p == P(n)
  <2>1. /\ committed \in Seq(Entry) /\ Len(committed) \in Nat
        /\ DOMAIN committed = 1 .. Len(committed)
        /\ a \in Nat /\ a <= Len(committed) /\ a \in 0 .. Len(committed)
    BY StoreFacts, EntrySeq DEF Inv
  <2>2. Len(p) = a /\ DOMAIN p = 1 .. a /\ \A i \in 1 .. a : p[i] = committed[i]
    BY <2>1, PrefixOf, EntrySeq DEF Same
  <2>3. /\ s \in Seq(Entry) /\ a <= Len(s) /\ Len(s) \in Nat /\ DOMAIN s = 1 .. Len(s)
        /\ \A i \in 1 .. a : s[Len(s) - a + i] = committed[i]
        /\ \A i \in 1 .. Len(s) : \E j \in 1 .. Len(committed) : s[i] = committed[j]
    BY EntrySeq DEF StoreInv, Filled
  <2>4. Get(n, X) = Newest(s, X)
    BY DEF Get
  <2> HIDE DEF s, a, p
  <2>5. Newest(s, X) \subseteq ToSet(committed)
    <3> SUFFICES ASSUME NEW i \in DOMAIN s PROVE s[i] \in ToSet(committed)
      BY DEF Newest
    <3> QED
      BY <2>1, <2>3 DEF ToSet
  <2>6. ASSUME Newest(p, X) # {} PROVE Newest(s, X) = Newest(p, X)
    <3>1. PICK i \in DOMAIN p : p[i].req \in X /\ \A h \in DOMAIN p : p[h].req \in X => h <= i
      BY <2>6 DEF Newest
    <3>2. Newest(p, X) = {committed[i]} /\ i \in 1 .. a /\ committed[i].req \in X
      <4>1. DOMAIN p \in SUBSET Nat /\ i \in 1 .. a /\ p[i] = committed[i]
        BY <2>1, <2>2
      <4> QED
        BY <3>1, <4>1, NewestIs
    <3> DEFINE off == Len(s) - a
    <3>3. off \in Nat /\ off + i \in DOMAIN s /\ s[off + i] = committed[i]
          /\ DOMAIN s \in SUBSET Nat
      BY <2>1, <2>3, <3>2
    <3>4. ASSUME NEW h \in DOMAIN s, s[h].req \in X PROVE h <= off + i
      <4>1. CASE h <= off
        BY <2>3, <3>2, <3>3, <4>1
      <4>2. CASE h > off
        <5>1. h - off \in 1 .. a /\ Len(s) - a + (h - off) = h
          BY <2>1, <2>3, <3>3, <4>2
        <5>2. s[h] = committed[h - off]
          BY <2>3, <5>1
        <5>3. h - off <= i
          BY <2>2, <3>1, <3>4, <5>1, <5>2
        <5> QED
          BY <2>3, <3>2, <3>3, <5>3
      <4> QED
        BY <2>3, <3>3, <4>1, <4>2
    <3> HIDE DEF off
    <3>5. Newest(s, X) = {s[off + i]}
      BY <3>2, <3>3, <3>4, NewestIs
    <3> QED
      BY <3>2, <3>3, <3>5
  <2> QED
    BY <2>1, <2>4, <2>5, <2>6 DEF a, p
<1> QED
  BY <1>1, <1>2, StoreInvariance, PTL

(* A request answered 200 is in the committed log from then on, whatever    *)
(* crashes and changes of leader follow (the run write_nosync shows that    *)
(* the default of noSync breaks this).                                      *)
THEOREM AnswersKept ==
  ASSUME noSync = "false"
  PROVE  Spec => []AnsweredKept
<1>1. ~GetNoSync
  BY DEF GetNoSync
<1>2. Inv => AnsweredKept
  <2> SUFFICES ASSUME Inv, NEW r \in Requests, phase[r] = "ok"
               PROVE  r \in ToSet(CommittedRequests)
    BY DEF AnsweredKept
  <2>1. PICK i \in DOMAIN committed : committed[i].req = r
    BY DEF Inv, CallInv, Call, InLog
  <2>2. CommittedRequests[i] = r /\ DOMAIN CommittedRequests = DOMAIN committed
    BY <2>1 DEF CommittedRequests
  <2> QED
    BY <2>2 DEF ToSet
<1> QED
  BY <1>1, <1>2, Invariance, PTL

(* No step takes an entry out of the committed log or changes one: it only  *)
(* grows at its end.                                                        *)
THEOREM LogKeeps ==
  ASSUME noSync = "false"
  PROVE  Spec => CommittedKept
<1>1. ~GetNoSync
  BY DEF GetNoSync
<1>2. Inv /\ Inv' /\ [Next]_vars => [IsPrefix(committed, committed')]_vars
  <2> SUFFICES ASSUME Inv, Inv', [Next]_vars PROVE IsPrefix(committed, committed')
    OBVIOUS
  <2>1. Lengthens
    BY <1>1, NextSafe, StutterSafe
  <2>2. committed \in Seq(Entry) /\ committed' \in Seq(Entry)
    BY DEF Inv, RaftInv, LogInv, RaftType
  <2> QED
    BY <2>1, <2>2, PrefixIffSame DEF Lengthens
<1> QED
  BY <1>1, <1>2, Invariance, PTL DEF Spec, CommittedKept
=============================================================================
