------------------------- MODULE WriteBatcher_proof -------------------------
(***************************************************************************)
(* Proofs about WriteBatcher, for any requests, keys, executors and        *)
(* channel capacities.                                                     *)
(***************************************************************************)
EXTENDS WriteBatcher, SequenceTheorems, Extrema

-----------------------------------------------------------------------------
(* Sequences and capacities.                                                *)

LEMMA Capacities == ReqChCap \in Nat /\ BatchChCap \in Nat
<1>1. Cardinality(Executors) \in Nat
  BY BatcherAssumption, FS_CardinalityType
<1> QED
  BY <1>1, BatcherAssumption DEF ReqChCap, BatchChCap

LEMMA HeadTail ==
  ASSUME NEW S, NEW s \in Seq(S), s # <<>>
  PROVE  /\ Head(s) \in S /\ Tail(s) \in Seq(S)
         /\ Len(Tail(s)) = Len(s) - 1
         /\ Len(s) \in Nat \ {0}
BY HeadTailProperties, LenProperties, EmptySeq

(* The map executeBatch builds holds, for each key, the value of a request  *)
(* of the batch that writes the key.                                        *)
LEMMA LastWriterWrites ==
  ASSUME NEW b \in Seq(Requests), NEW k \in Written(b)
  PROVE  LastWriter(b, k) \in Range(b) /\ keyOf[LastWriter(b, k)] = k
<1> DEFINE T == {i \in DOMAIN b : keyOf[b[i]] = k}
<1>1. T \in SUBSET (0 .. Len(b)) /\ T # {} /\ Len(b) \in Nat
  BY LenProperties DEF Written, Range
<1>2. \E i \in DOMAIN b : keyOf[b[i]] = k /\ \A j \in DOMAIN b : keyOf[b[j]] = k => j <= i
  BY <1>1, MaxExists
<1> QED
  BY <1>2 DEF LastWriter, Range

LEMMA CommitType ==
  ASSUME TypeOK, NEW b \in Seq(Requests), Commit(b)
  PROVE  applied' \in SUBSET Requests /\ store' \in [Keys -> Requests \cup {NoValue}]
<1>1. Range(b) \subseteq Requests
  BY DEF Range
<1> QED
  BY <1>1, LastWriterWrites DEF Commit, Updated, TypeOK

(* A batch under construction or under way is never empty, so executeBatch  *)
(* has a first request to answer.                                           *)
NonEmpty ==
  /\ runPc \in {"drain", "send"} => batch # <<>>
  /\ \A i \in DOMAIN batchCh : batchCh[i] # <<>>
  /\ \A w \in Workers : exec[w].at \in {"apply", "reply"} => exec[w].batch # <<>>
  /\ \A b \in limbo : b # <<>>

TypeInv == TypeOK /\ NonEmpty

USE DEF Batches

LEMMA TypeInit == Init => TypeInv
<1> SUFFICES ASSUME Init PROVE TypeInv
  OBVIOUS
<1>1. \A S : <<>> \in Seq(S) /\ Len(<<>>) = 0
  BY EmptySeq
<1>2. Idle \in [at : {"idle", "apply", "reply", "exited"}, batch : Batches, err : Answers]
  BY <1>1 DEF Idle, Answers
<1>3. TypeOK
  BY <1>1, <1>2, Capacities, BatcherAssumption DEF Init, TypeOK, Answers, Batches
<1>4. NonEmpty
  BY <1>1 DEF Init, NonEmpty, Idle
<1> QED
  BY <1>3, <1>4 DEF TypeInv

LEMMA ReturnsType ==
  ASSUME TypeInv, NEW w \in Workers, exec[w].at = "apply", NEW err \in Answers,
         ApplyReturns(w, err)
  PROVE  /\ exec' \in [Workers -> [at    : {"idle", "apply", "reply", "exited"},
                                   batch : Batches,
                                   err   : Answers]]
         /\ \A v \in Workers : exec'[v].at \in {"apply", "reply"} => exec'[v].batch # <<>>
<1>1. exec' = [v \in Workers |->
                IF v = w THEN [exec[v] EXCEPT !.at = "reply", !.err = err] ELSE exec[v]]
  BY DEF ApplyReturns, TypeInv, TypeOK
<1>2. /\ \A v \in Workers : exec[v] \in [at    : {"idle", "apply", "reply", "exited"},
                                       batch : Batches,
                                       err   : Answers]
      /\ exec[w].batch # <<>>
      /\ \A v \in Workers : exec[v].at \in {"apply", "reply"} => exec[v].batch # <<>>
  BY DEF TypeInv, TypeOK, NonEmpty
<1> QED
  BY <1>1, <1>2

LEMMA TypeNext == TypeInv /\ [Next]_vars => TypeInv'
<1> SUFFICES ASSUME TypeInv, [Next]_vars PROVE TypeInv'
  OBVIOUS
<1> USE DEF TypeInv, Answers
<1>t. TypeOK /\ NonEmpty
  OBVIOUS
<1>1. ASSUME NEW r \in Requests, Submit(r) PROVE TypeInv'
  BY <1>1 DEF Submit, TypeOK, NonEmpty, runVars, raftVars
<1>2. ASSUME NEW r \in Requests, Enqueue(r) PROVE TypeInv'
  BY <1>2, AppendProperties, Capacities DEF Enqueue, TypeOK, NonEmpty, runVars, raftVars
<1>3. ASSUME NEW r \in Requests, ReceiveAnswer(r) PROVE TypeInv'
  BY <1>3 DEF ReceiveAnswer, TypeOK, NonEmpty, runVars, raftVars
<1>4. ASSUME NEW r \in Requests, GiveUp(r) PROVE TypeInv'
  BY <1>4 DEF GiveUp, TypeOK, NonEmpty, runVars, raftVars
<1>5. CASE TakeFirst
  BY <1>5, HeadTail, Capacities, BatcherAssumption
  DEF TakeFirst, TypeOK, NonEmpty, submitVars, raftVars
<1>6. CASE StopWaiting
  BY <1>6 DEF StopWaiting, TypeOK, NonEmpty, submitVars, raftVars
<1>7. CASE DrainOne
  BY <1>7, HeadTail, AppendProperties, Capacities, BatcherAssumption
  DEF DrainOne, TypeOK, NonEmpty, submitVars, raftVars
<1>8. CASE DrainDone
  BY <1>8 DEF DrainDone, TypeOK, NonEmpty, submitVars, raftVars
<1>9. CASE SendBatch
  BY <1>9, AppendProperties, EmptySeq, Capacities, BatcherAssumption
  DEF SendBatch, TypeOK, NonEmpty, submitVars, raftVars
<1>10. CASE ExecuteInline
  BY <1>10, EmptySeq, BatcherAssumption
  DEF ExecuteInline, TypeOK, NonEmpty, submitVars, raftVars, Workers
<1>11. CASE InlineDone
  BY <1>11 DEF InlineDone, TypeOK, NonEmpty, submitVars, raftVars
<1>12. CASE CloseBatchCh
  BY <1>12 DEF CloseBatchCh, TypeOK, NonEmpty, submitVars, raftVars
<1>13. CASE JoinExecutors
  BY <1>13 DEF JoinExecutors, TypeOK, NonEmpty, submitVars, raftVars
<1>14. ASSUME NEW w \in Workers, TakeBatch(w) PROVE TypeInv'
  BY <1>14, HeadTail, HeadTailProperties, Capacities, SMTT(20)
  DEF TakeBatch, TypeOK, NonEmpty, submitVars, runVars, raftVars
<1>15. ASSUME NEW w \in Workers, ExitExecutor(w) PROVE TypeInv'
  BY <1>15 DEF ExitExecutor, TypeOK, NonEmpty, submitVars, runVars, raftVars
<1>16. ASSUME NEW w \in Workers, ApplyCommits(w) PROVE TypeInv'
  <2>1. exec[w].batch \in Seq(Requests)
    BY DEF TypeOK
  <2>2. applied' \in SUBSET Requests /\ store' \in [Keys -> Requests \cup {NoValue}]
    BY <1>16, <2>1, CommitType DEF ApplyCommits
  <2> QED
    BY <1>16, <2>2, ReturnsType DEF ApplyCommits, TypeOK, NonEmpty, submitVars, runVars
<1>17. ASSUME NEW w \in Workers, ApplyRejected(w) PROVE TypeInv'
  BY <1>17, ReturnsType DEF ApplyRejected, TypeOK, NonEmpty, submitVars, runVars, raftVars
<1>18. ASSUME NEW w \in Workers, ApplyAmbiguous(w) PROVE TypeInv'
  <2>1. exec[w].batch \in Batches /\ exec[w].batch # <<>>
    BY <1>18 DEF ApplyAmbiguous, TypeOK, NonEmpty
  <2>2. limbo' \in SUBSET Batches /\ \A b \in limbo' : b # <<>>
    BY <1>18, <2>1 DEF ApplyAmbiguous, TypeOK, NonEmpty
  <2> QED
    BY <1>18, <2>2, ReturnsType DEF ApplyAmbiguous, TypeOK, NonEmpty, submitVars, runVars
<1>19. ASSUME NEW b \in limbo, LateCommit(b) PROVE TypeInv'
  <2>1. applied' \in SUBSET Requests /\ store' \in [Keys -> Requests \cup {NoValue}]
    BY <1>19, CommitType DEF LateCommit, TypeOK
  <2> QED
    BY <1>19, <2>1 DEF LateCommit, TypeOK, NonEmpty, submitVars, runVars
<1>20. ASSUME NEW b \in limbo, LateDrop(b) PROVE TypeInv'
  BY <1>20 DEF LateDrop, TypeOK, NonEmpty, submitVars, runVars
<1>21. ASSUME NEW w \in Workers, Reply(w) PROVE TypeInv'
  <2> DEFINE b == exec[w].batch
  <2>1. b \in Seq(Requests) /\ b # <<>>
    BY <1>21 DEF Reply, TypeOK, NonEmpty
  <2>2. Head(b) \in Requests /\ Tail(b) \in Seq(Requests) /\ (Len(b) # 1 => Tail(b) # <<>>)
    <3> HIDE DEF b
    <3>1. Len(<<>>) = 0
      OBVIOUS
    <3>2. Len(Tail(b)) = Len(b) - 1 /\ Len(b) \in Nat
      BY <2>1, HeadTail
    <3>3. Head(b) \in Requests /\ Tail(b) \in Seq(Requests)
      BY <2>1, HeadTail
    <3>4. ASSUME Tail(b) = <<>> PROVE Len(b) = 1
      <4>1. Len(Tail(b)) = 0
        BY <3>1, <3>4
      <4> QED
        BY <4>1, <3>2
    <3> QED
      BY <3>3, <3>4
  <2>3. <<>> \in Seq(Requests)
    BY EmptySeq
  <2>4. TypeOK'
    <3>1. [exec[w] EXCEPT !.batch = Tail(b)]
            \in [at : {"idle", "apply", "reply", "exited"}, batch : Batches, err : Answers]
      BY <2>2 DEF TypeOK
    <3> QED
      BY <1>21, <2>2, <2>3, <3>1 DEF Reply, Idle, TypeOK, runVars, raftVars
  <2>5. NonEmpty'
    BY <1>21, <2>2 DEF Reply, Idle, TypeOK, NonEmpty, runVars, raftVars
  <2> QED
    BY <2>4, <2>5
<1>22. CASE CloseStopCh \/ CloseStep \/ Finished \/ UNCHANGED vars
  BY <1>22 DEF CloseStopCh, CloseStep, StopReturns, ShutdownRaft, CloseStore, Finished, vars,
     TypeOK, NonEmpty, submitVars, runVars, raftVars
<1> QED
  BY <1>1, <1>2, <1>3, <1>4, <1>5, <1>6, <1>7, <1>8, <1>9, <1>10, <1>11, <1>12, <1>13,
     <1>14, <1>15, <1>16, <1>17, <1>18, <1>19, <1>20, <1>21, <1>22
  DEF Next, SubmitStep, RunStep, WorkerStep

(* Type correctness, and no channel or batch ever over its capacity.        *)
THEOREM TypeCorrect == Spec => []TypeOK
<1>1. TypeInv => TypeOK
  BY DEF TypeInv
<1> QED
  BY <1>1, TypeInit, TypeNext, PTL DEF Spec

-----------------------------------------------------------------------------
(***************************************************************************)
(* Implementation of WriteService.  A request passes through six stages on *)
(* its way to the store.  The invariant Flow says that no request is in    *)
(* two stages, nor twice in the stages that take requests or batches out   *)
(* one by one; so what an executor or Raft commits has not been applied    *)
(* before, and only what is applied is answered with nil.                  *)
(***************************************************************************)
Queued     == Range(reqCh)
Collecting == Range(batch)
Sent       == UNION {Range(batchCh[i]) : i \in DOMAIN batchCh}
Proposing  == UNION {Range(exec[w].batch) : w \in {v \in Workers : exec[v].at = "apply"}}
InLimbo    == UNION {Range(b) : b \in limbo}

Apart ==
  /\ Queued \cap (Collecting \cup Sent \cup Proposing \cup InLimbo \cup applied) = {}
  /\ Collecting \cap (Sent \cup Proposing \cup InLimbo \cup applied) = {}
  /\ Sent \cap (Proposing \cup InLimbo \cup applied) = {}
  /\ Proposing \cap (InLimbo \cup applied) = {}
  /\ InLimbo \cap applied = {}

Submitted ==
  \A r \in Queued \cup Collecting \cup Sent \cup Proposing \cup InLimbo \cup applied :
    pc[r] \notin {"idle", "sending"}

QueueDistinct == \A i, j \in DOMAIN reqCh : i # j => reqCh[i] # reqCh[j]

SentDistinct ==
  \A i, j \in DOMAIN batchCh : i # j => Range(batchCh[i]) \cap Range(batchCh[j]) = {}

ProposingDistinct ==
  \A v, w \in Workers :
    v # w /\ exec[v].at = "apply" /\ exec[w].at = "apply" =>
      Range(exec[v].batch) \cap Range(exec[w].batch) = {}

LimboDistinct == \A a, b \in limbo : a # b => Range(a) \cap Range(b) = {}

Truthful ==
  /\ \A r \in Requests : errCh[r] = "nil" => r \in applied
  /\ \A w \in Workers : exec[w].at = "reply" /\ exec[w].err = "nil" =>
       Range(exec[w].batch) \subseteq applied

Distinct == QueueDistinct /\ SentDistinct /\ ProposingDistinct /\ LimboDistinct

Flow == Apart /\ Submitted /\ Distinct /\ Truthful

IndInv == TypeInv /\ Flow

LEMMA RangeTail ==
  ASSUME NEW S, NEW s \in Seq(S), s # <<>>
  PROVE  /\ Range(Tail(s)) \subseteq Range(s)
         /\ Head(s) \in Range(s)
         /\ (\A i, j \in DOMAIN s : i # j => s[i] # s[j]) =>
               /\ Head(s) \notin Range(Tail(s))
               /\ \A i, j \in DOMAIN Tail(s) : i # j => Tail(s)[i] # Tail(s)[j]
<1>1. Len(s) \in Nat /\ Len(s) > 0 /\ DOMAIN s = 1 .. Len(s)
  BY HeadTail, LenProperties
<1>2. /\ Len(Tail(s)) = Len(s) - 1
      /\ \A i \in 1 .. Len(Tail(s)) : Tail(s)[i] = s[i + 1]
      /\ DOMAIN Tail(s) = 1 .. Len(Tail(s))
      /\ Head(s) = s[1]
  BY HeadTailProperties, HeadTail, LenProperties
<1>3. Range(Tail(s)) \subseteq Range(s)
  BY <1>1, <1>2 DEF Range
<1>4. Head(s) \in Range(s)
  BY <1>1, <1>2 DEF Range
<1>5. ASSUME \A i, j \in DOMAIN s : i # j => s[i] # s[j]
      PROVE  /\ Head(s) \notin Range(Tail(s))
             /\ \A i, j \in DOMAIN Tail(s) : i # j => Tail(s)[i] # Tail(s)[j]
  <2>1. \A i \in DOMAIN Tail(s) : i + 1 \in DOMAIN s /\ i + 1 # 1
    BY <1>1, <1>2
  <2>2. \A i, j \in DOMAIN Tail(s) : i # j => i + 1 # j + 1
    BY <1>1, <1>2
  <2> QED
    BY <1>1, <1>2, <1>5, <2>1, <2>2 DEF Range
<1> QED
  BY <1>3, <1>4, <1>5

LEMMA RangeAppend ==
  ASSUME NEW S, NEW s \in Seq(S), NEW x \in S
  PROVE  /\ Range(Append(s, x)) = Range(s) \cup {x}
         /\ x \notin Range(s) /\ (\A i, j \in DOMAIN s : i # j => s[i] # s[j]) =>
              \A i, j \in DOMAIN Append(s, x) : i # j => Append(s, x)[i] # Append(s, x)[j]
<1>1. /\ DOMAIN s = 1 .. Len(s) /\ Len(s) \in Nat
      /\ DOMAIN Append(s, x) = 1 .. Len(s) + 1
      /\ \A i \in 1 .. Len(s) : Append(s, x)[i] = s[i]
      /\ Append(s, x)[Len(s) + 1] = x
  BY AppendProperties, LenProperties
<1> HIDE DEF Batches
<1>2. \A i \in 1 .. Len(s) + 1 : i \in 1 .. Len(s) \/ i = Len(s) + 1
  BY <1>1
<1>3. \A i \in 1 .. Len(s) : i \in 1 .. Len(s) + 1
  BY <1>1
<1>4. Len(s) + 1 \in 1 .. Len(s) + 1
  BY <1>1
<1> QED
  BY <1>1, <1>2, <1>3, <1>4 DEF Range

LEMMA FlowInit == Init => Flow
<1> SUFFICES ASSUME Init PROVE Flow
  OBVIOUS
<1>1. /\ reqCh = <<>> /\ batch = <<>> /\ batchCh = <<>> /\ limbo = {} /\ applied = {}
      /\ \A w \in Workers : exec[w].at = "idle"
      /\ \A r \in Requests : errCh[r] = "none"
  BY DEF Init, Idle
<1>2. DOMAIN <<>> = {}
  OBVIOUS
<1>3. Queued = {} /\ Collecting = {} /\ Sent = {} /\ Proposing = {} /\ InLimbo = {}
  BY <1>1, <1>2 DEF Queued, Collecting, Sent, Proposing, InLimbo, Range
<1> QED
  BY <1>1, <1>2, <1>3 DEF Flow, Apart, Submitted, Distinct, QueueDistinct, SentDistinct,
     ProposingDistinct, LimboDistinct, Truthful

(* The stages only depend on these variables.                               *)
LEMMA FlowUnchanged ==
  ASSUME Flow, UNCHANGED <<errCh, reqCh, batch, batchCh, exec, limbo, applied>>,
         \A r \in Requests : pc[r] \notin {"idle", "sending"} =>
                             pc'[r] \notin {"idle", "sending"},
         TypeOK
  PROVE  Flow'
<1>1. /\ Queued' = Queued /\ Collecting' = Collecting /\ Sent' = Sent
      /\ Proposing' = Proposing /\ InLimbo' = InLimbo /\ applied' = applied
  BY DEF Queued, Collecting, Sent, Proposing, InLimbo
<1>2. /\ Queued \subseteq Requests /\ Collecting \subseteq Requests /\ Sent \subseteq Requests
      /\ Proposing \subseteq Requests /\ InLimbo \subseteq Requests /\ applied \subseteq Requests
  BY DEF TypeOK, Queued, Collecting, Sent, Proposing, InLimbo, Range
<1>3. Apart'
  BY <1>1 DEF Flow, Apart
<1>4. Submitted'
  BY <1>1, <1>2 DEF Flow, Submitted
<1>5. Distinct'
  BY DEF Flow, Distinct, QueueDistinct, SentDistinct, ProposingDistinct, LimboDistinct
<1>6. Truthful'
  BY DEF Flow, Truthful
<1> QED
  BY <1>3, <1>4, <1>5, <1>6 DEF Flow

LEMMA StagesType ==
  ASSUME TypeOK
  PROVE  /\ Queued \subseteq Requests /\ Collecting \subseteq Requests /\ Sent \subseteq Requests
         /\ Proposing \subseteq Requests /\ InLimbo \subseteq Requests /\ applied \subseteq Requests
BY DEF TypeOK, Queued, Collecting, Sent, Proposing, InLimbo, Range

LEMMA FlowEnqueue ==
  ASSUME IndInv, NEW r \in Requests, Enqueue(r)
  PROVE  Flow'
<1> USE DEF IndInv, TypeInv
<1>1. Queued' = Queued \cup {r}
  BY RangeAppend DEF Enqueue, Queued, TypeOK
<1>2. /\ Collecting' = Collecting /\ Sent' = Sent /\ Proposing' = Proposing
      /\ InLimbo' = InLimbo /\ applied' = applied
  BY DEF Enqueue, Collecting, Sent, Proposing, InLimbo, runVars, raftVars
<1>3. r \notin Queued \cup Collecting \cup Sent \cup Proposing \cup InLimbo \cup applied
  BY DEF Enqueue, Flow, Submitted
<1>4. Apart'
  BY <1>1, <1>2, <1>3 DEF Flow, Apart
<1>5. Submitted'
  BY <1>1, <1>2, StagesType DEF Flow, Submitted, Enqueue, TypeOK
<1>6. QueueDistinct'
  <2>1. /\ reqCh \in Seq(Requests) /\ reqCh' = Append(reqCh, r)
        /\ r \notin Range(reqCh) /\ QueueDistinct
    BY <1>3 DEF Enqueue, TypeOK, Queued, Flow, Distinct
  <2>2. \A i, j \in DOMAIN Append(reqCh, r) :
          i # j => Append(reqCh, r)[i] # Append(reqCh, r)[j]
    BY <2>1, RangeAppend DEF QueueDistinct
  <2> QED
    BY <2>1, <2>2 DEF QueueDistinct
<1>7. SentDistinct' /\ ProposingDistinct' /\ LimboDistinct'
  BY DEF Flow, Distinct, SentDistinct, ProposingDistinct, LimboDistinct, Enqueue, raftVars
<1>8. Truthful'
  BY DEF Flow, Truthful, Enqueue, raftVars
<1> QED
  BY <1>4, <1>5, <1>6, <1>7, <1>8 DEF Flow, Distinct

(* Taking requests out of the queue, the first one or the next.             *)
LEMMA FlowTake ==
  ASSUME IndInv, TakeFirst \/ DrainOne
  PROVE  Flow'
<1> USE DEF IndInv, TypeInv
<1>1. /\ reqCh # <<>> /\ reqCh' = Tail(reqCh) /\ reqCh \in Seq(Requests)
      /\ UNCHANGED <<pc, errCh, batchCh, exec, limbo, applied>>
  BY DEF TakeFirst, DrainOne, TypeOK, submitVars, raftVars
<1> DEFINE h == Head(reqCh)
<1>2. /\ h \in Queued /\ Queued' \subseteq Queued /\ h \notin Queued' /\ QueueDistinct'
  BY <1>1, RangeTail DEF Queued, Flow, Distinct, QueueDistinct
<1>3. Collecting' \subseteq Collecting \cup {h}
  <2>1. h \in Requests /\ batch \in Seq(Requests)
    BY <1>1, HeadTail DEF TypeOK
  <2>2. CASE TakeFirst
    BY <2>2 DEF TakeFirst, Collecting, Range
  <2>3. CASE DrainOne
    BY <2>1, <2>3, RangeAppend DEF DrainOne, Collecting
  <2> QED
    BY <2>2, <2>3
<1>4. Sent' = Sent /\ Proposing' = Proposing /\ InLimbo' = InLimbo /\ applied' = applied
  BY <1>1 DEF Sent, Proposing, InLimbo
<1> HIDE DEF h
<1>5. Apart'
  BY <1>2, <1>3, <1>4 DEF Flow, Apart
<1>6. Submitted'
  BY <1>1, <1>2, <1>3, <1>4 DEF Flow, Submitted
<1>7. SentDistinct' /\ ProposingDistinct' /\ LimboDistinct' /\ Truthful'
  BY <1>1 DEF Flow, Distinct, SentDistinct, ProposingDistinct, LimboDistinct, Truthful
<1> QED
  BY <1>2, <1>5, <1>6, <1>7 DEF Flow, Distinct

LEMMA FlowSend ==
  ASSUME IndInv, SendBatch
  PROVE  Flow'
<1> USE DEF IndInv, TypeInv
<1>1. /\ batchCh' = Append(batchCh, batch) /\ batch' = <<>>
      /\ batchCh \in Seq(Batches) /\ batch \in Batches
      /\ UNCHANGED <<pc, errCh, reqCh, exec, limbo, applied>>
  BY DEF SendBatch, TypeOK, submitVars, raftVars
<1>2. /\ DOMAIN batchCh = 1 .. Len(batchCh) /\ Len(batchCh) \in Nat
      /\ DOMAIN batchCh' = 1 .. Len(batchCh) + 1
      /\ \A i \in DOMAIN batchCh : batchCh'[i] = batchCh[i]
      /\ batchCh'[Len(batchCh) + 1] = batch
  <2> HIDE DEF Batches
  <2> QED
    BY <1>1, AppendProperties, LenProperties
<1>3. \A i \in DOMAIN batchCh' :
        \/ i \in DOMAIN batchCh /\ batchCh'[i] = batchCh[i]
        \/ i = Len(batchCh) + 1 /\ batchCh'[i] = batch
  BY <1>2
<1>4. Sent' \subseteq Sent \cup Collecting
  BY <1>3 DEF Sent, Collecting
<1>5. Collecting' = {}
  BY <1>1 DEF Collecting, Range
<1>6. Queued' = Queued /\ Proposing' = Proposing /\ InLimbo' = InLimbo /\ applied' = applied
  BY <1>1 DEF Queued, Proposing, InLimbo
<1>7. Apart'
  BY <1>4, <1>5, <1>6 DEF Flow, Apart
<1>8. Submitted'
  BY <1>1, <1>4, <1>5, <1>6 DEF Flow, Submitted
<1>9. SentDistinct'
  <2>1. \A i \in DOMAIN batchCh : Range(batchCh[i]) \cap Range(batch) = {}
    BY DEF Flow, Apart, Sent, Collecting
  <2>2. SentDistinct
    BY DEF Flow, Distinct
  <2> QED
    BY <1>2, <1>3, <2>1, <2>2 DEF SentDistinct
<1>10. QueueDistinct' /\ ProposingDistinct' /\ LimboDistinct' /\ Truthful'
  BY <1>1 DEF Flow, Distinct, QueueDistinct, ProposingDistinct, LimboDistinct, Truthful
<1> QED
  BY <1>7, <1>8, <1>9, <1>10 DEF Flow, Distinct

LEMMA FlowTakeBatch ==
  ASSUME IndInv, NEW w \in Workers, TakeBatch(w)
  PROVE  Flow'
<1> USE DEF IndInv, TypeInv
<1>1. /\ batchCh # <<>> /\ batchCh' = Tail(batchCh) /\ batchCh \in Seq(Batches)
      /\ UNCHANGED <<pc, errCh, reqCh, batch, limbo, applied>>
  BY DEF TakeBatch, TypeOK, submitVars, runVars, raftVars
<1> DEFINE h == Head(batchCh)
           X == Range(h)
<1>e. /\ exec'[w].at = "apply" /\ exec'[w].batch = h
      /\ \A v \in Workers : v # w => exec'[v] = exec[v]
  BY DEF TakeBatch, TypeOK
<1>2. /\ \A i \in DOMAIN batchCh' : i + 1 \in DOMAIN batchCh /\ i + 1 # 1
      /\ \A i \in DOMAIN batchCh' : batchCh'[i] = batchCh[i + 1]
      /\ \A i, j \in DOMAIN batchCh' : i # j => i + 1 # j + 1
      /\ 1 \in DOMAIN batchCh /\ Head(batchCh) = batchCh[1]
  <2> HIDE DEF Batches
  <2>1. /\ Len(batchCh) \in Nat /\ Len(batchCh) > 0 /\ DOMAIN batchCh = 1 .. Len(batchCh)
        /\ batchCh' \in Seq(Batches) /\ Len(batchCh') = Len(batchCh) - 1
        /\ DOMAIN batchCh' = 1 .. Len(batchCh')
    BY <1>1, HeadTail, LenProperties
  <2>2. /\ \A i \in 1 .. Len(batchCh') : batchCh'[i] = batchCh[i + 1]
        /\ Head(batchCh) = batchCh[1]
    BY <1>1, HeadTailProperties
  <2> QED
    BY <2>1, <2>2
<1>3. SentDistinct
  BY DEF Flow, Distinct
<1>4. X \subseteq Sent /\ Sent' \subseteq Sent
  BY <1>2 DEF Sent
<1>5. X \cap Sent' = {}
  BY <1>2, <1>3 DEF Sent, SentDistinct
<1> HIDE DEF h, IndInv, TypeInv
<1>f. Flow
  BY DEF IndInv
<1>6. Proposing' \subseteq Proposing \cup X
  BY <1>e DEF Proposing
<1>7. Queued' = Queued /\ Collecting' = Collecting /\ InLimbo' = InLimbo /\ applied' = applied
  BY <1>1 DEF Queued, Collecting, InLimbo
<1>8. \A v \in Workers : v # w /\ exec[v].at = "apply" => Range(exec[v].batch) \cap X = {}
  BY <1>4, <1>f DEF Flow, Apart, Proposing
<1>9. ProposingDistinct'
  BY <1>e, <1>8, <1>f DEF Flow, Distinct, ProposingDistinct
<1>10. SentDistinct'
  BY <1>2, <1>3 DEF SentDistinct
<1>11. Truthful'
  BY <1>1, <1>e, <1>f DEF Flow, Truthful
<1>12. QueueDistinct' /\ LimboDistinct'
  BY <1>1, <1>f DEF Flow, Distinct, QueueDistinct, LimboDistinct
<1> HIDE DEF X
<1>13. Apart'
  BY <1>4, <1>5, <1>6, <1>7, <1>f DEF Flow, Apart
<1>14. Submitted'
  BY <1>1, <1>4, <1>6, <1>7, <1>f DEF Flow, Submitted
<1> QED
  BY <1>9, <1>10, <1>11, <1>12, <1>13, <1>14 DEF Flow, Distinct

LEMMA FlowExecuteInline ==
  ASSUME IndInv, ExecuteInline
  PROVE  Flow'
<1> USE DEF IndInv, TypeInv
<1>1. /\ batch' = <<>> /\ RunLoop \in Workers
      /\ UNCHANGED <<pc, errCh, reqCh, batchCh, limbo, applied>>
      /\ exec'[RunLoop] = [at |-> "apply", batch |-> batch, err |-> "none"]
      /\ \A v \in Workers : v # RunLoop => exec'[v] = exec[v]
  BY DEF ExecuteInline, TypeOK, submitVars, raftVars, Workers
<1>2. Collecting' = {}
  BY <1>1 DEF Collecting, Range
<1>3. Proposing' \subseteq Proposing \cup Collecting
  BY <1>1 DEF Proposing, Collecting
<1>4. Queued' = Queued /\ Sent' = Sent /\ InLimbo' = InLimbo /\ applied' = applied
  BY <1>1 DEF Queued, Sent, InLimbo
<1>5. Apart'
  BY <1>2, <1>3, <1>4 DEF Flow, Apart
<1>6. Submitted'
  BY <1>1, <1>2, <1>3, <1>4 DEF Flow, Submitted
<1>7. \A v \in Workers : exec[v].at = "apply" => Range(exec[v].batch) \cap Range(batch) = {}
  BY DEF Flow, Apart, Proposing, Collecting
<1>8. ProposingDistinct'
  BY <1>1, <1>7 DEF Flow, Distinct, ProposingDistinct
<1>9. QueueDistinct' /\ SentDistinct' /\ LimboDistinct' /\ Truthful'
  BY <1>1 DEF Flow, Distinct, QueueDistinct, SentDistinct, LimboDistinct, Truthful
<1> QED
  BY <1>5, <1>6, <1>8, <1>9 DEF Flow, Distinct

LEMMA FlowCommit ==
  ASSUME IndInv, NEW w \in Workers, ApplyCommits(w)
  PROVE  Flow'
<1> DEFINE b == exec[w].batch
           X == Range(b)
<1>1. /\ UNCHANGED <<pc, errCh, reqCh, batch, batchCh, limbo>>
      /\ applied' = applied \cup X
      /\ exec[w].at = "apply"
  BY DEF ApplyCommits, Commit, submitVars, runVars
<1>e. /\ exec'[w].at = "reply" /\ exec'[w].batch = b
      /\ \A v \in Workers : v # w => exec'[v] = exec[v]
  BY DEF ApplyCommits, ApplyReturns, IndInv, TypeInv, TypeOK
<1>f. Flow
  BY DEF IndInv
<1>2. X \subseteq Proposing
  BY <1>1 DEF Proposing
<1>3. \A v \in Workers : v # w /\ exec[v].at = "apply" => Range(exec[v].batch) \cap X = {}
  BY <1>1, <1>f DEF Flow, Distinct, ProposingDistinct
<1>4. Proposing' \subseteq Proposing /\ Proposing' \cap X = {}
  BY <1>3, <1>e DEF Proposing
<1>5. Queued' = Queued /\ Collecting' = Collecting /\ Sent' = Sent /\ InLimbo' = InLimbo
  BY <1>1 DEF Queued, Collecting, Sent, InLimbo
<1>6. ProposingDistinct'
  BY <1>e, <1>f DEF Flow, Distinct, ProposingDistinct
<1>7. QueueDistinct' /\ SentDistinct' /\ LimboDistinct'
  BY <1>1, <1>f DEF Flow, Distinct, QueueDistinct, SentDistinct, LimboDistinct
<1>8. Truthful'
  BY <1>1, <1>e, <1>f DEF Flow, Truthful
<1> HIDE DEF X
<1>9. Apart'
  BY <1>1, <1>2, <1>4, <1>5, <1>f DEF Flow, Apart
<1>10. Submitted'
  BY <1>1, <1>2, <1>4, <1>5, <1>f DEF Flow, Submitted
<1> QED
  BY <1>6, <1>7, <1>8, <1>9, <1>10 DEF Flow, Distinct

LEMMA FlowRejected ==
  ASSUME IndInv, NEW w \in Workers, ApplyRejected(w)
  PROVE  Flow'
<1>1. UNCHANGED <<pc, errCh, reqCh, batch, batchCh, limbo, applied>>
  BY DEF ApplyRejected, submitVars, runVars, raftVars
<1>e. /\ exec'[w].at = "reply" /\ exec'[w].err = "error"
      /\ \A v \in Workers : v # w => exec'[v] = exec[v]
  BY DEF ApplyRejected, ApplyReturns, IndInv, TypeInv, TypeOK
<1>f. Flow
  BY DEF IndInv
<1>2. Proposing' \subseteq Proposing
  BY <1>e DEF Proposing
<1>3. /\ Queued' = Queued /\ Collecting' = Collecting /\ Sent' = Sent
      /\ InLimbo' = InLimbo /\ applied' = applied
  BY <1>1 DEF Queued, Collecting, Sent, InLimbo
<1>4. ProposingDistinct'
  BY <1>e, <1>f DEF Flow, Distinct, ProposingDistinct
<1>5. QueueDistinct' /\ SentDistinct' /\ LimboDistinct'
  BY <1>1, <1>f DEF Flow, Distinct, QueueDistinct, SentDistinct, LimboDistinct
<1>6. Truthful'
  BY <1>1, <1>e, <1>f DEF Flow, Truthful
<1>7. Apart'
  BY <1>2, <1>3, <1>f DEF Flow, Apart
<1>8. Submitted'
  BY <1>1, <1>2, <1>3, <1>f DEF Flow, Submitted
<1> QED
  BY <1>4, <1>5, <1>6, <1>7, <1>8 DEF Flow, Distinct

LEMMA FlowAmbiguous ==
  ASSUME IndInv, NEW w \in Workers, ApplyAmbiguous(w)
  PROVE  Flow'
<1> DEFINE b == exec[w].batch
           X == Range(b)
<1>1. /\ UNCHANGED <<pc, errCh, reqCh, batch, batchCh, applied>>
      /\ limbo' = limbo \cup {b}
      /\ exec[w].at = "apply"
  BY DEF ApplyAmbiguous, submitVars, runVars
<1>e. /\ exec'[w].at = "reply" /\ exec'[w].err = "error"
      /\ \A v \in Workers : v # w => exec'[v] = exec[v]
  BY DEF ApplyAmbiguous, ApplyReturns, IndInv, TypeInv, TypeOK
<1>f. Flow
  BY DEF IndInv
<1>2. X \subseteq Proposing
  BY <1>1 DEF Proposing
<1>3. \A v \in Workers : v # w /\ exec[v].at = "apply" => Range(exec[v].batch) \cap X = {}
  BY <1>1, <1>f DEF Flow, Distinct, ProposingDistinct
<1>4. Proposing' \subseteq Proposing /\ Proposing' \cap X = {}
  BY <1>3, <1>e DEF Proposing
<1>5. Queued' = Queued /\ Collecting' = Collecting /\ Sent' = Sent /\ applied' = applied
  BY <1>1 DEF Queued, Collecting, Sent
<1> HIDE DEF b
<1>6. InLimbo' = InLimbo \cup X
  BY <1>1 DEF InLimbo
<1>7. \A a \in limbo : Range(a) \cap X = {}
  BY <1>2, <1>f DEF Flow, Apart, InLimbo
<1>8. LimboDistinct'
  BY <1>1, <1>7, <1>f DEF Flow, Distinct, LimboDistinct
<1>9. ProposingDistinct'
  BY <1>e, <1>f DEF Flow, Distinct, ProposingDistinct
<1>10. QueueDistinct' /\ SentDistinct'
  BY <1>1, <1>f DEF Flow, Distinct, QueueDistinct, SentDistinct
<1>11. Truthful'
  BY <1>1, <1>e, <1>f DEF Flow, Truthful
<1> HIDE DEF X
<1>12. Apart'
  BY <1>2, <1>4, <1>5, <1>6, <1>f DEF Flow, Apart
<1>13. Submitted'
  BY <1>1, <1>2, <1>4, <1>5, <1>6, <1>f DEF Flow, Submitted
<1> QED
  BY <1>8, <1>9, <1>10, <1>11, <1>12, <1>13 DEF Flow, Distinct

LEMMA FlowLate ==
  ASSUME IndInv, NEW b \in limbo, LateCommit(b) \/ LateDrop(b)
  PROVE  Flow'
<1> DEFINE X == Range(b)
<1>1. /\ UNCHANGED <<pc, errCh, reqCh, batch, batchCh, exec>>
      /\ limbo' = limbo \ {b}
      /\ applied' = applied \/ applied' = applied \cup X
  BY DEF LateCommit, LateDrop, Commit, submitVars, runVars
<1>f. Flow
  BY DEF IndInv
<1>2. /\ Queued' = Queued /\ Collecting' = Collecting /\ Sent' = Sent
      /\ Proposing' = Proposing
  BY <1>1 DEF Queued, Collecting, Sent, Proposing
<1>3. X \subseteq InLimbo
  BY DEF InLimbo
<1>4. InLimbo' \subseteq InLimbo /\ InLimbo' \cap X = {}
  BY <1>1, <1>f DEF InLimbo, Flow, Distinct, LimboDistinct
<1>5. Distinct'
  BY <1>1, <1>f DEF Flow, Distinct, QueueDistinct, SentDistinct, ProposingDistinct, LimboDistinct
<1>6. Truthful'
  BY <1>1, <1>f DEF Flow, Truthful
<1> HIDE DEF X
<1>7. Apart'
  BY <1>1, <1>2, <1>3, <1>4, <1>f DEF Flow, Apart
<1>8. Submitted'
  BY <1>1, <1>2, <1>3, <1>4, <1>f DEF Flow, Submitted
<1> QED
  BY <1>5, <1>6, <1>7, <1>8 DEF Flow

(* Steps of the executors and callers that move no request to another      *)
(* stage: answering, receiving the answer and the exit of an executor.      *)
LEMMA FlowAnswer ==
  ASSUME IndInv, UNCHANGED <<reqCh, batch, batchCh, limbo, applied>>,
         \A v \in Workers : exec'[v].at = "apply" => exec'[v] = exec[v],
         \A v \in Workers : exec[v].at = "apply" => exec'[v] = exec[v],
         \A r \in Requests : pc[r] \notin {"idle", "sending"} =>
                             pc'[r] \notin {"idle", "sending"},
         Truthful'
  PROVE  Flow'
<1>f. Flow
  BY DEF IndInv
<1>1. /\ Queued' = Queued /\ Collecting' = Collecting /\ Sent' = Sent
      /\ InLimbo' = InLimbo /\ applied' = applied
  BY DEF Queued, Collecting, Sent, InLimbo
<1>2. Proposing' = Proposing
  BY DEF Proposing
<1>3. Apart'
  BY <1>1, <1>2, <1>f DEF Flow, Apart
<1>4. Submitted'
  BY <1>1, <1>2, <1>f, StagesType DEF Flow, Submitted, IndInv, TypeInv
<1>5. QueueDistinct' /\ SentDistinct' /\ LimboDistinct'
  BY <1>f DEF Flow, Distinct, QueueDistinct, SentDistinct, LimboDistinct
<1>6. ProposingDistinct'
  BY <1>f DEF Flow, Distinct, ProposingDistinct
<1> QED
  BY <1>3, <1>4, <1>5, <1>6 DEF Flow, Distinct

LEMMA FlowReceiveAnswer ==
  ASSUME IndInv, NEW r \in Requests, ReceiveAnswer(r)
  PROVE  Flow'
<1>1. Truthful'
  BY DEF ReceiveAnswer, raftVars, Truthful, IndInv, TypeInv, TypeOK, Flow
<1>2. \A q \in Requests : pc[q] \notin {"idle", "sending"} => pc'[q] \notin {"idle", "sending"}
  BY DEF ReceiveAnswer, IndInv, TypeInv, TypeOK
<1> QED
  BY <1>1, <1>2, FlowAnswer DEF ReceiveAnswer, runVars, raftVars

LEMMA FlowExit ==
  ASSUME IndInv, NEW w \in Workers, ExitExecutor(w)
  PROVE  Flow'
<1>1. /\ exec[w].at = "idle" /\ exec'[w].at = "exited"
      /\ \A v \in Workers : v # w => exec'[v] = exec[v]
  BY DEF ExitExecutor, IndInv, TypeInv, TypeOK
<1>2. Truthful'
  BY <1>1 DEF ExitExecutor, submitVars, raftVars, Truthful, IndInv, Flow
<1> QED
  BY <1>1, <1>2, FlowAnswer DEF ExitExecutor, submitVars, runVars, raftVars

LEMMA FlowReply ==
  ASSUME IndInv, NEW w \in Workers, Reply(w)
  PROVE  Flow'
<1> DEFINE b == exec[w].batch
           e == exec[w].err
<1>1. /\ exec[w].at = "reply" /\ b # <<>> /\ b \in Seq(Requests)
      /\ e = "nil" => Range(b) \subseteq applied
      /\ errCh \in [Requests -> Answers]
  BY DEF Reply, IndInv, TypeInv, TypeOK, NonEmpty, Flow, Truthful
<1>2. Head(b) \in Range(b) /\ Range(Tail(b)) \subseteq Range(b)
  <2> HIDE DEF b
  <2> QED
    BY <1>1, RangeTail
<1>3. \/ exec'[w] = Idle
      \/ exec'[w] = [exec[w] EXCEPT !.batch = Tail(b)]
  BY DEF Reply, IndInv, TypeInv, TypeOK
<1>4. \A v \in Workers : v # w => exec'[v] = exec[v]
  BY DEF Reply, IndInv, TypeInv, TypeOK
<1>5. \/ exec'[w].at = "idle"
      \/ exec'[w].at = "reply" /\ exec'[w].err = e /\ exec'[w].batch = Tail(b)
  <2>1. exec[w] \in [at : {"idle", "apply", "reply", "exited"}, batch : Batches, err : Answers]
    BY DEF IndInv, TypeInv, TypeOK
  <2>2. CASE exec'[w] = Idle
    BY <2>2 DEF Idle
  <2>3. CASE exec'[w] = [exec[w] EXCEPT !.batch = Tail(b)]
    BY <1>1, <2>1, <2>3 DEF Idle
  <2> QED
    BY <1>3, <2>2, <2>3
<1>6. /\ errCh' = [errCh EXCEPT ![Head(b)] = e]
      /\ UNCHANGED <<pc, reqCh, batch, batchCh, limbo, applied>>
  BY DEF Reply, runVars, raftVars
<1>7. Truthful
  BY DEF IndInv, Flow
<1> HIDE DEF b, e
<1>8. Truthful'
  BY <1>1, <1>2, <1>4, <1>5, <1>6, <1>7 DEF Truthful
<1>9. /\ \A v \in Workers : exec'[v].at = "apply" => exec'[v] = exec[v]
      /\ \A v \in Workers : exec[v].at = "apply" => exec'[v] = exec[v]
  BY <1>1, <1>4, <1>5
<1> QED
  BY <1>6, <1>8, <1>9, FlowAnswer

LEMMA IndInvNext == IndInv /\ [Next]_vars => IndInv'
<1> SUFFICES ASSUME IndInv, [Next]_vars PROVE IndInv'
  OBVIOUS
<1>t. TypeInv' /\ TypeOK /\ Flow
  BY TypeNext DEF IndInv, TypeInv
<1> SUFFICES Flow'
  BY <1>t DEF IndInv
<1>1. ASSUME NEW r \in Requests, Submit(r) \/ GiveUp(r) PROVE Flow'
  <2>1. \A q \in Requests : pc[q] \notin {"idle", "sending"} => pc'[q] \notin {"idle", "sending"}
    BY <1>1, <1>t DEF Submit, GiveUp, TypeOK
  <2> QED
    BY <1>1, <1>t, <2>1, FlowUnchanged DEF Submit, GiveUp, runVars, raftVars
<1>2. ASSUME NEW r \in Requests, Enqueue(r) PROVE Flow'
  BY <1>2, FlowEnqueue
<1>3. ASSUME NEW r \in Requests, ReceiveAnswer(r) PROVE Flow'
  BY <1>3, FlowReceiveAnswer
<1>4. CASE TakeFirst \/ DrainOne
  BY <1>4, FlowTake
<1>5. CASE StopWaiting \/ DrainDone \/ InlineDone \/ CloseBatchCh \/ JoinExecutors
  BY <1>5, <1>t, FlowUnchanged
  DEF StopWaiting, DrainDone, InlineDone, CloseBatchCh, JoinExecutors, submitVars, raftVars
<1>6. CASE SendBatch
  BY <1>6, FlowSend
<1>7. CASE ExecuteInline
  BY <1>7, FlowExecuteInline
<1>8. ASSUME NEW w \in Workers, WorkerStep(w) PROVE Flow'
  BY <1>8, FlowTakeBatch, FlowExit, FlowCommit, FlowRejected, FlowAmbiguous, FlowReply
  DEF WorkerStep
<1>9. ASSUME NEW b \in limbo, LateCommit(b) \/ LateDrop(b) PROVE Flow'
  BY <1>9, FlowLate
<1>10. CASE CloseStopCh \/ CloseStep \/ Finished \/ UNCHANGED vars
  BY <1>10, <1>t, FlowUnchanged
  DEF CloseStopCh, CloseStep, StopReturns, ShutdownRaft, CloseStore, Finished, vars,
      submitVars, runVars, raftVars
<1> QED
  BY <1>1, <1>2, <1>3, <1>4, <1>5, <1>6, <1>7, <1>8, <1>9, <1>10
  DEF Next, SubmitStep, RunStep

(* The inductive invariant holds: the stages of a request stay apart, and   *)
(* an answer nil is only on its way for a write that has been applied.      *)
THEOREM FlowHolds == Spec => []IndInv
<1>1. Init => IndInv
  BY TypeInit, FlowInit DEF IndInv
<1> QED
  BY <1>1, IndInvNext, PTL DEF Spec

-----------------------------------------------------------------------------
(* Committing a batch is one atomic step of the service.                    *)
LEMMA CommitIsApply ==
  ASSUME IndInv, NEW b \in Seq(Requests), b # <<>>, Commit(b),
         Range(b) \cap applied = {},
         \A r \in Range(b) : pc[r] # "idle",
         callState' = callState
  PROVE  Service!Apply(Range(b)) /\ Range(b) \in SUBSET Requests
<1> DEFINE S == Range(b)
<1>1. S # {}
  BY RangeTail
<1>2. S \subseteq Requests
  BY DEF Range
<1>3. \A r \in S : callState[r] # "idle"
  BY <1>2 DEF callState
<1>4. applied' = applied \cup S
  BY DEF Commit
<1>5. store' \in [Keys -> Requests \cup {NoValue}]
  BY CommitType DEF IndInv, TypeInv
<1>6. ASSUME NEW k \in Keys
      PROVE  LET writers == {r \in S : keyOf[r] = k}
             IN  IF writers = {} THEN store'[k] = store[k] ELSE store'[k] \in writers
  <2>1. store'[k] = IF k \in Written(b) THEN LastWriter(b, k) ELSE store[k]
    BY DEF Commit, Updated
  <2>2. CASE k \in Written(b)
    <3>1. LastWriter(b, k) \in S /\ keyOf[LastWriter(b, k)] = k
      BY <2>2, LastWriterWrites
    <3> QED
      BY <2>1, <2>2, <3>1
  <2>3. CASE k \notin Written(b)
    <3>1. {r \in S : keyOf[r] = k} = {}
      BY <2>3 DEF Written
    <3> QED
      BY <2>1, <2>3, <3>1
  <2> QED
    BY <2>2, <2>3
<1> QED
  BY <1>1, <1>2, <1>3, <1>4, <1>5, <1>6 DEF Service!Apply

LEMMA RefinesInit == Init => Service!Init
BY DEF Init, Service!Init, callState

LEMMA RefinesNext == IndInv /\ [Next]_vars => [Service!Next]_(Service!vars)
<1> SUFFICES ASSUME IndInv, [Next]_vars, ~(UNCHANGED Service!vars) PROVE Service!Next
  OBVIOUS
<1>t. TypeOK /\ NonEmpty /\ Flow
  BY DEF IndInv, TypeInv
<1>0. ASSUME UNCHANGED <<pc, applied, store>> PROVE FALSE
  BY <1>0 DEF Service!vars, callState
<1>c. pc' = pc => callState' = callState
  BY DEF callState
<1>1. ASSUME NEW r \in Requests, Submit(r) PROVE Service!Invoke(r)
  BY <1>1, <1>t DEF Submit, Service!Invoke, callState, TypeOK, raftVars
<1>2. ASSUME NEW r \in Requests, Enqueue(r) PROVE FALSE
  <2>1. callState' = callState
    BY <1>2, <1>t DEF Enqueue, callState, TypeOK
  <2> QED
    BY <1>2, <2>1 DEF Enqueue, raftVars, Service!vars
<1>3. ASSUME NEW r \in Requests, ReceiveAnswer(r)
      PROVE  Service!ReturnOk(r) \/ Service!ReturnError(r)
  <2>1. CASE errCh[r] = "nil"
    BY <1>3, <1>t, <2>1
    DEF ReceiveAnswer, Service!ReturnOk, callState, TypeOK, raftVars, Flow, Truthful
  <2>2. CASE errCh[r] # "nil"
    BY <1>3, <1>t, <2>2 DEF ReceiveAnswer, Service!ReturnError, callState, TypeOK, raftVars
  <2> QED
    BY <2>1, <2>2
<1>4. ASSUME NEW r \in Requests, GiveUp(r) PROVE Service!ReturnError(r)
  BY <1>4, <1>t DEF GiveUp, Service!ReturnError, callState, TypeOK, raftVars
<1>5. CASE RunStep
  BY <1>0, <1>5
  DEF RunStep, TakeFirst, StopWaiting, DrainOne, DrainDone, SendBatch, ExecuteInline,
      InlineDone, CloseBatchCh, JoinExecutors, submitVars, raftVars
<1>6. ASSUME NEW w \in Workers, ApplyCommits(w)
      PROVE  \E S \in SUBSET Requests : Service!Apply(S)
  <2> DEFINE b == exec[w].batch
  <2>1. b \in Seq(Requests) /\ b # <<>> /\ Commit(b)
    BY <1>6, <1>t DEF ApplyCommits, TypeOK, NonEmpty
  <2>2. Range(b) \subseteq Proposing
    BY <1>6 DEF ApplyCommits, Proposing
  <2>3. callState' = callState
    BY <1>6, <1>c DEF ApplyCommits, submitVars
  <2>4. Range(b) \cap applied = {} /\ \A r \in Range(b) : pc[r] # "idle"
    BY <2>2, <1>t DEF Flow, Apart, Submitted
  <2> HIDE DEF b
  <2> QED
    BY <2>1, <2>3, <2>4, CommitIsApply
<1>7. ASSUME NEW w \in Workers,
             TakeBatch(w) \/ ExitExecutor(w) \/ ApplyRejected(w) \/ ApplyAmbiguous(w) \/ Reply(w)
      PROVE  FALSE
  BY <1>0, <1>7
  DEF TakeBatch, ExitExecutor, ApplyRejected, ApplyAmbiguous, Reply, submitVars, raftVars
<1>8. ASSUME NEW b \in limbo, LateCommit(b)
      PROVE  \E S \in SUBSET Requests : Service!Apply(S)
  <2>1. b \in Seq(Requests) /\ b # <<>> /\ Commit(b)
    BY <1>8, <1>t DEF LateCommit, TypeOK, NonEmpty
  <2>2. Range(b) \subseteq InLimbo
    BY DEF InLimbo
  <2>3. callState' = callState
    BY <1>8, <1>c DEF LateCommit, submitVars
  <2>4. Range(b) \cap applied = {} /\ \A r \in Range(b) : pc[r] # "idle"
    BY <2>2, <1>t DEF Flow, Apart, Submitted
  <2> QED
    BY <2>1, <2>3, <2>4, CommitIsApply
<1>9. ASSUME NEW b \in limbo, LateDrop(b) PROVE FALSE
  BY <1>0, <1>9 DEF LateDrop, submitVars
<1>10. CASE CloseStopCh \/ CloseStep \/ Finished \/ UNCHANGED vars
  BY <1>0, <1>10
  DEF CloseStopCh, CloseStep, StopReturns, ShutdownRaft, CloseStore, Finished, vars,
      submitVars, raftVars
<1> QED
  BY <1>1, <1>2, <1>3, <1>4, <1>5, <1>6, <1>7, <1>8, <1>9, <1>10
  DEF Next, SubmitStep, WorkerStep, Service!Next

(* Batching is invisible to the callers of Submit: the batcher, with its    *)
(* loop, its executors, Raft's ambiguous failures and Close, implements     *)
(* the write service for any number of requests, executors and capacities.  *)
THEOREM Refinement == Spec => ImplementsService
<1>1. Spec => []IndInv
  BY FlowHolds
<1> QED
  BY <1>1, RefinesInit, RefinesNext, PTL DEF Spec, ImplementsService, Service!Spec

-----------------------------------------------------------------------------
(***************************************************************************)
(* Nothing runs after Stop.  The executors leave only when batchCh is      *)
(* closed and drained, run leaves only after them, Close goes on only      *)
(* after run.                                                              *)
(***************************************************************************)
BatchOnlyWhenCollecting == runPc \notin {"drain", "send"} => batch = <<>>

ExitedMeansDrained ==
  \A w \in Executors :
    exec[w].at = "exited" => batchCh = <<>> /\ runPc \in {"joining", "exited"}

JoinedMeansExited == runPc = "exited" => \A w \in Executors : exec[w].at = "exited"

RunLoopBusyOnlyInline == runPc # "inline" => exec[RunLoop].at = "idle"

StoppedMeansJoined == closePc \in {"stopped", "raftDown", "closed"} => runPc = "exited"

Shutdown ==
  /\ BatchOnlyWhenCollecting /\ ExitedMeansDrained /\ JoinedMeansExited
  /\ RunLoopBusyOnlyInline /\ StoppedMeansJoined

LEMMA ShutdownInit == Init => Shutdown
BY BatcherAssumption DEF Init, Idle, Workers, Shutdown, BatchOnlyWhenCollecting,
   ExitedMeansDrained, JoinedMeansExited, RunLoopBusyOnlyInline, StoppedMeansJoined

LEMMA ShutdownNext == TypeInv /\ Shutdown /\ [Next]_vars => Shutdown'
<1> SUFFICES ASSUME TypeInv, Shutdown, [Next]_vars PROVE Shutdown'
  OBVIOUS
<1> USE DEF Shutdown, BatchOnlyWhenCollecting, ExitedMeansDrained, JoinedMeansExited,
            RunLoopBusyOnlyInline, StoppedMeansJoined
<1>t. /\ \A w \in Executors : w \in Workers /\ w # RunLoop
      /\ RunLoop \in Workers
      /\ TypeOK
  BY BatcherAssumption DEF Workers, TypeInv
<1>1. ASSUME NEW r \in Requests, Submit(r) \/ SubmitStep(r) PROVE Shutdown'
  BY <1>1 DEF Submit, SubmitStep, Enqueue, ReceiveAnswer, GiveUp, runVars
<1>2. CASE TakeFirst \/ DrainOne \/ DrainDone \/ StopWaiting
  BY <1>2 DEF TakeFirst, DrainOne, DrainDone, StopWaiting
<1>3. CASE SendBatch
  BY <1>3 DEF SendBatch
<1>4. CASE ExecuteInline
  BY <1>4, <1>t DEF ExecuteInline, TypeOK
<1>5. CASE InlineDone \/ CloseBatchCh \/ JoinExecutors
  BY <1>5 DEF InlineDone, CloseBatchCh, JoinExecutors
<1>6. ASSUME NEW w \in Workers, TakeBatch(w) PROVE Shutdown'
  <2>1. w \in Executors /\ exec[w].at = "idle" /\ batchCh # <<>>
        /\ UNCHANGED <<runPc, batch, closePc>>
    BY <1>6 DEF TakeBatch, runVars
  <2>2. \A v \in Executors : exec[v].at # "exited"
    BY <2>1
  <2>3. exec'[w].at = "apply" /\ \A v \in Workers : v # w => exec'[v] = exec[v]
    BY <1>6, <1>t DEF TakeBatch, TypeOK
  <2> QED
    BY <1>t, <2>1, <2>2, <2>3
<1>7. ASSUME NEW w \in Workers, ExitExecutor(w) PROVE Shutdown'
  <2>1. /\ w \in Executors /\ batchCh = <<>> /\ runPc \in {"joining", "exited"}
        /\ UNCHANGED <<runPc, batch, batchCh, closePc>>
    BY <1>7 DEF ExitExecutor, BatchChClosed, runVars
  <2>2. exec'[w].at = "exited" /\ \A v \in Workers : v # w => exec'[v] = exec[v]
    BY <1>7, <1>t DEF ExitExecutor, TypeOK
  <2> QED
    BY <1>t, <2>1, <2>2
<1>8. ASSUME NEW w \in Workers, ApplyCommits(w) \/ ApplyRejected(w) \/ ApplyAmbiguous(w)
      PROVE  Shutdown'
  <2>1. UNCHANGED <<runPc, batch, batchCh, closePc>> /\ exec[w].at = "apply"
    BY <1>8 DEF ApplyCommits, ApplyRejected, ApplyAmbiguous, runVars
  <2>2. exec'[w].at = "reply" /\ \A v \in Workers : v # w => exec'[v] = exec[v]
    BY <1>8, <1>t DEF ApplyCommits, ApplyRejected, ApplyAmbiguous, ApplyReturns, TypeOK
  <2> QED
    BY <1>t, <2>1, <2>2
<1>9. ASSUME NEW w \in Workers, Reply(w) PROVE Shutdown'
  <2>1. UNCHANGED <<runPc, batch, batchCh, closePc>> /\ exec[w].at = "reply"
    BY <1>9 DEF Reply, runVars
  <2>2. exec'[w].at \in {"idle", "reply"} /\ \A v \in Workers : v # w => exec'[v] = exec[v]
    BY <1>9, <1>t, <2>1 DEF Reply, Idle, TypeOK
  <2> QED
    BY <1>t, <2>1, <2>2
<1>10. ASSUME NEW b \in limbo, LateCommit(b) \/ LateDrop(b) PROVE Shutdown'
  BY <1>10 DEF LateCommit, LateDrop, runVars
<1>11. CASE CloseStopCh \/ CloseStep \/ Finished \/ UNCHANGED vars
  BY <1>11 DEF CloseStopCh, CloseStep, StopReturns, StoppedChClosed, ShutdownRaft, CloseStore,
     Finished, vars, runVars
<1> QED
  BY <1>1, <1>2, <1>3, <1>4, <1>5, <1>6, <1>7, <1>8, <1>9, <1>10, <1>11
  DEF Next, RunStep, WorkerStep

(* When Stop has returned to Close, no batch is left and no goroutine is in *)
(* ApplyCommand or about to answer, for any number of executors.            *)
THEOREM Quiescence == Spec => []QuietAfterStop
<1>1. TypeInv /\ Shutdown => QuietAfterStop
  <2> SUFFICES ASSUME TypeInv, Shutdown, runPc = "exited", closePc # "open"
               PROVE  /\ batch = <<>> /\ batchCh = <<>>
                      /\ \A w \in Workers : exec[w].at \in {"idle", "exited"}
    BY DEF QuietAfterStop, Shutdown, StoppedMeansJoined
  <2>1. batch = <<>>
    BY DEF Shutdown, BatchOnlyWhenCollecting
  <2>2. \A w \in Executors : exec[w].at = "exited"
    BY DEF Shutdown, JoinedMeansExited
  <2>3. exec[RunLoop].at = "idle"
    BY DEF Shutdown, RunLoopBusyOnlyInline
  <2>4. batchCh = <<>>
    <3>1. CASE Executors # {}
      BY <2>2, <3>1 DEF Shutdown, ExitedMeansDrained
    <3>2. CASE Executors = {}
      <4>1. BatchChCap = 0
        BY <3>2, FS_EmptySet, BatcherAssumption DEF BatchChCap
      <4>2. batchCh \in Seq(Batches) /\ Len(batchCh) <= 0
        BY <4>1 DEF TypeInv, TypeOK
      <4>3. Len(batchCh) \in Nat
        BY <4>2, LenProperties
      <4>4. Len(batchCh) = 0
        BY <4>2, <4>3
      <4> QED
        BY <4>2, <4>4, EmptySeq
    <3> QED
      BY <3>1, <3>2
  <2> QED
    BY <2>1, <2>2, <2>3, <2>4 DEF Workers
<1> QED
  BY <1>1, TypeInit, TypeNext, ShutdownInit, ShutdownNext, PTL DEF Spec
=============================================================================
