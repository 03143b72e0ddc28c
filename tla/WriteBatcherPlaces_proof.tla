---------------------- MODULE WriteBatcherPlaces_proof ----------------------
(***************************************************************************)
(* No request is lost or doubled on its way through the batcher, for any   *)
(* requests, executors and channel capacities.                             *)
(*                                                                         *)
(* A request passes through five stages before its caller has its answer:  *)
(* in reqCh, in the batch run collects, in batchCh, in the batch of a      *)
(* goroutine executing or answering it, and answered, in its errCh.  The   *)
(* stages are kept apart as sets, each batch names a request once, and the *)
(* callers waiting are in some stage.                                      *)
(***************************************************************************)
EXTENDS WriteBatcher_proof

Busy == UNION {Range(exec[w].batch) : w \in Workers}

Answered == {r \in Requests : errCh[r] # "none"}

Pipeline == Queued \cup Collecting \cup Sent \cup Busy \cup Answered

StagesApart ==
  /\ Queued \cap (Collecting \cup Sent \cup Busy \cup Answered) = {}
  /\ Collecting \cap (Sent \cup Busy \cup Answered) = {}
  /\ Sent \cap (Busy \cup Answered) = {}
  /\ Busy \cap Answered = {}

Once(s) == \A i, j \in DOMAIN s : i # j => s[i] # s[j]

EachOnce ==
  /\ Once(batch)
  /\ \A c \in DOMAIN batchCh : Once(batchCh[c])
  /\ \A w \in Workers : Once(exec[w].batch)

BusyDistinct ==
  \A v, w \in Workers : v # w => Range(exec[v].batch) \cap Range(exec[w].batch) = {}

Accounted ==
  /\ \A r \in Requests : pc[r] = "waiting" => r \in Pipeline
  /\ \A r \in Pipeline : pc[r] \in {"waiting", "stopped"}

\* A goroutine that executes nothing holds no batch, and one that answers has
\* an answer.
HoldsWhatItExecutes ==
  \A w \in Workers :
    /\ exec[w].at \in {"idle", "exited"} => exec[w].batch = <<>>
    /\ exec[w].at = "reply" => exec[w].err # "none"

PlaceInv == StagesApart /\ EachOnce /\ BusyDistinct /\ Accounted /\ HoldsWhatItExecutes

FullInv == IndInv /\ Shutdown /\ PlaceInv

USE DEF Batches

LEMMA PlaceInit == Init => PlaceInv
<1> SUFFICES ASSUME Init PROVE PlaceInv
  OBVIOUS
<1>1. /\ reqCh = <<>> /\ batch = <<>> /\ batchCh = <<>>
      /\ \A w \in Workers : exec[w].at = "idle" /\ exec[w].batch = <<>>
      /\ \A r \in Requests : errCh[r] = "none" /\ pc[r] = "idle"
  BY DEF Init, Idle
<1>2. DOMAIN <<>> = {}
  OBVIOUS
<1>3. Queued = {} /\ Collecting = {} /\ Sent = {} /\ Busy = {} /\ Answered = {}
  BY <1>1, <1>2 DEF Queued, Collecting, Sent, Busy, Answered, Range
<1>4. EachOnce /\ BusyDistinct
  BY <1>1, <1>2 DEF EachOnce, Once, BusyDistinct, Range
<1>5. HoldsWhatItExecutes
  BY <1>1 DEF HoldsWhatItExecutes
<1> QED
  BY <1>1, <1>3, <1>4, <1>5 DEF PlaceInv, StagesApart, Accounted, Pipeline

(* A sequence that is not empty is its head and its tail.                   *)
LEMMA AllOfSequence ==
  ASSUME NEW S, NEW s \in Seq(S), s # <<>>
  PROVE  /\ \A i \in DOMAIN s : s[i] = Head(s) \/ s[i] \in Range(Tail(s))
         /\ Range(s) = {Head(s)} \cup Range(Tail(s))
<1> HIDE DEF Batches
<1>1. /\ Len(s) \in Nat /\ Len(s) > 0 /\ DOMAIN s = 1 .. Len(s)
      /\ Tail(s) \in Seq(S) /\ Len(Tail(s)) = Len(s) - 1
      /\ DOMAIN Tail(s) = 1 .. Len(Tail(s))
  BY HeadTail, LenProperties
<1>2. /\ \A i \in 1 .. Len(Tail(s)) : Tail(s)[i] = s[i + 1]
      /\ Head(s) = s[1]
  BY HeadTailProperties
<1>3. ASSUME NEW i \in DOMAIN s PROVE s[i] = Head(s) \/ s[i] \in Range(Tail(s))
  <2>1. CASE i = 1
    BY <2>1, <1>2
  <2>2. CASE i # 1
    <3>1. i - 1 \in DOMAIN Tail(s) /\ i = (i - 1) + 1
      BY <1>1, <2>2
    <3> QED
      BY <1>1, <1>2, <3>1 DEF Range
  <2> QED
    BY <2>1, <2>2
<1> QED
  BY <1>3, RangeTail DEF Range

LEMMA PlacesType ==
  ASSUME TypeOK
  PROVE  /\ Queued \subseteq Requests /\ Collecting \subseteq Requests /\ Sent \subseteq Requests
         /\ Busy \subseteq Requests /\ Answered \subseteq Requests
BY StagesType DEF TypeOK, Busy, Answered, Range

(* Steps that move no request: the goroutines change state, a caller        *)
(* starts, or gives up and leaves its request behind.                       *)
LEMMA PlacesKept ==
  ASSUME TypeOK, PlaceInv, UNCHANGED <<errCh, reqCh, batch, batchCh>>,
         \A w \in Workers : exec'[w].batch = exec[w].batch,
         \A r \in Requests :
           /\ pc'[r] = "waiting" => pc[r] = "waiting"
           /\ pc[r] \in {"waiting", "stopped"} => pc'[r] \in {"waiting", "stopped"},
         HoldsWhatItExecutes'
  PROVE  PlaceInv'
<1>1. /\ Queued' = Queued /\ Collecting' = Collecting /\ Sent' = Sent
      /\ Busy' = Busy /\ Answered' = Answered
  BY DEF Queued, Collecting, Sent, Busy, Answered
<1>2. StagesApart'
  BY <1>1 DEF PlaceInv, StagesApart
<1>3. EachOnce' /\ BusyDistinct'
  BY DEF PlaceInv, EachOnce, Once, BusyDistinct
<1>4. Pipeline' = Pipeline /\ Pipeline \subseteq Requests
  BY <1>1, PlacesType DEF Pipeline
<1>5. Accounted'
  BY <1>4 DEF PlaceInv, Accounted
<1> QED
  BY <1>2, <1>3, <1>5 DEF PlaceInv

LEMMA PlaceEnqueue ==
  ASSUME FullInv, NEW r \in Requests, Enqueue(r)
  PROVE  PlaceInv'
<1>t. TypeOK /\ PlaceInv
  BY DEF FullInv, IndInv, TypeInv
<1>1. /\ reqCh \in Seq(Requests) /\ reqCh' = Append(reqCh, r)
      /\ UNCHANGED <<errCh, batch, batchCh, exec>>
      /\ pc[r] = "sending" /\ pc'[r] = "waiting"
      /\ \A q \in Requests : q # r => pc'[q] = pc[q]
  BY <1>t DEF Enqueue, runVars, TypeOK
<1>2. Queued' = Queued \cup {r}
  BY <1>1, RangeAppend DEF Queued
<1>3. Collecting' = Collecting /\ Sent' = Sent /\ Busy' = Busy /\ Answered' = Answered
  BY <1>1 DEF Collecting, Sent, Busy, Answered
<1>4. r \notin Pipeline
  BY <1>1, <1>t DEF PlaceInv, Accounted
<1>5. StagesApart'
  BY <1>2, <1>3, <1>4, <1>t DEF PlaceInv, StagesApart, Pipeline
<1>6. EachOnce' /\ BusyDistinct' /\ HoldsWhatItExecutes'
  BY <1>1, <1>t DEF PlaceInv, EachOnce, BusyDistinct, HoldsWhatItExecutes
<1>7. Pipeline' = Pipeline \cup {r} /\ Pipeline \subseteq Requests
  BY <1>2, <1>3, <1>t, PlacesType DEF Pipeline
<1>8. Accounted'
  BY <1>1, <1>7, <1>t DEF PlaceInv, Accounted
<1> QED
  BY <1>5, <1>6, <1>8 DEF PlaceInv

LEMMA PlaceReceive ==
  ASSUME FullInv, NEW r \in Requests, ReceiveAnswer(r)
  PROVE  PlaceInv'
<1>t. TypeOK /\ PlaceInv
  BY DEF FullInv, IndInv, TypeInv
<1>1. /\ UNCHANGED <<reqCh, batch, batchCh, exec>>
      /\ pc'[r] \in {"ok", "failed"} /\ errCh[r] # "none" /\ errCh'[r] = "none"
      /\ \A q \in Requests : q # r => pc'[q] = pc[q] /\ errCh'[q] = errCh[q]
  BY <1>t DEF ReceiveAnswer, runVars, TypeOK
<1>2. Queued' = Queued /\ Collecting' = Collecting /\ Sent' = Sent /\ Busy' = Busy
  BY <1>1 DEF Queued, Collecting, Sent, Busy
<1>3. r \in Answered /\ Answered' = Answered \ {r}
  BY <1>1 DEF Answered
<1>4. StagesApart'
  BY <1>2, <1>3, <1>t DEF PlaceInv, StagesApart
<1>5. EachOnce' /\ BusyDistinct' /\ HoldsWhatItExecutes'
  BY <1>1, <1>t DEF PlaceInv, EachOnce, BusyDistinct, HoldsWhatItExecutes
<1>6. r \notin Queued \cup Collecting \cup Sent \cup Busy
  BY <1>3, <1>t DEF PlaceInv, StagesApart
<1>7. Pipeline' = Pipeline \ {r} /\ Pipeline \subseteq Requests
  BY <1>2, <1>3, <1>6, <1>t, PlacesType DEF Pipeline
<1>8. Accounted'
  BY <1>1, <1>7, <1>t DEF PlaceInv, Accounted
<1> QED
  BY <1>4, <1>5, <1>8 DEF PlaceInv

(* The next request of reqCh joins the batch.                               *)
LEMMA PlaceTake ==
  ASSUME FullInv, TakeFirst \/ DrainOne
  PROVE  PlaceInv'
<1> DEFINE h == Head(reqCh)
<1>t. TypeOK /\ PlaceInv /\ QueueDistinct
  BY DEF FullInv, IndInv, TypeInv, Flow, Distinct
<1>1. /\ reqCh # <<>> /\ reqCh' = Tail(reqCh) /\ reqCh \in Seq(Requests)
      /\ batch \in Seq(Requests)
      /\ UNCHANGED <<pc, errCh, batchCh, exec>>
  BY <1>t DEF TakeFirst, DrainOne, TypeOK, submitVars
<1>2. h \in Requests /\ h \in Queued /\ Queued' \subseteq Queued /\ h \notin Queued'
  BY <1>1, <1>t, HeadTail, RangeTail DEF Queued, QueueDistinct
<1>3. Queued' = Queued \ {h}
  <2>1. \A i \in DOMAIN reqCh : reqCh[i] = h \/ reqCh[i] \in Range(Tail(reqCh))
    BY <1>1, AllOfSequence
  <2> QED
    BY <1>1, <1>2, <2>1 DEF Queued, Range
<1>4. h \notin Collecting
  BY <1>2, <1>t DEF PlaceInv, StagesApart
<1>5. Collecting' = Collecting \cup {h} /\ Once(batch')
  <2>1. CASE TakeFirst
    <3>1. batch = <<>> /\ batch' = <<h>>
      BY <2>1 DEF TakeFirst, FullInv, Shutdown, BatchOnlyWhenCollecting
    <3>2. Collecting = {}
      BY <3>1 DEF Collecting, Range
    <3> QED
      BY <3>1, <3>2 DEF Collecting, Range, Once
  <2>2. CASE DrainOne
    <3>1. batch' = Append(batch, h)
      BY <2>2 DEF DrainOne
    <3>2. \A i, j \in DOMAIN batch : i # j => batch[i] # batch[j]
      BY <1>t DEF PlaceInv, EachOnce, Once
    <3> HIDE DEF h
    <3> QED
      BY <1>1, <1>2, <1>4, <3>1, <3>2, RangeAppend DEF Collecting, Once
  <2> QED
    BY <2>1, <2>2
<1>6. Sent' = Sent /\ Busy' = Busy /\ Answered' = Answered
  BY <1>1 DEF Sent, Busy, Answered
<1> HIDE DEF h
<1>7. StagesApart'
  BY <1>2, <1>3, <1>5, <1>6, <1>t DEF PlaceInv, StagesApart
<1>8. EachOnce' /\ BusyDistinct' /\ HoldsWhatItExecutes'
  BY <1>1, <1>5, <1>t DEF PlaceInv, EachOnce, BusyDistinct, HoldsWhatItExecutes
<1>9. Pipeline' = Pipeline
  BY <1>2, <1>3, <1>5, <1>6 DEF Pipeline
<1>10. Accounted'
  BY <1>1, <1>9, <1>t DEF PlaceInv, Accounted
<1> QED
  BY <1>7, <1>8, <1>10 DEF PlaceInv

LEMMA PlaceSend ==
  ASSUME FullInv, SendBatch
  PROVE  PlaceInv'
<1>t. TypeOK /\ PlaceInv
  BY DEF FullInv, IndInv, TypeInv
<1>1. /\ batchCh' = Append(batchCh, batch) /\ batch' = <<>>
      /\ batchCh \in Seq(Batches) /\ batch \in Batches
      /\ UNCHANGED <<pc, errCh, reqCh, exec>>
  BY <1>t DEF SendBatch, TypeOK, submitVars
<1>2. /\ DOMAIN batchCh = 1 .. Len(batchCh) /\ Len(batchCh) \in Nat
      /\ DOMAIN batchCh' = 1 .. Len(batchCh) + 1
      /\ \A i \in DOMAIN batchCh : batchCh'[i] = batchCh[i]
      /\ batchCh'[Len(batchCh) + 1] = batch
  <2> HIDE DEF Batches
  <2> QED
    BY <1>1, AppendProperties, LenProperties
<1>3. /\ \A i \in DOMAIN batchCh' :
           \/ i \in DOMAIN batchCh /\ batchCh'[i] = batchCh[i]
           \/ batchCh'[i] = batch
      /\ \E i \in DOMAIN batchCh' : batchCh'[i] = batch
      /\ \A i \in DOMAIN batchCh : i \in DOMAIN batchCh' /\ batchCh'[i] = batchCh[i]
  BY <1>2
<1>4. Sent' = Sent \cup Collecting
  <2>1. Sent' \subseteq Sent \cup Collecting
    BY <1>3 DEF Sent, Collecting
  <2>2. Sent \subseteq Sent'
    BY <1>3 DEF Sent
  <2>3. Collecting \subseteq Sent'
    BY <1>3 DEF Sent, Collecting
  <2> QED
    BY <2>1, <2>2, <2>3
<1>5. Collecting' = {} /\ Once(batch')
  BY <1>1 DEF Collecting, Range, Once
<1>6. Queued' = Queued /\ Busy' = Busy /\ Answered' = Answered
  BY <1>1 DEF Queued, Busy, Answered
<1>7. StagesApart'
  BY <1>4, <1>5, <1>6, <1>t DEF PlaceInv, StagesApart
<1>8. EachOnce'
  <2>1. \A c \in DOMAIN batchCh' : Once(batchCh'[c])
    BY <1>3, <1>t DEF PlaceInv, EachOnce
  <2> QED
    BY <1>1, <1>5, <1>t, <2>1 DEF PlaceInv, EachOnce
<1>9. BusyDistinct' /\ HoldsWhatItExecutes'
  BY <1>1, <1>t DEF PlaceInv, BusyDistinct, HoldsWhatItExecutes
<1>10. Pipeline' = Pipeline
  BY <1>4, <1>5, <1>6 DEF Pipeline
<1>11. Accounted'
  BY <1>1, <1>10, <1>t DEF PlaceInv, Accounted
<1> QED
  BY <1>7, <1>8, <1>9, <1>11 DEF PlaceInv

(* A goroutine that held no batch starts executing one that came from      *)
(* outside the busy stage.                                                  *)
LEMMA BusyWith ==
  ASSUME TypeOK, PlaceInv, NEW w \in Workers, NEW b \in Seq(Requests),
         exec[w].batch = <<>>, exec'[w].at = "apply", exec'[w].batch = b,
         \A v \in Workers : v # w => exec'[v] = exec[v],
         Once(b), Range(b) \cap Busy = {}
  PROVE  /\ Busy' = Busy \cup Range(b)
         /\ \A v \in Workers : Once(exec'[v].batch)
         /\ BusyDistinct' /\ HoldsWhatItExecutes'
<1>1. Busy' = Busy \cup Range(b)
  <2>1. Range(exec[w].batch) = {}
    BY DEF Range
  <2>2. Busy \subseteq Busy'
    BY <2>1 DEF Busy
  <2> QED
    BY <2>2 DEF Busy
<1>2. \A v \in Workers : Once(exec'[v].batch)
  BY DEF PlaceInv, EachOnce
<1>3. BusyDistinct'
  <2>1. \A v \in Workers : Range(exec[v].batch) \cap Range(b) = {}
    BY DEF Busy
  <2> QED
    BY <2>1 DEF PlaceInv, BusyDistinct
<1>4. HoldsWhatItExecutes'
  BY DEF PlaceInv, HoldsWhatItExecutes
<1> QED
  BY <1>1, <1>2, <1>3, <1>4

LEMMA PlaceInline ==
  ASSUME FullInv, ExecuteInline
  PROVE  PlaceInv'
<1>t. TypeOK /\ PlaceInv
  BY DEF FullInv, IndInv, TypeInv
<1>1. /\ batch' = <<>> /\ batch \in Seq(Requests) /\ RunLoop \in Workers
      /\ UNCHANGED <<pc, errCh, reqCh, batchCh>>
      /\ exec'[RunLoop] = [at |-> "apply", batch |-> batch, err |-> "none"]
      /\ \A v \in Workers : v # RunLoop => exec'[v] = exec[v]
  BY <1>t DEF ExecuteInline, TypeOK, submitVars, Workers
<1>2. exec[RunLoop].batch = <<>>
  <2>1. exec[RunLoop].at = "idle"
    BY DEF ExecuteInline, FullInv, Shutdown, RunLoopBusyOnlyInline
  <2> QED
    BY <1>1, <1>t, <2>1 DEF PlaceInv, HoldsWhatItExecutes
<1>3. Once(batch) /\ Range(batch) = Collecting /\ Collecting \cap Busy = {}
  BY <1>t DEF PlaceInv, EachOnce, Collecting, StagesApart
<1>4. /\ Busy' = Busy \cup Collecting
      /\ \A v \in Workers : Once(exec'[v].batch)
      /\ BusyDistinct' /\ HoldsWhatItExecutes'
  BY <1>1, <1>2, <1>3, <1>t, BusyWith
<1>5. Collecting' = {} /\ Once(batch')
  BY <1>1 DEF Collecting, Range, Once
<1>6. Queued' = Queued /\ Sent' = Sent /\ Answered' = Answered
  BY <1>1 DEF Queued, Sent, Answered
<1>7. StagesApart'
  BY <1>4, <1>5, <1>6, <1>t DEF PlaceInv, StagesApart
<1>8. EachOnce'
  BY <1>1, <1>4, <1>5, <1>t DEF PlaceInv, EachOnce
<1>9. Pipeline' = Pipeline
  BY <1>4, <1>5, <1>6 DEF Pipeline
<1>10. Accounted'
  BY <1>1, <1>9, <1>t DEF PlaceInv, Accounted
<1> QED
  BY <1>4, <1>7, <1>8, <1>10 DEF PlaceInv

LEMMA PlaceTakeBatch ==
  ASSUME FullInv, NEW w \in Workers, TakeBatch(w)
  PROVE  PlaceInv'
<1> DEFINE h == Head(batchCh)
<1>t. TypeOK /\ PlaceInv /\ SentDistinct
  BY DEF FullInv, IndInv, TypeInv, Flow, Distinct
<1>1. /\ batchCh # <<>> /\ batchCh' = Tail(batchCh) /\ batchCh \in Seq(Batches)
      /\ UNCHANGED <<pc, errCh, reqCh, batch>>
      /\ exec[w].at = "idle" /\ exec'[w].at = "apply" /\ exec'[w].batch = h
      /\ \A v \in Workers : v # w => exec'[v] = exec[v]
  BY <1>t DEF TakeBatch, TypeOK, submitVars, runVars
<1>2. /\ \A i \in DOMAIN batchCh' : i + 1 \in DOMAIN batchCh /\ batchCh'[i] = batchCh[i + 1]
      /\ \A i \in DOMAIN batchCh' : i + 1 # 1
      /\ 1 \in DOMAIN batchCh /\ h = batchCh[1]
  <2> HIDE DEF Batches
  <2>1. /\ Len(batchCh) \in Nat /\ Len(batchCh) > 0 /\ DOMAIN batchCh = 1 .. Len(batchCh)
        /\ batchCh' \in Seq(Batches) /\ Len(batchCh') = Len(batchCh) - 1
        /\ DOMAIN batchCh' = 1 .. Len(batchCh')
    BY <1>1, HeadTail, LenProperties
  <2>2. /\ \A i \in 1 .. Len(batchCh') : batchCh'[i] = batchCh[i + 1]
        /\ Head(batchCh) = batchCh[1]
    BY <1>1, HeadTailProperties
  <2> QED
    BY <2>1, <2>2
<1>3. h \in Seq(Requests) /\ Once(h) /\ Range(h) \subseteq Sent
  BY <1>1, <1>2, <1>t DEF PlaceInv, EachOnce, Sent
<1>4. Sent' = Sent \ Range(h)
  <2>1. Sent' \subseteq Sent /\ Sent' \cap Range(h) = {}
    BY <1>2, <1>t DEF Sent, SentDistinct
  <2>2. \A i \in DOMAIN batchCh : batchCh[i] = h \/ batchCh[i] \in Range(batchCh')
    <3> HIDE DEF Batches
    <3> QED
      BY <1>1, AllOfSequence
  <2>3. \A b \in Range(batchCh') : Range(b) \subseteq Sent'
    BY DEF Range, Sent
  <2>4. Sent \ Range(h) \subseteq Sent'
    BY <2>2, <2>3 DEF Sent
  <2> QED
    BY <2>1, <2>4
<1>5. exec[w].batch = <<>>
  BY <1>1, <1>t DEF PlaceInv, HoldsWhatItExecutes
<1>6. Range(h) \cap Busy = {}
  BY <1>3, <1>t DEF PlaceInv, StagesApart
<1> HIDE DEF h
<1>7. /\ Busy' = Busy \cup Range(h)
      /\ \A v \in Workers : Once(exec'[v].batch)
      /\ BusyDistinct' /\ HoldsWhatItExecutes'
  BY <1>1, <1>3, <1>5, <1>6, <1>t, BusyWith
<1>8. Queued' = Queued /\ Collecting' = Collecting /\ Answered' = Answered
  BY <1>1 DEF Queued, Collecting, Answered
<1>9. StagesApart'
  BY <1>3, <1>4, <1>7, <1>8, <1>t DEF PlaceInv, StagesApart
<1>10. EachOnce'
  BY <1>1, <1>2, <1>7, <1>t DEF PlaceInv, EachOnce
<1>11. Pipeline' = Pipeline
  BY <1>3, <1>4, <1>7, <1>8 DEF Pipeline
<1>12. Accounted'
  BY <1>1, <1>11, <1>t DEF PlaceInv, Accounted
<1> QED
  BY <1>7, <1>9, <1>10, <1>12 DEF PlaceInv

(* An answer takes the first request of the batch out of the busy stage.    *)
LEMMA PlaceReply ==
  ASSUME FullInv, NEW w \in Workers, Reply(w)
  PROVE  PlaceInv'
<1> DEFINE b == exec[w].batch
           h == Head(b)
<1>t. TypeOK /\ PlaceInv /\ NonEmpty
  BY DEF FullInv, IndInv, TypeInv
<1>1. /\ b \in Seq(Requests) /\ b # <<>>
      /\ exec[w].at = "reply" /\ exec[w].err # "none" /\ exec[w].err \in Answers
      /\ errCh \in [Requests -> Answers] /\ errCh' = [errCh EXCEPT ![h] = exec[w].err]
      /\ UNCHANGED <<pc, reqCh, batch, batchCh>>
      /\ \A v \in Workers : v # w => exec'[v] = exec[v]
  BY <1>t DEF Reply, TypeOK, NonEmpty, PlaceInv, HoldsWhatItExecutes, runVars
<1>2. /\ exec'[w].batch = Tail(b)
      /\ \/ exec'[w].at = "idle" /\ exec'[w].batch = <<>>
         \/ exec'[w].at = "reply" /\ exec'[w].err # "none"
  <2>1. exec[w] \in [at : {"idle", "apply", "reply", "exited"}, batch : Batches, err : Answers]
    BY <1>t DEF TypeOK
  <2>2. exec'[w] = IF Len(b) = 1 THEN Idle ELSE [exec[w] EXCEPT !.batch = Tail(b)]
    BY <1>t DEF Reply, TypeOK
  <2>3. Len(b) = 1 => Tail(b) = <<>>
    <3> HIDE DEF b
    <3>1. Tail(b) \in Seq(Requests) /\ (Len(b) = 1 => Len(Tail(b)) = 0)
      BY <1>1, HeadTail
    <3> QED
      BY <3>1, EmptySeq
  <2>4. CASE Len(b) = 1
    BY <2>2, <2>3, <2>4 DEF Idle
  <2>5. CASE Len(b) # 1
    BY <1>1, <2>1, <2>2, <2>5
  <2> QED
    BY <2>4, <2>5
<1>3. \A i, j \in DOMAIN b : i # j => b[i] # b[j]
  BY <1>t DEF PlaceInv, EachOnce, Once
<1>4. /\ h \in Requests /\ h \in Range(b) /\ h \notin Range(Tail(b))
      /\ Range(b) = {h} \cup Range(Tail(b)) /\ Once(Tail(b))
  <2> HIDE DEF b
  <2> QED
    BY <1>1, <1>3, HeadTail, RangeTail, AllOfSequence DEF Once
<1>5. \A v \in Workers : v # w => Range(exec[v].batch) \cap Range(b) = {}
  BY <1>t DEF PlaceInv, BusyDistinct
<1>6. h \in Busy /\ Busy' = Busy \ {h}
  <2>1. h \in Busy
    BY <1>4 DEF Busy
  <2>2. Busy = Range(b) \cup UNION {Range(exec[v].batch) : v \in Workers \ {w}}
    BY DEF Busy
  <2>3. Busy' = Range(Tail(b)) \cup UNION {Range(exec[v].batch) : v \in Workers \ {w}}
    BY <1>1, <1>2 DEF Busy
  <2>4. h \notin UNION {Range(exec[v].batch) : v \in Workers \ {w}}
    BY <1>4, <1>5
  <2> QED
    BY <1>4, <2>1, <2>2, <2>3, <2>4
<1>7. Answered' = Answered \cup {h}
  BY <1>1, <1>4 DEF Answered
<1>8. Queued' = Queued /\ Collecting' = Collecting /\ Sent' = Sent
  BY <1>1 DEF Queued, Collecting, Sent
<1>9. BusyDistinct'
  BY <1>1, <1>2, <1>4, <1>5, <1>t DEF PlaceInv, BusyDistinct
<1>10. HoldsWhatItExecutes'
  BY <1>1, <1>2, <1>t DEF PlaceInv, HoldsWhatItExecutes
<1>11. EachOnce'
  BY <1>1, <1>2, <1>4, <1>t DEF PlaceInv, EachOnce
<1> HIDE DEF h
<1>12. StagesApart'
  BY <1>6, <1>7, <1>8, <1>t DEF PlaceInv, StagesApart
<1>13. Pipeline' = Pipeline
  BY <1>6, <1>7, <1>8 DEF Pipeline
<1>14. Accounted'
  BY <1>1, <1>13, <1>t DEF PlaceInv, Accounted
<1> QED
  BY <1>9, <1>10, <1>11, <1>12, <1>14 DEF PlaceInv

(* The invocations of ApplyCommand end without moving the batch.            *)
LEMMA PlaceApplied ==
  ASSUME FullInv, NEW w \in Workers,
         ApplyCommits(w) \/ ApplyRejected(w) \/ ApplyAmbiguous(w) \/ ExitExecutor(w)
  PROVE  PlaceInv'
<1>t. TypeOK /\ PlaceInv
  BY DEF FullInv, IndInv, TypeInv
<1>1. UNCHANGED <<pc, errCh, reqCh, batch, batchCh>>
  BY DEF ApplyCommits, ApplyRejected, ApplyAmbiguous, ExitExecutor, submitVars, runVars
<1>2. /\ exec'[w].batch = exec[w].batch
      /\ \/ exec'[w].at = "reply" /\ exec'[w].err # "none"
         \/ exec[w].at = "idle" /\ exec'[w].at = "exited"
      /\ \A v \in Workers : v # w => exec'[v] = exec[v]
  BY <1>t DEF ApplyCommits, ApplyRejected, ApplyAmbiguous, ExitExecutor, ApplyReturns, TypeOK
<1>3. HoldsWhatItExecutes'
  BY <1>2, <1>t DEF PlaceInv, HoldsWhatItExecutes
<1>4. \A v \in Workers : exec'[v].batch = exec[v].batch
  BY <1>2
<1> QED
  BY <1>1, <1>3, <1>4, <1>t, PlacesKept

LEMMA PlaceNext == FullInv /\ [Next]_vars => PlaceInv'
<1> SUFFICES ASSUME FullInv, [Next]_vars PROVE PlaceInv'
  OBVIOUS
<1>t. TypeOK /\ PlaceInv
  BY DEF FullInv, IndInv, TypeInv
<1>k. UNCHANGED exec => HoldsWhatItExecutes'
  BY <1>t DEF PlaceInv, HoldsWhatItExecutes
<1>1. ASSUME NEW r \in Requests, Submit(r) \/ GiveUp(r) PROVE PlaceInv'
  <2>1. \A q \in Requests :
          /\ pc'[q] = "waiting" => pc[q] = "waiting"
          /\ pc[q] \in {"waiting", "stopped"} => pc'[q] \in {"waiting", "stopped"}
    BY <1>1, <1>t DEF Submit, GiveUp, TypeOK
  <2>2. UNCHANGED <<errCh, reqCh, batch, batchCh, exec>>
    BY <1>1 DEF Submit, GiveUp, runVars
  <2> QED
    BY <1>t, <1>k, <2>1, <2>2, PlacesKept
<1>2. ASSUME NEW r \in Requests, Enqueue(r) PROVE PlaceInv'
  BY <1>2, PlaceEnqueue
<1>3. ASSUME NEW r \in Requests, ReceiveAnswer(r) PROVE PlaceInv'
  BY <1>3, PlaceReceive
<1>4. CASE TakeFirst \/ DrainOne
  BY <1>4, PlaceTake
<1>5. CASE StopWaiting \/ DrainDone \/ InlineDone \/ CloseBatchCh \/ JoinExecutors
  <2>1. UNCHANGED <<pc, errCh, reqCh, batch, batchCh, exec>>
    BY <1>5 DEF StopWaiting, DrainDone, InlineDone, CloseBatchCh, JoinExecutors, submitVars
  <2> QED
    BY <1>t, <1>k, <2>1, PlacesKept
<1>6. CASE SendBatch
  BY <1>6, PlaceSend
<1>7. CASE ExecuteInline
  BY <1>7, PlaceInline
<1>8. ASSUME NEW w \in Workers, WorkerStep(w) PROVE PlaceInv'
  BY <1>8, PlaceTakeBatch, PlaceApplied, PlaceReply DEF WorkerStep
<1>9. CASE \/ \E b \in limbo : LateCommit(b) \/ LateDrop(b)
           \/ CloseStopCh \/ CloseStep \/ Finished \/ UNCHANGED vars
  <2>1. UNCHANGED <<pc, errCh, reqCh, batch, batchCh, exec>>
    BY <1>9 DEF LateCommit, LateDrop, CloseStopCh, CloseStep, StopReturns, ShutdownRaft,
       CloseStore, Finished, vars, submitVars, runVars
  <2> QED
    BY <1>t, <1>k, <2>1, PlacesKept
<1> QED
  BY <1>1, <1>2, <1>3, <1>4, <1>5, <1>6, <1>7, <1>8, <1>9 DEF Next, SubmitStep, RunStep

-----------------------------------------------------------------------------
(* From stages to places.                                                   *)

LEMMA AtOnce ==
  ASSUME NEW s, NEW r, Once(s), r \in Range(s)
  PROVE  \E i : At(s, r) = {i}
<1>1. PICK i \in DOMAIN s : s[i] = r
  BY DEF Range
<1>2. At(s, r) = {i}
  BY <1>1 DEF At, Once
<1> QED
  BY <1>2

LEMMA AtNowhere ==
  ASSUME NEW s, NEW r, r \notin Range(s)
  PROVE  At(s, r) = {}
BY DEF At, Range

(* A request is in one place of the stage it is in.                         *)
LEMMA PlacesOfStage ==
  ASSUME TypeOK, PlaceInv, QueueDistinct, SentDistinct, NEW r \in Requests
  PROVE  /\ r \in Pipeline => \E p : Places(r) = {p}
         /\ r \notin Pipeline => Places(r) = {}
<1> DEFINE PQueued     == {"reqCh"} \X At(reqCh, r)
           PCollecting == {"batch"} \X At(batch, r)
           PSent       == UNION {{<<"batchCh", c>>} \X At(batchCh[c], r) : c \in DOMAIN batchCh}
           PBusy       == UNION {{<<"exec", w>>} \X At(exec[w].batch, r) : w \in Workers}
           PAnswered   == IF errCh[r] = "none" THEN {} ELSE {"errCh"}
<1>p. Places(r) = PQueued \cup PCollecting \cup PSent \cup PBusy \cup PAnswered
  BY DEF Places
<1>1. r \notin Queued => PQueued = {}
  BY AtNowhere DEF Queued
<1>2. r \notin Collecting => PCollecting = {}
  BY AtNowhere DEF Collecting
<1>3. r \notin Sent => PSent = {}
  <2> SUFFICES ASSUME r \notin Sent PROVE PSent = {}
    OBVIOUS
  <2>1. \A c \in DOMAIN batchCh : At(batchCh[c], r) = {}
    BY AtNowhere DEF Sent
  <2> QED
    BY <2>1
<1>4. r \notin Busy => PBusy = {}
  <2> SUFFICES ASSUME r \notin Busy PROVE PBusy = {}
    OBVIOUS
  <2>1. \A w \in Workers : At(exec[w].batch, r) = {}
    BY AtNowhere DEF Busy
  <2> QED
    BY <2>1
<1>5. r \notin Answered => PAnswered = {}
  BY DEF Answered
<1>6. r \in Queued => \E p : PQueued = {p}
  <2> SUFFICES ASSUME r \in Queued PROVE \E p : PQueued = {p}
    OBVIOUS
  <2>1. PICK i : At(reqCh, r) = {i}
    BY AtOnce DEF Queued, QueueDistinct, Once
  <2>2. PQueued = {<<"reqCh", i>>}
    BY <2>1
  <2> QED
    BY <2>2
<1>7. r \in Collecting => \E p : PCollecting = {p}
  <2> SUFFICES ASSUME r \in Collecting PROVE \E p : PCollecting = {p}
    OBVIOUS
  <2>1. PICK i : At(batch, r) = {i}
    BY AtOnce DEF Collecting, PlaceInv, EachOnce
  <2>2. PCollecting = {<<"batch", i>>}
    BY <2>1
  <2> QED
    BY <2>2
<1>8. r \in Sent => \E p : PSent = {p}
  <2> SUFFICES ASSUME r \in Sent PROVE \E p : PSent = {p}
    OBVIOUS
  <2>1. PICK c \in DOMAIN batchCh : r \in Range(batchCh[c])
    BY DEF Sent
  <2>2. PICK i : At(batchCh[c], r) = {i}
    BY <2>1, AtOnce DEF PlaceInv, EachOnce
  <2>3. \A d \in DOMAIN batchCh : d # c => At(batchCh[d], r) = {}
    BY <2>1, AtNowhere DEF SentDistinct
  <2>4. PSent = {<<<<"batchCh", c>>, i>>}
    BY <2>2, <2>3
  <2> QED
    BY <2>4
<1>9. r \in Busy => \E p : PBusy = {p}
  <2> SUFFICES ASSUME r \in Busy PROVE \E p : PBusy = {p}
    OBVIOUS
  <2>1. PICK w \in Workers : r \in Range(exec[w].batch)
    BY DEF Busy
  <2>2. PICK i : At(exec[w].batch, r) = {i}
    BY <2>1, AtOnce DEF PlaceInv, EachOnce
  <2>3. \A v \in Workers : v # w => At(exec[v].batch, r) = {}
    BY <2>1, AtNowhere DEF PlaceInv, BusyDistinct
  <2>4. PBusy = {<<<<"exec", w>>, i>>}
    BY <2>2, <2>3
  <2> QED
    BY <2>4
<1>10. r \in Answered => \E p : PAnswered = {p}
  BY DEF Answered
<1>11. StagesApart
  BY DEF PlaceInv
<1> HIDE DEF PQueued, PCollecting, PSent, PBusy, PAnswered
<1>12. CASE r \in Queued
  <2>1. r \notin Collecting /\ r \notin Sent /\ r \notin Busy /\ r \notin Answered
    BY <1>11, <1>12 DEF StagesApart
  <2>2. Places(r) = PQueued
    BY <1>p, <1>2, <1>3, <1>4, <1>5, <2>1
  <2> QED
    BY <1>6, <1>12, <2>2 DEF Pipeline
<1>13. CASE r \in Collecting
  <2>1. r \notin Queued /\ r \notin Sent /\ r \notin Busy /\ r \notin Answered
    BY <1>11, <1>13 DEF StagesApart
  <2>2. Places(r) = PCollecting
    BY <1>p, <1>1, <1>3, <1>4, <1>5, <2>1
  <2> QED
    BY <1>7, <1>13, <2>2 DEF Pipeline
<1>14. CASE r \in Sent
  <2>1. r \notin Queued /\ r \notin Collecting /\ r \notin Busy /\ r \notin Answered
    BY <1>11, <1>14 DEF StagesApart
  <2>2. Places(r) = PSent
    BY <1>p, <1>1, <1>2, <1>4, <1>5, <2>1
  <2> QED
    BY <1>8, <1>14, <2>2 DEF Pipeline
<1>15. CASE r \in Busy
  <2>1. r \notin Queued /\ r \notin Collecting /\ r \notin Sent /\ r \notin Answered
    BY <1>11, <1>15 DEF StagesApart
  <2>2. Places(r) = PBusy
    BY <1>p, <1>1, <1>2, <1>3, <1>5, <2>1
  <2> QED
    BY <1>9, <1>15, <2>2 DEF Pipeline
<1>16. CASE r \in Answered
  <2>1. r \notin Queued /\ r \notin Collecting /\ r \notin Sent /\ r \notin Busy
    BY <1>11, <1>16 DEF StagesApart
  <2>2. Places(r) = PAnswered
    BY <1>p, <1>1, <1>2, <1>3, <1>4, <2>1
  <2> QED
    BY <1>10, <1>16, <2>2 DEF Pipeline
<1>17. CASE r \notin Pipeline
  <2>1. Places(r) = {}
    BY <1>p, <1>1, <1>2, <1>3, <1>4, <1>5, <1>17 DEF Pipeline
  <2> QED
    BY <1>17, <2>1
<1> QED
  BY <1>12, <1>13, <1>14, <1>15, <1>16, <1>17 DEF Pipeline

(* Between Submit's send on reqCh and its return the request is in exactly *)
(* one place of the pipeline: no goroutine loses it on the way, and none    *)
(* executes or answers it a second time, which would block the executor on *)
(* the one-place errCh.                                                     *)
THEOREM OnePlace == Spec => []InOnePlace
<1>1. Init => FullInv
  BY TypeInit, FlowInit, ShutdownInit, PlaceInit DEF FullInv, IndInv
<1>2. FullInv /\ [Next]_vars => FullInv'
  BY IndInvNext, ShutdownNext, PlaceNext DEF FullInv, IndInv
<1>3. FullInv => InOnePlace
  <2> SUFFICES ASSUME FullInv, NEW r \in Requests
               PROVE  /\ pc[r] = "waiting" => Cardinality(Places(r)) = 1
                      /\ pc[r] = "stopped" => Cardinality(Places(r)) <= 1
                      /\ pc[r] \notin {"waiting", "stopped"} => Places(r) = {}
    BY DEF InOnePlace
  <2>1. TypeOK /\ PlaceInv /\ QueueDistinct /\ SentDistinct
    BY DEF FullInv, IndInv, TypeInv, Flow, Distinct
  <2>2. /\ r \in Pipeline => \E p : Places(r) = {p}
        /\ r \notin Pipeline => Places(r) = {}
    BY <2>1, PlacesOfStage
  <2>3. r \in Pipeline => Cardinality(Places(r)) = 1
    BY <2>2, FS_Singleton
  <2>4. r \notin Pipeline => Cardinality(Places(r)) = 0
    BY <2>2, FS_EmptySet
  <2>5. /\ pc[r] = "waiting" => r \in Pipeline
        /\ r \in Pipeline => pc[r] \in {"waiting", "stopped"}
    BY <2>1 DEF PlaceInv, Accounted
  <2> QED
    BY <2>2, <2>3, <2>4, <2>5
<1> QED
  BY <1>1, <1>2, <1>3, PTL DEF Spec
=============================================================================
