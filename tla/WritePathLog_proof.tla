------------------------- MODULE WritePathLog_proof -------------------------
(***************************************************************************)
(* The write path implements the promise of CommittedLog on a cluster      *)
(* whose log is synced, for any nodes, requests, membership changes and    *)
(* bounds.                                                                 *)
(*                                                                         *)
(* What is left to show, once the committed log is known to grow only, is  *)
(* about the entries of one request: each attempt of its handler makes one *)
(* entry, in a term of its own, and never after the request was answered   *)
(* 200 or refused.                                                         *)
(***************************************************************************)
EXTENDS WritePath_proof

-----------------------------------------------------------------------------
(* The entries of a request, in whatever log.                               *)

Of(r, n) == {i \in DOMAIN log[n] : log[n][i].req = r}

\* The terms in which the request was proposed, as far as a log still shows.
Tries(r) ==
  {t \in 1 .. MaxTerm : \E n \in Nodes : \E i \in Of(r, n) : log[n][i].term = t}

\* Nothing has been proposed.
Before == {"idle", "received", "redirect", "waiting", "refused"}

Attempts(r) == IF opOf[r] \in Writes THEN maxRetries ELSE 1

\* The attempts that may have left an entry.
Used(r) == IF phase[r] \in {"checking", "proposing"} THEN count[r]
           ELSE IF phase[r] = "pending" THEN count[r] + 1
           ELSE IF phase[r] \in {"ok", "error"} THEN Attempts(r)
           ELSE 0

\* The committed entry at c is of the last attempt.
FinalAt(r, c) ==
  /\ committed[c].req = r
  /\ \A n \in Nodes : \A i \in Of(r, n) :
       \/ log[n][i].term < committed[c].term
       \/ log[n][i].term = committed[c].term /\ i = c

\* Not while it leads in a term in which it has proposed the request already.
MayPropose(r) ==
  phase[r] \in {"checking", "proposing"} \/ future[r] = "lost"

Try(r) ==
  /\ phase[r] \in Before => Tries(r) = {}
  /\ \A n \in Nodes : \A i, j \in Of(r, n) : log[n][i].term = log[n][j].term => i = j
  /\ at[r] # None => \A t \in Tries(r) : t <= term[at[r]]
  /\ at[r] # None /\ MayPropose(r) /\ Leading(at[r]) => term[at[r]] \notin Tries(r)
  /\ phase[r] = "ok" \/ future[r] = "nil" => \E c \in DOMAIN committed : FinalAt(r, c)
  /\ Cardinality(Tries(r)) <= Used(r)

TryInv == \A r \in Requests : Try(r)

LEMMA TriesType ==
  ASSUME RaftType, NEW r \in Requests
  PROVE  /\ Tries(r) \in SUBSET (1 .. MaxTerm) /\ IsFiniteSet(Tries(r))
         /\ Cardinality(Tries(r)) \in Nat
         /\ \A n \in Nodes : \A i \in Of(r, n) :
              /\ log[n][i].term \in Tries(r) /\ log[n][i].term \in Nat
              /\ i \in 1 .. Len(log[n])
<1>1. MaxTerm \in Nat
  BY RaftClusterAssumption
<1>2. IsFiniteSet(1 .. MaxTerm)
  BY <1>1, FS_Interval
<1>3. Tries(r) \in SUBSET (1 .. MaxTerm)
  BY DEF Tries
<1>4. IsFiniteSet(Tries(r)) /\ Cardinality(Tries(r)) \in Nat
  BY <1>2, <1>3, FS_Subset, FS_CardinalityType
<1>5. ASSUME NEW n \in Nodes, NEW i \in Of(r, n)
      PROVE  /\ log[n][i].term \in Tries(r) /\ log[n][i].term \in Nat
             /\ i \in 1 .. Len(log[n])
  <2>1. log[n] \in Seq(Entry) /\ i \in DOMAIN log[n]
    BY DEF Of, RaftType
  <2>2. log[n][i] \in Entry /\ i \in 1 .. Len(log[n])
    BY <2>1, EntrySeq
  <2>3. log[n][i].term \in 1 .. MaxTerm
    BY <2>2 DEF Entry
  <2> QED
    BY <1>1, <2>2, <2>3 DEF Tries
<1> QED
  BY <1>3, <1>4, <1>5

-----------------------------------------------------------------------------
(* Steps that make no entry of the request.                                 *)

\* The entries of r in a new log are those of one of the old logs.
Follows(r) ==
  \A n \in Nodes : \E m \in Nodes :
    \A i \in Of(r, n)' : i \in Of(r, m) /\ log'[n][i] = log[m][i]

\* Terms only rise, and a new leader has one that no log has yet.
TermsRise ==
  /\ \A n \in Nodes : term'[n] >= term[n]
  /\ \A n \in Nodes : Leading(n)' =>
       \/ Leading(n) /\ term'[n] = term[n]
       \/ \A m \in Nodes : LastTerm(log[m]) < term'[n]

LEMMA TriesShrink ==
  ASSUME RaftType, RaftType', Lengthens, NEW r \in Requests, Follows(r)
  PROVE  /\ Tries(r)' \in SUBSET Tries(r)
         /\ Cardinality(Tries(r)') <= Cardinality(Tries(r)) /\ Cardinality(Tries(r)') \in Nat
         /\ (\A n \in Nodes : \A i, j \in Of(r, n) : log[n][i].term = log[n][j].term => i = j)
            => \A n \in Nodes : \A i, j \in Of(r, n)' :
                 log'[n][i].term = log'[n][j].term => i = j
         /\ \A c \in DOMAIN committed : FinalAt(r, c) => c \in DOMAIN committed' /\ FinalAt(r, c)'
<1>1. Tries(r)' \in SUBSET Tries(r)
  <2> SUFFICES ASSUME NEW t \in Tries(r)' PROVE t \in Tries(r)
    OBVIOUS
  <2>1. PICK n \in Nodes : \E i \in Of(r, n)' : log'[n][i].term = t
    BY DEF Tries
  <2>2. PICK m \in Nodes : \A i \in Of(r, n)' : i \in Of(r, m) /\ log'[n][i] = log[m][i]
    BY DEF Follows
  <2>3. t \in 1 .. MaxTerm /\ \E i \in Of(r, m) : log[m][i].term = t
    BY <2>1, <2>2 DEF Tries
  <2> QED
    BY <2>3 DEF Tries
<1>2. Cardinality(Tries(r)') <= Cardinality(Tries(r)) /\ Cardinality(Tries(r)') \in Nat
  BY <1>1, TriesType, FS_Subset, FS_CardinalityType
<1>3. ASSUME \A n \in Nodes : \A i, j \in Of(r, n) : log[n][i].term = log[n][j].term => i = j,
             NEW n \in Nodes, NEW i \in Of(r, n)', NEW j \in Of(r, n)',
             log'[n][i].term = log'[n][j].term
      PROVE  i = j
  <2>1. PICK m \in Nodes : \A h \in Of(r, n)' : h \in Of(r, m) /\ log'[n][h] = log[m][h]
    BY DEF Follows
  <2> QED
    BY <1>3, <2>1
<1>4. ASSUME NEW c \in DOMAIN committed, FinalAt(r, c)
      PROVE  c \in DOMAIN committed' /\ FinalAt(r, c)'
  <2>1. c \in DOMAIN committed' /\ committed'[c] = committed[c]
    <3>1. /\ DOMAIN committed = 1 .. Len(committed) /\ DOMAIN committed' = 1 .. Len(committed')
          /\ Len(committed) \in Nat /\ Len(committed') \in Nat
      BY EntrySeq DEF RaftType
    <3> QED
      BY <3>1 DEF Lengthens, Same
  <2>2. ASSUME NEW n \in Nodes, NEW i \in Of(r, n)'
        PROVE  \/ log'[n][i].term < committed[c].term
               \/ log'[n][i].term = committed[c].term /\ i = c
    <3>1. PICK m \in Nodes : i \in Of(r, m) /\ log'[n][i] = log[m][i]
      BY DEF Follows
    <3> QED
      BY <1>4, <3>1 DEF FinalAt
  <2> QED
    BY <1>4, <2>1, <2>2 DEF FinalAt
<1> QED
  BY <1>1, <1>2, <1>3, <1>4

(* Such a step keeps Try(r) if the handler stays where it is, its future    *)
(* being lost with the leadership or succeeding with the last attempt.      *)
LEMMA TryKept ==
  ASSUME LogInv, LogInv', CallInv, Lengthens, TermsRise, NEW r \in Requests, Follows(r), Try(r),
         at'[r] = at[r], phase'[r] = phase[r], count'[r] = count[r],
         future'[r] = "lost" /\ at[r] # None => future[r] = "lost" \/ ~Leading(at[r])',
         future'[r] = "nil" => future[r] = "nil" \/ \E c \in DOMAIN committed' : FinalAt(r, c)'
  PROVE  Try(r)'
<1>1. RaftType /\ RaftType' /\ Ordered
  BY DEF LogInv
<1>2. /\ Tries(r)' \in SUBSET Tries(r)
      /\ Cardinality(Tries(r)') <= Cardinality(Tries(r)) /\ Cardinality(Tries(r)') \in Nat
  BY <1>1, TriesShrink
<1>3. at[r] # None => at[r] \in Nodes
  BY DEF CallInv, CallType
<1>4. \A n \in Nodes : term[n] \in Nat /\ term'[n] \in Nat
  <2>1. MaxTerm \in Nat
    BY RaftClusterAssumption
  <2> QED
    BY <1>1, <2>1, Typed DEF RaftType
<1>5. \A t \in Tries(r) : t \in Nat
  BY <1>1, TriesType
<1>6. phase'[r] \in Before => Tries(r)' = {}
  BY <1>2 DEF Try
<1>7. \A n \in Nodes : \A i, j \in Of(r, n)' : log'[n][i].term = log'[n][j].term => i = j
  BY <1>1, TriesShrink DEF Try
<1>8. ASSUME at[r] # None, NEW t \in Tries(r)' PROVE t <= term'[at[r]]
  <2>1. t \in Nat /\ t <= term[at[r]] /\ term'[at[r]] >= term[at[r]] /\ at[r] \in Nodes
    BY <1>2, <1>3, <1>5, <1>8 DEF Try, TermsRise
  <2> QED
    BY <1>4, <2>1
<1>9. ASSUME at[r] # None, MayPropose(r)', Leading(at[r])', term'[at[r]] \in Tries(r)'
      PROVE  FALSE
  <2>1. at[r] \in Nodes /\ term'[at[r]] \in Tries(r)
    BY <1>2, <1>3, <1>9
  <2>2. MayPropose(r)
    BY <1>9 DEF MayPropose
  <2>3. CASE Leading(at[r]) /\ term'[at[r]] = term[at[r]]
    BY <1>9, <2>1, <2>2, <2>3 DEF Try
  <2>4. CASE \A m \in Nodes : LastTerm(log[m]) < term'[at[r]]
    <3>0. PICK m \in Nodes : \E i \in Of(r, m) : log[m][i].term = term'[at[r]]
      BY <2>1 DEF Tries
    <3>1. PICK i \in Of(r, m) : log[m][i].term = term'[at[r]]
      BY <3>0
    <3>2. i \in 1 .. Len(log[m])
      BY <1>1, TriesType
    <3>3. log[m][i].term <= LastTerm(log[m]) /\ LastTerm(log[m]) \in Nat
      BY <1>1, <3>2, LastTermBounds, Typed
    <3>4. LastTerm(log[m]) < term'[at[r]] /\ term'[at[r]] \in Nat
      BY <1>4, <2>1, <2>4
    <3> QED
      BY <3>1, <3>3, <3>4
  <2> QED
    BY <1>9, <2>1, <2>3, <2>4 DEF TermsRise
<1>10. phase'[r] = "ok" \/ future'[r] = "nil" => \E c \in DOMAIN committed' : FinalAt(r, c)'
  BY <1>1, TriesShrink DEF Try
<1>11. Cardinality(Tries(r)') <= Used(r)'
  <2>1. Used(r)' = Used(r) /\ Used(r) \in Nat
    <3>1. Used(r)' = Used(r)
      BY DEF Used, Attempts
    <3>2. count[r] \in Nat /\ Attempts(r) \in Nat
      BY RequestFacts DEF Attempts
    <3> QED
      BY <3>1, <3>2 DEF Used
  <2> QED
    BY <1>1, <1>2, <2>1, TriesType DEF Try
<1> QED
  BY <1>6, <1>7, <1>8, <1>9, <1>10, <1>11 DEF Try

-----------------------------------------------------------------------------
(* Every step of Raft but a proposal is one of these.                       *)

LEMMA SameLogs ==
  ASSUME RaftType, log' = log, term' = term, \A n \in Nodes : Leading(n)' => Leading(n)
  PROVE  TermsRise /\ \A r \in Requests : Follows(r)
<1>1. \A n \in Nodes : term[n] \in Nat
  BY Typed
<1> QED
  BY <1>1 DEF TermsRise, Follows, Of

LEMMA RepliesFollow ==
  ASSUME RaftInv, NEW l \in Nodes, NEW f \in Nodes, Replicate(l, f)
  PROVE  TermsRise /\ \A r \in Requests : Follows(r)
<1>1. \A n \in Nodes : /\ log'[n] = IF n = f THEN log[l] ELSE log[n]
                       /\ term'[n] = IF n = f THEN term[l] ELSE term[n]
                       /\ Leading(n)' <=> Leading(n) /\ n # f
                       /\ term'[n] >= term[n]
  BY ReplicateFacts
<1>2. TermsRise
  BY <1>1 DEF TermsRise
<1>3. ASSUME NEW r \in Requests, NEW n \in Nodes
      PROVE  \E m \in Nodes : \A i \in Of(r, n)' : i \in Of(r, m) /\ log'[n][i] = log[m][i]
  <2>1. CASE n = f
    <3>1. log'[n] = log[l]
      BY <1>1, <2>1
    <3> QED
      BY <3>1 DEF Of
  <2>2. CASE n # f
    <3>1. log'[n] = log[n]
      BY <1>1, <2>2
    <3> QED
      BY <3>1 DEF Of
  <2> QED
    BY <2>1, <2>2
<1> QED
  BY <1>2, <1>3 DEF Follows

\* An entry of another request, or of none, at the end of a log.
LEMMA ExtendFollows ==
  ASSUME RaftType, NEW l \in Nodes, NEW e, Extends(l, e), NEW r \in Requests, e.req # r
  PROVE  Follows(r)
<1>1. \A n \in Nodes :
        /\ n # l => log'[n] = log[n]
        /\ DOMAIN log'[n] = 1 .. Len(log'[n])
        /\ Len(log'[n]) = IF n = l THEN Len(log[n]) + 1 ELSE Len(log[n])
        /\ \A i \in 1 .. Len(log[n]) : log'[n][i] = log[n][i]
  BY ExtendFacts
<1>2. log'[l][Len(log[l]) + 1] = e
  BY ExtendFacts
<1>3. \A n \in Nodes : DOMAIN log[n] = 1 .. Len(log[n]) /\ Len(log[n]) \in Nat
  BY Typed
<1>4. ASSUME NEW n \in Nodes, NEW i \in Of(r, n)'
      PROVE  i \in Of(r, n) /\ log'[n][i] = log[n][i]
  <2>1. i \in 1 .. Len(log'[n]) /\ log'[n][i].req = r
    BY <1>1, <1>4 DEF Of
  <2>2. i \in 1 .. Len(log[n])
    <3>1. CASE n = l
      <4>1. i # Len(log[l]) + 1
        BY <1>2, <2>1, <3>1
      <4> QED
        BY <1>1, <1>3, <2>1, <3>1, <4>1
    <3>2. CASE n # l
      BY <1>1, <2>1, <3>2
    <3> QED
      BY <3>1, <3>2
  <2> QED
    BY <1>1, <1>3, <2>1, <2>2 DEF Of
<1> QED
  BY <1>4 DEF Follows

LEMMA ElectFollows ==
  ASSUME RaftInv, NEW l \in Nodes, NEW Q \in SUBSET Nodes, Elect(l, Q)
  PROVE  TermsRise /\ \A r \in Requests : Follows(r)
<1>1. PICK t \in 1 .. MaxTerm :
        /\ Extends(l, [term |-> t, req |-> None, servers |-> Servers(log[l])])
        /\ \A n \in Nodes : LastTerm(log[n]) < t /\ term'[n] >= term[n]
        /\ term'[l] = t
        /\ \A n \in Nodes \ {l} : Leading(n)' => Leading(n) /\ term'[n] = term[n]
  BY ElectFacts
<1>2. TermsRise
  BY <1>1 DEF TermsRise
<1>3. ASSUME NEW r \in Requests PROVE Follows(r)
  <2> DEFINE e == [term |-> t, req |-> None, servers |-> Servers(log[l])]
  <2>1. Extends(l, e) /\ e.req # r
    BY <1>1, RaftClusterAssumption
  <2> HIDE DEF e
  <2> QED
    BY <2>1, ExtendFollows DEF RaftInv, LogInv
<1> QED
  BY <1>2, <1>3

LEMMA StartFollows ==
  ASSUME RaftInv, NEW n \in Nodes, Start(n)
  PROVE  TermsRise /\ \A r \in Requests : Follows(r)
<1>1. RaftType /\ \A m \in Nodes : term[m] \in Nat
  BY Typed DEF RaftInv, LogInv
<1>2. \A m \in Nodes : Leading(m)' => Leading(m) /\ m # n
  BY <1>1 DEF Start, Leading, RaftType
<1>3. CASE UNCHANGED <<log, term>>
  BY <1>1, <1>2, <1>3, SameLogs
<1>4. CASE /\ log' = [log EXCEPT ![n] = <<Bootstrap>>]
           /\ term' = [term EXCEPT ![n] = 1] /\ term[n] = 0
  <2>1. TermsRise
    <3>1. \A m \in Nodes : term'[m] = IF m = n THEN 1 ELSE term[m]
      BY <1>1, <1>4 DEF RaftType
    <3> QED
      BY <1>1, <1>2, <1>4, <3>1 DEF TermsRise
  <2>2. ASSUME NEW r \in Requests, NEW m \in Nodes, NEW i \in Of(r, m)'
        PROVE  i \in Of(r, m) /\ log'[m][i] = log[m][i]
    <3>1. CASE m = n
      <4>1. log'[m] = <<Bootstrap>>
        BY <1>1, <1>4, <3>1 DEF RaftType
      <4>2. i = 1 /\ log'[m][i].req = r
        BY <2>2, <4>1 DEF Of
      <4> QED
        BY <4>1, <4>2, RaftClusterAssumption DEF Bootstrap
    <3>2. CASE m # n
      <4>1. log'[m] = log[m]
        BY <1>1, <1>4, <3>2 DEF RaftType
      <4> QED
        BY <2>2, <4>1 DEF Of
    <3> QED
      BY <3>1, <3>2
  <2> QED
    BY <2>1, <2>2 DEF Follows
<1> QED
  BY <1>3, <1>4 DEF Start, Bootstrap

-----------------------------------------------------------------------------
(* The steps of Raft keep TryInv.                                           *)

\* The terms of a log never fall.
LEMMA LogsOrdered ==
  ASSUME LogInv, NEW l \in Nodes, NEW i \in DOMAIN log[l], NEW j \in DOMAIN log[l], i <= j
  PROVE  log[l][i].term <= log[l][j].term
BY DEF LogInv, Ordered

(* The future of an entry of the leader's term ends well: no entry of the   *)
(* request is of a later term, and none of this term is elsewhere.          *)
LEMMA AnsweredFinal ==
  ASSUME RaftInv, NEW r \in Requests, Try(r), NEW l \in Nodes, NEW k, Commit(l, k),
         at[r] = l, NEW i \in 1 .. k, log[l][i].req = r, log[l][i].term = term[l]
  PROVE  i \in DOMAIN committed' /\ FinalAt(r, i)'
<1>1. /\ RaftType /\ Leading(l) /\ log' = log /\ l # None /\ LeaderHas /\ Ordered
      /\ k \in 1 .. Len(log[l]) /\ Len(log[l]) \in Nat /\ DOMAIN log[l] = 1 .. Len(log[l])
      /\ committed' \in Seq(Entry) /\ Len(committed') >= k
      /\ Same(committed', log[l], Len(committed'))
  BY CommitterActive, CommitExtends, Typed, RaftClusterAssumption
     DEF RaftInv, LogInv, Commit
<1>2. DOMAIN committed' = 1 .. Len(committed') /\ Len(committed') \in Nat
  BY <1>1, EntrySeq
<1>3. i \in DOMAIN committed' /\ committed'[i] = log[l][i] /\ i \in Of(r, l)
  BY <1>1, <1>2 DEF Same, Of
<1>4. ASSUME NEW n \in Nodes, NEW j \in Of(r, n)
      PROVE  log[n][j].term < term[l] \/ (log[n][j].term = term[l] /\ j = i)
  <2>1. /\ log[n][j].term \in Tries(r) /\ log[n][j].term \in Nat /\ term[l] \in Nat
        /\ j \in DOMAIN log[n] /\ log[n][j].req = r
    BY <1>1, TriesType, Typed DEF Of
  <2>2. log[n][j].term <= term[l]
    BY <1>1, <2>1 DEF Try
  <2>3. ASSUME log[n][j].term = term[l] PROVE j = i
    <3>1. j \in DOMAIN log[l] /\ log[l][j] = log[n][j]
      BY <1>1, <2>1, <2>3 DEF LeaderHas
    <3>2. j \in Of(r, l) /\ log[l][j].term = log[l][i].term
      BY <2>1, <2>3, <3>1 DEF Of
    <3> QED
      BY <1>3, <3>2 DEF Try
  <2> QED
    BY <2>1, <2>2, <2>3
<1> QED
  BY <1>1, <1>3, <1>4 DEF FinalAt, Of

LEMMA CommitTry ==
  ASSUME Inv, Inv', TryInv, Lengthens, UNCHANGED callVars,
         NEW l \in Nodes, NEW k, Commit(l, k), NEW r \in Requests
  PROVE  Try(r)'
<1> DEFINE prefix == SubSeq(log[l], 1, k)
           done == {prefix[i].req : i \in {j \in 1 .. k : prefix[j].term = term[l]}}
           answered == [q \in Requests |->
                          IF at[q] = l /\ future[q] = "pending" /\ q \in done
                          THEN "nil" ELSE future[q]]
           removed == l \notin Servers(prefix)
<1>1. /\ future' = IF removed THEN LostAt(l, answered) ELSE answered
      /\ role' = [role EXCEPT ![l] = IF removed THEN "shutdown" ELSE @]
      /\ UNCHANGED <<at, phase, count, log, term>>
  BY DEF Commit, callVars
<1>2. /\ RaftType /\ Try(r) /\ LogInv /\ LogInv' /\ CallInv /\ RaftInv
      /\ k \in 1 .. Len(log[l]) /\ Len(log[l]) \in Nat /\ log[l] \in Seq(Entry)
  BY CommitterActive, Typed DEF Inv, RaftInv, LogInv, TryInv
<1>3. Same(prefix, log[l], k)
  BY <1>2, PrefixOf
<1>4. ASSUME r \in done, at[r] = l PROVE \E c \in DOMAIN committed' : FinalAt(r, c)'
  <2>1. PICK i \in 1 .. k : prefix[i].req = r /\ prefix[i].term = term[l]
    BY <1>4
  <2>2. log[l][i] = prefix[i]
    BY <1>3 DEF Same
  <2> HIDE DEF prefix, done
  <2> QED
    BY <1>2, <1>4, <2>1, <2>2, AnsweredFinal
<1> HIDE DEF prefix, done
<1>5. /\ answered[r] = "nil" => future[r] = "nil" \/ \E c \in DOMAIN committed' : FinalAt(r, c)'
      /\ answered[r] = "lost" => future[r] = "lost"
  BY <1>4
<1>6. removed => ~Leading(l)'
  BY <1>1, <1>2 DEF Leading, RaftType
<1>7. \A n \in Nodes : Leading(n)' => Leading(n)
  BY <1>1, <1>2 DEF Leading, RaftType
<1> HIDE DEF answered, removed
<1>8. /\ future'[r] = "nil" => future[r] = "nil" \/ \E c \in DOMAIN committed' : FinalAt(r, c)'
      /\ future'[r] = "lost" => future[r] = "lost" \/ (at[r] = l /\ ~Leading(l)')
  BY <1>1, <1>5, <1>6 DEF LostAt
<1>9. TermsRise /\ Follows(r)
  BY <1>1, <1>2, <1>7, SameLogs
<1> QED
  BY <1>1, <1>2, <1>8, <1>9, TryKept

LEMMA LostTry ==
  ASSUME Inv, Inv', TryInv, Lengthens, UNCHANGED <<phase, count, at>>, TermsRise,
         \A r \in Requests : Follows(r),
         future' = future \/ \E n \in Nodes : ~Leading(n)' /\ future' = LostAt(n, future)
  PROVE  TryInv'
<1> SUFFICES ASSUME NEW r \in Requests PROVE Try(r)'
  BY DEF TryInv
<1>1. /\ future'[r] = "nil" => future[r] = "nil"
      /\ future'[r] = "lost" => future[r] = "lost" \/ ~Leading(at[r])'
  BY DEF LostAt
<1> QED
  BY <1>1, TryKept DEF Inv, RaftInv, TryInv

LEMMA RaftStepTry ==
  ASSUME Inv, Inv', TryInv, Lengthens, UNCHANGED callVars, RaftStep
  PROVE  TryInv'
<1>1. RaftInv /\ RaftType /\ UNCHANGED <<phase, count>>
  BY DEF Inv, RaftInv, LogInv, callVars
<1>2. ASSUME NEW n \in Nodes, Start(n) PROVE TryInv'
  <2>1. UNCHANGED <<at, future>>
    BY <1>2 DEF Start
  <2> QED
    BY <1>1, <1>2, <2>1, StartFollows, LostTry
<1>3. ASSUME NEW n \in Nodes, StepDown(n) \/ Close(n) PROVE TryInv'
  <2>1. UNCHANGED <<at, log, term>> /\ future' = LostAt(n, future)
    BY <1>3 DEF StepDown, Close
  <2>2. ~Leading(n)' /\ \A m \in Nodes : Leading(m)' => Leading(m)
    BY <1>1, <1>3 DEF StepDown, Close, Leading, RaftType
  <2> QED
    BY <1>1, <2>1, <2>2, SameLogs, LostTry
<1>4. ASSUME NEW n \in Nodes, LoseLeader(n) PROVE TryInv'
  <2>1. UNCHANGED <<at, log, term, future, role>>
    BY <1>4 DEF LoseLeader
  <2>2. \A m \in Nodes : Leading(m)' => Leading(m)
    BY <2>1 DEF Leading
  <2> QED
    BY <1>1, <2>1, <2>2, SameLogs, LostTry
<1>5. ASSUME NEW n \in Nodes, NEW Q \in SUBSET Nodes, Elect(n, Q) PROVE TryInv'
  <2>1. UNCHANGED <<at, future>>
    BY <1>5 DEF Elect
  <2> QED
    BY <1>1, <1>5, <2>1, ElectFollows, LostTry
<1>6. ASSUME NEW l \in Nodes, NEW f \in Nodes, Replicate(l, f) PROVE TryInv'
  <2>1. UNCHANGED at /\ future' = LostAt(f, future)
    BY <1>6 DEF Replicate
  <2>2. ~Leading(f)'
    BY <1>1, <1>6, ReplicateFacts
  <2> QED
    BY <1>1, <1>6, <2>1, <2>2, RepliesFollow, LostTry
<1>7. ASSUME NEW l \in Nodes, NEW k, Commit(l, k) PROVE TryInv'
  BY <1>7, CommitTry DEF TryInv
<1> QED
  BY <1>2, <1>3, <1>4, <1>5, <1>6, <1>7 DEF RaftStep

-----------------------------------------------------------------------------
(* The steps of the handlers keep TryInv.                                   *)

LEMMA UsedBounds ==
  ASSUME CallInv, NEW r \in Requests
  PROVE  /\ Used(r) \in Nat /\ Attempts(r) \in Nat \ {0} /\ Used(r) <= Attempts(r)
         /\ phase[r] \in {"checking", "proposing", "pending"} => count[r] + 1 <= Attempts(r)
<1>1. /\ count[r] \in Nat /\ maxRetries \in Nat \ {0}
      /\ phase[r] # "waiting" => count[r] <= maxRetries - 1
      /\ opOf[r] \notin Writes => count[r] = 0
  BY RequestFacts
<1>2. Attempts(r) \in Nat \ {0} /\ (phase[r] # "waiting" => count[r] + 1 <= Attempts(r))
  BY <1>1 DEF Attempts
<1> QED
  BY <1>1, <1>2 DEF Used

\* A step without a new entry, of whatever handler.
LEMMA TryGoto ==
  ASSUME RaftType, CallInv, NEW r \in Requests, Try(r),
         log' = log, term' = term, committed' = committed,
         \A n \in Nodes : Leading(n)' => Leading(n),
         phase'[r] \in Before => Tries(r) = {},
         at'[r] # None => at'[r] = at[r] \/ Tries(r) = {},
         MayPropose(r)' => MayPropose(r) \/ Tries(r) = {},
         phase'[r] = "ok" \/ future'[r] = "nil" => phase[r] = "ok" \/ future[r] = "nil",
         Used(r)' \in Nat, Used(r)' >= Used(r), at'[r] \in Nodes \cup {None}
  PROVE  Try(r)'
<1>1. /\ \A n \in Nodes : Of(r, n)' = Of(r, n)
      /\ Tries(r)' = Tries(r)
      /\ \A c : FinalAt(r, c)' <=> FinalAt(r, c)
  BY DEF Of, Tries, FinalAt
<1>2. Cardinality(Tries(r)) \in Nat /\ Used(r) \in Nat
  BY TriesType, UsedBounds
<1>3. at'[r] # None => \A t \in Tries(r) : t <= term[at'[r]]
  BY DEF Try
<1>4. ASSUME (at[r] # None /\ MayPropose(r) /\ Leading(at[r]))', Tries(r) # {}
      PROVE  term[at'[r]] \notin Tries(r)
  <2>1. at'[r] = at[r] /\ at[r] \in Nodes /\ MayPropose(r)
    BY <1>4
  <2>2. Leading(at[r])
    BY <1>4, <2>1 DEF Leading
  <2> QED
    BY <1>4, <2>1, <2>2 DEF Try
<1>5. Cardinality(Tries(r)) <= Used(r)'
  BY <1>2 DEF Try
<1> QED
  BY <1>1, <1>3, <1>4, <1>5 DEF Try

LEMMA StepTry ==
  ASSUME Inv, TryInv, UNCHANGED quiet, NEW r \in Requests,
         NEW p \in Phases \ {"idle", "pending"}, NEW c \in Nat, Goto(r, p, c),
         future' = [future EXCEPT ![r] = "none"],
         p \in Before => phase[r] \in Before,
         p \in {"checking", "proposing"} =>
           /\ phase[r] \in Before \cup {"checking", "proposing"} \/ future[r] = "lost"
           /\ c >= Used(r),
         p = "ok" => future[r] = "nil"
  PROVE  TryInv'
<1>1. /\ RaftType /\ CallInv
      /\ log' = log /\ term' = term /\ committed' = committed /\ role' = role
  BY DEF Inv, RaftInv, LogInv, quiet, nodeVars
<1>2. \A n \in Nodes : Leading(n)' => Leading(n)
  BY <1>1 DEF Leading
<1>3. ASSUME NEW q \in Requests, q # r PROVE Try(q)'
  <2>1. phase'[q] = phase[q] /\ count'[q] = count[q] /\ at'[q] = at[q] /\ future'[q] = future[q]
        /\ at[q] \in Nodes \cup {None}
    BY <1>1, <1>3 DEF Goto, CallInv, CallType
  <2>2. Used(q)' = Used(q) /\ (MayPropose(q)' <=> MayPropose(q))
    BY <2>1 DEF Used, Attempts, MayPropose
  <2>3. Used(q) \in Nat /\ Try(q)
    BY <1>1, UsedBounds DEF TryInv
  <2> QED
    BY <1>1, <1>2, <2>1, <2>2, <2>3, TryGoto DEF Try
<1>4. Try(r)'
  <2>1. /\ phase'[r] = p /\ count'[r] = (IF p \in Answers THEN 0 ELSE c)
        /\ at'[r] = (IF p \in Answers THEN None ELSE at[r]) /\ future'[r] = "none"
        /\ at[r] \in Nodes \cup {None}
    BY <1>1 DEF Goto, CallInv, CallType
  <2>2. /\ Used(r) \in Nat /\ Attempts(r) \in Nat /\ Used(r) <= Attempts(r)
        /\ phase[r] \in Before => Used(r) = 0
    BY <1>1, UsedBounds DEF Used, Before
  <2>3. Attempts(r)' = Attempts(r) /\ Try(r)
    BY DEF Attempts, TryInv
  <2>4. Used(r)' \in Nat /\ Used(r)' >= Used(r)
    <3>1. CASE p \in {"checking", "proposing"}
      <4>1. Used(r)' = c
        BY <2>1, <3>1 DEF Used, Answers
      <4> QED
        BY <3>1, <4>1
    <3>2. CASE p \in {"ok", "error"}
      <4>1. Used(r)' = Attempts(r)
        BY <2>1, <2>3, <3>2 DEF Used
      <4> QED
        BY <2>2, <4>1
    <3>3. CASE p \in Before
      <4>1. Used(r)' = 0
        BY <2>1, <3>3 DEF Used, Before
      <4> QED
        BY <2>2, <3>3, <4>1
    <3> QED
      BY <3>1, <3>2, <3>3 DEF Phases, Answers, Before
  <2>5. phase'[r] \in Before => Tries(r) = {}
    BY <2>1, <2>3 DEF Try
  <2>6. MayPropose(r)' => MayPropose(r) \/ Tries(r) = {}
    BY <2>1, <2>3 DEF Try, MayPropose
  <2> QED
    BY <1>1, <1>2, <2>1, <2>3, <2>4, <2>5, <2>6, TryGoto
<1> QED
  BY <1>3, <1>4 DEF TryInv

LEMMA AheadTry ==
  ASSUME Inv, TryInv, UNCHANGED <<quiet, future>>, NEW r \in Requests,
         NEW p \in Phases \ {"idle", "pending", "ok"}, NEW c \in Nat, Goto(r, p, c),
         phase[r] # "pending",
         p \in Before => phase[r] \in Before,
         p \in {"checking", "proposing"} =>
           phase[r] \in Before \/ (phase[r] \in {"checking", "proposing"} /\ c >= count[r])
  PROVE  TryInv'
<1>1. future' = [future EXCEPT ![r] = "none"]
  BY DEF Inv, CallInv, CallType, Call
<1>2. /\ phase[r] \in Before => Used(r) = 0
      /\ phase[r] \in {"checking", "proposing"} => Used(r) = count[r]
  BY DEF Used, Before
<1>3. p \in {"checking", "proposing"} =>
        /\ phase[r] \in Before \cup {"checking", "proposing"} \/ future[r] = "lost"
        /\ c >= Used(r)
  BY <1>2
<1>4. p # "ok" /\ UNCHANGED quiet
  OBVIOUS
<1> QED
  BY <1>1, <1>3, <1>4, StepTry

LEMMA RetryTry ==
  ASSUME Inv, TryInv, UNCHANGED quiet, NEW r \in Requests, Retry(r),
         future' = [future EXCEPT ![r] = "none"],
         phase[r] = "checking" \/ (phase[r] = "pending" /\ future[r] = "lost")
  PROVE  TryInv'
<1>1. count[r] \in Nat
  BY RequestFacts DEF Inv
<1>2. CASE count[r] + 1 = maxRetries
  <2>1. Goto(r, "error", 0)
    BY <1>2 DEF Retry
  <2> QED
    BY <2>1, StepTry DEF Phases, Answers, Before
<1>3. CASE count[r] + 1 # maxRetries
  <2>1. Goto(r, "checking", count[r] + 1)
    BY <1>3 DEF Retry
  <2>2. count[r] + 1 \in Nat /\ count[r] + 1 >= Used(r)
    BY <1>1 DEF Used
  <2> QED
    BY <2>1, <2>2, StepTry DEF Phases, Answers, Before
<1> QED
  BY <1>2, <1>3

LEMMA HandlerTry ==
  ASSUME Inv, TryInv, NEW r \in Requests,
         \/ BadInput(r) \/ ClientGone(r) \/ CheckLeader(r) \/ RedirectPut(r) \/ Poll(r)
         \/ RedirectOther(r) \/ CheckWrite(r) \/ WriteRejected(r) \/ CheckChange(r)
         \/ ChangeRejected(r)
  PROVE  TryInv'
<1> USE AheadTry DEF Phases, Answers, Before
<1>1. count[r] \in Nat /\ (opOf[r] \notin Writes => count[r] = 0)
  BY RequestFacts DEF Inv
<1>2. CASE BadInput(r)
  BY <1>2 DEF BadInput
<1>3. CASE ClientGone(r)
  BY <1>3 DEF ClientGone
<1>4. CASE CheckLeader(r)
  <2>1. CASE IsLeader(at[r])
    BY <1>4, <2>1 DEF CheckLeader
  <2>2. CASE ~IsLeader(at[r])
    BY <1>4, <2>2 DEF CheckLeader
  <2> QED
    BY <2>1, <2>2
<1>5. CASE RedirectPut(r)
  <2>1. CASE known[at[r]] = None
    BY <1>5, <2>1 DEF RedirectPut
  <2>2. CASE known[at[r]] # None
    BY <1>5, <2>2 DEF RedirectPut
  <2> QED
    BY <2>1, <2>2
<1>6. CASE Poll(r)
  <2> DEFINE stop == known[at[r]] # None \/ count[r] + 1 = leaderPolls
  <2>1. phase[r] = "waiting" /\ Goto(r, IF stop THEN "refused" ELSE "waiting", count[r] + 1)
        /\ UNCHANGED <<quiet, future>> /\ count[r] + 1 \in Nat
    BY <1>1, <1>6 DEF Poll
  <2>2. CASE stop
    BY <2>1, <2>2
  <2>3. CASE ~stop
    BY <2>1, <2>3
  <2> QED
    BY <2>2, <2>3
<1>7. CASE RedirectOther(r)
  BY <1>7 DEF RedirectOther
<1>8. CASE CheckWrite(r)
  <2>1. CASE IsLeader(at[r])
    BY <1>1, <1>8, <2>1 DEF CheckWrite
  <2>2. CASE ~IsLeader(at[r])
    <3>1. /\ phase[r] = "checking" /\ Retry(r) /\ UNCHANGED <<quiet, future>>
          /\ future[r] = "none"
      BY <1>8, <2>2 DEF CheckWrite, Inv, CallInv, Call
    <3>2. future' = [future EXCEPT ![r] = "none"]
      BY <3>1 DEF Inv, CallInv, CallType
    <3> QED
      BY <3>1, <3>2, RetryTry
  <2> QED
    BY <2>1, <2>2
<1>9. CASE WriteRejected(r)
  BY <1>9 DEF WriteRejected
<1>10. CASE CheckChange(r)
  <2>1. CASE IsLeader(at[r])
    BY <1>1, <1>10, <2>1 DEF CheckChange
  <2>2. CASE ~IsLeader(at[r])
    BY <1>10, <2>2 DEF CheckChange
  <2> QED
    BY <2>1, <2>2
<1>11. CASE ChangeRejected(r)
  BY <1>11 DEF ChangeRejected
<1> QED
  BY <1>2, <1>3, <1>4, <1>5, <1>6, <1>7, <1>8, <1>9, <1>10, <1>11

LEMMA AnswerTry ==
  ASSUME Inv, TryInv, NEW r \in Requests, AnswerWrite(r) \/ AnswerChange(r)
  PROVE  TryInv'
<1>1. /\ phase[r] = "pending" /\ future[r] # "pending" /\ UNCHANGED quiet
      /\ future' = [future EXCEPT ![r] = "none"]
      /\ \/ future[r] = "nil" /\ Goto(r, "ok", 0)
         \/ future[r] # "nil" /\ Retry(r)
         \/ Goto(r, "error", 0)
  BY DEF AnswerWrite, AnswerChange
<1>2. future[r] = "nil" \/ future[r] = "lost"
  BY <1>1 DEF Inv, CallInv, CallType, Call
<1>3. CASE future[r] = "nil" /\ Goto(r, "ok", 0)
  BY <1>1, <1>3, StepTry DEF Phases, Answers, Before
<1>4. CASE Goto(r, "error", 0)
  BY <1>1, <1>4, StepTry DEF Phases, Answers, Before
<1>5. CASE future[r] # "nil" /\ Retry(r)
  BY <1>1, <1>2, <1>5, RetryTry
<1> QED
  BY <1>1, <1>3, <1>4, <1>5

\* The request is new: nothing bears its name.
LEMMA ReceiveTry ==
  ASSUME Inv, TryInv, NEW r \in Requests, NEW n \in Nodes, Receive(r, n)
  PROVE  TryInv'
<1>1. /\ RaftType /\ CallInv
      /\ log' = log /\ term' = term /\ committed' = committed /\ role' = role
      /\ phase[r] = "idle" /\ phase' = [phase EXCEPT ![r] = "received"]
      /\ at' = [at EXCEPT ![r] = n] /\ future' = future /\ count' = count
  BY DEF Inv, RaftInv, LogInv, Receive, quiet, nodeVars
<1>2. \A m \in Nodes : Leading(m)' => Leading(m)
  BY <1>1 DEF Leading
<1>3. ASSUME NEW q \in Requests, q # r PROVE Try(q)'
  <2>1. phase'[q] = phase[q] /\ at'[q] = at[q] /\ at[q] \in Nodes \cup {None}
    BY <1>1, <1>3 DEF CallInv, CallType
  <2>2. Used(q)' = Used(q) /\ (MayPropose(q)' <=> MayPropose(q))
    BY <1>1, <2>1 DEF Used, Attempts, MayPropose
  <2>3. Used(q) \in Nat /\ Try(q)
    BY <1>1, UsedBounds DEF TryInv
  <2> QED
    BY <1>1, <1>2, <2>1, <2>2, <2>3, TryGoto DEF Try
<1>4. Try(r)'
  <2>1. phase'[r] = "received" /\ at'[r] = n /\ Tries(r) = {} /\ Try(r)
    BY <1>1 DEF CallInv, CallType, TryInv, Try, Before
  <2>2. Used(r)' = 0 /\ Used(r) = 0
    BY <1>1, <2>1 DEF Used
  <2> QED
    BY <1>1, <1>2, <2>1, <2>2, TryGoto
<1> QED
  BY <1>3, <1>4 DEF TryInv

(* A proposal is the first of the request in its term, since the handler    *)
(* came back only after the leadership was lost.                            *)
LEMMA ProposeTry ==
  ASSUME Inv, Inv', TryInv, Lengthens, NEW r \in Requests, ProposeWrite(r) \/ ProposeChange(r)
  PROVE  TryInv'
<1> DEFINE l == at[r]
<1>1. /\ phase[r] = "proposing" /\ l \in Nodes /\ CallInv /\ RaftInv /\ RaftType /\ Try(r)
      /\ LogInv /\ LogInv'
  BY RequestFacts DEF ProposeWrite, ProposeChange, Inv, Answers, RaftInv, LogInv, TryInv
<1>2. /\ future' = [future EXCEPT ![r] = "pending"]
      /\ \/ opOf[r] \in Writes /\ Goto(r, "pending", count[r])
         \/ opOf[r] \notin Writes /\ Goto(r, "pending", 0)
  BY DEF ProposeWrite, ProposeChange, AppendWrite, AppendChange, AppendEntry
<1>3. count[r] \in Nat /\ (opOf[r] \notin Writes => count[r] = 0)
  BY <1>1, RequestFacts
<1>4. /\ phase'[r] = "pending" /\ future'[r] = "pending" /\ at'[r] = l /\ count'[r] = count[r]
      /\ \A q \in Requests \ {r} :
           phase'[q] = phase[q] /\ future'[q] = future[q] /\ at'[q] = at[q] /\ count'[q] = count[q]
  BY <1>1, <1>2, <1>3 DEF Goto, CallInv, CallType, Answers
<1>5. PICK S \in SUBSET Nodes :
        AppendEntry(l, r, S) /\ (opOf[r] \in {"add", "remove"} \/ S = Servers(log[l]))
  <2>1. Servers(log[l]) \in SUBSET Nodes
    BY <1>1, Typed
  <2>2. opOf[r] \in Writes \cup {"add", "remove"} /\ subject[r] \in Nodes
    BY RaftClusterAssumption DEF Operations
  <2>3. Changed(Servers(log[l]), r) \in SUBSET Nodes
    BY <2>1, <2>2 DEF Changed
  <2> QED
    BY <2>1, <2>2, <2>3 DEF ProposeWrite, ProposeChange, AppendWrite, AppendChange
<1> DEFINE e == [term |-> term[l], req |-> r, servers |-> S]
<1>6. /\ Extends(l, e) /\ Leading(l) /\ UNCHANGED <<role, term, known, applied, committed>>
      /\ \A n \in Nodes : Leading(n)' <=> Leading(n)
  BY <1>1, <1>5, AppendExtends
<1>7. e.req = r /\ e.term = term[l] /\ l # None
  BY <1>1, RaftClusterAssumption
<1> HIDE DEF e
<1>8. /\ \A n \in Nodes :
           /\ n # l => log'[n] = log[n]
           /\ DOMAIN log'[n] = 1 .. Len(log'[n])
           /\ Len(log'[n]) = IF n = l THEN Len(log[n]) + 1 ELSE Len(log[n])
           /\ \A i \in 1 .. Len(log[n]) : log'[n][i] = log[n][i]
      /\ log'[l][Len(log[l]) + 1] = e
  BY <1>1, <1>6, ExtendFacts
<1>9. \A n \in Nodes : /\ DOMAIN log[n] = 1 .. Len(log[n]) /\ Len(log[n]) \in Nat
                       /\ term[n] \in Nat
  BY <1>1, Typed
<1>10. term[l] \notin Tries(r)
  BY <1>1, <1>6, <1>7 DEF Try, MayPropose
<1>11. ASSUME NEW n \in Nodes, NEW i \in Of(r, n)'
       PROVE  \/ i \in Of(r, n) /\ log'[n][i] = log[n][i]
              \/ n = l /\ i = Len(log[l]) + 1 /\ log'[n][i].term = term[l]
  <2>1. i \in 1 .. Len(log'[n]) /\ log'[n][i].req = r
    BY <1>8, <1>11 DEF Of
  <2>2. CASE i \in 1 .. Len(log[n])
    BY <1>8, <1>9, <2>1, <2>2 DEF Of
  <2>3. CASE i \notin 1 .. Len(log[n])
    <3>1. n = l /\ i = Len(log[l]) + 1
      BY <1>8, <1>9, <2>1, <2>3
    <3> QED
      BY <1>7, <1>8, <3>1
  <2> QED
    BY <2>2, <2>3
<1>12. Tries(r)' \in SUBSET (Tries(r) \cup {term[l]})
  <2> SUFFICES ASSUME NEW t \in Tries(r)' PROVE t \in Tries(r) \cup {term[l]}
    OBVIOUS
  <2>1. PICK n \in Nodes : \E i \in Of(r, n)' : log'[n][i].term = t
    BY DEF Tries
  <2>2. PICK i \in Of(r, n)' : log'[n][i].term = t
    BY <2>1
  <2>3. \/ i \in Of(r, n) /\ log'[n][i] = log[n][i]
        \/ log'[n][i].term = term[l]
    BY <1>11
  <2>4. CASE i \in Of(r, n) /\ log'[n][i] = log[n][i]
    BY <1>1, <2>2, <2>4, TriesType
  <2> QED
    BY <2>2, <2>3, <2>4
<1>13. ASSUME NEW n \in Nodes, NEW i \in Of(r, n)', NEW j \in Of(r, n)',
              log'[n][i].term = log'[n][j].term
       PROVE  i = j
  <2>1. \A h \in Of(r, n) : log[n][h].term # term[l]
    BY <1>1, <1>10, TriesType
  <2>2. i \in Of(r, n) /\ j \in Of(r, n) /\ log[n][i].term = log[n][j].term => i = j
    BY <1>1 DEF Try
  <2> QED
    BY <1>11, <1>13, <2>1, <2>2
<1>14. \A t \in Tries(r)' : t <= term'[at'[r]]
  <2>1. \A t \in Tries(r) : t <= term[l]
    BY <1>1, <1>7 DEF Try
  <2> QED
    BY <1>1, <1>4, <1>6, <1>9, <1>12, <2>1
<1>15. Cardinality(Tries(r)') <= Used(r)'
  <2>1. /\ IsFiniteSet(Tries(r)) /\ Cardinality(Tries(r)) \in Nat
        /\ Cardinality(Tries(r)) <= count[r]
    BY <1>1, TriesType DEF Try, Used
  <2>2. /\ IsFiniteSet(Tries(r) \cup {term[l]})
        /\ Cardinality(Tries(r) \cup {term[l]}) = Cardinality(Tries(r)) + 1
    BY <1>10, <2>1, FS_AddElement
  <2>3. /\ Cardinality(Tries(r)') <= Cardinality(Tries(r) \cup {term[l]})
        /\ Cardinality(Tries(r)') \in Nat
    BY <1>12, <2>2, FS_Subset, FS_CardinalityType
  <2>4. Used(r)' = count[r] + 1
    BY <1>4 DEF Used
  <2> QED
    BY <1>3, <2>1, <2>2, <2>3, <2>4
<1>16. Try(r)'
  <2>1. ~MayPropose(r)' /\ ~(phase'[r] \in Before)
    BY <1>4 DEF MayPropose, Before
  <2> QED
    BY <1>4, <1>13, <1>14, <1>15, <2>1 DEF Try
<1>17. ASSUME NEW q \in Requests \ {r} PROVE Try(q)'
  <2>1. Follows(q)
    BY <1>1, <1>6, <1>7, ExtendFollows
  <2>2. TermsRise
    BY <1>6, <1>9 DEF TermsRise
  <2> QED
    BY <1>1, <1>4, <2>1, <2>2, TryKept DEF TryInv
<1> QED
  BY <1>16, <1>17 DEF TryInv

\* The process of the handlers at n ends.
LEMMA GoneTry ==
  ASSUME Inv, TryInv, NEW n \in Nodes, Abandon(n), GoneWith(n),
         log' = log, term' = term, committed' = committed,
         \A m \in Nodes : Leading(m)' => Leading(m)
  PROVE  TryInv'
<1> SUFFICES ASSUME NEW r \in Requests PROVE Try(r)'
  BY DEF TryInv
<1>1. /\ RaftType /\ CallInv /\ Try(r) /\ at[r] \in Nodes \cup {None}
      /\ at'[r] = (IF at[r] = n THEN None ELSE at[r])
      /\ future'[r] = (IF at[r] = n THEN "none" ELSE future[r])
      /\ phase'[r] = (IF at[r] = n THEN "error" ELSE phase[r])
      /\ count'[r] = (IF at[r] = n THEN 0 ELSE count[r])
  BY DEF Abandon, GoneWith, Inv, RaftInv, LogInv, TryInv, CallInv, CallType
<1>2. /\ Used(r) \in Nat /\ Attempts(r) \in Nat /\ Used(r) <= Attempts(r)
      /\ Attempts(r)' = Attempts(r)
  BY <1>1, UsedBounds DEF Attempts
<1>3. CASE at[r] = n
  <2>1. Used(r)' = Attempts(r) /\ ~MayPropose(r)' /\ ~(phase'[r] \in Before)
    BY <1>1, <1>2, <1>3 DEF Used, MayPropose, Before
  <2> QED
    BY <1>1, <1>2, <1>3, <2>1, TryGoto
<1>4. CASE at[r] # n
  <2>1. Used(r)' = Used(r) /\ (MayPropose(r)' <=> MayPropose(r))
    BY <1>1, <1>2, <1>4 DEF Used, MayPropose
  <2> QED
    BY <1>1, <1>2, <1>4, <2>1, TryGoto DEF Try
<1> QED
  BY <1>3, <1>4

LEMMA EndTry ==
  ASSUME Inv, ~GetNoSync, TryInv, NEW n \in Nodes, Exit(n) \/ \E k, t : Crash(n, k, t)
  PROVE  TryInv'
<1>1. RaftType
  BY DEF Inv, RaftInv, LogInv
<1>2. /\ Abandon(n) /\ GoneWith(n) /\ committed' = committed
      /\ role' = [role EXCEPT ![n] = "down"]
  BY DEF Exit, ExitRaft, Crash, CrashRaft
<1>3. \A m \in Nodes : Leading(m)' => Leading(m)
  BY <1>1, <1>2 DEF Leading, RaftType
<1>4. log' = log /\ term' = term
  <2>1. CASE Exit(n)
    BY <2>1 DEF Exit, ExitRaft
  <2>2. ASSUME NEW k, NEW t, Crash(n, k, t) PROVE log' = log /\ term' = term
    <3>1. /\ k = Len(log[n]) /\ t = term[n]
          /\ log' = [log EXCEPT ![n] = SubSeq(@, 1, k)] /\ term' = [term EXCEPT ![n] = t]
      BY <2>2 DEF Crash, CrashRaft
    <3>2. log[n] \in Seq(Entry) /\ SubSeq(log[n], 1, k) = log[n]
      BY <1>1, <3>1, Typed, SubSeqFull
    <3> QED
      BY <1>1, <3>1, <3>2 DEF RaftType
  <2> QED
    BY <2>1, <2>2
<1> QED
  BY <1>2, <1>3, <1>4, GoneTry

LEMMA TryNext ==
  ASSUME Inv, Inv', TryInv, Lengthens, ~GetNoSync, Next
  PROVE  TryInv'
<1>1. CASE UNCHANGED callVars /\ RaftStep
  BY <1>1, RaftStepTry
<1>2. ASSUME NEW r \in Requests, NEW n \in Nodes, Receive(r, n) PROVE TryInv'
  BY <1>2, ReceiveTry
<1>3. ASSUME NEW r \in Requests, BadInput(r) \/ ClientGone(r) \/ HandlerStep(r) PROVE TryInv'
  BY <1>3, HandlerTry, AnswerTry, ProposeTry DEF HandlerStep
<1>4. ASSUME NEW n \in Nodes, Exit(n) \/ \E k, t : Crash(n, k, t) PROVE TryInv'
  BY <1>4, EndTry
<1> QED
  BY <1>1, <1>2, <1>3, <1>4 DEF Next

LEMMA TryInit ==
  ASSUME Init
  PROVE  TryInv
<1> SUFFICES ASSUME NEW r \in Requests PROVE Try(r)
  BY DEF TryInv
<1>1. /\ phase[r] = "idle" /\ future[r] = "none" /\ at[r] = None
      /\ \A n \in Nodes : log[n] = <<>>
  BY DEF Init, RaftInit
<1>2. \A n \in Nodes : Of(r, n) = {}
  <2>1. DOMAIN <<>> = {}
    OBVIOUS
  <2> QED
    BY <1>1, <2>1 DEF Of
<1>3. Tries(r) = {}
  BY <1>2 DEF Tries
<1>4. Cardinality(Tries(r)) = 0 /\ Used(r) = 0
  BY <1>1, <1>3, FS_EmptySet DEF Used
<1> QED
  BY <1>1, <1>2, <1>3, <1>4 DEF Try

LEMMA TryStutters ==
  ASSUME Inv, TryInv, UNCHANGED vars
  PROVE  TryInv'
<1> SUFFICES ASSUME NEW r \in Requests PROVE Try(r)'
  BY DEF TryInv
<1>1. /\ log' = log /\ term' = term /\ committed' = committed /\ role' = role
      /\ phase' = phase /\ count' = count /\ at' = at /\ future' = future
      /\ RaftType /\ CallInv /\ Try(r)
  BY DEF vars, raftVars, callVars, nodeVars, Inv, RaftInv, LogInv, TryInv
<1>2. \A n \in Nodes : Leading(n)' => Leading(n)
  BY <1>1 DEF Leading
<1>3. Used(r)' = Used(r) /\ Used(r) \in Nat /\ (MayPropose(r)' <=> MayPropose(r))
  BY <1>1, UsedBounds DEF Used, Attempts, MayPropose
<1>4. at'[r] \in Nodes \cup {None}
  BY <1>1 DEF CallInv, CallType
<1> QED
  BY <1>1, <1>2, <1>3, <1>4, TryGoto DEF Try

LEMMA TryInvariance ==
  ASSUME ~GetNoSync
  PROVE  Spec => [](Inv /\ TryInv)
<1>1. Init => Inv /\ TryInv
  BY InitHolds, TryInit
<1>2. Inv /\ TryInv /\ [Next]_vars => Inv' /\ TryInv'
  BY NextSafe, TryNext, StutterSafe, TryStutters
<1> QED
  BY <1>1, <1>2, PTL DEF Spec

-----------------------------------------------------------------------------
(* The refinement.  The history of CommittedLog is the committed requests.  *)

LEMMA HistoryType ==
  ASSUME NEW s \in Seq(Entry)
  PROVE  LET h == [i \in DOMAIN s |-> s[i].req]
         IN  /\ h \in Seq(Requests \cup {None}) /\ Len(h) = Len(s)
             /\ DOMAIN h = 1 .. Len(s)
             /\ \A i \in 1 .. Len(s) : h[i] = s[i].req
<1> DEFINE h == [i \in DOMAIN s |-> s[i].req]
<1>1. /\ Len(s) \in Nat /\ DOMAIN s = 1 .. Len(s)
      /\ \A i \in 1 .. Len(s) : s[i] \in Entry
  BY EntrySeq
<1>2. \A i \in 1 .. Len(s) : s[i].req \in Requests \cup {None}
  BY <1>1 DEF Entry
<1>3. /\ h \in [1 .. Len(s) -> Requests \cup {None}]
      /\ \A i \in 1 .. Len(s) : h[i] = s[i].req
  BY <1>1, <1>2
<1> HIDE DEF h
<1>4. h \in Seq(Requests \cup {None})
  BY <1>1, <1>3, SeqDef
<1>5. DOMAIN h = 1 .. Len(s) /\ DOMAIN h = 1 .. Len(h) /\ Len(h) \in Nat
  BY <1>3, <1>4, LenProperties
<1>6. Len(h) = Len(s)
  BY <1>1, <1>5
<1> QED
  BY <1>3, <1>4, <1>5, <1>6 DEF h

LEMMA TimesIs ==
  ASSUME NEW r, NEW s
  PROVE  Log!Times(r, s) = Cardinality({i \in DOMAIN s : s[i] = r})
BY Zenon DEF Log!Times, Log!Cardinality, Cardinality

\* What is committed is in some log, so it has been proposed.
LEMMA InHistory ==
  ASSUME Inv, TryInv, NEW r \in Requests
  PROVE  /\ Log!Times(r, CommittedRequests) = 0 <=> ~InLog(r)
         /\ Log!Times(r, CommittedRequests) \in Nat
         /\ InLog(r) => Tries(r) # {}
<1> DEFINE T == {i \in DOMAIN CommittedRequests : CommittedRequests[i] = r}
<1>1. /\ RaftType /\ Len(committed) \in Nat /\ DOMAIN committed = 1 .. Len(committed)
      /\ DOMAIN CommittedRequests = 1 .. Len(committed)
      /\ \A i \in 1 .. Len(committed) : CommittedRequests[i] = committed[i].req
  BY HistoryType, EntrySeq DEF Inv, RaftInv, LogInv, RaftType, CommittedRequests
<1>2. T \in SUBSET (1 .. Len(committed)) /\ IsFiniteSet(1 .. Len(committed))
  BY <1>1, FS_Interval
<1>3. Log!Times(r, CommittedRequests) = Cardinality(T)
  BY TimesIs
<1>4. T = {} <=> ~InLog(r)
  BY <1>1 DEF InLog
<1> HIDE DEF T
<1>5. Cardinality(T) \in Nat /\ (Cardinality(T) = 0 <=> T = {})
  BY <1>2, FS_Subset, FS_CardinalityType, FS_EmptySet
<1>6. ASSUME InLog(r) PROVE Tries(r) # {}
  <2>1. PICK i \in 1 .. Len(committed) : committed[i].req = r
    BY <1>1, <1>6 DEF InLog
  <2>2. PICK n \in Nodes : Same(committed, log[n], Len(committed))
    BY DEF Inv, RaftInv, CommitInv, CommittedSomewhere
  <2>3. i \in DOMAIN log[n] /\ log[n][i] = committed[i]
    BY <1>1, <2>2, Typed DEF Same
  <2>4. i \in Of(r, n)
    BY <2>1, <2>3 DEF Of
  <2> QED
    BY <1>1, <2>4, TriesType
<1> QED
  BY <1>3, <1>4, <1>5, <1>6

LEMMA HistoryStays ==
  ASSUME committed' = committed
  PROVE  CommittedRequests' = CommittedRequests
BY DEF CommittedRequests

LEMMA GotoRefines ==
  ASSUME Inv, TryInv, NEW r \in Requests, NEW p \in Phases \ {"idle"}, NEW c, Goto(r, p, c),
         committed' = committed, phase[r] \notin {"idle"} \cup Answers,
         p = "refused" => phase[r] \in Before,
         p = "ok" => future[r] = "nil"
  PROVE  Log!Next \/ UNCHANGED Log!vars
<1>1. CommittedRequests' = CommittedRequests
  BY HistoryStays
<1>2. phase' = [phase EXCEPT ![r] = p] /\ phase \in [Requests -> Phases]
  BY DEF Goto, Inv, CallInv, CallType
<1>3. callState[r] = "open"
  BY DEF callState
<1>4. CASE p \notin Answers
  <2>1. callState' = callState
    BY <1>2, <1>4 DEF callState
  <2> QED
    BY <1>1, <2>1 DEF Log!vars
<1>5. p \in Answers => callState' = [callState EXCEPT ![r] = p]
  BY <1>2 DEF callState
<1>6. CASE p = "ok"
  <2>1. InLog(r)
    BY <1>6 DEF Inv, CallInv, Call
  <2>2. Log!Times(r, CommittedRequests) > 0
    BY <2>1, InHistory
  <2>3. Log!ReturnOk(r)
    BY <1>1, <1>3, <1>5, <1>6, <2>2 DEF Log!ReturnOk, Answers
  <2> QED
    BY <2>3 DEF Log!Next
<1>7. CASE p = "refused"
  <2>1. Tries(r) = {}
    BY <1>7 DEF TryInv, Try
  <2>2. Log!Times(r, CommittedRequests) = 0
    BY <2>1, InHistory
  <2>3. Log!Refuse(r)
    BY <1>1, <1>3, <1>5, <1>7, <2>2 DEF Log!Refuse, Answers
  <2> QED
    BY <2>3 DEF Log!Next
<1>8. CASE p = "error"
  <2>1. callState' = [q \in Requests |-> IF q \in {r} THEN "error" ELSE callState[q]]
    BY <1>5, <1>8 DEF callState, Answers
  <2>2. Log!ReturnError({r})
    BY <1>1, <1>3, <2>1 DEF Log!ReturnError
  <2> QED
    BY <2>2 DEF Log!Next
<1> QED
  BY <1>4, <1>6, <1>7, <1>8 DEF Answers

LEMMA RetryRefines ==
  ASSUME Inv, TryInv, NEW r \in Requests, Retry(r), committed' = committed,
         phase[r] \notin {"idle"} \cup Answers
  PROVE  Log!Next \/ UNCHANGED Log!vars
<1>1. CASE Goto(r, "error", 0)
  BY <1>1, GotoRefines DEF Phases, Answers
<1>2. CASE Goto(r, "checking", count[r] + 1)
  BY <1>2, GotoRefines DEF Phases, Answers
<1> QED
  BY <1>1, <1>2 DEF Retry

(* A request has at most as many committed entries as terms in which it was *)
(* proposed.                                                                *)
LEMMA TriesBound ==
  ASSUME Inv, TryInv, NEW r \in Requests, NEW l \in Nodes, NEW s \in Seq(Entry),
         Same(s, log[l], Len(s))
  PROVE  Cardinality({i \in DOMAIN s : s[i].req = r}) <= Attempts(r)
<1> DEFINE T == {i \in DOMAIN s : s[i].req = r}
           f == [i \in T |-> s[i].term]
<1>1. RaftType /\ Try(r) /\ CallInv
  BY DEF Inv, RaftInv, LogInv, TryInv
<1>2. /\ DOMAIN s = 1 .. Len(s) /\ Len(s) \in Nat
      /\ DOMAIN log[l] = 1 .. Len(log[l]) /\ Len(log[l]) \in Nat
  BY <1>1, EntrySeq, Typed
<1>3. ASSUME NEW i \in T PROVE i \in Of(r, l) /\ log[l][i] = s[i] /\ s[i].term \in Tries(r)
  <2>1. i \in Of(r, l) /\ log[l][i] = s[i]
    BY <1>2 DEF Same, Of
  <2> QED
    BY <1>1, <2>1, TriesType
<1>4. f \in Injection(T, Tries(r))
  <2>1. f \in [T -> Tries(r)]
    BY <1>3
  <2>2. ASSUME NEW i \in T, NEW j \in T, f[i] = f[j] PROVE i = j
    <3>1. log[l][i].term = log[l][j].term /\ i \in Of(r, l) /\ j \in Of(r, l)
      BY <1>3, <2>2
    <3> QED
      BY <1>1, <3>1 DEF Try
  <2> HIDE DEF f, T
  <2> QED
    BY <2>1, <2>2 DEF Injection, IsInjective
<1> HIDE DEF f, T
<1>5. IsFiniteSet(T) /\ Cardinality(T) <= Cardinality(Tries(r)) /\ Cardinality(T) \in Nat
  BY <1>1, <1>4, TriesType, FS_Injection, FS_CardinalityType
<1>6. Cardinality(T) <= Attempts(r)
  BY <1>1, <1>5, TriesType, UsedBounds DEF Try
<1> QED
  BY <1>6 DEF T

(* An entry that is new in the committed log is of a request that may still *)
(* take effect: proposed, and not answered 200, since the committed entry   *)
(* of such a request is its last.                                           *)
LEMMA NewEntryOpen ==
  ASSUME Inv, TryInv, NEW l \in Nodes, Same(committed, log[l], Len(committed)),
         NEW i \in 1 .. Len(log[l]), i > Len(committed),
         NEW r \in Requests, log[l][i].req = r
  PROVE  callState[r] \in {"open", "error"}
<1>1. /\ RaftType /\ Try(r) /\ CallInv /\ LogInv
      /\ Len(committed) \in Nat /\ DOMAIN committed = 1 .. Len(committed)
      /\ Len(log[l]) \in Nat /\ DOMAIN log[l] = 1 .. Len(log[l])
  BY Typed, EntrySeq DEF Inv, RaftInv, LogInv, TryInv, RaftType
<1>2. i \in Of(r, l) /\ log[l][i].term \in Tries(r) /\ log[l][i].term \in Nat
  <2>1. i \in Of(r, l)
    BY <1>1 DEF Of
  <2> QED
    BY <1>1, <2>1, TriesType
<1>3. phase[r] \notin Before
  BY <1>1, <1>2 DEF Try
<1>4. ASSUME phase[r] = "ok" PROVE FALSE
  <2>1. PICK c \in 1 .. Len(committed) : FinalAt(r, c)
    BY <1>1, <1>4 DEF Try
  <2>2. c \in DOMAIN log[l] /\ i \in DOMAIN log[l] /\ c <= i /\ c # i
        /\ log[l][c] = committed[c]
    BY <1>1, <2>1 DEF Same
  <2>3. log[l][c].term <= log[l][i].term
    BY <1>1, <2>2, LogsOrdered
  <2>4. log[l][i].term < committed[c].term
    BY <1>2, <2>1, <2>2 DEF FinalAt
  <2>5. c \in Of(r, l) /\ log[l][c].term \in Nat
    <3>1. c \in Of(r, l)
      BY <2>1, <2>2 DEF FinalAt, Of
    <3> QED
      BY <1>1, <3>1, TriesType
  <2> QED
    BY <1>2, <2>2, <2>3, <2>4, <2>5
<1>5. phase[r] \in Phases
  BY <1>1 DEF CallInv, CallType
<1> QED
  BY <1>3, <1>4, <1>5 DEF callState, Phases, Answers, Before

\* A sequence that begins with another goes on with the rest.
Remains(S, g, h, z, m) ==
  LET s == SubSeq(g, m + 1, z)
  IN  /\ s \in Seq(S) /\ Len(s) = z - m /\ DOMAIN s = 1 .. z - m
      /\ \A i \in 1 .. z - m : s[i] = g[m + i]
      /\ g = h \o s

LEMMA Remainder ==
  ASSUME NEW S, NEW g \in Seq(S), NEW h \in Seq(S), NEW z \in Nat, NEW m \in Nat,
         Len(g) = z, Len(h) = m, m <= z, \A i \in 1 .. m : g[i] = h[i]
  PROVE  Remains(S, g, h, z, m)
<1> DEFINE s == SubSeq(g, m + 1, z)
<1>1. m + 1 \in Int /\ z \in Int /\ \A i \in (m + 1) .. z : g[i] \in S
  BY ElementOfSeq
<1>2. /\ s \in Seq(S)
      /\ Len(s) = IF m + 1 <= z THEN z - (m + 1) + 1 ELSE 0
      /\ \A i \in 1 .. z - (m + 1) + 1 : s[i] = g[m + 1 + i - 1]
  BY <1>1, SubSeqProperties
<1> HIDE DEF s
<1>3. z - (m + 1) + 1 = z - m /\ Len(s) = z - m
  BY <1>2
<1>4. \A i \in 1 .. z - m : s[i] = g[m + i]
  <2>1. \A i \in 1 .. z - m : m + 1 + i - 1 = m + i
    OBVIOUS
  <2> QED
    BY <1>2, <1>3, <2>1
<1>5. DOMAIN s = 1 .. z - m
  BY <1>2, <1>3, LenProperties
<1>6. /\ h \o s \in Seq(S) /\ Len(h \o s) = Len(h) + Len(s)
      /\ \A i \in 1 .. Len(h) + Len(s) :
           (h \o s)[i] = IF i <= Len(h) THEN h[i] ELSE s[i - Len(h)]
  BY <1>2, ConcatProperties
<1>7. m + (z - m) = z
  OBVIOUS
<1> DEFINE t == h \o s
<1>8. t \in Seq(S) /\ Len(t) = z /\ \A i \in 1 .. z : t[i] = IF i <= m THEN h[i] ELSE s[i - m]
  BY <1>3, <1>6, <1>7
<1> HIDE DEF t
<1>9. ASSUME NEW i \in 1 .. z PROVE g[i] = t[i]
  <2>1. CASE i <= m
    BY <1>8, <2>1
  <2>2. CASE ~(i <= m)
    <3>1. i - m \in 1 .. z - m /\ m + (i - m) = i
      BY <2>2
    <3>2. t[i] = s[i - m] /\ s[i - m] = g[m + (i - m)]
      BY <1>4, <1>8, <2>2, <3>1
    <3> QED
      BY <3>1, <3>2
  <2> QED
    BY <2>1, <2>2
<1>10. g = t
  BY <1>8, <1>9, SeqEqual
<1> QED
  BY <1>2, <1>3, <1>4, <1>5, <1>10 DEF s, t, Remains

LEMMA CommitRefines ==
  ASSUME Inv, Inv', TryInv, UNCHANGED callVars, NEW l \in Nodes, NEW k, Commit(l, k)
  PROVE  Log!Next \/ UNCHANGED Log!vars
<1> DEFINE h == CommittedRequests
           g == CommittedRequests'
           m == Len(committed)
           z == Len(committed')
           s == SubSeq(g, m + 1, z)
<1>1. /\ RaftType /\ RaftType' /\ LogInv
      /\ committed \in Seq(Entry) /\ committed' \in Seq(Entry)
      /\ m \in Nat /\ z \in Nat /\ m <= z /\ z <= Len(log[l]) /\ Len(log[l]) \in Nat
      /\ \A i \in 1 .. m : committed'[i] = committed[i]
      /\ \A i \in 1 .. z : committed'[i] = log[l][i]
      /\ Same(committed, log[l], m) /\ Same(committed', log[l], z)
  BY CommitExtends, CommitterActive, Typed, EntrySeq DEF Inv, RaftInv, LogInv, RaftType, Same
<1>2. /\ h \in Seq(Requests \cup {None}) /\ Len(h) = m
      /\ \A i \in 1 .. m : h[i] = committed[i].req
  BY <1>1, HistoryType DEF CommittedRequests
<1>3. /\ g \in Seq(Requests \cup {None}) /\ Len(g) = z /\ DOMAIN g = 1 .. z
      /\ \A i \in 1 .. z : g[i] = committed'[i].req
  BY <1>1, HistoryType DEF CommittedRequests
<1>4. callState' = callState
  BY DEF callVars, callState
<1>5. \A i \in 1 .. m : g[i] = h[i]
  BY <1>1, <1>2, <1>3
<1>6. /\ s \in Seq(Requests \cup {None}) /\ Len(s) = z - m /\ DOMAIN s = 1 .. z - m
      /\ \A i \in 1 .. z - m : s[i] = g[m + i]
      /\ g = h \o s
  <2> DEFINE S == Requests \cup {None}
  <2>1. g \in Seq(S) /\ h \in Seq(S) /\ m \in Nat /\ z \in Nat
    BY <1>1, <1>2, <1>3
  <2>2. m <= z /\ Len(g) = z /\ Len(h) = m
    BY <1>1, <1>2, <1>3
  <2> HIDE DEF g, h, m, z, S
  <2>3. Remains(S, g, h, z, m)
    BY <1>5, <2>1, <2>2, Remainder
  <2> QED
    BY <2>3 DEF Remains, S
<1> HIDE DEF h, g, m, z, s
<1>7. CASE z = m
  <2>1. g = h
    <3>1. \A i \in 1 .. z : g[i] = h[i]
      BY <1>1, <1>2, <1>3, <1>7
    <3> QED
      BY <1>2, <1>3, <1>7, <3>1, SeqEqual
  <2> QED
    BY <1>4, <2>1 DEF Log!vars, g, h
<1>8. CASE z > m
  <2>1. s # <<>>
    <3>1. Len(s) # 0
      BY <1>1, <1>6, <1>8
    <3> QED
      BY <3>1, EmptySeq
  <2>2. ASSUME NEW i \in DOMAIN s, s[i] # None PROVE callState[s[i]] \in {"open", "error"}
    <3>1. /\ i \in 1 .. z - m /\ s[i] = g[m + i] /\ m + i \in 1 .. z
          /\ m + i \in 1 .. Len(log[l]) /\ m + i > m
      <4>1. i \in 1 .. z - m /\ s[i] = g[m + i]
        BY <1>6
      <4>2. m + i \in 1 .. z /\ m + i \in 1 .. Len(log[l]) /\ m + i > m
        BY <1>1, <4>1
      <4> QED
        BY <4>1, <4>2
    <3>2. s[i] = log[l][m + i].req /\ s[i] \in Requests
      <4>1. s[i] = log[l][m + i].req
        BY <1>1, <1>3, <3>1
      <4>2. s[i] \in Requests \cup {None}
        BY <1>6, <3>1, ElementOfSeq
      <4> QED
        BY <2>2, <4>1, <4>2
    <3> QED
      BY <1>1, <3>1, <3>2, NewEntryOpen DEF m
  <2>3. ASSUME NEW r \in Requests PROVE Log!Times(r, g) <= Attempts(r)
    <3> DEFINE T == {i \in DOMAIN committed' : committed'[i].req = r}
    <3>1. Cardinality(T) <= Attempts(r)
      BY <1>1, TriesBound DEF z
    <3>2. DOMAIN committed' = 1 .. z
      BY <1>1, EntrySeq DEF z
    <3>3. {i \in DOMAIN g : g[i] = r} = T
      BY <1>3, <3>2
    <3> QED
      BY <3>1, <3>3, TimesIs
  <2>4. Log!Extend(s)
    BY <1>4, <1>6, <2>1, <2>2, <2>3 DEF Log!Extend, Attempts, g, h
  <2> QED
    BY <1>2, <1>3, <1>8, <2>4 DEF Log!Next, g, h, s
<1> QED
  BY <1>1, <1>7, <1>8

LEMMA RaftStepRefines ==
  ASSUME Inv, Inv', TryInv, UNCHANGED callVars, RaftStep
  PROVE  Log!Next \/ UNCHANGED Log!vars
<1>1. CASE committed' = committed
  BY <1>1, HistoryStays DEF Log!vars, callVars, callState
<1>2. ASSUME NEW l \in Nodes, NEW k, Commit(l, k) PROVE Log!Next \/ UNCHANGED Log!vars
  BY <1>2, CommitRefines
<1> QED
  BY <1>1, <1>2 DEF RaftStep, Start, StepDown, LoseLeader, Close, Elect, Replicate

LEMMA ReceiveRefines ==
  ASSUME Inv, NEW r \in Requests, NEW n \in Nodes, Receive(r, n)
  PROVE  Log!Next
<1>1. /\ phase[r] = "idle" /\ phase' = [phase EXCEPT ![r] = "received"]
      /\ phase \in [Requests -> Phases] /\ committed' = committed
  BY DEF Receive, quiet, Inv, CallInv, CallType
<1>2. callState[r] = "idle" /\ callState' = [callState EXCEPT ![r] = "open"]
  BY <1>1 DEF callState, Answers
<1>3. CommittedRequests' = CommittedRequests
  BY <1>1, HistoryStays
<1> QED
  BY <1>2, <1>3 DEF Log!Next, Log!Invoke

LEMMA HandlerRefines ==
  ASSUME Inv, TryInv, NEW r \in Requests, BadInput(r) \/ ClientGone(r) \/ HandlerStep(r)
  PROVE  Log!Next \/ UNCHANGED Log!vars
<1> USE DEF quiet, Phases, Answers, Before
<1>1. CASE BadInput(r)
  BY <1>1, GotoRefines DEF BadInput
<1>2. CASE ClientGone(r)
  BY <1>2, GotoRefines DEF ClientGone
<1>3. CASE CheckLeader(r)
  <2>1. CASE IsLeader(at[r])
    BY <1>3, <2>1, GotoRefines DEF CheckLeader
  <2>2. CASE ~IsLeader(at[r])
    BY <1>3, <2>2, GotoRefines DEF CheckLeader
  <2> QED
    BY <2>1, <2>2
<1>4. CASE RedirectPut(r)
  <2>1. CASE known[at[r]] = None
    BY <1>4, <2>1, GotoRefines DEF RedirectPut
  <2>2. CASE known[at[r]] # None
    BY <1>4, <2>2, GotoRefines DEF RedirectPut
  <2> QED
    BY <2>1, <2>2
<1>5. CASE Poll(r)
  <2> DEFINE stop == known[at[r]] # None \/ count[r] + 1 = leaderPolls
  <2>1. phase[r] = "waiting" /\ Goto(r, IF stop THEN "refused" ELSE "waiting", count[r] + 1)
        /\ committed' = committed
    BY <1>5 DEF Poll
  <2>2. CASE stop
    BY <2>1, <2>2, GotoRefines
  <2>3. CASE ~stop
    BY <2>1, <2>3, GotoRefines
  <2> QED
    BY <2>2, <2>3
<1>6. CASE RedirectOther(r)
  BY <1>6, GotoRefines DEF RedirectOther
<1>7. CASE CheckWrite(r)
  <2>1. CASE IsLeader(at[r])
    BY <1>7, <2>1, GotoRefines DEF CheckWrite
  <2>2. CASE ~IsLeader(at[r])
    BY <1>7, <2>2, RetryRefines DEF CheckWrite
  <2> QED
    BY <2>1, <2>2
<1>8. CASE ProposeWrite(r)
  BY <1>8, GotoRefines DEF ProposeWrite, AppendWrite, AppendEntry
<1>9. CASE WriteRejected(r)
  BY <1>9, GotoRefines DEF WriteRejected
<1>10. CASE AnswerWrite(r)
  <2>1. CASE future[r] = "nil"
    BY <1>10, <2>1, GotoRefines DEF AnswerWrite
  <2>2. CASE future[r] # "nil"
    BY <1>10, <2>2, RetryRefines DEF AnswerWrite
  <2> QED
    BY <2>1, <2>2
<1>11. CASE CheckChange(r)
  <2>1. CASE IsLeader(at[r])
    BY <1>11, <2>1, GotoRefines DEF CheckChange
  <2>2. CASE ~IsLeader(at[r])
    BY <1>11, <2>2, GotoRefines DEF CheckChange
  <2> QED
    BY <2>1, <2>2
<1>12. CASE ProposeChange(r)
  BY <1>12, GotoRefines DEF ProposeChange, AppendChange, AppendEntry
<1>13. CASE ChangeRejected(r)
  BY <1>13, GotoRefines DEF ChangeRejected
<1>14. CASE AnswerChange(r)
  <2>1. CASE future[r] = "nil"
    BY <1>14, <2>1, GotoRefines DEF AnswerChange
  <2>2. CASE future[r] # "nil"
    BY <1>14, <2>2, GotoRefines DEF AnswerChange
  <2> QED
    BY <2>1, <2>2
<1> QED
  BY <1>1, <1>2, <1>3, <1>4, <1>5, <1>6, <1>7, <1>8, <1>9, <1>10, <1>11, <1>12, <1>13, <1>14
  DEF HandlerStep

\* Every request that was open at n ends without an answer.
LEMMA EndRefines ==
  ASSUME Inv, NEW n \in Nodes, GoneWith(n), committed' = committed
  PROVE  Log!Next \/ UNCHANGED Log!vars
<1> DEFINE S == {r \in Requests : at[r] = n}
<1>1. /\ phase \in [Requests -> Phases] /\ n # None
      /\ phase' = [r \in Requests |-> IF at[r] = n THEN "error" ELSE phase[r]]
  BY RaftClusterAssumption DEF GoneWith, Inv, CallInv, CallType
<1>2. \A r \in S : callState[r] = "open"
  BY <1>1 DEF Inv, CallInv, Call, callState
<1>3. callState' = [r \in Requests |-> IF r \in S THEN "error" ELSE callState[r]]
  BY <1>1 DEF callState, Answers
<1>4. CommittedRequests' = CommittedRequests
  BY HistoryStays
<1>5. CASE S = {}
  <2>1. callState' = callState
    BY <1>3, <1>5 DEF callState
  <2> QED
    BY <1>4, <2>1 DEF Log!vars
<1>6. CASE S # {}
  <2>1. Log!ReturnError(S) /\ S \in SUBSET Requests
    BY <1>2, <1>3, <1>4, <1>6 DEF Log!ReturnError
  <2> HIDE DEF S
  <2> QED
    BY <2>1 DEF Log!Next
<1> QED
  BY <1>5, <1>6

LEMMA RefinesNext ==
  ASSUME Inv, Inv', TryInv, [Next]_vars
  PROVE  Log!Next \/ UNCHANGED Log!vars
<1>1. CASE UNCHANGED callVars /\ RaftStep
  BY <1>1, RaftStepRefines
<1>2. ASSUME NEW r \in Requests, NEW n \in Nodes, Receive(r, n) PROVE Log!Next
  BY <1>2, ReceiveRefines
<1>3. ASSUME NEW r \in Requests, BadInput(r) \/ ClientGone(r) \/ HandlerStep(r)
      PROVE  Log!Next \/ UNCHANGED Log!vars
  BY <1>3, HandlerRefines
<1>4. ASSUME NEW n \in Nodes, Exit(n) PROVE Log!Next \/ UNCHANGED Log!vars
  BY <1>4, EndRefines DEF Exit, ExitRaft
<1>5. ASSUME NEW n \in Nodes, NEW k, NEW t, Crash(n, k, t)
      PROVE  Log!Next \/ UNCHANGED Log!vars
  BY <1>5, EndRefines DEF Crash, CrashRaft
<1>6. CASE UNCHANGED vars
  BY <1>6, HistoryStays DEF vars, raftVars, callVars, Log!vars, callState
<1> QED
  BY <1>1, <1>2, <1>3, <1>4, <1>5, <1>6 DEF Next

LEMMA RefinesInit ==
  ASSUME Init
  PROVE  Log!Init
<1>1. committed = <<>> /\ \A r \in Requests : phase[r] = "idle"
  BY DEF Init, RaftInit
<1>2. <<>> \in Seq(Entry) /\ Len(<<>>) = 0
  BY EmptySeq
<1>3. CommittedRequests \in Seq(Requests \cup {None}) /\ Len(CommittedRequests) = 0
  BY <1>1, <1>2, HistoryType DEF CommittedRequests
<1>4. CommittedRequests = <<>>
  BY <1>3, EmptySeq
<1> QED
  BY <1>1, <1>4 DEF Log!Init, callState

(* Callers of the cluster see one growing log, whatever crashes, elections, *)
(* retries and changes of the membership do: a request answered 200 is in   *)
(* it and takes effect no more after the answer, a request refused never    *)
(* enters it, and none is in it more often than its handler tries.          *)
THEOREM LogRefined ==
  ASSUME noSync = "false"
  PROVE  Spec => ImplementsLog
<1>1. ~GetNoSync
  BY DEF GetNoSync
<1>2. Init => Log!Init
  BY RefinesInit
<1>3. Inv /\ Inv' /\ TryInv /\ [Next]_vars => [Log!Next]_(Log!vars)
  BY RefinesNext
<1>4. Spec => [](Inv /\ TryInv)
  BY <1>1, TryInvariance
<1> QED
  BY <1>2, <1>3, <1>4, PTL DEF Spec, ImplementsLog, Log!Spec

=============================================================================
