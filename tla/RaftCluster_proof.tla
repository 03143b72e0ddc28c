------------------------- MODULE RaftCluster_proof -------------------------
(***************************************************************************)
(* The safety of the cluster of RaftCluster whose log is synced, for any   *)
(* nodes, requests and membership changes, and any bounds.                 *)
(*                                                                         *)
(* Logs only become newer, in the order in which a voter compares them.  A *)
(* node is active while a majority of its own configuration has no newer   *)
(* log; only such a node can be elected or commit.  The argument is that   *)
(* active nodes have overlapping configurations although the membership    *)
(* changes, that they know of every term, and that they hold every         *)
(* committed entry.                                                        *)
(***************************************************************************)
EXTENDS RaftCluster, SequenceTheorems, Extrema

-----------------------------------------------------------------------------
(* Agreement of two logs up to an index, and quorums that have moved on.    *)

Same(s, t, k) ==
  k <= Len(s) /\ k <= Len(t) /\ \A i \in 1 .. k : s[i] = t[i]

Bootstrap == [term |-> 1, req |-> None, servers |-> peers]

Leading(n) == role[n] = "leader"

\* With the logs lg, a majority of the node's configuration has no newer log.
Active(lg, n) ==
  \E Q \in SUBSET Nodes :
    Majority(Q, Servers(lg[n])) /\ \A q \in Q : UpToDate(lg[n], lg[q])

Overlap(S, T) ==
  \A P, Q \in SUBSET Nodes : Majority(P, S) /\ Majority(Q, T) => P \cap Q # {}

\* A majority of S has a log with the term t or a later one.
Cert(lg, S, t) ==
  \E Q \in SUBSET Nodes : Majority(Q, S) /\ \A q \in Q : LastTerm(lg[q]) >= t

\* A majority of S is in the term t or a later one.
Voted(tm, S, t) ==
  \E Q \in SUBSET Nodes : Majority(Q, S) /\ \A q \in Q : tm[q] >= t

-----------------------------------------------------------------------------
(* Logs and leaders.                                                        *)

RaftType ==
  /\ role \in [Nodes -> {"follower", "leader", "shutdown", "closed", "down"}]
  /\ term \in [Nodes -> 0 .. MaxTerm]
  /\ log \in [Nodes -> Seq(Entry)]
  /\ known \in [Nodes -> Nodes \cup {None}]
  /\ applied \in [Nodes -> 0 .. MaxLog]
  /\ committed \in Seq(Entry)
  /\ \A n \in Nodes : Len(log[n]) <= MaxLog /\ applied[n] <= Len(log[n])

Ordered ==
  \A n \in Nodes : \A i \in DOMAIN log[n] :
    /\ log[n][i].term <= term[n]
    /\ \A j \in DOMAIN log[n] : i <= j => log[n][i].term <= log[n][j].term

Bootstrapped ==
  \A n \in Nodes : log[n] # <<>> => log[n][1] = Bootstrap /\ log[FirstNode] # <<>>

Inherited ==
  \A n \in Nodes : \A i \in DOMAIN log[n] :
    i > 1 /\ ~IsChange(log[n][i]) => log[n][i].servers = log[n][i - 1].servers

LeaderLog ==
  \A l \in Nodes : Leading(l) =>
    /\ known[l] = l /\ log[l] # <<>> /\ term[l] > 1
    /\ LastTerm(log[l]) = term[l]

OneLeader ==
  \A l, m \in Nodes : Leading(l) /\ Leading(m) /\ term[l] = term[m] => l = m

LeaderHas ==
  \A l, m \in Nodes : Leading(l) =>
    \A k \in DOMAIN log[m] :
      log[m][k].term = term[l] => k \in DOMAIN log[l] /\ log[l][k] = log[m][k]

Matching ==
  \A m, n \in Nodes : \A k \in DOMAIN log[m] :
    k \in DOMAIN log[n] /\ log[m][k].term = log[n][k].term => Same(log[m], log[n], k)

LogInv ==
  /\ RaftType /\ Ordered /\ Bootstrapped /\ Inherited
  /\ LeaderLog /\ OneLeader /\ LeaderHas /\ Matching

-----------------------------------------------------------------------------
(* Elections and configurations.                                            *)

ActiveOverlap ==
  \A m, n \in Nodes :
    Active(log, m) /\ Active(log, n) => Overlap(Servers(log[m]), Servers(log[n]))

ActiveInTerm ==
  \A m, n \in Nodes : Active(log, n) /\ LastTerm(log[m]) > 1 =>
    \A Q \in SUBSET Nodes :
      Majority(Q, Servers(log[n])) => \E q \in Q : term[q] >= LastTerm(log[m])

\* The first entry of a term stands for the votes of the configuration it has.
Elected ==
  \A n \in Nodes : \A i \in DOMAIN log[n] :
    i > 1 /\ log[n][i - 1].term < log[n][i].term =>
      Voted(term, log[n][i].servers, log[n][i].term)

\* A change of the configuration was made when a majority of the one before
\* had an entry of the term.
ChangeCertified ==
  \A n \in Nodes : \A i \in DOMAIN log[n] :
    i > 1 /\ IsChange(log[n][i]) => Cert(log, log[n][i - 1].servers, log[n][i].term)

StableCertified ==
  \A l \in Nodes : Leading(l) /\ Stable(l) => Cert(log, Servers(log[l]), term[l])

ConfigInv ==
  /\ ActiveOverlap /\ ActiveInTerm /\ Elected /\ ChangeCertified /\ StableCertified

-----------------------------------------------------------------------------
(* Committed entries.                                                       *)

\* The leader has committed an entry of its term.
Settled(l) == Leading(l) /\ applied[l] > 0 /\ log[l][applied[l]].term = term[l]

ActiveHasCommitted ==
  \A n \in Nodes : Active(log, n) => Same(committed, log[n], Len(committed))

LeaderHasCommitted ==
  \A l \in Nodes : Leading(l) /\ LastTerm(committed) <= term[l] =>
    Same(committed, log[l], Len(committed))

CommittedSomewhere == \E n \in Nodes : Same(committed, log[n], Len(committed))

CommittedCertified ==
  committed # <<>> => Cert(log, Servers(committed), LastTerm(committed))

AppliedCommitted == \A n \in Nodes : Same(log[n], committed, applied[n])

LeaderHasApplied ==
  \A l, n \in Nodes :
    Leading(l) /\ term[n] <= term[l] => Same(log[n], log[l], applied[n])

LaterHasSettled ==
  \A l, m \in Nodes :
    Settled(l) /\ LastTerm(log[m]) > term[l] => Same(log[l], log[m], applied[l])

CommitInv ==
  /\ ActiveHasCommitted /\ LeaderHasCommitted /\ CommittedSomewhere
  /\ CommittedCertified /\ AppliedCommitted /\ LeaderHasApplied /\ LaterHasSettled

RaftInv == LogInv /\ ConfigInv /\ CommitInv

-----------------------------------------------------------------------------
(* Majorities.                                                              *)

LEMMA FiniteNodes ==
  ASSUME NEW S \in SUBSET Nodes
  PROVE  IsFiniteSet(S) /\ Cardinality(S) \in Nat
BY RaftClusterAssumption, FS_Subset, FS_CardinalityType

(* Two majorities of one configuration meet, and so do majorities of two    *)
(* configurations that differ by one node.                                  *)
LEMMA MajoritiesMeet ==
  ASSUME NEW S \in SUBSET Nodes, NEW T \in SUBSET Nodes,
         T = S \/ \E x : T = S \cup {x} \/ T = S \ {x},
         NEW P \in SUBSET Nodes, NEW Q \in SUBSET Nodes,
         Majority(P, S), Majority(Q, T)
  PROVE  P \cap Q # {}
<1> SUFFICES ASSUME P \cap Q = {} PROVE FALSE
  OBVIOUS
<1> DEFINE A == P \cap S
           B == Q \cap T
           U == S \cup T
<1>1. /\ IsFiniteSet(A) /\ IsFiniteSet(B) /\ IsFiniteSet(U) /\ IsFiniteSet(S) /\ IsFiniteSet(T)
      /\ Cardinality(A) \in Nat /\ Cardinality(B) \in Nat /\ Cardinality(U) \in Nat
      /\ Cardinality(S) \in Nat /\ Cardinality(T) \in Nat
  BY FiniteNodes
<1>2. 2 * Cardinality(A) > Cardinality(S) /\ 2 * Cardinality(B) > Cardinality(T)
  BY DEF Majority
<1>3. Cardinality(A \cup B) = Cardinality(A) + Cardinality(B)
  <2>1. A \cap B = {}
    OBVIOUS
  <2>2. Cardinality(A \cap B) = 0
    BY <2>1, FS_EmptySet
  <2> HIDE DEF A, B
  <2>3. Cardinality(A \cup B) = Cardinality(A) + Cardinality(B) - Cardinality(A \cap B)
    BY <1>1, FS_Union
  <2> QED
    BY <1>1, <2>2, <2>3
<1>4. Cardinality(A \cup B) <= Cardinality(U) /\ Cardinality(A \cup B) \in Nat
  <2>1. A \cup B \in SUBSET U /\ A \cup B \in SUBSET Nodes
    OBVIOUS
  <2> HIDE DEF A, B, U
  <2> QED
    BY <1>1, <2>1, FS_Subset, FiniteNodes
<1>5. 2 * Cardinality(U) <= Cardinality(S) + Cardinality(T) + 1
  <2>1. CASE T = S
    <3>1. U = S
      BY <2>1
    <3> HIDE DEF U
    <3> QED
      BY <1>1, <2>1, <3>1
  <2>2. ASSUME NEW x, T = S \cup {x} PROVE 2 * Cardinality(U) <= Cardinality(S) + Cardinality(T) + 1
    <3>1. U = T
      BY <2>2
    <3>2. Cardinality(T) <= Cardinality(S) + 1
      BY <1>1, <2>2, FS_AddElement
    <3> HIDE DEF U
    <3> QED
      BY <1>1, <3>1, <3>2
  <2>3. ASSUME NEW x, T = S \ {x} PROVE 2 * Cardinality(U) <= Cardinality(S) + Cardinality(T) + 1
    <3>1. U = S
      BY <2>3
    <3>2. Cardinality(S) <= Cardinality(T) + 1
      BY <1>1, <2>3, FS_RemoveElement
    <3> HIDE DEF U
    <3> QED
      BY <1>1, <3>1, <3>2
  <2> QED
    BY <2>1, <2>2, <2>3
<1> HIDE DEF A, B, U
<1> QED
  BY <1>1, <1>2, <1>3, <1>4, <1>5

LEMMA OverlapSelf ==
  ASSUME NEW S \in SUBSET Nodes
  PROVE  Overlap(S, S)
BY MajoritiesMeet DEF Overlap

-----------------------------------------------------------------------------
(* Logs as sequences of entries.                                            *)

LEMMA EntrySeq ==
  ASSUME NEW s \in Seq(Entry)
  PROVE  /\ Len(s) \in Nat /\ DOMAIN s = 1 .. Len(s)
         /\ s = <<>> <=> Len(s) = 0
         /\ \A i \in 1 .. Len(s) :
              s[i] \in Entry /\ s[i].term \in Nat \ {0} /\ s[i].servers \in SUBSET Nodes
         /\ LastTerm(s) \in Nat /\ Servers(s) \in SUBSET Nodes
         /\ s # <<>> => LastTerm(s) = s[Len(s)].term /\ Servers(s) = s[Len(s)].servers
         /\ s = <<>> => LastTerm(s) = 0 /\ Servers(s) = {}
<1>1. Len(s) \in Nat /\ DOMAIN s = 1 .. Len(s) /\ (s # <<>> => Len(s) # 0)
  BY LenProperties, EmptySeq
<1>2. s = <<>> => Len(s) = 0
  BY EmptySeq
<1>3. \A i \in 1 .. Len(s) :
        s[i] \in Entry /\ s[i].term \in Nat \ {0} /\ s[i].servers \in SUBSET Nodes
  <2>1. \A i \in 1 .. Len(s) : s[i] \in Entry
    BY ElementOfSeq
  <2>2. \A e \in Entry : e.term \in Nat \ {0} /\ e.servers \in SUBSET Nodes
    BY RaftClusterAssumption DEF Entry
  <2> QED
    BY <2>1, <2>2
<1>4. s # <<>> => Len(s) \in 1 .. Len(s)
  BY <1>1
<1> QED
  BY <1>1, <1>2, <1>3, <1>4 DEF LastTerm, Servers, Last

LEMMA Appended ==
  ASSUME NEW s \in Seq(Entry), NEW e \in Entry
  PROVE  /\ Append(s, e) \in Seq(Entry)
         /\ Len(Append(s, e)) = Len(s) + 1 /\ Append(s, e) # <<>>
         /\ DOMAIN Append(s, e) = 1 .. Len(s) + 1
         /\ \A i \in 1 .. Len(s) : Append(s, e)[i] = s[i]
         /\ Append(s, e)[Len(s) + 1] = e
         /\ LastTerm(Append(s, e)) = e.term /\ Servers(Append(s, e)) = e.servers
<1>1. /\ Append(s, e) \in Seq(Entry) /\ Len(Append(s, e)) = Len(s) + 1
      /\ \A i \in 1 .. Len(s) : Append(s, e)[i] = s[i]
      /\ Append(s, e)[Len(s) + 1] = e
  BY AppendProperties
<1>2. Len(s) \in Nat
  BY EntrySeq
<1>3. DOMAIN Append(s, e) = 1 .. Len(s) + 1 /\ Append(s, e) # <<>>
  <2>1. \A t \in Seq(Entry) : DOMAIN t = 1 .. Len(t) /\ (t = <<>> <=> Len(t) = 0)
    BY EntrySeq
  <2>2. Len(s) + 1 # 0
    BY <1>2
  <2> QED
    BY <1>1, <2>1, <2>2
<1> QED
  BY <1>1, <1>3, EntrySeq

LEMMA UpToDateOrder ==
  ASSUME NEW a \in Seq(Entry), NEW b \in Seq(Entry), NEW c \in Seq(Entry)
  PROVE  /\ UpToDate(a, a)
         /\ UpToDate(a, b) /\ UpToDate(b, c) => UpToDate(a, c)
         /\ UpToDate(a, b) => LastTerm(a) >= LastTerm(b)
BY EntrySeq DEF UpToDate

LEMMA SameTrans ==
  ASSUME NEW s \in Seq(Entry), NEW t \in Seq(Entry), NEW u \in Seq(Entry),
         NEW j \in Nat, NEW k \in Nat, k <= j, Same(s, t, k), Same(t, u, j)
  PROVE  Same(s, u, k)
BY EntrySeq DEF Same

(* Where the configuration of a log changes there is an entry of a change.  *)
LEMMA FirstChange ==
  ASSUME NEW s \in Seq(Entry),
         \A i \in DOMAIN s : i > 1 /\ ~IsChange(s[i]) => s[i].servers = s[i - 1].servers,
         NEW a \in 1 .. Len(s), NEW j \in a .. Len(s), s[j].servers # s[a].servers
  PROVE  \E i \in (a + 1) .. j : IsChange(s[i]) /\ s[i - 1].servers = s[a].servers
<1> DEFINE T == {i \in (a + 1) .. j : s[i].servers # s[a].servers}
<1>1. Len(s) \in Nat /\ DOMAIN s = 1 .. Len(s)
  BY EntrySeq
<1>2. j \in T
  BY <1>1
<1>3. PICK i \in T : \A h \in T : i <= h
  <2>1. T \in SUBSET Nat /\ T # {}
    BY <1>1, <1>2
  <2> HIDE DEF T
  <2> QED
    BY <2>1, MinExists
<1>4. i - 1 = a \/ i - 1 \in (a + 1) .. j
  BY <1>1
<1>5. s[i - 1].servers = s[a].servers
  <2>1. i - 1 \notin T
    BY <1>1, <1>3
  <2> QED
    BY <1>4, <2>1
<1>6. i \in DOMAIN s /\ i > 1
  BY <1>1
<1> QED
  BY <1>3, <1>5, <1>6

-----------------------------------------------------------------------------
(* Logs that become newer keep what quorums had.                            *)

Grow(lg, lh) == \A n \in Nodes : UpToDate(lh[n], lg[n])

LEMMA CertGrows ==
  ASSUME NEW lg \in [Nodes -> Seq(Entry)], NEW lh \in [Nodes -> Seq(Entry)],
         Grow(lg, lh), NEW S, NEW t \in Nat, Cert(lg, S, t)
  PROVE  Cert(lh, S, t)
<1>1. PICK Q \in SUBSET Nodes : Majority(Q, S) /\ \A q \in Q : LastTerm(lg[q]) >= t
  BY DEF Cert
<1>2. ASSUME NEW q \in Q PROVE LastTerm(lh[q]) >= t
  <2>1. lg[q] \in Seq(Entry) /\ lh[q] \in Seq(Entry) /\ UpToDate(lh[q], lg[q])
    BY DEF Grow
  <2>2. LastTerm(lg[q]) \in Nat /\ LastTerm(lh[q]) \in Nat
    BY <2>1, EntrySeq
  <2>3. LastTerm(lh[q]) >= LastTerm(lg[q])
    BY <2>1, UpToDateOrder
  <2> QED
    BY <1>1, <2>2, <2>3
<1> QED
  BY <1>1, <1>2 DEF Cert

LEMMA VotedGrows ==
  ASSUME NEW tm \in [Nodes -> Nat], NEW tn \in [Nodes -> Nat],
         \A n \in Nodes : tn[n] >= tm[n], NEW S, NEW t \in Nat, Voted(tm, S, t)
  PROVE  Voted(tn, S, t)
<1>1. PICK Q \in SUBSET Nodes : Majority(Q, S) /\ \A q \in Q : tm[q] >= t
  BY DEF Voted
<1>2. \A q \in Q : tn[q] >= t
  BY <1>1
<1> QED
  BY <1>1, <1>2 DEF Voted

(* A node whose log is one that another had before is active only if that   *)
(* one was.                                                                 *)
LEMMA ActiveBack ==
  ASSUME NEW lg \in [Nodes -> Seq(Entry)], NEW lh \in [Nodes -> Seq(Entry)],
         Grow(lg, lh), NEW m \in Nodes, NEW n \in Nodes, lh[n] = lg[m], Active(lh, n)
  PROVE  Active(lg, m)
<1>1. PICK Q \in SUBSET Nodes :
        Majority(Q, Servers(lh[n])) /\ \A q \in Q : UpToDate(lh[n], lh[q])
  BY DEF Active
<1>2. ASSUME NEW q \in Q PROVE UpToDate(lg[m], lg[q])
  <2>1. UpToDate(lg[m], lh[q]) /\ UpToDate(lh[q], lg[q])
    BY <1>1 DEF Grow
  <2> QED
    BY <2>1, UpToDateOrder
<1> QED
  BY <1>1, <1>2 DEF Active

-----------------------------------------------------------------------------
(* What a leader's log says of the others.                                  *)

LEMMA Typed ==
  ASSUME RaftType
  PROVE  /\ log \in [Nodes -> Seq(Entry)] /\ term \in [Nodes -> Nat]
         /\ committed \in Seq(Entry) /\ Len(committed) \in Nat
         /\ \A n \in Nodes :
              /\ log[n] \in Seq(Entry) /\ Len(log[n]) \in Nat
              /\ DOMAIN log[n] = 1 .. Len(log[n])
              /\ term[n] \in 0 .. MaxTerm
              /\ applied[n] \in Nat /\ applied[n] <= Len(log[n])
              /\ LastTerm(log[n]) \in Nat /\ Servers(log[n]) \in SUBSET Nodes
         /\ MaxTerm \in Nat /\ MaxLog \in Nat
BY RaftClusterAssumption, EntrySeq DEF RaftType

LEMMA LastTermBounds ==
  ASSUME RaftType, Ordered, NEW n \in Nodes
  PROVE  /\ LastTerm(log[n]) <= term[n]
         /\ \A i \in 1 .. Len(log[n]) : log[n][i].term \in Nat /\ log[n][i].term <= LastTerm(log[n])
<1>1. log[n] \in Seq(Entry) /\ Len(log[n]) \in Nat /\ DOMAIN log[n] = 1 .. Len(log[n])
      /\ term[n] \in Nat
  BY Typed
<1>2. CASE log[n] = <<>>
  <2>1. Len(log[n]) = 0 /\ LastTerm(log[n]) = 0
    BY <1>1, <1>2, EntrySeq
  <2> QED
    BY <1>1, <2>1
<1>3. CASE log[n] # <<>>
  <2>1. Len(log[n]) \in 1 .. Len(log[n]) /\ LastTerm(log[n]) = log[n][Len(log[n])].term
    BY <1>1, <1>3, EntrySeq
  <2>2. \A i \in 1 .. Len(log[n]) : log[n][i].term \in Nat
    BY <1>1, EntrySeq
  <2>3. LastTerm(log[n]) <= term[n]
    BY <1>1, <2>1 DEF Ordered
  <2>4. ASSUME NEW i \in 1 .. Len(log[n]) PROVE log[n][i].term <= LastTerm(log[n])
    BY <1>1, <2>1 DEF Ordered
  <2> QED
    BY <2>2, <2>3, <2>4
<1> QED
  BY <1>2, <1>3

LEMMA NotNewer ==
  ASSUME LogInv, NEW l \in Nodes, Leading(l), NEW m \in Nodes, LastTerm(log[m]) <= term[l]
  PROVE  /\ UpToDate(log[l], log[m])
         /\ LastTerm(log[m]) = term[l] => Same(log[m], log[l], Len(log[m]))
<1>1. /\ log[l] \in Seq(Entry) /\ log[m] \in Seq(Entry) /\ term[l] \in Nat
      /\ Len(log[m]) \in Nat /\ DOMAIN log[m] = 1 .. Len(log[m])
      /\ Len(log[l]) \in Nat /\ DOMAIN log[l] = 1 .. Len(log[l])
      /\ LastTerm(log[m]) \in Nat /\ LastTerm(log[l]) \in Nat
  BY Typed DEF LogInv
<1>2. LastTerm(log[l]) = term[l] /\ term[l] > 1
  BY DEF LogInv, LeaderLog
<1>3. ASSUME LastTerm(log[m]) = term[l]
      PROVE Same(log[m], log[l], Len(log[m]))
  <2>1. Len(log[m]) \in DOMAIN log[m] /\ log[m][Len(log[m])].term = term[l]
    BY <1>1, <1>2, <1>3, EntrySeq
  <2>2. Len(log[m]) \in DOMAIN log[l] /\ log[l][Len(log[m])] = log[m][Len(log[m])]
    BY <2>1 DEF LogInv, LeaderHas
  <2> QED
    BY <2>1, <2>2 DEF LogInv, Matching
<1>4. LastTerm(log[m]) = term[l] => Len(log[m]) <= Len(log[l])
  BY <1>3 DEF Same
<1>5. UpToDate(log[l], log[m])
  BY <1>1, <1>2, <1>4 DEF UpToDate
<1> QED
  BY <1>3, <1>5


-----------------------------------------------------------------------------
(* Steps that change no log, no term and nothing that is committed.         *)

LEMMA LogKept ==
  ASSUME LogInv, UNCHANGED <<log, term>>, RaftType',
         \A n \in Nodes : Leading(n)' => Leading(n) /\ known'[n] = known[n]
  PROVE  LogInv'
<1>1. Ordered' /\ Bootstrapped' /\ Inherited' /\ Matching'
  BY DEF LogInv, Ordered, Bootstrapped, Inherited, Matching, Same
<1>2. LeaderLog' /\ OneLeader' /\ LeaderHas'
  <2>1. LeaderLog'
    BY DEF LogInv, LeaderLog
  <2>2. OneLeader'
    BY DEF LogInv, OneLeader
  <2>3. LeaderHas'
    BY DEF LogInv, LeaderHas
  <2> QED
    BY <2>1, <2>2, <2>3
<1> QED
  BY <1>1, <1>2 DEF LogInv

LEMMA Quiet ==
  ASSUME RaftInv, UNCHANGED <<log, term, committed>>, RaftType',
         \A n \in Nodes : Leading(n)' =>
           Leading(n) /\ known'[n] = known[n] /\ applied'[n] = applied[n],
         \A n \in Nodes : applied'[n] <= applied[n]
  PROVE  RaftInv'
<1>1. LogInv'
  BY LogKept DEF RaftInv
<1>2. ConfigInv'
  <2>1. ActiveOverlap' /\ ActiveInTerm' /\ Elected' /\ ChangeCertified'
    BY DEF RaftInv, ConfigInv, ActiveOverlap, ActiveInTerm, Elected, ChangeCertified
  <2>2. \A l \in Nodes : Leading(l)' /\ Stable(l)' => Leading(l) /\ Stable(l)
    BY DEF Stable
  <2>3. StableCertified'
    BY <2>2 DEF RaftInv, ConfigInv, StableCertified
  <2> QED
    BY <2>1, <2>3 DEF ConfigInv
<1>3. CommitInv'
  <2>1. ActiveHasCommitted' /\ LeaderHasCommitted' /\ CommittedSomewhere' /\ CommittedCertified'
    BY DEF RaftInv, CommitInv, ActiveHasCommitted, LeaderHasCommitted, CommittedSomewhere,
           CommittedCertified
  <2>2. \A n \in Nodes : applied[n] \in Nat /\ applied'[n] \in Nat
    BY Typed, RaftClusterAssumption DEF RaftInv, LogInv, RaftType
  <2>3. AppliedCommitted'
    BY <2>2 DEF RaftInv, CommitInv, AppliedCommitted, Same
  <2>4. LeaderHasApplied'
    BY <2>2 DEF RaftInv, CommitInv, LeaderHasApplied, Same
  <2>5. LaterHasSettled'
    <3>1. \A l \in Nodes : Settled(l)' => Settled(l) /\ applied'[l] = applied[l]
      BY DEF Settled
    <3> QED
      BY <3>1 DEF RaftInv, CommitInv, LaterHasSettled
  <2> QED
    BY <2>1, <2>3, <2>4, <2>5 DEF CommitInv
<1> QED
  BY <1>1, <1>2, <1>3 DEF RaftInv

LEMMA CloseSafe ==
  ASSUME RaftInv, NEW n \in Nodes, Close(n) PROVE RaftInv'
<1>1. RaftType'
  BY DEF Close, RaftInv, LogInv, RaftType
<1>2. \A m \in Nodes : Leading(m)' =>
        Leading(m) /\ known'[m] = known[m] /\ applied'[m] = applied[m]
  BY DEF Close, RaftInv, LogInv, RaftType, Leading
<1>3. \A m \in Nodes : applied'[m] <= applied[m]
  BY Typed DEF Close, RaftInv, LogInv
<1> QED
  BY <1>1, <1>2, <1>3, Quiet DEF Close

LEMMA ExitSafe ==
  ASSUME RaftInv, NEW n \in Nodes, ExitRaft(n) PROVE RaftInv'
<1>1. RaftType'
  BY RaftClusterAssumption, Typed DEF ExitRaft, RaftInv, LogInv, RaftType
<1>2. \A m \in Nodes : Leading(m)' =>
        Leading(m) /\ known'[m] = known[m] /\ applied'[m] = applied[m]
  BY DEF ExitRaft, RaftInv, LogInv, RaftType, Leading
<1>3. \A m \in Nodes : applied'[m] <= applied[m]
  BY Typed DEF ExitRaft, RaftInv, LogInv, RaftType
<1> QED
  BY <1>1, <1>2, <1>3, Quiet DEF ExitRaft

LEMMA StepDownSafe ==
  ASSUME RaftInv, NEW n \in Nodes, StepDown(n) PROVE RaftInv'
<1>1. RaftType'
  BY DEF StepDown, RaftInv, LogInv, RaftType
<1>2. \A m \in Nodes : Leading(m)' =>
        Leading(m) /\ known'[m] = known[m] /\ applied'[m] = applied[m]
  BY DEF StepDown, RaftInv, LogInv, RaftType, Leading
<1>3. \A m \in Nodes : applied'[m] <= applied[m]
  BY Typed DEF StepDown, RaftInv, LogInv
<1> QED
  BY <1>1, <1>2, <1>3, Quiet DEF StepDown

LEMMA LoseLeaderSafe ==
  ASSUME RaftInv, NEW n \in Nodes, LoseLeader(n) PROVE RaftInv'
<1>1. RaftType'
  BY DEF LoseLeader, RaftInv, LogInv, RaftType
<1>2. \A m \in Nodes : Leading(m)' =>
        Leading(m) /\ known'[m] = known[m] /\ applied'[m] = applied[m]
  BY DEF LoseLeader, RaftInv, LogInv, RaftType, Leading
<1>3. \A m \in Nodes : applied'[m] <= applied[m]
  BY Typed DEF LoseLeader, RaftInv, LogInv
<1> QED
  BY <1>1, <1>2, <1>3, Quiet DEF LoseLeader

(* With a synced log a crash keeps the whole log and the term.              *)
LEMMA CrashSafe ==
  ASSUME RaftInv, ~GetNoSync, NEW n \in Nodes, NEW k, NEW t, CrashRaft(n, k, t)
  PROVE  RaftInv'
<1>1. UNCHANGED <<log, term>>
  <2>1. log[n] \in Seq(Entry) /\ SubSeq(log[n], 1, k) = log[n]
    BY Typed, SubSeqFull DEF CrashRaft, RaftInv, LogInv
  <2> QED
    BY <2>1 DEF CrashRaft, RaftInv, LogInv, RaftType
<1>2. RaftType'
  <2>1. /\ role' = [role EXCEPT ![n] = "down"] /\ known' = [known EXCEPT ![n] = None]
        /\ applied' = [applied EXCEPT ![n] = 0] /\ committed' = committed
    BY DEF CrashRaft
  <2>2. /\ role' \in [Nodes -> {"follower", "leader", "shutdown", "closed", "down"}]
        /\ known' \in [Nodes -> Nodes \cup {None}]
    BY <2>1 DEF RaftInv, LogInv, RaftType
  <2>3. 0 \in 0 .. MaxLog /\ \A m \in Nodes : Len(log[m]) \in Nat
    BY RaftClusterAssumption, Typed DEF RaftInv, LogInv
  <2>4. applied' \in [Nodes -> 0 .. MaxLog] /\ \A m \in Nodes : applied'[m] <= Len(log[m])
    BY <2>1, <2>3 DEF RaftInv, LogInv, RaftType
  <2> QED
    BY <1>1, <2>1, <2>2, <2>4 DEF RaftInv, LogInv, RaftType
<1>3. \A m \in Nodes : Leading(m)' =>
        Leading(m) /\ known'[m] = known[m] /\ applied'[m] = applied[m]
  BY DEF CrashRaft, RaftInv, LogInv, RaftType, Leading
<1>4. \A m \in Nodes : applied'[m] <= applied[m]
  BY Typed DEF CrashRaft, RaftInv, LogInv, RaftType
<1> QED
  BY <1>1, <1>2, <1>3, <1>4, Quiet DEF CrashRaft

-----------------------------------------------------------------------------
(* The advance of a commit index.                                           *)

LEMMA PrefixOf ==
  ASSUME NEW s \in Seq(Entry), NEW k \in 0 .. Len(s)
  PROVE  /\ SubSeq(s, 1, k) \in Seq(Entry) /\ Len(SubSeq(s, 1, k)) = k
         /\ Same(SubSeq(s, 1, k), s, k)
<1>1. Len(s) \in Nat /\ \A i \in 1 .. k : s[i] \in Entry
  BY EntrySeq
<1>2. /\ SubSeq(s, 1, k) \in Seq(Entry)
      /\ Len(SubSeq(s, 1, k)) = IF 1 <= k THEN k - 1 + 1 ELSE 0
      /\ \A i \in 1 .. k - 1 + 1 : SubSeq(s, 1, k)[i] = s[1 + i - 1]
  BY <1>1, SubSeqProperties
<1> QED
  BY <1>1, <1>2 DEF Same

LEMMA PrefixIffSame ==
  ASSUME NEW s \in Seq(Entry), NEW t \in Seq(Entry)
  PROVE  IsPrefix(s, t) <=> Same(s, t, Len(s))
<1>1. Len(s) \in Nat /\ Len(t) \in Nat /\ SubSeq(s, 1, Len(s)) = s
  BY EntrySeq, SubSeqFull
<1>2. CASE Len(s) > Len(t)
  BY <1>1, <1>2 DEF IsPrefix, Same
<1>3. CASE Len(s) <= Len(t)
  <2> DEFINE p == SubSeq(t, 1, Len(s))
  <2>1. p \in Seq(Entry) /\ Len(p) = Len(s) /\ Same(p, t, Len(s))
    BY <1>1, <1>3, PrefixOf
  <2>2. IsPrefix(s, t) <=> s = p
    BY <1>1, <1>3 DEF IsPrefix
  <2> HIDE DEF p
  <2>3. ASSUME s = p PROVE Same(s, t, Len(s))
    BY <2>1, <2>3
  <2>4. ASSUME Same(s, t, Len(s)) PROVE s = p
    <3>1. \A i \in 1 .. Len(s) : s[i] = p[i]
      BY <2>1, <2>4 DEF Same
    <3> QED
      BY <2>1, <3>1, SeqEqual
  <2> QED
    BY <2>2, <2>3, <2>4
<1> QED
  BY <1>1, <1>2, <1>3

(* A leader that commits is active, no log has a later term than its own,   *)
(* and it holds everything committed before.                                *)
LEMMA CommitterActive ==
  ASSUME RaftInv, NEW l \in Nodes, NEW k, Commit(l, k)
  PROVE  /\ Leading(l) /\ k \in 1 .. Len(log[l]) /\ k > applied[l]
         /\ log[l][k].term = term[l]
         /\ Majority(Acknowledged(l, k), Servers(log[l]))
         /\ Acknowledged(l, k) \in SUBSET Nodes
         /\ \A n \in Nodes : LastTerm(log[n]) <= term[l]
         /\ \A q \in Acknowledged(l, k) : LastTerm(log[q]) = term[l]
         /\ Active(log, l)
         /\ Same(committed, log[l], Len(committed))
<1> DEFINE A == Acknowledged(l, k)
<1>1. /\ Leading(l) /\ k \in 1 .. Len(log[l]) /\ k > applied[l]
      /\ log[l][k].term = term[l] /\ Majority(A, Servers(log[l]))
  BY Typed DEF Commit, Leading, RaftInv, LogInv
<1>2. A \in SUBSET Nodes /\ \A q \in A :
        term[q] = term[l] /\ Len(log[q]) >= k /\ log[q][k] = log[l][k]
  BY DEF Acknowledged
<1>3. term[l] \in Nat /\ term[l] > 1
  BY <1>1, Typed DEF RaftInv, LogInv, LeaderLog
<1> HIDE DEF A
<1>4. ASSUME NEW q \in A PROVE LastTerm(log[q]) = term[l]
  <2>1. q \in Nodes /\ Len(log[q]) \in Nat /\ LastTerm(log[q]) \in Nat
    BY <1>2, Typed DEF RaftInv, LogInv
  <2>2. k \in 1 .. Len(log[q]) /\ log[q][k].term = term[l]
    BY <1>1, <1>2, <2>1
  <2>3. term[l] <= LastTerm(log[q]) /\ LastTerm(log[q]) <= term[l]
    BY <1>2, <2>1, <2>2, LastTermBounds DEF RaftInv, LogInv
  <2> QED
    BY <1>3, <2>1, <2>3
<1>5. Active(log, l)
  <2>1. \A q \in A : UpToDate(log[l], log[q])
    BY <1>1, <1>2, <1>3, <1>4, NotNewer DEF RaftInv
  <2> QED
    BY <1>1, <1>2, <2>1 DEF Active
<1>6. ASSUME NEW n \in Nodes PROVE LastTerm(log[n]) <= term[l]
  <2>1. LastTerm(log[n]) \in Nat
    BY Typed DEF RaftInv, LogInv
  <2>2. CASE LastTerm(log[n]) > 1
    BY <1>1, <1>2, <1>5, <2>2 DEF RaftInv, ConfigInv, ActiveInTerm
  <2> QED
    BY <1>3, <2>1, <2>2
<1>7. Same(committed, log[l], Len(committed))
  BY <1>5 DEF RaftInv, CommitInv, ActiveHasCommitted
<1> QED
  BY <1>1, <1>2, <1>4, <1>5, <1>6, <1>7 DEF A

(* The committed log grows, and with it every active log agrees.            *)
LEMMA CommitExtends ==
  ASSUME RaftInv, NEW l \in Nodes, NEW k, Commit(l, k)
  PROVE  /\ committed' \in Seq(Entry)
         /\ Same(committed, committed', Len(committed))
         /\ Same(committed', log[l], Len(committed')) /\ Len(committed') >= k
         /\ committed' = committed \/ Len(committed') = k
<1> DEFINE p == SubSeq(log[l], 1, k)
<1>1. /\ k \in 1 .. Len(log[l]) /\ log[l] \in Seq(Entry) /\ Len(log[l]) \in Nat
      /\ committed \in Seq(Entry) /\ Len(committed) \in Nat
      /\ Same(committed, log[l], Len(committed))
  BY CommitterActive, Typed DEF RaftInv, LogInv
<1>2. p \in Seq(Entry) /\ Len(p) = k /\ Same(p, log[l], k)
  BY <1>1, PrefixOf
<1>3. committed' = IF IsPrefix(p, committed) THEN committed ELSE p
  BY DEF Commit
<1> HIDE DEF p
<1>4. IsPrefix(p, committed) <=> Same(p, committed, k)
  BY <1>1, <1>2, PrefixIffSame
<1>5. CASE IsPrefix(p, committed)
  BY <1>1, <1>2, <1>3, <1>4, <1>5 DEF Same
<1>6. CASE ~IsPrefix(p, committed)
  <2>1. k > Len(committed)
    BY <1>1, <1>2, <1>4, <1>6 DEF Same
  <2> QED
    BY <1>1, <1>2, <1>3, <1>6, <2>1 DEF Same
<1> QED
  BY <1>5, <1>6
LEMMA CommitSafe ==
  ASSUME RaftInv, NEW l \in Nodes, NEW k, Commit(l, k)
  PROVE  RaftInv'
<1> DEFINE A == Acknowledged(l, k)
<1>1. /\ Leading(l) /\ k \in 1 .. Len(log[l]) /\ k > applied[l]
      /\ log[l][k].term = term[l] /\ Majority(A, Servers(log[l]))
      /\ A \in SUBSET Nodes
      /\ \A n \in Nodes : LastTerm(log[n]) <= term[l]
      /\ \A q \in A : LastTerm(log[q]) = term[l]
      /\ Active(log, l) /\ Same(committed, log[l], Len(committed))
  BY CommitterActive
<1>2. /\ committed' \in Seq(Entry) /\ Same(committed, committed', Len(committed))
      /\ Same(committed', log[l], Len(committed')) /\ Len(committed') >= k
      /\ committed' = committed \/ Len(committed') = k
  BY CommitExtends
<1>3. /\ log' = log /\ term' = term /\ applied' = [applied EXCEPT ![l] = k]
      /\ \A q \in A : Len(log[q]) >= k
  BY <1>1 DEF Commit, ApplyTo, Acknowledged
<1> HIDE DEF A
<1>4. \A n \in Nodes : Leading(n)' => Leading(n) /\ known'[n] = known[n]
  <2>1. /\ role' = [role EXCEPT ![l] =
                      IF l \notin Servers(SubSeq(log[l], 1, k)) THEN "shutdown" ELSE @]
        /\ known' = [known EXCEPT ![l] =
                      IF l \notin Servers(SubSeq(log[l], 1, k)) THEN None ELSE @]
    BY DEF Commit
  <2> QED
    BY <2>1 DEF Leading, RaftInv, LogInv, RaftType
<1>5. RaftType'
  <2>1. /\ role' \in [Nodes -> {"follower", "leader", "shutdown", "closed", "down"}]
        /\ known' \in [Nodes -> Nodes \cup {None}]
    BY DEF Commit, RaftInv, LogInv, RaftType
  <2>2. k \in 0 .. MaxLog
    BY <1>1, Typed DEF RaftInv, LogInv, RaftType
  <2>3. applied' \in [Nodes -> 0 .. MaxLog]
    BY <1>3, <2>2 DEF RaftInv, LogInv, RaftType
  <2>4. \A n \in Nodes : applied'[n] <= Len(log'[n])
    BY <1>1, <1>3, Typed DEF RaftInv, LogInv, RaftType
  <2> QED
    BY <1>2, <1>3, <2>1, <2>3, <2>4 DEF RaftInv, LogInv, RaftType
<1>6. LogInv'
  BY <1>3, <1>4, <1>5, LogKept DEF RaftInv
<1>7. ConfigInv'
  <2>1. ActiveOverlap' /\ ActiveInTerm' /\ Elected' /\ ChangeCertified'
    BY <1>3 DEF RaftInv, ConfigInv, ActiveOverlap, ActiveInTerm, Elected, ChangeCertified
  <2>2. Cert(log, Servers(log[l]), term[l])
    <3>1. term[l] \in Nat
      BY Typed DEF RaftInv, LogInv
    <3>2. \A q \in A : LastTerm(log[q]) >= term[l]
      BY <1>1, <3>1
    <3> QED
      BY <1>1, <3>2 DEF Cert
  <2>3. ASSUME NEW n \in Nodes, Leading(n)', Stable(n)'
        PROVE  Cert(log', Servers(log'[n]), term'[n])
    <3>1. CASE n = l
      BY <1>3, <2>2, <3>1
    <3>2. CASE n # l
      <4>1. applied'[n] = applied[n]
        BY <1>3, <3>2 DEF RaftInv, LogInv, RaftType
      <4>2. Leading(n) /\ Stable(n)
        BY <1>3, <1>4, <2>3, <4>1 DEF Stable
      <4> QED
        BY <1>3, <4>2 DEF RaftInv, ConfigInv, StableCertified
    <3> QED
      BY <3>1, <3>2
  <2> QED
    BY <2>1, <2>3 DEF ConfigInv, StableCertified
<1>8. /\ log[l] \in Seq(Entry) /\ Len(log[l]) \in Nat /\ DOMAIN log[l] = 1 .. Len(log[l])
      /\ committed \in Seq(Entry) /\ Len(committed) \in Nat
      /\ Len(committed') \in Nat /\ term[l] \in Nat /\ term[l] > 1
  <2>1. term[l] > 1
    BY <1>1 DEF RaftInv, LogInv, LeaderLog
  <2> QED
    BY <1>2, <2>1, Typed, EntrySeq DEF RaftInv, LogInv
<1>9. ActiveHasCommitted'
  <2> SUFFICES ASSUME NEW n \in Nodes, Active(log, n)
               PROVE  Same(committed', log[n], Len(committed'))
    BY <1>3 DEF ActiveHasCommitted
  <2>1. /\ log[n] \in Seq(Entry) /\ Len(log[n]) \in Nat /\ LastTerm(log[n]) \in Nat
    BY Typed DEF RaftInv, LogInv
  <2>2. CASE committed' = committed
    BY <2>2 DEF RaftInv, CommitInv, ActiveHasCommitted
  <2>3. CASE Len(committed') = k
    <3>1. PICK Q \in SUBSET Nodes :
            Majority(Q, Servers(log[n])) /\ \A q \in Q : UpToDate(log[n], log[q])
      BY DEF Active
    <3>2. PICK q \in Q : q \in A
      BY <1>1, <3>1 DEF RaftInv, ConfigInv, ActiveOverlap, Overlap
    <3>3. LastTerm(log[q]) = term[l] /\ Len(log[q]) >= k /\ UpToDate(log[n], log[q])
          /\ Len(log[q]) \in Nat /\ LastTerm(log[n]) <= term[l]
      BY <1>1, <1>3, <3>1, <3>2, Typed DEF RaftInv, LogInv
    <3>4. LastTerm(log[n]) = term[l] /\ Len(log[n]) >= k
      BY <1>1, <1>8, <2>1, <3>3 DEF UpToDate
    <3>5. Same(log[n], log[l], Len(log[n]))
      BY <1>1, <3>3, <3>4, NotNewer DEF RaftInv
    <3>6. \A i \in 1 .. k : committed'[i] = log[l][i] /\ log[n][i] = log[l][i]
      BY <1>1, <1>2, <1>8, <2>1, <2>3, <3>4, <3>5 DEF Same
    <3> QED
      BY <1>1, <1>8, <2>1, <2>3, <3>4, <3>6 DEF Same
  <2> QED
    BY <1>2, <2>2, <2>3
<1>10. \/ committed' = committed
       \/ /\ committed' # <<>> /\ LastTerm(committed') = term[l]
          /\ Servers(committed') = log[l][k].servers
  <2>1. CASE Len(committed') = k
    <3>1. committed' # <<>> /\ LastTerm(committed') = committed'[k].term
          /\ Servers(committed') = committed'[k].servers
      BY <1>1, <1>2, <2>1, EntrySeq
    <3>2. committed'[k] = log[l][k]
      BY <1>1, <1>2, <2>1 DEF Same
    <3> QED
      BY <1>1, <3>1, <3>2
  <2> QED
    BY <1>2, <2>1
<1>11. LeaderHasCommitted'
  <2> SUFFICES ASSUME NEW n \in Nodes, Leading(n), LastTerm(committed') <= term[n]
               PROVE  Same(committed', log[n], Len(committed'))
    BY <1>3, <1>4 DEF LeaderHasCommitted
  <2>1. CASE committed' = committed
    BY <2>1 DEF RaftInv, CommitInv, LeaderHasCommitted
  <2>2. CASE LastTerm(committed') = term[l]
    <3>1. LastTerm(log[n]) = term[n] /\ term[n] \in Nat
      BY Typed DEF RaftInv, LogInv, LeaderLog
    <3>2. term[n] = term[l]
      BY <1>1, <1>8, <2>2, <3>1
    <3>3. n = l
      BY <1>1, <3>2 DEF RaftInv, LogInv, OneLeader
    <3> QED
      BY <1>2, <3>3
  <2> QED
    BY <1>10, <2>1, <2>2
<1>12. CommittedSomewhere'
  BY <1>2, <1>3 DEF CommittedSomewhere
<1>13. CommittedCertified'
  <2>1. CASE committed' = committed
    BY <1>3, <2>1 DEF RaftInv, CommitInv, CommittedCertified
  <2>2. CASE LastTerm(committed') = term[l] /\ Servers(committed') = log[l][k].servers
    <3>1. CASE log[l][k].servers = Servers(log[l])
      <4>1. \A q \in A : LastTerm(log[q]) >= term[l]
        BY <1>1, <1>8
      <4>2. Cert(log, Servers(log[l]), term[l])
        BY <1>1, <4>1 DEF Cert
      <4> QED
        BY <1>3, <2>2, <3>1, <4>2 DEF CommittedCertified
    <3>2. CASE log[l][k].servers # Servers(log[l])
      <4>1. log[l][Len(log[l])].servers # log[l][k].servers /\ Len(log[l]) \in k .. Len(log[l])
        BY <1>1, <1>8, <3>2, EntrySeq
      <4>2. \A i \in DOMAIN log[l] :
              i > 1 /\ ~IsChange(log[l][i]) => log[l][i].servers = log[l][i - 1].servers
        BY DEF RaftInv, LogInv, Inherited
      <4>3. PICK i \in (k + 1) .. Len(log[l]) :
              IsChange(log[l][i]) /\ log[l][i - 1].servers = log[l][k].servers
        BY <1>1, <1>8, <4>1, <4>2, FirstChange
      <4>4. i \in DOMAIN log[l] /\ i > 1 /\ k \in DOMAIN log[l] /\ k <= i
        BY <1>1, <1>8
      <4>5. log[l][i].term >= term[l]
        BY <1>1, <4>4, Typed, EntrySeq DEF RaftInv, LogInv, Ordered
      <4>6. PICK Q \in SUBSET Nodes : Majority(Q, log[l][k].servers)
              /\ \A q \in Q : LastTerm(log[q]) >= log[l][i].term
        BY <4>3, <4>4 DEF RaftInv, ConfigInv, ChangeCertified, Cert
      <4>7. \A q \in Q : LastTerm(log[q]) >= term[l]
        <5>1. log[l][i].term \in Nat /\ \A q \in Q : LastTerm(log[q]) \in Nat
          BY <1>8, <4>4, EntrySeq, Typed DEF RaftInv, LogInv
        <5> QED
          BY <1>8, <4>5, <4>6, <5>1
      <4> QED
        BY <1>3, <2>2, <4>6, <4>7 DEF CommittedCertified, Cert
    <3> QED
      BY <3>1, <3>2
  <2> QED
    BY <1>10, <2>1, <2>2
<1>14. ASSUME NEW n \in Nodes
       PROVE  applied'[n] = (IF n = l THEN k ELSE applied[n])
  BY <1>3 DEF RaftInv, LogInv, RaftType
<1>15. AppliedCommitted'
  <2> SUFFICES ASSUME NEW n \in Nodes PROVE Same(log[n], committed', applied'[n])
    BY <1>3 DEF AppliedCommitted
  <2>1. CASE n = l
    BY <1>1, <1>2, <1>8, <1>14, <2>1 DEF Same
  <2>2. CASE n # l
    <3>1. Same(log[n], committed, applied[n]) /\ log[n] \in Seq(Entry) /\ applied[n] \in Nat
      BY Typed DEF RaftInv, LogInv, CommitInv, AppliedCommitted
    <3> QED
      BY <1>2, <1>8, <1>14, <2>2, <3>1 DEF Same
  <2> QED
    BY <2>1, <2>2
<1>16. LeaderHasApplied'
  <2> SUFFICES ASSUME NEW m \in Nodes, NEW n \in Nodes, Leading(m), term[n] <= term[m]
               PROVE  Same(log[n], log[m], applied'[n])
    BY <1>3, <1>4 DEF LeaderHasApplied
  <2>1. CASE n = l
    <3>1. LastTerm(log[m]) = term[m] /\ term[m] \in Nat
      BY Typed DEF RaftInv, LogInv, LeaderLog
    <3>2. m = l
      BY <1>1, <1>8, <2>1, <3>1 DEF RaftInv, LogInv, OneLeader
    <3> QED
      BY <1>1, <1>8, <1>14, <2>1, <3>2 DEF Same
  <2>2. CASE n # l
    BY <1>14, <2>2 DEF RaftInv, CommitInv, LeaderHasApplied
  <2> QED
    BY <2>1, <2>2
<1>17. LaterHasSettled'
  <2> SUFFICES ASSUME NEW n \in Nodes, NEW m \in Nodes, Settled(n)', LastTerm(log[m]) > term[n]
               PROVE  Same(log[n], log[m], applied'[n])
    BY <1>3 DEF LaterHasSettled
  <2>1. CASE n = l
    BY <1>1, <1>8, <2>1, Typed DEF RaftInv, LogInv
  <2>2. CASE n # l
    <3>1. Settled(n)
      BY <1>3, <1>4, <1>14, <2>2 DEF Settled
    <3> QED
      BY <1>14, <2>2, <3>1 DEF RaftInv, CommitInv, LaterHasSettled
  <2> QED
    BY <2>1, <2>2
<1> QED
  BY <1>6, <1>7, <1>9, <1>11, <1>12, <1>13, <1>15, <1>16, <1>17 DEF RaftInv, CommitInv

-----------------------------------------------------------------------------
(* Replication.                                                             *)

(* After Replicate(l, f) every node has a log that it or l had before, and  *)
(* the leaders but f are as they were.                                      *)
LEMMA ReplicateFacts ==
  ASSUME RaftInv, NEW l \in Nodes, NEW f \in Nodes, Replicate(l, f)
  PROVE  /\ Leading(l) /\ l # f /\ term[f] <= term[l]
         /\ \A n \in Nodes :
              /\ log'[n] = IF n = f THEN log[l] ELSE log[n]
              /\ term'[n] = IF n = f THEN term[l] ELSE term[n]
              /\ known'[n] = IF n = f THEN l ELSE known[n]
              /\ applied'[n] = IF n = f /\ applied[l] > applied[f] THEN applied[l]
                                                                  ELSE applied[n]
              /\ Leading(n)' <=> Leading(n) /\ n # f
              /\ term'[n] >= term[n]
         /\ Same(log[f], log[l], applied[f])
         /\ committed' = committed
         /\ Grow(log, log') /\ RaftType'
<1>1. /\ Leading(l) /\ l # f /\ term[f] <= term[l] /\ committed' = committed
      /\ role' = [role EXCEPT ![f] = "follower"] /\ term' = [term EXCEPT ![f] = term[l]]
      /\ log' = [log EXCEPT ![f] = log[l]] /\ known' = [known EXCEPT ![f] = l]
      /\ applied' = [applied EXCEPT ![f] = IF applied[l] > @ THEN applied[l] ELSE @]
  BY DEF Replicate, ApplyTo, Leading
<1>2. ASSUME NEW n \in Nodes
      PROVE  /\ log'[n] = IF n = f THEN log[l] ELSE log[n]
             /\ term'[n] = IF n = f THEN term[l] ELSE term[n]
             /\ known'[n] = IF n = f THEN l ELSE known[n]
             /\ applied'[n] = IF n = f /\ applied[l] > applied[f] THEN applied[l]
                                                                  ELSE applied[n]
             /\ Leading(n)' <=> Leading(n) /\ n # f
             /\ term'[n] >= term[n]
  <2>1. term[n] \in Nat /\ term[l] \in Nat
    BY Typed DEF RaftInv, LogInv
  <2> QED
    BY <1>1, <2>1 DEF RaftInv, LogInv, RaftType, Leading
<1>3. Same(log[f], log[l], applied[f])
  BY <1>1 DEF RaftInv, CommitInv, LeaderHasApplied
<1>4. Grow(log, log')
  <2>1. LastTerm(log[f]) <= term[l]
    <3>1. LastTerm(log[f]) \in Nat /\ term[f] \in Nat /\ term[l] \in Nat
      BY Typed DEF RaftInv, LogInv
    <3> QED
      BY <1>1, <3>1, LastTermBounds DEF RaftInv, LogInv
  <2>2. UpToDate(log[l], log[f])
    BY <1>1, <2>1, NotNewer DEF RaftInv
  <2>3. \A n \in Nodes : UpToDate(log[n], log[n])
    BY Typed, UpToDateOrder DEF RaftInv, LogInv
  <2> QED
    BY <1>2, <2>2, <2>3 DEF Grow
<1>5. RaftType'
  <2>1. /\ role' \in [Nodes -> {"follower", "leader", "shutdown", "closed", "down"}]
        /\ term' \in [Nodes -> 0 .. MaxTerm] /\ log' \in [Nodes -> Seq(Entry)]
        /\ known' \in [Nodes -> Nodes \cup {None}] /\ applied' \in [Nodes -> 0 .. MaxLog]
    BY <1>1 DEF RaftInv, LogInv, RaftType
  <2>2. \A n \in Nodes : Len(log'[n]) <= MaxLog /\ applied'[n] <= Len(log'[n])
    <3>1. applied[f] <= Len(log[l])
      BY <1>3 DEF Same
    <3> QED
      BY <1>2, <3>1, Typed DEF RaftInv, LogInv, RaftType
  <2> QED
    BY <1>1, <2>1, <2>2 DEF RaftInv, LogInv, RaftType
<1> QED
  BY <1>1, <1>2, <1>3, <1>4, <1>5

LEMMA ReplicateLog ==
  ASSUME RaftInv, NEW l \in Nodes, NEW f \in Nodes, Replicate(l, f)
  PROVE  LogInv'
<1>1. /\ Leading(l) /\ l # f /\ RaftType'
      /\ \A n \in Nodes :
           /\ log'[n] = IF n = f THEN log[l] ELSE log[n]
           /\ term'[n] = IF n = f THEN term[l] ELSE term[n]
           /\ known'[n] = IF n = f THEN l ELSE known[n]
           /\ Leading(n)' <=> Leading(n) /\ n # f
  BY ReplicateFacts
<1>2. Ordered'
  BY <1>1 DEF RaftInv, LogInv, Ordered
<1>3. Bootstrapped'
  <2>1. log[l] # <<>>
    BY <1>1 DEF RaftInv, LogInv, LeaderLog
  <2> QED
    BY <1>1, <2>1, RaftClusterAssumption DEF RaftInv, LogInv, Bootstrapped
<1>4. Inherited'
  BY <1>1 DEF RaftInv, LogInv, Inherited
<1>5. LeaderLog'
  BY <1>1 DEF RaftInv, LogInv, LeaderLog
<1>6. OneLeader'
  BY <1>1 DEF RaftInv, LogInv, OneLeader
<1>7. LeaderHas'
  <2> SUFFICES ASSUME NEW m \in Nodes, NEW n \in Nodes, Leading(m)',
                      NEW k \in DOMAIN log'[n], log'[n][k].term = term'[m]
               PROVE  k \in DOMAIN log'[m] /\ log'[m][k] = log'[n][k]
    BY DEF LeaderHas
  <2>1. Leading(m) /\ log'[m] = log[m] /\ term'[m] = term[m]
    BY <1>1
  <2>2. log'[n] = log[n] \/ log'[n] = log[l]
    BY <1>1
  <2> QED
    BY <2>1, <2>2 DEF RaftInv, LogInv, LeaderHas
<1>8. Matching'
  <2> SUFFICES ASSUME NEW m \in Nodes, NEW n \in Nodes, NEW k \in DOMAIN log'[m],
                      k \in DOMAIN log'[n], log'[m][k].term = log'[n][k].term
               PROVE  Same(log'[m], log'[n], k)
    BY DEF Matching
  <2>1. PICK m0 \in Nodes, n0 \in Nodes : log'[m] = log[m0] /\ log'[n] = log[n0]
    BY <1>1
  <2> QED
    BY <2>1 DEF RaftInv, LogInv, Matching
<1> QED
  BY <1>1, <1>2, <1>3, <1>4, <1>5, <1>6, <1>7, <1>8 DEF LogInv

LEMMA ReplicateConfig ==
  ASSUME RaftInv, NEW l \in Nodes, NEW f \in Nodes, Replicate(l, f)
  PROVE  ConfigInv'
<1>1. /\ Leading(l) /\ l # f /\ RaftType' /\ Grow(log, log')
      /\ \A n \in Nodes :
           /\ log'[n] = IF n = f THEN log[l] ELSE log[n]
           /\ term'[n] = IF n = f THEN term[l] ELSE term[n]
           /\ applied'[n] = IF n = f /\ applied[l] > applied[f] THEN applied[l]
                                                               ELSE applied[n]
           /\ Leading(n)' <=> Leading(n) /\ n # f
           /\ term'[n] >= term[n]
  BY ReplicateFacts
<1>2. /\ log \in [Nodes -> Seq(Entry)] /\ log' \in [Nodes -> Seq(Entry)]
      /\ term \in [Nodes -> Nat] /\ term' \in [Nodes -> Nat]
  <2>1. RaftType /\ RaftType'
    BY <1>1 DEF RaftInv, LogInv
  <2>2. 0 .. MaxTerm \subseteq Nat
    OBVIOUS
  <2>3. log \in [Nodes -> Seq(Entry)] /\ log' \in [Nodes -> Seq(Entry)]
    BY <2>1 DEF RaftType
  <2>4. term \in [Nodes -> 0 .. MaxTerm] /\ term' \in [Nodes -> 0 .. MaxTerm]
    BY <2>1 DEF RaftType
  <2> QED
    BY <2>2, <2>3, <2>4
<1>3. ASSUME NEW n \in Nodes
      PROVE  \E m \in Nodes : log'[n] = log[m] /\ (Active(log', n) => Active(log, m))
  <2>1. PICK m \in Nodes : log'[n] = log[m]
    BY <1>1
  <2> QED
    BY <1>1, <1>2, <2>1, ActiveBack
<1>4. ActiveOverlap'
  BY <1>3 DEF RaftInv, ConfigInv, ActiveOverlap
<1>5. ActiveInTerm'
  <2> SUFFICES ASSUME NEW m \in Nodes, NEW n \in Nodes, Active(log', n), LastTerm(log'[m]) > 1,
                      NEW Q \in SUBSET Nodes, Majority(Q, Servers(log'[n]))
               PROVE  \E q \in Q : term'[q] >= LastTerm(log'[m])
    BY DEF ActiveInTerm
  <2>1. PICK n0 \in Nodes : log'[n] = log[n0] /\ Active(log, n0)
    BY <1>3
  <2>2. PICK m0 \in Nodes : log'[m] = log[m0]
    BY <1>3
  <2>3. PICK q \in Q : term[q] >= LastTerm(log[m0])
    BY <2>1, <2>2 DEF RaftInv, ConfigInv, ActiveInTerm
  <2>4. term'[q] >= LastTerm(log[m0])
    <3>1. term[q] \in Nat /\ term'[q] \in Nat /\ LastTerm(log[m0]) \in Nat
      BY <1>2, Typed DEF RaftInv, LogInv
    <3> QED
      BY <1>1, <2>3, <3>1
  <2> QED
    BY <2>2, <2>4
<1>6. Elected'
  <2> SUFFICES ASSUME NEW n \in Nodes, NEW i \in DOMAIN log'[n],
                      i > 1, log'[n][i - 1].term < log'[n][i].term
               PROVE  Voted(term', log'[n][i].servers, log'[n][i].term)
    BY DEF Elected
  <2>1. PICK m \in Nodes : log'[n] = log[m]
    BY <1>3
  <2>2. Voted(term, log[m][i].servers, log[m][i].term)
    BY <2>1 DEF RaftInv, ConfigInv, Elected
  <2>3. log[m][i].term \in Nat
    BY <2>1, Typed, EntrySeq DEF RaftInv, LogInv
  <2>4. Voted(term', log[m][i].servers, log[m][i].term)
    BY <1>1, <1>2, <2>2, <2>3, VotedGrows
  <2> QED
    BY <2>1, <2>4
<1>7. ChangeCertified'
  <2> SUFFICES ASSUME NEW n \in Nodes, NEW i \in DOMAIN log'[n], i > 1, IsChange(log'[n][i])
               PROVE  Cert(log', log'[n][i - 1].servers, log'[n][i].term)
    BY DEF ChangeCertified
  <2>1. PICK m \in Nodes : log'[n] = log[m]
    BY <1>3
  <2>2. Cert(log, log[m][i - 1].servers, log[m][i].term)
    BY <2>1 DEF RaftInv, ConfigInv, ChangeCertified
  <2>3. log[m][i].term \in Nat
    BY <2>1, Typed, EntrySeq DEF RaftInv, LogInv
  <2>4. Cert(log', log[m][i - 1].servers, log[m][i].term)
    BY <1>1, <1>2, <2>2, <2>3, CertGrows
  <2> QED
    BY <2>1, <2>4
<1>8. StableCertified'
  <2> SUFFICES ASSUME NEW n \in Nodes, Leading(n)', Stable(n)'
               PROVE  Cert(log', Servers(log'[n]), term'[n])
    BY DEF StableCertified
  <2>1. /\ Leading(n) /\ log'[n] = log[n] /\ term'[n] = term[n]
        /\ applied'[n] = applied[n]
    BY <1>1
  <2>2. Stable(n)
    BY <2>1 DEF Stable
  <2>3. Cert(log, Servers(log[n]), term[n]) /\ term[n] \in Nat
    BY <1>2, <2>1, <2>2 DEF RaftInv, ConfigInv, StableCertified
  <2> QED
    BY <1>1, <1>2, <2>1, <2>3, CertGrows
<1> QED
  BY <1>4, <1>5, <1>6, <1>7, <1>8 DEF ConfigInv

LEMMA ReplicateCommit ==
  ASSUME RaftInv, NEW l \in Nodes, NEW f \in Nodes, Replicate(l, f)
  PROVE  CommitInv'
<1>1. /\ Leading(l) /\ l # f /\ term[f] <= term[l] /\ RaftType' /\ Grow(log, log')
      /\ committed' = committed /\ Same(log[f], log[l], applied[f])
      /\ \A n \in Nodes :
           /\ log'[n] = IF n = f THEN log[l] ELSE log[n]
           /\ term'[n] = IF n = f THEN term[l] ELSE term[n]
           /\ applied'[n] = IF n = f /\ applied[l] > applied[f] THEN applied[l]
                                                               ELSE applied[n]
           /\ Leading(n)' <=> Leading(n) /\ n # f
  BY ReplicateFacts
<1>2. /\ log \in [Nodes -> Seq(Entry)] /\ log' \in [Nodes -> Seq(Entry)]
      /\ committed \in Seq(Entry) /\ Len(committed) \in Nat
      /\ \A n \in Nodes : applied[n] \in Nat
  BY <1>1, Typed DEF RaftInv, LogInv, RaftType
<1>3. ActiveHasCommitted'
  <2> SUFFICES ASSUME NEW n \in Nodes, Active(log', n)
               PROVE  Same(committed, log'[n], Len(committed))
    BY <1>1 DEF ActiveHasCommitted
  <2>1. PICK m \in Nodes : log'[n] = log[m]
    BY <1>1
  <2>2. Active(log, m)
    BY <1>1, <1>2, <2>1, ActiveBack
  <2> QED
    BY <2>1, <2>2 DEF RaftInv, CommitInv, ActiveHasCommitted
<1>4. LeaderHasCommitted'
  BY <1>1 DEF RaftInv, CommitInv, LeaderHasCommitted
<1>5. CommittedSomewhere'
  <2>1. PICK n \in Nodes : Same(committed, log[n], Len(committed))
    BY DEF RaftInv, CommitInv, CommittedSomewhere
  <2>2. CASE n # f
    BY <1>1, <2>1, <2>2 DEF CommittedSomewhere
  <2>3. CASE n = f
    <3>1. LastTerm(committed) <= term[l]
      <4>1. term[f] \in Nat /\ term[l] \in Nat /\ LastTerm(committed) \in Nat
        BY Typed, EntrySeq DEF RaftInv, LogInv
      <4>2. CASE committed = <<>>
        <5>1. LastTerm(committed) = 0
          BY <4>2 DEF LastTerm
        <5> QED
          BY <4>1, <5>1
      <4>3. CASE committed # <<>>
        <5>1. Len(committed) \in 1 .. Len(log[f]) /\ LastTerm(committed) = log[f][Len(committed)].term
          <6>1. Len(committed) # 0 /\ LastTerm(committed) = committed[Len(committed)].term
            BY <1>2, <4>3, EntrySeq
          <6>2. Len(committed) <= Len(log[f]) /\ Len(log[f]) \in Nat
                /\ \A i \in 1 .. Len(committed) : committed[i] = log[f][i]
            BY <2>1, <2>3, Typed DEF Same, RaftInv, LogInv
          <6> QED
            BY <1>2, <6>1, <6>2
        <5>2. LastTerm(committed) <= LastTerm(log[f]) /\ LastTerm(log[f]) <= term[f]
          BY <5>1, LastTermBounds DEF RaftInv, LogInv
        <5>3. LastTerm(log[f]) \in Nat
          BY Typed DEF RaftInv, LogInv
        <5> QED
          BY <1>1, <4>1, <5>2, <5>3
      <4> QED
        BY <4>2, <4>3
    <3>2. Same(committed, log[l], Len(committed))
      BY <1>1, <3>1 DEF RaftInv, CommitInv, LeaderHasCommitted
    <3> QED
      BY <1>1, <3>2 DEF CommittedSomewhere
  <2> QED
    BY <2>2, <2>3
<1>6. CommittedCertified'
  <2>1. LastTerm(committed) \in Nat
    BY <1>2, EntrySeq
  <2> QED
    BY <1>1, <1>2, <2>1, CertGrows DEF RaftInv, CommitInv, CommittedCertified
<1>7. AppliedCommitted'
  <2> SUFFICES ASSUME NEW n \in Nodes PROVE Same(log'[n], committed, applied'[n])
    BY <1>1 DEF AppliedCommitted
  <2>1. \A m \in Nodes : Same(log[m], committed, applied[m])
    BY DEF RaftInv, CommitInv, AppliedCommitted
  <2>2. CASE n # f
    BY <1>1, <2>1, <2>2
  <2>3. CASE n = f
    <3>1. Same(log[l], committed, applied[f])
      BY <1>1, <1>2, <2>1 DEF Same
    <3> QED
      BY <1>1, <2>1, <2>3, <3>1
  <2> QED
    BY <2>2, <2>3
<1>8. LeaderHasApplied'
  <2> SUFFICES ASSUME NEW m \in Nodes, NEW n \in Nodes, Leading(m)', term'[n] <= term'[m]
               PROVE  Same(log'[n], log'[m], applied'[n])
    BY DEF LeaderHasApplied
  <2>1. Leading(m) /\ log'[m] = log[m] /\ term'[m] = term[m]
    BY <1>1
  <2>2. CASE n # f
    BY <1>1, <2>1, <2>2 DEF RaftInv, CommitInv, LeaderHasApplied
  <2>3. CASE n = f
    <3>1. term[l] <= term[m] /\ term[f] <= term[m]
      BY <1>1, <2>1, <2>3, Typed DEF RaftInv, LogInv
    <3>2. Same(log[l], log[m], applied[l]) /\ Same(log[f], log[m], applied[f])
      BY <2>1, <3>1 DEF RaftInv, CommitInv, LeaderHasApplied
    <3>3. Same(log[l], log[m], applied[f])
      BY <1>1, <1>2, <3>2 DEF Same
    <3> QED
      BY <1>1, <2>1, <2>3, <3>2, <3>3
  <2> QED
    BY <2>2, <2>3
<1>9. LaterHasSettled'
  <2> SUFFICES ASSUME NEW n \in Nodes, NEW m \in Nodes, Settled(n)', LastTerm(log'[m]) > term'[n]
               PROVE  Same(log'[n], log'[m], applied'[n])
    BY DEF LaterHasSettled
  <2>1. /\ Leading(n) /\ log'[n] = log[n] /\ term'[n] = term[n] /\ applied'[n] = applied[n]
    BY <1>1 DEF Settled
  <2>2. Settled(n)
    BY <2>1 DEF Settled
  <2>3. PICK m0 \in Nodes : log'[m] = log[m0]
    BY <1>1
  <2> QED
    BY <2>1, <2>2, <2>3 DEF RaftInv, CommitInv, LaterHasSettled
<1> QED
  BY <1>3, <1>4, <1>5, <1>6, <1>7, <1>8, <1>9 DEF CommitInv

LEMMA ReplicateSafe ==
  ASSUME RaftInv, NEW l \in Nodes, NEW f \in Nodes, Replicate(l, f)
  PROVE  RaftInv'
BY ReplicateLog, ReplicateConfig, ReplicateCommit DEF RaftInv

-----------------------------------------------------------------------------
(* A leader, old or new, adds an entry to its log.                          *)

Extends(l, e) ==
  /\ e \in Entry /\ e.term > 1 /\ log[l] # <<>> /\ Len(log[l]) < MaxLog
  /\ log' = [log EXCEPT ![l] = Append(@, e)]
  /\ IsChange(e) \/ e.servers = Servers(log[l])
  /\ \A n \in Nodes : \A k \in DOMAIN log[n] :
       log[n][k].term = e.term => k \in DOMAIN log[l] /\ log[l][k] = log[n][k]
  /\ term' \in [Nodes -> 0 .. MaxTerm] /\ term'[l] = e.term
  /\ \A n \in Nodes : term'[n] >= term[n]
  /\ role' \in [Nodes -> {"follower", "leader", "shutdown", "closed", "down"}]
  /\ known' \in [Nodes -> Nodes \cup {None}]
  /\ \A n \in Nodes : Leading(n)' =>
       /\ known'[n] = n
       /\ n # l => Leading(n) /\ term'[n] = term[n] /\ term[n] # e.term
  /\ UNCHANGED <<applied, committed>>

LEMMA ExtendFacts ==
  ASSUME RaftType, NEW l \in Nodes, NEW e, Extends(l, e)
  PROVE  /\ log' \in [Nodes -> Seq(Entry)] /\ RaftType'
         /\ \A n \in Nodes :
              /\ n # l => log'[n] = log[n]
              /\ DOMAIN log'[n] = 1 .. Len(log'[n])
              /\ Len(log'[n]) = IF n = l THEN Len(log[n]) + 1 ELSE Len(log[n])
              /\ \A i \in 1 .. Len(log[n]) : log'[n][i] = log[n][i]
         /\ log'[l][Len(log[l]) + 1] = e /\ log'[l] # <<>>
         /\ LastTerm(log'[l]) = e.term /\ Servers(log'[l]) = e.servers
<1>1. /\ e \in Entry /\ log' = [log EXCEPT ![l] = Append(log[l], e)]
      /\ log \in [Nodes -> Seq(Entry)] /\ log[l] \in Seq(Entry)
  BY Typed DEF Extends
<1>2. /\ Append(log[l], e) \in Seq(Entry)
      /\ Len(Append(log[l], e)) = Len(log[l]) + 1 /\ Append(log[l], e) # <<>>
      /\ DOMAIN Append(log[l], e) = 1 .. Len(log[l]) + 1
      /\ \A i \in 1 .. Len(log[l]) : Append(log[l], e)[i] = log[l][i]
      /\ Append(log[l], e)[Len(log[l]) + 1] = e
      /\ LastTerm(Append(log[l], e)) = e.term /\ Servers(Append(log[l], e)) = e.servers
  BY <1>1, Appended
<1>3. log'[l] = Append(log[l], e) /\ \A n \in Nodes \ {l} : log'[n] = log[n]
  BY <1>1
<1>4. log' \in [Nodes -> Seq(Entry)]
  BY <1>1, <1>2
<1>5. RaftType'
  <2>1. \A n \in Nodes : Len(log'[n]) <= MaxLog /\ applied'[n] <= Len(log'[n])
    <3>1. \A n \in Nodes : applied'[n] = applied[n] /\ applied[n] \in Nat
      BY Typed DEF Extends
    <3>2. Len(log[l]) < MaxLog /\ Len(log[l]) \in Nat /\ MaxLog \in Nat
      BY Typed DEF Extends
    <3>3. \A n \in Nodes : Len(log[n]) <= MaxLog /\ applied[n] <= Len(log[n])
      BY DEF RaftType
    <3> QED
      BY <1>2, <1>3, <3>1, <3>2, <3>3
  <2> QED
    BY <1>4, <2>1 DEF Extends, RaftType
<1>6. ASSUME NEW n \in Nodes
      PROVE  /\ DOMAIN log'[n] = 1 .. Len(log'[n])
             /\ Len(log'[n]) = IF n = l THEN Len(log[n]) + 1 ELSE Len(log[n])
             /\ \A i \in 1 .. Len(log[n]) : log'[n][i] = log[n][i]
  BY <1>2, <1>3, Typed
<1> QED
  BY <1>2, <1>3, <1>4, <1>5, <1>6

(* Agreement of logs survives.                                              *)
LEMMA ExtendSame ==
  ASSUME RaftType, NEW l \in Nodes, NEW e, Extends(l, e), NEW m \in Nodes, NEW n \in Nodes,
         NEW k \in Nat
  PROVE  /\ Same(log[m], log[n], k) => Same(log'[m], log'[n], k)
         /\ Same(log[n], committed, k) => Same(log'[n], committed, k)
         /\ Same(committed, log[n], k) => Same(committed, log'[n], k)
<1>1. ASSUME NEW j \in Nodes
      PROVE  /\ Len(log[j]) \in Nat /\ Len(log'[j]) >= Len(log[j]) /\ Len(log'[j]) \in Nat
             /\ \A i \in 1 .. Len(log[j]) : log'[j][i] = log[j][i]
  <2>1. /\ Len(log'[j]) = IF j = l THEN Len(log[j]) + 1 ELSE Len(log[j])
        /\ \A i \in 1 .. Len(log[j]) : log'[j][i] = log[j][i]
    BY ExtendFacts
  <2>2. Len(log[j]) \in Nat
    BY Typed
  <2> QED
    BY <2>1, <2>2
<1>2. ASSUME NEW s, NEW j \in Nodes, Same(s, log[j], k), Len(s) \in Nat
      PROVE  Same(s, log'[j], k)
  BY <1>1, <1>2 DEF Same
<1>3. ASSUME NEW s, NEW j \in Nodes, Same(log[j], s, k), Len(s) \in Nat
      PROVE  Same(log'[j], s, k)
  BY <1>1, <1>3 DEF Same
<1>4. Len(committed) \in Nat
  BY Typed
<1> QED
  BY <1>1, <1>2, <1>3, <1>4

LEMMA ExtendLog ==
  ASSUME LogInv, NEW l \in Nodes, NEW e, Extends(l, e)
  PROVE  LogInv'
<1> DEFINE z == Len(log[l]) + 1
<1>1. /\ RaftType /\ RaftType'
      /\ \A n \in Nodes :
           /\ n # l => log'[n] = log[n]
           /\ DOMAIN log'[n] = 1 .. Len(log'[n])
           /\ Len(log'[n]) = IF n = l THEN Len(log[n]) + 1 ELSE Len(log[n])
           /\ \A i \in 1 .. Len(log[n]) : log'[n][i] = log[n][i]
      /\ log'[l][z] = e /\ log'[l] # <<>> /\ LastTerm(log'[l]) = e.term
  BY ExtendFacts DEF LogInv
<1>2. \A n \in Nodes : /\ DOMAIN log[n] = 1 .. Len(log[n]) /\ Len(log[n]) \in Nat
                       /\ term[n] \in Nat /\ term'[n] \in Nat /\ term'[n] >= term[n]
                       /\ log[n] \in Seq(Entry)
  BY <1>1, Typed, RaftClusterAssumption DEF Extends, RaftType
<1>3. e.term \in Nat /\ e.term > 1 /\ term'[l] = e.term /\ Len(log[l]) >= 1
  <2>1. e \in Entry /\ e.term > 1 /\ term'[l] = e.term /\ log[l] # <<>>
    BY DEF Extends
  <2> QED
    BY <1>2, <2>1, EntrySeq
\* An entry of the new logs is one of the old logs, or the new one.
<1>4. ASSUME NEW n \in Nodes, NEW i \in DOMAIN log'[n]
      PROVE  \/ i \in DOMAIN log[n] /\ log'[n][i] = log[n][i]
             \/ n = l /\ i = z /\ log'[n][i] = e
  BY <1>1, <1>2
<1>5. \A n \in Nodes : \A i \in DOMAIN log[n] : log[n][i].term \in Nat
  BY <1>2, EntrySeq
<1>6. Ordered'
  <2>1. ASSUME NEW n \in Nodes, NEW i \in DOMAIN log'[n] PROVE log'[n][i].term <= term'[n]
    <3>1. CASE i \in DOMAIN log[n] /\ log'[n][i] = log[n][i]
      <4>1. log[n][i].term <= term[n]
        BY <3>1 DEF LogInv, Ordered
      <4> QED
        BY <1>2, <1>5, <3>1, <4>1
    <3>2. CASE n = l /\ log'[n][i] = e
      BY <1>3, <3>2
    <3> QED
      BY <1>4, <3>1, <3>2
  <2>2. ASSUME NEW n \in Nodes, NEW i \in DOMAIN log'[n], NEW j \in DOMAIN log'[n], i <= j
        PROVE  log'[n][i].term <= log'[n][j].term
    <3>1. CASE j \in DOMAIN log[n] /\ log'[n][j] = log[n][j]
      <4>1. i \in 1 .. Len(log[n])
        <5>1. j \in 1 .. Len(log[n]) /\ i \in 1 .. Len(log'[n]) /\ Len(log'[n]) \in Nat
          BY <1>1, <1>2, <3>1
        <5> QED
          BY <1>2, <2>2, <5>1
      <4>2. i \in DOMAIN log[n] /\ log'[n][i] = log[n][i]
        BY <1>1, <1>2, <4>1
      <4> QED
        BY <2>2, <3>1, <4>2 DEF LogInv, Ordered
    <3>2. CASE n = l /\ log'[n][j] = e
      BY <1>3, <2>1, <3>2
    <3> QED
      BY <1>4, <3>1, <3>2
  <2> QED
    BY <2>1, <2>2 DEF Ordered
<1>7. Bootstrapped'
  <2> SUFFICES ASSUME NEW n \in Nodes, log'[n] # <<>>
               PROVE  log'[n][1] = Bootstrap /\ log'[FirstNode] # <<>>
    BY DEF Bootstrapped
  <2>1. log[n] # <<>>
    <3>1. n = l => log[l] # <<>>
      BY DEF Extends
    <3> QED
      BY <1>1, <3>1
  <2>2. log[n][1] = Bootstrap /\ log[FirstNode] # <<>>
    BY <2>1 DEF LogInv, Bootstrapped
  <2>3. log'[n][1] = log[n][1]
    <3>1. 1 \in 1 .. Len(log[n])
      BY <1>2, <2>1, EntrySeq
    <3> QED
      BY <1>1, <3>1
  <2>4. log'[FirstNode] # <<>>
    BY <1>1, <2>2, RaftClusterAssumption
  <2> QED
    BY <2>2, <2>3, <2>4
<1>8. Inherited'
  <2> SUFFICES ASSUME NEW n \in Nodes, NEW i \in DOMAIN log'[n], i > 1, ~IsChange(log'[n][i])
               PROVE  log'[n][i].servers = log'[n][i - 1].servers
    BY DEF Inherited
  <2>1. CASE i \in DOMAIN log[n] /\ log'[n][i] = log[n][i]
    <3>1. i - 1 \in 1 .. Len(log[n])
      BY <1>2, <2>1
    <3>2. log'[n][i - 1] = log[n][i - 1]
      BY <1>1, <3>1
    <3> QED
      BY <2>1, <3>2 DEF LogInv, Inherited
  <2>2. CASE n = l /\ i = z /\ log'[n][i] = e
    <3>1. e.servers = Servers(log[l])
      BY <2>2 DEF Extends
    <3>2. log'[l][i - 1] = log[l][Len(log[l])]
      BY <1>1, <1>2, <1>3, <2>2
    <3> QED
      BY <1>2, <1>3, <2>2, <3>1, <3>2, EntrySeq
  <2> QED
    BY <1>4, <2>1, <2>2
<1>9. LeaderLog'
  <2> SUFFICES ASSUME NEW n \in Nodes, Leading(n)'
               PROVE  /\ known'[n] = n /\ log'[n] # <<>> /\ term'[n] > 1
                      /\ LastTerm(log'[n]) = term'[n]
    BY DEF LeaderLog
  <2>1. /\ known'[n] = n
        /\ n # l => Leading(n) /\ term'[n] = term[n]
    BY DEF Extends
  <2> QED
    BY <1>1, <1>3, <2>1 DEF LogInv, LeaderLog
<1>10. OneLeader'
  <2>1. \A n \in Nodes : Leading(n)' /\ n # l =>
          Leading(n) /\ term'[n] = term[n] /\ term[n] # e.term
    BY DEF Extends
  <2> QED
    BY <1>3, <2>1 DEF LogInv, OneLeader
<1>11. LeaderHas'
  <2> SUFFICES ASSUME NEW m \in Nodes, NEW n \in Nodes, Leading(m)',
                      NEW k \in DOMAIN log'[n], log'[n][k].term = term'[m]
               PROVE  k \in DOMAIN log'[m] /\ log'[m][k] = log'[n][k]
    BY DEF LeaderHas
  <2>1. m # l => Leading(m) /\ term'[m] = term[m] /\ term[m] # e.term
    BY DEF Extends
  <2>2. CASE k \in DOMAIN log[n] /\ log'[n][k] = log[n][k]
    <3>1. k \in DOMAIN log[m] /\ log[m][k] = log[n][k]
      <4>1. CASE m = l
        BY <1>3, <2>2, <4>1 DEF Extends
      <4>2. CASE m # l
        BY <2>1, <2>2, <4>2 DEF LogInv, LeaderHas
      <4> QED
        BY <4>1, <4>2
    <3>2. k \in 1 .. Len(log[m]) /\ Len(log[m]) \in Nat
      BY <1>2, <3>1
    <3>3. Len(log'[m]) \in Nat /\ Len(log'[m]) >= Len(log[m]) /\ DOMAIN log'[m] = 1 .. Len(log'[m])
      BY <1>1, <1>2
    <3>4. k \in DOMAIN log'[m] /\ log'[m][k] = log[m][k]
      BY <1>1, <3>2, <3>3
    <3> QED
      BY <2>2, <3>1, <3>4
  <2>3. CASE n = l /\ k = z /\ log'[n][k] = e
    BY <2>1, <2>3
  <2> QED
    BY <1>4, <2>2, <2>3
<1>12. Matching'
  <2> SUFFICES ASSUME NEW m \in Nodes, NEW n \in Nodes, NEW k \in DOMAIN log'[m],
                      k \in DOMAIN log'[n], log'[m][k].term = log'[n][k].term
               PROVE  Same(log'[m], log'[n], k)
    BY DEF Matching
  <2>1. CASE k \in DOMAIN log[m] /\ k \in DOMAIN log[n]
    <3>0. k \in 1 .. Len(log[m]) /\ k \in 1 .. Len(log[n])
      BY <1>2, <2>1
    <3>1. log'[m][k] = log[m][k] /\ log'[n][k] = log[n][k] /\ k \in Nat
      BY <1>1, <3>0
    <3>2. Same(log[m], log[n], k)
      BY <2>1, <3>1 DEF LogInv, Matching
    <3> QED
      BY <1>1, <3>1, <3>2, ExtendSame
  \* The index of the new entry is beyond every entry of its term.
  <2>2. ASSUME NEW j \in Nodes, j # l, z \in DOMAIN log'[j] PROVE log'[j][z].term # e.term
    <3>1. z \in DOMAIN log[j] /\ log'[j][z] = log[j][z] /\ z \notin DOMAIN log[l]
      BY <1>1, <1>2, <2>2
    <3> QED
      BY <3>1 DEF Extends
  <2>3. CASE m = n
    BY <1>1, <1>2, <2>3 DEF Same
  <2> QED
    BY <1>4, <2>1, <2>2, <2>3
<1> QED
  BY <1>1, <1>6, <1>7, <1>8, <1>9, <1>10, <1>11, <1>12 DEF LogInv

LEMMA ExtendGrow ==
  ASSUME LogInv, NEW l \in Nodes, NEW e, Extends(l, e)
  PROVE  Grow(log, log') /\ log' \in [Nodes -> Seq(Entry)]
<1>1. /\ log' \in [Nodes -> Seq(Entry)] /\ log \in [Nodes -> Seq(Entry)]
      /\ Len(log'[l]) = Len(log[l]) + 1 /\ LastTerm(log'[l]) = e.term
      /\ \A n \in Nodes \ {l} : log'[n] = log[n]
  BY ExtendFacts, Typed DEF LogInv
<1>2. LastTerm(log[l]) <= e.term
  <2>1. /\ e.term = term'[l] /\ term'[l] >= term[l] /\ term'[l] \in Nat
    BY RaftClusterAssumption DEF Extends
  <2>2. LastTerm(log[l]) <= term[l]
    BY LastTermBounds DEF LogInv
  <2> QED
    BY <2>1, <2>2, Typed DEF LogInv
<1>3. UpToDate(log'[l], log[l])
  <2>1. e.term \in Nat /\ LastTerm(log[l]) \in Nat /\ Len(log[l]) \in Nat
    BY Typed, RaftClusterAssumption DEF LogInv, Extends, Entry
  <2> QED
    BY <1>1, <1>2, <2>1 DEF UpToDate
<1>4. \A n \in Nodes : UpToDate(log[n], log[n])
  BY <1>1, UpToDateOrder
<1> QED
  BY <1>1, <1>3, <1>4 DEF Grow

LEMMA ExtendCerts ==
  ASSUME RaftInv, NEW l \in Nodes, NEW e, Extends(l, e),
         LastTerm(log[l]) = e.term \/ Voted(term', e.servers, e.term),
         IsChange(e) => Cert(log, Servers(log[l]), e.term)
  PROVE  Elected' /\ ChangeCertified'
<1> DEFINE z == Len(log[l]) + 1
<1>1. /\ \A n \in Nodes :
           /\ n # l => log'[n] = log[n]
           /\ DOMAIN log'[n] = 1 .. Len(log'[n])
           /\ Len(log'[n]) = IF n = l THEN Len(log[n]) + 1 ELSE Len(log[n])
           /\ \A i \in 1 .. Len(log[n]) : log'[n][i] = log[n][i]
      /\ log'[l][z] = e
  BY ExtendFacts DEF RaftInv, LogInv
<1>2. /\ log \in [Nodes -> Seq(Entry)] /\ log' \in [Nodes -> Seq(Entry)] /\ Grow(log, log')
      /\ term \in [Nodes -> Nat] /\ term' \in [Nodes -> Nat]
      /\ \A n \in Nodes : term'[n] >= term[n]
      /\ \A n \in Nodes : DOMAIN log[n] = 1 .. Len(log[n]) /\ Len(log[n]) \in Nat
      /\ e.term \in Nat
  <2>1. RaftType /\ Grow(log, log') /\ log' \in [Nodes -> Seq(Entry)]
    BY ExtendGrow DEF RaftInv, LogInv
  <2>2. /\ term' \in [Nodes -> Nat] /\ \A n \in Nodes : term'[n] >= term[n]
        /\ e.term \in Nat
    BY RaftClusterAssumption DEF Extends, Entry
  <2> QED
    BY <2>1, <2>2, Typed
<1>3. /\ Len(log[l]) >= 1 /\ log[l][Len(log[l])].term = LastTerm(log[l])
      /\ log[l][Len(log[l])].servers = Servers(log[l])
  <2>1. log[l] # <<>>
    BY DEF Extends
  <2> QED
    BY <1>2, <2>1, EntrySeq
<1>4. ASSUME NEW n \in Nodes, NEW i \in DOMAIN log'[n], i > 1
      PROVE  \/ /\ i \in DOMAIN log[n] /\ log'[n][i] = log[n][i]
                /\ log'[n][i - 1] = log[n][i - 1] /\ log[n][i].term \in Nat
             \/ /\ n = l /\ log'[n][i] = e /\ log'[n][i - 1] = log[l][Len(log[l])]
  <2>1. CASE i \in 1 .. Len(log[n])
    <3>1. i - 1 \in 1 .. Len(log[n]) /\ log[n] \in Seq(Entry)
      BY <1>2, <1>4, <2>1
    <3> QED
      BY <1>1, <1>2, <2>1, <3>1, EntrySeq
  <2>2. CASE i \notin 1 .. Len(log[n])
    <3>1. n = l /\ i = z
      BY <1>1, <1>2, <2>2
    <3>2. i - 1 = Len(log[l]) /\ Len(log[l]) \in 1 .. Len(log[l])
      BY <1>2, <1>3, <3>1
    <3> QED
      BY <1>1, <3>1, <3>2
  <2> QED
    BY <2>1, <2>2
<1>5. Elected'
  <2> SUFFICES ASSUME NEW n \in Nodes, NEW i \in DOMAIN log'[n],
                      i > 1, log'[n][i - 1].term < log'[n][i].term
               PROVE  Voted(term', log'[n][i].servers, log'[n][i].term)
    BY DEF Elected
  <2>1. CASE /\ i \in DOMAIN log[n] /\ log'[n][i] = log[n][i]
             /\ log'[n][i - 1] = log[n][i - 1] /\ log[n][i].term \in Nat
    <3>1. Voted(term, log[n][i].servers, log[n][i].term)
      BY <2>1 DEF RaftInv, ConfigInv, Elected
    <3> QED
      BY <1>2, <2>1, <3>1, VotedGrows
  <2>2. CASE n = l /\ log'[n][i] = e /\ log'[n][i - 1] = log[l][Len(log[l])]
    <3>1. LastTerm(log[l]) # e.term
      BY <1>2, <1>3, <2>2
    <3> QED
      BY <2>2, <3>1
  <2> QED
    BY <1>4, <2>1, <2>2
<1>6. ChangeCertified'
  <2> SUFFICES ASSUME NEW n \in Nodes, NEW i \in DOMAIN log'[n], i > 1, IsChange(log'[n][i])
               PROVE  Cert(log', log'[n][i - 1].servers, log'[n][i].term)
    BY DEF ChangeCertified
  <2>1. CASE /\ i \in DOMAIN log[n] /\ log'[n][i] = log[n][i]
             /\ log'[n][i - 1] = log[n][i - 1] /\ log[n][i].term \in Nat
    <3>1. Cert(log, log[n][i - 1].servers, log[n][i].term)
      BY <2>1 DEF RaftInv, ConfigInv, ChangeCertified
    <3> QED
      BY <1>2, <2>1, <3>1, CertGrows
  <2>2. CASE n = l /\ log'[n][i] = e /\ log'[n][i - 1] = log[l][Len(log[l])]
    <3>1. Cert(log, Servers(log[l]), e.term)
      BY <2>2
    <3>2. Cert(log', Servers(log[l]), e.term)
      BY <1>2, <3>1, CertGrows
    <3>3. log'[n][i - 1].servers = Servers(log[l]) /\ log'[n][i].term = e.term
      BY <1>3, <2>2
    <3> QED
      BY <3>2, <3>3
  <2> QED
    BY <1>4, <2>1, <2>2
<1> QED
  BY <1>5, <1>6

LEMMA ExtendCommit ==
  ASSUME RaftInv, NEW l \in Nodes, NEW e, Extends(l, e)
  PROVE  CommittedSomewhere' /\ CommittedCertified' /\ AppliedCommitted'
<1>1. RaftType /\ committed' = committed /\ applied' = applied
  BY DEF Extends, RaftInv, LogInv
<1>2. Len(committed) \in Nat /\ LastTerm(committed) \in Nat /\ \A n \in Nodes : applied[n] \in Nat
  BY <1>1, Typed, EntrySeq
<1>3. CommittedSomewhere'
  <2>1. PICK n \in Nodes : Same(committed, log[n], Len(committed))
    BY DEF RaftInv, CommitInv, CommittedSomewhere
  <2>2. Same(committed, log'[n], Len(committed))
    BY <1>1, <1>2, <2>1, ExtendSame
  <2> QED
    BY <1>1, <2>2 DEF CommittedSomewhere
<1>4. CommittedCertified'
  <2> SUFFICES ASSUME committed # <<>>
               PROVE  Cert(log', Servers(committed), LastTerm(committed))
    BY <1>1 DEF CommittedCertified
  <2>1. Cert(log, Servers(committed), LastTerm(committed))
    BY DEF RaftInv, CommitInv, CommittedCertified
  <2>2. log \in [Nodes -> Seq(Entry)] /\ log' \in [Nodes -> Seq(Entry)] /\ Grow(log, log')
    BY <1>1, ExtendGrow, Typed DEF RaftInv
  <2> QED
    BY <1>2, <2>1, <2>2, CertGrows
<1>5. AppliedCommitted'
  <2> SUFFICES ASSUME NEW n \in Nodes PROVE Same(log'[n], committed, applied[n])
    BY <1>1 DEF AppliedCommitted
  <2>1. Same(log[n], committed, applied[n])
    BY DEF RaftInv, CommitInv, AppliedCommitted
  <2> QED
    BY <1>1, <1>2, <2>1, ExtendSame
<1> QED
  BY <1>3, <1>4, <1>5

-----------------------------------------------------------------------------
(* Raft.Apply, AddVoter and RemoveServer on the leader.                     *)

LEMMA AppendExtends ==
  ASSUME RaftInv, NEW l \in Nodes, NEW r \in Requests, NEW S \in SUBSET Nodes,
         AppendEntry(l, r, S),
         opOf[r] \in {"add", "remove"} \/ S = Servers(log[l])
  PROVE  LET e == [term |-> term[l], req |-> r, servers |-> S]
         IN  /\ Extends(l, e)
             /\ Leading(l) /\ LastTerm(log[l]) = term[l]
             /\ UNCHANGED <<role, term, known, applied, committed>>
             /\ \A n \in Nodes : (Leading(n)' <=> Leading(n)) /\ LastTerm(log'[n]) = LastTerm(log[n])
<1> DEFINE e == [term |-> term[l], req |-> r, servers |-> S]
<1>1. /\ Leading(l) /\ Len(log[l]) < MaxLog
      /\ log' = [log EXCEPT ![l] = Append(@, e)]
      /\ UNCHANGED <<role, term, known, applied, committed>>
  BY DEF AppendEntry, Leading
<1>2. /\ known[l] = l /\ log[l] # <<>> /\ term[l] > 1 /\ LastTerm(log[l]) = term[l]
  BY <1>1 DEF RaftInv, LogInv, LeaderLog
<1>3. e \in Entry /\ e.term = term[l] /\ e.term > 1 /\ (IsChange(e) \/ e.servers = Servers(log[l]))
  <2>1. term[l] \in 1 .. MaxTerm
    BY <1>2, Typed DEF RaftInv, LogInv
  <2>2. r # None
    BY RaftClusterAssumption
  <2> QED
    BY <1>2, <2>1, <2>2 DEF Entry, IsChange
<1> HIDE DEF e
<1>4. \A n \in Nodes : Leading(n)' <=> Leading(n)
  BY <1>1 DEF Leading
<1>5. \A n \in Nodes : Leading(n) => known[n] = n /\ (n # l => term[n] # term[l])
  BY <1>1 DEF RaftInv, LogInv, LeaderLog, OneLeader
<1>6. \A n \in Nodes : term[n] >= term[n]
  BY Typed DEF RaftInv, LogInv
<1>7. Extends(l, e)
  <2>1. \A n \in Nodes : \A k \in DOMAIN log[n] :
          log[n][k].term = e.term => k \in DOMAIN log[l] /\ log[l][k] = log[n][k]
    BY <1>1, <1>3 DEF RaftInv, LogInv, LeaderHas
  <2>2. /\ term \in [Nodes -> 0 .. MaxTerm] /\ known \in [Nodes -> Nodes \cup {None}]
        /\ role \in [Nodes -> {"follower", "leader", "shutdown", "closed", "down"}]
    BY DEF RaftInv, LogInv, RaftType
  <2> QED
    BY <1>1, <1>2, <1>3, <1>4, <1>5, <1>6, <2>1, <2>2 DEF Extends
<1>8. \A n \in Nodes : LastTerm(log'[n]) = LastTerm(log[n])
  BY <1>2, <1>3, <1>7, ExtendFacts DEF RaftInv, LogInv
<1> QED
  BY <1>1, <1>2, <1>4, <1>7, <1>8 DEF e

LEMMA AppendCommon ==
  ASSUME RaftInv, NEW l \in Nodes, NEW e, Extends(l, e), LastTerm(log[l]) = e.term,
         UNCHANGED <<role, term, known>>,
         \A n \in Nodes : LastTerm(log'[n]) = LastTerm(log[n]),
         IsChange(e) => Cert(log, Servers(log[l]), e.term) /\ Leading(l)
  PROVE  /\ LogInv' /\ Elected' /\ ChangeCertified' /\ StableCertified'
         /\ LeaderHasCommitted' /\ CommittedSomewhere' /\ CommittedCertified'
         /\ AppliedCommitted' /\ LeaderHasApplied' /\ LaterHasSettled'
<1>1. /\ LogInv' /\ Elected' /\ ChangeCertified'
      /\ CommittedSomewhere' /\ CommittedCertified' /\ AppliedCommitted'
  BY ExtendLog, ExtendCerts, ExtendCommit DEF RaftInv
<1>2. /\ RaftType /\ applied' = applied /\ committed' = committed /\ role' = role /\ term' = term
      /\ \A n \in Nodes : Leading(n)' <=> Leading(n)
      /\ \A n \in Nodes : applied[n] \in Nat /\ applied[n] <= Len(log[n]) /\ term[n] \in Nat
                            /\ Len(log[n]) \in Nat
      /\ Len(committed) \in Nat
  BY Typed DEF Extends, RaftInv, LogInv, Leading
<1>3. /\ \A n \in Nodes :
           /\ n # l => log'[n] = log[n]
           /\ Len(log'[n]) = IF n = l THEN Len(log[n]) + 1 ELSE Len(log[n])
           /\ \A i \in 1 .. Len(log[n]) : log'[n][i] = log[n][i]
      /\ log'[l][Len(log[l]) + 1] = e /\ Servers(log'[l]) = e.servers
  BY <1>2, ExtendFacts
<1>4. StableCertified'
  <2> SUFFICES ASSUME NEW n \in Nodes, Leading(n), Stable(n)'
               PROVE  Cert(log', Servers(log'[n]), term[n])
    BY <1>2 DEF StableCertified
  <2>1. Stable(n) /\ Servers(log'[n]) = Servers(log[n])
    <3>1. applied[n] > 0 /\ log'[n][applied[n]].term = term[n]
          /\ \A i \in (applied[n] + 1) .. Len(log'[n]) : ~IsChange(log'[n][i])
      BY <1>2 DEF Stable
    <3>2. applied[n] \in 1 .. Len(log[n])
      BY <1>2, <3>1
    <3>3. \A i \in (applied[n] + 1) .. Len(log[n]) : ~IsChange(log[n][i])
      BY <1>2, <1>3, <3>1, <3>2
    <3>4. Stable(n)
      BY <1>3, <3>1, <3>2, <3>3 DEF Stable
    <3>5. CASE n = l
      <4>1. Len(log[l]) + 1 \in (applied[l] + 1) .. Len(log'[l])
        BY <1>2, <1>3
      <4>2. ~IsChange(e)
        BY <1>3, <3>1, <3>5, <4>1
      <4> QED
        BY <1>3, <3>4, <3>5, <4>2 DEF Extends
    <3> QED
      BY <1>3, <3>4, <3>5
  <2>2. Cert(log, Servers(log[n]), term[n])
    BY <2>1 DEF RaftInv, ConfigInv, StableCertified
  <2>3. log \in [Nodes -> Seq(Entry)] /\ log' \in [Nodes -> Seq(Entry)] /\ Grow(log, log')
    BY <1>2, ExtendGrow, Typed DEF RaftInv
  <2> QED
    BY <1>2, <2>1, <2>2, <2>3, CertGrows
<1>5. LeaderHasCommitted'
  <2> SUFFICES ASSUME NEW n \in Nodes, Leading(n), LastTerm(committed) <= term[n]
               PROVE  Same(committed, log'[n], Len(committed))
    BY <1>2 DEF LeaderHasCommitted
  <2>1. Same(committed, log[n], Len(committed))
    BY DEF RaftInv, CommitInv, LeaderHasCommitted
  <2> QED
    BY <1>2, <2>1, ExtendSame
<1>6. LeaderHasApplied'
  <2> SUFFICES ASSUME NEW m \in Nodes, NEW n \in Nodes, Leading(m), term[n] <= term[m]
               PROVE  Same(log'[n], log'[m], applied[n])
    BY <1>2 DEF LeaderHasApplied
  <2>1. Same(log[n], log[m], applied[n])
    BY DEF RaftInv, CommitInv, LeaderHasApplied
  <2> QED
    BY <1>2, <2>1, ExtendSame
<1>7. LaterHasSettled'
  <2> SUFFICES ASSUME NEW n \in Nodes, NEW m \in Nodes, Settled(n)', LastTerm(log'[m]) > term'[n]
               PROVE  Same(log'[n], log'[m], applied'[n])
    BY DEF LaterHasSettled
  <2>1. Leading(n) /\ applied[n] > 0 /\ log'[n][applied[n]].term = term[n]
    BY <1>2 DEF Settled
  <2>2. applied[n] \in 1 .. Len(log[n])
    BY <1>2, <2>1
  <2>3. Settled(n)
    BY <1>3, <2>1, <2>2 DEF Settled
  <2>4. Same(log[n], log[m], applied[n])
    BY <1>2, <2>3 DEF RaftInv, CommitInv, LaterHasSettled
  <2> QED
    BY <1>2, <2>4, ExtendSame
<1> QED
  BY <1>1, <1>4, <1>5, <1>6, <1>7

\* Other nodes are active after the step only if they were before.
LEMMA OthersActive ==
  ASSUME RaftInv, NEW l \in Nodes, NEW e, Extends(l, e),
         NEW n \in Nodes, n # l, Active(log', n)
  PROVE  Active(log, n) /\ log'[n] = log[n]
<1>1. log \in [Nodes -> Seq(Entry)] /\ log' \in [Nodes -> Seq(Entry)] /\ Grow(log, log')
  BY ExtendGrow, Typed DEF RaftInv, LogInv
<1>2. log'[n] = log[n]
  BY ExtendFacts DEF RaftInv, LogInv
<1> QED
  BY <1>1, <1>2, ActiveBack

LEMMA AppendWriteSafe ==
  ASSUME RaftInv, NEW l \in Nodes, NEW r \in Requests, opOf[r] \in Writes, AppendWrite(l, r)
  PROVE  RaftInv'
<1> DEFINE e == [term |-> term[l], req |-> r, servers |-> Servers(log[l])]
<1>1. /\ Extends(l, e) /\ Leading(l) /\ LastTerm(log[l]) = e.term
      /\ UNCHANGED <<role, term, known, applied, committed>>
      /\ \A n \in Nodes : LastTerm(log'[n]) = LastTerm(log[n])
  <2>1. Servers(log[l]) \in SUBSET Nodes
    BY Typed DEF RaftInv, LogInv
  <2> QED
    BY <2>1, AppendExtends DEF AppendWrite
<1>2. ~IsChange(e) /\ e.servers = Servers(log[l])
  BY DEF IsChange, Writes
<1> HIDE DEF e
<1>3. /\ LogInv' /\ Elected' /\ ChangeCertified' /\ StableCertified'
      /\ LeaderHasCommitted' /\ CommittedSomewhere' /\ CommittedCertified'
      /\ AppliedCommitted' /\ LeaderHasApplied' /\ LaterHasSettled'
  BY <1>1, <1>2, AppendCommon
<1>4. /\ \A n \in Nodes \ {l} : log'[n] = log[n]
      /\ Servers(log'[l]) = Servers(log[l])
  BY <1>1, <1>2, ExtendFacts DEF RaftInv, LogInv
<1>5. ASSUME Active(log', l) PROVE Active(log, l)
  <2>1. PICK Q \in SUBSET Nodes :
          Majority(Q, Servers(log[l])) /\ \A q \in Q : UpToDate(log'[l], log'[q])
    BY <1>4, <1>5 DEF Active
  <2>2. ASSUME NEW q \in Q PROVE UpToDate(log[l], log[q])
    <3>1. /\ LastTerm(log[q]) \in Nat /\ LastTerm(log[l]) \in Nat /\ LastTerm(log[l]) = term[l]
      BY <1>1, Typed DEF RaftInv, LogInv, LeaderLog
    <3>2. LastTerm(log[q]) <= term[l]
      BY <1>1, <2>1, <3>1 DEF UpToDate
    <3> QED
      BY <1>1, <3>2, NotNewer DEF RaftInv
  <2> QED
    BY <2>1, <2>2 DEF Active
<1>6. \A n \in Nodes : /\ Active(log', n) => Active(log, n)
                       /\ Servers(log'[n]) = Servers(log[n])
  BY <1>1, <1>4, <1>5, OthersActive
<1>7. ActiveOverlap' /\ ActiveInTerm'
  BY <1>1, <1>6 DEF RaftInv, ConfigInv, ActiveOverlap, ActiveInTerm
<1>8. ActiveHasCommitted'
  <2> SUFFICES ASSUME NEW n \in Nodes, Active(log', n)
               PROVE  Same(committed, log'[n], Len(committed))
    BY <1>1 DEF ActiveHasCommitted
  <2>1. Same(committed, log[n], Len(committed)) /\ Len(committed) \in Nat
    BY <1>6, Typed DEF RaftInv, LogInv, CommitInv, ActiveHasCommitted
  <2> QED
    BY <1>1, <2>1, ExtendSame DEF RaftInv, LogInv
<1> QED
  BY <1>3, <1>7, <1>8 DEF RaftInv, ConfigInv, CommitInv

(* A log that agrees with a stable leader's applied entries and goes on     *)
(* with another configuration shows that a majority of the leader's has     *)
(* left the term.                                                           *)
LEMMA OldConfigBlocked ==
  ASSUME RaftInv, NEW l \in Nodes, Leading(l), Stable(l),
         NEW m \in Nodes, Same(log[l], log[m], applied[l]),
         NEW j \in applied[l] .. Len(log[m]), log[m][j].servers # Servers(log[l])
  PROVE  \E t \in Nat : t > term[l] /\ Cert(log, Servers(log[l]), t)
<1> DEFINE a == applied[l]
<1>1. /\ \A n \in {l, m} : /\ log[n] \in Seq(Entry) /\ Len(log[n]) \in Nat
                           /\ DOMAIN log[n] = 1 .. Len(log[n])
      /\ term[l] \in Nat
  BY Typed DEF RaftInv, LogInv
<1>2. /\ a \in 1 .. Len(log[l]) /\ a \in 1 .. Len(log[m]) /\ log[l][a].term = term[l]
      /\ log[m][a] = log[l][a]
      /\ \A i \in (a + 1) .. Len(log[l]) : ~IsChange(log[l][i])
  <2>1. /\ a > 0 /\ log[l][a].term = term[l]
        /\ \A i \in (a + 1) .. Len(log[l]) : ~IsChange(log[l][i])
    BY DEF Stable
  <2>2. a \in Nat /\ a <= Len(log[l]) /\ a <= Len(log[m])
    BY Typed DEF Same, RaftInv, LogInv
  <2>3. \A i \in 1 .. a : log[l][i] = log[m][i]
    BY DEF Same
  <2> HIDE DEF a
  <2>4. a \in 1 .. Len(log[l]) /\ a \in 1 .. Len(log[m]) /\ a \in 1 .. a
    BY <1>1, <2>1, <2>2
  <2> QED
    BY <2>1, <2>3, <2>4
<1> HIDE DEF a
<1>3. \A n \in Nodes : \A i \in DOMAIN log[n] :
        i > 1 /\ ~IsChange(log[n][i]) => log[n][i].servers = log[n][i - 1].servers
  BY DEF RaftInv, LogInv, Inherited
<1>4. log[l][a].servers = Servers(log[l])
  <2>1. log[l][Len(log[l])].servers = Servers(log[l]) /\ Len(log[l]) \in a .. Len(log[l])
    BY <1>1, <1>2, EntrySeq
  <2>2. log[l][Len(log[l])].servers = log[l][a].servers
    BY <1>1, <1>2, <1>3, <2>1, FirstChange
  <2> QED
    BY <2>1, <2>2
<1>5. PICK i \in (a + 1) .. j : IsChange(log[m][i]) /\ log[m][i - 1].servers = log[m][a].servers
  <2>1. j \in a .. Len(log[m]) /\ log[m][j].servers # log[m][a].servers
    BY <1>2, <1>4 DEF a
  <2>2. \A h \in DOMAIN log[m] :
          h > 1 /\ ~IsChange(log[m][h]) => log[m][h].servers = log[m][h - 1].servers
    BY <1>3
  <2>3. a \in 1 .. Len(log[m]) /\ log[m] \in Seq(Entry)
    BY <1>1, <1>2
  <2> HIDE DEF a
  <2> QED
    BY <2>1, <2>2, <2>3, FirstChange
<1>6. i \in DOMAIN log[m] /\ i > 1 /\ a \in DOMAIN log[m] /\ a <= i /\ i \in Nat /\ i > a
  <2>1. j \in a .. Len(log[m])
    BY DEF a
  <2> QED
    BY <1>1, <1>2, <2>1
<1>7. Cert(log, Servers(log[l]), log[m][i].term)
  BY <1>2, <1>4, <1>5, <1>6 DEF RaftInv, ConfigInv, ChangeCertified
<1>8. log[m][i].term \in Nat /\ log[m][i].term >= term[l]
  <2>1. log[m][a].term <= log[m][i].term
    BY <1>6 DEF RaftInv, LogInv, Ordered
  <2>2. log[m][i].term \in Nat
    BY <1>1, <1>6, EntrySeq
  <2> QED
    BY <1>1, <1>2, <2>1, <2>2
<1>9. log[m][i].term # term[l]
  <2> SUFFICES ASSUME log[m][i].term = term[l] PROVE FALSE
    OBVIOUS
  <2>1. i \in DOMAIN log[l] /\ log[l][i] = log[m][i]
    BY <1>6 DEF RaftInv, LogInv, LeaderHas
  <2>2. i \in (a + 1) .. Len(log[l])
    BY <1>1, <1>2, <1>6, <2>1
  <2> QED
    BY <1>2, <1>5, <2>1, <2>2
<1> QED
  BY <1>1, <1>7, <1>8, <1>9

(* The first entry of a term that a log has.                                *)
LEMMA FirstOfTerm ==
  ASSUME LogInv, NEW m \in Nodes, NEW a \in DOMAIN log[m],
         log[m][a].term < LastTerm(log[m])
  PROVE  \E j \in DOMAIN log[m] :
           /\ j > a /\ j > 1 /\ log[m][j].term = LastTerm(log[m])
           /\ log[m][j - 1].term < log[m][j].term
<1> DEFINE T == {j \in DOMAIN log[m] : log[m][j].term = LastTerm(log[m])}
<1>1. /\ log[m] \in Seq(Entry) /\ Len(log[m]) \in Nat /\ DOMAIN log[m] = 1 .. Len(log[m])
      /\ LastTerm(log[m]) \in Nat
      /\ \A i \in 1 .. Len(log[m]) : log[m][i].term \in Nat /\ log[m][i].term <= LastTerm(log[m])
  BY Typed, LastTermBounds DEF LogInv
<1>2. Len(log[m]) \in T
  BY <1>1, EntrySeq
<1>3. PICK j \in T : \A i \in T : j <= i
  <2>1. T \in SUBSET Nat /\ T # {}
    BY <1>1, <1>2
  <2> HIDE DEF T
  <2> QED
    BY <2>1, MinExists
<1>4. j > a
  <2> SUFFICES ASSUME j <= a PROVE FALSE
    BY <1>1
  <2>1. log[m][j].term <= log[m][a].term
    BY DEF LogInv, Ordered
  <2> QED
    BY <1>1, <2>1
<1>5. j - 1 \in 1 .. Len(log[m]) /\ j - 1 \notin T
  <2>1. j - 1 \notin T
    BY <1>1, <1>3
  <2> QED
    BY <1>1, <1>4, <2>1
<1>6. log[m][j - 1].term < log[m][j].term
  BY <1>1, <1>5
<1> QED
  BY <1>1, <1>4, <1>6

LEMMA AppendChangeSafe ==
  ASSUME RaftInv, NEW l \in Nodes, NEW r \in Requests, opOf[r] \in {"add", "remove"},
         AppendChange(l, r)
  PROVE  RaftInv'
<1> DEFINE C == Servers(log[l])
           D == Changed(C, r)
           e == [term |-> term[l], req |-> r, servers |-> D]
<1>1. /\ C \in SUBSET Nodes /\ D \in SUBSET Nodes
      /\ D = C \/ \E x : D = C \cup {x} \/ D = C \ {x}
  <2>1. C \in SUBSET Nodes
    BY Typed DEF RaftInv, LogInv
  <2>2. subject[r] \in Nodes
    BY RaftClusterAssumption
  <2> QED
    BY <2>1, <2>2 DEF Changed
<1>2. /\ Extends(l, e) /\ Leading(l) /\ LastTerm(log[l]) = e.term
      /\ UNCHANGED <<role, term, known, applied, committed>>
      /\ \A n \in Nodes : LastTerm(log'[n]) = LastTerm(log[n])
  BY <1>1, AppendExtends DEF AppendChange
<1>3. e.servers = D /\ e.term = term[l]
  OBVIOUS
<1>4. Stable(l) /\ Cert(log, C, term[l])
  BY <1>2 DEF AppendChange, RaftInv, ConfigInv, StableCertified
<1> HIDE DEF e, D
<1>5. /\ LogInv' /\ Elected' /\ ChangeCertified' /\ StableCertified'
      /\ LeaderHasCommitted' /\ CommittedSomewhere' /\ CommittedCertified'
      /\ AppliedCommitted' /\ LeaderHasApplied' /\ LaterHasSettled'
  BY <1>2, <1>3, <1>4, AppendCommon
<1>6. \A n \in Nodes \ {l} : Active(log', n) => Active(log, n) /\ log'[n] = log[n]
  BY <1>2, OthersActive
<1>7. Servers(log'[l]) = D
  BY <1>2, <1>3, ExtendFacts DEF RaftInv, LogInv
<1>8. \A P, Q \in SUBSET Nodes : Majority(P, C) /\ Majority(Q, D) => P \cap Q # {}
  BY <1>1, MajoritiesMeet
<1>9. /\ term[l] \in Nat /\ log[l] \in Seq(Entry) /\ Len(log[l]) \in Nat
      /\ applied[l] \in 1 .. Len(log[l]) /\ log[l][applied[l]].term = term[l]
      /\ \A n \in Nodes : /\ log[n] \in Seq(Entry) /\ Len(log[n]) \in Nat
                          /\ DOMAIN log[n] = 1 .. Len(log[n])
                          /\ LastTerm(log[n]) \in Nat /\ term[n] \in Nat
      /\ committed \in Seq(Entry) /\ Len(committed) \in Nat /\ LastTerm(committed) \in Nat
  BY <1>4, Typed, EntrySeq DEF Stable, RaftInv, LogInv
\* The leader is active with the new configuration: no majority of the old
\* one has gone on to a later term.
<1>10. ASSUME Active(log', l), NEW t \in Nat, Cert(log, C, t) PROVE t <= term[l]
  <2>1. PICK Q \in SUBSET Nodes : Majority(Q, D) /\ \A q \in Q : UpToDate(log'[l], log'[q])
    BY <1>7, <1>10 DEF Active
  <2>2. PICK P \in SUBSET Nodes : Majority(P, C) /\ \A q \in P : LastTerm(log[q]) >= t
    BY <1>10 DEF Cert
  <2>3. PICK q \in P : q \in Q
    BY <1>8, <2>1, <2>2
  <2>4. LastTerm(log[q]) <= term[l] /\ LastTerm(log[q]) >= t /\ LastTerm(log[q]) \in Nat
    BY <1>2, <1>3, <1>9, <2>1, <2>2, <2>3 DEF UpToDate
  <2> QED
    BY <1>9, <2>4
<1>11. ASSUME Active(log', l), NEW m \in Nodes, Same(log[l], log[m], applied[l]),
              NEW j \in applied[l] .. Len(log[m])
       PROVE  log[m][j].servers = C
  <2> SUFFICES ASSUME log[m][j].servers # C PROVE FALSE
    OBVIOUS
  <2>1. PICK t \in Nat : t > term[l] /\ Cert(log, C, t)
    BY <1>2, <1>4, <1>11, OldConfigBlocked
  <2> QED
    BY <1>9, <1>10, <1>11, <2>1
<1>12. Same(log[l], committed, applied[l])
  BY DEF RaftInv, CommitInv, AppliedCommitted
<1>13. ActiveOverlap'
  <2>1. ASSUME NEW n \in Nodes, n # l, Active(log', n), Active(log', l)
        PROVE  Servers(log[n]) = C
    <3>1. Same(committed, log[n], Len(committed))
      BY <1>6, <2>1 DEF RaftInv, CommitInv, ActiveHasCommitted
    <3>2. Same(log[l], log[n], applied[l])
      BY <1>9, <1>12, <3>1 DEF Same
    <3>3. Len(log[n]) \in applied[l] .. Len(log[n]) /\ log[n] # <<>>
      BY <1>9, <3>2, EntrySeq DEF Same
    <3> QED
      BY <1>9, <1>11, <2>1, <3>2, <3>3, EntrySeq
  <2>2. ASSUME NEW m \in Nodes, NEW n \in Nodes, Active(log', m), Active(log', n)
        PROVE  Overlap(Servers(log'[m]), Servers(log'[n]))
    <3>1. CASE m = l /\ n = l
      BY <1>1, <1>7, <3>1, OverlapSelf
    <3>2. CASE m = l /\ n # l
      BY <1>6, <1>7, <1>8, <2>1, <2>2, <3>2 DEF Overlap
    <3>3. CASE m # l /\ n = l
      BY <1>6, <1>7, <1>8, <2>1, <2>2, <3>3 DEF Overlap
    <3>4. CASE m # l /\ n # l
      BY <1>6, <2>2, <3>4 DEF RaftInv, ConfigInv, ActiveOverlap
    <3> QED
      BY <3>1, <3>2, <3>3, <3>4
  <2> QED
    BY <2>2 DEF ActiveOverlap
<1>14. ActiveInTerm'
  <2> SUFFICES ASSUME NEW m \in Nodes, NEW n \in Nodes, Active(log', n), LastTerm(log[m]) > 1,
                      NEW Q \in SUBSET Nodes, Majority(Q, Servers(log'[n]))
               PROVE  \E q \in Q : term[q] >= LastTerm(log[m])
    BY <1>2 DEF ActiveInTerm
  <2>1. CASE n # l
    BY <1>6, <2>1 DEF RaftInv, ConfigInv, ActiveInTerm
  <2>2. CASE n = l
    <3>1. Voted(term, C, LastTerm(log[m]))
      <4>1. CASE LastTerm(log[m]) <= term[l]
        <5>1. PICK P \in SUBSET Nodes : Majority(P, C) /\ \A q \in P : LastTerm(log[q]) >= term[l]
          BY <1>4 DEF Cert
        <5>2. \A q \in P : LastTerm(log[q]) <= term[q]
          BY LastTermBounds DEF RaftInv, LogInv
        <5>3. \A q \in P : term[q] >= LastTerm(log[m])
          BY <1>9, <4>1, <5>1, <5>2
        <5> QED
          BY <5>1, <5>3 DEF Voted
      <4>2. CASE LastTerm(log[m]) > term[l]
        <5>1. Same(log[l], log[m], applied[l])
          BY <1>2, <1>4, <4>2 DEF Settled, Stable, RaftInv, CommitInv, LaterHasSettled
        <5>2. applied[l] \in DOMAIN log[m] /\ log[m][applied[l]].term < LastTerm(log[m])
          BY <1>9, <4>2, <5>1 DEF Same
        <5>3. PICK j \in DOMAIN log[m] :
                /\ j > applied[l] /\ j > 1 /\ log[m][j].term = LastTerm(log[m])
                /\ log[m][j - 1].term < log[m][j].term
          BY <5>2, FirstOfTerm DEF RaftInv
        <5>4. Voted(term, log[m][j].servers, LastTerm(log[m]))
          BY <5>3 DEF RaftInv, ConfigInv, Elected
        <5>5. j \in applied[l] .. Len(log[m])
          BY <1>9, <5>3
        <5>6. log[m][j].servers = C
          BY <1>11, <2>2, <5>1, <5>5
        <5> QED
          BY <5>4, <5>6
      <4> QED
        BY <1>9, <4>1, <4>2
    <3>2. PICK P \in SUBSET Nodes : Majority(P, C) /\ \A q \in P : term[q] >= LastTerm(log[m])
      BY <3>1 DEF Voted
    <3> QED
      BY <1>7, <1>8, <2>2, <3>2
  <2> QED
    BY <2>1, <2>2
<1>15. ActiveHasCommitted'
  <2> SUFFICES ASSUME NEW n \in Nodes, Active(log', n)
               PROVE  Same(committed, log'[n], Len(committed))
    BY <1>2 DEF ActiveHasCommitted
  <2>1. CASE n # l
    BY <1>6, <2>1 DEF RaftInv, CommitInv, ActiveHasCommitted
  <2>2. CASE n = l
    <3>1. LastTerm(committed) <= term[l]
      <4> SUFFICES ASSUME ~(LastTerm(committed) <= term[l]) PROVE FALSE
        OBVIOUS
      <4>1. PICK m \in Nodes : Same(committed, log[m], Len(committed))
        BY DEF RaftInv, CommitInv, CommittedSomewhere
      <4>2. Same(log[l], log[m], applied[l]) /\ Len(committed) \in applied[l] .. Len(log[m])
            /\ committed # <<>> /\ Len(committed) \in 1 .. Len(committed)
        BY <1>9, <1>12, <4>1, EntrySeq DEF Same
      <4>3. log[m][Len(committed)].servers = C
        BY <1>11, <2>2, <4>2
      <4>4. Servers(committed) = C
        BY <1>9, <4>1, <4>2, <4>3, EntrySeq DEF Same
      <4>5. Cert(log, C, LastTerm(committed))
        BY <4>2, <4>4 DEF RaftInv, CommitInv, CommittedCertified
      <4> QED
        BY <1>9, <1>10, <2>2, <4>5
    <3>2. Same(committed, log[l], Len(committed))
      BY <1>2, <3>1 DEF RaftInv, CommitInv, LeaderHasCommitted
    <3> QED
      BY <1>2, <1>9, <2>2, <3>2, ExtendSame DEF RaftInv, LogInv
  <2> QED
    BY <2>1, <2>2
<1> QED
  BY <1>5, <1>13, <1>14, <1>15 DEF RaftInv, ConfigInv, CommitInv

-----------------------------------------------------------------------------
(* An election.                                                             *)

(* The candidate is active, so its new term is later than that of every     *)
(* log, and its empty entry the first of the term.                          *)
LEMMA ElectFacts ==
  ASSUME RaftInv, NEW l \in Nodes, NEW Q \in SUBSET Nodes, Elect(l, Q)
  PROVE  \E t \in 1 .. MaxTerm :
           /\ Extends(l, [term |-> t, req |-> None, servers |-> Servers(log[l])])
           /\ Active(log, l) /\ Majority(Q, Servers(log[l]))
           /\ \A q \in Q : term'[q] = t
           /\ \A n \in Nodes : LastTerm(log[n]) < t /\ term'[n] >= term[n]
           /\ Leading(l)' /\ term'[l] = t
           /\ \A n \in Nodes \ {l} : Leading(n)' =>
                Leading(n) /\ term'[n] = term[n] /\ term[n] < t
<1>1. /\ l \in Q /\ l \in Servers(log[l]) /\ Majority(Q, Servers(log[l]))
      /\ \A q \in Q : known[q] = None /\ UpToDate(log[l], log[q])
      /\ Len(log[l]) < MaxLog
      /\ role' = [role EXCEPT ![l] = "leader"]
      /\ known' = [known EXCEPT ![l] = l]
      /\ UNCHANGED <<applied, committed>>
  BY DEF Elect
<1>2. PICK t \in 1 .. MaxTerm :
        /\ \A q \in Q : term[q] < t
        /\ term' = [q \in Nodes |-> IF q \in Q THEN t ELSE term[q]]
        /\ log' = [log EXCEPT ![l] = Append(@, [term |-> t, req |-> None,
                                               servers |-> Servers(@)])]
  BY DEF Elect
<1> DEFINE e == [term |-> t, req |-> None, servers |-> Servers(log[l])]
<1>3. /\ t \in Nat /\ log[l] \in Seq(Entry) /\ Servers(log[l]) \in SUBSET Nodes
      /\ \A n \in Nodes : term[n] \in 0 .. MaxTerm /\ LastTerm(log[n]) \in Nat
                          /\ log[n] \in Seq(Entry) /\ DOMAIN log[n] = 1 .. Len(log[n])
      /\ MaxTerm \in Nat
  BY Typed DEF RaftInv, LogInv
<1>4. log[l] # <<>>
  BY <1>1, <1>3, EntrySeq
<1>5. Active(log, l)
  BY <1>1 DEF Active
<1>6. t > 1
  <2>1. LastTerm(log[l]) >= 1
    <3>1. Len(log[l]) \in 1 .. Len(log[l]) /\ LastTerm(log[l]) = log[l][Len(log[l])].term
      BY <1>3, <1>4, EntrySeq
    <3>2. log[l][Len(log[l])].term \in Nat \ {0}
      BY <1>3, <3>1, EntrySeq
    <3> QED
      BY <3>1, <3>2
  <2>2. LastTerm(log[l]) <= term[l] /\ term[l] < t
    BY <1>1, <1>2, LastTermBounds DEF RaftInv, LogInv
  <2> QED
    BY <1>3, <2>1, <2>2
<1>7. ASSUME NEW n \in Nodes PROVE LastTerm(log[n]) < t
  <2>1. CASE LastTerm(log[n]) > 1
    <3>1. PICK q \in Q : term[q] >= LastTerm(log[n])
      BY <1>1, <1>5, <2>1 DEF RaftInv, ConfigInv, ActiveInTerm
    <3>2. term[q] < t /\ term[q] \in Nat
      BY <1>2, <1>3
    <3> QED
      BY <1>3, <3>1, <3>2
  <2> QED
    BY <1>3, <1>6, <2>1
<1>8. ASSUME NEW n \in Nodes, n # l, Leading(n)'
      PROVE  Leading(n) /\ term'[n] = term[n] /\ term[n] < t /\ known'[n] = n
  <2>1. Leading(n) /\ known'[n] = known[n]
    BY <1>1, <1>8 DEF Leading, RaftInv, LogInv, RaftType
  <2>2. known[n] = n /\ LastTerm(log[n]) = term[n]
    BY <2>1 DEF RaftInv, LogInv, LeaderLog
  <2>3. n \notin Q
    BY <1>1, <2>2, RaftClusterAssumption
  <2> QED
    BY <1>2, <1>7, <2>1, <2>2, <2>3
<1>9. Leading(l)' /\ term'[l] = t /\ known'[l] = l
  BY <1>1, <1>2 DEF Leading, RaftInv, LogInv, RaftType
<1>10. /\ term' \in [Nodes -> 0 .. MaxTerm] /\ \A q \in Q : term'[q] = t
       /\ \A n \in Nodes : term'[n] >= term[n]
  BY <1>2, <1>3
<1>11. Extends(l, e)
  <2>1. e \in Entry /\ e.term = t /\ e.servers = Servers(log[l])
    BY <1>3 DEF Entry
  <2>2. log' = [log EXCEPT ![l] = Append(@, e)]
    BY <1>2
  <2> HIDE DEF e
  <2>3. ASSUME NEW n \in Nodes, NEW k \in DOMAIN log[n] PROVE log[n][k].term # t
    <3>1. k \in 1 .. Len(log[n])
      BY <1>3
    <3>2. log[n][k].term <= LastTerm(log[n]) /\ log[n][k].term \in Nat
      BY <3>1, LastTermBounds DEF RaftInv, LogInv
    <3> QED
      BY <1>3, <1>7, <3>2
  <2>4. /\ role' \in [Nodes -> {"follower", "leader", "shutdown", "closed", "down"}]
        /\ known' \in [Nodes -> Nodes \cup {None}]
    BY <1>1 DEF RaftInv, LogInv, RaftType
  <2>5. \A n \in Nodes : Leading(n)' =>
          /\ known'[n] = n
          /\ n # l => Leading(n) /\ term'[n] = term[n] /\ term[n] # t
    BY <1>3, <1>8, <1>9
  <2> QED
    BY <1>1, <1>4, <1>6, <1>9, <1>10, <2>1, <2>2, <2>3, <2>4, <2>5 DEF Extends
<1> QED
  BY <1>1, <1>5, <1>7, <1>8, <1>9, <1>10, <1>11

LEMMA ElectSafe ==
  ASSUME RaftInv, NEW l \in Nodes, NEW Q \in SUBSET Nodes, Elect(l, Q)
  PROVE  RaftInv'
<1>1. PICK t \in 1 .. MaxTerm :
        /\ Extends(l, [term |-> t, req |-> None, servers |-> Servers(log[l])])
        /\ Active(log, l) /\ Majority(Q, Servers(log[l]))
        /\ \A q \in Q : term'[q] = t
        /\ \A n \in Nodes : LastTerm(log[n]) < t /\ term'[n] >= term[n]
        /\ Leading(l)' /\ term'[l] = t
        /\ \A n \in Nodes \ {l} : Leading(n)' =>
             Leading(n) /\ term'[n] = term[n] /\ term[n] < t
  BY ElectFacts
<1> DEFINE e == [term |-> t, req |-> None, servers |-> Servers(log[l])]
<1>2. Extends(l, e) /\ e.term = t /\ e.servers = Servers(log[l]) /\ ~IsChange(e)
  BY <1>1 DEF IsChange
<1> HIDE DEF e
<1>3. Voted(term', e.servers, e.term)
  <2>1. \A q \in Q : term'[q] >= t
    BY <1>1
  <2> QED
    BY <1>1, <1>2, <2>1 DEF Voted
<1>4. /\ LogInv' /\ Elected' /\ ChangeCertified'
      /\ CommittedSomewhere' /\ CommittedCertified' /\ AppliedCommitted'
  BY <1>2, <1>3, ExtendLog, ExtendCerts, ExtendCommit DEF RaftInv
<1>5. /\ applied' = applied /\ committed' = committed /\ t \in Nat
      /\ \A n \in Nodes : /\ applied[n] \in Nat /\ applied[n] <= Len(log[n])
                          /\ Len(log[n]) \in Nat /\ DOMAIN log[n] = 1 .. Len(log[n])
                          /\ term[n] \in Nat /\ LastTerm(log[n]) \in Nat
                          /\ term'[n] \in Nat
      /\ log \in [Nodes -> Seq(Entry)] /\ Len(committed) \in Nat
      /\ log' \in [Nodes -> Seq(Entry)] /\ Grow(log, log')
  <2>1. \A n \in Nodes : term'[n] \in Nat
    BY <1>4, RaftClusterAssumption DEF LogInv, RaftType
  <2>2. log' \in [Nodes -> Seq(Entry)] /\ Grow(log, log')
    BY <1>2, ExtendGrow DEF RaftInv
  <2> QED
    BY <1>2, <2>1, <2>2, Typed DEF Extends, RaftInv, LogInv
<1>6. /\ \A n \in Nodes :
           /\ n # l => log'[n] = log[n]
           /\ \A i \in 1 .. Len(log[n]) : log'[n][i] = log[n][i]
      /\ LastTerm(log'[l]) = t /\ Servers(log'[l]) = Servers(log[l])
  BY <1>2, ExtendFacts DEF RaftInv, LogInv
<1>7. \A n \in Nodes : /\ Active(log', n) => Active(log, n)
                       /\ Servers(log'[n]) = Servers(log[n])
  BY <1>1, <1>2, <1>6, OthersActive
<1>8. Same(committed, log[l], Len(committed))
  BY <1>1 DEF RaftInv, CommitInv, ActiveHasCommitted
\* Settled leaders are the old ones.
<1>9. ASSUME NEW n \in Nodes, applied[n] > 0, log'[n][applied[n]].term = term'[n], Leading(n)'
      PROVE  /\ n # l /\ Leading(n) /\ term'[n] = term[n] /\ term[n] < t
             /\ log[n][applied[n]].term = term[n] /\ log'[n] = log[n]
  <2>1. applied[n] \in 1 .. Len(log[n])
    BY <1>5, <1>9
  <2>2. log'[n][applied[n]].term < t
    <3>1. log[n][applied[n]].term \in Nat /\ log[n][applied[n]].term <= LastTerm(log[n])
      BY <2>1, LastTermBounds DEF RaftInv, LogInv
    <3> QED
      BY <1>1, <1>5, <1>6, <2>1, <3>1
  <2>3. n # l
    BY <1>1, <1>5, <1>9, <2>2
  <2> QED
    BY <1>1, <1>6, <1>9, <2>3
<1>10. ActiveOverlap'
  BY <1>7 DEF RaftInv, ConfigInv, ActiveOverlap
<1>11. ActiveInTerm'
  <2> SUFFICES ASSUME NEW m \in Nodes, NEW n \in Nodes, Active(log', n), LastTerm(log'[m]) > 1,
                      NEW P \in SUBSET Nodes, Majority(P, Servers(log'[n]))
               PROVE  \E q \in P : term'[q] >= LastTerm(log'[m])
    BY DEF ActiveInTerm
  <2>1. Active(log, n) /\ Majority(P, Servers(log[n]))
    BY <1>7
  <2>2. CASE m = l
    <3>1. PICK q \in P : q \in Q
      BY <1>1, <2>1 DEF RaftInv, ConfigInv, ActiveOverlap, Overlap
    <3>2. term'[q] >= t
      BY <1>1, <3>1
    <3> QED
      BY <1>6, <2>2, <3>2
  <2>3. CASE m # l
    <3>1. PICK q \in P : term[q] >= LastTerm(log[m])
      BY <1>6, <2>1, <2>3 DEF RaftInv, ConfigInv, ActiveInTerm
    <3>2. term[q] \in Nat /\ term'[q] \in Nat /\ LastTerm(log[m]) \in Nat
      BY <1>5
    <3>3. term'[q] >= term[q]
      BY <1>1, <1>5
    <3>4. LastTerm(log'[m]) = LastTerm(log[m])
      BY <1>6, <2>3
    <3> QED
      BY <3>1, <3>2, <3>3, <3>4
  <2> QED
    BY <2>2, <2>3
<1>12. StableCertified'
  <2> SUFFICES ASSUME NEW n \in Nodes, Leading(n)', Stable(n)'
               PROVE  Cert(log', Servers(log'[n]), term'[n])
    BY DEF StableCertified
  <2>1. applied[n] > 0 /\ log'[n][applied[n]].term = term'[n]
    BY <1>5 DEF Stable
  <2>2. Leading(n) /\ term'[n] = term[n] /\ log'[n] = log[n]
    BY <1>9, <2>1
  <2>3. Stable(n)
    BY <1>5, <2>2 DEF Stable
  <2>4. Cert(log, Servers(log[n]), term[n])
    BY <2>2, <2>3 DEF RaftInv, ConfigInv, StableCertified
  <2> QED
    BY <1>5, <2>2, <2>4, CertGrows
<1>13. ActiveHasCommitted'
  <2> SUFFICES ASSUME NEW n \in Nodes, Active(log', n)
               PROVE  Same(committed, log'[n], Len(committed))
    BY <1>5 DEF ActiveHasCommitted
  <2>1. Same(committed, log[n], Len(committed))
    BY <1>7 DEF RaftInv, CommitInv, ActiveHasCommitted
  <2> QED
    BY <1>2, <1>5, <2>1, ExtendSame DEF RaftInv, LogInv
<1>14. LeaderHasCommitted'
  <2> SUFFICES ASSUME NEW n \in Nodes, Leading(n)', LastTerm(committed) <= term'[n]
               PROVE  Same(committed, log'[n], Len(committed))
    BY <1>5 DEF LeaderHasCommitted
  <2>1. Same(committed, log[n], Len(committed))
    <3>1. CASE n = l
      BY <1>8, <3>1
    <3>2. CASE n # l
      BY <1>1, <3>2 DEF RaftInv, CommitInv, LeaderHasCommitted
    <3> QED
      BY <3>1, <3>2
  <2> QED
    BY <1>2, <1>5, <2>1, ExtendSame DEF RaftInv, LogInv
\* What a node has applied, the new leader has too.
<1>15. ASSUME NEW n \in Nodes PROVE Same(log[n], log[l], applied[n])
  <2>1. Same(log[n], committed, applied[n])
    BY DEF RaftInv, CommitInv, AppliedCommitted
  <2> QED
    BY <1>5, <1>8, <2>1 DEF Same
<1>16. LeaderHasApplied'
  <2> SUFFICES ASSUME NEW m \in Nodes, NEW n \in Nodes, Leading(m)', term'[n] <= term'[m]
               PROVE  Same(log'[n], log'[m], applied[n])
    BY <1>5 DEF LeaderHasApplied
  <2>1. Same(log[n], log[m], applied[n])
    <3>1. CASE m = l
      BY <1>15, <3>1
    <3>2. CASE m # l
      <4>1. Leading(m) /\ term[n] <= term[m]
        BY <1>1, <1>5, <3>2
      <4> QED
        BY <4>1 DEF RaftInv, CommitInv, LeaderHasApplied
    <3> QED
      BY <3>1, <3>2
  <2> QED
    BY <1>2, <1>5, <2>1, ExtendSame DEF RaftInv, LogInv
<1>17. LaterHasSettled'
  <2> SUFFICES ASSUME NEW n \in Nodes, NEW m \in Nodes, Settled(n)', LastTerm(log'[m]) > term'[n]
               PROVE  Same(log'[n], log'[m], applied[n])
    BY <1>5 DEF LaterHasSettled
  <2>1. /\ Leading(n) /\ term'[n] = term[n] /\ applied[n] > 0
        /\ log[n][applied[n]].term = term[n]
    BY <1>5, <1>9 DEF Settled
  <2>2. Same(log[n], log[m], applied[n])
    <3>1. CASE m = l
      BY <1>15, <3>1
    <3>2. CASE m # l
      BY <1>6, <2>1, <3>2 DEF Settled, RaftInv, CommitInv, LaterHasSettled
    <3> QED
      BY <3>1, <3>2
  <2> QED
    BY <1>2, <1>5, <2>2, ExtendSame DEF RaftInv, LogInv
<1> QED
  BY <1>4, <1>10, <1>11, <1>12, <1>13, <1>14, <1>16, <1>17 DEF RaftInv, ConfigInv, CommitInv

-----------------------------------------------------------------------------
(* The start of a node, and the first of all.                               *)

LEMMA InitSafe ==
  ASSUME RaftInit PROVE RaftInv
<1>1. /\ RaftType
      /\ \A n \in Nodes : log[n] = <<>> /\ applied[n] = 0 /\ ~Leading(n)
      /\ committed = <<>>
  <2>1. <<>> \in Seq(Entry) /\ Len(<<>>) = 0
    BY EmptySeq
  <2> QED
    BY <2>1, RaftClusterAssumption DEF RaftInit, RaftType, Leading
<1>2. /\ Len(<<>>) = 0 /\ DOMAIN <<>> = {} /\ LastTerm(<<>>) = 0 /\ Servers(<<>>) = {}
      /\ <<>> \in Seq(Entry)
  <2>1. <<>> \in Seq(Entry) /\ Len(<<>>) = 0
    BY EmptySeq
  <2>2. DOMAIN <<>> = 1 .. 0
    BY <2>1, LenProperties
  <2> QED
    BY <2>1, <2>2 DEF LastTerm, Servers
<1>3. \A n \in Nodes : ~Active(log, n)
  <2> SUFFICES ASSUME NEW n \in Nodes, NEW Q \in SUBSET Nodes, Majority(Q, {}) PROVE FALSE
    BY <1>1, <1>2 DEF Active
  <2>1. Q \cap {} = {} /\ Cardinality({}) = 0
    BY FS_EmptySet
  <2> QED
    BY <2>1 DEF Majority
<1>4. LogInv
  BY <1>1, <1>2 DEF LogInv, Ordered, Bootstrapped, Inherited, LeaderLog, OneLeader, LeaderHas,
                    Matching
<1>5. ConfigInv
  BY <1>1, <1>2, <1>3 DEF ConfigInv, ActiveOverlap, ActiveInTerm, Elected, ChangeCertified,
                          StableCertified
<1>6. \A k \in {0} : Same(<<>>, <<>>, k)
  BY <1>2 DEF Same
<1>7. CommitInv
  <2>1. \E n \in Nodes : TRUE
    BY RaftClusterAssumption
  <2> QED
    BY <1>1, <1>2, <1>3, <1>6, <2>1 DEF CommitInv, ActiveHasCommitted, LeaderHasCommitted,
       CommittedSomewhere, CommittedCertified, AppliedCommitted, LeaderHasApplied,
       LaterHasSettled, Settled
<1> QED
  BY <1>4, <1>5, <1>7 DEF RaftInv

LEMMA Singleton ==
  ASSUME NEW s \in Seq(Entry), Len(s) = 1
  PROVE  /\ DOMAIN s = 1 .. 1 /\ s # <<>>
         /\ LastTerm(s) = s[1].term /\ Servers(s) = s[1].servers
<1>1. DOMAIN s = 1 .. 1 /\ s # <<>>
  BY EntrySeq
<1> QED
  BY <1>1 DEF LastTerm, Servers, Last

(* The bootstrap finds every log empty, and leaves one log of one entry.    *)
LEMMA BootstrapSafe ==
  ASSUME RaftInv, NEW n \in Nodes, Start(n), n = FirstNode, log[n] = <<>>, term[n] = 0
  PROVE  RaftInv'
<1> DEFINE b == <<Bootstrap>>
<1>1. /\ role' = [role EXCEPT ![n] = "follower"] /\ log' = [log EXCEPT ![n] = b]
      /\ term' = [term EXCEPT ![n] = 1] /\ UNCHANGED <<known, applied, committed>>
  BY DEF Start, Bootstrap
<1>2. /\ b \in Seq(Entry) /\ Len(b) = 1 /\ DOMAIN b = 1 .. 1 /\ b # <<>> /\ b[1] = Bootstrap
      /\ LastTerm(b) = 1 /\ Servers(b) = peers
  <2>1. Bootstrap \in Entry
    BY RaftClusterAssumption DEF Bootstrap, Entry
  <2>2. b \in Seq(Entry) /\ Len(b) = 1 /\ b[1] = Bootstrap
    BY <2>1
  <2> HIDE DEF b
  <2>3. DOMAIN b = 1 .. 1 /\ b # <<>> /\ LastTerm(b) = b[1].term /\ Servers(b) = b[1].servers
    BY <2>2, Singleton
  <2> QED
    BY <2>2, <2>3 DEF Bootstrap
<1> HIDE DEF b
<1>3. \A m \in Nodes : log[m] = <<>> /\ applied[m] = 0 /\ ~Leading(m)
  <2>1. \A m \in Nodes : log[m] = <<>>
    BY DEF RaftInv, LogInv, Bootstrapped
  <2>2. \A m \in Nodes : applied[m] = 0
    BY <2>1, Typed, EmptySeq DEF RaftInv, LogInv
  <2> QED
    BY <2>1, <2>2 DEF RaftInv, LogInv, LeaderLog
<1>4. committed = <<>>
  <2>1. PICK m \in Nodes : Same(committed, log[m], Len(committed))
    BY DEF RaftInv, CommitInv, CommittedSomewhere
  <2>2. Len(committed) <= 0 /\ Len(committed) \in Nat /\ committed \in Seq(Entry)
    BY <1>3, <2>1, Typed, EmptySeq DEF Same, RaftInv, LogInv
  <2> QED
    BY <2>2, EntrySeq
<1>5. /\ Len(<<>>) = 0 /\ DOMAIN <<>> = {} /\ LastTerm(<<>>) = 0 /\ Servers(<<>>) = {}
      /\ <<>> \in Seq(Entry)
  <2>1. <<>> \in Seq(Entry) /\ Len(<<>>) = 0
    BY EmptySeq
  <2>2. DOMAIN <<>> = 1 .. 0
    BY <2>1, LenProperties
  <2> QED
    BY <2>1, <2>2 DEF LastTerm, Servers
<1>6. \A m \in Nodes : /\ log'[m] = IF m = n THEN b ELSE <<>>
                       /\ applied'[m] = 0 /\ ~Leading(m)'
  BY <1>1, <1>3 DEF Leading, RaftInv, LogInv, RaftType
<1>7. RaftType'
  <2>1. /\ role' \in [Nodes -> {"follower", "leader", "shutdown", "closed", "down"}]
        /\ term' \in [Nodes -> 0 .. MaxTerm] /\ log' \in [Nodes -> Seq(Entry)]
    BY <1>1, <1>2, RaftClusterAssumption DEF RaftInv, LogInv, RaftType
  <2>2. \A m \in Nodes : Len(log'[m]) <= MaxLog /\ applied'[m] <= Len(log'[m])
    <3>1. 0 <= MaxLog /\ 1 <= MaxLog
      BY RaftClusterAssumption
    <3>2. ASSUME NEW m \in Nodes PROVE Len(log'[m]) <= MaxLog /\ applied'[m] <= Len(log'[m])
      <4>1. Len(log'[m]) = 0 \/ Len(log'[m]) = 1
        BY <1>2, <1>5, <1>6
      <4>2. applied'[m] = 0
        BY <1>6
      <4>3. Len(log'[m]) <= MaxLog
        BY <3>1, <4>1
      <4>4. applied'[m] <= Len(log'[m])
        BY <4>1, <4>2
      <4> QED
        BY <4>3, <4>4
    <3> QED
      BY <3>2
  <2> QED
    BY <1>1, <2>1, <2>2 DEF RaftInv, LogInv, RaftType
<1>8. \A m \in Nodes : Active(log', m) => m = n
  <2> SUFFICES ASSUME NEW m \in Nodes, m # n, NEW Q \in SUBSET Nodes, Majority(Q, {})
               PROVE  FALSE
    BY <1>5, <1>6 DEF Active
  <2>1. Q \cap {} = {} /\ Cardinality({}) = 0
    BY FS_EmptySet
  <2> QED
    BY <2>1 DEF Majority
<1>9. LogInv'
  <2>1. Ordered'
    <3>1. term'[n] = 1 /\ Bootstrap.term = 1
      BY <1>1 DEF Bootstrap, RaftInv, LogInv, RaftType
    <3> QED
      BY <1>2, <1>5, <1>6, <3>1 DEF Ordered
  <2>2. Bootstrapped' /\ Inherited'
    BY <1>2, <1>5, <1>6 DEF Bootstrapped, Inherited
  <2>3. LeaderLog' /\ OneLeader' /\ LeaderHas'
    BY <1>6 DEF LeaderLog, OneLeader, LeaderHas
  <2>4. Matching'
    BY <1>2, <1>5, <1>6 DEF Matching, Same
  <2> QED
    BY <1>7, <2>1, <2>2, <2>3, <2>4 DEF LogInv
<1>10. ConfigInv'
  <2>1. ActiveOverlap'
    <3>1. Overlap(peers, peers)
      BY RaftClusterAssumption, OverlapSelf
    <3> QED
      BY <1>2, <1>6, <1>8, <3>1 DEF ActiveOverlap
  <2>2. ActiveInTerm'
    <3>1. \A m \in Nodes : ~(LastTerm(log'[m]) > 1)
      BY <1>2, <1>5, <1>6
    <3> QED
      BY <3>1 DEF ActiveInTerm
  <2>3. Elected' /\ ChangeCertified'
    <3>1. \A m \in Nodes : \A i \in DOMAIN log'[m] : ~(i > 1)
      BY <1>2, <1>5, <1>6
    <3> QED
      BY <3>1 DEF Elected, ChangeCertified
  <2>4. StableCertified'
    BY <1>6 DEF StableCertified
  <2> QED
    BY <2>1, <2>2, <2>3, <2>4 DEF ConfigInv
<1>11. CommitInv'
  <2>1. committed' = <<>>
    BY <1>1, <1>4
  <2>2. \A m \in Nodes : Same(<<>>, log'[m], 0) /\ Same(log'[m], <<>>, 0)
    BY <1>2, <1>5, <1>6 DEF Same
  <2>3. ActiveHasCommitted' /\ LeaderHasCommitted' /\ CommittedSomewhere'
    BY <1>5, <2>1, <2>2 DEF ActiveHasCommitted, LeaderHasCommitted, CommittedSomewhere
  <2>4. CommittedCertified' /\ AppliedCommitted'
    BY <1>6, <2>1, <2>2 DEF CommittedCertified, AppliedCommitted
  <2>5. LeaderHasApplied' /\ LaterHasSettled'
    BY <1>6 DEF LeaderHasApplied, LaterHasSettled, Settled
  <2> QED
    BY <2>3, <2>4, <2>5 DEF CommitInv
<1> QED
  BY <1>9, <1>10, <1>11 DEF RaftInv

LEMMA StartSafe ==
  ASSUME RaftInv, NEW n \in Nodes, Start(n)
  PROVE  RaftInv'
<1>1. CASE n = FirstNode /\ log[n] = <<>> /\ term[n] = 0
  BY <1>1, BootstrapSafe
<1>2. CASE ~(n = FirstNode /\ log[n] = <<>> /\ term[n] = 0)
  <2>1. /\ UNCHANGED <<log, term, known, applied, committed>>
        /\ role' = [role EXCEPT ![n] = "follower"]
    BY <1>2 DEF Start
  <2>2. RaftType'
    BY <2>1 DEF RaftInv, LogInv, RaftType
  <2>3. \A m \in Nodes : Leading(m)' =>
          Leading(m) /\ known'[m] = known[m] /\ applied'[m] = applied[m]
    BY <2>1 DEF Leading, RaftInv, LogInv, RaftType
  <2>4. \A m \in Nodes : applied'[m] <= applied[m]
    BY <2>1, Typed DEF RaftInv, LogInv
  <2> QED
    BY <2>1, <2>2, <2>3, <2>4, Quiet
<1> QED
  BY <1>1, <1>2
=============================================================================
