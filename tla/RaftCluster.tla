---------------------------- MODULE RaftCluster ----------------------------
(***************************************************************************)
(* The Raft cluster under HooDB, as internal/raft/raft.go sees it: the     *)
(* library github.com/hashicorp/raft is external and appears by what it    *)
(* does to its callers.  An election, a round of AppendEntries and the     *)
(* advance of a commit index are one step each; messages that are lost or  *)
(* late are steps that do not happen.  Snapshots, and what a replay leaves *)
(* in each key, are the subject of the module Replica; here a node has     *)
(* none, so that after a restart its whole log is applied again, over the  *)
(* store of the run before.                                                *)
(*                                                                         *)
(* An entry carries at most one request (a batch of writes is one entry,   *)
(* as WriteBatcher shows) and the configuration in force from it on.       *)
(***************************************************************************)
EXTENDS Naturals, Sequences, FiniteSets, SequencesExt

CONSTANTS
  Nodes,
  None,          \* no node, no request
  FirstNode,     \* the node whose nodeId is node1
  peers,         \* its configuration file's peers; the other nodes' are not read
  noSync,        \* the noSync field of the configurations: "unset", "true", "false"
  Requests,      \* the HTTP requests
  opOf,          \* the operation of each: see Operations
  subject,       \* the node an "add" or a "remove" is about
  MaxTerm,       \* bound on the terms
  MaxLog,        \* bound on the length of a log
  MaxCrashes     \* bound on the crashes and stops

Writes     == {"put", "batch", "delete"}
Operations == Writes \cup {"add", "remove"}

ASSUME RaftClusterAssumption ==
  /\ None \notin Nodes \cup Requests
  /\ FirstNode \in peers /\ peers \subseteq Nodes
  /\ noSync \in {"unset", "true", "false"}
  /\ opOf \in [Requests -> Operations]
  /\ subject \in [Requests -> Nodes]
  /\ IsFiniteSet(Nodes)
  /\ {MaxTerm, MaxLog} \subseteq Nat \ {0} /\ MaxCrashes \in Nat

VARIABLES
  role,       \* "follower" (candidates too), "leader", "shutdown", "closed", "down"
  term,       \* current term of each node
  log,        \* log of each node
  known,      \* the leader each node believes in (LeaderWithID), or None
  applied,    \* entries each running node has applied to its state machine
  stored,     \* the entries each node's Pebble store has been given, in order,
              \* those of its earlier runs first
  at,         \* the node that serves each request, or None
  future,     \* the future of the request's last proposal
  crashes,    \* number of crashes and stops so far
  committed   \* history: the longest log any leader has committed

nodeVars == <<role, term, log, known, applied, stored>>
raftVars == <<nodeVars, at, future, crashes, committed>>

Entry == [term : 1 .. MaxTerm, req : Requests \cup {None}, servers : SUBSET Nodes]

RaftTypeOK ==
  /\ role \in [Nodes -> {"follower", "leader", "shutdown", "closed", "down"}]
  /\ term \in [Nodes -> 0 .. MaxTerm]
  /\ log \in [Nodes -> Seq(Entry)]
  /\ applied \in [Nodes -> 0 .. MaxLog]
  /\ \A n \in Nodes : applied[n] <= Len(log[n]) /\ Len(log[n]) <= MaxLog
  /\ stored \in [Nodes -> Seq(Entry)]
  /\ known \in [Nodes -> Nodes \cup {None}]
  /\ at \in [Requests -> Nodes \cup {None}]
  /\ future \in [Requests -> {"none", "pending", "nil", "lost"}]
  /\ crashes \in 0 .. MaxCrashes
  /\ committed \in Seq(Entry)

-----------------------------------------------------------------------------
Alive(n) == role[n] \in {"follower", "leader"}

Servers(l)  == IF l = <<>> THEN {} ELSE Last(l).servers
LastTerm(l) == IF l = <<>> THEN 0 ELSE Last(l).term

UpToDate(l, m) ==
  \/ LastTerm(l) > LastTerm(m)
  \/ LastTerm(l) = LastTerm(m) /\ Len(l) >= Len(m)

Majority(Q, S) == 2 * Cardinality(Q \cap S) > Cardinality(S)

\* The entries that FSM.Apply is called for, and those it is not.
IsWrite(e)  == e.req # None /\ opOf[e.req] \in Writes
IsChange(e) == e.req # None /\ opOf[e.req] \in {"add", "remove"}

\* The futures of a leader that stops leading end with "leadership lost".
LostAt(n, f) == [r \in Requests |-> IF at[r] = n /\ f[r] = "pending" THEN "lost" ELSE f[r]]

RaftInit ==
  /\ role = [n \in Nodes |-> "down"]
  /\ term = [n \in Nodes |-> 0]
  /\ log = [n \in Nodes |-> <<>>]
  /\ known = [n \in Nodes |-> None]
  /\ applied = [n \in Nodes |-> 0]
  /\ stored = [n \in Nodes |-> <<>>]
  /\ at = [r \in Requests |-> None]
  /\ future = [r \in Requests |-> "none"]
  /\ crashes = 0
  /\ committed = <<>>

-----------------------------------------------------------------------------
(* Start and crash.                                                         *)

\* Mutant: the field is ignored.
GetNoSyncAlways == TRUE

\* Config.GetNoSync: the default is to skip fsync.
GetNoSync == noSync # "false"

(* NewKVService on a data directory: the node that is node1 bootstraps the  *)
(* cluster; BootstrapCluster refuses when Raft has state, and the error is  *)
(* only logged.                                                             *)
Start(n) ==
  /\ role[n] = "down"
  /\ role' = [role EXCEPT ![n] = "follower"]
  /\ IF n = FirstNode /\ log[n] = <<>> /\ term[n] = 0
     THEN /\ log' = [log EXCEPT ![n] = <<[term |-> 1, req |-> None, servers |-> peers]>>]
          /\ term' = [term EXCEPT ![n] = 1]
     ELSE UNCHANGED <<log, term>>
  /\ UNCHANGED <<known, applied, stored, at, future, crashes, committed>>

(* KVService.Close: Raft shuts down while the HTTP server goes on; a node   *)
(* that has shut down by itself is closed in the same way.  Exit ends the   *)
(* process.                                                                 *)
Close(n) ==
  /\ role[n] \notin {"closed", "down"}
  /\ crashes < MaxCrashes
  /\ role' = [role EXCEPT ![n] = "closed"]
  /\ known' = [known EXCEPT ![n] = None]
  /\ future' = LostAt(n, future)
  /\ crashes' = crashes + 1
  /\ UNCHANGED <<term, log, applied, stored, at, committed>>

\* The requests a process serves end with it.
Abandon(n) ==
  /\ at' = [r \in Requests |-> IF at[r] = n THEN None ELSE at[r]]
  /\ future' = [r \in Requests |-> IF at[r] = n THEN "none" ELSE future[r]]

(* The process ends.  Pebble was closed with what it had, and NewKVService  *)
(* will open it again; Raft will begin to apply its log from the first      *)
(* entry.                                                                   *)
ExitRaft(n) ==
  /\ role[n] = "closed"
  /\ role' = [role EXCEPT ![n] = "down"]
  /\ applied' = [applied EXCEPT ![n] = 0]
  /\ Abandon(n)
  /\ UNCHANGED <<term, log, known, stored, crashes, committed>>

(* The machine stops.  What BoltDB has not synced may be lost: the node     *)
(* comes back with the first k entries of its log and a term t it has had.  *)
(* Pebble is never synced: it comes back with the first of its writes, none *)
(* or all of them, and Raft applies the log to it again from its first      *)
(* entry.                                                                   *)
CrashRaft(n, k, t) ==
  /\ role[n] \notin {"closed", "down"}
  /\ crashes < MaxCrashes
  /\ ~GetNoSync => k = Len(log[n]) /\ t = term[n]
  /\ k \in 0 .. Len(log[n]) /\ t \in LastTerm(SubSeq(log[n], 1, k)) .. term[n]
  /\ role' = [role EXCEPT ![n] = "down"]
  /\ log' = [log EXCEPT ![n] = SubSeq(@, 1, k)]
  /\ term' = [term EXCEPT ![n] = t]
  /\ known' = [known EXCEPT ![n] = None]
  /\ applied' = [applied EXCEPT ![n] = 0]
  /\ \E j \in {0} \cup {i \in DOMAIN stored[n] : IsWrite(stored[n][i])} :
       stored' = [stored EXCEPT ![n] = SubSeq(@, 1, j)]
  /\ Abandon(n)
  /\ crashes' = crashes + 1
  /\ UNCHANGED committed

-----------------------------------------------------------------------------
(* Leadership.                                                              *)

(* A node without a leader collects the votes of Q.  A voter has no leader  *)
(* either, has the candidate in its configuration and no better log.  The   *)
(* new leader begins with an empty entry of its term.                       *)
Elect(n, Q) ==
  /\ role[n] = "follower" /\ n \in Q
  /\ n \in Servers(log[n]) /\ Q \subseteq Servers(log[n])
  /\ Majority(Q, Servers(log[n]))
  /\ \A q \in Q :
       /\ Alive(q) /\ known[q] = None
       /\ log[q] # <<>> => n \in Servers(log[q])
       /\ UpToDate(log[n], log[q])
  /\ Len(log[n]) < MaxLog
  /\ \E t \in 1 .. MaxTerm :
       /\ \A q \in Q : term[q] < t
       /\ \E q \in Q : term[q] = t - 1
       /\ term' = [q \in Nodes |-> IF q \in Q THEN t ELSE term[q]]
       /\ log' = [log EXCEPT ![n] = Append(@, [term |-> t, req |-> None,
                                               servers |-> Servers(@)])]
  /\ role' = [role EXCEPT ![n] = "leader"]
  /\ known' = [known EXCEPT ![n] = n]
  /\ UNCHANGED <<applied, stored, at, future, crashes, committed>>

\* A leader without contact to a majority gives up when its lease ends.
StepDown(n) ==
  /\ role[n] = "leader"
  /\ role' = [role EXCEPT ![n] = "follower"]
  /\ known' = [known EXCEPT ![n] = None]
  /\ future' = LostAt(n, future)
  /\ UNCHANGED <<term, log, applied, stored, at, crashes, committed>>

\* A follower hears no heartbeat for HeartbeatTimeout.
LoseLeader(n) ==
  /\ role[n] = "follower" /\ known[n] # None
  /\ known' = [known EXCEPT ![n] = None]
  /\ UNCHANGED <<role, term, log, applied, stored, at, future, crashes, committed>>

-----------------------------------------------------------------------------
(* Replication.                                                             *)

\* Node n applies the entries of l up to index k that it has not applied yet.
ApplyTo(n, l, k) ==
  /\ applied' = [applied EXCEPT ![n] = IF k > @ THEN k ELSE @]
  /\ stored' = [stored EXCEPT ![n] = @ \o SubSeq(l, applied[n] + 1, k)]

(* One AppendEntries that succeeds: f takes the leader's log, term and      *)
(* commit index, and follows.                                               *)
Replicate(l, f) ==
  /\ role[l] = "leader" /\ f \in Servers(log[l]) \ {l}
  /\ Alive(f) /\ term[f] <= term[l]
  /\ role' = [role EXCEPT ![f] = "follower"]
  /\ term' = [term EXCEPT ![f] = term[l]]
  /\ log' = [log EXCEPT ![f] = log[l]]
  /\ known' = [known EXCEPT ![f] = l]
  /\ ApplyTo(f, log[l], applied[l])
  /\ nodeVars' # nodeVars
  /\ future' = LostAt(f, future)
  /\ UNCHANGED <<at, crashes, committed>>

(* A majority has acknowledged the first k entries, the last of them of this *)
(* term: the leader commits and applies them and answers their futures.  A   *)
(* node acknowledges to the leader whose term it is in; an acknowledgement   *)
(* the leader would see only after the node went on to a later term is late. *)
(* A leader that has committed its own removal shuts down                    *)
(* (ShutdownOnRemove).                                                       *)
Acknowledged(l, k) ==
  {n \in Nodes : term[n] = term[l] /\ Len(log[n]) >= k /\ log[n][k] = log[l][k]}

Commit(l, k) ==
  /\ role[l] = "leader"
  /\ k \in (applied[l] + 1) .. Len(log[l])
  /\ log[l][k].term = term[l]
  /\ Majority(Acknowledged(l, k), Servers(log[l]))
  /\ ApplyTo(l, log[l], k)
  /\ LET prefix == SubSeq(log[l], 1, k)
         done   == {prefix[i].req : i \in {j \in 1 .. k : prefix[j].term = term[l]}}
         answered == [r \in Requests |->
                        IF at[r] = l /\ future[r] = "pending" /\ r \in done
                        THEN "nil" ELSE future[r]]
         removed == l \notin Servers(prefix)
     IN  /\ committed' = IF IsPrefix(prefix, committed) THEN committed ELSE prefix
         /\ future' = IF removed THEN LostAt(l, answered) ELSE answered
         /\ role' = [role EXCEPT ![l] = IF removed THEN "shutdown" ELSE @]
         /\ known' = [known EXCEPT ![l] = IF removed THEN None ELSE @]
  /\ UNCHANGED <<term, log, at, crashes>>

AppendEntry(l, r, S) ==
  /\ role[l] = "leader"
  /\ Len(log[l]) < MaxLog
  /\ log' = [log EXCEPT ![l] = Append(@, [term |-> term[l], req |-> r, servers |-> S])]
  /\ future' = [future EXCEPT ![r] = "pending"]
  /\ UNCHANGED <<role, term, known, applied, stored, crashes, committed>>

\* Raft.Apply on the leader.
AppendWrite(l, r) == AppendEntry(l, r, Servers(log[l]))

\* AddVoter and RemoveServer compute the new configuration from the latest.
Changed(S, r) == IF opOf[r] = "add" THEN S \cup {subject[r]} ELSE S \ {subject[r]}

(* A leader takes a change when it has committed an entry of its term and   *)
(* no earlier change is under way.                                          *)
Stable(l) ==
  /\ applied[l] > 0 /\ log[l][applied[l]].term = term[l]
  /\ \A i \in (applied[l] + 1) .. Len(log[l]) : ~IsChange(log[l][i])

AppendChange(l, r) ==
  /\ Stable(l)
  /\ Changed(Servers(log[l]), r) # {}
  /\ AppendEntry(l, r, Changed(Servers(log[l]), r))
=============================================================================
