--------------------------- MODULE Replica_proof ---------------------------
(***************************************************************************)
(* Proofs about Replica, for any keys, values and commands, any length of  *)
(* the log, any retention and any batch size of Restore.                   *)
(***************************************************************************)
EXTENDS Replica, SequenceTheorems, Extrema

-----------------------------------------------------------------------------
(* Commands and the reference state.                                        *)

LEMMA CommandType ==
  ASSUME NEW c \in Commands
  PROVE  /\ Touched(c) \in SUBSET Keys
         /\ \A k \in Touched(c) : Written(c, k) \in Values \cup {NoValue}
<1>1. CASE c.op = "set" /\ c.key \in Keys /\ c.value \in Values
  BY <1>1 DEF Touched, Written
<1>2. CASE /\ c.op = "batch_set"
           /\ c.batch \in UNION {[S -> Values] : S \in SUBSET Keys}
  <2>1. PICK S \in SUBSET Keys : c.batch \in [S -> Values]
    BY <1>2
  <2>2. Touched(c) = S /\ \A k \in S : Written(c, k) = c.batch[k]
    BY <1>2, <2>1 DEF Touched, Written
  <2> QED
    BY <2>1, <2>2
<1>3. CASE c.op = "delete" /\ c.key \in Keys
  BY <1>3 DEF Touched, Written
<1>4. CASE c.op = "unknown"
  BY <1>4 DEF Touched
<1> QED
  BY <1>1, <1>2, <1>3, <1>4, ReplicaAssumption

LEMMA EffectType ==
  ASSUME NEW c \in Commands, NEW s \in Contents
  PROVE  Effect(c, s) \in Contents
BY CommandType DEF Effect, Contents

(* A key the first n entries touch has a last entry among them that does.   *)
LEMMA LastTouchProperties ==
  ASSUME log \in Seq(Commands), NEW n \in 0 .. Len(log), NEW k \in TouchedBy(n)
  PROVE  /\ LastTouch(n, k) \in 1 .. n
         /\ k \in Touched(log[LastTouch(n, k)])
         /\ \A j \in 1 .. n : k \in Touched(log[j]) => j <= LastTouch(n, k)
<1> DEFINE T == {i \in 1 .. n : k \in Touched(log[i])}
<1>1. n \in Nat /\ T \in SUBSET (0 .. n) /\ T # {}
  BY DEF TouchedBy
<1>2. \E i \in 1 .. n : /\ k \in Touched(log[i])
                        /\ \A j \in 1 .. n : k \in Touched(log[j]) => j <= i
  <2>1. PICK i \in T : \A j \in T : j <= i
    <3> HIDE DEF T
    <3> QED BY <1>1, MaxExists
  <2> QED
    BY <2>1
<1> QED
  BY <1>2 DEF LastTouch

LEMMA StateAtType ==
  ASSUME log \in Seq(Commands), NEW n \in 0 .. Len(log)
  PROVE  StateAt(n) \in Contents
<1>1. ASSUME NEW k \in TouchedBy(n)
      PROVE  Written(log[LastTouch(n, k)], k) \in Values \cup {NoValue}
  <2>1. log[LastTouch(n, k)] \in Commands
    BY LastTouchProperties, ElementOfSeq
  <2> QED
    BY <2>1, LastTouchProperties, CommandType
<1> QED
  BY <1>1 DEF StateAt, Contents

LEMMA TouchedByMonotonic ==
  ASSUME NEW m \in Nat, NEW n \in 0 .. m
  PROVE  TouchedBy(n) \subseteq TouchedBy(m)
BY DEF TouchedBy

LEMMA NothingTouchedYet == TouchedBy(0) = {} /\ StateAt(0) = Empty
<1>1. TouchedBy(0) = {}
  BY DEF TouchedBy
<1> QED
  BY <1>1 DEF StateAt, Empty

(* One more entry: what it touches has what it writes, the rest is as it    *)
(* was.                                                                     *)
LEMMA StateAtNext ==
  ASSUME log \in Seq(Commands), NEW n \in 0 .. (Len(log) - 1)
  PROVE  /\ TouchedBy(n + 1) = TouchedBy(n) \cup Touched(log[n + 1])
         /\ StateAt(n + 1) = Effect(log[n + 1], StateAt(n))
<1>0. /\ n \in 0 .. Len(log) /\ n + 1 \in 0 .. Len(log) /\ n + 1 \in 1 .. Len(log)
      /\ Len(log) \in Nat
  BY LenProperties
<1>1. log[n + 1] \in Commands
  BY <1>0, ElementOfSeq
<1>2. Touched(log[n + 1]) \subseteq Keys
  BY <1>1, CommandType
<1>3. 1 .. (n + 1) = (1 .. n) \cup {n + 1}
  BY <1>0
<1>4. TouchedBy(n + 1) = TouchedBy(n) \cup Touched(log[n + 1])
  BY <1>2, <1>3 DEF TouchedBy
<1>5. ASSUME NEW k \in Touched(log[n + 1])
      PROVE  LastTouch(n + 1, k) = n + 1
  <2>1. k \in TouchedBy(n + 1)
    BY <1>4
  <2>2. /\ LastTouch(n + 1, k) \in 1 .. (n + 1)
        /\ \A j \in 1 .. (n + 1) : k \in Touched(log[j]) => j <= LastTouch(n + 1, k)
    BY <1>0, <2>1, LastTouchProperties
  <2> QED
    BY <1>0, <1>5, <2>2
<1>6. ASSUME NEW k \in TouchedBy(n), k \notin Touched(log[n + 1])
      PROVE  LastTouch(n + 1, k) = LastTouch(n, k)
  <2>1. k \in TouchedBy(n + 1)
    BY <1>4
  <2>2. /\ LastTouch(n + 1, k) \in 1 .. (n + 1)
        /\ k \in Touched(log[LastTouch(n + 1, k)])
        /\ \A j \in 1 .. (n + 1) : k \in Touched(log[j]) => j <= LastTouch(n + 1, k)
    BY <1>0, <2>1, LastTouchProperties
  <2>3. /\ LastTouch(n, k) \in 1 .. n
        /\ k \in Touched(log[LastTouch(n, k)])
        /\ \A j \in 1 .. n : k \in Touched(log[j]) => j <= LastTouch(n, k)
    BY <1>0, LastTouchProperties
  <2>4. LastTouch(n + 1, k) # n + 1
    BY <1>6, <2>2
  <2> QED
    BY <1>0, <2>2, <2>3, <2>4
<1>7. ASSUME NEW k \in Keys
      PROVE  StateAt(n + 1)[k] = Effect(log[n + 1], StateAt(n))[k]
  <2>1. CASE k \in Touched(log[n + 1])
    BY <1>4, <1>5, <2>1 DEF StateAt, Effect
  <2>2. CASE k \notin Touched(log[n + 1]) /\ k \in TouchedBy(n)
    BY <1>4, <1>6, <2>2 DEF StateAt, Effect
  <2>3. CASE k \notin Touched(log[n + 1]) /\ k \notin TouchedBy(n)
    BY <1>4, <2>3 DEF StateAt, Effect
  <2> QED
    BY <2>1, <2>2, <2>3
<1>8. StateAt(n + 1) = Effect(log[n + 1], StateAt(n))
  BY <1>7 DEF StateAt, Effect
<1> QED
  BY <1>4, <1>8

(* The entries committed later change nothing in what the first n did.      *)
LEMMA CommitStable ==
  ASSUME log \in Seq(Commands), NEW c \in Commands, log' = Append(log, c),
         NEW n \in 0 .. Len(log)
  PROVE  TouchedBy(n)' = TouchedBy(n) /\ StateAt(n)' = StateAt(n)
<1>1. \A i \in 1 .. n : log'[i] = log[i]
  BY AppendProperties
<1>2. TouchedBy(n)' = TouchedBy(n)
  BY <1>1 DEF TouchedBy
<1>3. \A k \in Keys : LastTouch(n, k)' = LastTouch(n, k)
  BY <1>1 DEF LastTouch
<1>4. \A k \in TouchedBy(n) : LastTouch(n, k) \in 1 .. n
  BY LastTouchProperties
<1>5. \A k \in TouchedBy(n) : k \in Keys
  BY DEF TouchedBy
<1> QED
  BY <1>1, <1>2, <1>3, <1>4, <1>5 DEF StateAt

(* Consistent is about the entries seen, so seeing more does not disturb    *)
(* it, applying the next one keeps it, and once nothing beyond the prefix   *)
(* has been seen it is equality with the reference state.                   *)
LEMMA ConsistentEffect ==
  ASSUME log \in Seq(Commands), NEW s \in Contents,
         NEW m \in 0 .. Len(log), NEW n \in 0 .. m, n < Len(log), Consistent(s, n, m)
  PROVE  Consistent(Effect(log[n + 1], s), n + 1, MaxOf(m, n + 1))
<1> DEFINE c == log[n + 1]
           q == MaxOf(m, n + 1)
<1>0. Len(log) \in Nat /\ n \in 0 .. (Len(log) - 1) /\ n + 1 \in 1 .. Len(log)
  BY LenProperties
<1>1. /\ TouchedBy(n + 1) = TouchedBy(n) \cup Touched(c)
      /\ StateAt(n + 1) = Effect(c, StateAt(n))
  BY <1>0, StateAtNext
<1>2. TouchedBy(n + 1) \subseteq TouchedBy(q) /\ TouchedBy(m) \subseteq TouchedBy(q)
  <2>1. q \in Nat /\ n + 1 \in 0 .. q /\ m \in 0 .. q
    BY <1>0 DEF MaxOf
  <2> QED
    BY <2>1, TouchedByMonotonic
<1>3. ASSUME NEW k \in Keys
      PROVE  /\ k \in TouchedBy(n + 1) => Effect(c, s)[k] = StateAt(n + 1)[k]
             /\ k \notin TouchedBy(q) => Effect(c, s)[k] = NoValue
  <2>1. CASE k \in Touched(c)
    BY <1>1, <1>2, <2>1 DEF Effect
  <2>2. CASE k \notin Touched(c)
    BY <1>1, <1>2, <2>2 DEF Effect, Consistent
  <2> QED
    BY <2>1, <2>2
<1> QED
  BY <1>3 DEF Consistent

LEMMA ConsistentIsState ==
  ASSUME NEW s \in Contents, NEW n \in Nat, NEW m \in 0 .. n, Consistent(s, n, m)
  PROVE  s = StateAt(n)
<1>1. TouchedBy(m) \subseteq TouchedBy(n)
  BY TouchedByMonotonic
<1>2. \A k \in Keys : s[k] = StateAt(n)[k]
  BY <1>1 DEF Consistent, StateAt
<1> QED
  BY <1>2 DEF Contents, StateAt

LEMMA LiveKeysEffect ==
  ASSUME log \in Seq(Commands), NEW s \in Contents,
         NEW n \in 0 .. (Len(log) - 1), LiveKeysRight(s, n)
  PROVE  LiveKeysRight(Effect(log[n + 1], s), n + 1)
<1>1. StateAt(n + 1) = Effect(log[n + 1], StateAt(n))
  BY StateAtNext
<1> QED
  BY <1>1 DEF LiveKeysRight, Effect

-----------------------------------------------------------------------------
(* The snapshot store.                                                      *)

Distinct(S) == \A s, t \in S : s.index = t.index => s = t

LEMMA NewestProperties ==
  ASSUME NEW S \in SUBSET Snapshots, S # {}, NEW n \in Nat, \A s \in S : s.index <= n
  PROVE  Newest(S) \in S /\ \A t \in S : t.index <= Newest(S).index
<1> DEFINE T == {s.index : s \in S}
<1>1. \A s \in S : s.index \in Nat
  BY DEF Snapshots
<1>2. T \in SUBSET (0 .. n) /\ T # {}
  BY <1>1
<1>3. PICK i \in T : \A j \in T : j <= i
  <2> HIDE DEF T
  <2> QED BY <1>2, MaxExists
<1>4. \E s \in S : \A t \in S : t.index <= s.index
  BY <1>3
<1> QED
  BY <1>4 DEF Newest

(* Reaping old snapshots keeps the newest one.                              *)
LEMMA RetainedNewest ==
  ASSUME NEW S \in SUBSET Snapshots, S # {}, NEW n \in Nat, \A s \in S : s.index <= n
  PROVE  /\ Retained(S) \in SUBSET Snapshots /\ Retained(S) # {}
         /\ Newest(Retained(S)).index = Newest(S).index
<1>0. \A s \in S : s.index \in Nat
  BY DEF Snapshots
<1>1. Newest(S) \in S /\ \A t \in S : t.index <= Newest(S).index
  BY NewestProperties
<1> DEFINE Newer(s) == {t \in S : t.index > s.index}
<1>2. Newer(Newest(S)) = {}
  BY <1>0, <1>1
<1>3. Newest(S) \in Retained(S)
  <2>1. Cardinality({}) = 0
    BY FS_EmptySet
  <2>2. Cardinality(Newer(Newest(S))) < Retain
    <3> HIDE DEF Newer
    <3> QED BY <1>2, <2>1, ReplicaAssumption
  <2> QED
    BY <1>1, <2>2 DEF Retained
<1>4. Retained(S) \subseteq S
  BY DEF Retained
<1>5. /\ Newest(Retained(S)) \in Retained(S)
      /\ \A t \in Retained(S) : t.index <= Newest(Retained(S)).index
  BY <1>3, <1>4, NewestProperties
<1>6. Newest(Retained(S)).index = Newest(S).index
  BY <1>0, <1>1, <1>3, <1>4, <1>5
<1> QED
  BY <1>3, <1>4, <1>6

(* No more than Retain snapshots are kept.                                  *)
LEMMA RetainedFew ==
  ASSUME NEW S \in SUBSET Snapshots, IsFiniteSet(S), Distinct(S)
  PROVE  IsFiniteSet(Retained(S)) /\ Cardinality(Retained(S)) <= Retain
<1> DEFINE R == Retained(S)
           T == {s.index : s \in R}
           Newer(s) == {t \in S : t.index > s.index}
<1>0. \A s \in S : s.index \in Nat
  BY DEF Snapshots
<1>1. R \subseteq S /\ IsFiniteSet(R)
  <2>1. R \subseteq S
    BY DEF Retained
  <2> QED
    BY <2>1, FS_Subset
<1>2. CASE R = {}
  BY <1>1, <1>2, FS_EmptySet, ReplicaAssumption
<1>3. CASE R # {}
  <2>1. T \in SUBSET Nat /\ T # {}
    BY <1>0, <1>1, <1>3
  <2>2. PICK i \in T : \A j \in T : i <= j
    <3> HIDE DEF T
    <3> QED BY <2>1, MinExists
  <2>3. PICK s \in R : s.index = i
    OBVIOUS
  <2>4. R \ {s} \subseteq Newer(s)
    <3> SUFFICES ASSUME NEW t \in R, t # s PROVE t.index > s.index
      BY <1>1
    <3>1. t.index \in Nat /\ s.index \in Nat /\ t.index # s.index
      BY <1>0, <1>1 DEF Distinct
    <3>2. s.index <= t.index
      BY <2>2, <2>3
    <3> QED
      BY <3>1, <3>2
  <2>5. IsFiniteSet(Newer(s)) /\ Cardinality(Newer(s)) < Retain
    <3>1. Newer(s) \subseteq S
      OBVIOUS
    <3> QED
      BY <3>1, <2>3, FS_Subset DEF Retained
  <2>6. /\ Cardinality(R \ {s}) <= Cardinality(Newer(s))
        /\ Cardinality(R \ {s}) = Cardinality(R) - 1
    <3> HIDE DEF R, Newer
    <3> QED BY <1>1, <2>3, <2>4, <2>5, FS_Subset, FS_RemoveElement
  <2>7. Cardinality(R) \in Nat /\ Cardinality(Newer(s)) \in Nat
    <3> HIDE DEF R, Newer
    <3> QED BY <1>1, <2>5, FS_CardinalityType
  <2>8. Cardinality(R) <= Retain
    <3> HIDE DEF R, Newer
    <3> QED BY <2>5, <2>6, <2>7, ReplicaAssumption
  <2> QED
    BY <1>1, <2>8
<1> QED
  BY <1>1, <1>2, <1>3

-----------------------------------------------------------------------------
LEMMA FaultsFixed == [Next]_vars => faults' = faults
BY DEF Next, RestoreStep, vars, raftVars, Commit, Receive, ApplyEntry, Flush,
       TakeSnapshot, PersistDone, PersistFails, FinalizeFails, InstallSnapshot,
       RestoreClear, RestoreBatch, RestoreDone, RestoreClearFails, InstallFails,
       StartupRestoreFails, Crash, Start

-----------------------------------------------------------------------------
(* Type correctness.                                                        *)

(* The snapshots that exist: stored, being written, being restored.         *)
Held ==
  snaps \cup (IF persist = None THEN {} ELSE {persist.snap})
        \cup (IF restore = None THEN {} ELSE {restore.snap})

(* What TypeOK rests on.  Stored snapshots have distinct indices, and the   *)
(* one being written has none of theirs: this is why reaping by index keeps *)
(* Retain of them.  No snapshot is ahead of the committed log.  Raft starts *)
(* to replay from nothing until a snapshot is restored.                     *)
SnapInv ==
  /\ IsFiniteSet(snaps) /\ Distinct(snaps)
  /\ \A s \in Held : s.index <= s.mark /\ s.mark <= Len(log)
  /\ persist # None => /\ persist.snap.index <= received
                       /\ \A s \in snaps : s.index # persist.snap.index
  /\ applied <= mark
  /\ mode = "down" => applied = 0
  /\ restore # None => /\ applied <= restore.snap.index
                       /\ restore.phase = "fill" => restore.snap.mark <= mark
  /\ restore # None /\ restore.startup => applied = 0

TypeInv == TypeOK /\ SnapInv

Persists == [phase : {"write"}, snap : Snapshots]

Restores == [phase : {"clear", "fill"}, snap : Snapshots, todo : SUBSET Keys,
             startup : BOOLEAN]

LEMMA TypeInit == Init => TypeInv
<1> SUFFICES ASSUME Init PROVE TypeInv
  OBVIOUS
<1>1. /\ <<>> \in Seq(Commands) /\ Len(<<>>) = 0
      /\ IsFiniteSet({}) /\ Cardinality({}) = 0
  BY EmptySeq, FS_EmptySet
<1>2. Empty \in Contents
  BY DEF Empty, Contents
<1>3. TypeOK
  BY <1>1, <1>2, ReplicaAssumption DEF Init, TypeOK
<1>4. SnapInv
  BY <1>1 DEF Init, SnapInv, Held, Distinct
<1> QED
  BY <1>3, <1>4 DEF TypeInv

LEMMA RestoringType ==
  ASSUME NEW s \in Snapshots, NEW b \in BOOLEAN
  PROVE  /\ Restoring(s, b) \in Restores /\ Restoring(s, b) # None
         /\ Restoring(s, b).snap = s /\ Restoring(s, b).startup = b
         /\ Restoring(s, b).phase = "clear"
BY DEF Restoring, Restores, None

LEMMA RestoreUpdate ==
  ASSUME TypeOK, restore # None
  PROVE  /\ restore \in Restores
         /\ LET r == [restore EXCEPT !.phase = "fill"]
            IN  /\ r \in Restores /\ r # None /\ r.phase = "fill"
                /\ r.snap = restore.snap /\ r.startup = restore.startup
                /\ r.todo = restore.todo
         /\ \A S \in SUBSET Keys :
              LET r == [restore EXCEPT !.todo = @ \ S]
              IN  /\ r \in Restores /\ r # None /\ r.phase = restore.phase
                  /\ r.snap = restore.snap /\ r.startup = restore.startup
                  /\ r.todo = restore.todo \ S
<1>1. restore \in Restores
  BY DEF TypeOK, Restores
<1> QED
  BY <1>1 DEF Restores, None

LEMMA HeldType ==
  ASSUME TypeOK
  PROVE  Held \in SUBSET Snapshots
BY DEF TypeOK, Held

LEMMA HeldBelow ==
  ASSUME TypeInv
  PROVE  \A s \in Held : s.index <= Len(log)
<1>1. Len(log) \in Nat /\ Held \in SUBSET Snapshots
  BY HeldType, LenProperties DEF TypeInv, TypeOK
<1> QED
  BY <1>1 DEF TypeInv, SnapInv, Snapshots

(* Storing a snapshot with a new index, or the stored one again.            *)
LEMMA StoreSnapshot ==
  ASSUME TypeInv, NEW s \in Snapshots, \A t \in snaps : t.index = s.index => t = s
  PROVE  /\ Retained(snaps \cup {s}) \in SUBSET Snapshots
         /\ Retained(snaps \cup {s}) \subseteq snaps \cup {s}
         /\ IsFiniteSet(Retained(snaps \cup {s}))
         /\ Cardinality(Retained(snaps \cup {s})) <= Retain
         /\ Distinct(Retained(snaps \cup {s}))
<1> DEFINE S == snaps \cup {s}
<1>1. S \in SUBSET Snapshots /\ Distinct(S)
  BY DEF TypeInv, TypeOK, SnapInv, Distinct
<1>2. IsFiniteSet(S)
  BY FS_AddElement DEF TypeInv, SnapInv
<1> HIDE DEF S
<1>3. Retained(S) \subseteq S
  BY DEF Retained
<1>4. IsFiniteSet(Retained(S)) /\ Cardinality(Retained(S)) <= Retain
  BY <1>1, <1>2, RetainedFew
<1>5. Retained(S) \in SUBSET Snapshots /\ Distinct(Retained(S))
  BY <1>1, <1>3 DEF Distinct
<1> QED
  BY <1>3, <1>4, <1>5 DEF S

(* The snapshot the leader sends has the effect of the n entries up to its  *)
(* index, and of entries up to m on other keys only.                        *)
LeaderSnapshot(n, m) ==
  [index |-> n, mark |-> m,
   data  |-> [k \in Keys |-> IF k \in TouchedBy(n) THEN StateAt(n)[k] ELSE StateAt(m)[k]]]

Installs(s, n, m) ==
  /\ s = LeaderSnapshot(n, m) /\ s.index = n /\ s.mark = m
  /\ n \in 0 .. m /\ m \in 0 .. Len(log) /\ received < n
  /\ \A t \in snaps : t.index = n => t = s
  /\ snaps' = Retained(snaps \cup {s})
  /\ restore' = Restoring(s, FALSE) /\ mode' = "restoring"
  /\ UNCHANGED <<raftVars, applied, pebbleVars, persist>>

LEMMA InstallType ==
  ASSUME TypeOK, NEW n \in Nat, NEW m \in Nat, InstallSnapshot(n, m)
  PROVE  \E s \in Snapshots : Installs(s, n, m)
<1> DEFINE s == LeaderSnapshot(n, m)
<1>1. /\ n \in (received + 1) .. Len(log) /\ m \in n .. Len(log) /\ mode = "up"
      /\ \A t \in snaps : t.index = n => t = s
      /\ snaps' = Retained(snaps \cup {s})
      /\ restore' = Restoring(s, FALSE) /\ mode' = "restoring"
      /\ UNCHANGED <<raftVars, applied, pebbleVars, persist>>
  BY DEF InstallSnapshot, LeaderSnapshot
<1>2. /\ received \in Nat /\ Len(log) \in Nat /\ received < n
      /\ n \in 0 .. m /\ n \in 0 .. Len(log) /\ m \in 0 .. Len(log)
  BY <1>1, LenProperties DEF TypeOK
<1>3. StateAt(n) \in Contents /\ StateAt(m) \in Contents
  BY <1>2, StateAtType DEF TypeOK
<1>4. s \in Snapshots /\ s.index = n /\ s.mark = m
  BY <1>3 DEF LeaderSnapshot, Snapshots, Contents
<1>5. s \in Snapshots /\ Installs(s, n, m)
  BY <1>1, <1>2, <1>4 DEF Installs
<1> QED
  BY <1>5

(* A start restores a stored snapshot, and a failed one an older stored one *)
(* or nothing.                                                              *)
LEMMA Restarting ==
  ASSUME TypeInv, StartupRestoreFails \/ Start
  PROVE  \/ restore' = None
         \/ \E s \in snaps : restore' = Restoring(s, TRUE)
<1>1. /\ snaps \subseteq Held /\ Held \in SUBSET Snapshots /\ Len(log) \in Nat
      /\ \A s \in Held : s.index <= Len(log)
  BY HeldType, HeldBelow, LenProperties DEF Held, TypeInv, TypeOK
<1>2. CASE StartupRestoreFails
  <2> DEFINE older == {s \in snaps : s.index < restore.snap.index}
  <2>1. CASE older # {} /\ restore' = Restoring(Newest(older), TRUE)
    <3>1. Newest(older) \in older
      BY <1>1, <2>1, NewestProperties
    <3> QED
      BY <2>1, <3>1
  <2> QED
    BY <1>2, <2>1 DEF StartupRestoreFails
<1>3. CASE Start
  <2>1. restore = None
    BY <1>3 DEF Start, TypeInv, TypeOK
  <2>2. CASE snaps # {} /\ restore' = Restoring(Newest(snaps), TRUE)
    <3>1. Newest(snaps) \in snaps
      BY <1>1, <2>2, NewestProperties
    <3> QED
      BY <2>2, <3>1
  <2> QED
    BY <1>3, <2>1, <2>2 DEF Start
<1> QED
  BY <1>2, <1>3

LEMMA Compaction ==
  ASSUME TypeOK, NEW n \in Nat, CompactTo(n)
  PROVE  /\ compacted' \in 0 .. received
         /\ compacted' = compacted \/ compacted' <= n
BY ReplicaAssumption DEF TypeOK, CompactTo, MaxOf

LEMMA TypeNext == TypeInv /\ [Next]_vars => TypeInv'
<1> SUFFICES ASSUME TypeInv, [Next]_vars PROVE TypeInv'
  OBVIOUS
<1> USE DEF TypeInv
<1>a. TypeOK /\ SnapInv
  OBVIOUS
<1>b. Held \in SUBSET Snapshots
  BY HeldType
<1>c. Len(log) \in Nat
  BY LenProperties DEF TypeOK
<1>1. ASSUME NEW c \in Commands, Commit(c) PROVE TypeInv'
  <2>1. log' \in Seq(Commands) /\ Len(log') = Len(log) + 1
    BY <1>1, AppendProperties DEF Commit, TypeOK
  <2>2. TypeOK'
    BY <1>1, <1>c, <2>1 DEF Commit, TypeOK, pebbleVars
  <2>3. SnapInv'
    BY <1>1, <1>b, <1>c, <2>1 DEF Commit, SnapInv, Held, Snapshots, Distinct, pebbleVars
  <2> QED
    BY <2>2, <2>3
<1>2. CASE Receive
  <2>1. TypeOK'
    BY <1>2, <1>c DEF Receive, TypeOK, pebbleVars
  <2>2. SnapInv'
    BY <1>2, <1>b DEF Receive, SnapInv, Held, Distinct, pebbleVars, TypeOK, Persists, Snapshots
  <2> QED
    BY <2>1, <2>2
<1>3. CASE ApplyEntry
  <2>1. applied + 1 \in 1 .. Len(log)
    BY <1>3, <1>c DEF ApplyEntry, TypeOK
  <2>2. store' \in Contents
    BY <1>3, <2>1, EffectType, ElementOfSeq DEF ApplyEntry, TypeOK
  <2>3. TypeOK'
    BY <1>3, <1>c, <2>1, <2>2 DEF ApplyEntry, TypeOK, raftVars, MaxOf
  <2>4. SnapInv'
    BY <1>3, <1>c DEF ApplyEntry, SnapInv, Held, Distinct, TypeOK, raftVars, MaxOf
  <2> QED
    BY <2>3, <2>4
<1>4. CASE Flush
  <2>1. TypeOK'
    BY <1>4 DEF Flush, TypeOK, raftVars
  <2>2. SnapInv'
    BY <1>4 DEF Flush, SnapInv, Held, Distinct, raftVars
  <2> QED
    BY <2>1, <2>2
<1>5. CASE TakeSnapshot
  <2> DEFINE s == [index |-> applied, data |-> store, mark |-> mark]
  <2>1. s \in Snapshots
    BY <1>5, <1>c DEF TypeOK, Snapshots
  <2>2. persist' \in Persists /\ persist' # None /\ persist'.snap = s
    BY <1>5, <2>1 DEF TakeSnapshot, Persists, None
  <2>3. TypeOK'
    BY <1>5, <2>2 DEF TakeSnapshot, TypeOK, raftVars, pebbleVars, Persists
  <2>4. \A t \in snaps : t.index # applied
    <3> SUFFICES ASSUME NEW t \in snaps PROVE t.index < applied
      BY <1>b DEF TypeOK
    <3>1. snaps # {} /\ snaps \in SUBSET Snapshots
      BY DEF TypeOK
    <3>2. \A u \in snaps : u.index \in Nat /\ u.index <= Len(log)
      BY <1>c, <3>1 DEF SnapInv, Held, Snapshots
    <3>3. Newest(snaps) \in snaps /\ t.index <= Newest(snaps).index
      BY <1>c, <3>1, <3>2, NewestProperties
    <3>4. applied > Newest(snaps).index
      BY <1>5, <3>1 DEF TakeSnapshot, NewestIndex
    <3> QED
      BY <3>2, <3>3, <3>4 DEF TypeOK
  <2>5. Held' \subseteq Held \cup {s}
    BY <1>5, <2>2 DEF TakeSnapshot, Held
  <2>6. SnapInv'
    BY <1>5, <1>c, <2>2, <2>4, <2>5 DEF TakeSnapshot, SnapInv, Distinct, TypeOK, raftVars, pebbleVars
  <2> QED
    BY <2>3, <2>6
<1>6. CASE PersistDone
  <2>1. persist # None /\ persist \in Persists /\ persist.snap \in Snapshots
    BY <1>6 DEF PersistDone, TypeOK, Persists
  <2>2. \A t \in snaps : t.index # persist.snap.index
    BY <2>1 DEF SnapInv
  <2>3. /\ snaps' \in SUBSET Snapshots /\ snaps' \subseteq snaps \cup {persist.snap}
        /\ IsFiniteSet(snaps') /\ Cardinality(snaps') <= Retain /\ Distinct(snaps')
    BY <1>6, <2>1, <2>2, StoreSnapshot DEF PersistDone
  <2>4. compacted' \in 0 .. received
    BY <1>6, <2>1, Compaction DEF PersistDone, Snapshots
  <2>5. TypeOK'
    BY <1>6, <2>3, <2>4 DEF PersistDone, TypeOK, pebbleVars
  <2>6. Held' \subseteq Held
    BY <1>6, <2>1, <2>3 DEF PersistDone, Held
  <2>7. SnapInv'
    BY <1>6, <2>3, <2>6 DEF PersistDone, SnapInv, pebbleVars
  <2> QED
    BY <2>5, <2>7
<1>7. CASE PersistFails
  <2>1. TypeOK'
    BY <1>7 DEF PersistFails, TypeOK, raftVars, pebbleVars
  <2>2. SnapInv'
    BY <1>7 DEF PersistFails, SnapInv, Held, Distinct, raftVars, pebbleVars
  <2> QED
    BY <2>1, <2>2
<1>8. CASE FinalizeFails
  <2>1. persist.snap.index \in Nat
    BY <1>8 DEF FinalizeFails, TypeOK, Snapshots
  <2>2. compacted' \in 0 .. received
    BY <1>8, <2>1, Compaction DEF FinalizeFails
  <2>3. TypeOK'
    BY <1>8, <2>2 DEF FinalizeFails, TypeOK, pebbleVars
  <2>4. SnapInv'
    BY <1>8 DEF FinalizeFails, SnapInv, Held, Distinct, pebbleVars
  <2> QED
    BY <2>3, <2>4
<1>9. ASSUME NEW n \in 1 .. MaxLog, NEW m \in 1 .. MaxLog, InstallSnapshot(n, m)
      PROVE  TypeInv'
  <2>0. PICK s \in Snapshots : Installs(s, n, m)
    <3>1. TypeOK /\ n \in Nat /\ m \in Nat
      BY <1>a
    <3> QED
      BY <1>9, <3>1, InstallType
  <2>1. /\ s.index = n /\ s.mark = m
        /\ n \in 0 .. m /\ m \in 0 .. Len(log) /\ received < n
        /\ \A t \in snaps : t.index = n => t = s
        /\ snaps' = Retained(snaps \cup {s})
        /\ restore' = Restoring(s, FALSE) /\ mode' = "restoring"
        /\ UNCHANGED <<raftVars, applied, pebbleVars, persist>>
    BY <2>0 DEF Installs
  <2>2. received \in Nat /\ applied \in Nat /\ applied <= received
    BY <1>c DEF TypeOK
  <2>6. /\ snaps' \in SUBSET Snapshots /\ snaps' \subseteq snaps \cup {s}
        /\ IsFiniteSet(snaps') /\ Cardinality(snaps') <= Retain /\ Distinct(snaps')
    BY <2>1, StoreSnapshot
  <2>7. /\ restore' \in Restores /\ restore' # None /\ restore'.phase = "clear"
        /\ restore'.snap = s /\ restore'.startup = FALSE
    BY <2>1, RestoringType
  <2>8. TypeOK'
    BY <2>1, <2>6, <2>7 DEF TypeOK, raftVars, pebbleVars, Restores
  <2>9. Held' \subseteq Held \cup {s}
    BY <2>1, <2>6, <2>7 DEF Held
  <2>10. persist # None => \A t \in snaps' : t.index # persist.snap.index
    <3> SUFFICES ASSUME persist # None, NEW t \in snaps \cup {s}
                 PROVE  t.index # persist.snap.index
      BY <2>6
    <3>1. persist.snap \in Snapshots /\ persist.snap.index <= received
      BY DEF TypeOK, SnapInv
    <3> QED
      BY <2>1, <2>2, <3>1 DEF SnapInv, Snapshots
  <2>11. /\ s.index <= s.mark /\ s.mark <= Len(log) /\ applied <= s.index
         /\ applied' = applied /\ mark' = mark /\ log' = log
         /\ persist' = persist /\ received' = received
    BY <1>c, <2>1, <2>2 DEF raftVars, pebbleVars
  <2>12. \A t \in Held' : t.index <= t.mark /\ t.mark <= Len(log)'
    BY <2>9, <2>11 DEF SnapInv
  <2>13. SnapInv'
    BY <2>1, <2>6, <2>7, <2>10, <2>11, <2>12 DEF SnapInv
  <2> QED
    BY <2>8, <2>13
<1>10. CASE RestoreClear
  <2>1. /\ restore' \in Restores /\ restore' # None
        /\ restore'.snap = restore.snap /\ restore'.startup = restore.startup
    BY <1>10, RestoreUpdate DEF RestoreClear
  <2>2. restore.snap \in Held /\ restore.snap \in Snapshots
    BY <1>10, <1>b DEF RestoreClear, Held
  <2>3. Empty \in Contents
    BY DEF Empty, Contents
  <2>4. TypeOK'
    BY <1>10, <1>c, <2>1, <2>2, <2>3 DEF RestoreClear, TypeOK, SnapInv, raftVars, Restores, Snapshots
  <2>5. Held' \subseteq Held
    BY <1>10, <2>1 DEF RestoreClear, Held
  <2>6. applied <= mark' /\ restore.snap.mark <= mark'
    BY <1>10, <1>c, <2>2 DEF RestoreClear, SnapInv, TypeOK, Snapshots
  <2>7. SnapInv'
    BY <1>10, <1>c, <2>1, <2>2, <2>5, <2>6 DEF RestoreClear, SnapInv, Distinct, raftVars, Snapshots
  <2> QED
    BY <2>4, <2>7
<1>11. CASE RestoreClearFails
  <2>1. /\ restore' \in Restores /\ restore' # None
        /\ restore'.snap = restore.snap /\ restore'.startup = restore.startup
    BY <1>11, RestoreUpdate DEF RestoreClearFails
  <2>2. restore.snap \in Held /\ restore.snap \in Snapshots
    BY <1>11, <1>b DEF RestoreClearFails, Held
  <2>3. mark' \in 0 .. Len(log) /\ mark <= mark' /\ restore.snap.mark <= mark'
    BY <1>11, <1>c, <2>2 DEF RestoreClearFails, TypeOK, SnapInv, Snapshots, MaxOf
  <2>4. TypeOK'
    BY <1>11, <2>1, <2>3 DEF RestoreClearFails, TypeOK, raftVars, Restores
  <2>5. Held' \subseteq Held
    BY <1>11, <2>1 DEF RestoreClearFails, Held
  <2>6. SnapInv'
    BY <1>11, <1>c, <2>1, <2>3, <2>5 DEF RestoreClearFails, SnapInv, TypeOK, Distinct, raftVars
  <2> QED
    BY <2>4, <2>6
<1>12. ASSUME NEW S \in SUBSET Keys, RestoreBatch(S) PROVE TypeInv'
  <2>1. /\ restore' \in Restores /\ restore' # None
        /\ restore'.snap = restore.snap /\ restore'.startup = restore.startup
    BY <1>12, RestoreUpdate DEF RestoreBatch
  <2>2. restore.snap \in Held /\ restore.snap \in Snapshots
    BY <1>12, <1>b DEF RestoreBatch, Held
  <2>3. store' \in Contents
    BY <1>12, <2>2 DEF RestoreBatch, TypeOK, Contents, Snapshots
  <2>4. TypeOK'
    BY <1>12, <2>1, <2>3 DEF RestoreBatch, TypeOK, raftVars, Restores
  <2>5. Held' \subseteq Held
    BY <1>12, <2>1 DEF RestoreBatch, Held
  <2>6. SnapInv'
    BY <1>12, <2>1, <2>5 DEF RestoreBatch, SnapInv, Distinct, raftVars
  <2> QED
    BY <2>4, <2>6
<1>13. CASE RestoreDone
  <2>1. restore.snap \in Held /\ restore.snap \in Snapshots
    BY <1>13, <1>b DEF RestoreDone, Held
  <2>2. restore.snap.index \in Nat /\ restore.snap.index <= Len(log)
    BY <1>c, <2>1 DEF SnapInv, Snapshots
  <2>3. /\ received' \in 0 .. Len(log) /\ received <= received'
        /\ compacted' \in 0 .. received' /\ applied' \in 0 .. received'
    BY <1>13, <1>c, <2>2 DEF RestoreDone, TypeOK, MaxOf
  <2>4. TypeOK'
    BY <1>13, <2>3 DEF RestoreDone, TypeOK, pebbleVars
  <2>5. Held' \subseteq Held
    BY <1>13 DEF RestoreDone, Held
  <2>6. applied' <= mark'
    BY <1>13, <1>c, <2>1, <2>2 DEF RestoreDone, SnapInv, TypeOK, pebbleVars, Snapshots
  <2>7. persist # None => persist.snap.index <= received'
    BY <1>c, <2>3 DEF TypeOK, SnapInv, Snapshots
  <2>8. SnapInv'
    BY <1>13, <2>5, <2>6, <2>7 DEF RestoreDone, SnapInv, Distinct, TypeOK, pebbleVars
  <2> QED
    BY <2>4, <2>8
<1>14. CASE InstallFails
  <2>1. TypeOK'
    BY <1>14 DEF InstallFails, TypeOK, raftVars, pebbleVars
  <2>2. SnapInv'
    BY <1>14 DEF InstallFails, SnapInv, Held, Distinct, raftVars, pebbleVars
  <2> QED
    BY <2>1, <2>2
<1>15. CASE StartupRestoreFails
  <2> DEFINE older == {s \in snaps : s.index < restore.snap.index}
  <2>1. /\ restore # None /\ restore.startup /\ applied = 0 /\ mode = "restoring"
        /\ UNCHANGED <<raftVars, applied, disk, diskMark, snaps, persist>>
    BY <1>15 DEF StartupRestoreFails, SnapInv, TypeOK
  <2>2. CASE /\ older # {}
             /\ restore' = Restoring(Newest(older), TRUE)
             /\ UNCHANGED <<mode, store, mark>>
    <3>1. Newest(older) \in older
      BY <1>b, <1>c, <2>2, HeldBelow, NewestProperties DEF Held
    <3>2. /\ restore' \in Restores /\ restore' # None
          /\ restore'.snap = Newest(older) /\ restore'.phase = "clear"
      BY <2>2, <3>1, <1>b, RestoringType DEF Held
    <3>3. TypeOK'
      BY <2>1, <2>2, <3>2 DEF TypeOK, raftVars, Restores
    <3>4. Held' \subseteq Held
      BY <2>1, <3>1, <3>2 DEF Held
    <3>5. applied <= restore'.snap.index
      BY <1>b, <2>1, <3>1, <3>2 DEF Held, Snapshots
    <3>6. SnapInv'
      BY <2>1, <2>2, <3>2, <3>4, <3>5 DEF SnapInv, Distinct, raftVars
    <3> QED
      BY <3>3, <3>6
  <2>3. CASE /\ mode' = "down" /\ restore' = None
             /\ store' = disk /\ mark' = diskMark
    <3>1. TypeOK'
      BY <2>1, <2>3 DEF TypeOK, raftVars
    <3>2. Held' \subseteq Held
      BY <2>1, <2>3 DEF Held
    <3>3. SnapInv'
      BY <2>1, <2>3, <3>2 DEF SnapInv, TypeOK, Distinct, raftVars
    <3> QED
      BY <3>1, <3>3
  <2> QED
    BY <1>15, <2>2, <2>3 DEF StartupRestoreFails
<1>16. ASSUME NEW n \in 0 .. MaxLog, Crash(n) PROVE TypeInv'
  <2>1. TypeOK'
    BY <1>16, <1>c DEF Crash, TypeOK
  <2>2. Held' \subseteq Held
    BY <1>16 DEF Crash, Held
  <2>3. SnapInv'
    BY <1>16, <2>2 DEF Crash, SnapInv, Distinct, TypeOK
  <2> QED
    BY <2>1, <2>3
<1>17. CASE Start
  <2>1. CASE snaps = {} /\ mode' = "up" /\ UNCHANGED restore
    <3>1. TypeOK'
      BY <1>17, <2>1 DEF Start, TypeOK, raftVars, pebbleVars
    <3>2. SnapInv'
      BY <1>17, <2>1 DEF Start, SnapInv, Held, Distinct, raftVars, pebbleVars
    <3> QED
      BY <3>1, <3>2
  <2>2. CASE /\ snaps # {} /\ mode' = "restoring"
             /\ restore' = Restoring(Newest(snaps), TRUE)
    <3>1. Newest(snaps) \in snaps
      BY <1>b, <1>c, <2>2, HeldBelow, NewestProperties DEF Held
    <3>2. /\ restore' \in Restores /\ restore' # None
          /\ restore'.snap = Newest(snaps) /\ restore'.phase = "clear"
      BY <2>2, <3>1, <1>b, RestoringType DEF Held
    <3>3. TypeOK'
      BY <1>17, <2>2, <3>2 DEF Start, TypeOK, raftVars, pebbleVars, Restores
    <3>4. Held' \subseteq Held
      BY <1>17, <3>1, <3>2 DEF Start, Held
    <3>5. applied = 0 /\ applied <= restore'.snap.index
      BY <1>17, <1>b, <3>1, <3>2 DEF Start, SnapInv, Held, Snapshots
    <3>6. SnapInv'
      BY <1>17, <2>2, <3>2, <3>4, <3>5 DEF Start, SnapInv, Distinct, raftVars, pebbleVars
    <3> QED
      BY <3>3, <3>6
  <2> QED
    BY <1>17, <2>1, <2>2 DEF Start
<1>18. CASE UNCHANGED vars
  BY <1>18 DEF vars, raftVars, pebbleVars, TypeOK, SnapInv, Held, Distinct
<1> QED
  BY <1>1, <1>2, <1>3, <1>4, <1>5, <1>6, <1>7, <1>8, <1>9, <1>10, <1>11, <1>12,
     <1>13, <1>14, <1>15, <1>16, <1>17, <1>18 DEF Next, RestoreStep

(* Every variable keeps its type, indices stay ordered and no more than     *)
(* Retain snapshots are stored, for any log, any failures of the store and  *)
(* any crashes: Apply, Snapshot, Persist and Restore of kvservice.go as     *)
(* Raft calls them.                                                         *)
THEOREM TypeCorrect == Spec => []TypeOK
<1>1. Spec => []TypeInv
  BY TypeInit, TypeNext, PTL DEF Spec
<1>2. TypeInv => TypeOK
  BY DEF TypeInv
<1> QED
  BY <1>1, <1>2, PTL

-----------------------------------------------------------------------------
(* A node can always restart.                                               *)

LEMMA NewestIndexType ==
  ASSUME TypeInv
  PROVE  /\ NewestIndex \in Nat
         /\ \A s \in snaps : s.index <= NewestIndex
         /\ snaps # {} => Newest(snaps) \in snaps /\ Newest(snaps).index = NewestIndex
<1>1. snaps \subseteq Held /\ Held \in SUBSET Snapshots /\ Len(log) \in Nat
  BY HeldType, LenProperties DEF Held, TypeInv, TypeOK
<1>2. CASE snaps = {}
  BY <1>2 DEF NewestIndex
<1>3. CASE snaps # {}
  <2>1. Newest(snaps) \in snaps /\ \A s \in snaps : s.index <= Newest(snaps).index
    BY <1>1, <1>3, HeldBelow, NewestProperties
  <2> QED
    BY <1>1, <1>3, <2>1 DEF NewestIndex, Snapshots
<1> QED
  BY <1>2, <1>3

(* A stored snapshot is not reaped before a newer one is stored.            *)
LEMMA StoredNewest ==
  ASSUME TypeInv, NEW s \in Snapshots, s.index <= Len(log),
         snaps' = Retained(snaps \cup {s})
  PROVE  /\ NewestIndex' \in Nat
         /\ NewestIndex <= NewestIndex' /\ s.index <= NewestIndex'
<1> DEFINE S == snaps \cup {s}
<1>1. S \in SUBSET Snapshots /\ S # {} /\ Len(log) \in Nat /\ snaps \subseteq Held
  BY LenProperties DEF TypeInv, TypeOK, Held
<1>2. \A t \in S : t.index <= Len(log)
  BY <1>1, HeldBelow
<1>3. Newest(S) \in S /\ \A t \in S : t.index <= Newest(S).index
  BY <1>1, <1>2, NewestProperties
<1>4. snaps' # {} /\ Newest(snaps').index = Newest(S).index
  BY <1>1, <1>2, RetainedNewest
<1>5. NewestIndex' = Newest(S).index
  BY <1>4 DEF NewestIndex
<1>6. Newest(S).index \in Nat /\ s.index <= Newest(S).index
  BY <1>1, <1>3 DEF Snapshots
<1>7. NewestIndex <= Newest(S).index
  <2>1. CASE snaps = {}
    BY <1>6, <2>1 DEF NewestIndex
  <2>2. CASE snaps # {}
    BY <1>3, <2>2, NewestIndexType
  <2> QED
    BY <2>1, <2>2
<1> QED
  BY <1>5, <1>6, <1>7

(* A snapshot being restored is a stored one or older than one, because     *)
(* Raft stores the leader's snapshot before it calls Restore: so the jump   *)
(* of the log's first index when Restore is done is covered too.            *)
RecInv ==
  "finalize" \notin faults =>
    /\ compacted <= NewestIndex
    /\ restore # None => restore.snap.index <= NewestIndex

LEMMA RecNext == TypeInv /\ RecInv /\ [Next]_vars => RecInv'
<1> SUFFICES ASSUME TypeInv, RecInv, [Next]_vars, "finalize" \notin faults'
             PROVE  /\ compacted' <= NewestIndex'
                    /\ restore' # None => restore'.snap.index <= NewestIndex'
  BY DEF RecInv
<1>a. TypeOK /\ Held \in SUBSET Snapshots
  BY HeldType DEF TypeInv
<1>b. faults' = faults
  BY FaultsFixed
<1>c. /\ compacted <= NewestIndex
      /\ restore # None => restore.snap.index <= NewestIndex
  BY <1>b DEF RecInv
<1>d. ~FinalizeFails
  BY <1>b DEF FinalizeFails
<1>e. compacted \in Nat /\ NewestIndex \in Nat /\ \A s \in Held : s.index \in Nat
  BY <1>a, NewestIndexType DEF TypeOK, Snapshots
<1>1. CASE \/ \E c \in Commands : Commit(c)
           \/ Receive \/ ApplyEntry \/ Flush \/ TakeSnapshot \/ PersistFails
           \/ UNCHANGED vars
  BY <1>1, <1>c DEF Commit, Receive, ApplyEntry, Flush, TakeSnapshot, PersistFails,
                    raftVars, vars, NewestIndex
<1>2. CASE PersistDone
  <2>1. persist.snap \in Held /\ persist.snap \in Snapshots
    BY <1>2, <1>a DEF PersistDone, Held
  <2>2. /\ persist.snap.index <= NewestIndex' /\ NewestIndex <= NewestIndex'
        /\ NewestIndex' \in Nat
    BY <1>2, <2>1, HeldBelow, StoredNewest DEF PersistDone
  <2>3. compacted' \in Nat /\ (compacted' = compacted \/ compacted' <= persist.snap.index)
    BY <1>2, <1>a, <1>e, <2>1, Compaction DEF PersistDone, TypeOK
  <2>4. compacted' <= NewestIndex'
    BY <1>c, <1>e, <2>1, <2>2, <2>3
  <2>5. restore' = restore /\ (restore # None => restore.snap \in Held)
    BY <1>2 DEF PersistDone, Held
  <2> QED
    BY <1>c, <1>e, <2>2, <2>4, <2>5
<1>3. ASSUME NEW n \in 1 .. MaxLog, NEW m \in 1 .. MaxLog, InstallSnapshot(n, m)
      PROVE  /\ compacted' <= NewestIndex'
             /\ restore'.snap.index <= NewestIndex'
  <2>0. PICK s \in Snapshots : Installs(s, n, m)
    <3>1. n \in Nat /\ m \in Nat
      OBVIOUS
    <3> QED
      BY <1>3, <1>a, <3>1, InstallType
  <2>1. /\ s.index = n /\ snaps' = Retained(snaps \cup {s})
        /\ restore' = Restoring(s, FALSE)
    BY <2>0 DEF Installs
  <2>2. n <= Len(log) /\ compacted' = compacted
    BY <1>3 DEF InstallSnapshot, raftVars
  <2>3. n <= NewestIndex' /\ NewestIndex <= NewestIndex' /\ NewestIndex' \in Nat
    BY <2>1, <2>2, StoredNewest
  <2>4. restore'.snap.index = n
    BY <2>1, RestoringType
  <2>5. compacted' <= NewestIndex'
    BY <1>c, <1>e, <2>2, <2>3
  <2> QED
    BY <2>3, <2>4, <2>5
<1>4. CASE \/ RestoreClear \/ RestoreClearFails \/ \E S \in SUBSET Keys : RestoreBatch(S)
  <2>1. restore # None /\ restore'.snap = restore.snap
    BY <1>4, <1>a, RestoreUpdate DEF RestoreClear, RestoreClearFails, RestoreBatch
  <2>2. compacted' = compacted /\ NewestIndex' = NewestIndex
    BY <1>4 DEF RestoreClear, RestoreClearFails, RestoreBatch, raftVars, NewestIndex
  <2> QED
    BY <1>c, <2>1, <2>2
<1>5. CASE RestoreDone
  BY <1>5, <1>c DEF RestoreDone, NewestIndex
<1>6. CASE InstallFails \/ \E n \in 0 .. MaxLog : Crash(n)
  BY <1>6, <1>c DEF InstallFails, Crash, raftVars, NewestIndex
<1>7. CASE StartupRestoreFails \/ Start
  <2>1. compacted' = compacted /\ NewestIndex' = NewestIndex
    BY <1>7 DEF StartupRestoreFails, Start, raftVars, NewestIndex
  <2>2. restore' # None => restore'.snap \in snaps
    BY <1>7, <1>a, Restarting, RestoringType DEF Held
  <2> QED
    BY <1>c, <2>1, <2>2, NewestIndexType
<1> QED
  BY <1>d, <1>1, <1>2, <1>3, <1>4, <1>5, <1>6, <1>7 DEF Next, RestoreStep

(* Unless the sink of a snapshot could not be closed, what compaction has   *)
(* removed from the node's log is in a stored snapshot: a restart finds     *)
(* everything, whatever crashes, failed Persist calls and restores.         *)
THEOREM CanRestart == Spec => []Recoverable
<1>1. Init => RecInv
  BY DEF Init, RecInv, NewestIndex
<1>2. Spec => []TypeInv
  BY TypeInit, TypeNext, PTL DEF Spec
<1>3. Spec => []RecInv
  BY <1>1, <1>2, RecNext, PTL DEF Spec
<1>4. RecInv => Recoverable
  BY DEF RecInv, Recoverable
<1> QED
  BY <1>3, <1>4, PTL

-----------------------------------------------------------------------------
(* What every step leaves alone.                                            *)

(* The committed log only grows, so what a prefix of it does is fixed.      *)
LEMMA PrefixFixed ==
  ASSUME TypeOK, [Next]_vars, NEW n \in 0 .. Len(log)
  PROVE  TouchedBy(n)' = TouchedBy(n) /\ StateAt(n)' = StateAt(n)
<1>1. CASE \E c \in Commands : Commit(c)
  BY <1>1, CommitStable DEF Commit, TypeOK
<1>2. CASE log' = log
  <2>1. TouchedBy(n)' = TouchedBy(n) /\ \A k \in Keys : LastTouch(n, k)' = LastTouch(n, k)
    BY <1>2 DEF TouchedBy, LastTouch
  <2>2. TouchedBy(n) \subseteq Keys
    BY DEF TouchedBy
  <2> QED
    BY <1>2, <2>1, <2>2 DEF StateAt
<1> QED
  BY <1>1, <1>2
  DEF Next, RestoreStep, vars, raftVars, Receive, ApplyEntry, Flush,
      TakeSnapshot, PersistDone, PersistFails, FinalizeFails, InstallSnapshot,
      RestoreClear, RestoreBatch, RestoreDone, RestoreClearFails, InstallFails,
      StartupRestoreFails, Crash, Start

(* A snapshot comes from the replica's own state or from the leader.        *)
LEMMA HeldNext ==
  ASSUME TypeInv, [Next]_vars
  PROVE  \A s \in Held' :
           \/ s \in Held
           \/ mode = "up" /\ s = [index |-> applied, data |-> store, mark |-> mark]
           \/ \E n, m \in Nat : /\ n \in 0 .. m /\ m \in 0 .. Len(log)
                                /\ s = LeaderSnapshot(n, m)
<1>a. TypeOK /\ Held \in SUBSET Snapshots
  BY HeldType DEF TypeInv
<1>1. CASE UNCHANGED <<snaps, persist, restore>>
  BY <1>1 DEF Held
<1>2. CASE TakeSnapshot
  BY <1>2 DEF TakeSnapshot, Held
<1>3. CASE PersistDone
  BY <1>3 DEF PersistDone, Held, Retained
<1>4. CASE PersistFails \/ FinalizeFails \/ RestoreDone \/ InstallFails
           \/ \E n \in 0 .. MaxLog : Crash(n)
  BY <1>4 DEF PersistFails, FinalizeFails, RestoreDone, InstallFails, Crash, Held
<1>5. ASSUME NEW n \in 1 .. MaxLog, NEW m \in 1 .. MaxLog, InstallSnapshot(n, m)
      PROVE  \A s \in Held' : \/ s \in Held
                              \/ /\ n \in 0 .. m /\ m \in 0 .. Len(log)
                                 /\ s = LeaderSnapshot(n, m)
  <2>0. PICK s \in Snapshots : Installs(s, n, m)
    <3>1. n \in Nat /\ m \in Nat
      OBVIOUS
    <3> QED
      BY <1>5, <1>a, <3>1, InstallType
  <2>1. restore'.snap = s /\ snaps' \subseteq snaps \cup {s} /\ persist' = persist
    BY <2>0, RestoringType DEF Installs, Retained
  <2>2. Held' \subseteq Held \cup {s}
    BY <2>1 DEF Held
  <2> QED
    BY <2>0, <2>2 DEF Installs
<1>6. CASE \/ RestoreClear \/ RestoreClearFails \/ \E S \in SUBSET Keys : RestoreBatch(S)
  <2>1. restore # None /\ restore'.snap = restore.snap
    BY <1>6, <1>a, RestoreUpdate DEF RestoreClear, RestoreClearFails, RestoreBatch
  <2>2. UNCHANGED <<snaps, persist>>
    BY <1>6 DEF RestoreClear, RestoreClearFails, RestoreBatch
  <2> QED
    BY <2>1, <2>2 DEF Held
<1>7. CASE StartupRestoreFails \/ Start
  <2>1. UNCHANGED <<snaps, persist>>
    BY <1>7 DEF StartupRestoreFails, Start
  <2>2. restore' # None => restore'.snap \in snaps
    BY <1>7, <1>a, Restarting, RestoringType DEF Held
  <2> QED
    BY <2>1, <2>2 DEF Held
<1> QED
  BY <1>1, <1>2, <1>3, <1>4, <1>5, <1>6, <1>7
  DEF Next, RestoreStep, vars, Commit, Receive, ApplyEntry, Flush

-----------------------------------------------------------------------------
(* Restore replaces the store, unless it could not be cleared.              *)

FillInv ==
  restore # None =>
    /\ restore.phase = "clear" =>
         restore.todo = {k \in Keys : restore.snap.data[k] # NoValue}
    /\ restore.phase = "fill" =>
         /\ \A k \in Keys \ restore.todo :
              restore.snap.data[k] # NoValue => store[k] = restore.snap.data[k]
         /\ "clear" \notin faults =>
              /\ mark = restore.snap.mark
              /\ \A k \in Keys \ restore.todo : store[k] = restore.snap.data[k]

LEMMA FillNext == TypeInv /\ FillInv /\ [Next]_vars => FillInv'
<1> SUFFICES ASSUME TypeInv, FillInv, [Next]_vars PROVE FillInv'
  OBVIOUS
<1>a. TypeOK /\ faults' = faults /\ Held \in SUBSET Snapshots
  BY FaultsFixed, HeldType DEF TypeInv
<1>1. CASE restore' = None
  BY <1>1 DEF FillInv
<1>2. CASE UNCHANGED <<restore, store, mark>>
  BY <1>2, <1>a DEF FillInv
<1>3. ASSUME NEW s \in Snapshots, NEW b \in BOOLEAN, restore' = Restoring(s, b)
      PROVE  FillInv'
  BY <1>3 DEF FillInv, Restoring
<1>4. CASE RestoreClear
  <2>1. /\ restore'.phase = "fill" /\ restore'.snap = restore.snap
        /\ restore'.todo = restore.todo
        /\ restore.todo = {k \in Keys : restore.snap.data[k] # NoValue}
    BY <1>4, <1>a, RestoreUpdate DEF RestoreClear, FillInv
  <2>2. store' = Empty /\ mark' = restore.snap.mark
    BY <1>4 DEF RestoreClear
  <2> QED
    BY <2>1, <2>2 DEF FillInv, Empty
<1>5. CASE RestoreClearFails
  <2>1. /\ restore'.phase = "fill" /\ restore'.snap = restore.snap
        /\ restore'.todo = restore.todo
        /\ restore.todo = {k \in Keys : restore.snap.data[k] # NoValue}
    BY <1>5, <1>a, RestoreUpdate DEF RestoreClearFails, FillInv
  <2> QED
    BY <1>5, <1>a, <2>1 DEF FillInv, RestoreClearFails
<1>6. ASSUME NEW S \in SUBSET Keys, RestoreBatch(S) PROVE FillInv'
  <2>1. /\ restore # None /\ restore.phase = "fill" /\ restore'.phase = "fill"
        /\ restore'.snap = restore.snap /\ restore'.todo = restore.todo \ S
    BY <1>6, <1>a, RestoreUpdate DEF RestoreBatch
  <2>2. /\ mark' = mark
        /\ store' = [k \in Keys |-> IF k \in S THEN restore.snap.data[k] ELSE store[k]]
    BY <1>6 DEF RestoreBatch
  <2> QED
    BY <1>a, <2>1, <2>2 DEF FillInv
<1>7. CASE StartupRestoreFails \/ Start
  <2>1. snaps \in SUBSET Snapshots
    BY <1>a DEF TypeOK
  <2> QED
    BY <1>1, <1>3, <1>7, <2>1, Restarting
<1>8. ASSUME NEW n \in 1 .. MaxLog, NEW m \in 1 .. MaxLog, InstallSnapshot(n, m)
      PROVE  FillInv'
  <2>1. n \in Nat /\ m \in Nat
    OBVIOUS
  <2>2. PICK s \in Snapshots : Installs(s, n, m)
    BY <1>a, <1>8, <2>1, InstallType
  <2> QED
    BY <1>3, <2>2 DEF Installs
<1>9. CASE ApplyEntry \/ RestoreDone \/ InstallFails \/ \E n \in 0 .. MaxLog : Crash(n)
  <2>1. restore' = None
    BY <1>9, <1>a DEF ApplyEntry, RestoreDone, InstallFails, Crash, TypeOK
  <2> QED
    BY <1>1, <2>1
<1> QED
  BY <1>2, <1>4, <1>5, <1>6, <1>7, <1>8, <1>9
  DEF Next, RestoreStep, vars, pebbleVars, Commit, Receive, Flush,
      TakeSnapshot, PersistDone, PersistFails, FinalizeFails

LEMMA FillHolds == Spec => []FillInv
<1>1. Init => FillInv
  BY DEF Init, FillInv
<1>2. Spec => []TypeInv
  BY TypeInit, TypeNext, PTL DEF Spec
<1> QED
  BY <1>1, <1>2, FillNext, PTL DEF Spec

(* When ClearAll does not fail, a finished Restore has replaced the state   *)
(* machine completely, as its comment promises, for any batch size and      *)
(* whatever partial restores, from other snapshots too, came before it.     *)
THEOREM RestoreComplete == Spec => []("clear" \notin faults => RestoreReplaces)
<1>1. TypeInv /\ FillInv => ("clear" \notin faults => RestoreReplaces)
  <2> SUFFICES ASSUME TypeInv, FillInv, "clear" \notin faults,
                      restore # None, restore.phase = "fill", restore.todo = {}
               PROVE  store = restore.snap.data
    BY DEF RestoreReplaces
  <2>1. store \in Contents /\ restore.snap.data \in Contents
    BY RestoreUpdate DEF TypeInv, TypeOK, Restores, Snapshots
  <2>2. \A k \in Keys : store[k] = restore.snap.data[k]
    BY DEF FillInv
  <2> QED
    BY <2>1, <2>2 DEF Contents
<1>2. Spec => []TypeInv
  BY TypeInit, TypeNext, PTL DEF Spec
<1> QED
  BY <1>1, <1>2, FillHolds, PTL

-----------------------------------------------------------------------------
(* Convergence.                                                             *)

Blank(s, m) == \A k \in Keys : k \notin TouchedBy(m) => s[k] = NoValue

LEMMA ConsistentFixed ==
  ASSUME TypeOK, [Next]_vars
  PROVE  /\ \A s, n, m : n \in 0 .. Len(log) /\ m \in 0 .. Len(log) /\ Consistent(s, n, m)
              => Consistent(s, n, m)'
         /\ \A s, m : m \in 0 .. Len(log) /\ Blank(s, m) => Blank(s, m)'
         /\ \A s, n : n \in 0 .. Len(log) /\ LiveKeysRight(s, n) => LiveKeysRight(s, n)'
<1>1. \A n \in 0 .. Len(log) : TouchedBy(n)' = TouchedBy(n) /\ StateAt(n)' = StateAt(n)
  BY PrefixFixed
<1> QED
  BY <1>1 DEF Consistent, Blank, LiveKeysRight

(* What the leader sends is consistent, wherever its own store was ahead.   *)
LEMMA LeaderConsistent ==
  ASSUME TypeOK, NEW n \in Nat, NEW m \in 0 .. Len(log), n \in 0 .. m,
         NEW s, s = LeaderSnapshot(n, m)
  PROVE  Consistent(s.data, s.index, s.mark) /\ LiveKeysRight(s.data, s.index)
<1>1. /\ s.index = n /\ s.mark = m
      /\ \A k \in Keys : s.data[k] = IF k \in TouchedBy(n) THEN StateAt(n)[k]
                                     ELSE StateAt(m)[k]
  BY DEF LeaderSnapshot
<1>2. TouchedBy(n) \subseteq TouchedBy(m)
  BY TouchedByMonotonic
<1>3. /\ \A k \in Keys : k \notin TouchedBy(n) => StateAt(n)[k] = NoValue
      /\ \A k \in Keys : k \notin TouchedBy(m) => StateAt(m)[k] = NoValue
  BY DEF StateAt
<1> QED
  BY <1>1, <1>2, <1>3 DEF Consistent, LiveKeysRight

(* The store is only ever behind in what it says of the prefix it has       *)
(* applied, never wrong about it: a key the prefix touches is right, and a  *)
(* key nothing the store has seen touches is absent, on the disk too.  So   *)
(* replaying the log over a store that is ahead repairs it.                 *)
DataInv ==
  faults \cap {"clear", "install"} = {} =>
    /\ mode = "up" => Consistent(store, applied, mark)
    /\ Blank(store, mark) /\ Blank(disk, diskMark)
    /\ \A s \in Held : Consistent(s.data, s.index, s.mark)

LEMMA DataInit == Init => DataInv
<1>1. Init => TouchedBy(0) = {}
  BY NothingTouchedYet
<1> QED
  BY <1>1 DEF Init, DataInv, Held, Consistent, Blank, Empty

LEMMA DataNext == TypeInv /\ FillInv /\ DataInv /\ [Next]_vars => DataInv'
<1> SUFFICES ASSUME TypeInv, FillInv, DataInv, [Next]_vars,
                    faults' \cap {"clear", "install"} = {}
             PROVE  /\ (mode = "up" => Consistent(store, applied, mark))'
                    /\ Blank(store, mark)' /\ Blank(disk, diskMark)'
                    /\ (\A s \in Held : Consistent(s.data, s.index, s.mark))'
  BY DEF DataInv
<1>a. TypeOK /\ SnapInv /\ Held \in SUBSET Snapshots /\ Len(log) \in Nat
  BY HeldType, LenProperties DEF TypeInv, TypeOK
<1>b. faults' = faults /\ "clear" \notin faults /\ "install" \notin faults
  BY FaultsFixed
<1>c. /\ mode = "up" => Consistent(store, applied, mark)
      /\ Blank(store, mark) /\ Blank(disk, diskMark)
      /\ \A s \in Held : Consistent(s.data, s.index, s.mark)
  BY <1>b DEF DataInv
<1>d. \A s \in Held : s.index \in 0 .. Len(log) /\ s.mark \in 0 .. Len(log)
  BY <1>a, HeldBelow DEF SnapInv, Snapshots
<1>e. applied \in 0 .. Len(log) /\ mark \in 0 .. Len(log) /\ diskMark \in 0 .. Len(log)
  BY <1>a DEF TypeOK
<1>1. (\A s \in Held : Consistent(s.data, s.index, s.mark))'
  <2> SUFFICES ASSUME NEW s \in Held'
               PROVE  Consistent(s.data, s.index, s.mark)'
    OBVIOUS
  <2>1. CASE s \in Held
    BY <1>a, <1>c, <1>d, <2>1, ConsistentFixed
  <2>2. CASE mode = "up" /\ s = [index |-> applied, data |-> store, mark |-> mark]
    BY <1>a, <1>c, <1>e, <2>2, ConsistentFixed
  <2>3. ASSUME NEW n \in Nat, NEW m \in Nat, n \in 0 .. m, m \in 0 .. Len(log),
               s = LeaderSnapshot(n, m)
        PROVE  Consistent(s.data, s.index, s.mark)'
    <3>1. Consistent(s.data, s.index, s.mark)
      BY <1>a, <2>3, LeaderConsistent
    <3>2. s.index \in 0 .. Len(log) /\ s.mark \in 0 .. Len(log)
      BY <1>a, <2>3 DEF LeaderSnapshot
    <3> QED
      BY <1>a, <3>1, <3>2, ConsistentFixed
  <2> QED
    BY <2>1, <2>2, <2>3, HeldNext
<1>2. ASSUME UNCHANGED <<mode, applied, store, mark, disk, diskMark>>
      PROVE  /\ (mode = "up" => Consistent(store, applied, mark))'
             /\ Blank(store, mark)' /\ Blank(disk, diskMark)'
  BY <1>2, <1>a, <1>c, <1>e, ConsistentFixed
<1>3. CASE ApplyEntry
  <2>1. /\ mode = "up" /\ applied < Len(log) /\ applied \in 0 .. mark /\ store \in Contents
        /\ store' = Effect(log[applied + 1], store)
        /\ applied' = applied + 1 /\ mark' = MaxOf(mark, applied + 1)
        /\ disk' = disk /\ diskMark' = diskMark
    BY <1>3, <1>a, <1>e DEF ApplyEntry, TypeOK, SnapInv
  <2>2. Consistent(store', applied', mark')
    BY <1>1, <1>a, <1>c, <1>e, <2>1, ConsistentEffect DEF TypeOK
  <2>3. applied' \in 0 .. Len(log) /\ mark' \in 0 .. Len(log)
    BY <1>a, <1>e, <2>1 DEF MaxOf
  <2>4. Consistent(store, applied, mark)'
    BY <1>a, <2>2, <2>3, ConsistentFixed
  <2>5. Blank(store, mark)'
    BY <2>4 DEF Consistent, Blank
  <2> QED
    BY <1>1, <1>a, <1>c, <1>e, <2>1, <2>4, <2>5, ConsistentFixed
<1>4. CASE Flush
  <2>1. UNCHANGED <<mode, applied, store, mark>> /\ disk' = store /\ diskMark' = mark
    BY <1>4 DEF Flush
  <2> QED
    BY <1>1, <1>a, <1>c, <1>e, <2>1, ConsistentFixed
<1>5. CASE RestoreClear
  <2>1. store' = Empty /\ mode' = "restoring" /\ disk' = disk /\ diskMark' = diskMark
    BY <1>5, <1>a DEF RestoreClear, TypeOK
  <2>2. Blank(store, mark)'
    BY <2>1 DEF Blank, Empty
  <2> QED
    BY <1>1, <1>a, <1>c, <1>e, <2>1, <2>2, ConsistentFixed
<1>6. ASSUME NEW S \in SUBSET Keys, RestoreBatch(S)
      PROVE  /\ (mode = "up" => Consistent(store, applied, mark))'
             /\ Blank(store, mark)' /\ Blank(disk, diskMark)'
  <2>1. /\ restore # None /\ restore.phase = "fill"
        /\ store' = [k \in Keys |-> IF k \in S THEN restore.snap.data[k] ELSE store[k]]
        /\ mode' = "restoring" /\ mark' = mark /\ disk' = disk /\ diskMark' = diskMark
    BY <1>6, <1>a DEF RestoreBatch, TypeOK
  <2>2. mark = restore.snap.mark /\ Consistent(restore.snap.data, restore.snap.index, mark)
    BY <1>b, <1>c, <2>1 DEF FillInv, Held
  <2>3. Blank(store', mark)
    BY <1>c, <2>1, <2>2 DEF Blank, Consistent
  <2> QED
    BY <1>1, <1>a, <1>c, <1>e, <2>1, <2>3, ConsistentFixed
<1>7. CASE RestoreDone
  <2>1. /\ restore # None /\ restore.phase = "fill" /\ restore.todo = {}
        /\ applied' = restore.snap.index /\ UNCHANGED <<store, mark, disk, diskMark>>
    BY <1>7 DEF RestoreDone, pebbleVars
  <2>2. restore.snap \in Held /\ mark = restore.snap.mark
    BY <1>b, <2>1 DEF FillInv, Held
  <2>3. Consistent(store, restore.snap.index, mark)
    <3>1. Consistent(restore.snap.data, restore.snap.index, mark)
      BY <1>c, <2>2
    <3>2. \A k \in Keys : store[k] = restore.snap.data[k]
      BY <1>b, <2>1 DEF FillInv
    <3> QED
      BY <3>1, <3>2 DEF Consistent
  <2> QED
    BY <1>1, <1>a, <1>c, <1>d, <1>e, <2>1, <2>2, <2>3, ConsistentFixed
<1>8. CASE StartupRestoreFails \/ \E n \in 0 .. MaxLog : Crash(n)
  <2>1. \/ UNCHANGED <<mode, store, mark, disk, diskMark, applied>>
        \/ /\ mode' = "down" /\ store' = disk /\ mark' = diskMark
           /\ disk' = disk /\ diskMark' = diskMark
    BY <1>8 DEF StartupRestoreFails, Crash
  <2> QED
    BY <1>1, <1>a, <1>c, <1>e, <2>1, ConsistentFixed, <1>2
<1>9. CASE Start
  <2>1. /\ applied = 0 /\ mode' \in {"up", "restoring"}
        /\ UNCHANGED <<applied, store, mark, disk, diskMark>>
    BY <1>9, <1>a DEF Start, SnapInv, pebbleVars
  <2>2. Consistent(store, applied, mark)
    BY <1>c, <2>1, NothingTouchedYet DEF Consistent, Blank
  <2> QED
    BY <1>1, <1>a, <1>c, <1>e, <2>1, <2>2, ConsistentFixed
<1>10. ASSUME NEW n \in 1 .. MaxLog, NEW m \in 1 .. MaxLog, InstallSnapshot(n, m)
       PROVE  /\ (mode = "up" => Consistent(store, applied, mark))'
              /\ Blank(store, mark)' /\ Blank(disk, diskMark)'
  <2>1. mode' = "restoring" /\ UNCHANGED <<applied, store, mark, disk, diskMark>>
    BY <1>10 DEF InstallSnapshot, pebbleVars
  <2> QED
    BY <1>1, <1>a, <1>c, <1>e, <2>1, ConsistentFixed
<1>11. ~RestoreClearFails /\ ~InstallFails
  BY <1>b DEF RestoreClearFails, InstallFails
<1>12. CASE \/ \E c \in Commands : Commit(c)
            \/ Receive \/ TakeSnapshot \/ PersistDone \/ PersistFails \/ FinalizeFails
            \/ UNCHANGED vars
  <2>1. UNCHANGED <<mode, applied, store, mark, disk, diskMark>>
    BY <1>12 DEF Commit, Receive, TakeSnapshot, PersistDone, PersistFails, FinalizeFails,
                 vars, pebbleVars
  <2> QED
    BY <1>1, <1>2, <2>1
<1> QED
  BY <1>1, <1>3, <1>4, <1>5, <1>6, <1>7, <1>8, <1>9, <1>10, <1>11, <1>12
  DEF Next, RestoreStep

LEMMA DataHolds == Spec => []DataInv
<1>1. Spec => []TypeInv
  BY TypeInit, TypeNext, PTL DEF Spec
<1> QED
  BY <1>1, FillHolds, DataInit, DataNext, PTL DEF Spec

(* A running replica that has applied as much as its store has ever seen    *)
(* holds the state of exactly that prefix of the log: snapshots written     *)
(* while Apply goes on, crashes that leave part of a restore or a store     *)
(* ahead of the log, and replays do not make replicas diverge.              *)
THEOREM Convergence == Spec => []Converged
<1>1. TypeInv /\ DataInv => Converged
  <2> SUFFICES ASSUME TypeInv, DataInv, faults \cap {"clear", "install"} = {},
                      mode = "up", applied >= mark
               PROVE  store = StateAt(applied)
    BY DEF Converged
  <2>1. Len(log) \in Nat
    BY LenProperties DEF TypeInv, TypeOK
  <2>2. store \in Contents /\ applied \in Nat /\ mark \in 0 .. applied
    BY <2>1 DEF TypeInv, TypeOK
  <2> QED
    BY <2>2, ConsistentIsState DEF DataInv
<1>2. Spec => []TypeInv
  BY TypeInit, TypeNext, PTL DEF Spec
<1> QED
  BY <1>1, <1>2, DataHolds, PTL

(* Every stored snapshot has the effect of all entries up to its index and  *)
(* of none beyond it on the keys they touch, although Persist writes it     *)
(* while Apply goes on.                                                     *)
THEOREM SnapshotsRight == Spec => []SnapshotsConsistent
<1>1. DataInv => SnapshotsConsistent
  BY DEF DataInv, SnapshotsConsistent, Held
<1> QED
  BY <1>1, DataHolds, PTL

-----------------------------------------------------------------------------
(* Nothing is lost, even when ClearAll fails.                               *)

LiveInv ==
  "install" \notin faults =>
    /\ mode = "up" => LiveKeysRight(store, applied)
    /\ \A s \in Held : LiveKeysRight(s.data, s.index)

LEMMA LiveInit == Init => LiveInv
<1>1. Init => StateAt(0) = Empty
  BY NothingTouchedYet
<1> QED
  BY <1>1 DEF Init, LiveInv, Held, LiveKeysRight, Empty

LEMMA LiveNext == TypeInv /\ FillInv /\ LiveInv /\ [Next]_vars => LiveInv'
<1> SUFFICES ASSUME TypeInv, FillInv, LiveInv, [Next]_vars, "install" \notin faults'
             PROVE  /\ (mode = "up" => LiveKeysRight(store, applied))'
                    /\ (\A s \in Held : LiveKeysRight(s.data, s.index))'
  BY DEF LiveInv
<1>a. TypeOK /\ SnapInv /\ Held \in SUBSET Snapshots /\ Len(log) \in Nat
  BY HeldType, LenProperties DEF TypeInv, TypeOK
<1>b. faults' = faults /\ "install" \notin faults
  BY FaultsFixed
<1>c. /\ mode = "up" => LiveKeysRight(store, applied)
      /\ \A s \in Held : LiveKeysRight(s.data, s.index)
  BY <1>b DEF LiveInv
<1>d. applied \in 0 .. Len(log) /\ \A s \in Held : s.index \in 0 .. Len(log)
  BY <1>a, HeldBelow DEF TypeOK, Snapshots
<1>1. (\A s \in Held : LiveKeysRight(s.data, s.index))'
  <2> SUFFICES ASSUME NEW s \in Held'
               PROVE  LiveKeysRight(s.data, s.index)'
    OBVIOUS
  <2>1. CASE s \in Held
    BY <1>a, <1>c, <1>d, <2>1, ConsistentFixed
  <2>2. CASE mode = "up" /\ s = [index |-> applied, data |-> store, mark |-> mark]
    BY <1>a, <1>c, <1>d, <2>2, ConsistentFixed
  <2>3. ASSUME NEW n \in Nat, NEW m \in Nat, n \in 0 .. m, m \in 0 .. Len(log),
               s = LeaderSnapshot(n, m)
        PROVE  LiveKeysRight(s.data, s.index)'
    <3>1. LiveKeysRight(s.data, s.index)
      BY <1>a, <2>3, LeaderConsistent
    <3>2. s.index \in 0 .. Len(log)
      BY <1>a, <2>3 DEF LeaderSnapshot
    <3> QED
      BY <1>a, <3>1, <3>2, ConsistentFixed
  <2> QED
    BY <2>1, <2>2, <2>3, HeldNext
<1>2. CASE UNCHANGED <<mode, applied, store>>
  BY <1>2, <1>1, <1>a, <1>c, <1>d, ConsistentFixed
<1>3. CASE mode' # "up"
  BY <1>1, <1>3
<1>4. CASE ApplyEntry
  <2>1. /\ mode = "up" /\ applied \in 0 .. (Len(log) - 1) /\ store \in Contents
        /\ store' = Effect(log[applied + 1], store) /\ applied' = applied + 1
    BY <1>4, <1>a, <1>d DEF ApplyEntry, TypeOK
  <2>2. LiveKeysRight(store', applied') /\ applied' \in 0 .. Len(log)
    BY <1>a, <1>c, <2>1, LiveKeysEffect DEF TypeOK
  <2> QED
    BY <1>1, <1>a, <2>2, ConsistentFixed
<1>5. CASE RestoreDone
  <2>1. /\ restore # None /\ restore.phase = "fill" /\ restore.todo = {}
        /\ applied' = restore.snap.index /\ store' = store
    BY <1>5 DEF RestoreDone, pebbleVars
  <2>2. restore.snap \in Held
    BY <2>1 DEF Held
  <2>3. \A k \in Keys : restore.snap.data[k] # NoValue => store[k] = restore.snap.data[k]
    BY <2>1 DEF FillInv
  <2>4. LiveKeysRight(store, restore.snap.index)
    BY <1>c, <2>2, <2>3 DEF LiveKeysRight
  <2> QED
    BY <1>1, <1>a, <1>d, <2>1, <2>2, <2>4, ConsistentFixed
<1>6. CASE Start
  <2>1. applied = 0 /\ UNCHANGED <<applied, store>>
    BY <1>6, <1>a DEF Start, SnapInv, pebbleVars
  <2>2. LiveKeysRight(store, applied)
    BY <2>1, NothingTouchedYet DEF LiveKeysRight, Empty
  <2> QED
    BY <1>1, <1>a, <1>d, <2>1, <2>2, ConsistentFixed
<1>7. CASE \/ RestoreClear \/ RestoreClearFails \/ \E S \in SUBSET Keys : RestoreBatch(S)
           \/ StartupRestoreFails \/ \E n \in 0 .. MaxLog : Crash(n)
           \/ \E n, m \in 1 .. MaxLog : InstallSnapshot(n, m)
  <2>1. mode' # "up"
    BY <1>7, <1>a DEF RestoreClear, RestoreClearFails, RestoreBatch, StartupRestoreFails,
                      Crash, InstallSnapshot, TypeOK
  <2> QED
    BY <1>3, <2>1
<1>8. ~InstallFails
  BY <1>b DEF InstallFails
<1>9. CASE \/ \E c \in Commands : Commit(c)
           \/ Receive \/ Flush \/ TakeSnapshot \/ PersistDone \/ PersistFails
           \/ FinalizeFails \/ UNCHANGED vars
  <2>1. UNCHANGED <<mode, applied, store>>
    BY <1>9 DEF Commit, Receive, Flush, TakeSnapshot, PersistDone, PersistFails,
                FinalizeFails, vars, pebbleVars
  <2> QED
    BY <1>2, <2>1
<1> QED
  BY <1>4, <1>5, <1>6, <1>7, <1>8, <1>9 DEF Next, RestoreStep

(* No key the applied prefix leaves in place is missing or wrong, in the    *)
(* running replica or in a stored snapshot, even when ClearAll fails, a     *)
(* snapshot is not finalized or a start falls back to an older one; only a  *)
(* failed Restore of the leader's snapshot is excluded.                     *)
THEOREM Durability == Spec => []NothingLost
<1>1. LiveInv => NothingLost
  BY DEF LiveInv, NothingLost, LiveKeysKept, Held
<1>2. Spec => []TypeInv
  BY TypeInit, TypeNext, PTL DEF Spec
<1>3. Spec => []LiveInv
  BY <1>2, FillHolds, LiveInit, LiveNext, PTL DEF Spec
<1> QED
  BY <1>1, <1>3, PTL
=============================================================================
