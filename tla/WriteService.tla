---------------------------- MODULE WriteService ----------------------------
(***************************************************************************)
(* What the write path promises its callers: a store of keys where every   *)
(* write takes effect atomically, at most once, and never before it was    *)
(* submitted; a write reported as successful has taken effect when it      *)
(* returns.  A write reported as failed is ambiguous: it may have taken    *)
(* effect, or may still do so, because the caller of Submit can stop       *)
(* waiting (stopCh) or Raft can lose leadership with the entry in flight.  *)
(*                                                                         *)
(* Several writes may take effect in one step (one Raft entry carries a    *)
(* whole batch); then each key ends with the value of one of them.         *)
(***************************************************************************)

CONSTANTS Requests,   \* the writes; a write is identified with its value
          Keys,
          keyOf,      \* [Requests -> Keys]
          NoValue     \* content of a key never written

VARIABLES call,       \* "idle", "pending", "ok" or "failed" for each write
          applied,    \* the writes that have taken effect
          store       \* content of each key

vars == <<call, applied, store>>

TypeOK ==
  /\ call \in [Requests -> {"idle", "pending", "ok", "failed"}]
  /\ applied \in SUBSET Requests
  /\ store \in [Keys -> Requests \cup {NoValue}]

Init ==
  /\ call = [r \in Requests |-> "idle"]
  /\ applied = {}
  /\ store = [k \in Keys |-> NoValue]

Invoke(r) ==
  /\ call[r] = "idle"
  /\ call' = [call EXCEPT ![r] = "pending"]
  /\ UNCHANGED <<applied, store>>

(***************************************************************************)
(* The linearization point of the writes S: all of them submitted, none    *)
(* of them applied before.                                                 *)
(***************************************************************************)
Apply(S) ==
  /\ S # {}
  /\ S \cap applied = {}
  /\ \A r \in S : call[r] # "idle"
  /\ applied' = applied \cup S
  /\ store' \in [Keys -> Requests \cup {NoValue}]
  /\ \A k \in Keys :
       LET writers == {r \in S : keyOf[r] = k}
       IN  IF writers = {} THEN store'[k] = store[k] ELSE store'[k] \in writers
  /\ UNCHANGED call

ReturnOk(r) ==
  /\ call[r] = "pending"
  /\ r \in applied
  /\ call' = [call EXCEPT ![r] = "ok"]
  /\ UNCHANGED <<applied, store>>

ReturnError(r) ==
  /\ call[r] = "pending"
  /\ call' = [call EXCEPT ![r] = "failed"]
  /\ UNCHANGED <<applied, store>>

Next ==
  \/ \E r \in Requests : Invoke(r) \/ ReturnOk(r) \/ ReturnError(r)
  \/ \E S \in SUBSET Requests : Apply(S)

Spec == Init /\ [][Next]_vars
=============================================================================
