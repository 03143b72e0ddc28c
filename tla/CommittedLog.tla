---------------------------- MODULE CommittedLog ----------------------------
(***************************************************************************)
(* What HooDB promises the callers of its HTTP write path: one growing     *)
(* sequence of committed entries, each of one request or of none.          *)
(*   - A request answered 200 is in it, and takes effect no more after the *)
(*     answer.                                                             *)
(*   - A request refused (400, 401, 307, 503) is not in it and never will  *)
(*     be: the caller may send it elsewhere.                               *)
(*   - A request that ended with 500 or with no answer may be in it, or    *)
(*     may still enter it.                                                 *)
(*   - No request is in it more often than the handler tries it.           *)
(***************************************************************************)
EXTENDS Naturals, Sequences, FiniteSets

CONSTANTS Requests,
          NoRequest,  \* an entry Raft makes for itself, like a new leader's first
          attempts    \* how often the handler of each request may try it

VARIABLES history,    \* the requests of the committed entries
          call        \* "idle", "open", "ok", "refused" or "error"

vars == <<history, call>>

Times(r, s) == Cardinality({i \in DOMAIN s : s[i] = r})

TypeOK ==
  /\ history \in Seq(Requests \cup {NoRequest})
  /\ call \in [Requests -> {"idle", "open", "ok", "refused", "error"}]

Init ==
  /\ history = <<>>
  /\ call = [r \in Requests |-> "idle"]

Invoke(r) ==
  /\ call[r] = "idle"
  /\ call' = [call EXCEPT ![r] = "open"]
  /\ UNCHANGED history

(***************************************************************************)
(* The entries of s become durable, in this order.                         *)
(***************************************************************************)
Extend(s) ==
  /\ s # <<>>
  /\ \A i \in DOMAIN s : s[i] # NoRequest => call[s[i]] \in {"open", "error"}
  /\ \A r \in Requests : Times(r, history \o s) <= attempts[r]
  /\ history' = history \o s
  /\ UNCHANGED call

ReturnOk(r) ==
  /\ call[r] = "open" /\ Times(r, history) > 0
  /\ call' = [call EXCEPT ![r] = "ok"]
  /\ UNCHANGED history

Refuse(r) ==
  /\ call[r] = "open" /\ Times(r, history) = 0
  /\ call' = [call EXCEPT ![r] = "refused"]
  /\ UNCHANGED history

ReturnError(S) ==
  /\ S # {} /\ \A r \in S : call[r] = "open"
  /\ call' = [r \in Requests |-> IF r \in S THEN "error" ELSE call[r]]
  /\ UNCHANGED history

Next ==
  \/ \E r \in Requests : Invoke(r) \/ ReturnOk(r) \/ Refuse(r)
  \/ \E S \in SUBSET Requests : ReturnError(S)
  \/ Len(history') > Len(history)
       /\ Extend(SubSeq(history', Len(history) + 1, Len(history')))

Spec == Init /\ [][Next]_vars
=============================================================================
