----------------------------- MODULE MCReplica -----------------------------
(***************************************************************************)
(* Replica on small instances: two keys, one value per kind of command, so *)
(* that sets, deletes and batches of overlapping keys meet in every order. *)
(***************************************************************************)
EXTENDS Replica

CONSTANTS k1, k2, v1, v2

MCCommands ==
  {[op |-> "set", key |-> k1, value |-> v1],
   [op |-> "delete", key |-> k1],
   [op |-> "batch_set", batch |-> [k \in {k1, k2} |-> v2]]}

\* With the operation no version of the service knows.
MCMoreCommands == MCCommands \cup {[op |-> "unknown"]}
=============================================================================
