---------------------------- MODULE MCWritePath ----------------------------
(***************************************************************************)
(* WritePath on three nodes: writes by PutKey and DeleteKey or BatchPut,   *)
(* the removal and the addition of a node.                                 *)
(***************************************************************************)
EXTENDS WritePath

CONSTANTS n1, n2, n3, put1, put2, batch1, delete1, add1, remove1

MCOp == [r \in Requests |->
           CASE r \in {put1, put2} -> "put"
             [] r = batch1         -> "batch"
             [] r = delete1        -> "delete"
             [] r = add1           -> "add"
             [] r = remove1        -> "remove"]

MCSubject == [r \in Requests |-> IF r = add1 THEN n3 ELSE n1]

\* Any request to any node; or the removal of n1 to n1 only.
MCAnywhere == [r \in Requests |-> Nodes]
MCSelfRemoval == [r \in Requests |-> IF r = remove1 THEN {n1} ELSE Nodes]

\* For instances without add1, in which n2 and n3 have the same part.
MCSymmetry == Permutations({n2, n3})
=============================================================================
