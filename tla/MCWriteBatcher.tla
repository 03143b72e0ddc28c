--------------------------- MODULE MCWriteBatcher ---------------------------
(***************************************************************************)
(* WriteBatcher on small instances.  The channels are smaller than in the  *)
(* program (reqCh 1600, batchCh 8, maxBatch 200) so that each can be full, *)
(* empty or cut a batch short with a few requests.                         *)
(***************************************************************************)
EXTENDS WriteBatcher, TLC

CONSTANTS r1, r2, r3, k1, k2, k3, e1, e2

\* Two writers of one key, one writer of another.
MCkeyOf == r1 :> k1 @@ r2 :> k1 @@ r3 :> k2

\* Whether a goroutine returns does not depend on the keys; with a key each,
\* store follows applied.
MCownKeys == r1 :> k1 @@ r2 :> k2 @@ r3 :> k3
=============================================================================
