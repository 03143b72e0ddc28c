---------------------------- MODULE MCPrefixScan ----------------------------
(***************************************************************************)
(* PrefixScan with three byte values: 2 plays 0xff.  The keys include the  *)
(* empty key (BatchPut accepts it), keys that are prefixes of others and   *)
(* keys on both sides of each upper bound.                                 *)
(***************************************************************************)
EXTENDS PrefixScan

MCKeySpace ==
  {<<>>, <<1, 2>>, <<1, 2, 2>>, <<2>>, <<2, 2>>}

MCAsked == {<<>>, <<0>>, <<1>>, <<1, 2>>, <<2>>, <<2, 2>>}

MCLimits == {-1, 1, 9}
=============================================================================
