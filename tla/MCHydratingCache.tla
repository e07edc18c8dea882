-------------------------- MODULE MCHydratingCache --------------------------
(***************************************************************************)
(* The hydrating cache of one pod with one manifest: entries of different  *)
(* names meet nowhere in the cache or in the detail store.                 *)
(***************************************************************************)
EXTENDS HydratingCache

CONSTANT n1

OneName == {n1}

=============================================================================
