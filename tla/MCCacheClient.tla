--------------------------- MODULE MCCacheClient ---------------------------
(***************************************************************************)
(* Instances of CacheClient for TLC.                                       *)
(***************************************************************************)
EXTENDS CacheClient, TLC

CONSTANTS g1, i1, i2

\* g1 is also a group of the static cache.
OneFallback == [g \in Group |-> IF g = g1 THEN {i1} ELSE {}]

Symmetry == Permutations(Adder)
=============================================================================
