---------------------------- MODULE MCCacheLock -----------------------------
(***************************************************************************)
(* Values for the constants of CacheLock.tla: two projects whose setups    *)
(* run themselves and each other, or one only the other.                   *)
(***************************************************************************)
EXTENDS CacheLock, TLC

CONSTANTS a, b

Chain == {<<a, b>>}
Cycle == {<<a, a>>, <<a, b>>, <<b, a>>}

Symmetry == Permutations(Proc)
=============================================================================
