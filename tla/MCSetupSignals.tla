-------------------------- MODULE MCSetupSignals ----------------------------
(***************************************************************************)
(* SetupSignals.tla as TLC runs it: the constants are plain values, given  *)
(* in the configurations.                                                  *)
(***************************************************************************)
EXTENDS SetupSignals
=============================================================================
