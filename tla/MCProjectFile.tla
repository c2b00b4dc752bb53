---------------------------- MODULE MCProjectFile ---------------------------
(***************************************************************************)
(* Values for the constants of ProjectFile.tla: a path of each form, two   *)
(* names a mapping may list and one it does not, a timed and an untimed    *)
(* schedule.                                                               *)
(***************************************************************************)
EXTENDS ProjectFile, TLC

CONSTANTS absolute, relative, unset

MCForm == (absolute :> "absolute") @@ (relative :> "relative") @@ (unset :> "unset")
MCSchedules == {[sched |-> "never", interval |-> 0], [sched |-> "every", interval |-> 60]}
=============================================================================
