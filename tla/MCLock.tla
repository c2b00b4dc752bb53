------------------------------- MODULE MCLock -------------------------------
(***************************************************************************)
(* Two instances of CacheLock.tla in one run.  In "killed", any process    *)
(* may be killed and runs enter at either project, but one process stays   *)
(* out; in "nested", all take part, nobody is killed, and every run from   *)
(* outside enters at the same project.                                     *)
(***************************************************************************)
EXTENDS MCCacheLock

CONSTANT bystander

VARIABLE instance

MCLockInit == Init /\ instance \in {"killed", "nested"}

MCLockNext ==
    /\ UNCHANGED instance
    /\ \E p \in Proc :
          \/ Step(p)
          \/ Nest(p) /\ (instance = "killed" => p # bystander)
          \/ Launch(p) /\ instance = "killed" /\ p # bystander
          \/ Begin(p, a, Root) /\ instance = "nested"
          \/ Killed(p) /\ instance = "killed"

MCLockSpec ==
    /\ MCLockInit /\ [][MCLockNext]_<<vars, instance>>
    /\ \A p \in Proc :
          WF_vars(SetLk(p) \/ GetLk(p) \/ Walk(p)) /\ SF_vars(End(p)) /\ SF_vars(SetLkW(p))
=============================================================================
