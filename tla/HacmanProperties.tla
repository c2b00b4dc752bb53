-------------------------- MODULE HacmanProperties --------------------------
(***************************************************************************)
(* What the invocations of Hacman.tla promise each other and their user.   *)
(***************************************************************************)
EXTENDS Hacman

(* Every variable stays in its domain, and a process has a job exactly     *)
(* while it is there.                                                      *)
TypeOK ==
    /\ clock \in Time
    /\ source \in [Source -> Ident]
    /\ remote \in [Ident -> Mark]
    /\ record \in [Slot -> Record]
    /\ lock \in [Slot -> Proc \cup {Nobody}]
    /\ work \in [Slot -> WorkDir]
    /\ orphans \in [Slot -> SUBSET Tag]
    /\ done \in [Slot -> SUBSET Ident]
    /\ pc \in [Proc -> PC]
    /\ job \in [Proc -> Job \cup {NoJob}]
    /\ \A p \in Proc : pc[p] # "idle" => job[p] \in Job
    /\ view \in [Proc -> View]
    /\ seen \in [Proc -> Mark \cup {NoMark}]
    /\ child \in [Proc -> {"none", "running", "ok", "failed"}]
    /\ interrupted \in [Proc -> BOOLEAN]
    /\ exit \in [Proc -> {"ok", "changed", "failed", "usage", "noexec"}]

-----------------------------------------------------------------------------
(* Between the reload under the lock and the unlock.                       *)
DecidedPCs == {"recheck", "due", "compare", "reset", "removing", "stage", "rename",
               "fork", "wait", "commit", "touch"}
(* Where the work directory is being changed or was just filled.           *)
SetupPCs == {"reset", "removing", "stage", "rename", "fork", "wait", "commit"}

Holds(p) == pc[p] # "idle" /\ lock[SlotOf(p)] = p

(* The lock file of a slot is held by a process that is past hm_cache_lock *)
(* for that very slot, and every process that acts holds its slot's lock.  *)
LockDiscipline ==
    /\ \A s \in Slot : lock[s] # Nobody =>
          /\ pc[lock[s]] \in DecidedPCs \cup {"reload", "unlock"}
          /\ SlotOf(lock[s]) = s
    /\ \A p \in Proc :
          /\ pc[p] = "reload" => Holds(p)
          /\ pc[p] \in DecidedPCs /\ ~Inspected(p) => Holds(p)
          /\ pc[p] \in SetupPCs => job[p].mode = "run"
          /\ pc[p] = "recheck" => ~Inspected(p)

(* At most one setup is alive in a work directory, whether a hacman still  *)
(* waits for it or lost it: forward_signal()'s comment and the README's "A *)
(* setup never outlives the hacman that started it".                       *)
OneSetupAtATime ==
    \A s \in Slot :
        Cardinality({p \in Proc : child[p] = "running" /\ SlotOf(p) = s})
          + Cardinality(orphans[s]) <= 1

(* The decision under the lock still stands when it is acted upon: nobody  *)
(* replaced the record between hm_cache_load() and hm_cache_save().        *)
LockedViewFresh ==
    \A p \in Proc : pc[p] \in DecidedPCs =>
        [Trusted(record[SlotOf(p)], job[p].ident) EXCEPT !.now = view[p].now] = view[p]

(* A run that waited for the lock does not repeat what the run before it   *)
(* completed: what it is about to check or set up is still called for by   *)
(* the record, and the program, as they are now.                           *)
NoDuplicateSetup ==
    \A p \in Proc :
        pc[p] \in {"due", "compare"} /\ ~Inspected(p) =>
            LET rec == Trusted(record[SlotOf(p)], job[p].ident)
            IN IsDue(ConfOf(p), rec.known, rec.lastCheck, view[p].now, job[p].force,
                     BinMissing(p))

(* A setup that began by emptying the work directory (every install, and   *)
(* every command whose record did not match) is recorded only over what it *)
(* put there alone, from start to end.  (The user may have deleted it.)    *)
CommitIsWhole ==
    \A p \in Proc :
        pc[p] = "commit" /\ (ConfOf(p).kind = "url" \/ ~view[p].known) =>
            /\ work[SlotOf(p)].of \subseteq {TagOf(p)}
            /\ "rm" \in Faults \/ (work[SlotOf(p)].whole /\ work[SlotOf(p)].of # {})

(* Every record was earned: its identity was set up (or adopted) in that   *)
(* very slot.                                                              *)
RecordsAreEarned == \A s \in Slot : record[s].ident \in done[s] \cup {NoIdent}

(* finish(): "Only a completed setup can hand over the program".  A        *)
(* project scheduled `never` runs its program without one.                 *)
HandoverAfterSetup ==
    \A p \in Proc : pc[p] = "program" =>
        job[p].ident \in done[SlotOf(p)] \/ ConfOf(p).sched = "never"

(* Only the holder of the lock, in the middle of a setup, touches a work   *)
(* directory; a setup that lost its hacman and the user do so besides.     *)
OnlyHolderTouchesWork ==
    [][\A s \in Slot : work'[s] # work[s] =>
          \/ lock[s] # Nobody /\ lock'[s] = lock[s] /\ pc[lock[s]] \in SetupPCs
          \/ orphans[s] # {}
          \/ WorkDirRemoved(s)]_vars

(* The runs use the lock as UpdateLock.tla promises it and CacheLock.tla   *)
(* delivers it: they ask before they have it and give it up when they end. *)
LockPhase(p) ==
    IF pc[p] = "lock" THEN "asking" ELSE IF \E s \in Slot : lock[s] = p THEN "in" ELSE "out"
Lock == INSTANCE UpdateLock WITH
            holder <- lock,
            phase <- [p \in Proc |-> LockPhase(p)],
            reentrant <- [p \in Proc |-> FALSE]
KeepsLockPromise == Lock!ULSpec

(* A run's request, and the part of a run in which its setup (or adoption) *)
(* is complete and not yet recorded: not that of a run that found the mark *)
(* unchanged.                                                              *)
RequestOf(p) == [slot |-> SlotOf(p), ident |-> job[p].ident, force |-> job[p].force]
SetUpByNow(p) ==
    \/ child[p] = "ok" \/ pc[p] = "commit"
    \/ pc[p] = "touch" /\ (ConfOf(p).kind = "url" => ~view[p].known \/ view[p].mark # seen[p])

Serial == INSTANCE SerialUpdates WITH
            NoRequest <- NoJob,
            request <- [p \in Proc |-> IF pc[p] = "idle" THEN NoJob ELSE RequestOf(p)],
            ready <- {p \in Proc : SetUpByNow(p)}

ASSUME RequestAssumption == NoJob \notin Serial!Request

(* However runs interleave, wait and fail, what they make of the records   *)
(* is what they would have made of them one after the other.               *)
UpdatesAreSerial == Serial!SUSpec

-----------------------------------------------------------------------------
(* What the documentation says and the code does not keep.                 *)

(* README: after a failed setup "the next run tries again, whatever the    *)
(* schedule says": no run is skipped over a work directory in which its    *)
(* project's last setup failed.                                            *)
FailedSetupRetried ==
    [][\A p \in Proc : pc[p] = "decide" /\ pc'[p] \in {"exec", "finish"} =>
          LET w == work[SlotOf(p)]
          IN w.whole \/ \A t \in w.of : t.ident # job[p].ident]_vars

(* identity.c: a record decides "when previously completed setup stops     *)
(* counting", "the price of never running stale setup": the program handed *)
(* over is not what the setup of other content left behind.                *)
NeverStaleSetup ==
    [][\A p \in Proc :
          pc[p] # "program" /\ pc'[p] = "program" /\ ConfOf(p).bin = "cached" =>
              \A t \in work[SlotOf(p)].of : t.ident = job[p].ident]_vars

(* README and usage(): "--dry-run: report what would happen, change        *)
(* nothing": a run that only inspects leaves every record as it is.        *)
DryRunChangesNothing ==
    [][\A p \in Proc :
          pc[p] # "idle" /\ pc'[p] # pc[p] /\ job[p].mode = "inspect" =>
              record' = record]_vars

-----------------------------------------------------------------------------
(* A process that is scheduled goes on to its next step; a setup ends.     *)
(* The kernel does not pass one waiter over for ever when the lock is      *)
(* released again and again (F_SETLKW).                                    *)
Fairness ==
    \A p \in Proc :
        /\ WF_vars(Advance(p))
        /\ SF_vars(Acquire(p))
        /\ WF_vars(ChildEnds(p))

FairSpec == Spec /\ Fairness

(* Every run comes to an end or to its program, whatever other runs of the *)
(* project do and whichever of its calls fail: no exit path of the slow    *)
(* path keeps the lock.                                                    *)
EveryRunEnds == \A p \in Proc : (pc[p] # "idle") ~> (pc[p] \in {"idle", "program"})

=============================================================================
