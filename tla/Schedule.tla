------------------------------ MODULE Schedule ------------------------------
(***************************************************************************)
(* When a project is due: the decision of is_due() (main.c) over a project *)
(* as config.c leaves it and the record as cache.c reads it.  Pure         *)
(* definitions only; Hacman.tla decides with them, twice per run.          *)
(***************************************************************************)
EXTENDS Integers

(***************************************************************************)
(* A parsed project file, cut down to what main.c branches on.             *)
(*   files     it embeds files (hm_project.file_count > 0)                 *)
(*   script    it has something to run: always so for a command, optional  *)
(*             for a url project (its install block)                       *)
(*   explicit  `schedule` is written in the file (schedule_explicit)       *)
(*   bin       no bin-path, one below the cache work directory             *)
(*             (bin_cached), or an absolute path on the host               *)
(***************************************************************************)
SchedKind == {"always", "every", "never"}

Project == [kind: {"url", "command"}, files: BOOLEAN, script: BOOLEAN,
            sched: SchedKind, interval: Int, explicit: BOOLEAN,
            bin: {"none", "cached", "host"}]

(* What config.c guarantees of a project it accepts: begin_project()'s     *)
(* defaults and finish_project()'s rules.                                  *)
Accepted(project) ==
    /\ project.kind = "command" => project.script
    /\ project.files => project.kind = "command"
    /\ ~project.explicit => project.sched = "every"

(* The last check is still recent: no branch of the timed part acts.       *)
Recent(project, lastCheck, now) ==
    /\ lastCheck # 0
    /\ lastCheck <= now
    /\ now - lastCheck < project.interval

(* The timed part of the decision, after the embedded-project exceptions.  *)
TimeIsUp(project, lastCheck, now) ==
    \/ project.sched = "always"
    \/ project.sched = "every" /\ ~Recent(project, lastCheck, now)

(* is_due(): `missing` is the outcome of the access() probe, FALSE where   *)
(* the caller passes check_bin = 0 or the project caches no program.       *)
IsDue(project, known, lastCheck, now, force, missing) ==
    \/ force
    \/ missing
    \/ project.files /\ ~known
    \/ /\ project.files => project.explicit
       /\ TimeIsUp(project, lastCheck, now)

=============================================================================
