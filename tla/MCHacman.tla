------------------------------ MODULE MCHacman ------------------------------
(***************************************************************************)
(* Values for the constants of Hacman.tla: the projects, options and       *)
(* faults the runs combine.                                                *)
(***************************************************************************)
EXTENDS HacmanProperties, TLC

CONSTANTS tool, toolNew,    \* two contents of one embedded project file
          nightly,          \* a command on a timed schedule, program on the host
          manual,           \* a command that waits for --force, program cached
          feed,             \* a URL with an install block and a cached program
          page              \* a URL with neither

Command(files, sched, interval, explicit, bin) ==
    [kind |-> "command", files |-> files, script |-> TRUE, sched |-> sched,
     interval |-> interval, explicit |-> explicit, bin |-> bin]
Url(script, interval, bin) ==
    [kind |-> "url", files |-> FALSE, script |-> script, sched |-> "every",
     interval |-> interval, explicit |-> TRUE, bin |-> bin]

AllConf == (tool    :> Command(TRUE, "every", 86400, FALSE, "cached"))
        @@ (toolNew :> Command(TRUE, "every", 86400, FALSE, "cached"))
        @@ (nightly :> Command(FALSE, "every", 1, TRUE, "host"))
        @@ (manual  :> Command(FALSE, "never", 1, TRUE, "cached"))
        @@ (feed    :> Url(TRUE, 1, "cached"))
        @@ (page    :> Url(FALSE, 1, "none"))
MCConf == [i \in Ident |-> AllConf[i]]

MCStored == [m \in Mark \cup {NoMark} |-> m]

(* Processes are alike; so are the two contents of the tool, and marks.    *)
SymmetryProc == Permutations(Proc)
Symmetry == UNION {Permutations(S) : S \in {Proc, Ident, Mark}}

Opt(mode, force, verbose) == [mode |-> mode, force |-> force, verbose |-> verbose]
Run == Opt("run", FALSE, FALSE)
RunForced == Opt("run", TRUE, FALSE)
RunVerbose == Opt("run", FALSE, TRUE)
Adopt == Opt("adopt", FALSE, FALSE)
Inspect == Opt("inspect", FALSE, FALSE)

RunOnly == {Run}
Lookers == {Run, Inspect}
Updaters == {Run, RunForced}
Recorders == {Run, RunForced, Adopt}
Everyone == {Run, RunVerbose, RunForced, Adopt, Inspect}
=============================================================================
