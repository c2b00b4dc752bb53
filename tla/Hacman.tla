------------------------------- MODULE Hacman -------------------------------
(***************************************************************************)
(* Invocations of hacman that share one cache directory: main.c with the   *)
(* calls it makes into cache.c, install.c and check.c.                     *)
(*                                                                         *)
(* A process starts on a project file, loads that project's record without *)
(* a lock, decides whether the project is due, and either execs the        *)
(* program it set up earlier or goes the slow way: lock, reload, decide    *)
(* again, (check the URL,) empty and fill the work directory, run the      *)
(* setup child, save the record, unlock, exec the program.  Any number of  *)
(* processes interleave; files are edited, the remote moves on, the clock  *)
(* is set, setups fail, calls fail, processes are signalled and killed.    *)
(***************************************************************************)
EXTENDS Schedule, FiniteSets

CONSTANTS
    Proc,       \* process ids; an id is used again once its process is gone
    Source,     \* ways to name a project: a path, or standard input
    Piped,      \* the sources that are standard input
    Ident,      \* project identities: one per content of a project file
    Conf,       \* the parsed project each identity stands for
    Mark,       \* what a URL check can observe (etag, hash, version)
    Stored,     \* a mark as it reads back from a record (append_clean)
    Opts,       \* the option sets invocations use
    Faults,     \* what may go wrong: see FaultKind
    MaxTime,    \* bound on the clock
    NoIdent, NoMark, Nobody, NoJob

FaultKind == {"kill",    \* SIGKILL, or death before the handlers are in place
              "signal",  \* SIGTERM and friends
              "io",      \* a system call or the request fails
              "fail",    \* a setup script exits non-zero
              "rm"}      \* the user deletes a work directory

Option == [mode: {"run", "inspect", "adopt"}, force: BOOLEAN, verbose: BOOLEAN]

ASSUME NamesAssumption ==
    /\ Piped \subseteq Source
    /\ Source \cap Ident = {}
    /\ NoIdent \notin Ident
    /\ NoMark \notin Mark
    /\ Nobody \notin Proc
    /\ Opts \subseteq Option
    /\ Faults \subseteq FaultKind
    /\ MaxTime \in Nat \ {0}
ASSUME ConfAssumption ==
    /\ Conf \in [Ident -> Project]
    /\ \A i \in Ident : Accepted(Conf[i])
ASSUME StoredAssumption ==
    /\ Stored \in [Mark \cup {NoMark} -> Mark \cup {NoMark}]
    /\ Stored[NoMark] = NoMark
    /\ \A m \in Mark : Stored[Stored[m]] = Stored[m]

Time == 1..MaxTime

(***************************************************************************)
(* A slot is a cache address: a record, its lock file and its work         *)
(* directory.  An embedded project is addressed by its input path, all     *)
(* others, and embedded ones on standard input, by their identity          *)
(* (hm_cache_init).                                                        *)
(***************************************************************************)
Slot == Source \cup Ident
SlotAt(src, ident) == IF Conf[ident].files /\ src \notin Piped THEN src ELSE ident

Record == [ident: Ident \cup {NoIdent}, lastCheck: Time \cup {0}, mark: Mark \cup {NoMark}]
NoRecord == [ident |-> NoIdent, lastCheck |-> 0, mark |-> NoMark]

(* What a setup leaves in a work directory is tagged with what it set up.  *)
Tag == [ident: Ident, mark: Mark \cup {NoMark}]

(* of: the setups whose output is in it; whole: the last setup to start in *)
(* it completed; bin: the cached program is there; tmps: the processes     *)
(* whose half-written embedded file (<name>.tmp.<pid>) is there.           *)
WorkDir == [of: SUBSET Tag, whole: BOOLEAN, bin: BOOLEAN, tmps: SUBSET Proc]
EmptyDir == [of |-> {}, whole |-> FALSE, bin |-> FALSE, tmps |-> {}]

(* A file of p's setup is renamed into place; a setup starts to write.     *)
Placed(w, p, t) == [w EXCEPT !.tmps = @ \ {p}, !.of = @ \cup {t}]
Begun(w, t) == [w EXCEPT !.of = @ \cup {t}, !.whole = FALSE]

Job == [src: Source, ident: Ident, mode: {"run", "inspect", "adopt"},
        force: BOOLEAN, verbose: BOOLEAN]

(* The hm_cache fields a process read, and the time it decided at.         *)
View == [known: BOOLEAN, lastCheck: Time \cup {0}, mark: Mark \cup {NoMark},
         now: Time \cup {0}]
NoView == [known |-> FALSE, lastCheck |-> 0, mark |-> NoMark, now |-> 0]

PC == {"idle", "load", "decide", "exec", "probe", "lock", "reload", "recheck", "due",
       "compare", "reset", "removing", "stage", "rename", "fork", "wait",
       "commit", "touch", "unlock", "finish", "program"}

VARIABLES
    clock, source, remote,              \* the world outside
    record, lock, work, orphans, done,  \* per slot; done is history: the
                                        \* identities set up or adopted there
    pc, job, view, seen, child, interrupted, exit   \* per process

envVars == <<clock, source, remote>>
cacheVars == <<record, lock, work, orphans, done>>
localVars == <<pc, job, view, seen, child, interrupted, exit>>
vars == <<clock, source, remote, record, lock, work, orphans, done,
          pc, job, view, seen, child, interrupted, exit>>

SlotOf(p) == SlotAt(job[p].src, job[p].ident)
ConfOf(p) == Conf[job[p].ident]
TagOf(p) == [ident |-> job[p].ident, mark |-> seen[p]]
BinMissing(p) == ConfOf(p).bin = "cached" /\ ~work[SlotOf(p)].bin
Goto(p, label) == pc' = [pc EXCEPT ![p] = label]

Init ==
    /\ clock = 1
    /\ source \in [Source -> Ident]
    /\ remote \in [Ident -> Mark]
    /\ record = [s \in Slot |-> NoRecord]
    /\ lock = [s \in Slot |-> Nobody]
    /\ work = [s \in Slot |-> EmptyDir]
    /\ orphans = [s \in Slot |-> {}]
    /\ done = [s \in Slot |-> {}]
    /\ pc = [p \in Proc |-> "idle"]
    /\ job = [p \in Proc |-> NoJob]
    /\ view = [p \in Proc |-> NoView]
    /\ seen = [p \in Proc |-> NoMark]
    /\ child = [p \in Proc |-> "none"]
    /\ interrupted = [p \in Proc |-> FALSE]
    /\ exit = [p \in Proc |-> "ok"]

-----------------------------------------------------------------------------
(* The fast path.                                                          *)

(* parse_args() and the read of FILE: the content, and so the identity,    *)
(* is fixed here for the rest of the run.                                  *)
Start(p) ==
    /\ pc[p] = "idle"
    /\ \E s \in Source, o \in Opts :
          job' = [job EXCEPT ![p] = [src |-> s, ident |-> source[s], mode |-> o.mode,
                                     force |-> o.force, verbose |-> o.verbose]]
    /\ Goto(p, "load")
    /\ UNCHANGED <<envVars, cacheVars, view, seen, child, interrupted, exit>>

(* MUTANT: the identity line of the record is not compared.                *)
TrustedBlindly(rec, ident) ==
    IF rec.ident # NoIdent
    THEN [known |-> TRUE, lastCheck |-> rec.lastCheck, mark |-> rec.mark, now |-> 0]
    ELSE NoView

(* hm_cache_load(): a record of another identity counts as no record.      *)
Trusted(rec, ident) ==
    IF rec.ident = ident
    THEN [known |-> TRUE, lastCheck |-> rec.lastCheck, mark |-> rec.mark, now |-> 0]
    ELSE NoView

Load(p) ==
    /\ pc[p] \in {"load", "reload"}
    /\ view' = [view EXCEPT ![p] = Trusted(record[SlotOf(p)], job[p].ident)]
    /\ Goto(p, IF pc[p] = "load" THEN "decide" ELSE "recheck")
    /\ UNCHANGED <<envVars, cacheVars, job, seen, child, interrupted, exit>>

(* Leave through finish_locked() or finish() with this exit status.        *)
GiveUp(p, status) ==
    /\ exit' = [exit EXCEPT ![p] = status]
    /\ Goto(p, "unlock")

LoadFails(p) ==
    /\ "io" \in Faults
    /\ pc[p] \in {"load", "reload"}
    /\ GiveUp(p, "usage")
    /\ UNCHANGED <<envVars, cacheVars, job, view, seen, child, interrupted>>

DueNow(p, probe) ==
    IsDue(ConfOf(p), view[p].known, view[p].lastCheck, clock, job[p].force,
          probe /\ BinMissing(p))

(* A quiet run of a cached program lets execv() do the access() probe.     *)
ExecCheck(p) == ConfOf(p).bin = "cached" /\ ~job[p].verbose /\ job[p].mode = "run"

(* MUTANT: --force goes straight to work, without the lock.                *)
DecideForceUnlocked(p) ==
    /\ pc[p] = "decide"
    /\ view' = [view EXCEPT ![p].now = clock]
    /\ Goto(p, IF DueNow(p, ~ExecCheck(p))
               THEN IF job[p].mode = "inspect" \/ job[p].force THEN "due" ELSE "lock"
               ELSE IF ExecCheck(p) THEN "exec" ELSE "finish")
    /\ UNCHANGED <<envVars, cacheVars, job, seen, child, interrupted, exit>>

Decide(p) ==
    /\ pc[p] = "decide"
    /\ view' = [view EXCEPT ![p].now = clock]
    /\ Goto(p, IF DueNow(p, ~ExecCheck(p))
               THEN IF job[p].mode = "inspect" THEN "due" ELSE "lock"
               ELSE IF ExecCheck(p) THEN "exec" ELSE "finish")
    /\ UNCHANGED <<envVars, cacheVars, job, seen, child, interrupted, exit>>

(* execv() of the cached program, and after it failed access(): the        *)
(* program really is missing (go and set it up), or it is there and        *)
(* cannot be started.                                                      *)
ExecCached(p) ==
    /\ pc[p] = "exec"
    /\ Goto(p, IF BinMissing(p) THEN "probe" ELSE "program")
    /\ UNCHANGED <<envVars, cacheVars, job, view, seen, child, interrupted, exit>>

ProbeMissing(p) ==
    /\ pc[p] = "probe"
    /\ BinMissing(p)
    /\ Goto(p, "lock")
    /\ UNCHANGED <<envVars, cacheVars, job, view, seen, child, interrupted, exit>>

ProbePresent(p) ==
    /\ pc[p] = "probe"
    /\ ~BinMissing(p)
    /\ GiveUp(p, "noexec")
    /\ UNCHANGED <<envVars, cacheVars, job, view, seen, child, interrupted>>

-----------------------------------------------------------------------------
(* The update lock (hm_cache_lock; CacheLock.tla has its inside).          *)

(* MUTANT: a busy lock is taken for granted.                               *)
LockIgnored(s) == s \in Slot

LockFree(s) == lock[s] = Nobody

(* MUTANT: the record read before the wait is trusted after it.            *)
AcquireWithoutReload(p) ==
    /\ pc[p] = "lock"
    /\ LockFree(SlotOf(p))
    /\ lock' = [lock EXCEPT ![SlotOf(p)] = p]
    /\ Goto(p, "recheck")
    /\ UNCHANGED <<envVars, record, work, orphans, done, job, view, seen, child,
                   interrupted, exit>>

Acquire(p) ==
    /\ pc[p] = "lock"
    /\ LockFree(SlotOf(p))
    /\ lock' = [lock EXCEPT ![SlotOf(p)] = p]
    /\ Goto(p, "reload")
    /\ UNCHANGED <<envVars, record, work, orphans, done, job, view, seen, child,
                   interrupted, exit>>

LockFails(p) ==
    /\ "io" \in Faults
    /\ pc[p] = "lock"
    /\ GiveUp(p, "failed")
    /\ UNCHANGED <<envVars, cacheVars, job, view, seen, child, interrupted>>

(* MUTANT: no second decision under the lock.                              *)
RecheckSkipped(p) ==
    /\ pc[p] = "recheck"
    /\ view' = [view EXCEPT ![p].now = clock]
    /\ Goto(p, "due")
    /\ UNCHANGED <<envVars, cacheVars, job, seen, child, interrupted, exit>>

Recheck(p) ==
    /\ pc[p] = "recheck"
    /\ view' = [view EXCEPT ![p].now = clock]
    /\ Goto(p, IF DueNow(p, TRUE) THEN "due" ELSE "unlock")
    /\ UNCHANGED <<envVars, cacheVars, job, seen, child, interrupted, exit>>

(* MUTANT: an exit path that forgets hm_cache_unlock().                    *)
NotReleased(p) == [s \in Slot |-> IF p \in Proc THEN lock[s] ELSE Nobody]

Released(p) == [s \in Slot |-> IF lock[s] = p THEN Nobody ELSE lock[s]]

Unlock(p) ==
    /\ pc[p] = "unlock"
    /\ lock' = Released(p)
    /\ Goto(p, "finish")
    /\ UNCHANGED <<envVars, record, work, orphans, done, job, view, seen, child,
                   interrupted, exit>>

-----------------------------------------------------------------------------
(* A due command project (run_command_project).                            *)

Inspected(p) == job[p].mode = "inspect"

ReportDue(p) ==
    /\ pc[p] = "due" /\ ConfOf(p).kind = "command" /\ Inspected(p)
    /\ GiveUp(p, "changed")
    /\ UNCHANGED <<envVars, cacheVars, job, view, seen, child, interrupted>>

(* Recording the state as it is counts as done without running anything.   *)
Adopted(p) ==
    /\ done' = [done EXCEPT ![SlotOf(p)] = @ \cup {job[p].ident}]
    /\ Goto(p, "touch")

AdoptCommand(p) ==
    /\ pc[p] = "due" /\ ConfOf(p).kind = "command" /\ job[p].mode = "adopt"
    /\ Adopted(p)
    /\ UNCHANGED <<envVars, record, lock, work, orphans, job, view, seen, child,
                   interrupted, exit>>

Filled(p) == IF ConfOf(p).files THEN "stage" ELSE "fork"

(* MUTANT: the work directory is never emptied before a command.           *)
FirstStepNoReset(p) == Filled(p)

(* Only a run whose record matches keeps what is in the work directory.    *)
FirstStep(p) == IF view[p].known THEN Filled(p) ELSE "reset"

BeginCommand(p) ==
    /\ pc[p] = "due" /\ ConfOf(p).kind = "command" /\ job[p].mode = "run"
    /\ Goto(p, FirstStep(p))
    /\ UNCHANGED <<envVars, cacheVars, job, view, seen, child, interrupted, exit>>

-----------------------------------------------------------------------------
(* A due url project: hm_check() and the comparison in main().             *)

CheckUrl(p) ==
    /\ pc[p] = "due" /\ ConfOf(p).kind = "url"
    /\ seen' = [seen EXCEPT ![p] = remote[job[p].ident]]
    /\ Goto(p, "compare")
    /\ UNCHANGED <<envVars, cacheVars, job, view, child, interrupted, exit>>

CheckFails(p) ==
    /\ "io" \in Faults
    /\ pc[p] = "due" /\ ConfOf(p).kind = "url"
    /\ GiveUp(p, "failed")
    /\ UNCHANGED <<envVars, cacheVars, job, view, seen, child, interrupted>>

Changed(p) == BinMissing(p) \/ ~view[p].known \/ view[p].mark # seen[p]

(* Also what --check-only and --dry-run do, which hold no lock.            *)
Unchanged(p) ==
    /\ pc[p] = "compare" /\ ~Changed(p)
    /\ Goto(p, "touch")
    /\ UNCHANGED <<envVars, cacheVars, job, view, seen, child, interrupted, exit>>

ReportChanged(p) ==
    /\ pc[p] = "compare" /\ Changed(p) /\ Inspected(p)
    /\ GiveUp(p, "changed")
    /\ UNCHANGED <<envVars, cacheVars, job, view, seen, child, interrupted>>

AdoptUrl(p) ==
    /\ pc[p] = "compare" /\ Changed(p) /\ job[p].mode = "adopt"
    /\ Adopted(p)
    /\ UNCHANGED <<envVars, record, lock, work, orphans, job, view, seen, child,
                   interrupted, exit>>

BeginInstall(p) ==
    /\ pc[p] = "compare" /\ Changed(p) /\ job[p].mode = "run"
    /\ Goto(p, "reset")
    /\ UNCHANGED <<envVars, cacheVars, job, view, seen, child, interrupted, exit>>

-----------------------------------------------------------------------------
(* Filling the work directory (install.c).                                 *)

(* remove_tree() goes entry by entry: the program may be gone early on.    *)
BeginReset(p) ==
    /\ pc[p] = "reset"
    /\ \E b \in {FALSE, work[SlotOf(p)].bin} :
          work' = [work EXCEPT ![SlotOf(p)] = [@ EXCEPT !.whole = FALSE, !.bin = b]]
    /\ Goto(p, "removing")
    /\ UNCHANGED <<envVars, record, lock, orphans, done, job, view, seen, child,
                   interrupted, exit>>

EndReset(p) ==
    /\ pc[p] = "removing"
    /\ work' = [work EXCEPT ![SlotOf(p)] = EmptyDir]
    /\ Goto(p, Filled(p))
    /\ UNCHANGED <<envVars, record, lock, orphans, done, job, view, seen, child,
                   interrupted, exit>>

(* rmdir() of a directory that a surviving setup keeps filling fails too.  *)
ResetFails(p) ==
    /\ pc[p] = "removing"
    /\ "io" \in Faults \/ orphans[SlotOf(p)] # {}
    /\ GiveUp(p, "failed")
    /\ UNCHANGED <<envVars, cacheVars, job, view, seen, child, interrupted>>

(* write_embedded_file(): the temporary is created with O_EXCL under the   *)
(* process id, then renamed over the target.  All files go as one.         *)
StageFile(p) ==
    /\ pc[p] = "stage" /\ p \notin work[SlotOf(p)].tmps
    /\ work' = [work EXCEPT ![SlotOf(p)].tmps = @ \cup {p}]
    /\ Goto(p, "rename")
    /\ UNCHANGED <<envVars, record, lock, orphans, done, job, view, seen, child,
                   interrupted, exit>>

RenameFile(p) ==
    /\ pc[p] = "rename"
    /\ work' = [work EXCEPT ![SlotOf(p)] = Placed(@, p, TagOf(p))]
    /\ Goto(p, "fork")
    /\ UNCHANGED <<envVars, record, lock, orphans, done, job, view, seen, child,
                   interrupted, exit>>

(* Every failure but that of the O_EXCL open unlinks the temporary.        *)
StageFails(p) ==
    /\ \/ pc[p] = "stage" /\ ("io" \in Faults \/ p \in work[SlotOf(p)].tmps)
          /\ UNCHANGED work
       \/ pc[p] = "rename" /\ "io" \in Faults
          /\ work' = [work EXCEPT ![SlotOf(p)].tmps = @ \ {p}]
    /\ GiveUp(p, "failed")
    /\ UNCHANGED <<envVars, record, lock, orphans, done, job, view, seen, child,
                   interrupted>>

(* hm_install() of a project without an install block reports success.     *)
NoScript(p) ==
    /\ pc[p] = "fork" /\ ~ConfOf(p).script
    /\ Adopted(p)
    /\ UNCHANGED <<envVars, record, lock, work, orphans, job, view, seen, child,
                   interrupted, exit>>

Fork(p) ==
    /\ pc[p] = "fork" /\ ConfOf(p).script
    /\ child' = [child EXCEPT ![p] = "running"]
    /\ work' = [work EXCEPT ![SlotOf(p)] = Begun(@, TagOf(p))]
    /\ Goto(p, "wait")
    /\ UNCHANGED <<envVars, record, lock, orphans, done, job, view, seen, interrupted,
                   exit>>

ForkFails(p) ==
    /\ "io" \in Faults
    /\ pc[p] = "fork" /\ ConfOf(p).script
    /\ GiveUp(p, "failed")
    /\ UNCHANGED <<envVars, cacheVars, job, view, seen, child, interrupted>>

-----------------------------------------------------------------------------
(* The setup child: a shell that may do anything to its work directory.    *)

ChildWrites(p) ==
    /\ child[p] = "running" /\ ConfOf(p).bin = "cached"
    /\ work' = [work EXCEPT ![SlotOf(p)].bin = ~@]
    /\ UNCHANGED <<envVars, record, lock, orphans, done, localVars>>

ChildSucceeds(p) ==
    /\ child[p] = "running"
    /\ child' = [child EXCEPT ![p] = "ok"]
    /\ work' = [work EXCEPT ![SlotOf(p)].whole = TRUE]
    /\ done' = [done EXCEPT ![SlotOf(p)] = @ \cup {job[p].ident}]
    /\ UNCHANGED <<envVars, record, lock, orphans, pc, job, view, seen, interrupted, exit>>

ChildFails(p) ==
    /\ child[p] = "running"
    /\ "fail" \in Faults \/ interrupted[p]
    /\ child' = [child EXCEPT ![p] = "failed"]
    /\ UNCHANGED <<envVars, cacheVars, pc, job, view, seen, interrupted, exit>>

(* forward_signal(): hacman only remembers the signal and passes it on.    *)
Interrupt(p) ==
    /\ "signal" \in Faults
    /\ pc[p] = "wait" /\ ~interrupted[p]
    /\ interrupted' = [interrupted EXCEPT ![p] = TRUE]
    /\ UNCHANGED <<envVars, cacheVars, pc, job, view, seen, child, exit>>

(* MUTANT: the exit status of the child is not looked at.                  *)
ReapAnyStatus(p) ==
    /\ pc[p] = "wait" /\ child[p] \in {"ok", "failed"} /\ ~interrupted[p]
    /\ child' = [child EXCEPT ![p] = "none"]
    /\ Goto(p, "commit")
    /\ UNCHANGED <<envVars, cacheVars, job, view, seen, interrupted, exit>>

(* waitpid() returned and no signal came in between.                       *)
Reap(p) ==
    /\ pc[p] = "wait" /\ child[p] \in {"ok", "failed"} /\ ~interrupted[p]
    /\ child' = [child EXCEPT ![p] = "none"]
    /\ IF child[p] = "ok" THEN Goto(p, "commit") /\ UNCHANGED exit ELSE GiveUp(p, "failed")
    /\ UNCHANGED <<envVars, cacheVars, job, view, seen, interrupted>>

(* MUTANT: raise() returns and the process carries on without its locals.  *)
GoneButRunning(p) ==
    /\ Goto(p, "commit")
    /\ job' = [job EXCEPT ![p] = NoJob]
    /\ view' = [view EXCEPT ![p] = NoView]
    /\ UNCHANGED <<seen, child, interrupted, exit>>

(* The process is gone: the kernel drops its locals and its lock.          *)
Gone(p) ==
    /\ Goto(p, "idle")
    /\ job' = [job EXCEPT ![p] = NoJob]
    /\ view' = [view EXCEPT ![p] = NoView]
    /\ seen' = [seen EXCEPT ![p] = NoMark]
    /\ child' = [child EXCEPT ![p] = "none"]
    /\ interrupted' = [interrupted EXCEPT ![p] = FALSE]
    /\ exit' = [exit EXCEPT ![p] = "ok"]

(* forward_signals_reraise(): cleaned up, nothing recorded, die.           *)
Reraise(p) ==
    /\ pc[p] = "wait" /\ child[p] \in {"ok", "failed"} /\ interrupted[p]
    /\ lock' = Released(p)
    /\ Gone(p)
    /\ UNCHANGED <<envVars, record, work, orphans, done>>

-----------------------------------------------------------------------------
(* Recording, and handing over.                                            *)

(* hm_cache_save(): rename() makes the record appear at once.  An          *)
(* unchanged URL and an adopted or unscripted project come here by         *)
(* "touch", a completed setup by "commit".                                 *)
Save(p) ==
    /\ pc[p] \in {"commit", "touch"}
    /\ record' = [record EXCEPT ![SlotOf(p)] =
                    [ident |-> job[p].ident, lastCheck |-> view[p].now,
                     mark |-> Stored[IF ConfOf(p).kind = "url" THEN seen[p]
                                     ELSE view[p].mark]]]
    /\ Goto(p, "unlock")
    /\ UNCHANGED <<envVars, lock, work, orphans, done, job, view, seen, child,
                   interrupted, exit>>

SaveFails(p) ==
    /\ "io" \in Faults
    /\ pc[p] \in {"commit", "touch"}
    /\ GiveUp(p, "failed")
    /\ UNCHANGED <<envVars, cacheVars, job, view, seen, child, interrupted>>

(* finish(): the exec, of a cached program only if it is there.            *)
HandsOver(p) ==
    /\ exit[p] = "ok" /\ job[p].mode = "run"
    /\ ConfOf(p).bin # "none" /\ ~BinMissing(p)

Handover(p) ==
    /\ pc[p] = "finish" /\ HandsOver(p)
    /\ Goto(p, "program")
    /\ UNCHANGED <<envVars, cacheVars, job, view, seen, child, interrupted, exit>>

Leave(p) ==
    /\ \/ pc[p] = "finish" /\ ~HandsOver(p)
       \/ pc[p] = "program"
    /\ Gone(p)
    /\ UNCHANGED <<envVars, cacheVars>>

(* Killed, or signalled while no setup runs: no handler, nothing cleaned   *)
(* up.  A setup child that runs has lost its supervisor; only its shell    *)
(* gets PR_SET_PDEATHSIG's SIGTERM, which it may trap and which what it    *)
(* started never sees.                                                     *)
Die(p) ==
    /\ pc[p] \notin {"idle", "program"}
    /\ "kill" \in Faults \/ ("signal" \in Faults /\ pc[p] # "wait")
    /\ lock' = Released(p)
    /\ \E survives \in {child[p] = "running", FALSE} :
          orphans' = IF survives
                     THEN [orphans EXCEPT ![SlotOf(p)] = @ \cup {TagOf(p)}]
                     ELSE orphans
    /\ Gone(p)
    /\ UNCHANGED <<envVars, record, work, done>>

OrphanWrites(s) ==
    /\ \E t \in orphans[s], b \in BOOLEAN :
          /\ Conf[t.ident].bin # "cached" => b = work[s].bin
          /\ work' = [work EXCEPT ![s] = [Begun(@, t) EXCEPT !.bin = b]]
    /\ UNCHANGED <<envVars, record, lock, orphans, done, localVars>>

OrphanEnds(s) ==
    /\ \E t \in orphans[s] : orphans' = [orphans EXCEPT ![s] = @ \ {t}]
    /\ UNCHANGED <<envVars, record, lock, work, done, localVars>>

-----------------------------------------------------------------------------
(* The world.                                                              *)

Edit(s) ==
    /\ \E i \in Ident \ {source[s]} : source' = [source EXCEPT ![s] = i]
    /\ UNCHANGED <<clock, remote, cacheVars, localVars>>

RemoteChanges(i) ==
    /\ Conf[i].kind = "url"
    /\ \E m \in Mark \ {remote[i]} : remote' = [remote EXCEPT ![i] = m]
    /\ UNCHANGED <<clock, source, cacheVars, localVars>>

(* Time passes, or someone sets the clock back.                            *)
Tick ==
    /\ clock' \in Time \ {clock}
    /\ UNCHANGED <<source, remote, cacheVars, localVars>>

WorkDirRemoved(s) ==
    /\ "rm" \in Faults /\ work[s] # EmptyDir
    /\ work' = [work EXCEPT ![s] = EmptyDir]
    /\ UNCHANGED <<envVars, record, lock, orphans, done, localVars>>

(* One process: what it does next when nothing goes wrong ...              *)
Advance(p) ==
    \/ Load(p) \/ Decide(p) \/ ExecCached(p) \/ ProbeMissing(p) \/ ProbePresent(p)
    \/ Recheck(p) \/ Unlock(p)
    \/ ReportDue(p) \/ AdoptCommand(p) \/ BeginCommand(p)
    \/ CheckUrl(p) \/ Unchanged(p) \/ ReportChanged(p) \/ AdoptUrl(p) \/ BeginInstall(p)
    \/ BeginReset(p) \/ EndReset(p) \/ StageFile(p) \/ RenameFile(p) \/ StageFails(p)
    \/ NoScript(p) \/ Fork(p) \/ Reap(p) \/ Reraise(p)
    \/ Save(p) \/ Handover(p) \/ Leave(p)

(* ... and when a call fails.                                              *)
CallFails(p) ==
    \/ LoadFails(p) \/ LockFails(p) \/ CheckFails(p) \/ ResetFails(p)
    \/ ForkFails(p) \/ SaveFails(p)

ChildEnds(p) == ChildSucceeds(p) \/ ChildFails(p)

Process(p) ==
    \/ Start(p) \/ Acquire(p) \/ Advance(p) \/ CallFails(p)
    \/ ChildWrites(p) \/ ChildEnds(p) \/ Interrupt(p) \/ Die(p)

World ==
    \/ \E s \in Source : Edit(s)
    \/ \E i \in Ident : RemoteChanges(i)
    \/ \E s \in Slot : OrphanWrites(s) \/ OrphanEnds(s) \/ WorkDirRemoved(s)
    \/ Tick

Next == (\E p \in Proc : Process(p)) \/ World

Spec == Init /\ [][Next]_vars

=============================================================================
