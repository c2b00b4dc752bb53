---------------------------- MODULE HacmanProofs ----------------------------
(***************************************************************************)
(* The safety of Hacman.tla for every value of its constants: any number   *)
(* of processes, projects, contents and marks, and every fault, but where  *)
(* a theorem names what it assumes away.                                   *)
(***************************************************************************)
EXTENDS HacmanProperties, FiniteSetTheorems, TLAPS

-----------------------------------------------------------------------------
(* Types.                                                                  *)

(* A setup child exists only while its hacman waits for it.                *)
ChildIsAwaited == \A p \in Proc : child[p] # "none" => pc[p] = "wait"
Base == TypeOK /\ ChildIsAwaited

(* What a process that has started is about is well formed.                *)
LEMMA SlotType ==
  ASSUME TypeOK, NEW p \in Proc, pc[p] # "idle"
  PROVE  /\ job[p] \in Job
         /\ SlotOf(p) \in Slot
         /\ ConfOf(p) \in Project
         /\ TagOf(p) \in Tag
<1>1. job[p] \in Job
  BY DEF TypeOK
<1> QED
  BY <1>1, ConfAssumption DEF TypeOK, SlotOf, SlotAt, Slot, Job, ConfOf, TagOf, Tag

(* The ways a work directory changes.                                      *)
LEMMA FlagUpdate ==
  ASSUME NEW w \in WorkDir, NEW b \in BOOLEAN
  PROVE  /\ [w EXCEPT !.whole = b] \in WorkDir
         /\ [w EXCEPT !.bin = ~@] \in WorkDir
         /\ [w EXCEPT !.whole = FALSE, !.bin = b] \in WorkDir
  BY DEF WorkDir

(* A setup's own output is a tag.                                          *)
LEMMA TagUpdate ==
  ASSUME NEW w \in WorkDir, NEW t \in Tag
  PROVE  /\ Begun(w, t) \in WorkDir
         /\ \A b \in BOOLEAN : [Begun(w, t) EXCEPT !.bin = b] \in WorkDir
  BY DEF WorkDir, Begun

(* Embedded files come and go under the process id.                        *)
LEMMA TmpUpdate ==
  ASSUME NEW w \in WorkDir, NEW p \in Proc
  PROVE  /\ [w EXCEPT !.tmps = @ \cup {p}] \in WorkDir
         /\ [w EXCEPT !.tmps = @ \ {p}] \in WorkDir
         /\ \A t \in Tag : Placed(w, p, t) \in WorkDir
  BY DEF WorkDir, Placed

(* What hm_workdir_reset() leaves is a work directory.                     *)
LEMMA EmptyDirType == EmptyDir \in WorkDir
  BY DEF EmptyDir, WorkDir

(* Deciding notes the time and changes nothing else.                       *)
LEMMA ViewUpdate ==
  ASSUME NEW v \in View, NEW t \in Time
  PROVE  [v EXCEPT !.now = t] \in View
  BY DEF View

(* Types hold at the start ...                                             *)
LEMMA InitBase == Init => Base
  BY NamesAssumption, EmptyDirType
     DEF Init, Base, TypeOK, ChildIsAwaited, NoRecord, Record, NoView, View, Time, PC

(* ... and no action breaks them: one step per action.                     *)
LEMMA NextBase == Base /\ [Next]_vars => Base'
<1> SUFFICES ASSUME Base, [Next]_vars PROVE Base'
  OBVIOUS
<1> USE NamesAssumption
    DEF Base, TypeOK, ChildIsAwaited, envVars, cacheVars, localVars, Goto, GiveUp, PC
<1>1. CASE UNCHANGED vars
  BY <1>1 DEF vars
<1>2. ASSUME NEW p \in Proc, Start(p)
      PROVE  Base'
  <2>1. job' \in [Proc -> Job \cup {NoJob}] /\ job'[p] \in Job
    BY <1>2 DEF Start, Job, Option
  <2> QED
    BY <1>2, <2>1 DEF Start
<1>3. ASSUME NEW p \in Proc, Load(p)
      PROVE  Base'
  <2>1. Trusted(record[SlotOf(p)], job[p].ident) \in View
    BY <1>3, SlotType DEF Load, Trusted, Record, View, NoView
  <2> QED
    BY <1>3, <2>1 DEF Load
<1>4. ASSUME NEW p \in Proc, LoadFails(p)
      PROVE  Base'
  BY <1>4 DEF LoadFails
<1>5. ASSUME NEW p \in Proc, Decide(p)
      PROVE  Base'
  <2>1. view' \in [Proc -> View]
    BY <1>5, ViewUpdate DEF Decide
  <2> QED
    BY <1>5, <2>1 DEF Decide
<1>6. ASSUME NEW p \in Proc, ExecCached(p)
      PROVE  Base'
  BY <1>6 DEF ExecCached
<1>7. ASSUME NEW p \in Proc, ProbeMissing(p)
      PROVE  Base'
  BY <1>7 DEF ProbeMissing
<1>8. ASSUME NEW p \in Proc, ProbePresent(p)
      PROVE  Base'
  BY <1>8 DEF ProbePresent
<1>9. ASSUME NEW p \in Proc, Acquire(p)
      PROVE  Base'
  BY <1>9 DEF Acquire
<1>10. ASSUME NEW p \in Proc, LockFails(p)
      PROVE  Base'
  BY <1>10 DEF LockFails
<1>11. ASSUME NEW p \in Proc, Recheck(p)
      PROVE  Base'
  <2>1. view' \in [Proc -> View]
    BY <1>11, ViewUpdate DEF Recheck
  <2> QED
    BY <1>11, <2>1 DEF Recheck
<1>12. ASSUME NEW p \in Proc, Unlock(p)
      PROVE  Base'
  BY <1>12 DEF Unlock, Released
<1>13. ASSUME NEW p \in Proc, ReportDue(p)
      PROVE  Base'
  BY <1>13 DEF ReportDue
<1>14. ASSUME NEW p \in Proc, AdoptCommand(p)
      PROVE  Base'
  <2>1. done' \in [Slot -> SUBSET Ident]
    BY <1>14, SlotType DEF AdoptCommand, Adopted, Job
  <2> QED
    BY <1>14, <2>1 DEF AdoptCommand, Adopted
<1>15. ASSUME NEW p \in Proc, BeginCommand(p)
      PROVE  Base'
  BY <1>15 DEF BeginCommand, FirstStep, Filled
<1>16. ASSUME NEW p \in Proc, CheckUrl(p)
      PROVE  Base'
  BY <1>16, SlotType DEF CheckUrl, Job
<1>17. ASSUME NEW p \in Proc, CheckFails(p)
      PROVE  Base'
  BY <1>17 DEF CheckFails
<1>18. ASSUME NEW p \in Proc, Unchanged(p)
      PROVE  Base'
  BY <1>18 DEF Unchanged
<1>19. ASSUME NEW p \in Proc, ReportChanged(p)
      PROVE  Base'
  BY <1>19 DEF ReportChanged
<1>20. ASSUME NEW p \in Proc, AdoptUrl(p)
      PROVE  Base'
  <2>1. done' \in [Slot -> SUBSET Ident]
    BY <1>20, SlotType DEF AdoptUrl, Adopted, Job
  <2> QED
    BY <1>20, <2>1 DEF AdoptUrl, Adopted
<1>21. ASSUME NEW p \in Proc, BeginInstall(p)
      PROVE  Base'
  BY <1>21 DEF BeginInstall
<1>22. ASSUME NEW p \in Proc, BeginReset(p)
      PROVE  Base'
  <2>1. PICK b \in {FALSE, work[SlotOf(p)].bin} :
           work' = [work EXCEPT ![SlotOf(p)] = [@ EXCEPT !.whole = FALSE, !.bin = b]]
    BY <1>22 DEF BeginReset
  <2>2. b \in BOOLEAN
    <3>1. SlotOf(p) \in Slot
      BY <1>22, SlotType DEF BeginReset
    <3>2. work[SlotOf(p)].bin \in BOOLEAN
      BY <3>1 DEF WorkDir
    <3> QED
      BY <3>2
  <2>3. work' \in [Slot -> WorkDir]
    BY <1>22, <2>1, <2>2, SlotType, FlagUpdate DEF BeginReset
  <2> QED
    BY <1>22, <2>3 DEF BeginReset
<1>23. ASSUME NEW p \in Proc, EndReset(p)
      PROVE  Base'
  <2>1. work' \in [Slot -> WorkDir]
    BY <1>23, SlotType, EmptyDirType DEF EndReset
  <2> QED
    BY <1>23, <2>1 DEF EndReset, Filled
<1>24. ASSUME NEW p \in Proc, ResetFails(p)
      PROVE  Base'
  BY <1>24 DEF ResetFails
<1>25. ASSUME NEW p \in Proc, StageFile(p)
      PROVE  Base'
  <2>1. work' \in [Slot -> WorkDir]
    BY <1>25, SlotType, TmpUpdate DEF StageFile
  <2> QED
    BY <1>25, <2>1 DEF StageFile
<1>26. ASSUME NEW p \in Proc, RenameFile(p)
      PROVE  Base'
  <2>1. work' \in [Slot -> WorkDir]
    BY <1>26, SlotType, TmpUpdate DEF RenameFile
  <2> QED
    BY <1>26, <2>1 DEF RenameFile
<1>27. ASSUME NEW p \in Proc, StageFails(p)
      PROVE  Base'
  <2>1. work' \in [Slot -> WorkDir]
    <3>1. SlotOf(p) \in Slot /\ work[SlotOf(p)] \in WorkDir
      BY <1>27, SlotType DEF StageFails
    <3>2. [work[SlotOf(p)] EXCEPT !.tmps = @ \ {p}] \in WorkDir
      BY <3>1, TmpUpdate
    <3>3. CASE work' = work
      BY <3>3
    <3>4. CASE work' = [work EXCEPT ![SlotOf(p)].tmps = @ \ {p}]
      BY <3>1, <3>2, <3>4
    <3> QED
      BY <1>27, <3>3, <3>4 DEF StageFails
  <2> QED
    BY <1>27, <2>1 DEF StageFails
<1>28. ASSUME NEW p \in Proc, NoScript(p)
      PROVE  Base'
  <2>1. done' \in [Slot -> SUBSET Ident]
    BY <1>28, SlotType DEF NoScript, Adopted, Job
  <2> QED
    BY <1>28, <2>1 DEF NoScript, Adopted
<1>29. ASSUME NEW p \in Proc, Fork(p)
      PROVE  Base'
  <2>1. work' \in [Slot -> WorkDir]
    BY <1>29, SlotType, TagUpdate DEF Fork
  <2> QED
    BY <1>29, <2>1 DEF Fork
<1>30. ASSUME NEW p \in Proc, ForkFails(p)
      PROVE  Base'
  BY <1>30 DEF ForkFails
<1>31. ASSUME NEW p \in Proc, ChildWrites(p)
      PROVE  Base'
  <2>1. work' \in [Slot -> WorkDir]
    BY <1>31, SlotType, FlagUpdate DEF ChildWrites
  <2> QED
    BY <1>31, <2>1 DEF ChildWrites
<1>32. ASSUME NEW p \in Proc, ChildSucceeds(p)
      PROVE  Base'
  <2>1. work' \in [Slot -> WorkDir]
    BY <1>32, SlotType, FlagUpdate DEF ChildSucceeds
  <2>2. done' \in [Slot -> SUBSET Ident]
    BY <1>32, SlotType DEF ChildSucceeds, Job
  <2> QED
    BY <1>32, <2>1, <2>2 DEF ChildSucceeds
<1>33. ASSUME NEW p \in Proc, ChildFails(p)
      PROVE  Base'
  BY <1>33 DEF ChildFails
<1>34. ASSUME NEW p \in Proc, Interrupt(p)
      PROVE  Base'
  BY <1>34 DEF Interrupt
<1>35. ASSUME NEW p \in Proc, Reap(p)
      PROVE  Base'
  BY <1>35 DEF Reap
<1>36. ASSUME NEW p \in Proc, Reraise(p)
      PROVE  Base'
  BY <1>36 DEF Reraise, Gone, Released, NoView, View
<1>37. ASSUME NEW p \in Proc, Save(p)
      PROVE  Base'
  <2>1. record' \in [Slot -> Record]
    BY <1>37, SlotType, StoredAssumption DEF Save, Record, View, Job
  <2> QED
    BY <1>37, <2>1 DEF Save
<1>38. ASSUME NEW p \in Proc, SaveFails(p)
      PROVE  Base'
  BY <1>38 DEF SaveFails
<1>39. ASSUME NEW p \in Proc, Handover(p)
      PROVE  Base'
  BY <1>39 DEF Handover
<1>40. ASSUME NEW p \in Proc, Leave(p)
      PROVE  Base'
  BY <1>40 DEF Leave, Gone, NoView, View
<1>41. ASSUME NEW p \in Proc, Die(p)
      PROVE  Base'
  BY <1>41, SlotType DEF Die, Gone, Released, NoView, View
<1>42. ASSUME NEW s \in Source, Edit(s)
      PROVE  Base'
  BY <1>42 DEF Edit
<1>43. ASSUME NEW i \in Ident, RemoteChanges(i)
      PROVE  Base'
  BY <1>43 DEF RemoteChanges
<1>44. ASSUME NEW s \in Slot, OrphanWrites(s)
      PROVE  Base'
  <2>1. work' \in [Slot -> WorkDir]
    BY <1>44, TagUpdate DEF OrphanWrites
  <2> QED
    BY <1>44, <2>1 DEF OrphanWrites
<1>45. ASSUME NEW s \in Slot, OrphanEnds(s)
      PROVE  Base'
  BY <1>45 DEF OrphanEnds
<1>46. ASSUME NEW s \in Slot, WorkDirRemoved(s)
      PROVE  Base'
  BY <1>46, EmptyDirType DEF WorkDirRemoved
<1>47. CASE Tick
  BY <1>47 DEF Tick
<1> QED
    BY <1>1, <1>2, <1>3, <1>4, <1>5, <1>6, <1>7, <1>8, <1>9, <1>10, <1>11,
     <1>12, <1>13, <1>14, <1>15, <1>16, <1>17, <1>18, <1>19, <1>20, <1>21,
     <1>22, <1>23, <1>24, <1>25, <1>26, <1>27, <1>28, <1>29, <1>30, <1>31,
     <1>32, <1>33, <1>34, <1>35, <1>36, <1>37, <1>38, <1>39, <1>40, <1>41,
     <1>42, <1>43, <1>44, <1>45, <1>46, <1>47
    DEF Next, Process, Advance, CallFails, ChildEnds, World

(* Types, and children only of those who wait, always.                     *)
LEMMA BaseHolds == Spec => []Base
  BY InitBase, NextBase, PTL DEF Spec

(* Whatever interleaves, fails or dies, records, work directories and the  *)
(* processes of main.c stay what they are declared to be.                  *)
THEOREM TypesHold == Spec => []TypeOK
  BY BaseHolds, PTL DEF Base

-----------------------------------------------------------------------------
(* The update lock.                                                        *)

(* LockDiscipline is inductive once the way to the lock is added: a run    *)
(* that reports never gets there.                                          *)
LockInv ==
    /\ LockDiscipline
    /\ \A p \in Proc : pc[p] \in {"exec", "probe", "lock", "reload"} => ~Inspected(p)

(* No lock is held at the start ...                                        *)
LEMMA InitLock == Init => LockInv
  BY NamesAssumption
     DEF Init, LockInv, LockDiscipline, DecidedPCs, SetupPCs

(* ... and each action keeps the discipline.                               *)
LEMMA NextLock == Base /\ LockInv /\ [Next]_vars => LockInv'
<1> SUFFICES ASSUME Base, LockInv, [Next]_vars PROVE LockInv'
  OBVIOUS
<1> USE NamesAssumption
    DEF Base, TypeOK, ChildIsAwaited, envVars, cacheVars, localVars, Goto, GiveUp, PC,
        LockInv, LockDiscipline, DecidedPCs, SetupPCs, Holds, Inspected, SlotOf
<1>1. CASE UNCHANGED vars
  BY <1>1 DEF vars
<1>2. ASSUME NEW p \in Proc, Start(p)
      PROVE  LockInv'
  BY <1>2 DEF Start
<1>3. ASSUME NEW p \in Proc, Load(p)
      PROVE  LockInv'
  BY <1>3 DEF Load
<1>4. ASSUME NEW p \in Proc, LoadFails(p)
      PROVE  LockInv'
  BY <1>4 DEF LoadFails
<1>5. ASSUME NEW p \in Proc, Decide(p)
      PROVE  LockInv'
  BY <1>5 DEF Decide, ExecCheck
<1>6. ASSUME NEW p \in Proc, ExecCached(p)
      PROVE  LockInv'
  BY <1>6 DEF ExecCached
<1>7. ASSUME NEW p \in Proc, ProbeMissing(p)
      PROVE  LockInv'
  BY <1>7 DEF ProbeMissing
<1>8. ASSUME NEW p \in Proc, ProbePresent(p)
      PROVE  LockInv'
  BY <1>8 DEF ProbePresent
<1>9. ASSUME NEW p \in Proc, Acquire(p)
      PROVE  LockInv'
  BY <1>9, SlotType DEF Acquire, LockFree
<1>10. ASSUME NEW p \in Proc, LockFails(p)
      PROVE  LockInv'
  BY <1>10 DEF LockFails
<1>11. ASSUME NEW p \in Proc, Recheck(p)
      PROVE  LockInv'
  <2>1. /\ pc[p] = "recheck" /\ UNCHANGED <<lock, job>>
        /\ \/ pc' = [pc EXCEPT ![p] = "due"]
           \/ pc' = [pc EXCEPT ![p] = "unlock"]
    BY <1>11 DEF Recheck
  <2> QED
    BY <2>1
<1>12. ASSUME NEW p \in Proc, Unlock(p)
      PROVE  LockInv'
  <2>1. \A s \in Slot : lock'[s] = IF lock[s] = p THEN Nobody ELSE lock[s]
    BY <1>12 DEF Unlock, Released
  <2>2. \A q \in Proc : pc[q] # "idle" => SlotOf(q) \in Slot
    BY SlotType
  <2> QED
    BY <1>12, <2>1, <2>2 DEF Unlock
<1>13. ASSUME NEW p \in Proc, ReportDue(p)
      PROVE  LockInv'
  BY <1>13 DEF ReportDue
<1>14. ASSUME NEW p \in Proc, AdoptCommand(p)
      PROVE  LockInv'
  BY <1>14 DEF AdoptCommand, Adopted
<1>15. ASSUME NEW p \in Proc, BeginCommand(p)
      PROVE  LockInv'
  BY <1>15 DEF BeginCommand, FirstStep, Filled
<1>16. ASSUME NEW p \in Proc, CheckUrl(p)
      PROVE  LockInv'
  BY <1>16 DEF CheckUrl
<1>17. ASSUME NEW p \in Proc, CheckFails(p)
      PROVE  LockInv'
  BY <1>17 DEF CheckFails
<1>18. ASSUME NEW p \in Proc, Unchanged(p)
      PROVE  LockInv'
  BY <1>18 DEF Unchanged
<1>19. ASSUME NEW p \in Proc, ReportChanged(p)
      PROVE  LockInv'
  BY <1>19 DEF ReportChanged
<1>20. ASSUME NEW p \in Proc, AdoptUrl(p)
      PROVE  LockInv'
  BY <1>20 DEF AdoptUrl, Adopted
<1>21. ASSUME NEW p \in Proc, BeginInstall(p)
      PROVE  LockInv'
  BY <1>21 DEF BeginInstall
<1>22. ASSUME NEW p \in Proc, BeginReset(p)
      PROVE  LockInv'
  BY <1>22 DEF BeginReset
<1>23. ASSUME NEW p \in Proc, EndReset(p)
      PROVE  LockInv'
  BY <1>23 DEF EndReset, Filled
<1>24. ASSUME NEW p \in Proc, ResetFails(p)
      PROVE  LockInv'
  BY <1>24 DEF ResetFails
<1>25. ASSUME NEW p \in Proc, StageFile(p)
      PROVE  LockInv'
  BY <1>25 DEF StageFile
<1>26. ASSUME NEW p \in Proc, RenameFile(p)
      PROVE  LockInv'
  BY <1>26 DEF RenameFile
<1>27. ASSUME NEW p \in Proc, StageFails(p)
      PROVE  LockInv'
  BY <1>27 DEF StageFails
<1>28. ASSUME NEW p \in Proc, NoScript(p)
      PROVE  LockInv'
  BY <1>28 DEF NoScript, Adopted
<1>29. ASSUME NEW p \in Proc, Fork(p)
      PROVE  LockInv'
  BY <1>29 DEF Fork
<1>30. ASSUME NEW p \in Proc, ForkFails(p)
      PROVE  LockInv'
  BY <1>30 DEF ForkFails
<1>31. ASSUME NEW p \in Proc, ChildWrites(p)
      PROVE  LockInv'
  BY <1>31 DEF ChildWrites
<1>32. ASSUME NEW p \in Proc, ChildSucceeds(p)
      PROVE  LockInv'
  BY <1>32 DEF ChildSucceeds
<1>33. ASSUME NEW p \in Proc, ChildFails(p)
      PROVE  LockInv'
  BY <1>33 DEF ChildFails
<1>34. ASSUME NEW p \in Proc, Interrupt(p)
      PROVE  LockInv'
  BY <1>34 DEF Interrupt
<1>35. ASSUME NEW p \in Proc, Reap(p)
      PROVE  LockInv'
  BY <1>35 DEF Reap
<1>36. ASSUME NEW p \in Proc, Reraise(p)
      PROVE  LockInv'
  <2>1. \A s \in Slot : lock'[s] = IF lock[s] = p THEN Nobody ELSE lock[s]
    BY <1>36 DEF Reraise, Released
  <2>2. \A q \in Proc : pc[q] # "idle" => SlotOf(q) \in Slot
    BY SlotType
  <2> QED
    BY <1>36, <2>1, <2>2 DEF Reraise, Gone
<1>37. ASSUME NEW p \in Proc, Save(p)
      PROVE  LockInv'
  BY <1>37 DEF Save
<1>38. ASSUME NEW p \in Proc, SaveFails(p)
      PROVE  LockInv'
  BY <1>38 DEF SaveFails
<1>39. ASSUME NEW p \in Proc, Handover(p)
      PROVE  LockInv'
  BY <1>39 DEF Handover
<1>40. ASSUME NEW p \in Proc, Leave(p)
      PROVE  LockInv'
  BY <1>40 DEF Leave, Gone
<1>41. ASSUME NEW p \in Proc, Die(p)
      PROVE  LockInv'
  <2>1. \A s \in Slot : lock'[s] = IF lock[s] = p THEN Nobody ELSE lock[s]
    BY <1>41 DEF Die, Released
  <2>2. \A q \in Proc : pc[q] # "idle" => SlotOf(q) \in Slot
    BY SlotType
  <2> QED
    BY <1>41, <2>1, <2>2 DEF Die, Gone
<1>42. ASSUME NEW s \in Source, Edit(s)
      PROVE  LockInv'
  BY <1>42 DEF Edit
<1>43. ASSUME NEW i \in Ident, RemoteChanges(i)
      PROVE  LockInv'
  BY <1>43 DEF RemoteChanges
<1>44. ASSUME NEW s \in Slot, OrphanWrites(s)
      PROVE  LockInv'
  BY <1>44 DEF OrphanWrites
<1>45. ASSUME NEW s \in Slot, OrphanEnds(s)
      PROVE  LockInv'
  BY <1>45 DEF OrphanEnds
<1>46. ASSUME NEW s \in Slot, WorkDirRemoved(s)
      PROVE  LockInv'
  BY <1>46 DEF WorkDirRemoved
<1>47. CASE Tick
  BY <1>47 DEF Tick
<1> QED
    BY <1>1, <1>2, <1>3, <1>4, <1>5, <1>6, <1>7, <1>8, <1>9, <1>10, <1>11,
     <1>12, <1>13, <1>14, <1>15, <1>16, <1>17, <1>18, <1>19, <1>20, <1>21,
     <1>22, <1>23, <1>24, <1>25, <1>26, <1>27, <1>28, <1>29, <1>30, <1>31,
     <1>32, <1>33, <1>34, <1>35, <1>36, <1>37, <1>38, <1>39, <1>40, <1>41,
     <1>42, <1>43, <1>44, <1>45, <1>46, <1>47
    DEF Next, Process, Advance, CallFails, ChildEnds, World

(* Types and the lock's discipline, always.                                *)
LEMMA LockHolds == Spec => [](Base /\ LockInv)
  BY BaseHolds, InitLock, NextLock, PTL DEF Spec

(* Between hm_cache_lock() and hm_cache_unlock() every run that acts holds *)
(* the lock of its own slot, and nobody else ever does.                    *)
THEOREM LockIsHeld == Spec => []LockDiscipline
  BY LockHolds, PTL DEF LockInv

-----------------------------------------------------------------------------
(* Records and handovers stand for completed setups.                       *)

(* The project p is about was set up, or adopted, at its cache address.    *)
SetUp(p) == job[p].ident \in done[SlotOf(p)]

(* Who saves, and who runs a program, has a reason that only grows.        *)
EarnedInv ==
    /\ RecordsAreEarned
    /\ \A p \in Proc :
          /\ pc[p] = "idle" => ~view[p].known
          /\ view[p].known => SetUp(p)
          /\ ~view[p].known => view[p].lastCheck = 0
          /\ pc[p] \in {"commit", "touch"} \/ child[p] = "ok" => SetUp(p)
          /\ \/ pc[p] \in {"exec", "program"}
             \/ pc[p] \in {"unlock", "finish"} /\ exit[p] = "ok"
             => SetUp(p) \/ ConfOf(p).sched = "never"

(* Reading the clock leaves what was loaded alone.                         *)
LEMMA ViewFields ==
  ASSUME NEW v \in View, NEW t \in Time
  PROVE  /\ [v EXCEPT !.now = t].known = v.known
         /\ [v EXCEPT !.now = t].lastCheck = v.lastCheck
         /\ [v EXCEPT !.now = t].mark = v.mark
  BY DEF View

(* What is not due was set up before, or waits for --force.                *)
LEMMA NotDue ==
  ASSUME Base, EarnedInv, NEW p \in Proc, pc[p] # "idle",
         NEW probe \in BOOLEAN, ~DueNow(p, probe)
  PROVE  SetUp(p) \/ ConfOf(p).sched = "never"
<1>1. job[p] \in Job /\ ConfOf(p) \in Project /\ Accepted(ConfOf(p))
  BY SlotType, ConfAssumption DEF Base, ConfOf, Job
<1>2. CASE view[p].known
  BY <1>2 DEF EarnedInv
<1>3. CASE ~view[p].known
  <2>1. ~ConfOf(p).files /\ ~TimeIsUp(ConfOf(p), view[p].lastCheck, clock)
    BY <1>3 DEF DueNow, IsDue
  <2>2. view[p].lastCheck = 0
    BY <1>3 DEF EarnedInv
  <2> QED
    BY <1>1, <2>1, <2>2 DEF TimeIsUp, Recent, Project, SchedKind
<1> QED
  BY <1>2, <1>3

(* There is no record at the start ...                                     *)
LEMMA InitEarned == Init => EarnedInv
  BY DEF Init, EarnedInv, RecordsAreEarned, NoRecord, NoView

(* ... and what is saved or handed over was set up before.                 *)
LEMMA NextEarned == Base /\ EarnedInv /\ [Next]_vars => EarnedInv'
<1> SUFFICES ASSUME Base, EarnedInv, [Next]_vars PROVE EarnedInv'
  OBVIOUS
<1> USE NamesAssumption
    DEF Base, TypeOK, ChildIsAwaited, envVars, cacheVars, localVars, Goto, GiveUp, PC,
        EarnedInv, RecordsAreEarned, SetUp, SlotOf, ConfOf
<1>1. CASE UNCHANGED vars
  BY <1>1 DEF vars
<1>2. ASSUME NEW p \in Proc, Start(p)
      PROVE  EarnedInv'
  BY <1>2 DEF Start
<1>3. ASSUME NEW p \in Proc, Load(p)
      PROVE  EarnedInv'
  <2>1. /\ pc[p] \in {"load", "reload"} /\ UNCHANGED <<record, job, done, child, exit>>
        /\ view' = [view EXCEPT ![p] = Trusted(record[SlotOf(p)], job[p].ident)]
        /\ pc' = [pc EXCEPT ![p] = "decide"] \/ pc' = [pc EXCEPT ![p] = "recheck"]
    BY <1>3 DEF Load
  <2>2. /\ view'[p].known => record[SlotOf(p)].ident = job[p].ident
        /\ ~view'[p].known => view'[p].lastCheck = 0
    BY <2>1 DEF Trusted, NoView
  <2>3. view'[p].known => SetUp(p)
    BY <2>1, <2>2, SlotType DEF Job
  <2> QED
    BY <2>1, <2>2, <2>3
<1>4. ASSUME NEW p \in Proc, LoadFails(p)
      PROVE  EarnedInv'
  BY <1>4 DEF LoadFails
<1>5. ASSUME NEW p \in Proc, Decide(p)
      PROVE  EarnedInv'
  <2>1. pc[p] # "idle" /\ pc'[p] \in {"exec", "finish", "unlock"} =>
          SetUp(p) \/ ConfOf(p).sched = "never"
    BY <1>5, NotDue DEF Decide
  <2>2. /\ \A q \in Proc : /\ view'[q].known = view[q].known
                            /\ view'[q].lastCheck = view[q].lastCheck
        /\ UNCHANGED <<record, job, done, child, exit>>
    BY <1>5, ViewFields DEF Decide
  <2>3. /\ pc[p] = "decide"
        /\ \E label \in {"due", "lock", "exec", "finish"} : pc' = [pc EXCEPT ![p] = label]
    BY <1>5 DEF Decide
  <2> QED
    BY <2>1, <2>2, <2>3
<1>6. ASSUME NEW p \in Proc, ExecCached(p)
      PROVE  EarnedInv'
  BY <1>6 DEF ExecCached
<1>7. ASSUME NEW p \in Proc, ProbeMissing(p)
      PROVE  EarnedInv'
  BY <1>7 DEF ProbeMissing
<1>8. ASSUME NEW p \in Proc, ProbePresent(p)
      PROVE  EarnedInv'
  BY <1>8 DEF ProbePresent
<1>9. ASSUME NEW p \in Proc, Acquire(p)
      PROVE  EarnedInv'
  BY <1>9 DEF Acquire
<1>10. ASSUME NEW p \in Proc, LockFails(p)
      PROVE  EarnedInv'
  BY <1>10 DEF LockFails
<1>11. ASSUME NEW p \in Proc, Recheck(p)
      PROVE  EarnedInv'
  <2>1. pc[p] # "idle" /\ pc'[p] \in {"exec", "finish", "unlock"} =>
          SetUp(p) \/ ConfOf(p).sched = "never"
    BY <1>11, NotDue DEF Recheck
  <2>2. /\ \A q \in Proc : /\ view'[q].known = view[q].known
                            /\ view'[q].lastCheck = view[q].lastCheck
        /\ UNCHANGED <<record, job, done, child, exit>>
    BY <1>11, ViewFields DEF Recheck
  <2>3. /\ pc[p] = "recheck"
        /\ \E label \in {"due", "unlock"} : pc' = [pc EXCEPT ![p] = label]
    BY <1>11 DEF Recheck
  <2> QED
    BY <2>1, <2>2, <2>3
<1>12. ASSUME NEW p \in Proc, Unlock(p)
      PROVE  EarnedInv'
  BY <1>12 DEF Unlock
<1>13. ASSUME NEW p \in Proc, ReportDue(p)
      PROVE  EarnedInv'
  BY <1>13 DEF ReportDue
<1>14. ASSUME NEW p \in Proc, AdoptCommand(p)
      PROVE  EarnedInv'
  <2>1. /\ \A s \in Slot : done[s] \subseteq done'[s]
        /\ job[p].ident \in done'[SlotOf(p)]
    BY <1>14, SlotType DEF AdoptCommand, Adopted
  <2>2. \A q \in Proc : pc[q] # "idle" => SlotOf(q) \in Slot
    BY SlotType
  <2> QED
    BY <1>14, <2>1, <2>2 DEF AdoptCommand, Adopted
<1>15. ASSUME NEW p \in Proc, BeginCommand(p)
      PROVE  EarnedInv'
  BY <1>15 DEF BeginCommand, FirstStep, Filled
<1>16. ASSUME NEW p \in Proc, CheckUrl(p)
      PROVE  EarnedInv'
  BY <1>16 DEF CheckUrl
<1>17. ASSUME NEW p \in Proc, CheckFails(p)
      PROVE  EarnedInv'
  BY <1>17 DEF CheckFails
<1>18. ASSUME NEW p \in Proc, Unchanged(p)
      PROVE  EarnedInv'
  BY <1>18 DEF Unchanged, Changed
<1>19. ASSUME NEW p \in Proc, ReportChanged(p)
      PROVE  EarnedInv'
  BY <1>19 DEF ReportChanged
<1>20. ASSUME NEW p \in Proc, AdoptUrl(p)
      PROVE  EarnedInv'
  <2>1. /\ \A s \in Slot : done[s] \subseteq done'[s]
        /\ job[p].ident \in done'[SlotOf(p)]
    BY <1>20, SlotType DEF AdoptUrl, Adopted
  <2>2. \A q \in Proc : pc[q] # "idle" => SlotOf(q) \in Slot
    BY SlotType
  <2> QED
    BY <1>20, <2>1, <2>2 DEF AdoptUrl, Adopted
<1>21. ASSUME NEW p \in Proc, BeginInstall(p)
      PROVE  EarnedInv'
  BY <1>21 DEF BeginInstall
<1>22. ASSUME NEW p \in Proc, BeginReset(p)
      PROVE  EarnedInv'
  BY <1>22 DEF BeginReset
<1>23. ASSUME NEW p \in Proc, EndReset(p)
      PROVE  EarnedInv'
  BY <1>23 DEF EndReset, Filled
<1>24. ASSUME NEW p \in Proc, ResetFails(p)
      PROVE  EarnedInv'
  BY <1>24 DEF ResetFails
<1>25. ASSUME NEW p \in Proc, StageFile(p)
      PROVE  EarnedInv'
  BY <1>25 DEF StageFile
<1>26. ASSUME NEW p \in Proc, RenameFile(p)
      PROVE  EarnedInv'
  BY <1>26 DEF RenameFile
<1>27. ASSUME NEW p \in Proc, StageFails(p)
      PROVE  EarnedInv'
  BY <1>27 DEF StageFails
<1>28. ASSUME NEW p \in Proc, NoScript(p)
      PROVE  EarnedInv'
  <2>1. /\ \A s \in Slot : done[s] \subseteq done'[s]
        /\ job[p].ident \in done'[SlotOf(p)]
    BY <1>28, SlotType DEF NoScript, Adopted
  <2>2. \A q \in Proc : pc[q] # "idle" => SlotOf(q) \in Slot
    BY SlotType
  <2> QED
    BY <1>28, <2>1, <2>2 DEF NoScript, Adopted
<1>29. ASSUME NEW p \in Proc, Fork(p)
      PROVE  EarnedInv'
  BY <1>29 DEF Fork
<1>30. ASSUME NEW p \in Proc, ForkFails(p)
      PROVE  EarnedInv'
  BY <1>30 DEF ForkFails
<1>31. ASSUME NEW p \in Proc, ChildWrites(p)
      PROVE  EarnedInv'
  BY <1>31 DEF ChildWrites
<1>32. ASSUME NEW p \in Proc, ChildSucceeds(p)
      PROVE  EarnedInv'
  <2>1. /\ \A s \in Slot : done[s] \subseteq done'[s]
        /\ job[p].ident \in done'[SlotOf(p)]
    BY <1>32, SlotType DEF ChildSucceeds
  <2>2. \A q \in Proc : pc[q] # "idle" => SlotOf(q) \in Slot
    BY SlotType
  <2> QED
    BY <1>32, <2>1, <2>2 DEF ChildSucceeds
<1>33. ASSUME NEW p \in Proc, ChildFails(p)
      PROVE  EarnedInv'
  BY <1>33 DEF ChildFails
<1>34. ASSUME NEW p \in Proc, Interrupt(p)
      PROVE  EarnedInv'
  BY <1>34 DEF Interrupt
<1>35. ASSUME NEW p \in Proc, Reap(p)
      PROVE  EarnedInv'
  BY <1>35 DEF Reap
<1>36. ASSUME NEW p \in Proc, Reraise(p)
      PROVE  EarnedInv'
  BY <1>36 DEF Reraise, Gone, NoView
<1>37. ASSUME NEW p \in Proc, Save(p)
      PROVE  EarnedInv'
  BY <1>37 DEF Save
<1>38. ASSUME NEW p \in Proc, SaveFails(p)
      PROVE  EarnedInv'
  BY <1>38 DEF SaveFails
<1>39. ASSUME NEW p \in Proc, Handover(p)
      PROVE  EarnedInv'
  BY <1>39 DEF Handover, HandsOver
<1>40. ASSUME NEW p \in Proc, Leave(p)
      PROVE  EarnedInv'
  BY <1>40 DEF Leave, Gone, NoView
<1>41. ASSUME NEW p \in Proc, Die(p)
      PROVE  EarnedInv'
  BY <1>41 DEF Die, Gone, NoView
<1>42. ASSUME NEW s \in Source, Edit(s)
      PROVE  EarnedInv'
  BY <1>42 DEF Edit
<1>43. ASSUME NEW i \in Ident, RemoteChanges(i)
      PROVE  EarnedInv'
  BY <1>43 DEF RemoteChanges
<1>44. ASSUME NEW s \in Slot, OrphanWrites(s)
      PROVE  EarnedInv'
  BY <1>44 DEF OrphanWrites
<1>45. ASSUME NEW s \in Slot, OrphanEnds(s)
      PROVE  EarnedInv'
  BY <1>45 DEF OrphanEnds
<1>46. ASSUME NEW s \in Slot, WorkDirRemoved(s)
      PROVE  EarnedInv'
  BY <1>46 DEF WorkDirRemoved
<1>47. CASE Tick
  BY <1>47 DEF Tick
<1> QED
    BY <1>1, <1>2, <1>3, <1>4, <1>5, <1>6, <1>7, <1>8, <1>9, <1>10, <1>11,
     <1>12, <1>13, <1>14, <1>15, <1>16, <1>17, <1>18, <1>19, <1>20, <1>21,
     <1>22, <1>23, <1>24, <1>25, <1>26, <1>27, <1>28, <1>29, <1>30, <1>31,
     <1>32, <1>33, <1>34, <1>35, <1>36, <1>37, <1>38, <1>39, <1>40, <1>41,
     <1>42, <1>43, <1>44, <1>45, <1>46, <1>47
    DEF Next, Process, Advance, CallFails, ChildEnds, World

(* Types and earned records, always.                                       *)
LEMMA EarnedHolds == Spec => [](Base /\ EarnedInv)
  BY BaseHolds, InitEarned, NextEarned, PTL DEF Spec

(* hm_cache_save() is reached only after a setup of that content completed *)
(* at that address, or was adopted: crashes and failures included.         *)
THEOREM RecordsEarned == Spec => []RecordsAreEarned
  BY EarnedHolds, PTL DEF EarnedInv

(* The handover's part of the invariant.                                   *)
LEMMA EarnedHandover == EarnedInv => HandoverAfterSetup
  BY DEF EarnedInv, HandoverAfterSetup, SetUp

(* finish() and the quick exec_program() of main() run a program only for  *)
(* content that was set up, unless its schedule is `never`.                *)
THEOREM OnlySetUpProgramsRun == Spec => []HandoverAfterSetup
  BY EarnedHolds, EarnedHandover, PTL

-----------------------------------------------------------------------------
(* The view under the lock.  Inspecting runs decide without it, and save.  *)

NoInspection == \A o \in Opts : o.mode # "inspect"

(* LockedViewFresh, field by field.                                        *)
Same(v, w) == v.known = w.known /\ v.lastCheck = w.lastCheck /\ v.mark = w.mark
FreshInv ==
    \A p \in Proc :
        /\ pc[p] # "idle" => ~Inspected(p)
        /\ pc[p] \in DecidedPCs => Same(Trusted(record[SlotOf(p)], job[p].ident), view[p])

(* Field by field or as a whole: the time apart, the views are one.        *)
LEMMA SameView ==
  ASSUME NEW v \in View, NEW w \in View, Same(v, w)
  PROVE  [v EXCEPT !.now = w.now] = w
  BY DEF View, Same

(* What hm_cache_load() reads is a view.                                   *)
LEMMA TrustedType ==
  ASSUME Base, NEW p \in Proc, pc[p] # "idle"
  PROVE  Trusted(record[SlotOf(p)], job[p].ident) \in View
  BY SlotType DEF Base, TypeOK, Trusted, Record, View, NoView

(* The field-wise invariant is LockedViewFresh.                            *)
LEMMA FreshFields == Base /\ FreshInv => LockedViewFresh
<1> SUFFICES ASSUME Base, FreshInv, NEW p \in Proc, pc[p] \in DecidedPCs
             PROVE  [Trusted(record[SlotOf(p)], job[p].ident) EXCEPT !.now = view[p].now]
                        = view[p]
  BY DEF LockedViewFresh
<1>1. Trusted(record[SlotOf(p)], job[p].ident) \in View
  BY TrustedType DEF DecidedPCs
<1> QED
  BY <1>1, SameView DEF Base, TypeOK, FreshInv

(* Nobody has decided at the start ...                                     *)
LEMMA InitFresh == Init => FreshInv
  BY DEF Init, FreshInv, DecidedPCs

(* ... and a save changes no view but that of its own run.                 *)
LEMMA NextFresh ==
  ASSUME NoInspection
  PROVE  Base /\ LockInv /\ FreshInv /\ [Next]_vars => FreshInv'
<1> SUFFICES ASSUME Base, LockInv, FreshInv, [Next]_vars PROVE FreshInv'
  OBVIOUS
<1> USE NamesAssumption, NoInspection
    DEF NoInspection, Base, TypeOK, envVars, cacheVars, localVars, Goto, GiveUp, PC,
        FreshInv, Same, DecidedPCs, Inspected, SlotOf
<1>1. CASE UNCHANGED vars
  BY <1>1 DEF vars
<1>2. ASSUME NEW p \in Proc, Start(p)
      PROVE  FreshInv'
  BY <1>2 DEF Start
<1>3. ASSUME NEW p \in Proc, Load(p)
      PROVE  FreshInv'
  <2>1. /\ pc[p] \in {"load", "reload"} /\ UNCHANGED <<record, job>>
        /\ view' = [view EXCEPT ![p] = Trusted(record[SlotOf(p)], job[p].ident)]
        /\ pc' = [pc EXCEPT ![p] = "decide"] \/ pc' = [pc EXCEPT ![p] = "recheck"]
    BY <1>3 DEF Load
  <2> QED
    BY <2>1
<1>4. ASSUME NEW p \in Proc, LoadFails(p)
      PROVE  FreshInv'
  BY <1>4 DEF LoadFails
<1>5. ASSUME NEW p \in Proc, Decide(p)
      PROVE  FreshInv'
  <2>1. /\ pc[p] = "decide" /\ UNCHANGED <<record, lock, job>>
        /\ \E label \in {"lock", "exec", "finish"} : pc' = [pc EXCEPT ![p] = label]
    BY <1>5 DEF Decide
  <2>2. \A q \in Proc : /\ view'[q].known = view[q].known
                        /\ view'[q].lastCheck = view[q].lastCheck
                        /\ view'[q].mark = view[q].mark
    BY <1>5, ViewFields DEF Decide
  <2> QED
    BY <2>1, <2>2
<1>6. ASSUME NEW p \in Proc, ExecCached(p)
      PROVE  FreshInv'
  BY <1>6 DEF ExecCached
<1>7. ASSUME NEW p \in Proc, ProbeMissing(p)
      PROVE  FreshInv'
  BY <1>7 DEF ProbeMissing
<1>8. ASSUME NEW p \in Proc, ProbePresent(p)
      PROVE  FreshInv'
  BY <1>8 DEF ProbePresent
<1>9. ASSUME NEW p \in Proc, Acquire(p)
      PROVE  FreshInv'
  BY <1>9 DEF Acquire
<1>10. ASSUME NEW p \in Proc, LockFails(p)
      PROVE  FreshInv'
  BY <1>10 DEF LockFails
<1>11. ASSUME NEW p \in Proc, Recheck(p)
      PROVE  FreshInv'
  <2>1. /\ pc[p] = "recheck" /\ UNCHANGED <<record, lock, job>>
        /\ \E label \in {"due", "unlock"} : pc' = [pc EXCEPT ![p] = label]
    BY <1>11 DEF Recheck
  <2>2. \A q \in Proc : /\ view'[q].known = view[q].known
                        /\ view'[q].lastCheck = view[q].lastCheck
                        /\ view'[q].mark = view[q].mark
    BY <1>11, ViewFields DEF Recheck
  <2> QED
    BY <2>1, <2>2
<1>12. ASSUME NEW p \in Proc, Unlock(p)
      PROVE  FreshInv'
  BY <1>12 DEF Unlock
<1>13. ASSUME NEW p \in Proc, ReportDue(p)
      PROVE  FreshInv'
  BY <1>13 DEF ReportDue
<1>14. ASSUME NEW p \in Proc, AdoptCommand(p)
      PROVE  FreshInv'
  BY <1>14 DEF AdoptCommand, Adopted
<1>15. ASSUME NEW p \in Proc, BeginCommand(p)
      PROVE  FreshInv'
  BY <1>15 DEF BeginCommand, FirstStep, Filled
<1>16. ASSUME NEW p \in Proc, CheckUrl(p)
      PROVE  FreshInv'
  BY <1>16 DEF CheckUrl
<1>17. ASSUME NEW p \in Proc, CheckFails(p)
      PROVE  FreshInv'
  BY <1>17 DEF CheckFails
<1>18. ASSUME NEW p \in Proc, Unchanged(p)
      PROVE  FreshInv'
  BY <1>18 DEF Unchanged
<1>19. ASSUME NEW p \in Proc, ReportChanged(p)
      PROVE  FreshInv'
  BY <1>19 DEF ReportChanged
<1>20. ASSUME NEW p \in Proc, AdoptUrl(p)
      PROVE  FreshInv'
  BY <1>20 DEF AdoptUrl, Adopted
<1>21. ASSUME NEW p \in Proc, BeginInstall(p)
      PROVE  FreshInv'
  BY <1>21 DEF BeginInstall
<1>22. ASSUME NEW p \in Proc, BeginReset(p)
      PROVE  FreshInv'
  BY <1>22 DEF BeginReset
<1>23. ASSUME NEW p \in Proc, EndReset(p)
      PROVE  FreshInv'
  BY <1>23 DEF EndReset, Filled
<1>24. ASSUME NEW p \in Proc, ResetFails(p)
      PROVE  FreshInv'
  BY <1>24 DEF ResetFails
<1>25. ASSUME NEW p \in Proc, StageFile(p)
      PROVE  FreshInv'
  BY <1>25 DEF StageFile
<1>26. ASSUME NEW p \in Proc, RenameFile(p)
      PROVE  FreshInv'
  BY <1>26 DEF RenameFile
<1>27. ASSUME NEW p \in Proc, StageFails(p)
      PROVE  FreshInv'
  BY <1>27 DEF StageFails
<1>28. ASSUME NEW p \in Proc, NoScript(p)
      PROVE  FreshInv'
  BY <1>28 DEF NoScript, Adopted
<1>29. ASSUME NEW p \in Proc, Fork(p)
      PROVE  FreshInv'
  BY <1>29 DEF Fork
<1>30. ASSUME NEW p \in Proc, ForkFails(p)
      PROVE  FreshInv'
  BY <1>30 DEF ForkFails
<1>31. ASSUME NEW p \in Proc, ChildWrites(p)
      PROVE  FreshInv'
  BY <1>31 DEF ChildWrites
<1>32. ASSUME NEW p \in Proc, ChildSucceeds(p)
      PROVE  FreshInv'
  BY <1>32 DEF ChildSucceeds
<1>33. ASSUME NEW p \in Proc, ChildFails(p)
      PROVE  FreshInv'
  BY <1>33 DEF ChildFails
<1>34. ASSUME NEW p \in Proc, Interrupt(p)
      PROVE  FreshInv'
  BY <1>34 DEF Interrupt
<1>35. ASSUME NEW p \in Proc, Reap(p)
      PROVE  FreshInv'
  BY <1>35 DEF Reap
<1>36. ASSUME NEW p \in Proc, Reraise(p)
      PROVE  FreshInv'
  BY <1>36 DEF Reraise, Gone
<1>37. ASSUME NEW p \in Proc, Save(p)
      PROVE  FreshInv'
  <2>1. /\ pc[p] \in {"commit", "touch"} /\ UNCHANGED <<job, view>>
        /\ pc' = [pc EXCEPT ![p] = "unlock"]
        /\ \A s \in Slot : s # SlotOf(p) => record'[s] = record[s]
    BY <1>37, SlotType DEF Save
  <2>2. \A q \in Proc \ {p} :
           pc[q] \in DecidedPCs => SlotOf(q) \in Slot /\ SlotOf(q) # SlotOf(p)
    BY <2>1, SlotType DEF LockInv, LockDiscipline, Holds, DecidedPCs
  <2> QED
    BY <2>1, <2>2
<1>38. ASSUME NEW p \in Proc, SaveFails(p)
      PROVE  FreshInv'
  BY <1>38 DEF SaveFails
<1>39. ASSUME NEW p \in Proc, Handover(p)
      PROVE  FreshInv'
  BY <1>39 DEF Handover
<1>40. ASSUME NEW p \in Proc, Leave(p)
      PROVE  FreshInv'
  BY <1>40 DEF Leave, Gone
<1>41. ASSUME NEW p \in Proc, Die(p)
      PROVE  FreshInv'
  BY <1>41 DEF Die, Gone
<1>42. ASSUME NEW s \in Source, Edit(s)
      PROVE  FreshInv'
  BY <1>42 DEF Edit
<1>43. ASSUME NEW i \in Ident, RemoteChanges(i)
      PROVE  FreshInv'
  BY <1>43 DEF RemoteChanges
<1>44. ASSUME NEW s \in Slot, OrphanWrites(s)
      PROVE  FreshInv'
  BY <1>44 DEF OrphanWrites
<1>45. ASSUME NEW s \in Slot, OrphanEnds(s)
      PROVE  FreshInv'
  BY <1>45 DEF OrphanEnds
<1>46. ASSUME NEW s \in Slot, WorkDirRemoved(s)
      PROVE  FreshInv'
  BY <1>46 DEF WorkDirRemoved
<1>47. CASE Tick
  BY <1>47 DEF Tick
<1> QED
    BY <1>1, <1>2, <1>3, <1>4, <1>5, <1>6, <1>7, <1>8, <1>9, <1>10, <1>11,
     <1>12, <1>13, <1>14, <1>15, <1>16, <1>17, <1>18, <1>19, <1>20, <1>21,
     <1>22, <1>23, <1>24, <1>25, <1>26, <1>27, <1>28, <1>29, <1>30, <1>31,
     <1>32, <1>33, <1>34, <1>35, <1>36, <1>37, <1>38, <1>39, <1>40, <1>41,
     <1>42, <1>43, <1>44, <1>45, <1>46, <1>47
    DEF Next, Process, Advance, CallFails, ChildEnds, World

(* Without --check-only and --dry-run, what a run decided under the lock   *)
(* still holds when it acts on it: for any number of processes, projects   *)
(* and faults (main.c's reload and recheck after hm_cache_lock()).         *)
THEOREM LockedViewIsFresh ==
  ASSUME NoInspection
  PROVE  Spec => []LockedViewFresh
<1>1. FreshInv /\ [](Base /\ LockInv) /\ [][Next]_vars => []FreshInv
  BY NextFresh, PTL
<1> QED
  BY <1>1, LockHolds, InitFresh, FreshFields, PTL DEF Spec

-----------------------------------------------------------------------------
(* The work directory.  A hacman that is killed may leave its setup alive, *)
(* so this holds only where none is.                                       *)

NobodyKilled == "kill" \notin Faults

(* The setup p is in began with an empty work directory.                   *)
FromEmpty(p) ==
    /\ pc[p] \in {"stage", "rename", "fork", "wait", "commit"}
    /\ ConfOf(p).kind = "url" \/ ~view[p].known

SetupWhole(p) == FromEmpty(p) =>
    /\ work[SlotOf(p)].of \subseteq {TagOf(p)}
    /\ child[p] = "running" => "rm" \in Faults \/ work[SlotOf(p)].of # {}
    /\ pc[p] = "commit" \/ child[p] = "ok" =>
          "rm" \in Faults \/ (work[SlotOf(p)].whole /\ work[SlotOf(p)].of # {})

WholeInv ==
    /\ \A s \in Slot : orphans[s] = {}
    /\ \A p \in Proc : SetupWhole(p)

(* The lock keeps setups apart.                                            *)
LEMMA Alone ==
  ASSUME Base, LockInv, NEW p \in Proc, NEW q \in Proc,
         pc[p] \in SetupPCs, pc[q] \in SetupPCs, SlotOf(p) = SlotOf(q)
  PROVE  p = q
  BY DEF LockInv, LockDiscipline, Holds, DecidedPCs, SetupPCs, Inspected

(* A step that leaves a process and its work directory alone.              *)
LEMMA OtherWhole ==
  ASSUME NEW q \in Proc, SetupWhole(q), pc'[q] = pc[q], job'[q] = job[q],
         view'[q] = view[q], seen'[q] = seen[q], child'[q] = child[q],
         FromEmpty(q) => work'[SlotOf(q)] = work[SlotOf(q)]
  PROVE  SetupWhole(q)'
<1>1. FromEmpty(q)' = FromEmpty(q) /\ SlotOf(q)' = SlotOf(q) /\ TagOf(q)' = TagOf(q)
  BY DEF FromEmpty, SlotOf, TagOf, ConfOf
<1> QED
  BY <1>1 DEF SetupWhole

(* A step of a setup leaves the other processes and what they filled alone. *)
LEMMA OthersWhole ==
  ASSUME Base, LockInv, WholeInv, NEW p \in Proc, pc[p] \in SetupPCs,
         NEW q \in Proc \ {p}, UNCHANGED <<job, view, seen>>,
         pc'[q] = pc[q], child'[q] = child[q],
         \A s \in Slot : s # SlotOf(p) => work'[s] = work[s]
  PROVE  SetupWhole(q)'
<1>1. SetupWhole(q)
  BY DEF WholeInv
<1>2. FromEmpty(q) => pc[q] \in SetupPCs /\ SlotOf(q) \in Slot
  BY SlotType DEF FromEmpty, SetupPCs, Base
<1>3. FromEmpty(q) => SlotOf(q) # SlotOf(p)
  BY <1>2, Alone
<1>4. job'[q] = job[q] /\ view'[q] = view[q] /\ seen'[q] = seen[q]
  OBVIOUS
<1> QED
  BY <1>1, <1>2, <1>3, <1>4, OtherWhole

(* What each change of a work directory leaves of its other fields.        *)
LEMMA WorkFields ==
  ASSUME NEW w \in WorkDir, NEW t \in Tag, NEW p \in Proc
  PROVE  /\ [w EXCEPT !.whole = TRUE].of = w.of /\ [w EXCEPT !.whole = TRUE].whole = TRUE
         /\ [w EXCEPT !.bin = ~@].of = w.of /\ [w EXCEPT !.bin = ~@].whole = w.whole
         /\ [w EXCEPT !.tmps = @ \cup {p}].of = w.of
         /\ Placed(w, p, t).of = w.of \cup {t}
         /\ Begun(w, t).of = w.of \cup {t}
  BY DEF WorkDir, Placed, Begun

(* No work directory is in use at the start ...                            *)
LEMMA InitWhole == Init => WholeInv
  BY DEF Init, WholeInv, SetupWhole, FromEmpty

(* ... and a setup that starts empty stays the only writer.                *)
LEMMA NextWhole ==
  ASSUME NobodyKilled
  PROVE  Base /\ LockInv /\ WholeInv /\ [Next]_vars => WholeInv'
<1> SUFFICES ASSUME Base, LockInv, WholeInv, [Next]_vars PROVE WholeInv'
  OBVIOUS
<1> USE NamesAssumption, NobodyKilled
    DEF NobodyKilled, Base, TypeOK, ChildIsAwaited, envVars, cacheVars, localVars,
        Goto, GiveUp, PC, WholeInv, SetupWhole, FromEmpty, ConfOf, TagOf, SlotOf
<1>1. CASE UNCHANGED vars
  BY <1>1 DEF vars
<1>2. ASSUME NEW p \in Proc, Start(p)
      PROVE  WholeInv'
  <2> HIDE DEF SetupWhole
  <2>1. /\ pc[p] = "idle" /\ UNCHANGED <<work, orphans, view, seen, child>>
        /\ pc' = [pc EXCEPT ![p] = "load"]
        /\ \A q \in Proc \ {p} : job'[q] = job[q]
    BY <1>2 DEF Start
  <2>2. SetupWhole(p)'
    <3>1. pc'[p] = "load"
      BY <2>1
    <3> QED
      BY <3>1 DEF SetupWhole
  <2>3. ASSUME NEW q \in Proc \ {p} PROVE SetupWhole(q)'
    <3> HIDE DEF FromEmpty, ConfOf, TagOf, SlotOf
    <3>1. /\ pc'[q] = pc[q] /\ job'[q] = job[q] /\ view'[q] = view[q]
          /\ seen'[q] = seen[q] /\ child'[q] = child[q]
      BY <2>1
    <3>2. work'[SlotOf(q)] = work[SlotOf(q)]
      BY <2>1
    <3> QED
      BY <3>1, <3>2, OtherWhole
  <2> QED
    BY <2>1, <2>2, <2>3
<1>3. ASSUME NEW p \in Proc, Load(p)
      PROVE  WholeInv'
  <2>1. /\ pc[p] \in {"load", "reload"} /\ UNCHANGED <<work, orphans, job, seen, child>>
        /\ \A q \in Proc \ {p} : view'[q] = view[q]
        /\ pc' = [pc EXCEPT ![p] = "decide"] \/ pc' = [pc EXCEPT ![p] = "recheck"]
    BY <1>3 DEF Load
  <2> QED
    BY <2>1
<1>4. ASSUME NEW p \in Proc, LoadFails(p)
      PROVE  WholeInv'
  BY <1>4 DEF LoadFails
<1>5. ASSUME NEW p \in Proc, Decide(p)
      PROVE  WholeInv'
  <2>1. /\ pc[p] = "decide" /\ UNCHANGED <<work, orphans, job, seen, child>>
        /\ \E label \in {"due", "lock", "exec", "finish"} : pc' = [pc EXCEPT ![p] = label]
        /\ \A q \in Proc \ {p} : view'[q] = view[q]
    BY <1>5 DEF Decide
  <2> QED
    BY <2>1
<1>6. ASSUME NEW p \in Proc, ExecCached(p)
      PROVE  WholeInv'
  BY <1>6 DEF ExecCached
<1>7. ASSUME NEW p \in Proc, ProbeMissing(p)
      PROVE  WholeInv'
  BY <1>7 DEF ProbeMissing
<1>8. ASSUME NEW p \in Proc, ProbePresent(p)
      PROVE  WholeInv'
  BY <1>8 DEF ProbePresent
<1>9. ASSUME NEW p \in Proc, Acquire(p)
      PROVE  WholeInv'
  BY <1>9 DEF Acquire
<1>10. ASSUME NEW p \in Proc, LockFails(p)
      PROVE  WholeInv'
  BY <1>10 DEF LockFails
<1>11. ASSUME NEW p \in Proc, Recheck(p)
      PROVE  WholeInv'
  <2>1. /\ pc[p] = "recheck" /\ UNCHANGED <<work, orphans, job, seen, child>>
        /\ \E label \in {"due", "unlock"} : pc' = [pc EXCEPT ![p] = label]
        /\ \A q \in Proc \ {p} : view'[q] = view[q]
    BY <1>11 DEF Recheck
  <2> QED
    BY <2>1
<1>12. ASSUME NEW p \in Proc, Unlock(p)
      PROVE  WholeInv'
  BY <1>12 DEF Unlock
<1>13. ASSUME NEW p \in Proc, ReportDue(p)
      PROVE  WholeInv'
  BY <1>13 DEF ReportDue
<1>14. ASSUME NEW p \in Proc, AdoptCommand(p)
      PROVE  WholeInv'
  BY <1>14 DEF AdoptCommand, Adopted
<1>15. ASSUME NEW p \in Proc, BeginCommand(p)
      PROVE  WholeInv'
  <2>1. /\ pc[p] = "due" /\ ConfOf(p).kind = "command"
        /\ UNCHANGED <<work, orphans, job, view, seen, child>>
        /\ IF view[p].known
           THEN \E label \in {"stage", "fork"} : pc' = [pc EXCEPT ![p] = label]
           ELSE pc' = [pc EXCEPT ![p] = "reset"]
    BY <1>15 DEF BeginCommand, FirstStep, Filled
  <2> QED
    BY <2>1
<1>16. ASSUME NEW p \in Proc, CheckUrl(p)
      PROVE  WholeInv'
  <2>1. /\ pc[p] = "due" /\ UNCHANGED <<work, orphans, job, view, child>>
        /\ \A q \in Proc \ {p} : seen'[q] = seen[q]
        /\ pc' = [pc EXCEPT ![p] = "compare"]
    BY <1>16 DEF CheckUrl
  <2> QED
    BY <2>1
<1>17. ASSUME NEW p \in Proc, CheckFails(p)
      PROVE  WholeInv'
  BY <1>17 DEF CheckFails
<1>18. ASSUME NEW p \in Proc, Unchanged(p)
      PROVE  WholeInv'
  BY <1>18 DEF Unchanged
<1>19. ASSUME NEW p \in Proc, ReportChanged(p)
      PROVE  WholeInv'
  BY <1>19 DEF ReportChanged
<1>20. ASSUME NEW p \in Proc, AdoptUrl(p)
      PROVE  WholeInv'
  BY <1>20 DEF AdoptUrl, Adopted
<1>21. ASSUME NEW p \in Proc, BeginInstall(p)
      PROVE  WholeInv'
  BY <1>21 DEF BeginInstall
<1>22. ASSUME NEW p \in Proc, BeginReset(p)
      PROVE  WholeInv'
  <2>1. /\ pc[p] \in {"reset"} /\ UNCHANGED <<orphans, job, view, seen>>
        /\ pc' = [pc EXCEPT ![p] = "removing"] /\ UNCHANGED child
        /\ \A s \in Slot : s # SlotOf(p) => work'[s] = work[s]
    BY <1>22, SlotType DEF BeginReset
  <2>2. ASSUME NEW q \in Proc \ {p} PROVE SetupWhole(q)'
    <3> HIDE DEF Base, WholeInv, SetupWhole, FromEmpty, ConfOf, TagOf, SlotOf
    <3>1. pc'[q] = pc[q] /\ child'[q] = child[q]
      BY <2>1
    <3> QED
      BY <2>1, <3>1, OthersWhole DEF SetupPCs
  <2>4. SetupWhole(p)'
    BY <2>1
  <2> HIDE DEF SetupWhole
  <2> QED
    BY <2>1, <2>2, <2>4
<1>23. ASSUME NEW p \in Proc, EndReset(p)
      PROVE  WholeInv'
  <2>1. /\ pc[p] \in {"removing"} /\ UNCHANGED <<orphans, job, view, seen>>
        /\ \E label \in {"stage", "fork"} : pc' = [pc EXCEPT ![p] = label]
        /\ UNCHANGED child
        /\ \A s \in Slot : s # SlotOf(p) => work'[s] = work[s]
    BY <1>23, SlotType DEF EndReset, Filled, EmptyDir
  <2>2. ASSUME NEW q \in Proc \ {p} PROVE SetupWhole(q)'
    <3> HIDE DEF Base, WholeInv, SetupWhole, FromEmpty, ConfOf, TagOf, SlotOf
    <3>1. pc'[q] = pc[q] /\ child'[q] = child[q]
      BY <2>1
    <3> QED
      BY <2>1, <3>1, OthersWhole DEF SetupPCs
  <2>3. work'[SlotOf(p)].of = {}
    <3>1. SlotOf(p) \in Slot
      BY <2>1, SlotType
    <3>2. work' = [work EXCEPT ![SlotOf(p)] = EmptyDir]
      BY <1>23 DEF EndReset
    <3> QED
      BY <3>1, <3>2 DEF EmptyDir
  <2>4. SetupWhole(p)'
    BY <2>1, <2>3
  <2> HIDE DEF SetupWhole
  <2> QED
    BY <2>1, <2>2, <2>4
<1>24. ASSUME NEW p \in Proc, ResetFails(p)
      PROVE  WholeInv'
  BY <1>24 DEF ResetFails
<1>25. ASSUME NEW p \in Proc, StageFile(p)
      PROVE  WholeInv'
  <2>1. /\ pc[p] \in {"stage"} /\ UNCHANGED <<orphans, job, view, seen>>
        /\ pc' = [pc EXCEPT ![p] = "rename"] /\ UNCHANGED child
        /\ \A s \in Slot : s # SlotOf(p) => work'[s] = work[s]
    BY <1>25, SlotType DEF StageFile
  <2>2. ASSUME NEW q \in Proc \ {p} PROVE SetupWhole(q)'
    <3> HIDE DEF Base, WholeInv, SetupWhole, FromEmpty, ConfOf, TagOf, SlotOf
    <3>1. pc'[q] = pc[q] /\ child'[q] = child[q]
      BY <2>1
    <3> QED
      BY <2>1, <3>1, OthersWhole DEF SetupPCs
  <2>3. work'[SlotOf(p)].of = work[SlotOf(p)].of
    BY <1>25, <2>1, SlotType, WorkFields DEF StageFile
  <2>4. SetupWhole(p)'
    BY <2>1, <2>3
  <2> HIDE DEF SetupWhole
  <2> QED
    BY <2>1, <2>2, <2>4
<1>26. ASSUME NEW p \in Proc, RenameFile(p)
      PROVE  WholeInv'
  <2>1. /\ pc[p] \in {"rename"} /\ UNCHANGED <<orphans, job, view, seen>>
        /\ pc' = [pc EXCEPT ![p] = "fork"] /\ UNCHANGED child
        /\ \A s \in Slot : s # SlotOf(p) => work'[s] = work[s]
    BY <1>26, SlotType DEF RenameFile
  <2>2. ASSUME NEW q \in Proc \ {p} PROVE SetupWhole(q)'
    <3> HIDE DEF Base, WholeInv, SetupWhole, FromEmpty, ConfOf, TagOf, SlotOf
    <3>1. pc'[q] = pc[q] /\ child'[q] = child[q]
      BY <2>1
    <3> QED
      BY <2>1, <3>1, OthersWhole DEF SetupPCs
  <2>3. work'[SlotOf(p)].of = work[SlotOf(p)].of \cup {TagOf(p)}
    BY <1>26, <2>1, SlotType, WorkFields DEF RenameFile
  <2>4. SetupWhole(p)'
    BY <2>1, <2>3
  <2> HIDE DEF SetupWhole
  <2> QED
    BY <2>1, <2>2, <2>4
<1>27. ASSUME NEW p \in Proc, StageFails(p)
      PROVE  WholeInv'
  <2>1. /\ pc[p] \in {"stage", "rename"} /\ UNCHANGED <<orphans, job, view, seen>>
        /\ pc' = [pc EXCEPT ![p] = "unlock"] /\ UNCHANGED child
        /\ \A s \in Slot : s # SlotOf(p) => work'[s] = work[s]
    BY <1>27, SlotType DEF StageFails
  <2>2. ASSUME NEW q \in Proc \ {p} PROVE SetupWhole(q)'
    <3> HIDE DEF Base, WholeInv, SetupWhole, FromEmpty, ConfOf, TagOf, SlotOf
    <3>1. pc'[q] = pc[q] /\ child'[q] = child[q]
      BY <2>1
    <3> QED
      BY <2>1, <3>1, OthersWhole DEF SetupPCs
  <2>4. SetupWhole(p)'
    BY <2>1
  <2> HIDE DEF SetupWhole
  <2> QED
    BY <2>1, <2>2, <2>4
<1>28. ASSUME NEW p \in Proc, NoScript(p)
      PROVE  WholeInv'
  BY <1>28 DEF NoScript, Adopted
<1>29. ASSUME NEW p \in Proc, Fork(p)
      PROVE  WholeInv'
  <2>1. /\ pc[p] \in {"fork"} /\ UNCHANGED <<orphans, job, view, seen>>
        /\ pc' = [pc EXCEPT ![p] = "wait"] /\ child' = [child EXCEPT ![p] = "running"]
        /\ \A s \in Slot : s # SlotOf(p) => work'[s] = work[s]
    BY <1>29, SlotType DEF Fork
  <2>2. ASSUME NEW q \in Proc \ {p} PROVE SetupWhole(q)'
    <3> HIDE DEF Base, WholeInv, SetupWhole, FromEmpty, ConfOf, TagOf, SlotOf
    <3>1. pc'[q] = pc[q] /\ child'[q] = child[q]
      BY <2>1
    <3> QED
      BY <2>1, <3>1, OthersWhole DEF SetupPCs
  <2>3. /\ TagOf(p) \in work'[SlotOf(p)].of
        /\ work'[SlotOf(p)].of \subseteq work[SlotOf(p)].of \cup {TagOf(p)}
    BY <1>29, <2>1, SlotType, WorkFields DEF Fork
  <2>4. SetupWhole(p)'
    BY <2>1, <2>3
  <2> HIDE DEF SetupWhole
  <2> QED
    BY <2>1, <2>2, <2>4
<1>30. ASSUME NEW p \in Proc, ForkFails(p)
      PROVE  WholeInv'
  BY <1>30 DEF ForkFails
<1>31. ASSUME NEW p \in Proc, ChildWrites(p)
      PROVE  WholeInv'
  <2>1. /\ pc[p] \in {"wait"} /\ UNCHANGED <<orphans, job, view, seen>>
        /\ child[p] = "running" /\ UNCHANGED <<pc, child>>
        /\ \A s \in Slot : s # SlotOf(p) => work'[s] = work[s]
    BY <1>31, SlotType DEF ChildWrites
  <2>2. ASSUME NEW q \in Proc \ {p} PROVE SetupWhole(q)'
    <3> HIDE DEF Base, WholeInv, SetupWhole, FromEmpty, ConfOf, TagOf, SlotOf
    <3>1. pc'[q] = pc[q] /\ child'[q] = child[q]
      BY <2>1
    <3> QED
      BY <2>1, <3>1, OthersWhole DEF SetupPCs
  <2>3. /\ work'[SlotOf(p)].of = work[SlotOf(p)].of
        /\ work'[SlotOf(p)].whole = work[SlotOf(p)].whole
    BY <1>31, <2>1, SlotType, WorkFields DEF ChildWrites
  <2>4. SetupWhole(p)'
    BY <2>1, <2>3
  <2> HIDE DEF SetupWhole
  <2> QED
    BY <2>1, <2>2, <2>4
<1>32. ASSUME NEW p \in Proc, ChildSucceeds(p)
      PROVE  WholeInv'
  <2>1. /\ pc[p] \in {"wait"} /\ UNCHANGED <<orphans, job, view, seen>>
        /\ /\ child[p] = "running" /\ UNCHANGED pc
           /\ child' = [child EXCEPT ![p] = "ok"]
        /\ \A s \in Slot : s # SlotOf(p) => work'[s] = work[s]
    BY <1>32, SlotType DEF ChildSucceeds
  <2>2. ASSUME NEW q \in Proc \ {p} PROVE SetupWhole(q)'
    <3> HIDE DEF Base, WholeInv, SetupWhole, FromEmpty, ConfOf, TagOf, SlotOf
    <3>1. pc'[q] = pc[q] /\ child'[q] = child[q]
      BY <2>1
    <3> QED
      BY <2>1, <3>1, OthersWhole DEF SetupPCs
  <2>3. work'[SlotOf(p)].of = work[SlotOf(p)].of /\ work'[SlotOf(p)].whole = TRUE
    <3>1. SlotOf(p) \in Slot /\ work[SlotOf(p)] \in WorkDir /\ TagOf(p) \in Tag
      BY <2>1, SlotType
    <3>2. work' = [work EXCEPT ![SlotOf(p)] = [@ EXCEPT !.whole = TRUE]]
      BY <1>32 DEF ChildSucceeds
    <3> QED
      BY <3>1, <3>2, WorkFields
  <2>4. SetupWhole(p)'
    BY <2>1, <2>3
  <2> HIDE DEF SetupWhole
  <2> QED
    BY <2>1, <2>2, <2>4
<1>33. ASSUME NEW p \in Proc, ChildFails(p)
      PROVE  WholeInv'
  BY <1>33 DEF ChildFails
<1>34. ASSUME NEW p \in Proc, Interrupt(p)
      PROVE  WholeInv'
  BY <1>34 DEF Interrupt
<1>35. ASSUME NEW p \in Proc, Reap(p)
      PROVE  WholeInv'
  BY <1>35 DEF Reap
<1>36. ASSUME NEW p \in Proc, Reraise(p)
      PROVE  WholeInv'
  BY <1>36 DEF Reraise, Gone
<1>37. ASSUME NEW p \in Proc, Save(p)
      PROVE  WholeInv'
  BY <1>37 DEF Save
<1>38. ASSUME NEW p \in Proc, SaveFails(p)
      PROVE  WholeInv'
  BY <1>38 DEF SaveFails
<1>39. ASSUME NEW p \in Proc, Handover(p)
      PROVE  WholeInv'
  BY <1>39 DEF Handover
<1>40. ASSUME NEW p \in Proc, Leave(p)
      PROVE  WholeInv'
  BY <1>40 DEF Leave, Gone
<1>41. ASSUME NEW p \in Proc, Die(p)
      PROVE  WholeInv'
  <2>1. UNCHANGED orphans
    BY <1>41, SlotType DEF Die
  <2> QED
    BY <1>41, <2>1 DEF Die, Gone
<1>42. ASSUME NEW s \in Source, Edit(s)
      PROVE  WholeInv'
  BY <1>42 DEF Edit
<1>43. ASSUME NEW i \in Ident, RemoteChanges(i)
      PROVE  WholeInv'
  BY <1>43 DEF RemoteChanges
<1>44. ASSUME NEW s \in Slot, OrphanWrites(s)
      PROVE  WholeInv'
  BY <1>44 DEF OrphanWrites
<1>45. ASSUME NEW s \in Slot, OrphanEnds(s)
      PROVE  WholeInv'
  BY <1>45 DEF OrphanEnds
<1>46. ASSUME NEW s \in Slot, WorkDirRemoved(s)
      PROVE  WholeInv'
  <2>1. /\ UNCHANGED <<pc, orphans, job, view, seen, child>>
        /\ "rm" \in Faults
        /\ \A t \in Slot : work'[t].of = {} \/ work'[t] = work[t]
    BY <1>46 DEF WorkDirRemoved, EmptyDir
  <2>2. \A q \in Proc : pc[q] # "idle" => SlotOf(q) \in Slot
    BY SlotType
  <2> QED
    BY <2>1, <2>2
<1>47. CASE Tick
  BY <1>47 DEF Tick
<1> QED
    BY <1>1, <1>2, <1>3, <1>4, <1>5, <1>6, <1>7, <1>8, <1>9, <1>10, <1>11,
     <1>12, <1>13, <1>14, <1>15, <1>16, <1>17, <1>18, <1>19, <1>20, <1>21,
     <1>22, <1>23, <1>24, <1>25, <1>26, <1>27, <1>28, <1>29, <1>30, <1>31,
     <1>32, <1>33, <1>34, <1>35, <1>36, <1>37, <1>38, <1>39, <1>40, <1>41,
     <1>42, <1>43, <1>44, <1>45, <1>46, <1>47
    DEF Next, Process, Advance, CallFails, ChildEnds, World

(* What a setup that began by emptying the work directory records is its   *)
(* own work, complete.                                                     *)
THEOREM CommitsAreWhole ==
  ASSUME NobodyKilled
  PROVE  Spec => []CommitIsWhole
<1>1. WholeInv /\ [](Base /\ LockInv) /\ [][Next]_vars => []WholeInv
  BY NextWhole, PTL
<1>2. WholeInv => CommitIsWhole
  BY DEF WholeInv, SetupWhole, FromEmpty, CommitIsWhole
<1> QED
  BY <1>1, <1>2, LockHolds, InitWhole, PTL DEF Spec

(* Two setups are never alive in one work directory.                       *)
THEOREM SetupsAreAlone ==
  ASSUME NobodyKilled
  PROVE  Spec => []OneSetupAtATime
<1>1. WholeInv /\ [](Base /\ LockInv) /\ [][Next]_vars => []WholeInv
  BY NextWhole, PTL
<1>2. Base /\ LockInv /\ WholeInv => OneSetupAtATime
  <2> SUFFICES ASSUME Base, LockInv, WholeInv, NEW s \in Slot
               PROVE  Cardinality({p \in Proc : child[p] = "running" /\ SlotOf(p) = s})
                        + Cardinality(orphans[s]) <= 1
    BY DEF OneSetupAtATime
  <2> DEFINE alive == {p \in Proc : child[p] = "running" /\ SlotOf(p) = s}
  <2>1. Cardinality(orphans[s]) = 0
    BY FS_EmptySet DEF WholeInv
  <2>2. \A p, q \in alive : p = q
    BY Alone DEF Base, ChildIsAwaited, SetupPCs
  <2>3. alive = {} \/ \E p \in alive : alive = {p}
    BY <2>2
  <2>4. Cardinality(alive) \in {0, 1}
    BY <2>3, FS_EmptySet, FS_Singleton
  <2> QED
    BY <2>1, <2>4
<1> QED
  BY <1>1, <1>2, LockHolds, InitWhole, PTL DEF Spec

(* The step of OnlyHolderTouchesWork.                                      *)
Touched ==
    \A s \in Slot : work'[s] # work[s] =>
        \/ lock[s] # Nobody /\ lock'[s] = lock[s] /\ pc[lock[s]] \in SetupPCs
        \/ orphans[s] # {}
        \/ WorkDirRemoved(s)

(* Every step changes work directories only in the ways listed.            *)
LEMMA NextTouched == Base /\ LockInv /\ [Next]_vars => Touched
<1> SUFFICES ASSUME Base, LockInv, [Next]_vars PROVE Touched
  OBVIOUS
<1> USE NamesAssumption
    DEF Base, TypeOK, ChildIsAwaited, envVars, cacheVars, localVars, Touched
<1>1. CASE UNCHANGED vars
  BY <1>1 DEF vars
<1>2. ASSUME NEW p \in Proc, Start(p)
      PROVE  Touched
  BY <1>2 DEF Start
<1>3. ASSUME NEW p \in Proc, Load(p)
      PROVE  Touched
  BY <1>3 DEF Load
<1>4. ASSUME NEW p \in Proc, LoadFails(p)
      PROVE  Touched
  BY <1>4 DEF LoadFails
<1>5. ASSUME NEW p \in Proc, Decide(p)
      PROVE  Touched
  BY <1>5 DEF Decide
<1>6. ASSUME NEW p \in Proc, ExecCached(p)
      PROVE  Touched
  BY <1>6 DEF ExecCached
<1>7. ASSUME NEW p \in Proc, ProbeMissing(p)
      PROVE  Touched
  BY <1>7 DEF ProbeMissing
<1>8. ASSUME NEW p \in Proc, ProbePresent(p)
      PROVE  Touched
  BY <1>8 DEF ProbePresent
<1>9. ASSUME NEW p \in Proc, Acquire(p)
      PROVE  Touched
  BY <1>9 DEF Acquire
<1>10. ASSUME NEW p \in Proc, LockFails(p)
      PROVE  Touched
  BY <1>10 DEF LockFails
<1>11. ASSUME NEW p \in Proc, Recheck(p)
      PROVE  Touched
  BY <1>11 DEF Recheck
<1>12. ASSUME NEW p \in Proc, Unlock(p)
      PROVE  Touched
  BY <1>12 DEF Unlock
<1>13. ASSUME NEW p \in Proc, ReportDue(p)
      PROVE  Touched
  BY <1>13 DEF ReportDue
<1>14. ASSUME NEW p \in Proc, AdoptCommand(p)
      PROVE  Touched
  BY <1>14 DEF AdoptCommand, Adopted
<1>15. ASSUME NEW p \in Proc, BeginCommand(p)
      PROVE  Touched
  BY <1>15 DEF BeginCommand
<1>16. ASSUME NEW p \in Proc, CheckUrl(p)
      PROVE  Touched
  BY <1>16 DEF CheckUrl
<1>17. ASSUME NEW p \in Proc, CheckFails(p)
      PROVE  Touched
  BY <1>17 DEF CheckFails
<1>18. ASSUME NEW p \in Proc, Unchanged(p)
      PROVE  Touched
  BY <1>18 DEF Unchanged
<1>19. ASSUME NEW p \in Proc, ReportChanged(p)
      PROVE  Touched
  BY <1>19 DEF ReportChanged
<1>20. ASSUME NEW p \in Proc, AdoptUrl(p)
      PROVE  Touched
  BY <1>20 DEF AdoptUrl, Adopted
<1>21. ASSUME NEW p \in Proc, BeginInstall(p)
      PROVE  Touched
  BY <1>21 DEF BeginInstall
<1>22. ASSUME NEW p \in Proc, BeginReset(p)
      PROVE  Touched
  <2>1. /\ pc[p] \in SetupPCs /\ UNCHANGED lock
        /\ \A s \in Slot : s # SlotOf(p) => work'[s] = work[s]
    BY <1>22, SlotType DEF BeginReset, SetupPCs
  <2>2. lock[SlotOf(p)] = p
    BY <2>1 DEF LockInv, LockDiscipline, Holds, Inspected, SetupPCs, DecidedPCs
  <2> QED
    BY <2>1, <2>2
<1>23. ASSUME NEW p \in Proc, EndReset(p)
      PROVE  Touched
  <2>1. /\ pc[p] \in SetupPCs /\ UNCHANGED lock
        /\ \A s \in Slot : s # SlotOf(p) => work'[s] = work[s]
    BY <1>23, SlotType DEF EndReset, SetupPCs
  <2>2. lock[SlotOf(p)] = p
    BY <2>1 DEF LockInv, LockDiscipline, Holds, Inspected, SetupPCs, DecidedPCs
  <2> QED
    BY <2>1, <2>2
<1>24. ASSUME NEW p \in Proc, ResetFails(p)
      PROVE  Touched
  BY <1>24 DEF ResetFails
<1>25. ASSUME NEW p \in Proc, StageFile(p)
      PROVE  Touched
  <2>1. /\ pc[p] \in SetupPCs /\ UNCHANGED lock
        /\ \A s \in Slot : s # SlotOf(p) => work'[s] = work[s]
    BY <1>25, SlotType DEF StageFile, SetupPCs
  <2>2. lock[SlotOf(p)] = p
    BY <2>1 DEF LockInv, LockDiscipline, Holds, Inspected, SetupPCs, DecidedPCs
  <2> QED
    BY <2>1, <2>2
<1>26. ASSUME NEW p \in Proc, RenameFile(p)
      PROVE  Touched
  <2>1. /\ pc[p] \in SetupPCs /\ UNCHANGED lock
        /\ \A s \in Slot : s # SlotOf(p) => work'[s] = work[s]
    BY <1>26, SlotType DEF RenameFile, SetupPCs
  <2>2. lock[SlotOf(p)] = p
    BY <2>1 DEF LockInv, LockDiscipline, Holds, Inspected, SetupPCs, DecidedPCs
  <2> QED
    BY <2>1, <2>2
<1>27. ASSUME NEW p \in Proc, StageFails(p)
      PROVE  Touched
  <2>1. /\ pc[p] \in SetupPCs /\ UNCHANGED lock
        /\ \A s \in Slot : s # SlotOf(p) => work'[s] = work[s]
    BY <1>27, SlotType DEF StageFails, SetupPCs
  <2>2. lock[SlotOf(p)] = p
    BY <2>1 DEF LockInv, LockDiscipline, Holds, Inspected, SetupPCs, DecidedPCs
  <2> QED
    BY <2>1, <2>2
<1>28. ASSUME NEW p \in Proc, NoScript(p)
      PROVE  Touched
  BY <1>28 DEF NoScript, Adopted
<1>29. ASSUME NEW p \in Proc, Fork(p)
      PROVE  Touched
  <2>1. /\ pc[p] \in SetupPCs /\ UNCHANGED lock
        /\ \A s \in Slot : s # SlotOf(p) => work'[s] = work[s]
    BY <1>29, SlotType DEF Fork, SetupPCs
  <2>2. lock[SlotOf(p)] = p
    BY <2>1 DEF LockInv, LockDiscipline, Holds, Inspected, SetupPCs, DecidedPCs
  <2> QED
    BY <2>1, <2>2
<1>30. ASSUME NEW p \in Proc, ForkFails(p)
      PROVE  Touched
  BY <1>30 DEF ForkFails
<1>31. ASSUME NEW p \in Proc, ChildWrites(p)
      PROVE  Touched
  <2>1. /\ pc[p] \in SetupPCs /\ UNCHANGED lock
        /\ \A s \in Slot : s # SlotOf(p) => work'[s] = work[s]
    BY <1>31, SlotType DEF ChildWrites, SetupPCs
  <2>2. lock[SlotOf(p)] = p
    BY <2>1 DEF LockInv, LockDiscipline, Holds, Inspected, SetupPCs, DecidedPCs
  <2> QED
    BY <2>1, <2>2
<1>32. ASSUME NEW p \in Proc, ChildSucceeds(p)
      PROVE  Touched
  <2>1. /\ pc[p] \in SetupPCs /\ UNCHANGED lock
        /\ \A s \in Slot : s # SlotOf(p) => work'[s] = work[s]
    BY <1>32, SlotType DEF ChildSucceeds, SetupPCs
  <2>2. lock[SlotOf(p)] = p
    BY <2>1 DEF LockInv, LockDiscipline, Holds, Inspected, SetupPCs, DecidedPCs
  <2> QED
    BY <2>1, <2>2
<1>33. ASSUME NEW p \in Proc, ChildFails(p)
      PROVE  Touched
  BY <1>33 DEF ChildFails
<1>34. ASSUME NEW p \in Proc, Interrupt(p)
      PROVE  Touched
  BY <1>34 DEF Interrupt
<1>35. ASSUME NEW p \in Proc, Reap(p)
      PROVE  Touched
  BY <1>35 DEF Reap
<1>36. ASSUME NEW p \in Proc, Reraise(p)
      PROVE  Touched
  BY <1>36 DEF Reraise
<1>37. ASSUME NEW p \in Proc, Save(p)
      PROVE  Touched
  BY <1>37 DEF Save
<1>38. ASSUME NEW p \in Proc, SaveFails(p)
      PROVE  Touched
  BY <1>38 DEF SaveFails
<1>39. ASSUME NEW p \in Proc, Handover(p)
      PROVE  Touched
  BY <1>39 DEF Handover
<1>40. ASSUME NEW p \in Proc, Leave(p)
      PROVE  Touched
  BY <1>40 DEF Leave
<1>41. ASSUME NEW p \in Proc, Die(p)
      PROVE  Touched
  BY <1>41 DEF Die
<1>42. ASSUME NEW s \in Source, Edit(s)
      PROVE  Touched
  BY <1>42 DEF Edit
<1>43. ASSUME NEW i \in Ident, RemoteChanges(i)
      PROVE  Touched
  BY <1>43 DEF RemoteChanges
<1>44. ASSUME NEW s \in Slot, OrphanWrites(s)
      PROVE  Touched
  <2>1. orphans[s] # {} /\ \A t \in Slot : t # s => work'[t] = work[t]
    BY <1>44 DEF OrphanWrites
  <2> QED
    BY <2>1
<1>45. ASSUME NEW s \in Slot, OrphanEnds(s)
      PROVE  Touched
  BY <1>45 DEF OrphanEnds
<1>46. ASSUME NEW s \in Slot, WorkDirRemoved(s)
      PROVE  Touched
  <2>1. \A t \in Slot : t # s => work'[t] = work[t]
    BY <1>46 DEF WorkDirRemoved
  <2> QED
    BY <1>46, <2>1
<1>47. CASE Tick
  BY <1>47 DEF Tick
<1> QED
    BY <1>1, <1>2, <1>3, <1>4, <1>5, <1>6, <1>7, <1>8, <1>9, <1>10, <1>11,
     <1>12, <1>13, <1>14, <1>15, <1>16, <1>17, <1>18, <1>19, <1>20, <1>21,
     <1>22, <1>23, <1>24, <1>25, <1>26, <1>27, <1>28, <1>29, <1>30, <1>31,
     <1>32, <1>33, <1>34, <1>35, <1>36, <1>37, <1>38, <1>39, <1>40, <1>41,
     <1>42, <1>43, <1>44, <1>45, <1>46, <1>47
    DEF Next, Process, Advance, CallFails, ChildEnds, World

(* Work directories change only under their lock, in the middle of a       *)
(* setup, or by what is not hacman's: a surviving setup or the user.       *)
THEOREM OnlyHoldersTouchWork == Spec => OnlyHolderTouchesWork
<1>1. Base /\ LockInv /\ [Next]_vars => [Touched]_vars
  BY NextTouched
<1> QED
  BY <1>1, LockHolds, PTL DEF Spec, OnlyHolderTouchesWork, Touched

-----------------------------------------------------------------------------
(* No work twice.                                                          *)

(* What p saw when it decided again under the lock calls for its work, and *)
(* the program is still missing if that was the reason.                    *)
CalledFor(p) ==
    IsDue(ConfOf(p), view[p].known, view[p].lastCheck, view[p].now, job[p].force,
          BinMissing(p))
CalledInv == \A p \in Proc : pc[p] \in {"due", "compare"} => CalledFor(p)

(* Nobody decides at the start ...                                         *)
LEMMA InitCalled == Init => CalledInv
  BY DEF Init, CalledInv

(* ... and no other run makes work under way superfluous.                  *)
LEMMA NextCalled ==
  ASSUME NoInspection
  PROVE  Base /\ LockInv /\ FreshInv /\ WholeInv /\ CalledInv /\ [Next]_vars => CalledInv'
<1> SUFFICES ASSUME Base, LockInv, FreshInv, WholeInv, CalledInv, [Next]_vars
             PROVE  CalledInv'
  OBVIOUS
<1> USE NamesAssumption
    DEF Base, TypeOK, ChildIsAwaited, envVars, cacheVars, localVars, Goto, GiveUp, PC,
        CalledInv, CalledFor, IsDue, BinMissing, ConfOf, SlotOf
<1>1. CASE UNCHANGED vars
  BY <1>1 DEF vars
<1>2. ASSUME NEW p \in Proc, Start(p)
      PROVE  CalledInv'
  <2>1. /\ pc[p] = "idle" /\ UNCHANGED <<work, view>>
        /\ pc' = [pc EXCEPT ![p] = "load"]
        /\ \A q \in Proc \ {p} : job'[q] = job[q]
    BY <1>2 DEF Start
  <2> QED
    BY <2>1
<1>3. ASSUME NEW p \in Proc, Load(p)
      PROVE  CalledInv'
  <2>1. /\ pc[p] \in {"load", "reload"} /\ UNCHANGED <<work, job>>
        /\ \A q \in Proc \ {p} : view'[q] = view[q]
        /\ pc' = [pc EXCEPT ![p] = "decide"] \/ pc' = [pc EXCEPT ![p] = "recheck"]
    BY <1>3 DEF Load
  <2> QED
    BY <2>1
<1>4. ASSUME NEW p \in Proc, LoadFails(p)
      PROVE  CalledInv'
  BY <1>4 DEF LoadFails
<1>5. ASSUME NEW p \in Proc, Decide(p)
      PROVE  CalledInv'
  <2>1. /\ pc[p] = "decide" /\ UNCHANGED <<work, job>>
        /\ \A q \in Proc \ {p} : view'[q] = view[q]
        /\ \E label \in {"lock", "exec", "finish"} : pc' = [pc EXCEPT ![p] = label]
    BY <1>5 DEF Decide, FreshInv, Inspected
  <2> QED
    BY <2>1
<1>6. ASSUME NEW p \in Proc, ExecCached(p)
      PROVE  CalledInv'
  BY <1>6 DEF ExecCached
<1>7. ASSUME NEW p \in Proc, ProbeMissing(p)
      PROVE  CalledInv'
  BY <1>7 DEF ProbeMissing
<1>8. ASSUME NEW p \in Proc, ProbePresent(p)
      PROVE  CalledInv'
  BY <1>8 DEF ProbePresent
<1>9. ASSUME NEW p \in Proc, Acquire(p)
      PROVE  CalledInv'
  BY <1>9 DEF Acquire
<1>10. ASSUME NEW p \in Proc, LockFails(p)
      PROVE  CalledInv'
  BY <1>10 DEF LockFails
<1>11. ASSUME NEW p \in Proc, Recheck(p)
      PROVE  CalledInv'
  <2>1. /\ pc[p] = "recheck" /\ UNCHANGED <<work, job>>
        /\ \A q \in Proc \ {p} : view'[q] = view[q]
        /\ pc' = [pc EXCEPT ![p] = IF DueNow(p, TRUE) THEN "due" ELSE "unlock"]
        /\ view' = [view EXCEPT ![p] = [@ EXCEPT !.now = clock]]
    BY <1>11 DEF Recheck
  <2>2. /\ view'[p].known = view[p].known /\ view'[p].lastCheck = view[p].lastCheck
        /\ view'[p].now = clock
    BY <2>1, ViewFields
  <2>3. pc'[p] = "due" =>
           IsDue(ConfOf(p), view[p].known, view[p].lastCheck, clock, job[p].force,
                 BinMissing(p))
    BY <2>1 DEF DueNow
  <2>4. pc'[p] = "due" => CalledFor(p)'
    BY <2>1, <2>2, <2>3
  <2>5. \A q \in Proc \ {p} : pc'[q] = pc[q] /\ (CalledFor(q) => CalledFor(q)')
    BY <2>1
  <2>6. pc'[p] # "compare"
    BY <2>1
  <2> HIDE DEF CalledFor
  <2> QED
    BY <2>4, <2>5, <2>6
<1>12. ASSUME NEW p \in Proc, Unlock(p)
      PROVE  CalledInv'
  BY <1>12 DEF Unlock
<1>13. ASSUME NEW p \in Proc, ReportDue(p)
      PROVE  CalledInv'
  BY <1>13 DEF ReportDue
<1>14. ASSUME NEW p \in Proc, AdoptCommand(p)
      PROVE  CalledInv'
  BY <1>14 DEF AdoptCommand, Adopted
<1>15. ASSUME NEW p \in Proc, BeginCommand(p)
      PROVE  CalledInv'
  BY <1>15 DEF BeginCommand, FirstStep, Filled
<1>16. ASSUME NEW p \in Proc, CheckUrl(p)
      PROVE  CalledInv'
  BY <1>16 DEF CheckUrl
<1>17. ASSUME NEW p \in Proc, CheckFails(p)
      PROVE  CalledInv'
  BY <1>17 DEF CheckFails
<1>18. ASSUME NEW p \in Proc, Unchanged(p)
      PROVE  CalledInv'
  BY <1>18 DEF Unchanged
<1>19. ASSUME NEW p \in Proc, ReportChanged(p)
      PROVE  CalledInv'
  BY <1>19 DEF ReportChanged
<1>20. ASSUME NEW p \in Proc, AdoptUrl(p)
      PROVE  CalledInv'
  BY <1>20 DEF AdoptUrl, Adopted
<1>21. ASSUME NEW p \in Proc, BeginInstall(p)
      PROVE  CalledInv'
  BY <1>21 DEF BeginInstall
<1>22. ASSUME NEW p \in Proc, BeginReset(p)
      PROVE  CalledInv'
  <2>1. /\ pc[p] \in SetupPCs /\ UNCHANGED <<job, view>>
        /\ pc'[p] \notin {"due", "compare"}
        /\ \A q \in Proc \ {p} : pc'[q] = pc[q]
        /\ \A s \in Slot : s # SlotOf(p) => work'[s] = work[s]
    BY <1>22, SlotType DEF BeginReset, SetupPCs
  <2>2. \A q \in Proc \ {p} : pc[q] \in {"due", "compare"} =>
           SlotOf(q) \in Slot /\ SlotOf(q) # SlotOf(p)
    BY <2>1, SlotType
       DEF LockInv, LockDiscipline, FreshInv, Holds, SetupPCs, DecidedPCs
  <2> QED
    BY <2>1, <2>2
<1>23. ASSUME NEW p \in Proc, EndReset(p)
      PROVE  CalledInv'
  <2>1. /\ pc[p] \in SetupPCs /\ UNCHANGED <<job, view>>
        /\ pc'[p] \notin {"due", "compare"}
        /\ \A q \in Proc \ {p} : pc'[q] = pc[q]
        /\ \A s \in Slot : s # SlotOf(p) => work'[s] = work[s]
    BY <1>23, SlotType DEF EndReset, SetupPCs, Filled
  <2>2. \A q \in Proc \ {p} : pc[q] \in {"due", "compare"} =>
           SlotOf(q) \in Slot /\ SlotOf(q) # SlotOf(p)
    BY <2>1, SlotType
       DEF LockInv, LockDiscipline, FreshInv, Holds, SetupPCs, DecidedPCs
  <2> QED
    BY <2>1, <2>2
<1>24. ASSUME NEW p \in Proc, ResetFails(p)
      PROVE  CalledInv'
  BY <1>24 DEF ResetFails
<1>25. ASSUME NEW p \in Proc, StageFile(p)
      PROVE  CalledInv'
  <2>1. /\ pc[p] \in SetupPCs /\ UNCHANGED <<job, view>>
        /\ pc'[p] \notin {"due", "compare"}
        /\ \A q \in Proc \ {p} : pc'[q] = pc[q]
        /\ \A s \in Slot : s # SlotOf(p) => work'[s] = work[s]
    BY <1>25, SlotType DEF StageFile, SetupPCs
  <2>2. \A q \in Proc \ {p} : pc[q] \in {"due", "compare"} =>
           SlotOf(q) \in Slot /\ SlotOf(q) # SlotOf(p)
    BY <2>1, SlotType
       DEF LockInv, LockDiscipline, FreshInv, Holds, SetupPCs, DecidedPCs
  <2> QED
    BY <2>1, <2>2
<1>26. ASSUME NEW p \in Proc, RenameFile(p)
      PROVE  CalledInv'
  <2>1. /\ pc[p] \in SetupPCs /\ UNCHANGED <<job, view>>
        /\ pc'[p] \notin {"due", "compare"}
        /\ \A q \in Proc \ {p} : pc'[q] = pc[q]
        /\ \A s \in Slot : s # SlotOf(p) => work'[s] = work[s]
    BY <1>26, SlotType DEF RenameFile, SetupPCs
  <2>2. \A q \in Proc \ {p} : pc[q] \in {"due", "compare"} =>
           SlotOf(q) \in Slot /\ SlotOf(q) # SlotOf(p)
    BY <2>1, SlotType
       DEF LockInv, LockDiscipline, FreshInv, Holds, SetupPCs, DecidedPCs
  <2> QED
    BY <2>1, <2>2
<1>27. ASSUME NEW p \in Proc, StageFails(p)
      PROVE  CalledInv'
  <2>1. /\ pc[p] \in SetupPCs /\ UNCHANGED <<job, view>>
        /\ pc'[p] \notin {"due", "compare"}
        /\ \A q \in Proc \ {p} : pc'[q] = pc[q]
        /\ \A s \in Slot : s # SlotOf(p) => work'[s] = work[s]
    BY <1>27, SlotType DEF StageFails, SetupPCs
  <2>2. \A q \in Proc \ {p} : pc[q] \in {"due", "compare"} =>
           SlotOf(q) \in Slot /\ SlotOf(q) # SlotOf(p)
    BY <2>1, SlotType
       DEF LockInv, LockDiscipline, FreshInv, Holds, SetupPCs, DecidedPCs
  <2> QED
    BY <2>1, <2>2
<1>28. ASSUME NEW p \in Proc, NoScript(p)
      PROVE  CalledInv'
  BY <1>28 DEF NoScript, Adopted
<1>29. ASSUME NEW p \in Proc, Fork(p)
      PROVE  CalledInv'
  <2>1. /\ pc[p] \in SetupPCs /\ UNCHANGED <<job, view>>
        /\ pc'[p] \notin {"due", "compare"}
        /\ \A q \in Proc \ {p} : pc'[q] = pc[q]
        /\ \A s \in Slot : s # SlotOf(p) => work'[s] = work[s]
    BY <1>29, SlotType DEF Fork, SetupPCs
  <2>2. \A q \in Proc \ {p} : pc[q] \in {"due", "compare"} =>
           SlotOf(q) \in Slot /\ SlotOf(q) # SlotOf(p)
    BY <2>1, SlotType
       DEF LockInv, LockDiscipline, FreshInv, Holds, SetupPCs, DecidedPCs
  <2> QED
    BY <2>1, <2>2
<1>30. ASSUME NEW p \in Proc, ForkFails(p)
      PROVE  CalledInv'
  BY <1>30 DEF ForkFails
<1>31. ASSUME NEW p \in Proc, ChildWrites(p)
      PROVE  CalledInv'
  <2>1. /\ pc[p] \in SetupPCs /\ UNCHANGED <<job, view>>
        /\ pc'[p] \notin {"due", "compare"}
        /\ \A q \in Proc \ {p} : pc'[q] = pc[q]
        /\ \A s \in Slot : s # SlotOf(p) => work'[s] = work[s]
    BY <1>31, SlotType DEF ChildWrites, SetupPCs
  <2>2. \A q \in Proc \ {p} : pc[q] \in {"due", "compare"} =>
           SlotOf(q) \in Slot /\ SlotOf(q) # SlotOf(p)
    BY <2>1, SlotType
       DEF LockInv, LockDiscipline, FreshInv, Holds, SetupPCs, DecidedPCs
  <2> QED
    BY <2>1, <2>2
<1>32. ASSUME NEW p \in Proc, ChildSucceeds(p)
      PROVE  CalledInv'
  <2>1. /\ pc[p] \in SetupPCs /\ UNCHANGED <<job, view>>
        /\ pc'[p] \notin {"due", "compare"}
        /\ \A q \in Proc \ {p} : pc'[q] = pc[q]
        /\ \A s \in Slot : s # SlotOf(p) => work'[s] = work[s]
    BY <1>32, SlotType DEF ChildSucceeds, SetupPCs
  <2>2. \A q \in Proc \ {p} : pc[q] \in {"due", "compare"} =>
           SlotOf(q) \in Slot /\ SlotOf(q) # SlotOf(p)
    BY <2>1, SlotType
       DEF LockInv, LockDiscipline, FreshInv, Holds, SetupPCs, DecidedPCs
  <2> QED
    BY <2>1, <2>2
<1>33. ASSUME NEW p \in Proc, ChildFails(p)
      PROVE  CalledInv'
  BY <1>33 DEF ChildFails
<1>34. ASSUME NEW p \in Proc, Interrupt(p)
      PROVE  CalledInv'
  BY <1>34 DEF Interrupt
<1>35. ASSUME NEW p \in Proc, Reap(p)
      PROVE  CalledInv'
  BY <1>35 DEF Reap
<1>36. ASSUME NEW p \in Proc, Reraise(p)
      PROVE  CalledInv'
  BY <1>36 DEF Reraise, Gone
<1>37. ASSUME NEW p \in Proc, Save(p)
      PROVE  CalledInv'
  BY <1>37 DEF Save
<1>38. ASSUME NEW p \in Proc, SaveFails(p)
      PROVE  CalledInv'
  BY <1>38 DEF SaveFails
<1>39. ASSUME NEW p \in Proc, Handover(p)
      PROVE  CalledInv'
  BY <1>39 DEF Handover
<1>40. ASSUME NEW p \in Proc, Leave(p)
      PROVE  CalledInv'
  BY <1>40 DEF Leave, Gone
<1>41. ASSUME NEW p \in Proc, Die(p)
      PROVE  CalledInv'
  BY <1>41 DEF Die, Gone
<1>42. ASSUME NEW s \in Source, Edit(s)
      PROVE  CalledInv'
  BY <1>42 DEF Edit
<1>43. ASSUME NEW i \in Ident, RemoteChanges(i)
      PROVE  CalledInv'
  BY <1>43 DEF RemoteChanges
<1>44. ASSUME NEW s \in Slot, OrphanWrites(s)
      PROVE  CalledInv'
  BY <1>44 DEF OrphanWrites, WholeInv
<1>45. ASSUME NEW s \in Slot, OrphanEnds(s)
      PROVE  CalledInv'
  BY <1>45 DEF OrphanEnds
<1>46. ASSUME NEW s \in Slot, WorkDirRemoved(s)
      PROVE  CalledInv'
  <2>1. /\ UNCHANGED <<pc, job, view>>
        /\ \A t \in Slot : work'[t] = work[t] \/ ~work'[t].bin
    BY <1>46 DEF WorkDirRemoved, EmptyDir
  <2>2. \A q \in Proc : pc[q] # "idle" => SlotOf(q) \in Slot
    BY SlotType
  <2> QED
    BY <2>1, <2>2
<1>47. CASE Tick
  BY <1>47 DEF Tick
<1> QED
    BY <1>1, <1>2, <1>3, <1>4, <1>5, <1>6, <1>7, <1>8, <1>9, <1>10, <1>11,
     <1>12, <1>13, <1>14, <1>15, <1>16, <1>17, <1>18, <1>19, <1>20, <1>21,
     <1>22, <1>23, <1>24, <1>25, <1>26, <1>27, <1>28, <1>29, <1>30, <1>31,
     <1>32, <1>33, <1>34, <1>35, <1>36, <1>37, <1>38, <1>39, <1>40, <1>41,
     <1>42, <1>43, <1>44, <1>45, <1>46, <1>47
    DEF Next, Process, Advance, CallFails, ChildEnds, World

(* A run that had to wait for hm_cache_lock() does nothing the record and  *)
(* the program, as they are now, do not call for.                          *)
THEOREM NothingIsDoneTwice ==
  ASSUME NoInspection, NobodyKilled
  PROVE  Spec => []NoDuplicateSetup
<1>1. FreshInv /\ [](Base /\ LockInv) /\ [][Next]_vars => []FreshInv
  BY NextFresh, PTL
<1>2. WholeInv /\ [](Base /\ LockInv) /\ [][Next]_vars => []WholeInv
  BY NextWhole, PTL
<1>3. CalledInv /\ [](Base /\ LockInv) /\ []FreshInv /\ []WholeInv /\ [][Next]_vars
        => []CalledInv
  BY NextCalled, PTL
<1>4. FreshInv /\ CalledInv => NoDuplicateSetup
  BY DEF FreshInv, Same, DecidedPCs, CalledInv, CalledFor, NoDuplicateSetup
<1> QED
  BY <1>1, <1>2, <1>3, <1>4, LockHolds, InitFresh, InitWhole, InitCalled, PTL DEF Spec

-----------------------------------------------------------------------------
(* The runs are clients of UpdateLock.                                     *)

LockStep == [Lock!ULNext]_(Lock!lockVars)

(* Refusals are CacheLock's: here nobody is ever re-entrant.               *)
LEMMA NoChange ==
  ASSUME NEW p \in Proc
  PROVE  [q \in Proc |-> FALSE] = [[q \in Proc |-> FALSE] EXCEPT ![p] = FALSE]
  OBVIOUS

(* Nobody asks or holds at the start ...                                   *)
LEMMA InitUsesLock == Init => Lock!ULInit
  BY NamesAssumption DEF Init, Lock!ULInit, LockPhase

(* ... and every step asks, is granted, gives up, or leaves the lock alone. *)
LEMMA NextUsesLock == Base /\ LockInv /\ [Next]_vars => LockStep
<1> SUFFICES ASSUME Base, LockInv, [Next]_vars PROVE LockStep
  OBVIOUS
<1> USE NamesAssumption
    DEF Base, TypeOK, ChildIsAwaited, envVars, cacheVars, localVars, Goto, GiveUp, PC,
        LockInv, LockDiscipline, DecidedPCs, LockPhase, LockStep, Lock!lockVars
<1>1. CASE UNCHANGED vars
  BY <1>1 DEF vars
<1>2. ASSUME NEW p \in Proc, Start(p)
      PROVE  LockStep
  <2>1. \A q \in Proc : LockPhase(q)' = LockPhase(q)
    BY <1>2 DEF Start
  <2> QED
    BY <1>2, <2>1 DEF Start
<1>3. ASSUME NEW p \in Proc, Load(p)
      PROVE  LockStep
  <2>1. \A q \in Proc : LockPhase(q)' = LockPhase(q)
    BY <1>3 DEF Load
  <2> QED
    BY <1>3, <2>1 DEF Load
<1>4. ASSUME NEW p \in Proc, LoadFails(p)
      PROVE  LockStep
  <2>1. \A q \in Proc : LockPhase(q)' = LockPhase(q)
    BY <1>4 DEF LoadFails
  <2> QED
    BY <1>4, <2>1 DEF LoadFails
<1>5. ASSUME NEW p \in Proc, Decide(p)
      PROVE  LockStep
  <2>1. /\ LockPhase(p) = "out" /\ UNCHANGED lock
        /\ \A q \in Proc \ {p} : LockPhase(q)' = LockPhase(q)
        /\ LockPhase(p)' \in {"out", "asking"}
    BY <1>5 DEF Decide
  <2>2. CASE LockPhase(p)' = "out"
    BY <2>1, <2>2
  <2>3. CASE LockPhase(p)' = "asking"
    <3> HIDE DEF LockPhase
    <3>1. [q \in Proc |-> LockPhase(q)]'
            = [[q \in Proc |-> LockPhase(q)] EXCEPT ![p] = "asking"]
      BY <2>1, <2>3
    <3>2. Lock!Ask(p)
      BY <2>1, <3>1, NoChange DEF Lock!Ask
    <3> QED
      BY <3>2 DEF Lock!ULNext
  <2> QED
    BY <2>1, <2>2, <2>3
<1>6. ASSUME NEW p \in Proc, ExecCached(p)
      PROVE  LockStep
  <2>1. \A q \in Proc : LockPhase(q)' = LockPhase(q)
    BY <1>6 DEF ExecCached
  <2> QED
    BY <1>6, <2>1 DEF ExecCached
<1>7. ASSUME NEW p \in Proc, ProbeMissing(p)
      PROVE  LockStep
  <2>1. /\ LockPhase(p) = "out" /\ UNCHANGED lock
        /\ \A q \in Proc \ {p} : LockPhase(q)' = LockPhase(q)
        /\ LockPhase(p)' \in {"out", "asking"}
    BY <1>7 DEF ProbeMissing
  <2>2. CASE LockPhase(p)' = "out"
    BY <2>1, <2>2
  <2>3. CASE LockPhase(p)' = "asking"
    <3> HIDE DEF LockPhase
    <3>1. [q \in Proc |-> LockPhase(q)]'
            = [[q \in Proc |-> LockPhase(q)] EXCEPT ![p] = "asking"]
      BY <2>1, <2>3
    <3>2. Lock!Ask(p)
      BY <2>1, <3>1, NoChange DEF Lock!Ask
    <3> QED
      BY <3>2 DEF Lock!ULNext
  <2> QED
    BY <2>1, <2>2, <2>3
<1>8. ASSUME NEW p \in Proc, ProbePresent(p)
      PROVE  LockStep
  <2>1. \A q \in Proc : LockPhase(q)' = LockPhase(q)
    BY <1>8 DEF ProbePresent
  <2> QED
    BY <1>8, <2>1 DEF ProbePresent
<1>9. ASSUME NEW p \in Proc, Acquire(p)
      PROVE  LockStep
  <2>1. /\ LockPhase(p) = "asking" /\ LockPhase(p)' = "in"
        /\ \A q \in Proc \ {p} : LockPhase(q)' = LockPhase(q)
        /\ SlotOf(p) \in Slot /\ lock[SlotOf(p)] = Nobody
        /\ lock' = [lock EXCEPT ![SlotOf(p)] = p]
    BY <1>9, SlotType DEF Acquire, LockFree
  <2> HIDE DEF LockPhase
  <2>2. [q \in Proc |-> LockPhase(q)]'
          = [[q \in Proc |-> LockPhase(q)] EXCEPT ![p] = "in"]
    BY <2>1
  <2>3. Lock!Grant(p)
    BY <2>1, <2>2 DEF Lock!Grant
  <2> QED
    BY <2>3 DEF Lock!ULNext
<1>10. ASSUME NEW p \in Proc, LockFails(p)
      PROVE  LockStep
  <2>1. /\ LockPhase(p) = "asking" /\ LockPhase(p)' = "out" /\ UNCHANGED lock
        /\ \A q \in Proc \ {p} : LockPhase(q)' = LockPhase(q)
        /\ \A s \in Slot : lock[s] # p
    BY <1>10 DEF LockFails
  <2> HIDE DEF LockPhase
  <2>2. [q \in Proc |-> LockPhase(q)]'
          = [[q \in Proc |-> LockPhase(q)] EXCEPT ![p] = "out"]
    BY <2>1
  <2>3. lock' = [s \in Slot |-> IF lock[s] = p THEN Nobody ELSE lock[s]]
    BY <2>1
  <2>4. Lock!Drop(p)
    BY <2>1, <2>2, <2>3, NoChange DEF Lock!Drop
  <2> QED
    BY <2>4 DEF Lock!ULNext
<1>11. ASSUME NEW p \in Proc, Recheck(p)
      PROVE  LockStep
  <2>1. \A q \in Proc : LockPhase(q)' = LockPhase(q)
    BY <1>11 DEF Recheck
  <2> QED
    BY <1>11, <2>1 DEF Recheck
<1>12. ASSUME NEW p \in Proc, Unlock(p)
      PROVE  LockStep
  <2>1. /\ pc[p] # "idle" /\ pc'[p] # "lock" /\ \A q \in Proc \ {p} : pc'[q] = pc[q]
        /\ lock' = [s \in Slot |-> IF lock[s] = p THEN Nobody ELSE lock[s]]
    BY <1>12 DEF Unlock, Released
  <2>2. /\ LockPhase(p)' = "out"
        /\ \A q \in Proc \ {p} : LockPhase(q)' = LockPhase(q)
    BY <2>1
  <2>3. CASE LockPhase(p) = "out"
    <3>1. lock' = lock
      BY <2>1, <2>3
    <3> QED
      BY <2>2, <2>3, <3>1
  <2>4. CASE LockPhase(p) # "out"
    <3> HIDE DEF LockPhase
    <3>1. [q \in Proc |-> LockPhase(q)]'
            = [[q \in Proc |-> LockPhase(q)] EXCEPT ![p] = "out"]
      BY <2>2
    <3>2. Lock!Drop(p)
      BY <2>1, <2>4, <3>1, NoChange DEF Lock!Drop
    <3> QED
      BY <3>2 DEF Lock!ULNext
  <2> QED
    BY <2>3, <2>4
<1>13. ASSUME NEW p \in Proc, ReportDue(p)
      PROVE  LockStep
  <2>1. \A q \in Proc : LockPhase(q)' = LockPhase(q)
    BY <1>13 DEF ReportDue
  <2> QED
    BY <1>13, <2>1 DEF ReportDue
<1>14. ASSUME NEW p \in Proc, AdoptCommand(p)
      PROVE  LockStep
  <2>1. \A q \in Proc : LockPhase(q)' = LockPhase(q)
    BY <1>14 DEF AdoptCommand, Adopted
  <2> QED
    BY <1>14, <2>1 DEF AdoptCommand
<1>15. ASSUME NEW p \in Proc, BeginCommand(p)
      PROVE  LockStep
  <2>1. \A q \in Proc : LockPhase(q)' = LockPhase(q)
    BY <1>15 DEF BeginCommand, FirstStep, Filled
  <2> QED
    BY <1>15, <2>1 DEF BeginCommand
<1>16. ASSUME NEW p \in Proc, CheckUrl(p)
      PROVE  LockStep
  <2>1. \A q \in Proc : LockPhase(q)' = LockPhase(q)
    BY <1>16 DEF CheckUrl
  <2> QED
    BY <1>16, <2>1 DEF CheckUrl
<1>17. ASSUME NEW p \in Proc, CheckFails(p)
      PROVE  LockStep
  <2>1. \A q \in Proc : LockPhase(q)' = LockPhase(q)
    BY <1>17 DEF CheckFails
  <2> QED
    BY <1>17, <2>1 DEF CheckFails
<1>18. ASSUME NEW p \in Proc, Unchanged(p)
      PROVE  LockStep
  <2>1. \A q \in Proc : LockPhase(q)' = LockPhase(q)
    BY <1>18 DEF Unchanged
  <2> QED
    BY <1>18, <2>1 DEF Unchanged
<1>19. ASSUME NEW p \in Proc, ReportChanged(p)
      PROVE  LockStep
  <2>1. \A q \in Proc : LockPhase(q)' = LockPhase(q)
    BY <1>19 DEF ReportChanged
  <2> QED
    BY <1>19, <2>1 DEF ReportChanged
<1>20. ASSUME NEW p \in Proc, AdoptUrl(p)
      PROVE  LockStep
  <2>1. \A q \in Proc : LockPhase(q)' = LockPhase(q)
    BY <1>20 DEF AdoptUrl, Adopted
  <2> QED
    BY <1>20, <2>1 DEF AdoptUrl
<1>21. ASSUME NEW p \in Proc, BeginInstall(p)
      PROVE  LockStep
  <2>1. \A q \in Proc : LockPhase(q)' = LockPhase(q)
    BY <1>21 DEF BeginInstall
  <2> QED
    BY <1>21, <2>1 DEF BeginInstall
<1>22. ASSUME NEW p \in Proc, BeginReset(p)
      PROVE  LockStep
  <2>1. \A q \in Proc : LockPhase(q)' = LockPhase(q)
    BY <1>22 DEF BeginReset
  <2> QED
    BY <1>22, <2>1 DEF BeginReset
<1>23. ASSUME NEW p \in Proc, EndReset(p)
      PROVE  LockStep
  <2>1. \A q \in Proc : LockPhase(q)' = LockPhase(q)
    BY <1>23 DEF EndReset, Filled
  <2> QED
    BY <1>23, <2>1 DEF EndReset
<1>24. ASSUME NEW p \in Proc, ResetFails(p)
      PROVE  LockStep
  <2>1. \A q \in Proc : LockPhase(q)' = LockPhase(q)
    BY <1>24 DEF ResetFails
  <2> QED
    BY <1>24, <2>1 DEF ResetFails
<1>25. ASSUME NEW p \in Proc, StageFile(p)
      PROVE  LockStep
  <2>1. \A q \in Proc : LockPhase(q)' = LockPhase(q)
    BY <1>25 DEF StageFile
  <2> QED
    BY <1>25, <2>1 DEF StageFile
<1>26. ASSUME NEW p \in Proc, RenameFile(p)
      PROVE  LockStep
  <2>1. \A q \in Proc : LockPhase(q)' = LockPhase(q)
    BY <1>26 DEF RenameFile
  <2> QED
    BY <1>26, <2>1 DEF RenameFile
<1>27. ASSUME NEW p \in Proc, StageFails(p)
      PROVE  LockStep
  <2>1. \A q \in Proc : LockPhase(q)' = LockPhase(q)
    BY <1>27 DEF StageFails
  <2> QED
    BY <1>27, <2>1 DEF StageFails
<1>28. ASSUME NEW p \in Proc, NoScript(p)
      PROVE  LockStep
  <2>1. \A q \in Proc : LockPhase(q)' = LockPhase(q)
    BY <1>28 DEF NoScript, Adopted
  <2> QED
    BY <1>28, <2>1 DEF NoScript
<1>29. ASSUME NEW p \in Proc, Fork(p)
      PROVE  LockStep
  <2>1. \A q \in Proc : LockPhase(q)' = LockPhase(q)
    BY <1>29 DEF Fork
  <2> QED
    BY <1>29, <2>1 DEF Fork
<1>30. ASSUME NEW p \in Proc, ForkFails(p)
      PROVE  LockStep
  <2>1. \A q \in Proc : LockPhase(q)' = LockPhase(q)
    BY <1>30 DEF ForkFails
  <2> QED
    BY <1>30, <2>1 DEF ForkFails
<1>31. ASSUME NEW p \in Proc, ChildWrites(p)
      PROVE  LockStep
  <2>1. \A q \in Proc : LockPhase(q)' = LockPhase(q)
    BY <1>31 DEF ChildWrites
  <2> QED
    BY <1>31, <2>1 DEF ChildWrites
<1>32. ASSUME NEW p \in Proc, ChildSucceeds(p)
      PROVE  LockStep
  <2>1. \A q \in Proc : LockPhase(q)' = LockPhase(q)
    BY <1>32 DEF ChildSucceeds
  <2> QED
    BY <1>32, <2>1 DEF ChildSucceeds
<1>33. ASSUME NEW p \in Proc, ChildFails(p)
      PROVE  LockStep
  <2>1. \A q \in Proc : LockPhase(q)' = LockPhase(q)
    BY <1>33 DEF ChildFails
  <2> QED
    BY <1>33, <2>1 DEF ChildFails
<1>34. ASSUME NEW p \in Proc, Interrupt(p)
      PROVE  LockStep
  <2>1. \A q \in Proc : LockPhase(q)' = LockPhase(q)
    BY <1>34 DEF Interrupt
  <2> QED
    BY <1>34, <2>1 DEF Interrupt
<1>35. ASSUME NEW p \in Proc, Reap(p)
      PROVE  LockStep
  <2>1. \A q \in Proc : LockPhase(q)' = LockPhase(q)
    BY <1>35 DEF Reap
  <2> QED
    BY <1>35, <2>1 DEF Reap
<1>36. ASSUME NEW p \in Proc, Reraise(p)
      PROVE  LockStep
  <2>1. /\ pc[p] # "idle" /\ pc'[p] # "lock" /\ \A q \in Proc \ {p} : pc'[q] = pc[q]
        /\ lock' = [s \in Slot |-> IF lock[s] = p THEN Nobody ELSE lock[s]]
    BY <1>36 DEF Reraise, Released, Gone
  <2>2. /\ LockPhase(p)' = "out"
        /\ \A q \in Proc \ {p} : LockPhase(q)' = LockPhase(q)
    BY <2>1
  <2>3. CASE LockPhase(p) = "out"
    <3>1. lock' = lock
      BY <2>1, <2>3
    <3> QED
      BY <2>2, <2>3, <3>1
  <2>4. CASE LockPhase(p) # "out"
    <3> HIDE DEF LockPhase
    <3>1. [q \in Proc |-> LockPhase(q)]'
            = [[q \in Proc |-> LockPhase(q)] EXCEPT ![p] = "out"]
      BY <2>2
    <3>2. Lock!Drop(p)
      BY <2>1, <2>4, <3>1, NoChange DEF Lock!Drop
    <3> QED
      BY <3>2 DEF Lock!ULNext
  <2> QED
    BY <2>3, <2>4
<1>37. ASSUME NEW p \in Proc, Save(p)
      PROVE  LockStep
  <2>1. \A q \in Proc : LockPhase(q)' = LockPhase(q)
    BY <1>37 DEF Save
  <2> QED
    BY <1>37, <2>1 DEF Save
<1>38. ASSUME NEW p \in Proc, SaveFails(p)
      PROVE  LockStep
  <2>1. \A q \in Proc : LockPhase(q)' = LockPhase(q)
    BY <1>38 DEF SaveFails
  <2> QED
    BY <1>38, <2>1 DEF SaveFails
<1>39. ASSUME NEW p \in Proc, Handover(p)
      PROVE  LockStep
  <2>1. \A q \in Proc : LockPhase(q)' = LockPhase(q)
    BY <1>39 DEF Handover
  <2> QED
    BY <1>39, <2>1 DEF Handover
<1>40. ASSUME NEW p \in Proc, Leave(p)
      PROVE  LockStep
  <2>1. \A q \in Proc : LockPhase(q)' = LockPhase(q)
    BY <1>40 DEF Leave, Gone
  <2> QED
    BY <1>40, <2>1 DEF Leave
<1>41. ASSUME NEW p \in Proc, Die(p)
      PROVE  LockStep
  <2>1. /\ pc[p] # "idle" /\ pc'[p] # "lock" /\ \A q \in Proc \ {p} : pc'[q] = pc[q]
        /\ lock' = [s \in Slot |-> IF lock[s] = p THEN Nobody ELSE lock[s]]
    BY <1>41 DEF Die, Released, Gone
  <2>2. /\ LockPhase(p)' = "out"
        /\ \A q \in Proc \ {p} : LockPhase(q)' = LockPhase(q)
    BY <2>1
  <2>3. CASE LockPhase(p) = "out"
    <3>1. lock' = lock
      BY <2>1, <2>3
    <3> QED
      BY <2>2, <2>3, <3>1
  <2>4. CASE LockPhase(p) # "out"
    <3> HIDE DEF LockPhase
    <3>1. [q \in Proc |-> LockPhase(q)]'
            = [[q \in Proc |-> LockPhase(q)] EXCEPT ![p] = "out"]
      BY <2>2
    <3>2. Lock!Drop(p)
      BY <2>1, <2>4, <3>1, NoChange DEF Lock!Drop
    <3> QED
      BY <3>2 DEF Lock!ULNext
  <2> QED
    BY <2>3, <2>4
<1>42. ASSUME NEW s \in Source, Edit(s)
      PROVE  LockStep
  BY <1>42 DEF Edit
<1>43. ASSUME NEW i \in Ident, RemoteChanges(i)
      PROVE  LockStep
  BY <1>43 DEF RemoteChanges
<1>44. ASSUME NEW s \in Slot, OrphanWrites(s)
      PROVE  LockStep
  BY <1>44 DEF OrphanWrites
<1>45. ASSUME NEW s \in Slot, OrphanEnds(s)
      PROVE  LockStep
  BY <1>45 DEF OrphanEnds
<1>46. ASSUME NEW s \in Slot, WorkDirRemoved(s)
      PROVE  LockStep
  BY <1>46 DEF WorkDirRemoved
<1>47. CASE Tick
  BY <1>47 DEF Tick
<1> QED
    BY <1>1, <1>2, <1>3, <1>4, <1>5, <1>6, <1>7, <1>8, <1>9, <1>10, <1>11,
     <1>12, <1>13, <1>14, <1>15, <1>16, <1>17, <1>18, <1>19, <1>20, <1>21,
     <1>22, <1>23, <1>24, <1>25, <1>26, <1>27, <1>28, <1>29, <1>30, <1>31,
     <1>32, <1>33, <1>34, <1>35, <1>36, <1>37, <1>38, <1>39, <1>40, <1>41,
     <1>42, <1>43, <1>44, <1>45, <1>46, <1>47
    DEF Next, Process, Advance, CallFails, ChildEnds, World

(* main.c uses hm_cache_lock() as UpdateLock promises it: Hacman.tla       *)
(* implements the abstract lock that CacheLock.tla implements.             *)
THEOREM RunsUseTheLock == Spec => KeepsLockPromise
<1>1. Base /\ LockInv /\ [Next]_vars => [Lock!ULNext]_(Lock!lockVars)
  BY NextUsesLock DEF LockStep
<1> QED
  BY <1>1, LockHolds, InitUsesLock, PTL DEF Spec, KeepsLockPromise, Lock!ULSpec

-----------------------------------------------------------------------------
(* The runs, one after the other: SerialUpdates.                           *)

(* Where a run acts on its decision under the lock.                        *)
WorkingPCs == DecidedPCs \ {"recheck"}

(* That decision, in the terms of SerialUpdates.                           *)
Decided(p) ==
    /\ view[p].now \in Time
    /\ \E missing \in {FALSE, ConfOf(p).bin = "cached"} :
          IsDue(ConfOf(p), view[p].known, view[p].lastCheck, view[p].now, job[p].force,
                missing)
DecidedInv ==
    \A p \in Proc :
        /\ pc[p] \in WorkingPCs => Decided(p)
        /\ pc[p] = "compare" => ConfOf(p).kind = "url"

(* What most steps do: one run goes on with its job, alone.                *)
OthersWait(p) ==
    \A q \in Proc \ {p} :
        /\ pc'[q] = pc[q] /\ job'[q] = job[q] /\ view'[q] = view[q]
        /\ seen'[q] = seen[q] /\ child'[q] = child[q]
Proceeds(p) == pc[p] # "idle" /\ pc'[p] # "idle" /\ UNCHANGED job /\ OthersWait(p)

(* A run's decision stands while it works ...                              *)
LEMMA StillDecided ==
  ASSUME DecidedInv, NEW p \in Proc, Proceeds(p), view' = view,
         pc'[p] \in WorkingPCs => pc[p] \in WorkingPCs,
         pc'[p] = "compare" => ConfOf(p).kind = "url"
  PROVE  DecidedInv'
  BY DEF DecidedInv, Decided, Proceeds, OthersWait, ConfOf

(* ... and is nobody's business when it does not.                          *)
LEMMA NotDecided ==
  ASSUME DecidedInv, NEW p \in Proc, OthersWait(p), pc'[p] \notin WorkingPCs
  PROVE  DecidedInv'
<1>1. pc'[p] # "compare"
  BY DEF WorkingPCs, DecidedPCs
<1>2. \A q \in Proc \ {p} : /\ pc'[q] = pc[q] /\ ConfOf(q)' = ConfOf(q)
                            /\ Decided(q)' <=> Decided(q)
  BY DEF Decided, OthersWait, ConfOf
<1> QED
  BY <1>1, <1>2 DEF DecidedInv

(* The decisions of the others stand as well ...                           *)
LEMMA OthersDecided ==
  ASSUME DecidedInv, NEW p \in Proc, OthersWait(p)
  PROVE  \A q \in Proc \ {p} :
            /\ pc'[q] = pc[q] /\ ConfOf(q)' = ConfOf(q)
            /\ Decided(q)' <=> Decided(q)
  BY DEF Decided, OthersWait, ConfOf

(* ... and all of them while no run steps.                                 *)
LEMMA NobodyDecides ==
  ASSUME DecidedInv, UNCHANGED <<pc, job, view>>
  PROVE  DecidedInv'
  BY DEF DecidedInv, Decided, ConfOf

(* Nobody works at the start ...                                           *)
LEMMA InitDecided == Init => DecidedInv
  BY DEF Init, DecidedInv, WorkingPCs, DecidedPCs

(* ... and work begins with the second is_due(), at a time the clock shows. *)
LEMMA NextDecided ==
  ASSUME NoInspection
  PROVE  Base /\ FreshInv /\ DecidedInv /\ [Next]_vars => DecidedInv'
<1> SUFFICES ASSUME Base, FreshInv, DecidedInv, [Next]_vars PROVE DecidedInv'
  OBVIOUS
<1> USE NamesAssumption
    DEF Base, TypeOK, ChildIsAwaited, envVars, cacheVars, localVars, Goto, GiveUp, PC,
        WorkingPCs, DecidedPCs, Proceeds, OthersWait
<1>1. CASE UNCHANGED vars
  BY <1>1, NobodyDecides DEF vars
<1>2. ASSUME NEW p \in Proc, Start(p)
      PROVE  DecidedInv'
  <2>1. OthersWait(p) /\ pc'[p] \notin WorkingPCs
    BY <1>2 DEF Start
  <2> QED
    BY <2>1, NotDecided
<1>3. ASSUME NEW p \in Proc, Load(p)
      PROVE  DecidedInv'
  <2>1. OthersWait(p) /\ pc'[p] \notin WorkingPCs
    BY <1>3 DEF Load
  <2> QED
    BY <2>1, NotDecided
<1>4. ASSUME NEW p \in Proc, LoadFails(p)
      PROVE  DecidedInv'
  <2>1. Proceeds(p) /\ view' = view /\ (pc'[p] \in WorkingPCs => pc[p] \in WorkingPCs)
        /\ (pc'[p] = "compare" => ConfOf(p).kind = "url")
    BY <1>4 DEF LoadFails
  <2> QED
    BY <2>1, StillDecided
<1>5. ASSUME NEW p \in Proc, Decide(p)
      PROVE  DecidedInv'
  <2>1. OthersWait(p) /\ pc'[p] \notin WorkingPCs
    BY <1>5 DEF Decide, FreshInv, Inspected
  <2> QED
    BY <2>1, NotDecided
<1>6. ASSUME NEW p \in Proc, ExecCached(p)
      PROVE  DecidedInv'
  <2>1. Proceeds(p) /\ view' = view /\ (pc'[p] \in WorkingPCs => pc[p] \in WorkingPCs)
        /\ (pc'[p] = "compare" => ConfOf(p).kind = "url")
    BY <1>6 DEF ExecCached
  <2> QED
    BY <2>1, StillDecided
<1>7. ASSUME NEW p \in Proc, ProbeMissing(p)
      PROVE  DecidedInv'
  <2>1. Proceeds(p) /\ view' = view /\ (pc'[p] \in WorkingPCs => pc[p] \in WorkingPCs)
        /\ (pc'[p] = "compare" => ConfOf(p).kind = "url")
    BY <1>7 DEF ProbeMissing
  <2> QED
    BY <2>1, StillDecided
<1>8. ASSUME NEW p \in Proc, ProbePresent(p)
      PROVE  DecidedInv'
  <2>1. Proceeds(p) /\ view' = view /\ (pc'[p] \in WorkingPCs => pc[p] \in WorkingPCs)
        /\ (pc'[p] = "compare" => ConfOf(p).kind = "url")
    BY <1>8 DEF ProbePresent
  <2> QED
    BY <2>1, StillDecided
<1>9. ASSUME NEW p \in Proc, Acquire(p)
      PROVE  DecidedInv'
  <2>1. Proceeds(p) /\ view' = view /\ (pc'[p] \in WorkingPCs => pc[p] \in WorkingPCs)
        /\ (pc'[p] = "compare" => ConfOf(p).kind = "url")
    BY <1>9 DEF Acquire
  <2> QED
    BY <2>1, StillDecided
<1>10. ASSUME NEW p \in Proc, LockFails(p)
      PROVE  DecidedInv'
  <2>1. Proceeds(p) /\ view' = view /\ (pc'[p] \in WorkingPCs => pc[p] \in WorkingPCs)
        /\ (pc'[p] = "compare" => ConfOf(p).kind = "url")
    BY <1>10 DEF LockFails
  <2> QED
    BY <2>1, StillDecided
<1>11. ASSUME NEW p \in Proc, Recheck(p)
      PROVE  DecidedInv'
  <2>1. /\ pc[p] = "recheck" /\ UNCHANGED job /\ OthersWait(p)
        /\ pc' = [pc EXCEPT ![p] = IF DueNow(p, TRUE) THEN "due" ELSE "unlock"]
        /\ view' = [view EXCEPT ![p] = [@ EXCEPT !.now = clock]]
    BY <1>11 DEF Recheck
  <2>2. CASE ~DueNow(p, TRUE)
    <3>1. pc'[p] \notin WorkingPCs
      BY <2>1, <2>2
    <3> QED
      BY <2>1, <3>1, NotDecided
  <2>3. CASE DueNow(p, TRUE)
    <3>1. /\ view'[p].known = view[p].known /\ view'[p].lastCheck = view[p].lastCheck
          /\ view'[p].now = clock
      BY <2>1, ViewFields
    <3>2. \E missing \in {FALSE, ConfOf(p).bin = "cached"} :
             IsDue(ConfOf(p), view[p].known, view[p].lastCheck, clock, job[p].force,
                   missing)
      <4>1. IsDue(ConfOf(p), view[p].known, view[p].lastCheck, clock, job[p].force,
                  BinMissing(p))
        BY <2>3 DEF DueNow, IsDue
      <4>2. BinMissing(p) \in {FALSE, ConfOf(p).bin = "cached"}
        BY DEF BinMissing
      <4> QED
        BY <4>1, <4>2
    <3>3. Decided(p)'
      <4>1. ConfOf(p)' = ConfOf(p) /\ job'[p] = job[p] /\ view'[p].now \in Time
        BY <2>1, <3>1 DEF ConfOf
      <4> QED
        BY <3>1, <3>2, <4>1 DEF Decided
    <3> QED
      BY <2>1, <2>3, <3>3, OthersDecided DEF DecidedInv
  <2> QED
    BY <2>2, <2>3
<1>12. ASSUME NEW p \in Proc, Unlock(p)
      PROVE  DecidedInv'
  <2>1. Proceeds(p) /\ view' = view /\ (pc'[p] \in WorkingPCs => pc[p] \in WorkingPCs)
        /\ (pc'[p] = "compare" => ConfOf(p).kind = "url")
    BY <1>12 DEF Unlock
  <2> QED
    BY <2>1, StillDecided
<1>13. ASSUME NEW p \in Proc, ReportDue(p)
      PROVE  DecidedInv'
  <2>1. Proceeds(p) /\ view' = view /\ (pc'[p] \in WorkingPCs => pc[p] \in WorkingPCs)
        /\ (pc'[p] = "compare" => ConfOf(p).kind = "url")
    BY <1>13 DEF ReportDue
  <2> QED
    BY <2>1, StillDecided
<1>14. ASSUME NEW p \in Proc, AdoptCommand(p)
      PROVE  DecidedInv'
  <2>1. Proceeds(p) /\ view' = view /\ (pc'[p] \in WorkingPCs => pc[p] \in WorkingPCs)
        /\ (pc'[p] = "compare" => ConfOf(p).kind = "url")
    BY <1>14 DEF AdoptCommand, Adopted
  <2> QED
    BY <2>1, StillDecided
<1>15. ASSUME NEW p \in Proc, BeginCommand(p)
      PROVE  DecidedInv'
  <2>1. Proceeds(p) /\ view' = view /\ (pc'[p] \in WorkingPCs => pc[p] \in WorkingPCs)
        /\ (pc'[p] = "compare" => ConfOf(p).kind = "url")
    BY <1>15 DEF BeginCommand, FirstStep, Filled
  <2> QED
    BY <2>1, StillDecided
<1>16. ASSUME NEW p \in Proc, CheckUrl(p)
      PROVE  DecidedInv'
  <2>1. Proceeds(p) /\ view' = view /\ (pc'[p] \in WorkingPCs => pc[p] \in WorkingPCs)
        /\ (pc'[p] = "compare" => ConfOf(p).kind = "url")
    BY <1>16 DEF CheckUrl
  <2> QED
    BY <2>1, StillDecided
<1>17. ASSUME NEW p \in Proc, CheckFails(p)
      PROVE  DecidedInv'
  <2>1. Proceeds(p) /\ view' = view /\ (pc'[p] \in WorkingPCs => pc[p] \in WorkingPCs)
        /\ (pc'[p] = "compare" => ConfOf(p).kind = "url")
    BY <1>17 DEF CheckFails
  <2> QED
    BY <2>1, StillDecided
<1>18. ASSUME NEW p \in Proc, Unchanged(p)
      PROVE  DecidedInv'
  <2>1. Proceeds(p) /\ view' = view /\ (pc'[p] \in WorkingPCs => pc[p] \in WorkingPCs)
        /\ (pc'[p] = "compare" => ConfOf(p).kind = "url")
    BY <1>18 DEF Unchanged
  <2> QED
    BY <2>1, StillDecided
<1>19. ASSUME NEW p \in Proc, ReportChanged(p)
      PROVE  DecidedInv'
  <2>1. Proceeds(p) /\ view' = view /\ (pc'[p] \in WorkingPCs => pc[p] \in WorkingPCs)
        /\ (pc'[p] = "compare" => ConfOf(p).kind = "url")
    BY <1>19 DEF ReportChanged
  <2> QED
    BY <2>1, StillDecided
<1>20. ASSUME NEW p \in Proc, AdoptUrl(p)
      PROVE  DecidedInv'
  <2>1. Proceeds(p) /\ view' = view /\ (pc'[p] \in WorkingPCs => pc[p] \in WorkingPCs)
        /\ (pc'[p] = "compare" => ConfOf(p).kind = "url")
    BY <1>20 DEF AdoptUrl, Adopted
  <2> QED
    BY <2>1, StillDecided
<1>21. ASSUME NEW p \in Proc, BeginInstall(p)
      PROVE  DecidedInv'
  <2>1. Proceeds(p) /\ view' = view /\ (pc'[p] \in WorkingPCs => pc[p] \in WorkingPCs)
        /\ (pc'[p] = "compare" => ConfOf(p).kind = "url")
    BY <1>21 DEF BeginInstall
  <2> QED
    BY <2>1, StillDecided
<1>22. ASSUME NEW p \in Proc, BeginReset(p)
      PROVE  DecidedInv'
  <2>1. Proceeds(p) /\ view' = view /\ (pc'[p] \in WorkingPCs => pc[p] \in WorkingPCs)
        /\ (pc'[p] = "compare" => ConfOf(p).kind = "url")
    BY <1>22 DEF BeginReset
  <2> QED
    BY <2>1, StillDecided
<1>23. ASSUME NEW p \in Proc, EndReset(p)
      PROVE  DecidedInv'
  <2>1. Proceeds(p) /\ view' = view /\ (pc'[p] \in WorkingPCs => pc[p] \in WorkingPCs)
        /\ (pc'[p] = "compare" => ConfOf(p).kind = "url")
    BY <1>23 DEF EndReset, Filled
  <2> QED
    BY <2>1, StillDecided
<1>24. ASSUME NEW p \in Proc, ResetFails(p)
      PROVE  DecidedInv'
  <2>1. Proceeds(p) /\ view' = view /\ (pc'[p] \in WorkingPCs => pc[p] \in WorkingPCs)
        /\ (pc'[p] = "compare" => ConfOf(p).kind = "url")
    BY <1>24 DEF ResetFails
  <2> QED
    BY <2>1, StillDecided
<1>25. ASSUME NEW p \in Proc, StageFile(p)
      PROVE  DecidedInv'
  <2>1. Proceeds(p) /\ view' = view /\ (pc'[p] \in WorkingPCs => pc[p] \in WorkingPCs)
        /\ (pc'[p] = "compare" => ConfOf(p).kind = "url")
    BY <1>25 DEF StageFile
  <2> QED
    BY <2>1, StillDecided
<1>26. ASSUME NEW p \in Proc, RenameFile(p)
      PROVE  DecidedInv'
  <2>1. Proceeds(p) /\ view' = view /\ (pc'[p] \in WorkingPCs => pc[p] \in WorkingPCs)
        /\ (pc'[p] = "compare" => ConfOf(p).kind = "url")
    BY <1>26 DEF RenameFile
  <2> QED
    BY <2>1, StillDecided
<1>27. ASSUME NEW p \in Proc, StageFails(p)
      PROVE  DecidedInv'
  <2>1. Proceeds(p) /\ view' = view /\ (pc'[p] \in WorkingPCs => pc[p] \in WorkingPCs)
        /\ (pc'[p] = "compare" => ConfOf(p).kind = "url")
    BY <1>27 DEF StageFails
  <2> QED
    BY <2>1, StillDecided
<1>28. ASSUME NEW p \in Proc, NoScript(p)
      PROVE  DecidedInv'
  <2>1. Proceeds(p) /\ view' = view /\ (pc'[p] \in WorkingPCs => pc[p] \in WorkingPCs)
        /\ (pc'[p] = "compare" => ConfOf(p).kind = "url")
    BY <1>28 DEF NoScript, Adopted
  <2> QED
    BY <2>1, StillDecided
<1>29. ASSUME NEW p \in Proc, Fork(p)
      PROVE  DecidedInv'
  <2>1. Proceeds(p) /\ view' = view /\ (pc'[p] \in WorkingPCs => pc[p] \in WorkingPCs)
        /\ (pc'[p] = "compare" => ConfOf(p).kind = "url")
    BY <1>29 DEF Fork
  <2> QED
    BY <2>1, StillDecided
<1>30. ASSUME NEW p \in Proc, ForkFails(p)
      PROVE  DecidedInv'
  <2>1. Proceeds(p) /\ view' = view /\ (pc'[p] \in WorkingPCs => pc[p] \in WorkingPCs)
        /\ (pc'[p] = "compare" => ConfOf(p).kind = "url")
    BY <1>30 DEF ForkFails
  <2> QED
    BY <2>1, StillDecided
<1>31. ASSUME NEW p \in Proc, ChildWrites(p)
      PROVE  DecidedInv'
  <2>1. Proceeds(p) /\ view' = view /\ (pc'[p] \in WorkingPCs => pc[p] \in WorkingPCs)
        /\ (pc'[p] = "compare" => ConfOf(p).kind = "url")
    BY <1>31 DEF ChildWrites
  <2> QED
    BY <2>1, StillDecided
<1>32. ASSUME NEW p \in Proc, ChildSucceeds(p)
      PROVE  DecidedInv'
  <2>1. Proceeds(p) /\ view' = view /\ (pc'[p] \in WorkingPCs => pc[p] \in WorkingPCs)
        /\ (pc'[p] = "compare" => ConfOf(p).kind = "url")
    BY <1>32 DEF ChildSucceeds
  <2> QED
    BY <2>1, StillDecided
<1>33. ASSUME NEW p \in Proc, ChildFails(p)
      PROVE  DecidedInv'
  <2>1. Proceeds(p) /\ view' = view /\ (pc'[p] \in WorkingPCs => pc[p] \in WorkingPCs)
        /\ (pc'[p] = "compare" => ConfOf(p).kind = "url")
    BY <1>33 DEF ChildFails
  <2> QED
    BY <2>1, StillDecided
<1>34. ASSUME NEW p \in Proc, Interrupt(p)
      PROVE  DecidedInv'
  <2>1. Proceeds(p) /\ view' = view /\ (pc'[p] \in WorkingPCs => pc[p] \in WorkingPCs)
        /\ (pc'[p] = "compare" => ConfOf(p).kind = "url")
    BY <1>34 DEF Interrupt
  <2> QED
    BY <2>1, StillDecided
<1>35. ASSUME NEW p \in Proc, Reap(p)
      PROVE  DecidedInv'
  <2>1. Proceeds(p) /\ view' = view /\ (pc'[p] \in WorkingPCs => pc[p] \in WorkingPCs)
        /\ (pc'[p] = "compare" => ConfOf(p).kind = "url")
    BY <1>35 DEF Reap
  <2> QED
    BY <2>1, StillDecided
<1>36. ASSUME NEW p \in Proc, Reraise(p)
      PROVE  DecidedInv'
  <2>1. OthersWait(p) /\ pc'[p] \notin WorkingPCs
    BY <1>36 DEF Reraise, Gone
  <2> QED
    BY <2>1, NotDecided
<1>37. ASSUME NEW p \in Proc, Save(p)
      PROVE  DecidedInv'
  <2>1. Proceeds(p) /\ view' = view /\ (pc'[p] \in WorkingPCs => pc[p] \in WorkingPCs)
        /\ (pc'[p] = "compare" => ConfOf(p).kind = "url")
    BY <1>37 DEF Save
  <2> QED
    BY <2>1, StillDecided
<1>38. ASSUME NEW p \in Proc, SaveFails(p)
      PROVE  DecidedInv'
  <2>1. Proceeds(p) /\ view' = view /\ (pc'[p] \in WorkingPCs => pc[p] \in WorkingPCs)
        /\ (pc'[p] = "compare" => ConfOf(p).kind = "url")
    BY <1>38 DEF SaveFails
  <2> QED
    BY <2>1, StillDecided
<1>39. ASSUME NEW p \in Proc, Handover(p)
      PROVE  DecidedInv'
  <2>1. Proceeds(p) /\ view' = view /\ (pc'[p] \in WorkingPCs => pc[p] \in WorkingPCs)
        /\ (pc'[p] = "compare" => ConfOf(p).kind = "url")
    BY <1>39 DEF Handover
  <2> QED
    BY <2>1, StillDecided
<1>40. ASSUME NEW p \in Proc, Leave(p)
      PROVE  DecidedInv'
  <2>1. OthersWait(p) /\ pc'[p] \notin WorkingPCs
    BY <1>40 DEF Leave, Gone
  <2> QED
    BY <2>1, NotDecided
<1>41. ASSUME NEW p \in Proc, Die(p)
      PROVE  DecidedInv'
  <2>1. OthersWait(p) /\ pc'[p] \notin WorkingPCs
    BY <1>41 DEF Die, Gone
  <2> QED
    BY <2>1, NotDecided
<1>42. ASSUME NEW s \in Source, Edit(s)
      PROVE  DecidedInv'
  BY <1>42, NobodyDecides DEF Edit
<1>43. ASSUME NEW i \in Ident, RemoteChanges(i)
      PROVE  DecidedInv'
  BY <1>43, NobodyDecides DEF RemoteChanges
<1>44. ASSUME NEW s \in Slot, OrphanWrites(s)
      PROVE  DecidedInv'
  BY <1>44, NobodyDecides DEF OrphanWrites
<1>45. ASSUME NEW s \in Slot, OrphanEnds(s)
      PROVE  DecidedInv'
  BY <1>45, NobodyDecides DEF OrphanEnds
<1>46. ASSUME NEW s \in Slot, WorkDirRemoved(s)
      PROVE  DecidedInv'
  BY <1>46, NobodyDecides DEF WorkDirRemoved
<1>47. CASE Tick
  BY <1>47, NobodyDecides DEF Tick
<1> QED
    BY <1>1, <1>2, <1>3, <1>4, <1>5, <1>6, <1>7, <1>8, <1>9, <1>10, <1>11,
     <1>12, <1>13, <1>14, <1>15, <1>16, <1>17, <1>18, <1>19, <1>20, <1>21,
     <1>22, <1>23, <1>24, <1>25, <1>26, <1>27, <1>28, <1>29, <1>30, <1>31,
     <1>32, <1>33, <1>34, <1>35, <1>36, <1>37, <1>38, <1>39, <1>40, <1>41,
     <1>42, <1>43, <1>44, <1>45, <1>46, <1>47
    DEF Next, Process, Advance, CallFails, ChildEnds, World

-----------------------------------------------------------------------------
SerialStep == [Serial!SUNext]_(Serial!serialVars)

ReqOf(p) == IF pc[p] = "idle" THEN NoJob ELSE RequestOf(p)

(* What a run that is there asks for.                                      *)
LEMMA Requests ==
  ASSUME Base, NEW p \in Proc, pc[p] # "idle"
  PROVE  RequestOf(p) \in Serial!Request
<1>1. job[p] \in Job /\ SlotOf(p) \in Slot
  BY SlotType DEF Base
<1> QED
  BY <1>1 DEF RequestOf, Serial!Request, Job

(* SerialUpdates reads off the record what the run read under the lock.    *)
LEMMA CalledForSerially ==
  ASSUME Base, FreshInv, DecidedInv, NEW p \in Proc, pc[p] \in WorkingPCs
  PROVE  /\ Serial!Asked(p)
         /\ Serial!CalledForAt(p, view[p].now) /\ view[p].now \in Time
         /\ Serial!Known(p) <=> view[p].known
         /\ Serial!MarkKnown(p) = view[p].mark
         /\ Serial!ConfAsked(p) = ConfOf(p)
<1>1. pc[p] # "idle" /\ pc[p] \in DecidedPCs
  BY DEF WorkingPCs, DecidedPCs
<1> DEFINE R == [q \in Proc |-> IF pc[q] = "idle" THEN NoJob ELSE RequestOf(q)]
<1>2. /\ R[p] = RequestOf(p) /\ R[p].slot = SlotOf(p) /\ R[p].ident = job[p].ident
      /\ R[p].force = job[p].force
  BY <1>1 DEF RequestOf
<1>3. Serial!Asked(p)
  BY <1>1, <1>2, Requests DEF Serial!Asked
<1>4. Same(Trusted(record[SlotOf(p)], job[p].ident), view[p]) /\ Decided(p)
  BY <1>1 DEF FreshInv, DecidedInv
<1>5. Serial!Known(p) <=> record[SlotOf(p)].ident = job[p].ident
  BY <1>2 DEF Serial!Known
<1>6. Serial!LastCheck(p) = IF Serial!Known(p) THEN record[SlotOf(p)].lastCheck ELSE 0
  BY <1>2 DEF Serial!LastCheck
<1>7. Serial!MarkKnown(p) = IF Serial!Known(p) THEN record[SlotOf(p)].mark ELSE NoMark
  BY <1>2 DEF Serial!MarkKnown
<1>8. Serial!ConfAsked(p) = ConfOf(p)
  BY <1>2 DEF Serial!ConfAsked, ConfOf
<1>9. view[p] \in View
  BY DEF Base, TypeOK
<1>10. /\ Serial!Known(p) <=> view[p].known
       /\ Serial!LastCheck(p) = view[p].lastCheck /\ Serial!MarkKnown(p) = view[p].mark
  <2>1. CASE record[SlotOf(p)].ident = job[p].ident
    BY <2>1, <1>4, <1>5, <1>6, <1>7, <1>9 DEF Same, Trusted, View
  <2>2. CASE record[SlotOf(p)].ident # job[p].ident
    BY <2>2, <1>4, <1>5, <1>6, <1>7, <1>9 DEF Same, Trusted, View, NoView
  <2> QED
    BY <2>1, <2>2
<1>11. PICK missing \in {FALSE, ConfOf(p).bin = "cached"} :
          IsDue(ConfOf(p), view[p].known, view[p].lastCheck, view[p].now, job[p].force,
                missing)
  BY <1>4 DEF Decided
<1>12. Serial!IsDue(ConfOf(p), Serial!Known(p), Serial!LastCheck(p), view[p].now,
                    job[p].force, missing)
  <2> HIDE DEF Serial!Known, Serial!LastCheck, ConfOf
  <2> QED
    BY <1>10, <1>11 DEF IsDue, TimeIsUp, Recent, Serial!IsDue, Serial!TimeIsUp, Serial!Recent
<1>13. Serial!CalledForAt(p, view[p].now)
  BY <1>2, <1>8, <1>12 DEF Serial!CalledForAt
<1> QED
  BY <1>3, <1>4, <1>8, <1>10, <1>13 DEF Decided

(* The runs that have something to record, when one run steps.             *)
LEMMA ReadyKept ==
  ASSUME NEW p \in Proc, OthersWait(p)
  PROVE  /\ (SetUpByNow(p)' <=> SetUpByNow(p)) =>
               {q \in Proc : SetUpByNow(q)}' = {q \in Proc : SetUpByNow(q)}
         /\ ~SetUpByNow(p)' =>
               {q \in Proc : SetUpByNow(q)}' = {q \in Proc : SetUpByNow(q)} \ {p}
         /\ SetUpByNow(p)' =>
               {q \in Proc : SetUpByNow(q)}' = {q \in Proc : SetUpByNow(q)} \cup {p}
<1>1. \A q \in Proc \ {p} : SetUpByNow(q)' <=> SetUpByNow(q)
  BY DEF OthersWait, SetUpByNow, ConfOf
<1> QED
  BY <1>1

LEMMA RequestsKept ==
  ASSUME NEW p \in Proc, Proceeds(p)
  PROVE  [q \in Proc |-> ReqOf(q)]' = [q \in Proc |-> ReqOf(q)]
  BY DEF Proceeds, OthersWait, ReqOf, RequestOf, SlotOf

(* A step that records nothing is none of SerialUpdates, or gives up.      *)
LEMMA LocalStep ==
  ASSUME Base, NEW p \in Proc, Proceeds(p), UNCHANGED <<record, done>>,
         SetUpByNow(p)' => SetUpByNow(p)
  PROVE  SerialStep
<1>1. [q \in Proc |-> ReqOf(q)]' = [q \in Proc |-> ReqOf(q)]
  BY RequestsKept
<1>2. CASE SetUpByNow(p)' <=> SetUpByNow(p)
  <2>1. {q \in Proc : SetUpByNow(q)}' = {q \in Proc : SetUpByNow(q)}
    BY <1>2, ReadyKept DEF Proceeds
  <2> QED
    BY <1>1, <2>1 DEF SerialStep, Serial!serialVars, ReqOf
<1>3. CASE ~SetUpByNow(p)'
  <2>1. {q \in Proc : SetUpByNow(q)}' = {q \in Proc : SetUpByNow(q)} \ {p}
    BY <1>3, ReadyKept DEF Proceeds
  <2>2. Serial!Asked(p)
    BY Requests DEF Serial!Asked, Proceeds
  <2>3. Serial!GiveUp(p)
    BY <1>1, <2>1, <2>2 DEF Serial!GiveUp, ReqOf
  <2> QED
    BY <2>3 DEF SerialStep, Serial!SUNext
<1> QED
  BY <1>2, <1>3

(* The end of a run, from wherever it is.                                  *)
LEMMA GoneStep ==
  ASSUME Base, NEW p \in Proc, Gone(p), pc[p] # "idle", UNCHANGED <<record, done>>
  PROVE  SerialStep
<1>1. OthersWait(p) /\ pc'[p] = "idle" /\ child'[p] = "none"
  BY DEF Gone, Goto, OthersWait, Base, TypeOK
<1>2. ~SetUpByNow(p)'
  BY <1>1 DEF SetUpByNow
<1>3. {q \in Proc : SetUpByNow(q)}' = {q \in Proc : SetUpByNow(q)} \ {p}
  BY <1>1, <1>2, ReadyKept
<1>4. [q \in Proc |-> ReqOf(q)]' = [[q \in Proc |-> ReqOf(q)] EXCEPT ![p] = NoJob]
  BY <1>1 DEF OthersWait, ReqOf, RequestOf, SlotOf
<1>5. Serial!Asked(p)
  BY Requests DEF Serial!Asked
<1>6. Serial!GiveUp(p)
  BY <1>3, <1>4, <1>5 DEF Serial!GiveUp, ReqOf
<1> QED
  BY <1>6 DEF SerialStep, Serial!SUNext

(* A setup completes, or what is there is adopted: news to the cache, or   *)
(* (a URL whose mark did not change) none.                                 *)
LEMMA SetUpStep ==
  ASSUME Base, EarnedInv, FreshInv, DecidedInv, NEW p \in Proc,
         Proceeds(p), pc[p] \in WorkingPCs, ~SetUpByNow(p), UNCHANGED record,
         done' = [done EXCEPT ![SlotOf(p)] = @ \cup {job[p].ident}],
         ~SetUpByNow(p)' => view[p].known
  PROVE  SerialStep
<1>1. CASE ~SetUpByNow(p)'
  <2>1. job[p].ident \in done[SlotOf(p)]
    BY <1>1 DEF EarnedInv, SetUp
  <2>2. done' = done
    BY <2>1 DEF Base, TypeOK
  <2> QED
    BY <1>1, <2>2, LocalStep
<1>2. CASE SetUpByNow(p)'
  <2>1. [q \in Proc |-> ReqOf(q)]' = [q \in Proc |-> ReqOf(q)]
    BY RequestsKept
  <2>2. {q \in Proc : SetUpByNow(q)}' = {q \in Proc : SetUpByNow(q)} \cup {p}
    BY <1>2, ReadyKept DEF Proceeds
  <2>3. /\ Serial!Asked(p)
        /\ \E now \in Time : Serial!CalledForAt(p, now)
    BY CalledForSerially
  <2>4. ReqOf(p).slot = SlotOf(p) /\ ReqOf(p).ident = job[p].ident
    BY DEF ReqOf, RequestOf, Proceeds
  <2>5. Serial!SetUp(p)
    BY <2>1, <2>2, <2>3, <2>4 DEF Serial!SetUp, ReqOf
  <2> QED
    BY <2>5 DEF SerialStep, Serial!SUNext
<1> QED
  BY <1>1, <1>2

(* hm_cache_save() is the update.                                          *)
LEMMA SaveStep ==
  ASSUME Base, FreshInv, DecidedInv, NEW p \in Proc, Save(p)
  PROVE  SerialStep
<1>1. /\ pc[p] \in {"commit", "touch"} /\ pc' = [pc EXCEPT ![p] = "unlock"]
      /\ UNCHANGED <<done, job, view, seen, child>>
      /\ record' = [record EXCEPT ![SlotOf(p)] =
                      [ident |-> job[p].ident, lastCheck |-> view[p].now,
                       mark |-> Stored[IF ConfOf(p).kind = "url" THEN seen[p]
                                       ELSE view[p].mark]]]
  BY DEF Save, Goto
<1>2. Proceeds(p) /\ pc[p] \in WorkingPCs
  BY <1>1 DEF Proceeds, OthersWait, WorkingPCs, DecidedPCs, Base, TypeOK
<1>3. ~SetUpByNow(p)'
  BY <1>1 DEF SetUpByNow, Base, TypeOK, ChildIsAwaited
<1>4. [q \in Proc |-> ReqOf(q)]' = [q \in Proc |-> ReqOf(q)]
  BY <1>2, RequestsKept
<1>5. {q \in Proc : SetUpByNow(q)}' = {q \in Proc : SetUpByNow(q)} \ {p}
  BY <1>2, <1>3, ReadyKept DEF Proceeds
<1>6. /\ Serial!Asked(p)
      /\ Serial!CalledForAt(p, view[p].now) /\ view[p].now \in Time
      /\ Serial!Known(p) <=> view[p].known
      /\ Serial!MarkKnown(p) = view[p].mark
      /\ Serial!ConfAsked(p) = ConfOf(p)
  BY <1>2, CalledForSerially
<1>7. ReqOf(p).slot = SlotOf(p) /\ ReqOf(p).ident = job[p].ident
  BY <1>2 DEF ReqOf, RequestOf, Proceeds
<1>8. \/ p \in {q \in Proc : SetUpByNow(q)}
      \/ Serial!ConfAsked(p).kind = "url" /\ Serial!Known(p) /\ Serial!MarkKnown(p) = seen[p]
  BY <1>1, <1>6 DEF SetUpByNow
<1>9. record' = [record EXCEPT ![ReqOf(p).slot] =
                   [ident |-> ReqOf(p).ident, lastCheck |-> view[p].now,
                    mark |-> Stored[IF Serial!ConfAsked(p).kind = "url" THEN seen[p]
                                    ELSE Serial!MarkKnown(p)]]]
  BY <1>1, <1>6, <1>7
<1>10. seen[p] \in Mark \cup {NoMark}
  BY DEF Base, TypeOK
<1>11. Serial!Update(p)
  BY <1>1, <1>4, <1>5, <1>6, <1>8, <1>9, <1>10 DEF Serial!Update, ReqOf
<1> QED
  BY <1>11 DEF SerialStep, Serial!SUNext

(* Nobody asks for anything at the start ...                               *)
LEMMA InitSerial == Init => Serial!SUInit
  BY DEF Init, Serial!SUInit, SetUpByNow, NoRecord

(* ... and every step is one of SerialUpdates, or none.                    *)
LEMMA NextSerial ==
  Base /\ EarnedInv /\ FreshInv /\ DecidedInv /\ [Next]_vars => SerialStep
<1> SUFFICES ASSUME Base, EarnedInv, FreshInv, DecidedInv, [Next]_vars PROVE SerialStep
  OBVIOUS
<1> USE NamesAssumption
    DEF Base, TypeOK, ChildIsAwaited, envVars, cacheVars, localVars, Goto, GiveUp, PC,
        WorkingPCs, DecidedPCs, Proceeds, OthersWait
<1>1. CASE UNCHANGED vars
  BY <1>1 DEF vars, SerialStep, Serial!serialVars, SetUpByNow, ConfOf, RequestOf, SlotOf
<1>2. ASSUME NEW p \in Proc, Start(p)
      PROVE  SerialStep
  <2>1. PICK s \in Source, o \in Opts :
           job' = [job EXCEPT ![p] = [src |-> s, ident |-> source[s], mode |-> o.mode,
                                      force |-> o.force, verbose |-> o.verbose]]
    BY <1>2 DEF Start
  <2>2. /\ pc[p] = "idle" /\ pc' = [pc EXCEPT ![p] = "load"]
        /\ UNCHANGED <<record, done, view, seen, child>>
    BY <1>2 DEF Start
  <2>3. OthersWait(p)
    BY <2>1, <2>2 DEF OthersWait
  <2>4. job'[p] \in Job
    BY <2>1 DEF Job, Option
  <2>5. RequestOf(p)' \in Serial!Request
    BY <2>4 DEF RequestOf, Serial!Request, SlotOf, SlotAt, Slot, Job
  <2>6. ~SetUpByNow(p) /\ ~SetUpByNow(p)'
    BY <2>2 DEF SetUpByNow
  <2>7. {q \in Proc : SetUpByNow(q)}' = {q \in Proc : SetUpByNow(q)}
    BY <2>3, <2>6, ReadyKept
  <2>8. [q \in Proc |-> ReqOf(q)]' = [[q \in Proc |-> ReqOf(q)] EXCEPT ![p] = RequestOf(p)']
    BY <2>2, <2>3 DEF ReqOf, OthersWait, RequestOf, SlotOf
  <2>9. ReqOf(p) = NoJob
    BY <2>2 DEF ReqOf
  <2>10. Serial!Ask(p)
    BY <2>2, <2>5, <2>7, <2>8, <2>9 DEF Serial!Ask, ReqOf
  <2> QED
    BY <2>10 DEF SerialStep, Serial!SUNext
<1>3. ASSUME NEW p \in Proc, Load(p)
      PROVE  SerialStep
  <2>1. Proceeds(p) /\ UNCHANGED <<record, done>> /\ (SetUpByNow(p)' => SetUpByNow(p))
    BY <1>3 DEF Load, SetUpByNow, ConfOf
  <2> QED
    BY <2>1, LocalStep
<1>4. ASSUME NEW p \in Proc, LoadFails(p)
      PROVE  SerialStep
  <2>1. Proceeds(p) /\ UNCHANGED <<record, done>> /\ (SetUpByNow(p)' => SetUpByNow(p))
    BY <1>4 DEF LoadFails, SetUpByNow, ConfOf
  <2> QED
    BY <2>1, LocalStep
<1>5. ASSUME NEW p \in Proc, Decide(p)
      PROVE  SerialStep
  <2>1. Proceeds(p) /\ UNCHANGED <<record, done>> /\ (SetUpByNow(p)' => SetUpByNow(p))
    BY <1>5 DEF Decide, SetUpByNow, ConfOf
  <2> QED
    BY <2>1, LocalStep
<1>6. ASSUME NEW p \in Proc, ExecCached(p)
      PROVE  SerialStep
  <2>1. Proceeds(p) /\ UNCHANGED <<record, done>> /\ (SetUpByNow(p)' => SetUpByNow(p))
    BY <1>6 DEF ExecCached, SetUpByNow, ConfOf
  <2> QED
    BY <2>1, LocalStep
<1>7. ASSUME NEW p \in Proc, ProbeMissing(p)
      PROVE  SerialStep
  <2>1. Proceeds(p) /\ UNCHANGED <<record, done>> /\ (SetUpByNow(p)' => SetUpByNow(p))
    BY <1>7 DEF ProbeMissing, SetUpByNow, ConfOf
  <2> QED
    BY <2>1, LocalStep
<1>8. ASSUME NEW p \in Proc, ProbePresent(p)
      PROVE  SerialStep
  <2>1. Proceeds(p) /\ UNCHANGED <<record, done>> /\ (SetUpByNow(p)' => SetUpByNow(p))
    BY <1>8 DEF ProbePresent, SetUpByNow, ConfOf
  <2> QED
    BY <2>1, LocalStep
<1>9. ASSUME NEW p \in Proc, Acquire(p)
      PROVE  SerialStep
  <2>1. Proceeds(p) /\ UNCHANGED <<record, done>> /\ (SetUpByNow(p)' => SetUpByNow(p))
    BY <1>9 DEF Acquire, SetUpByNow, ConfOf
  <2> QED
    BY <2>1, LocalStep
<1>10. ASSUME NEW p \in Proc, LockFails(p)
      PROVE  SerialStep
  <2>1. Proceeds(p) /\ UNCHANGED <<record, done>> /\ (SetUpByNow(p)' => SetUpByNow(p))
    BY <1>10 DEF LockFails, SetUpByNow, ConfOf
  <2> QED
    BY <2>1, LocalStep
<1>11. ASSUME NEW p \in Proc, Recheck(p)
      PROVE  SerialStep
  <2>1. Proceeds(p) /\ UNCHANGED <<record, done>> /\ (SetUpByNow(p)' => SetUpByNow(p))
    BY <1>11 DEF Recheck, SetUpByNow, ConfOf
  <2> QED
    BY <2>1, LocalStep
<1>12. ASSUME NEW p \in Proc, Unlock(p)
      PROVE  SerialStep
  <2>1. Proceeds(p) /\ UNCHANGED <<record, done>> /\ (SetUpByNow(p)' => SetUpByNow(p))
    BY <1>12 DEF Unlock, SetUpByNow, ConfOf
  <2> QED
    BY <2>1, LocalStep
<1>13. ASSUME NEW p \in Proc, ReportDue(p)
      PROVE  SerialStep
  <2>1. Proceeds(p) /\ UNCHANGED <<record, done>> /\ (SetUpByNow(p)' => SetUpByNow(p))
    BY <1>13 DEF ReportDue, SetUpByNow, ConfOf
  <2> QED
    BY <2>1, LocalStep
<1>14. ASSUME NEW p \in Proc, AdoptCommand(p)
      PROVE  SerialStep
  <2>1. /\ Proceeds(p) /\ pc[p] \in WorkingPCs /\ ~SetUpByNow(p)
        /\ UNCHANGED record /\ (~SetUpByNow(p)' => view[p].known)
        /\ done' = [done EXCEPT ![SlotOf(p)] = @ \cup {job[p].ident}]
    BY <1>14 DEF AdoptCommand, Adopted, SetUpByNow, ConfOf
  <2> QED
    BY <2>1, SetUpStep
<1>15. ASSUME NEW p \in Proc, BeginCommand(p)
      PROVE  SerialStep
  <2>1. Proceeds(p) /\ UNCHANGED <<record, done>> /\ (SetUpByNow(p)' => SetUpByNow(p))
    BY <1>15 DEF BeginCommand, FirstStep, Filled, SetUpByNow, ConfOf
  <2> QED
    BY <2>1, LocalStep
<1>16. ASSUME NEW p \in Proc, CheckUrl(p)
      PROVE  SerialStep
  <2>1. Proceeds(p) /\ UNCHANGED <<record, done>> /\ (SetUpByNow(p)' => SetUpByNow(p))
    BY <1>16 DEF CheckUrl, SetUpByNow, ConfOf
  <2> QED
    BY <2>1, LocalStep
<1>17. ASSUME NEW p \in Proc, CheckFails(p)
      PROVE  SerialStep
  <2>1. Proceeds(p) /\ UNCHANGED <<record, done>> /\ (SetUpByNow(p)' => SetUpByNow(p))
    BY <1>17 DEF CheckFails, SetUpByNow, ConfOf
  <2> QED
    BY <2>1, LocalStep
<1>18. ASSUME NEW p \in Proc, Unchanged(p)
      PROVE  SerialStep
  <2>1. Proceeds(p) /\ UNCHANGED <<record, done>> /\ (SetUpByNow(p)' => SetUpByNow(p))
    BY <1>18 DEF Unchanged, Changed, DecidedInv, SetUpByNow, ConfOf
  <2> QED
    BY <2>1, LocalStep
<1>19. ASSUME NEW p \in Proc, ReportChanged(p)
      PROVE  SerialStep
  <2>1. Proceeds(p) /\ UNCHANGED <<record, done>> /\ (SetUpByNow(p)' => SetUpByNow(p))
    BY <1>19 DEF ReportChanged, SetUpByNow, ConfOf
  <2> QED
    BY <2>1, LocalStep
<1>20. ASSUME NEW p \in Proc, AdoptUrl(p)
      PROVE  SerialStep
  <2>1. /\ Proceeds(p) /\ pc[p] \in WorkingPCs /\ ~SetUpByNow(p)
        /\ UNCHANGED record /\ (~SetUpByNow(p)' => view[p].known)
        /\ done' = [done EXCEPT ![SlotOf(p)] = @ \cup {job[p].ident}]
    BY <1>20 DEF AdoptUrl, Adopted, SetUpByNow, ConfOf
  <2> QED
    BY <2>1, SetUpStep
<1>21. ASSUME NEW p \in Proc, BeginInstall(p)
      PROVE  SerialStep
  <2>1. Proceeds(p) /\ UNCHANGED <<record, done>> /\ (SetUpByNow(p)' => SetUpByNow(p))
    BY <1>21 DEF BeginInstall, SetUpByNow, ConfOf
  <2> QED
    BY <2>1, LocalStep
<1>22. ASSUME NEW p \in Proc, BeginReset(p)
      PROVE  SerialStep
  <2>1. Proceeds(p) /\ UNCHANGED <<record, done>> /\ (SetUpByNow(p)' => SetUpByNow(p))
    BY <1>22 DEF BeginReset, SetUpByNow, ConfOf
  <2> QED
    BY <2>1, LocalStep
<1>23. ASSUME NEW p \in Proc, EndReset(p)
      PROVE  SerialStep
  <2>1. Proceeds(p) /\ UNCHANGED <<record, done>> /\ (SetUpByNow(p)' => SetUpByNow(p))
    BY <1>23 DEF EndReset, Filled, SetUpByNow, ConfOf
  <2> QED
    BY <2>1, LocalStep
<1>24. ASSUME NEW p \in Proc, ResetFails(p)
      PROVE  SerialStep
  <2>1. Proceeds(p) /\ UNCHANGED <<record, done>> /\ (SetUpByNow(p)' => SetUpByNow(p))
    BY <1>24 DEF ResetFails, SetUpByNow, ConfOf
  <2> QED
    BY <2>1, LocalStep
<1>25. ASSUME NEW p \in Proc, StageFile(p)
      PROVE  SerialStep
  <2>1. Proceeds(p) /\ UNCHANGED <<record, done>> /\ (SetUpByNow(p)' => SetUpByNow(p))
    BY <1>25 DEF StageFile, SetUpByNow, ConfOf
  <2> QED
    BY <2>1, LocalStep
<1>26. ASSUME NEW p \in Proc, RenameFile(p)
      PROVE  SerialStep
  <2>1. Proceeds(p) /\ UNCHANGED <<record, done>> /\ (SetUpByNow(p)' => SetUpByNow(p))
    BY <1>26 DEF RenameFile, SetUpByNow, ConfOf
  <2> QED
    BY <2>1, LocalStep
<1>27. ASSUME NEW p \in Proc, StageFails(p)
      PROVE  SerialStep
  <2>1. Proceeds(p) /\ UNCHANGED <<record, done>> /\ (SetUpByNow(p)' => SetUpByNow(p))
    BY <1>27 DEF StageFails, SetUpByNow, ConfOf
  <2> QED
    BY <2>1, LocalStep
<1>28. ASSUME NEW p \in Proc, NoScript(p)
      PROVE  SerialStep
  <2>1. /\ Proceeds(p) /\ pc[p] \in WorkingPCs /\ ~SetUpByNow(p)
        /\ UNCHANGED record /\ (~SetUpByNow(p)' => view[p].known)
        /\ done' = [done EXCEPT ![SlotOf(p)] = @ \cup {job[p].ident}]
    BY <1>28 DEF NoScript, Adopted, SetUpByNow, ConfOf
  <2> QED
    BY <2>1, SetUpStep
<1>29. ASSUME NEW p \in Proc, Fork(p)
      PROVE  SerialStep
  <2>1. Proceeds(p) /\ UNCHANGED <<record, done>> /\ (SetUpByNow(p)' => SetUpByNow(p))
    BY <1>29 DEF Fork, SetUpByNow, ConfOf
  <2> QED
    BY <2>1, LocalStep
<1>30. ASSUME NEW p \in Proc, ForkFails(p)
      PROVE  SerialStep
  <2>1. Proceeds(p) /\ UNCHANGED <<record, done>> /\ (SetUpByNow(p)' => SetUpByNow(p))
    BY <1>30 DEF ForkFails, SetUpByNow, ConfOf
  <2> QED
    BY <2>1, LocalStep
<1>31. ASSUME NEW p \in Proc, ChildWrites(p)
      PROVE  SerialStep
  <2>1. Proceeds(p) /\ UNCHANGED <<record, done>> /\ (SetUpByNow(p)' => SetUpByNow(p))
    BY <1>31 DEF ChildWrites, SetUpByNow, ConfOf
  <2> QED
    BY <2>1, LocalStep
<1>32. ASSUME NEW p \in Proc, ChildSucceeds(p)
      PROVE  SerialStep
  <2>1. /\ Proceeds(p) /\ pc[p] \in WorkingPCs /\ ~SetUpByNow(p)
        /\ UNCHANGED record /\ (~SetUpByNow(p)' => view[p].known)
        /\ done' = [done EXCEPT ![SlotOf(p)] = @ \cup {job[p].ident}]
    BY <1>32 DEF ChildSucceeds, SetUpByNow, ConfOf
  <2> QED
    BY <2>1, SetUpStep
<1>33. ASSUME NEW p \in Proc, ChildFails(p)
      PROVE  SerialStep
  <2>1. Proceeds(p) /\ UNCHANGED <<record, done>> /\ (SetUpByNow(p)' => SetUpByNow(p))
    BY <1>33 DEF ChildFails, SetUpByNow, ConfOf
  <2> QED
    BY <2>1, LocalStep
<1>34. ASSUME NEW p \in Proc, Interrupt(p)
      PROVE  SerialStep
  <2>1. Proceeds(p) /\ UNCHANGED <<record, done>> /\ (SetUpByNow(p)' => SetUpByNow(p))
    BY <1>34 DEF Interrupt, SetUpByNow, ConfOf
  <2> QED
    BY <2>1, LocalStep
<1>35. ASSUME NEW p \in Proc, Reap(p)
      PROVE  SerialStep
  <2>1. Proceeds(p) /\ UNCHANGED <<record, done>> /\ (SetUpByNow(p)' => SetUpByNow(p))
    BY <1>35 DEF Reap, SetUpByNow, ConfOf
  <2> QED
    BY <2>1, LocalStep
<1>36. ASSUME NEW p \in Proc, Reraise(p)
      PROVE  SerialStep
  <2>1. /\ Gone(p) /\ pc[p] # "idle" /\ UNCHANGED <<record, done>>
    BY <1>36 DEF Reraise
  <2> QED
    BY <2>1, GoneStep
<1>37. ASSUME NEW p \in Proc, Save(p)
      PROVE  SerialStep
  BY <1>37, SaveStep
<1>38. ASSUME NEW p \in Proc, SaveFails(p)
      PROVE  SerialStep
  <2>1. Proceeds(p) /\ UNCHANGED <<record, done>> /\ (SetUpByNow(p)' => SetUpByNow(p))
    BY <1>38 DEF SaveFails, SetUpByNow, ConfOf
  <2> QED
    BY <2>1, LocalStep
<1>39. ASSUME NEW p \in Proc, Handover(p)
      PROVE  SerialStep
  <2>1. Proceeds(p) /\ UNCHANGED <<record, done>> /\ (SetUpByNow(p)' => SetUpByNow(p))
    BY <1>39 DEF Handover, SetUpByNow, ConfOf
  <2> QED
    BY <2>1, LocalStep
<1>40. ASSUME NEW p \in Proc, Leave(p)
      PROVE  SerialStep
  <2>1. /\ Gone(p) /\ pc[p] # "idle" /\ UNCHANGED <<record, done>>
    BY <1>40 DEF Leave
  <2> QED
    BY <2>1, GoneStep
<1>41. ASSUME NEW p \in Proc, Die(p)
      PROVE  SerialStep
  <2>1. /\ Gone(p) /\ pc[p] # "idle" /\ UNCHANGED <<record, done>>
    BY <1>41 DEF Die
  <2> QED
    BY <2>1, GoneStep
<1>42. ASSUME NEW s \in Source, Edit(s)
      PROVE  SerialStep
  BY <1>42 DEF Edit, SerialStep, Serial!serialVars, SetUpByNow, ConfOf, RequestOf, SlotOf
<1>43. ASSUME NEW i \in Ident, RemoteChanges(i)
      PROVE  SerialStep
  BY <1>43
     DEF RemoteChanges, SerialStep, Serial!serialVars, SetUpByNow, ConfOf, RequestOf, SlotOf
<1>44. ASSUME NEW s \in Slot, OrphanWrites(s)
      PROVE  SerialStep
  BY <1>44
     DEF OrphanWrites, SerialStep, Serial!serialVars, SetUpByNow, ConfOf, RequestOf, SlotOf
<1>45. ASSUME NEW s \in Slot, OrphanEnds(s)
      PROVE  SerialStep
  BY <1>45
     DEF OrphanEnds, SerialStep, Serial!serialVars, SetUpByNow, ConfOf, RequestOf, SlotOf
<1>46. ASSUME NEW s \in Slot, WorkDirRemoved(s)
      PROVE  SerialStep
  BY <1>46
     DEF WorkDirRemoved, SerialStep, Serial!serialVars, SetUpByNow, ConfOf, RequestOf, SlotOf
<1>47. CASE Tick
  BY <1>47 DEF Tick, SerialStep, Serial!serialVars, SetUpByNow, ConfOf, RequestOf, SlotOf
<1> QED
    BY <1>1, <1>2, <1>3, <1>4, <1>5, <1>6, <1>7, <1>8, <1>9, <1>10, <1>11,
     <1>12, <1>13, <1>14, <1>15, <1>16, <1>17, <1>18, <1>19, <1>20, <1>21,
     <1>22, <1>23, <1>24, <1>25, <1>26, <1>27, <1>28, <1>29, <1>30, <1>31,
     <1>32, <1>33, <1>34, <1>35, <1>36, <1>37, <1>38, <1>39, <1>40, <1>41,
     <1>42, <1>43, <1>44, <1>45, <1>46, <1>47
    DEF Next, Process, Advance, CallFails, ChildEnds, World

(* However many runs share a cache, and whatever fails or dies: without    *)
(* --check-only and --dry-run, the records change as if every run decided  *)
(* and recorded in one step (main.c's lock, reload and second decision).   *)
THEOREM RunsUpdateSerially ==
  ASSUME NoInspection
  PROVE  Spec => UpdatesAreSerial
<1>1. FreshInv /\ [](Base /\ LockInv) /\ [][Next]_vars => []FreshInv
  BY NextFresh, PTL
<1>2. DecidedInv /\ [](Base /\ LockInv) /\ []FreshInv /\ [][Next]_vars => []DecidedInv
  BY NextDecided, PTL
<1>3. Base /\ EarnedInv /\ FreshInv /\ DecidedInv /\ [Next]_vars
        => [Serial!SUNext]_(Serial!serialVars)
  BY NextSerial DEF SerialStep
<1> QED
  BY <1>1, <1>2, <1>3, LockHolds, EarnedHolds, InitFresh, InitDecided, InitSerial, PTL
     DEF Spec, UpdatesAreSerial, Serial!SUSpec

-----------------------------------------------------------------------------
(* What a run that only inspects does, and what is at an address.          *)

(* A run that inspects never goes near a setup or the lock, and comes to   *)
(* save a URL's record only when the mark is the one it read; a run that   *)
(* waits has a setup to wait for.                                          *)
InspectPCs == {"load", "decide", "due", "compare", "touch", "unlock", "finish"}
Looking(p) ==
    /\ pc[p] \in InspectPCs
    /\ \A s \in Slot : lock[s] # p
    /\ pc[p] \in {"compare", "touch"} => ConfOf(p).kind = "url"
    /\ pc[p] = "touch" => view[p].known /\ view[p].mark = seen[p]
LookInv ==
    \A p \in Proc :
        /\ pc[p] # "idle" /\ Inspected(p) => Looking(p)
        /\ pc[p] = "wait" => child[p] # "none"

(* Nobody looks at the start ...                                           *)
LEMMA InitLook == Init => LookInv
  BY DEF Init, LookInv

(* ... and who looks goes on looking, or leaves.                           *)
LEMMA NextLook == Base /\ LockInv /\ LookInv /\ [Next]_vars => LookInv'
<1> SUFFICES ASSUME Base, LockInv, LookInv, [Next]_vars PROVE LookInv'
  OBVIOUS
<1> USE NamesAssumption
    DEF Base, TypeOK, ChildIsAwaited, envVars, cacheVars, localVars, Goto, GiveUp, PC,
        LockInv, LockDiscipline, DecidedPCs, SetupPCs, Holds, LookInv, Looking,
        InspectPCs, Inspected, SlotOf, ConfOf

<1>1. CASE UNCHANGED vars
  BY <1>1 DEF vars
<1>2. ASSUME NEW p \in Proc, Start(p)
      PROVE  LookInv'
  BY <1>2 DEF Start
<1>3. ASSUME NEW p \in Proc, Load(p)
      PROVE  LookInv'
  BY <1>3 DEF Load
<1>4. ASSUME NEW p \in Proc, LoadFails(p)
      PROVE  LookInv'
  BY <1>4 DEF LoadFails
<1>5. ASSUME NEW p \in Proc, Decide(p)
      PROVE  LookInv'
  BY <1>5 DEF Decide, ExecCheck
<1>6. ASSUME NEW p \in Proc, ExecCached(p)
      PROVE  LookInv'
  BY <1>6 DEF ExecCached
<1>7. ASSUME NEW p \in Proc, ProbeMissing(p)
      PROVE  LookInv'
  BY <1>7 DEF ProbeMissing
<1>8. ASSUME NEW p \in Proc, ProbePresent(p)
      PROVE  LookInv'
  BY <1>8 DEF ProbePresent
<1>9. ASSUME NEW p \in Proc, Acquire(p)
      PROVE  LookInv'
  BY <1>9 DEF Acquire, LockFree
<1>10. ASSUME NEW p \in Proc, LockFails(p)
      PROVE  LookInv'
  BY <1>10 DEF LockFails
<1>11. ASSUME NEW p \in Proc, Recheck(p)
      PROVE  LookInv'
  BY <1>11 DEF Recheck
<1>12. ASSUME NEW p \in Proc, Unlock(p)
      PROVE  LookInv'
  BY <1>12 DEF Unlock, Released
<1>13. ASSUME NEW p \in Proc, ReportDue(p)
      PROVE  LookInv'
  BY <1>13 DEF ReportDue
<1>14. ASSUME NEW p \in Proc, AdoptCommand(p)
      PROVE  LookInv'
  BY <1>14 DEF AdoptCommand, Adopted
<1>15. ASSUME NEW p \in Proc, BeginCommand(p)
      PROVE  LookInv'
  BY <1>15 DEF BeginCommand, FirstStep, Filled
<1>16. ASSUME NEW p \in Proc, CheckUrl(p)
      PROVE  LookInv'
  BY <1>16 DEF CheckUrl
<1>17. ASSUME NEW p \in Proc, CheckFails(p)
      PROVE  LookInv'
  BY <1>17 DEF CheckFails
<1>18. ASSUME NEW p \in Proc, Unchanged(p)
      PROVE  LookInv'
  BY <1>18 DEF Unchanged, Changed
<1>19. ASSUME NEW p \in Proc, ReportChanged(p)
      PROVE  LookInv'
  BY <1>19 DEF ReportChanged
<1>20. ASSUME NEW p \in Proc, AdoptUrl(p)
      PROVE  LookInv'
  BY <1>20 DEF AdoptUrl, Adopted
<1>21. ASSUME NEW p \in Proc, BeginInstall(p)
      PROVE  LookInv'
  BY <1>21 DEF BeginInstall
<1>22. ASSUME NEW p \in Proc, BeginReset(p)
      PROVE  LookInv'
  BY <1>22 DEF BeginReset
<1>23. ASSUME NEW p \in Proc, EndReset(p)
      PROVE  LookInv'
  BY <1>23 DEF EndReset, Filled
<1>24. ASSUME NEW p \in Proc, ResetFails(p)
      PROVE  LookInv'
  BY <1>24 DEF ResetFails
<1>25. ASSUME NEW p \in Proc, StageFile(p)
      PROVE  LookInv'
  BY <1>25 DEF StageFile
<1>26. ASSUME NEW p \in Proc, RenameFile(p)
      PROVE  LookInv'
  BY <1>26 DEF RenameFile
<1>27. ASSUME NEW p \in Proc, StageFails(p)
      PROVE  LookInv'
  BY <1>27 DEF StageFails
<1>28. ASSUME NEW p \in Proc, NoScript(p)
      PROVE  LookInv'
  BY <1>28 DEF NoScript, Adopted
<1>29. ASSUME NEW p \in Proc, Fork(p)
      PROVE  LookInv'
  BY <1>29 DEF Fork
<1>30. ASSUME NEW p \in Proc, ForkFails(p)
      PROVE  LookInv'
  BY <1>30 DEF ForkFails
<1>31. ASSUME NEW p \in Proc, ChildWrites(p)
      PROVE  LookInv'
  BY <1>31 DEF ChildWrites
<1>32. ASSUME NEW p \in Proc, ChildSucceeds(p)
      PROVE  LookInv'
  BY <1>32 DEF ChildSucceeds
<1>33. ASSUME NEW p \in Proc, ChildFails(p)
      PROVE  LookInv'
  BY <1>33 DEF ChildFails
<1>34. ASSUME NEW p \in Proc, Interrupt(p)
      PROVE  LookInv'
  BY <1>34 DEF Interrupt
<1>35. ASSUME NEW p \in Proc, Reap(p)
      PROVE  LookInv'
  BY <1>35 DEF Reap
<1>36. ASSUME NEW p \in Proc, Reraise(p)
      PROVE  LookInv'
  BY <1>36 DEF Reraise, Gone, Released
<1>37. ASSUME NEW p \in Proc, Save(p)
      PROVE  LookInv'
  BY <1>37 DEF Save
<1>38. ASSUME NEW p \in Proc, SaveFails(p)
      PROVE  LookInv'
  BY <1>38 DEF SaveFails
<1>39. ASSUME NEW p \in Proc, Handover(p)
      PROVE  LookInv'
  BY <1>39 DEF Handover, HandsOver
<1>40. ASSUME NEW p \in Proc, Leave(p)
      PROVE  LookInv'
  BY <1>40 DEF Leave, Gone
<1>41. ASSUME NEW p \in Proc, Die(p)
      PROVE  LookInv'
  BY <1>41 DEF Die, Gone, Released
<1>42. ASSUME NEW s \in Source, Edit(s)
      PROVE  LookInv'
  BY <1>42 DEF Edit
<1>43. ASSUME NEW i \in Ident, RemoteChanges(i)
      PROVE  LookInv'
  BY <1>43 DEF RemoteChanges
<1>44. ASSUME NEW s \in Slot, OrphanWrites(s)
      PROVE  LookInv'
  BY <1>44 DEF OrphanWrites
<1>45. ASSUME NEW s \in Slot, OrphanEnds(s)
      PROVE  LookInv'
  BY <1>45 DEF OrphanEnds
<1>46. ASSUME NEW s \in Slot, WorkDirRemoved(s)
      PROVE  LookInv'
  BY <1>46 DEF WorkDirRemoved
<1>47. CASE Tick
  BY <1>47 DEF Tick
<1> QED
    BY <1>1, <1>2, <1>3, <1>4, <1>5, <1>6, <1>7, <1>8, <1>9, <1>10, <1>11,
     <1>12, <1>13, <1>14, <1>15, <1>16, <1>17, <1>18, <1>19, <1>20, <1>21,
     <1>22, <1>23, <1>24, <1>25, <1>26, <1>27, <1>28, <1>29, <1>30, <1>31,
     <1>32, <1>33, <1>34, <1>35, <1>36, <1>37, <1>38, <1>39, <1>40, <1>41,
     <1>42, <1>43, <1>44, <1>45, <1>46, <1>47
    DEF Next, Process, Advance, CallFails, ChildEnds, World

(* What is at an address that is an identity is of that identity; marks in *)
(* records have been through append_clean(), which finds nothing to clean  *)
(* in them a second time.                                                  *)
OwnFiles == \A s \in Ident : \A t \in work[s].of \cup orphans[s] : t.ident = s
OwnRecords ==
    /\ \A s \in Ident : done[s] \subseteq {s} /\ record[s].ident \in {s, NoIdent}
    /\ \A s \in Slot : Stored[record[s].mark] = record[s].mark
OwnViews ==
    \A p \in Proc :
        /\ Stored[view[p].mark] = view[p].mark
        /\ view[p].known =>
              /\ pc[p] # "idle"
              /\ SlotOf(p) \in Ident => record[SlotOf(p)].ident = job[p].ident
OwnInv == OwnFiles /\ OwnRecords /\ OwnViews

(* A run whose address is an identity is about that identity.              *)
LEMMA OwnSlot ==
  ASSUME TypeOK, NEW p \in Proc, pc[p] # "idle"
  PROVE  /\ job[p].ident \in Ident /\ SlotOf(p) \in Slot
         /\ SlotOf(p) \in Ident => SlotOf(p) = job[p].ident
  BY NamesAssumption, SlotType DEF TypeOK, SlotOf, SlotAt, Job

(* A step that leaves the records alone, and adds to an address at most    *)
(* what the run p that is about it puts there.                             *)
LEMMA OwnKept ==
  ASSUME Base, OwnInv, NEW p \in Proc, pc[p] # "idle",
         \A s \in Ident : \A t \in work'[s].of \cup orphans'[s] :
            t \in work[s].of \cup orphans[s] \/ (s = SlotOf(p) /\ t = TagOf(p)),
         \A s \in Ident : \A i \in done'[s] :
            i \in done[s] \/ (s = SlotOf(p) /\ i = job[p].ident),
         UNCHANGED record,
         \A q \in Proc : \/ ~view'[q].known /\ view'[q].mark = NoMark
                         \/ /\ view'[q].known = view[q].known
                            /\ view'[q].mark = view[q].mark
                            /\ pc[q] # "idle" => pc'[q] # "idle" /\ job'[q] = job[q]
  PROVE  OwnInv'
<1>1. OwnFiles'
  BY OwnSlot DEF OwnInv, OwnFiles, Base, TagOf
<1>2. OwnRecords'
  BY OwnSlot DEF OwnInv, OwnRecords, Base
<1>3. OwnViews'
  BY StoredAssumption DEF OwnInv, OwnViews, SlotOf
<1> QED
  BY <1>1, <1>2, <1>3 DEF OwnInv

(* The same of a step that is no run's.                                    *)
LEMMA OwnUntouched ==
  ASSUME OwnInv, UNCHANGED <<record, done, pc, job, view>>,
         \A s \in Ident :
            work'[s].of \cup orphans'[s] \subseteq work[s].of \cup orphans[s]
  PROVE  OwnInv'
  BY DEF OwnInv, OwnFiles, OwnRecords, OwnViews, SlotOf

(* Every address is empty at the start ...                                 *)
LEMMA InitOwn == Init => OwnInv
  BY StoredAssumption
     DEF Init, OwnInv, OwnFiles, OwnRecords, OwnViews, Slot, EmptyDir, NoRecord, NoView

(* ... and is filled by runs that are about it.                            *)
LEMMA NextOwn == Base /\ OwnInv /\ [Next]_vars => OwnInv'
<1> SUFFICES ASSUME Base, OwnInv, [Next]_vars PROVE OwnInv'
  OBVIOUS
<1> USE NamesAssumption
    DEF Base, TypeOK, ChildIsAwaited, envVars, cacheVars, localVars, Goto, GiveUp, PC

<1>1. CASE UNCHANGED vars
  BY <1>1, OwnUntouched DEF vars
<1>2. ASSUME NEW p \in Proc, Start(p)
      PROVE  OwnInv'
  <2>1. /\ pc[p] = "idle" /\ UNCHANGED <<record, done, work, orphans, view>>
        /\ \A q \in Proc \ {p} : pc'[q] = pc[q] /\ job'[q] = job[q]
    BY <1>2 DEF Start
  <2> QED
    BY <2>1 DEF OwnInv, OwnFiles, OwnRecords, OwnViews, SlotOf
<1>3. ASSUME NEW p \in Proc, Load(p)
      PROVE  OwnInv'
  <2>1. /\ pc[p] # "idle" /\ UNCHANGED <<record, done, work, orphans, job>>
        /\ \A q \in Proc : pc[q] # "idle" => pc'[q] # "idle"
        /\ \A q \in Proc \ {p} : view'[q] = view[q]
        /\ view'[p] = Trusted(record[SlotOf(p)], job[p].ident)
    BY <1>3 DEF Load
  <2>2. /\ view'[p].mark \in {record[SlotOf(p)].mark, NoMark}
        /\ view'[p].known => record[SlotOf(p)].ident = job[p].ident
    BY <2>1 DEF Trusted, NoView
  <2>3. OwnViews'
    BY <2>1, <2>2, OwnSlot, StoredAssumption DEF OwnInv, OwnViews, OwnRecords, SlotOf
  <2> QED
    BY <2>1, <2>3 DEF OwnInv, OwnFiles, OwnRecords
<1>4. ASSUME NEW p \in Proc, LoadFails(p)
      PROVE  OwnInv'
  BY <1>4, OwnKept, OwnSlot DEF LoadFails
<1>5. ASSUME NEW p \in Proc, Decide(p)
      PROVE  OwnInv'
  BY <1>5, OwnKept, ViewFields DEF Decide, ExecCheck
<1>6. ASSUME NEW p \in Proc, ExecCached(p)
      PROVE  OwnInv'
  BY <1>6, OwnKept, OwnSlot DEF ExecCached
<1>7. ASSUME NEW p \in Proc, ProbeMissing(p)
      PROVE  OwnInv'
  BY <1>7, OwnKept, OwnSlot DEF ProbeMissing
<1>8. ASSUME NEW p \in Proc, ProbePresent(p)
      PROVE  OwnInv'
  BY <1>8, OwnKept, OwnSlot DEF ProbePresent
<1>9. ASSUME NEW p \in Proc, Acquire(p)
      PROVE  OwnInv'
  BY <1>9, OwnKept, OwnSlot DEF Acquire, LockFree
<1>10. ASSUME NEW p \in Proc, LockFails(p)
      PROVE  OwnInv'
  BY <1>10, OwnKept, OwnSlot DEF LockFails
<1>11. ASSUME NEW p \in Proc, Recheck(p)
      PROVE  OwnInv'
  BY <1>11, OwnKept, ViewFields DEF Recheck
<1>12. ASSUME NEW p \in Proc, Unlock(p)
      PROVE  OwnInv'
  BY <1>12, OwnKept, OwnSlot DEF Unlock, Released
<1>13. ASSUME NEW p \in Proc, ReportDue(p)
      PROVE  OwnInv'
  BY <1>13, OwnKept, OwnSlot DEF ReportDue
<1>14. ASSUME NEW p \in Proc, AdoptCommand(p)
      PROVE  OwnInv'
  BY <1>14, OwnKept, OwnSlot DEF AdoptCommand, Adopted
<1>15. ASSUME NEW p \in Proc, BeginCommand(p)
      PROVE  OwnInv'
  BY <1>15, OwnKept, OwnSlot DEF BeginCommand, FirstStep, Filled
<1>16. ASSUME NEW p \in Proc, CheckUrl(p)
      PROVE  OwnInv'
  BY <1>16, OwnKept, OwnSlot DEF CheckUrl
<1>17. ASSUME NEW p \in Proc, CheckFails(p)
      PROVE  OwnInv'
  BY <1>17, OwnKept, OwnSlot DEF CheckFails
<1>18. ASSUME NEW p \in Proc, Unchanged(p)
      PROVE  OwnInv'
  BY <1>18, OwnKept, OwnSlot DEF Unchanged, Changed
<1>19. ASSUME NEW p \in Proc, ReportChanged(p)
      PROVE  OwnInv'
  BY <1>19, OwnKept, OwnSlot DEF ReportChanged
<1>20. ASSUME NEW p \in Proc, AdoptUrl(p)
      PROVE  OwnInv'
  BY <1>20, OwnKept, OwnSlot DEF AdoptUrl, Adopted
<1>21. ASSUME NEW p \in Proc, BeginInstall(p)
      PROVE  OwnInv'
  BY <1>21, OwnKept, OwnSlot DEF BeginInstall
<1>22. ASSUME NEW p \in Proc, BeginReset(p)
      PROVE  OwnInv'
  BY <1>22, OwnKept, OwnSlot DEF BeginReset, WorkDir
<1>23. ASSUME NEW p \in Proc, EndReset(p)
      PROVE  OwnInv'
  <2>1. \A s \in Ident : work'[s].of \subseteq work[s].of
    BY <1>23, OwnSlot DEF EndReset, EmptyDir, Slot
  <2>2. /\ UNCHANGED <<record, done, orphans, job, view>>
        /\ \A q \in Proc : pc[q] # "idle" => pc'[q] # "idle"
    BY <1>23 DEF EndReset, Filled
  <2> QED
    BY <1>23, <2>1, <2>2, OwnKept DEF EndReset
<1>24. ASSUME NEW p \in Proc, ResetFails(p)
      PROVE  OwnInv'
  BY <1>24, OwnKept, OwnSlot DEF ResetFails
<1>25. ASSUME NEW p \in Proc, StageFile(p)
      PROVE  OwnInv'
  <2>1. \A s \in Ident : work'[s].of = work[s].of
    BY <1>25, OwnSlot DEF StageFile, WorkDir, Slot
  <2> QED
    BY <1>25, <2>1, OwnKept DEF StageFile
<1>26. ASSUME NEW p \in Proc, RenameFile(p)
      PROVE  OwnInv'
  BY <1>26, OwnKept, OwnSlot DEF RenameFile, Placed, WorkDir
<1>27. ASSUME NEW p \in Proc, StageFails(p)
      PROVE  OwnInv'
  <2>1. /\ pc[p] # "idle"
        /\ \/ UNCHANGED work
           \/ work' = [work EXCEPT ![SlotOf(p)].tmps = @ \ {p}]
    BY <1>27 DEF StageFails
  <2>2. work[SlotOf(p)] \in WorkDir
    BY <2>1, OwnSlot
  <2>3. [work[SlotOf(p)] EXCEPT !.tmps = @ \ {p}].of = work[SlotOf(p)].of
    BY <2>2 DEF WorkDir
  <2>4. \A s \in Ident : work'[s].of = work[s].of
    BY <2>1, <2>3 DEF Slot
  <2>5. /\ UNCHANGED <<record, done, orphans, job, view>>
        /\ \A q \in Proc : pc[q] # "idle" => pc'[q] # "idle"
    BY <1>27 DEF StageFails
  <2> QED
    BY <2>1, <2>4, <2>5, OwnKept
<1>28. ASSUME NEW p \in Proc, NoScript(p)
      PROVE  OwnInv'
  BY <1>28, OwnKept, OwnSlot DEF NoScript, Adopted
<1>29. ASSUME NEW p \in Proc, Fork(p)
      PROVE  OwnInv'
  BY <1>29, OwnKept, OwnSlot DEF Fork, Begun, WorkDir
<1>30. ASSUME NEW p \in Proc, ForkFails(p)
      PROVE  OwnInv'
  BY <1>30, OwnKept, OwnSlot DEF ForkFails
<1>31. ASSUME NEW p \in Proc, ChildWrites(p)
      PROVE  OwnInv'
  <2>1. \A s \in Ident : work'[s].of = work[s].of
    BY <1>31, OwnSlot DEF ChildWrites, WorkDir, Slot
  <2> QED
    BY <1>31, <2>1, OwnKept DEF ChildWrites
<1>32. ASSUME NEW p \in Proc, ChildSucceeds(p)
      PROVE  OwnInv'
  <2>1. \A s \in Ident : work'[s].of = work[s].of
    BY <1>32, OwnSlot DEF ChildSucceeds, WorkDir, Slot
  <2> QED
    BY <1>32, <2>1, OwnKept DEF ChildSucceeds
<1>33. ASSUME NEW p \in Proc, ChildFails(p)
      PROVE  OwnInv'
  BY <1>33, OwnKept, OwnSlot DEF ChildFails
<1>34. ASSUME NEW p \in Proc, Interrupt(p)
      PROVE  OwnInv'
  BY <1>34, OwnKept, OwnSlot DEF Interrupt
<1>35. ASSUME NEW p \in Proc, Reap(p)
      PROVE  OwnInv'
  BY <1>35, OwnKept, OwnSlot DEF Reap
<1>36. ASSUME NEW p \in Proc, Reraise(p)
      PROVE  OwnInv'
  BY <1>36, OwnKept, OwnSlot DEF Reraise, Gone, Released, NoView
<1>37. ASSUME NEW p \in Proc, Save(p)
      PROVE  OwnInv'
  <2>1. /\ pc[p] # "idle" /\ UNCHANGED <<done, work, orphans, job, view>>
        /\ \A q \in Proc : pc[q] # "idle" => pc'[q] # "idle"
        /\ \A s \in Slot \ {SlotOf(p)} : record'[s] = record[s]
    BY <1>37 DEF Save
  <2>2. PICK m \in Mark \cup {NoMark} :
           record'[SlotOf(p)] = [ident |-> job[p].ident, lastCheck |-> view[p].now,
                                 mark |-> Stored[m]]
    BY <1>37, OwnSlot DEF Save, View
  <2>3. Stored[Stored[m]] = Stored[m]
    BY StoredAssumption
  <2>4. OwnRecords'
    BY <2>1, <2>2, <2>3, OwnSlot DEF OwnInv, OwnRecords, Slot
  <2>5. OwnViews'
    BY <2>1, <2>2, OwnSlot DEF OwnInv, OwnViews, SlotOf, Slot
  <2> QED
    BY <2>1, <2>4, <2>5 DEF OwnInv, OwnFiles
<1>38. ASSUME NEW p \in Proc, SaveFails(p)
      PROVE  OwnInv'
  BY <1>38, OwnKept, OwnSlot DEF SaveFails
<1>39. ASSUME NEW p \in Proc, Handover(p)
      PROVE  OwnInv'
  BY <1>39, OwnKept, OwnSlot DEF Handover, HandsOver
<1>40. ASSUME NEW p \in Proc, Leave(p)
      PROVE  OwnInv'
  BY <1>40, OwnKept, OwnSlot DEF Leave, Gone, NoView
<1>41. ASSUME NEW p \in Proc, Die(p)
      PROVE  OwnInv'
  <2>1. \A s \in Ident : \A t \in orphans'[s] :
           t \in orphans[s] \/ (s = SlotOf(p) /\ t = TagOf(p))
    BY <1>41, OwnSlot DEF Die, Slot
  <2>2. /\ UNCHANGED <<record, done, work>> /\ pc[p] # "idle"
        /\ \A q \in Proc \ {p} :
              pc'[q] = pc[q] /\ job'[q] = job[q] /\ view'[q] = view[q]
        /\ view'[p] = NoView
    BY <1>41 DEF Die, Gone
  <2> QED
    BY <2>1, <2>2, OwnKept DEF NoView
<1>42. ASSUME NEW s \in Source, Edit(s)
      PROVE  OwnInv'
  BY <1>42, OwnUntouched DEF Edit
<1>43. ASSUME NEW i \in Ident, RemoteChanges(i)
      PROVE  OwnInv'
  BY <1>43, OwnUntouched DEF RemoteChanges
<1>44. ASSUME NEW s \in Slot, OrphanWrites(s)
      PROVE  OwnInv'
  BY <1>44, OwnUntouched DEF OrphanWrites, Begun, WorkDir
<1>45. ASSUME NEW s \in Slot, OrphanEnds(s)
      PROVE  OwnInv'
  BY <1>45, OwnUntouched DEF OrphanEnds
<1>46. ASSUME NEW s \in Slot, WorkDirRemoved(s)
      PROVE  OwnInv'
  BY <1>46, OwnUntouched DEF WorkDirRemoved, EmptyDir
<1>47. CASE Tick
  BY <1>47, OwnUntouched DEF Tick
<1> QED
    BY <1>1, <1>2, <1>3, <1>4, <1>5, <1>6, <1>7, <1>8, <1>9, <1>10, <1>11,
     <1>12, <1>13, <1>14, <1>15, <1>16, <1>17, <1>18, <1>19, <1>20, <1>21,
     <1>22, <1>23, <1>24, <1>25, <1>26, <1>27, <1>28, <1>29, <1>30, <1>31,
     <1>32, <1>33, <1>34, <1>35, <1>36, <1>37, <1>38, <1>39, <1>40, <1>41,
     <1>42, <1>43, <1>44, <1>45, <1>46, <1>47
    DEF Next, Process, Advance, CallFails, ChildEnds, World

(* --check-only and --dry-run, short of "change nothing": such a run       *)
(* leaves the lock, the work directories and every other record alone, and *)
(* in its own renews the time of the last check and nothing else, with the *)
(* mark as it read it.                                                     *)
InspectionOnlyRenews ==
    \A p \in Proc : pc[p] # "idle" /\ pc'[p] # pc[p] /\ Inspected(p) =>
        /\ UNCHANGED <<lock, work, orphans, done>>
        /\ \A s \in Slot : record'[s] # record[s] =>
              /\ pc[p] = "touch" /\ s = SlotOf(p)
              /\ record'[s] = [ident |-> record[s].ident, lastCheck |-> view[p].now,
                               mark |-> view[p].mark]

(* A URL project embeds no files: its address is its identity.             *)
LEMMA UrlAddress ==
  ASSUME TypeOK, NEW p \in Proc, pc[p] # "idle", ConfOf(p).kind = "url"
  PROVE  SlotOf(p) = job[p].ident /\ SlotOf(p) \in Ident
<1>1. job[p] \in Job
  BY DEF TypeOK
<1>2. ~Conf[job[p].ident].files
  BY <1>1, ConfAssumption DEF ConfOf, Accepted, Job, Project
<1> QED
  BY <1>1, <1>2 DEF SlotOf, SlotAt, Job

(* No step of an inspecting run does more.                                 *)
LEMMA NextRenews ==
  Base /\ LookInv /\ OwnInv /\ [Next]_vars => InspectionOnlyRenews
<1> SUFFICES ASSUME Base, LookInv, OwnInv, [Next]_vars PROVE InspectionOnlyRenews
  OBVIOUS
<1> USE NamesAssumption
    DEF Base, TypeOK, ChildIsAwaited, envVars, cacheVars, localVars, Goto, GiveUp, PC,
        LookInv, Looking, InspectPCs, Inspected, InspectionOnlyRenews

<1>1. CASE UNCHANGED vars
  BY <1>1 DEF vars
<1>2. ASSUME NEW p \in Proc, Start(p)
      PROVE  InspectionOnlyRenews
  BY <1>2 DEF Start
<1>3. ASSUME NEW p \in Proc, Load(p)
      PROVE  InspectionOnlyRenews
  BY <1>3 DEF Load
<1>4. ASSUME NEW p \in Proc, LoadFails(p)
      PROVE  InspectionOnlyRenews
  BY <1>4 DEF LoadFails
<1>5. ASSUME NEW p \in Proc, Decide(p)
      PROVE  InspectionOnlyRenews
  BY <1>5 DEF Decide, ExecCheck
<1>6. ASSUME NEW p \in Proc, ExecCached(p)
      PROVE  InspectionOnlyRenews
  BY <1>6 DEF ExecCached
<1>7. ASSUME NEW p \in Proc, ProbeMissing(p)
      PROVE  InspectionOnlyRenews
  BY <1>7 DEF ProbeMissing
<1>8. ASSUME NEW p \in Proc, ProbePresent(p)
      PROVE  InspectionOnlyRenews
  BY <1>8 DEF ProbePresent
<1>9. ASSUME NEW p \in Proc, Acquire(p)
      PROVE  InspectionOnlyRenews
  BY <1>9 DEF Acquire, LockFree
<1>10. ASSUME NEW p \in Proc, LockFails(p)
      PROVE  InspectionOnlyRenews
  BY <1>10 DEF LockFails
<1>11. ASSUME NEW p \in Proc, Recheck(p)
      PROVE  InspectionOnlyRenews
  BY <1>11 DEF Recheck
<1>12. ASSUME NEW p \in Proc, Unlock(p)
      PROVE  InspectionOnlyRenews
  <2>1. (\A s \in Slot : lock[s] # p) => Released(p) = lock
    BY DEF Released
  <2> QED
    BY <1>12, <2>1 DEF Unlock, Gone
<1>13. ASSUME NEW p \in Proc, ReportDue(p)
      PROVE  InspectionOnlyRenews
  BY <1>13 DEF ReportDue
<1>14. ASSUME NEW p \in Proc, AdoptCommand(p)
      PROVE  InspectionOnlyRenews
  BY <1>14 DEF AdoptCommand, Adopted
<1>15. ASSUME NEW p \in Proc, BeginCommand(p)
      PROVE  InspectionOnlyRenews
  BY <1>15 DEF BeginCommand, FirstStep, Filled
<1>16. ASSUME NEW p \in Proc, CheckUrl(p)
      PROVE  InspectionOnlyRenews
  BY <1>16 DEF CheckUrl
<1>17. ASSUME NEW p \in Proc, CheckFails(p)
      PROVE  InspectionOnlyRenews
  BY <1>17 DEF CheckFails
<1>18. ASSUME NEW p \in Proc, Unchanged(p)
      PROVE  InspectionOnlyRenews
  BY <1>18 DEF Unchanged, Changed
<1>19. ASSUME NEW p \in Proc, ReportChanged(p)
      PROVE  InspectionOnlyRenews
  BY <1>19 DEF ReportChanged
<1>20. ASSUME NEW p \in Proc, AdoptUrl(p)
      PROVE  InspectionOnlyRenews
  BY <1>20 DEF AdoptUrl, Adopted
<1>21. ASSUME NEW p \in Proc, BeginInstall(p)
      PROVE  InspectionOnlyRenews
  BY <1>21 DEF BeginInstall
<1>22. ASSUME NEW p \in Proc, BeginReset(p)
      PROVE  InspectionOnlyRenews
  BY <1>22 DEF BeginReset
<1>23. ASSUME NEW p \in Proc, EndReset(p)
      PROVE  InspectionOnlyRenews
  BY <1>23 DEF EndReset, Filled
<1>24. ASSUME NEW p \in Proc, ResetFails(p)
      PROVE  InspectionOnlyRenews
  BY <1>24 DEF ResetFails
<1>25. ASSUME NEW p \in Proc, StageFile(p)
      PROVE  InspectionOnlyRenews
  BY <1>25 DEF StageFile
<1>26. ASSUME NEW p \in Proc, RenameFile(p)
      PROVE  InspectionOnlyRenews
  BY <1>26 DEF RenameFile
<1>27. ASSUME NEW p \in Proc, StageFails(p)
      PROVE  InspectionOnlyRenews
  BY <1>27 DEF StageFails
<1>28. ASSUME NEW p \in Proc, NoScript(p)
      PROVE  InspectionOnlyRenews
  BY <1>28 DEF NoScript, Adopted
<1>29. ASSUME NEW p \in Proc, Fork(p)
      PROVE  InspectionOnlyRenews
  BY <1>29 DEF Fork
<1>30. ASSUME NEW p \in Proc, ForkFails(p)
      PROVE  InspectionOnlyRenews
  BY <1>30 DEF ForkFails
<1>31. ASSUME NEW p \in Proc, ChildWrites(p)
      PROVE  InspectionOnlyRenews
  BY <1>31 DEF ChildWrites
<1>32. ASSUME NEW p \in Proc, ChildSucceeds(p)
      PROVE  InspectionOnlyRenews
  BY <1>32 DEF ChildSucceeds
<1>33. ASSUME NEW p \in Proc, ChildFails(p)
      PROVE  InspectionOnlyRenews
  BY <1>33 DEF ChildFails
<1>34. ASSUME NEW p \in Proc, Interrupt(p)
      PROVE  InspectionOnlyRenews
  BY <1>34 DEF Interrupt
<1>35. ASSUME NEW p \in Proc, Reap(p)
      PROVE  InspectionOnlyRenews
  BY <1>35 DEF Reap
<1>36. ASSUME NEW p \in Proc, Reraise(p)
      PROVE  InspectionOnlyRenews
  <2>1. (\A s \in Slot : lock[s] # p) => Released(p) = lock
    BY DEF Released
  <2> QED
    BY <1>36, <2>1 DEF Reraise, Gone
<1>37. ASSUME NEW p \in Proc, Save(p)
      PROVE  InspectionOnlyRenews
  <2>1. \A q \in Proc \ {p} : pc'[q] = pc[q]
    BY <1>37 DEF Save
  <2>2. CASE ~Inspected(p)
    BY <2>2, <2>1
  <2>3. CASE Inspected(p)
    <3>1. /\ pc[p] = "touch" /\ ConfOf(p).kind = "url"
          /\ view[p].known /\ view[p].mark = seen[p]
      BY <1>37, <2>3 DEF Save
    <3>2. record[SlotOf(p)].ident = job[p].ident /\ Stored[view[p].mark] = view[p].mark
      BY <3>1, UrlAddress DEF OwnInv, OwnViews
    <3>3. /\ UNCHANGED <<lock, work, orphans, done>>
          /\ record' = [record EXCEPT ![SlotOf(p)] =
                           [ident |-> record[SlotOf(p)].ident,
                            lastCheck |-> view[p].now, mark |-> view[p].mark]]
      BY <1>37, <3>1, <3>2 DEF Save
    <3> QED
      BY <2>1, <3>1, <3>3, UrlAddress DEF Slot
  <2> QED
    BY <2>2, <2>3
<1>38. ASSUME NEW p \in Proc, SaveFails(p)
      PROVE  InspectionOnlyRenews
  BY <1>38 DEF SaveFails
<1>39. ASSUME NEW p \in Proc, Handover(p)
      PROVE  InspectionOnlyRenews
  BY <1>39 DEF Handover, HandsOver
<1>40. ASSUME NEW p \in Proc, Leave(p)
      PROVE  InspectionOnlyRenews
  BY <1>40 DEF Leave, Gone
<1>41. ASSUME NEW p \in Proc, Die(p)
      PROVE  InspectionOnlyRenews
  <2>1. (\A s \in Slot : lock[s] # p) => Released(p) = lock
    BY DEF Released
  <2>2. child[p] # "running" => orphans' = orphans
    BY <1>41 DEF Die
  <2> QED
    BY <1>41, <2>1, <2>2 DEF Die, Gone
<1>42. ASSUME NEW s \in Source, Edit(s)
      PROVE  InspectionOnlyRenews
  BY <1>42 DEF Edit
<1>43. ASSUME NEW i \in Ident, RemoteChanges(i)
      PROVE  InspectionOnlyRenews
  BY <1>43 DEF RemoteChanges
<1>44. ASSUME NEW s \in Slot, OrphanWrites(s)
      PROVE  InspectionOnlyRenews
  BY <1>44 DEF OrphanWrites
<1>45. ASSUME NEW s \in Slot, OrphanEnds(s)
      PROVE  InspectionOnlyRenews
  BY <1>45 DEF OrphanEnds
<1>46. ASSUME NEW s \in Slot, WorkDirRemoved(s)
      PROVE  InspectionOnlyRenews
  BY <1>46 DEF WorkDirRemoved
<1>47. CASE Tick
  BY <1>47 DEF Tick
<1> QED
    BY <1>1, <1>2, <1>3, <1>4, <1>5, <1>6, <1>7, <1>8, <1>9, <1>10, <1>11,
     <1>12, <1>13, <1>14, <1>15, <1>16, <1>17, <1>18, <1>19, <1>20, <1>21,
     <1>22, <1>23, <1>24, <1>25, <1>26, <1>27, <1>28, <1>29, <1>30, <1>31,
     <1>32, <1>33, <1>34, <1>35, <1>36, <1>37, <1>38, <1>39, <1>40, <1>41,
     <1>42, <1>43, <1>44, <1>45, <1>46, <1>47
    DEF Next, Process, Advance, CallFails, ChildEnds, World

(* --dry-run changes more than it says in this one way only.               *)
THEOREM InspectionsOnlyRenew == Spec => [][InspectionOnlyRenews]_vars
<1>1. Spec => [](Base /\ LockInv /\ LookInv)
  BY LockHolds, InitLook, NextLook, PTL DEF Spec
<1>2. Spec => [](Base /\ OwnInv)
  BY BaseHolds, InitOwn, NextOwn, PTL DEF Spec
<1> QED
  BY <1>1, <1>2, NextRenews, PTL DEF Spec

(* A cached program that is handed over comes from setups of the same      *)
(* content, and any setup still writing there is of it, but for embedded   *)
(* projects that are addressed by their input path.                        *)
ProgramIsOwn ==
    \A p \in Proc : pc[p] = "program" /\ SlotOf(p) # job[p].src =>
        \A t \in work[SlotOf(p)].of \cup orphans[SlotOf(p)] : t.ident = job[p].ident


(* This holds of every run, from the start to its program.                 *)
LEMMA OwnProgram == Base /\ OwnInv => ProgramIsOwn
<1> SUFFICES ASSUME Base, OwnInv,
                    NEW p \in Proc, pc[p] = "program", SlotOf(p) # job[p].src
             PROVE  \A t \in work[SlotOf(p)].of \cup orphans[SlotOf(p)] :
                       t.ident = job[p].ident
  BY DEF ProgramIsOwn
<1>1. SlotOf(p) = job[p].ident /\ job[p].ident \in Ident
  BY OwnSlot DEF Base, SlotOf, SlotAt
<1> QED
  BY <1>1 DEF OwnInv, OwnFiles

(* Stale setups are an affair of embedded projects at an input path.       *)
THEOREM ProgramsAreOwn == Spec => []ProgramIsOwn
<1>1. Spec => [](Base /\ OwnInv)
  BY BaseHolds, InitOwn, NextOwn, PTL DEF Spec
<1> QED
  BY <1>1, OwnProgram, PTL

(* "The next run tries again, whatever the schedule says", as far as it is *)
(* so: a run is skipped only over a completed setup of the same content,   *)
(* whose record is recent or does not age, or where nothing is scheduled.  *)
SkipReason(p) ==
    /\ ~job[p].force /\ ConfOf(p).sched # "always"
    /\ \/ /\ view[p].known /\ SetUp(p)
          /\ \/ ConfOf(p).sched = "never"
             \/ ConfOf(p).files /\ ~ConfOf(p).explicit
             \/ Recent(ConfOf(p), view[p].lastCheck, clock)
       \/ ~ConfOf(p).files /\ ConfOf(p).sched = "never"
SkippedWithReason ==
    \A p \in Proc : pc[p] = "decide" /\ pc'[p] \in {"exec", "finish"} => SkipReason(p)

(* What is_due() lets pass, with the record as it was read.                *)
LEMMA NotDueReasons ==
  ASSUME Base, EarnedInv, NEW p \in Proc, pc[p] # "idle",
         NEW probe \in BOOLEAN, ~DueNow(p, probe)
  PROVE  SkipReason(p)
<1>1. ConfOf(p) \in Project /\ Accepted(ConfOf(p))
  BY SlotType, ConfAssumption DEF Base, ConfOf, Job
<1>2. /\ ~job[p].force /\ (ConfOf(p).files => view[p].known)
      /\ (ConfOf(p).files => ConfOf(p).explicit)
            => ~TimeIsUp(ConfOf(p), view[p].lastCheck, clock)
  BY DEF DueNow, IsDue
<1>3. /\ view[p].known => SetUp(p)
      /\ ~view[p].known => view[p].lastCheck = 0
  BY DEF EarnedInv
<1>4. CASE ConfOf(p).files /\ ~ConfOf(p).explicit
  BY <1>1, <1>2, <1>3, <1>4 DEF Accepted, SkipReason
<1>5. CASE ConfOf(p).files => ConfOf(p).explicit
  <2>1. /\ ConfOf(p).sched # "always"
        /\ ConfOf(p).sched = "every" => Recent(ConfOf(p), view[p].lastCheck, clock)
    BY <1>2, <1>5 DEF TimeIsUp
  <2>2. ConfOf(p).sched \in {"every", "never"}
    BY <1>1, <2>1 DEF Project, SchedKind
  <2>3. ~view[p].known => ~Recent(ConfOf(p), view[p].lastCheck, clock)
    BY <1>3 DEF Recent
  <2> QED
    BY <1>2, <1>3, <2>1, <2>2, <2>3 DEF SkipReason
<1> QED
  BY <1>4, <1>5

(* Only the first is_due() skips a run.                                    *)
LEMMA NextSkips == Base /\ EarnedInv /\ [Next]_vars => SkippedWithReason
<1> SUFFICES ASSUME Base, EarnedInv, [Next]_vars PROVE SkippedWithReason
  OBVIOUS
<1> USE NamesAssumption
    DEF Base, TypeOK, ChildIsAwaited, envVars, cacheVars, localVars, Goto, GiveUp, PC,
        SkippedWithReason
<1>1. CASE UNCHANGED vars
  BY <1>1 DEF vars
<1>2. ASSUME NEW p \in Proc, Start(p)
      PROVE  SkippedWithReason
  BY <1>2 DEF Start
<1>3. ASSUME NEW p \in Proc, Load(p)
      PROVE  SkippedWithReason
  BY <1>3 DEF Load
<1>4. ASSUME NEW p \in Proc, LoadFails(p)
      PROVE  SkippedWithReason
  BY <1>4 DEF LoadFails
<1>5. ASSUME NEW p \in Proc, Decide(p)
      PROVE  SkippedWithReason
  <2>1. ASSUME pc'[p] \in {"exec", "finish"}
        PROVE  SkipReason(p)
    <3>1. pc'[p] = IF DueNow(p, ~ExecCheck(p))
                   THEN IF job[p].mode = "inspect" THEN "due" ELSE "lock"
                   ELSE IF ExecCheck(p) THEN "exec" ELSE "finish"
      BY <1>5 DEF Decide
    <3>2. (~ExecCheck(p)) \in BOOLEAN
      BY DEF ExecCheck
    <3>3. ~DueNow(p, ~ExecCheck(p)) /\ pc[p] # "idle"
      BY <1>5, <2>1, <3>1 DEF Decide
    <3> QED
      BY <3>2, <3>3, NotDueReasons
  <2>2. \A q \in Proc \ {p} : pc'[q] = pc[q]
    BY <1>5 DEF Decide
  <2> QED
    BY <2>1, <2>2
<1>6. ASSUME NEW p \in Proc, ExecCached(p)
      PROVE  SkippedWithReason
  BY <1>6 DEF ExecCached
<1>7. ASSUME NEW p \in Proc, ProbeMissing(p)
      PROVE  SkippedWithReason
  BY <1>7 DEF ProbeMissing
<1>8. ASSUME NEW p \in Proc, ProbePresent(p)
      PROVE  SkippedWithReason
  BY <1>8 DEF ProbePresent
<1>9. ASSUME NEW p \in Proc, Acquire(p)
      PROVE  SkippedWithReason
  BY <1>9 DEF Acquire, LockFree
<1>10. ASSUME NEW p \in Proc, LockFails(p)
      PROVE  SkippedWithReason
  BY <1>10 DEF LockFails
<1>11. ASSUME NEW p \in Proc, Recheck(p)
      PROVE  SkippedWithReason
  BY <1>11 DEF Recheck
<1>12. ASSUME NEW p \in Proc, Unlock(p)
      PROVE  SkippedWithReason
  BY <1>12 DEF Unlock, Released
<1>13. ASSUME NEW p \in Proc, ReportDue(p)
      PROVE  SkippedWithReason
  BY <1>13 DEF ReportDue
<1>14. ASSUME NEW p \in Proc, AdoptCommand(p)
      PROVE  SkippedWithReason
  BY <1>14 DEF AdoptCommand, Adopted
<1>15. ASSUME NEW p \in Proc, BeginCommand(p)
      PROVE  SkippedWithReason
  BY <1>15 DEF BeginCommand, FirstStep, Filled
<1>16. ASSUME NEW p \in Proc, CheckUrl(p)
      PROVE  SkippedWithReason
  BY <1>16 DEF CheckUrl
<1>17. ASSUME NEW p \in Proc, CheckFails(p)
      PROVE  SkippedWithReason
  BY <1>17 DEF CheckFails
<1>18. ASSUME NEW p \in Proc, Unchanged(p)
      PROVE  SkippedWithReason
  BY <1>18 DEF Unchanged, Changed
<1>19. ASSUME NEW p \in Proc, ReportChanged(p)
      PROVE  SkippedWithReason
  BY <1>19 DEF ReportChanged
<1>20. ASSUME NEW p \in Proc, AdoptUrl(p)
      PROVE  SkippedWithReason
  BY <1>20 DEF AdoptUrl, Adopted
<1>21. ASSUME NEW p \in Proc, BeginInstall(p)
      PROVE  SkippedWithReason
  BY <1>21 DEF BeginInstall
<1>22. ASSUME NEW p \in Proc, BeginReset(p)
      PROVE  SkippedWithReason
  BY <1>22 DEF BeginReset
<1>23. ASSUME NEW p \in Proc, EndReset(p)
      PROVE  SkippedWithReason
  BY <1>23 DEF EndReset, Filled
<1>24. ASSUME NEW p \in Proc, ResetFails(p)
      PROVE  SkippedWithReason
  BY <1>24 DEF ResetFails
<1>25. ASSUME NEW p \in Proc, StageFile(p)
      PROVE  SkippedWithReason
  BY <1>25 DEF StageFile
<1>26. ASSUME NEW p \in Proc, RenameFile(p)
      PROVE  SkippedWithReason
  BY <1>26 DEF RenameFile
<1>27. ASSUME NEW p \in Proc, StageFails(p)
      PROVE  SkippedWithReason
  BY <1>27 DEF StageFails
<1>28. ASSUME NEW p \in Proc, NoScript(p)
      PROVE  SkippedWithReason
  BY <1>28 DEF NoScript, Adopted
<1>29. ASSUME NEW p \in Proc, Fork(p)
      PROVE  SkippedWithReason
  BY <1>29 DEF Fork
<1>30. ASSUME NEW p \in Proc, ForkFails(p)
      PROVE  SkippedWithReason
  BY <1>30 DEF ForkFails
<1>31. ASSUME NEW p \in Proc, ChildWrites(p)
      PROVE  SkippedWithReason
  BY <1>31 DEF ChildWrites
<1>32. ASSUME NEW p \in Proc, ChildSucceeds(p)
      PROVE  SkippedWithReason
  BY <1>32 DEF ChildSucceeds
<1>33. ASSUME NEW p \in Proc, ChildFails(p)
      PROVE  SkippedWithReason
  BY <1>33 DEF ChildFails
<1>34. ASSUME NEW p \in Proc, Interrupt(p)
      PROVE  SkippedWithReason
  BY <1>34 DEF Interrupt
<1>35. ASSUME NEW p \in Proc, Reap(p)
      PROVE  SkippedWithReason
  BY <1>35 DEF Reap
<1>36. ASSUME NEW p \in Proc, Reraise(p)
      PROVE  SkippedWithReason
  BY <1>36 DEF Reraise, Gone, Released
<1>37. ASSUME NEW p \in Proc, Save(p)
      PROVE  SkippedWithReason
  BY <1>37 DEF Save
<1>38. ASSUME NEW p \in Proc, SaveFails(p)
      PROVE  SkippedWithReason
  BY <1>38 DEF SaveFails
<1>39. ASSUME NEW p \in Proc, Handover(p)
      PROVE  SkippedWithReason
  BY <1>39 DEF Handover, HandsOver
<1>40. ASSUME NEW p \in Proc, Leave(p)
      PROVE  SkippedWithReason
  BY <1>40 DEF Leave, Gone
<1>41. ASSUME NEW p \in Proc, Die(p)
      PROVE  SkippedWithReason
  BY <1>41 DEF Die, Gone, Released
<1>42. ASSUME NEW s \in Source, Edit(s)
      PROVE  SkippedWithReason
  BY <1>42 DEF Edit
<1>43. ASSUME NEW i \in Ident, RemoteChanges(i)
      PROVE  SkippedWithReason
  BY <1>43 DEF RemoteChanges
<1>44. ASSUME NEW s \in Slot, OrphanWrites(s)
      PROVE  SkippedWithReason
  BY <1>44 DEF OrphanWrites
<1>45. ASSUME NEW s \in Slot, OrphanEnds(s)
      PROVE  SkippedWithReason
  BY <1>45 DEF OrphanEnds
<1>46. ASSUME NEW s \in Slot, WorkDirRemoved(s)
      PROVE  SkippedWithReason
  BY <1>46 DEF WorkDirRemoved
<1>47. CASE Tick
  BY <1>47 DEF Tick
<1> QED
    BY <1>1, <1>2, <1>3, <1>4, <1>5, <1>6, <1>7, <1>8, <1>9, <1>10, <1>11,
     <1>12, <1>13, <1>14, <1>15, <1>16, <1>17, <1>18, <1>19, <1>20, <1>21,
     <1>22, <1>23, <1>24, <1>25, <1>26, <1>27, <1>28, <1>29, <1>30, <1>31,
     <1>32, <1>33, <1>34, <1>35, <1>36, <1>37, <1>38, <1>39, <1>40, <1>41,
     <1>42, <1>43, <1>44, <1>45, <1>46, <1>47
    DEF Next, Process, Advance, CallFails, ChildEnds, World

(* A first setup that failed is tried again by the next run, whatever the  *)
(* schedule says; a later one only when its time has come.                 *)
THEOREM SkipsHaveReasons == Spec => [][SkippedWithReason]_vars
  BY EarnedHolds, NextSkips, PTL DEF Spec

-----------------------------------------------------------------------------
(* What EveryRunEnds rests on, short of fairness: a run's steps are few,   *)
(* and one of them can be taken.                                           *)

(* How far a run is: nothing in main.c leads back.                         *)
Progress ==
    [idle |-> 0, load |-> 1, decide |-> 2, exec |-> 3, probe |-> 4, lock |-> 5,
     reload |-> 6, recheck |-> 7, due |-> 8, compare |-> 9, reset |-> 10,
     removing |-> 11, stage |-> 12, rename |-> 13, fork |-> 14, wait |-> 15,
     commit |-> 16, touch |-> 16, unlock |-> 17, finish |-> 18, program |-> 19]

(* A run gets further with every step, whatever the others do meanwhile,   *)
(* or ends; and while it waits its setup can end, once.                    *)
GoesForward ==
    \A p \in Proc : pc[p] # "idle" =>
        \/ pc'[p] = "idle"
        \/ Progress[pc[p]] < Progress[pc'[p]]
        \/ /\ pc'[p] = pc[p]
           /\ child'[p] # child[p] => child[p] = "running" /\ child'[p] # "none"

(* Each step of a run leads forward or ends it; other steps leave it.      *)
LEMMA NextForward == Base /\ [Next]_vars => GoesForward
<1> SUFFICES ASSUME Base, [Next]_vars PROVE GoesForward
  OBVIOUS
<1> USE NamesAssumption
    DEF Base, TypeOK, ChildIsAwaited, envVars, cacheVars, localVars, Goto, GiveUp, PC,
        GoesForward, Progress

<1>1. CASE UNCHANGED vars
  BY <1>1 DEF vars
<1>2. ASSUME NEW p \in Proc, Start(p)
      PROVE  GoesForward
  BY <1>2 DEF Start
<1>3. ASSUME NEW p \in Proc, Load(p)
      PROVE  GoesForward
  BY <1>3 DEF Load
<1>4. ASSUME NEW p \in Proc, LoadFails(p)
      PROVE  GoesForward
  BY <1>4 DEF LoadFails
<1>5. ASSUME NEW p \in Proc, Decide(p)
      PROVE  GoesForward
  BY <1>5 DEF Decide, ExecCheck
<1>6. ASSUME NEW p \in Proc, ExecCached(p)
      PROVE  GoesForward
  BY <1>6 DEF ExecCached
<1>7. ASSUME NEW p \in Proc, ProbeMissing(p)
      PROVE  GoesForward
  BY <1>7 DEF ProbeMissing
<1>8. ASSUME NEW p \in Proc, ProbePresent(p)
      PROVE  GoesForward
  BY <1>8 DEF ProbePresent
<1>9. ASSUME NEW p \in Proc, Acquire(p)
      PROVE  GoesForward
  BY <1>9 DEF Acquire, LockFree
<1>10. ASSUME NEW p \in Proc, LockFails(p)
      PROVE  GoesForward
  BY <1>10 DEF LockFails
<1>11. ASSUME NEW p \in Proc, Recheck(p)
      PROVE  GoesForward
  <2>1. /\ pc[p] = "recheck" /\ UNCHANGED child
        /\ \/ pc' = [pc EXCEPT ![p] = "due"]
           \/ pc' = [pc EXCEPT ![p] = "unlock"]
    BY <1>11 DEF Recheck
  <2> QED
    BY <2>1
<1>12. ASSUME NEW p \in Proc, Unlock(p)
      PROVE  GoesForward
  BY <1>12 DEF Unlock, Released
<1>13. ASSUME NEW p \in Proc, ReportDue(p)
      PROVE  GoesForward
  BY <1>13 DEF ReportDue
<1>14. ASSUME NEW p \in Proc, AdoptCommand(p)
      PROVE  GoesForward
  BY <1>14 DEF AdoptCommand, Adopted
<1>15. ASSUME NEW p \in Proc, BeginCommand(p)
      PROVE  GoesForward
  BY <1>15 DEF BeginCommand, FirstStep, Filled
<1>16. ASSUME NEW p \in Proc, CheckUrl(p)
      PROVE  GoesForward
  BY <1>16 DEF CheckUrl
<1>17. ASSUME NEW p \in Proc, CheckFails(p)
      PROVE  GoesForward
  BY <1>17 DEF CheckFails
<1>18. ASSUME NEW p \in Proc, Unchanged(p)
      PROVE  GoesForward
  BY <1>18 DEF Unchanged, Changed
<1>19. ASSUME NEW p \in Proc, ReportChanged(p)
      PROVE  GoesForward
  BY <1>19 DEF ReportChanged
<1>20. ASSUME NEW p \in Proc, AdoptUrl(p)
      PROVE  GoesForward
  BY <1>20 DEF AdoptUrl, Adopted
<1>21. ASSUME NEW p \in Proc, BeginInstall(p)
      PROVE  GoesForward
  BY <1>21 DEF BeginInstall
<1>22. ASSUME NEW p \in Proc, BeginReset(p)
      PROVE  GoesForward
  BY <1>22 DEF BeginReset
<1>23. ASSUME NEW p \in Proc, EndReset(p)
      PROVE  GoesForward
  BY <1>23 DEF EndReset, Filled
<1>24. ASSUME NEW p \in Proc, ResetFails(p)
      PROVE  GoesForward
  BY <1>24 DEF ResetFails
<1>25. ASSUME NEW p \in Proc, StageFile(p)
      PROVE  GoesForward
  BY <1>25 DEF StageFile
<1>26. ASSUME NEW p \in Proc, RenameFile(p)
      PROVE  GoesForward
  BY <1>26 DEF RenameFile
<1>27. ASSUME NEW p \in Proc, StageFails(p)
      PROVE  GoesForward
  BY <1>27 DEF StageFails
<1>28. ASSUME NEW p \in Proc, NoScript(p)
      PROVE  GoesForward
  BY <1>28 DEF NoScript, Adopted
<1>29. ASSUME NEW p \in Proc, Fork(p)
      PROVE  GoesForward
  BY <1>29 DEF Fork
<1>30. ASSUME NEW p \in Proc, ForkFails(p)
      PROVE  GoesForward
  BY <1>30 DEF ForkFails
<1>31. ASSUME NEW p \in Proc, ChildWrites(p)
      PROVE  GoesForward
  BY <1>31 DEF ChildWrites
<1>32. ASSUME NEW p \in Proc, ChildSucceeds(p)
      PROVE  GoesForward
  BY <1>32 DEF ChildSucceeds
<1>33. ASSUME NEW p \in Proc, ChildFails(p)
      PROVE  GoesForward
  BY <1>33 DEF ChildFails
<1>34. ASSUME NEW p \in Proc, Interrupt(p)
      PROVE  GoesForward
  BY <1>34 DEF Interrupt
<1>35. ASSUME NEW p \in Proc, Reap(p)
      PROVE  GoesForward
  BY <1>35 DEF Reap
<1>36. ASSUME NEW p \in Proc, Reraise(p)
      PROVE  GoesForward
  BY <1>36 DEF Reraise, Gone, Released
<1>37. ASSUME NEW p \in Proc, Save(p)
      PROVE  GoesForward
  BY <1>37 DEF Save
<1>38. ASSUME NEW p \in Proc, SaveFails(p)
      PROVE  GoesForward
  BY <1>38 DEF SaveFails
<1>39. ASSUME NEW p \in Proc, Handover(p)
      PROVE  GoesForward
  BY <1>39 DEF Handover, HandsOver
<1>40. ASSUME NEW p \in Proc, Leave(p)
      PROVE  GoesForward
  BY <1>40 DEF Leave, Gone
<1>41. ASSUME NEW p \in Proc, Die(p)
      PROVE  GoesForward
  BY <1>41 DEF Die, Gone, Released
<1>42. ASSUME NEW s \in Source, Edit(s)
      PROVE  GoesForward
  BY <1>42 DEF Edit
<1>43. ASSUME NEW i \in Ident, RemoteChanges(i)
      PROVE  GoesForward
  BY <1>43 DEF RemoteChanges
<1>44. ASSUME NEW s \in Slot, OrphanWrites(s)
      PROVE  GoesForward
  BY <1>44 DEF OrphanWrites
<1>45. ASSUME NEW s \in Slot, OrphanEnds(s)
      PROVE  GoesForward
  BY <1>45 DEF OrphanEnds
<1>46. ASSUME NEW s \in Slot, WorkDirRemoved(s)
      PROVE  GoesForward
  BY <1>46 DEF WorkDirRemoved
<1>47. CASE Tick
  BY <1>47 DEF Tick
<1> QED
    BY <1>1, <1>2, <1>3, <1>4, <1>5, <1>6, <1>7, <1>8, <1>9, <1>10, <1>11,
     <1>12, <1>13, <1>14, <1>15, <1>16, <1>17, <1>18, <1>19, <1>20, <1>21,
     <1>22, <1>23, <1>24, <1>25, <1>26, <1>27, <1>28, <1>29, <1>30, <1>31,
     <1>32, <1>33, <1>34, <1>35, <1>36, <1>37, <1>38, <1>39, <1>40, <1>41,
     <1>42, <1>43, <1>44, <1>45, <1>46, <1>47
    DEF Next, Process, Advance, CallFails, ChildEnds, World

(* No run goes back: at most nineteen steps of main.c, in any interleaving *)
(* and with any faults, and it has ended or is its program.                *)
THEOREM RunsGoForward == Spec => [][GoesForward]_vars
  BY BaseHolds, NextForward, PTL DEF Spec

(* The guards of Advance, Acquire and ChildEnds, taken together: there is  *)
(* something p does next, or its setup does for it.                        *)
CanGo(p) ==
    \/ pc[p] \in {"load", "decide", "exec", "probe", "reload", "recheck", "reset",
                  "removing", "stage", "rename", "fork", "commit", "touch", "unlock",
                  "finish", "program"}
    \/ pc[p] = "lock" /\ LockFree(SlotOf(p))
    \/ pc[p] = "due" /\ ConfOf(p).kind = "url"
    \/ pc[p] = "due" /\ ConfOf(p).kind = "command"
          /\ job[p].mode \in {"run", "inspect", "adopt"}
    \/ pc[p] = "compare" /\ (Changed(p) => job[p].mode \in {"run", "inspect", "adopt"})
    \/ pc[p] = "wait" /\ child[p] \in {"running", "ok", "failed"}

(* A run that cannot go on waits for the lock, and who holds it can: a     *)
(* lock is never left behind, or held by one who waits for a lock.         *)
NobodyIsStuck ==
    \A p \in Proc : pc[p] # "idle" =>
        \/ CanGo(p)
        \/ /\ pc[p] = "lock"
           /\ lock[SlotOf(p)] \in Proc \ {p} /\ pc[lock[SlotOf(p)]] # "idle"
           /\ CanGo(lock[SlotOf(p)])

(* Who is past the lock has the rest of its way free.                      *)
LEMMA CanGoOn ==
  ASSUME Base, LookInv, NEW p \in Proc, pc[p] \notin {"idle", "lock"}
  PROVE  CanGo(p)
  BY SlotType DEF Base, TypeOK, LookInv, CanGo, PC, Job, Project

(* So has whoever holds a lock.                                            *)
LEMMA NoneStuck == Base /\ LockInv /\ LookInv => NobodyIsStuck
<1> SUFFICES ASSUME Base, LockInv, LookInv, NEW p \in Proc, pc[p] # "idle", ~CanGo(p)
             PROVE  /\ pc[p] = "lock"
                    /\ lock[SlotOf(p)] \in Proc \ {p} /\ pc[lock[SlotOf(p)]] # "idle"
                    /\ CanGo(lock[SlotOf(p)])
  BY DEF NobodyIsStuck
<1>1. pc[p] = "lock" /\ lock[SlotOf(p)] # Nobody
  BY CanGoOn DEF CanGo, LockFree
<1>2. lock[SlotOf(p)] \in Proc /\ SlotOf(p) \in Slot
  BY <1>1, SlotType DEF Base, TypeOK
<1>3. pc[lock[SlotOf(p)]] \notin {"idle", "lock"}
  BY <1>1, <1>2 DEF LockInv, LockDiscipline, DecidedPCs
<1> QED
  BY <1>1, <1>2, <1>3, CanGoOn

(* However many runs share a cache, there is always one that goes on.      *)
THEOREM RunsAreNeverStuck == Spec => []NobodyIsStuck
<1>1. Spec => [](Base /\ LockInv /\ LookInv)
  BY LockHolds, InitLook, NextLook, PTL DEF Spec
<1> QED
  BY <1>1, NoneStuck, PTL

=============================================================================
