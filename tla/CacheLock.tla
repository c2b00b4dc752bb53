----------------------------- MODULE CacheLock ------------------------------
(***************************************************************************)
(* The inside of hm_cache_lock() (cache.c): the fcntl() calls on a slot's  *)
(* lock file and the walk up the process tree that keeps a setup from      *)
(* waiting for the very hacman that waits for it.                          *)
(*                                                                         *)
(* Setups run other hacman-managed tools, so processes form a tree; the    *)
(* shells between two hacman processes are left out of it.  A process dies *)
(* at any time, its id is used again, its children then belong to init.    *)
(***************************************************************************)
EXTENDS Naturals

CONSTANTS
    Proc, Slot,
    Calls,      \* <<s, t>>: the setup of s may run the project of t
    Tops,       \* slots of the projects that are run from outside
    MaxWalk,    \* the bound of is_ancestor()'s walk (256 in the code)
    Deaths,     \* BOOLEAN: whether processes are killed
    Recycling,  \* BOOLEAN: whether an id is used again while a walk that
                \* stands on it, or looks for it, is under way
    Nobody, Root

ASSUME LockAssumption ==
    /\ Nobody \notin Proc /\ Root \notin Proc /\ Nobody # Root
    /\ Calls \subseteq Slot \X Slot
    /\ Tops \subseteq Slot
    /\ MaxWalk \in Nat
    /\ Deaths \in BOOLEAN /\ Recycling \in BOOLEAN

VARIABLES
    holder,     \* the owner of the write lock on each slot's lock file
    at,         \* where each process is
    slot,       \* the slot it is about
    up,         \* its parent process
    who,        \* the owner F_GETLK named
    cur, depth, \* the walk of is_ancestor()
    reentrant   \* history: an ancestor held the slot's lock at the start

vars == <<holder, at, slot, up, who, cur, depth, reentrant>>

At == {"idle", "setlk", "getlk", "walk", "setlkw", "held", "setup", "refused"}

Init ==
    /\ holder = [s \in Slot |-> Nobody]
    /\ at = [p \in Proc |-> "idle"]
    /\ slot = [p \in Proc |-> Nobody]
    /\ up = [p \in Proc |-> Root]
    /\ who = [p \in Proc |-> Nobody]
    /\ cur = [p \in Proc |-> Root]
    /\ depth = [p \in Proc |-> 0]
    /\ reentrant = [p \in Proc |-> FALSE]

(* A process and those above it: what is in every set that holds p and,    *)
(* with a process, its parent.                                             *)
Upward(S) == \A q \in S \ {Root} : up[q] \in S
Ancestry(p) ==
    {q \in Proc : \A S \in SUBSET (Proc \cup {Root}) : p \in S /\ Upward(S) => q \in S}

Begin(p, s, parent) ==
    /\ at[p] = "idle"
    /\ Recycling \/ \A q \in Proc : at[q] = "walk" => p \notin {cur[q], who[q]}
    /\ at' = [at EXCEPT ![p] = "setlk"]
    /\ slot' = [slot EXCEPT ![p] = s]
    /\ up' = [up EXCEPT ![p] = parent]
    /\ reentrant' = [reentrant EXCEPT ![p] = holder[s] \in Ancestry(parent)]
    /\ UNCHANGED <<holder, who, cur, depth>>

Launch(p) == \E s \in Tops : Begin(p, s, Root)

Nest(p) ==
    \E q \in Proc :
        /\ at[q] = "setup"
        /\ \A r \in Proc : at[r] # "idle" => up[r] # q
        /\ \E s \in Slot : <<slot[q], s>> \in Calls /\ Begin(p, s, q)

(* fcntl(F_SETLK): the uncontended case probes nothing.                    *)
SetLk(p) ==
    /\ at[p] = "setlk"
    /\ IF holder[slot[p]] = Nobody
       THEN /\ holder' = [holder EXCEPT ![slot[p]] = p]
            /\ at' = [at EXCEPT ![p] = "held"]
       ELSE /\ at' = [at EXCEPT ![p] = "getlk"]
            /\ UNCHANGED holder
    /\ UNCHANGED <<slot, up, who, cur, depth, reentrant>>

(* MUTANT: the walk begins above the parent.                               *)
GetLkSkipsParent(p) ==
    /\ at[p] = "getlk"
    /\ IF holder[slot[p]] = Nobody
       THEN at' = [at EXCEPT ![p] = "setlkw"] /\ UNCHANGED <<who, cur>>
       ELSE /\ at' = [at EXCEPT ![p] = "walk"]
            /\ who' = [who EXCEPT ![p] = holder[slot[p]]]
            /\ cur' = [cur EXCEPT ![p] = IF up[p] = Root THEN Root ELSE up[up[p]]]
    /\ UNCHANGED <<holder, slot, up, depth, reentrant>>

(* MUTANT: a busy lock is waited for without a look at its owner.          *)
GetLkNoWalk(p) ==
    /\ at[p] = "getlk"
    /\ at' = [at EXCEPT ![p] = "setlkw"]
    /\ UNCHANGED <<holder, slot, up, who, cur, depth, reentrant>>

(* fcntl(F_GETLK), and getppid() where the walk begins.                    *)
GetLk(p) ==
    /\ at[p] = "getlk"
    /\ IF holder[slot[p]] = Nobody
       THEN at' = [at EXCEPT ![p] = "setlkw"] /\ UNCHANGED <<who, cur>>
       ELSE /\ at' = [at EXCEPT ![p] = "walk"]
            /\ who' = [who EXCEPT ![p] = holder[slot[p]]]
            /\ cur' = [cur EXCEPT ![p] = up[p]]
    /\ UNCHANGED <<holder, slot, up, depth, reentrant>>

(* One round of is_ancestor(): found, at init, too far up, or one level    *)
(* higher.  /proc tells a process's parent as it is now; of a process that *)
(* is gone it tells nothing, and the walk ends.                            *)
WalkEnds(p, label) ==
    /\ at' = [at EXCEPT ![p] = label]
    /\ who' = [who EXCEPT ![p] = Nobody]
    /\ cur' = [cur EXCEPT ![p] = Root]
    /\ depth' = [depth EXCEPT ![p] = 0]

Walk(p) ==
    /\ at[p] = "walk"
    /\ LET over == depth[p] >= MaxWalk \/ cur[p] = Root
       IN IF ~over /\ cur[p] = who[p] THEN WalkEnds(p, "refused")
          ELSE IF over \/ at[cur[p]] = "idle" THEN WalkEnds(p, "setlkw")
          ELSE /\ cur' = [cur EXCEPT ![p] = up[cur[p]]]
               /\ depth' = [depth EXCEPT ![p] = @ + 1]
               /\ UNCHANGED <<at, who>>
    /\ UNCHANGED <<holder, slot, up, reentrant>>

(* MUTANT: F_SETLKW interrupted by a signal counts as granted.             *)
SetLkWInterrupted(p) ==
    /\ at[p] = "setlkw"
    /\ holder' = [holder EXCEPT ![slot[p]] = p]
    /\ at' = [at EXCEPT ![p] = "held"]
    /\ UNCHANGED <<slot, up, who, cur, depth, reentrant>>

(* fcntl(F_SETLKW) returns.                                                *)
SetLkW(p) ==
    /\ at[p] = "setlkw" /\ holder[slot[p]] = Nobody
    /\ holder' = [holder EXCEPT ![slot[p]] = p]
    /\ at' = [at EXCEPT ![p] = "held"]
    /\ UNCHANGED <<slot, up, who, cur, depth, reentrant>>

(* The holder goes on to its setup or finds nothing to do.                 *)
BeginSetup(p) ==
    /\ at[p] = "held"
    /\ at' = [at EXCEPT ![p] = "setup"]
    /\ UNCHANGED <<holder, slot, up, who, cur, depth, reentrant>>

(* close() of the lock file, at the latest by the exit of the process: its *)
(* locks go, and its children are init's.                                  *)
Exit(p) ==
    /\ holder' = [s \in Slot |-> IF holder[s] = p THEN Nobody ELSE holder[s]]
    /\ at' = [at EXCEPT ![p] = "idle"]
    /\ up' = [q \in Proc |-> IF q = p \/ up[q] = p THEN Root ELSE up[q]]
    /\ reentrant' = [reentrant EXCEPT ![p] = FALSE]
    /\ who' = [who EXCEPT ![p] = Nobody]
    /\ cur' = [cur EXCEPT ![p] = Root]
    /\ depth' = [depth EXCEPT ![p] = 0]
    /\ slot' = [slot EXCEPT ![p] = Nobody]

(* A setup waits for the tools it runs.                                    *)
End(p) ==
    /\ \/ at[p] = "setup" /\ \A q \in Proc : up[q] # p
       \/ at[p] \in {"held", "refused"}
    /\ Exit(p)

Killed(p) == Deaths /\ at[p] # "idle" /\ Exit(p)

Step(p) ==
    SetLk(p) \/ GetLk(p) \/ Walk(p) \/ SetLkW(p) \/ BeginSetup(p) \/ End(p)

Next == \E p \in Proc : Launch(p) \/ Nest(p) \/ Step(p) \/ Killed(p)

Spec == Init /\ [][Next]_vars

(* Processes run on, setups end; the kernel wakes a waiter when its lock   *)
(* is released.                                                            *)
FairSpec ==
    /\ Spec
    /\ \A p \in Proc :
          WF_vars(SetLk(p) \/ GetLk(p) \/ Walk(p)) /\ SF_vars(End(p)) /\ SF_vars(SetLkW(p))

-----------------------------------------------------------------------------
(* A re-entered project "fails right away instead of waiting forever on    *)
(* its own update lock": nobody blocks on a lock that an ancestor holds.   *)
NeverWaitsForAncestor ==
    \A p \in Proc : at[p] = "setlkw" => holder[slot[p]] \notin Ancestry(up[p])

(* Nobody asks for a lock for ever.                                        *)
Asking == {"setlk", "getlk", "walk", "setlkw"}
EveryAskEnds == \A p \in Proc : (at[p] \in Asking) ~> (at[p] \notin Asking)

(* The promise of UpdateLock is kept: exclusion, refusal of re-entry only. *)
PhaseOf(p) ==
    CASE at[p] = "idle" -> "out"
      [] at[p] \in Asking -> "asking"
      [] at[p] \in {"held", "setup"} -> "in"
      [] at[p] = "refused" -> "refused"

Promised == INSTANCE UpdateLock WITH phase <- [p \in Proc |-> PhaseOf(p)]
KeepsPromise == Promised!ULSpec

=============================================================================
