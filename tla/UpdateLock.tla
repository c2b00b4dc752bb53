----------------------------- MODULE UpdateLock -----------------------------
(***************************************************************************)
(* What hm_cache_lock() promises: one holder per slot; who asks is granted *)
(* the lock or, only if one of its ancestors held it when it was started,  *)
(* refused; and whoever could be granted it over and over, is.  CacheLock  *)
(* shows by which steps cache.c gets there.                                *)
(***************************************************************************)
CONSTANTS Proc, Slot, Nobody

VARIABLES
    holder,     \* the process that holds each slot's lock
    phase,      \* what each process does about a lock
    reentrant   \* whether an ancestor held the lock asked for at the start

lockVars == <<holder, phase, reentrant>>

Phase == {"out", "asking", "in", "refused"}

ULTypeOK ==
    /\ holder \in [Slot -> Proc \cup {Nobody}]
    /\ phase \in [Proc -> Phase]
    /\ reentrant \in [Proc -> BOOLEAN]

ULInit ==
    /\ holder = [s \in Slot |-> Nobody]
    /\ phase = [p \in Proc |-> "out"]
    /\ reentrant = [p \in Proc |-> FALSE]

Ask(p) ==
    /\ phase[p] = "out"
    /\ phase' = [phase EXCEPT ![p] = "asking"]
    /\ \E r \in BOOLEAN : reentrant' = [reentrant EXCEPT ![p] = r]
    /\ UNCHANGED holder

Grant(p) ==
    /\ phase[p] = "asking"
    /\ \E s \in Slot : holder[s] = Nobody /\ holder' = [holder EXCEPT ![s] = p]
    /\ phase' = [phase EXCEPT ![p] = "in"]
    /\ UNCHANGED reentrant

Refuse(p) ==
    /\ phase[p] = "asking" /\ reentrant[p]
    /\ phase' = [phase EXCEPT ![p] = "refused"]
    /\ UNCHANGED <<holder, reentrant>>

(* Unlocking, giving up and dying all drop what is held.                   *)
Drop(p) ==
    /\ phase[p] # "out"
    /\ holder' = [s \in Slot |-> IF holder[s] = p THEN Nobody ELSE holder[s]]
    /\ phase' = [phase EXCEPT ![p] = "out"]
    /\ reentrant' = [reentrant EXCEPT ![p] = FALSE]

ULNext == \E p \in Proc : Ask(p) \/ Grant(p) \/ Refuse(p) \/ Drop(p)

ULSpec == ULInit /\ [][ULNext]_lockVars

=============================================================================
