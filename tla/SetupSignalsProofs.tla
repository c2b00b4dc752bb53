------------------------- MODULE SetupSignalsProofs -------------------------
(***************************************************************************)
(* The safety of SetupSignals.tla for any number of signals, with and      *)
(* without SIGKILL, for both callers of the forwarding.                    *)
(***************************************************************************)
EXTENDS SetupSignals, TLAPS

(* Where the child can be while hacman is where it is: what both sides     *)
(* know of each other across fork(), prctl() and wait().                   *)
SignalsInv ==
    /\ SSTypeOK
    /\ pc \in {"begin", "fork"} => cpc = "none"
    /\ pc \in {"end", "settle", "done"} => ~ChildAlive
    /\ Gone /\ ~killed => ~ChildAlive
    /\ pc \in {"check", "wait"} => target
    /\ cpc \in {"ppid", "exec", "shell"} => deathsig
    /\ Gone /\ cpc \in {"exec", "shell"} => pending \/ told
    /\ SignalReachesSetup
    /\ outcome # "none" => pc \in {"done", "dead"}
    /\ SignalIsNoSuccess

(* Nothing was sent and nothing forked at the start ...                    *)
LEMMA InitSignals == Init => SignalsInv
<1> SUFFICES ASSUME Init PROVE SignalsInv
  OBVIOUS
<1>1. hits \in Nat /\ sent \in 0..MaxSignals
  BY SignalsAssumption DEF Init
<1>2. /\ target \in BOOLEAN /\ recorded \in BOOLEAN /\ killed \in BOOLEAN
      /\ inherited \in BOOLEAN /\ deathsig \in BOOLEAN
      /\ pending \in BOOLEAN /\ told \in BOOLEAN
  BY DEF Init
<1> QED
  BY <1>1, <1>2
     DEF Init, SignalsInv, SSTypeOK, SignalReachesSetup, SignalIsNoSuccess, ChildAlive, Gone

(* ... and no step of either process, nor a signal, breaks the invariant.  *)
LEMMA NextSignals == SignalsInv /\ [Next]_vars => SignalsInv'
<1> SUFFICES ASSUME SignalsInv, [Next]_vars PROVE SignalsInv'
  OBVIOUS
<1> USE SignalsAssumption
    DEF SignalsInv, SSTypeOK, SignalReachesSetup, SignalIsNoSuccess, ChildAlive, Gone,
        hacmanVars, childVars
<1>1. CASE UNCHANGED vars
  BY <1>1 DEF vars
<1>2. CASE Begin
  BY <1>2 DEF Begin
<1>3. CASE Fork
  BY <1>3 DEF Fork
<1>4. CASE ForkFails
  BY <1>4 DEF ForkFails
<1>5. CASE StoreTarget
  BY <1>5 DEF StoreTarget
<1>6. CASE PassOn
  BY <1>6 DEF PassOn
<1>7. CASE Wait
  BY <1>7 DEF Wait
<1>8. CASE End
  BY <1>8 DEF End
<1>9. CASE Settle
  BY <1>9 DEF Settle
<1>10. CASE ChildResets
  BY <1>10 DEF ChildResets
<1>11. CASE ChildRaises
  BY <1>11 DEF ChildRaises
<1>12. CASE ChildAsksDeathSignal
  BY <1>12 DEF ChildAsksDeathSignal
<1>13. CASE ChildSeesParent
  BY <1>13 DEF ChildSeesParent
<1>14. CASE ChildExecs
  BY <1>14 DEF ChildExecs
<1>15. CASE ShellEnds
  BY <1>15 DEF ShellEnds
<1>16. CASE ChildTakes
  <2>1. /\ pending' \in BOOLEAN /\ told' \in BOOLEAN
        /\ inherited' \in BOOLEAN /\ recorded' \in BOOLEAN
    BY <1>16 DEF ChildTakes
  <2>2. hits' \in Nat /\ sent' \in 0..MaxSignals
    BY <1>16 DEF ChildTakes
  <2>3. SSTypeOK'
    BY <1>16, <2>1, <2>2 DEF ChildTakes
  <2> QED
    BY <1>16, <2>3 DEF ChildTakes
<1>17. ASSUME NEW kind \in {"user", "tty"}, Signal(kind)
       PROVE  SignalsInv'
  <2>1. /\ pending' \in BOOLEAN /\ told' \in BOOLEAN
        /\ inherited' \in BOOLEAN /\ recorded' \in BOOLEAN
    BY <1>17 DEF Signal, Handled, Relays
  <2>2. hits' \in Nat /\ sent' \in 0..MaxSignals
    BY <1>17 DEF Signal, Handled, Relays
  <2>3. SSTypeOK'
    BY <1>17, <2>1, <2>2 DEF Signal, Handled, Relays
  <2> QED
    BY <1>17, <2>3 DEF Signal, Handled, Relays
<1>18. CASE Kill
  BY <1>18 DEF Kill
<1> QED
  BY <1>1, <1>2, <1>3, <1>4, <1>5, <1>6, <1>7, <1>8, <1>9, <1>10, <1>11, <1>12,
     <1>13, <1>14, <1>15, <1>16, <1>17, <1>18
  DEF Next, HacmanStep, ChildStep

(* The invariant, always.                                                  *)
LEMMA SignalsHold == Spec => []SignalsInv
  BY InitSignals, NextSignals, PTL DEF Spec

(* A signal hacman records while it waits is on its way to the setup,      *)
(* wherever around fork() it came in (forward_signal, forward_signals_to). *)
THEOREM SignalsReachSetups == Spec => []SignalReachesSetup
  BY SignalsHold, PTL DEF SignalsInv

(* hm_install() and hm_command_run() come to an end only after the setup.  *)
THEOREM SetupsAreNotAbandoned == Spec => []NeverAbandoned
<1>1. SignalsInv => NeverAbandoned
  BY DEF SignalsInv, NeverAbandoned, Gone
<1> QED
  BY <1>1, SignalsHold, PTL

(* Killed between any two steps of the child's start, hacman leaves no     *)
(* shell behind that prctl()'s signal or the look at the parent misses.    *)
THEOREM SetupsOfTheKilledAreTold == Spec => []KilledSetupIsTold
<1>1. SignalsInv => KilledSetupIsTold
  BY DEF SignalsInv, KilledSetupIsTold, Gone
<1> QED
  BY <1>1, SignalsHold, PTL

(* No setup counts as successful against a recorded signal.                *)
THEOREM SignalsAreNoSuccess == Spec => []SignalIsNoSuccess
  BY SignalsHold, PTL DEF SignalsInv

-----------------------------------------------------------------------------
(* How often the shell is told.  A signal reaches the child by the         *)
(* terminal or by forward_signal(); forward_signals_to() sends one more    *)
(* for all that were recorded before it looked, and PR_SET_PDEATHSIG one   *)
(* more for a hacman that is killed.                                       *)

One(b) == IF b THEN 1 ELSE 0
Looked == pc \notin {"begin", "fork", "store", "check"}

ToldInv ==
    /\ sent = 0 => ~recorded
    /\ sent = 0 /\ ~killed => ~pending /\ hits = 0
    /\ ~Looked => hits + One(pending) <= sent
    /\ Looked => hits + One(pending) <= sent + One(killed) + 1
    /\ killed => Gone

(* However the signals fall around the fork, the child's steps and the     *)
(* look at what was recorded: the shell is never told more than once more  *)
(* than hacman was, nor told at all when hacman was not.                   *)
ToldAtMostOnceMore ==
    ~killed => hits <= sent + 1 /\ (sent = 0 => hits = 0)

LEMMA NextTold == SignalsInv /\ ToldInv /\ [Next]_vars => ToldInv'
<1> SUFFICES ASSUME SignalsInv, ToldInv, [Next]_vars PROVE ToldInv'
  OBVIOUS
<1> USE SignalsAssumption DEF ToldInv, One, Looked, Gone, hacmanVars, childVars
<1>0. /\ hits \in Nat /\ sent \in Nat
      /\ pending \in BOOLEAN /\ killed \in BOOLEAN /\ recorded \in BOOLEAN
  BY DEF SignalsInv, SSTypeOK
<1>1. CASE UNCHANGED vars
  BY <1>1 DEF vars
<1>2. CASE Begin \/ Fork \/ ForkFails \/ StoreTarget \/ Wait \/ End \/ Settle
  BY <1>0, <1>2 DEF Begin, Fork, ForkFails, StoreTarget, Wait, End, Settle
<1>3. CASE PassOn
  BY <1>0, <1>3 DEF PassOn
<1>4. CASE ChildResets \/ ChildRaises \/ ChildAsksDeathSignal \/ ChildSeesParent
           \/ ChildExecs \/ ShellEnds
  BY <1>0, <1>4
     DEF ChildResets, ChildRaises, ChildAsksDeathSignal, ChildSeesParent, ChildExecs,
         ShellEnds
<1>5. CASE ChildTakes
  BY <1>0, <1>5 DEF ChildTakes
<1>6. ASSUME NEW kind \in {"user", "tty"}, Signal(kind) PROVE ToldInv'
  BY <1>0, <1>6 DEF Signal, Handled
<1>7. CASE Kill
  BY <1>0, <1>7 DEF Kill
<1> QED
  BY <1>1, <1>2, <1>3, <1>4, <1>5, <1>6, <1>7 DEF Next, HacmanStep, ChildStep

(* "a script's own trap handler does not run twice" (install.c) fails by   *)
(* one delivery at the most, for any number of signals (forward_signal,    *)
(* forward_signals_to).                                                    *)
THEOREM SetupsAreToldOnceMoreAtMost == Spec => []ToldAtMostOnceMore
<1>1. Init => ToldInv
  BY SignalsAssumption DEF Init, ToldInv, One, Looked, Gone
<1>2. SignalsInv /\ ToldInv => ToldAtMostOnceMore
  BY DEF SignalsInv, SSTypeOK, ToldInv, ToldAtMostOnceMore, One
<1> QED
  BY <1>1, <1>2, NextTold, SignalsHold, PTL DEF Spec

-----------------------------------------------------------------------------
(* Why the supervision ends, without a word of fairness: every step of     *)
(* either process and every signal brings the end nearer, and until it is  *)
(* there one of the two has a step to take.                                *)

HacmanLeft ==
    [begin |-> 8, fork |-> 7, store |-> 6, check |-> 5, wait |-> 4, end |-> 3,
     settle |-> 2, done |-> 0, dead |-> 0][pc]
ChildLeft ==
    [none |-> 7, reset |-> 6, raise |-> 5, prctl |-> 4, ppid |-> 3, exec |-> 2,
     shell |-> 1, ended |-> 0][cpc]
StepsLeft == 2 * (MaxSignals - sent) + 2 * HacmanLeft + ChildLeft + One(pending)

StepsRunOut == [](StepsLeft \in Nat) /\ [][StepsLeft' < StepsLeft]_vars

(* hacman waits for nothing but the end of a child; then that child is     *)
(* there, between fork() and its end, where each of its steps is its own.  *)
SomeoneCanGo ==
    pc \notin {"begin", "done", "dead"} =>
        \/ pc \in {"fork", "store", "check", "end", "settle"}
        \/ pc = "wait" /\ (cpc = "ended" \/ ChildAlive)

LEMMA StepsLeftIsNat == SSTypeOK => StepsLeft \in Nat
<1> SUFFICES ASSUME SSTypeOK PROVE StepsLeft \in Nat
  OBVIOUS
<1>1. MaxSignals - sent \in Nat
  BY SignalsAssumption DEF SSTypeOK
<1>2. HacmanLeft \in Nat
  BY DEF SSTypeOK, HacmanLeft
<1>3. ChildLeft \in Nat
  BY DEF SSTypeOK, ChildLeft
<1>4. One(pending) \in Nat
  BY DEF One
<1> QED
  BY <1>1, <1>2, <1>3, <1>4 DEF StepsLeft

LEMMA NextIsNearer ==
    ASSUME SignalsInv, Next
    PROVE  StepsLeft' < StepsLeft
<1> USE DEF HacmanLeft, ChildLeft, StepsLeft, One, Gone, hacmanVars, childVars
<1>0. /\ MaxSignals \in Nat /\ sent \in 0..MaxSignals /\ pending \in BOOLEAN
      /\ HacmanLeft \in Nat /\ ChildLeft \in Nat
  BY SignalsAssumption DEF SignalsInv, SSTypeOK
<1>1. CASE Begin \/ ForkFails \/ StoreTarget \/ Wait \/ End \/ Settle
  BY <1>0, <1>1 DEF Begin, ForkFails, StoreTarget, Wait, End, Settle
<1>2. CASE Fork
  BY <1>0, <1>2 DEF Fork, SignalsInv
<1>3. CASE PassOn
  BY <1>0, <1>3 DEF PassOn
<1>4. CASE ChildResets \/ ChildRaises \/ ChildAsksDeathSignal \/ ChildSeesParent
           \/ ChildExecs \/ ShellEnds
  BY <1>0, <1>4
     DEF ChildResets, ChildRaises, ChildAsksDeathSignal, ChildSeesParent, ChildExecs,
         ShellEnds
<1>5. CASE ChildTakes
  <2>1. ChildLeft' <= ChildLeft
    BY <1>5 DEF ChildTakes, ChildAlive, SignalsInv, SSTypeOK
  <2>2. ChildLeft' \in Nat
    BY <1>5 DEF ChildTakes, ChildAlive, SignalsInv, SSTypeOK
  <2>3. One(pending') = 0 /\ One(pending) = 1 /\ HacmanLeft' = HacmanLeft /\ sent' = sent
    BY <1>5 DEF ChildTakes
  <2> QED
    BY <1>0, <2>1, <2>2, <2>3
<1>6. ASSUME NEW kind \in {"user", "tty"}, Signal(kind) PROVE StepsLeft' < StepsLeft
  <2>1. HacmanLeft' <= HacmanLeft /\ HacmanLeft' \in Nat
    BY <1>6 DEF Signal, SignalsInv, SSTypeOK
  <2>2. ChildLeft' = ChildLeft /\ sent' = sent + 1
    BY <1>6 DEF Signal
  <2>3. One(pending') <= One(pending) + 1 /\ One(pending) \in Nat /\ One(pending') \in Nat
    OBVIOUS
  <2> QED
    BY <1>0, <2>1, <2>2, <2>3
<1>7. CASE Kill
  <2>1. HacmanLeft' = 0 /\ HacmanLeft >= 2
    BY <1>7 DEF Kill, SignalsInv, SSTypeOK
  <2>2. ChildLeft' = ChildLeft /\ sent' = sent
    BY <1>7 DEF Kill
  <2>3. One(pending') <= One(pending) + 1 /\ One(pending) \in Nat /\ One(pending') \in Nat
    OBVIOUS
  <2> QED
    BY <1>0, <2>1, <2>2, <2>3
<1> QED
  BY <1>1, <1>2, <1>3, <1>4, <1>5, <1>6, <1>7 DEF Next, HacmanStep, ChildStep

(* From forward_signals_begin() to the end of hm_install() there is no     *)
(* cycle: signals, forwarded or not, only use up what is left, so that     *)
(* no more steps than StepsLeft remain at any moment.                      *)
THEOREM SupervisionRunsOut == Spec => StepsRunOut
<1>1. SignalsInv => StepsLeft \in Nat
  BY StepsLeftIsNat DEF SignalsInv
<1>2. SignalsInv /\ [Next]_vars => [StepsLeft' < StepsLeft]_vars
  BY NextIsNearer
<1> QED
  BY <1>1, <1>2, SignalsHold, PTL DEF Spec, StepsRunOut

(* waitpid() is never called for a child that was not forked: hacman or    *)
(* the child can always take its next step (forward_signals_to, hm_install *)
(* and hm_command_run).                                                    *)
THEOREM SupervisionIsNeverStuck == Spec => []SomeoneCanGo
<1> DEFINE Waited == pc \in {"store", "check", "wait"} => cpc # "none"
<1>1. Init => Waited
  BY DEF Init
<1>2. SignalsInv /\ Waited /\ [Next]_vars => Waited'
  <2> SUFFICES ASSUME SignalsInv, Waited, [Next]_vars PROVE Waited'
    OBVIOUS
  <2> USE DEF hacmanVars, childVars
  <2>1. CASE UNCHANGED vars
    BY <2>1 DEF vars
  <2>2. CASE HacmanStep
    BY <2>2 DEF HacmanStep, Begin, Fork, ForkFails, StoreTarget, PassOn, Wait, End, Settle
  <2>3. CASE ChildStep
    BY <2>3 DEF ChildStep, ChildResets, ChildRaises, ChildAsksDeathSignal, ChildSeesParent,
                ChildExecs, ShellEnds, ChildTakes, ChildAlive
  <2>4. CASE Kill \/ \E kind \in {"user", "tty"} : Signal(kind)
    BY <2>4 DEF Kill, Signal
  <2> QED
    BY <2>1, <2>2, <2>3, <2>4 DEF Next
<1>3. SignalsInv /\ Waited => SomeoneCanGo
  BY DEF SignalsInv, SSTypeOK, SomeoneCanGo, ChildAlive
<1> HIDE DEF Waited
<1> QED
  BY <1>1, <1>2, <1>3, SignalsHold, PTL DEF Spec
=============================================================================
