---------------------------- MODULE SetupSignals ----------------------------
(***************************************************************************)
(* One setup and the signals around it: forward_signals_*() and            *)
(* child_signals_init() of install.c with the fork, exec and wait of       *)
(* hm_install() and hm_command_run() that call them.                       *)
(*                                                                         *)
(* Hacman and the forked child run concurrently; a termination signal is   *)
(* sent to hacman alone ("user") or by the terminal to the whole process   *)
(* group ("tty"); SIGKILL takes hacman at any time.  The four forwarded    *)
(* signals are one signal here.                                            *)
(***************************************************************************)
EXTENDS Naturals

CONSTANTS
    Installs,       \* TRUE: hm_install(), FALSE: hm_command_run()
    MaxSignals,     \* how many termination signals are sent
    Kills           \* BOOLEAN: whether hacman may be killed outright

ASSUME SignalsAssumption ==
    Installs \in BOOLEAN /\ Kills \in BOOLEAN /\ MaxSignals \in Nat

VARIABLES
    pc,             \* hacman
    target,         \* setup_child is set: the handler forwards
    recorded,       \* setup_signal in hacman
    outcome,        \* how hacman's part ends
    cpc,            \* the forked child, from forward_signals_end() to exec
    inherited,      \* setup_signal in the child's copy
    deathsig,       \* PR_SET_PDEATHSIG is in effect
    pending,        \* a termination signal is pending for the child
    told,           \* history: one was delivered to the child
    hits,           \* history: how often one was delivered to the shell
    sent,           \* how many were sent
    killed          \* history: hacman was killed outright

hacmanVars == <<pc, target, recorded, outcome>>
childVars == <<cpc, inherited, deathsig, pending, told, hits>>
vars == <<pc, target, recorded, outcome, cpc, inherited, deathsig, pending, told, hits,
          sent, killed>>

Init ==
    /\ pc = "begin" /\ outcome = "none"
    /\ cpc = "none"
    /\ target = FALSE /\ recorded = FALSE
    /\ inherited = FALSE /\ deathsig = FALSE /\ pending = FALSE /\ told = FALSE
    /\ hits = 0 /\ sent = 0 /\ killed = FALSE

Handled == pc \in {"fork", "store", "check", "wait", "end"}
Gone == pc = "dead"
ChildAlive == cpc \notin {"none", "ended"}

-----------------------------------------------------------------------------
(* hacman.                                                                 *)

(* forward_signals_begin()                                                 *)
Begin ==
    /\ pc = "begin"
    /\ pc' = "fork"
    /\ UNCHANGED <<target, recorded, outcome, childVars, sent, killed>>

Fork ==
    /\ pc = "fork"
    /\ pc' = "store"
    /\ cpc' = "reset"
    /\ inherited' = recorded
    /\ UNCHANGED <<target, recorded, outcome, deathsig, pending, told, hits, sent, killed>>

(* hm_install() goes through its cleanup, hm_command_run() returns.        *)
ForkFails ==
    /\ pc = "fork"
    /\ IF Installs /\ recorded
       THEN pc' = "dead" /\ outcome' = "signal"
       ELSE pc' = "done" /\ outcome' = "failed"
    /\ UNCHANGED <<target, recorded, childVars, sent, killed>>

(* forward_signals_to(): the store and the test are two steps.             *)
StoreTarget ==
    /\ pc = "store"
    /\ pc' = "check"
    /\ target' = TRUE
    /\ UNCHANGED <<recorded, outcome, childVars, sent, killed>>

(* MUTANT: what arrived before setup_child was set is forgotten.           *)
PassOnForgotten ==
    /\ pc = "check"
    /\ pc' = "wait"
    /\ UNCHANGED <<target, recorded, outcome, childVars, sent, killed>>

PassOn ==
    /\ pc = "check"
    /\ pc' = "wait"
    /\ pending' = (pending \/ (recorded /\ ChildAlive))
    /\ UNCHANGED <<target, recorded, outcome, cpc, inherited, deathsig, told, hits,
                   sent, killed>>

(* MUTANT: an interrupted waitpid() is not repeated.                       *)
WaitInterrupted ==
    /\ pc = "wait" /\ (cpc = "ended" \/ recorded)
    /\ pc' = "end"
    /\ UNCHANGED <<target, recorded, outcome, childVars, sent, killed>>

(* waitpid(), repeated on EINTR, then forward_signals_end().               *)
Wait ==
    /\ pc = "wait" /\ cpc = "ended"
    /\ pc' = "end"
    /\ UNCHANGED <<target, recorded, outcome, childVars, sent, killed>>

End ==
    /\ pc = "end"
    /\ pc' = "settle"
    /\ target' = FALSE
    /\ UNCHANGED <<recorded, outcome, childVars, sent, killed>>

(* MUTANT: only the status of the child counts.                            *)
SettleByStatus ==
    /\ pc = "settle"
    /\ pc' = "done" /\ outcome' \in {"ok", "failed"}
    /\ UNCHANGED <<target, recorded, childVars, sent, killed>>

(* A recorded signal goes before the status of the child.                  *)
Settle ==
    /\ pc = "settle"
    /\ IF recorded
       THEN pc' = "dead" /\ outcome' = "signal"
       ELSE pc' = "done" /\ outcome' \in {"ok", "failed"}
    /\ UNCHANGED <<target, recorded, childVars, sent, killed>>

-----------------------------------------------------------------------------
(* The forked child.                                                       *)

(* forward_signals_end() in the child.                                     *)
ChildResets ==
    /\ cpc = "reset"
    /\ cpc' = "raise"
    /\ UNCHANGED <<hacmanVars, inherited, deathsig, pending, told, hits, sent, killed>>

(* MUTANT: the child waits for the signal it was sent before the reset.    *)
ChildRaisesNot ==
    /\ cpc = "raise"
    /\ cpc' = IF inherited THEN "raise" ELSE "prctl"
    /\ UNCHANGED <<hacmanVars, inherited, deathsig, pending, told, hits, sent, killed>>

ChildRaises ==
    /\ cpc = "raise"
    /\ cpc' = IF inherited THEN "ended" ELSE "prctl"
    /\ UNCHANGED <<hacmanVars, inherited, deathsig, pending, told, hits, sent, killed>>

ChildAsksDeathSignal ==
    /\ cpc = "prctl"
    /\ cpc' = "ppid"
    /\ deathsig' = TRUE
    /\ UNCHANGED <<hacmanVars, inherited, pending, told, hits, sent, killed>>

(* MUTANT: the parent is not looked for after prctl().                     *)
ChildSeesNothing ==
    /\ cpc = "ppid"
    /\ cpc' = "exec"
    /\ UNCHANGED <<hacmanVars, inherited, deathsig, pending, told, hits, sent, killed>>

(* "The parent may have died before the request took effect."              *)
ChildSeesParent ==
    /\ cpc = "ppid"
    /\ cpc' = IF Gone THEN "ended" ELSE "exec"
    /\ UNCHANGED <<hacmanVars, inherited, deathsig, pending, told, hits, sent, killed>>

(* chdir(), the environment, hm_sandbox_enter() and execv(), or _exit().   *)
ChildExecs ==
    /\ cpc = "exec"
    /\ cpc' \in {"shell", "ended"}
    /\ UNCHANGED <<hacmanVars, inherited, deathsig, pending, told, hits, sent, killed>>

ShellEnds ==
    /\ cpc = "shell"
    /\ cpc' = "ended"
    /\ UNCHANGED <<hacmanVars, inherited, deathsig, pending, told, hits, sent, killed>>

(* The signal is delivered: recorded by the inherited handler, taken by    *)
(* the default action, or met by the shell, which may trap it.             *)
ChildTakes ==
    /\ pending /\ ChildAlive
    /\ pending' = FALSE
    /\ told' = TRUE
    /\ inherited' = (inherited \/ cpc = "reset")
    /\ hits' = IF cpc = "shell" THEN hits + 1 ELSE hits
    /\ cpc' \in CASE cpc = "reset" -> {cpc}
                  [] cpc = "shell" -> {cpc, "ended"}
                  [] OTHER -> {"ended"}
    /\ UNCHANGED <<hacmanVars, deathsig, sent, killed>>

-----------------------------------------------------------------------------
(* Signals.                                                                *)

(* forward_signal(), or the default action where it is not installed.  The *)
(* terminal reaches the child by itself.                                   *)
Relays(kind) == kind = "user" /\ target

Signal(kind) ==
    /\ sent < MaxSignals
    /\ pc \notin {"done", "dead"}
    /\ sent' = sent + 1
    /\ IF Handled
       THEN recorded' = TRUE /\ UNCHANGED <<pc, outcome>>
       ELSE pc' = "dead" /\ outcome' = "signal" /\ UNCHANGED recorded
    /\ pending' = (pending \/ (ChildAlive /\ (kind = "tty" \/ (Handled /\ Relays(kind)))))
    /\ UNCHANGED <<target, cpc, inherited, deathsig, told, hits, killed>>

Kill ==
    /\ Kills /\ pc \notin {"done", "dead"}
    /\ pc' = "dead" /\ killed' = TRUE
    /\ pending' = (pending \/ (deathsig /\ ChildAlive))
    /\ UNCHANGED <<target, recorded, outcome, cpc, inherited, deathsig, told, hits, sent>>

HacmanStep ==
    Begin \/ Fork \/ ForkFails \/ StoreTarget \/ PassOn \/ Wait \/ End \/ Settle
ChildStep ==
    \/ ChildResets \/ ChildRaises \/ ChildAsksDeathSignal \/ ChildSeesParent \/ ChildExecs
    \/ ShellEnds \/ ChildTakes

Next == HacmanStep \/ ChildStep \/ (\E kind \in {"user", "tty"} : Signal(kind)) \/ Kill

Spec == Init /\ [][Next]_vars
FairSpec == Spec /\ WF_vars(HacmanStep) /\ WF_vars(ChildStep)

-----------------------------------------------------------------------------
SSTypeOK ==
    /\ pc \in {"begin", "fork", "store", "check", "wait", "end", "settle", "done", "dead"}
    /\ cpc \in {"none", "reset", "raise", "prctl", "ppid", "exec", "shell", "ended"}
    /\ outcome \in {"none", "ok", "failed", "signal"}
    /\ target \in BOOLEAN /\ recorded \in BOOLEAN /\ killed \in BOOLEAN
    /\ inherited \in BOOLEAN /\ deathsig \in BOOLEAN
    /\ pending \in BOOLEAN /\ told \in BOOLEAN
    /\ hits \in Nat /\ sent \in 0..MaxSignals

(* A signal hacman was sent while it supervises is not kept from the       *)
(* setup: once it waits, the child was told, will be, or is gone.          *)
SignalReachesSetup ==
    pc = "wait" /\ recorded => pending \/ told \/ inherited \/ ~ChildAlive

(* hacman never leaves a setup behind by itself, "only then dies from the  *)
(* same signal" (install.c): its end, unless it was killed, follows the    *)
(* child's.                                                                *)
NeverAbandoned == (pc = "done" \/ (Gone /\ ~killed)) => ~ChildAlive

(* Killed outright, it still does not leave a shell behind that was not    *)
(* told: whichever comes first, prctl(), the death or the exec.            *)
KilledSetupIsTold == Gone /\ cpc = "shell" => pending \/ told

(* "Even a setup that finished despite the signal is not recorded."        *)
SignalIsNoSuccess == outcome = "ok" => ~recorded

(* hacman gets to its end: the wait for the child is not for ever.         *)
SupervisionEnds == (pc # "begin") ~> (pc \in {"done", "dead"})

(* tests.py: "SIGTERM during setup is forwarded to the setup exactly       *)
(* once"; install.c: "so a script's own trap handler does not run twice".  *)
ForwardedOnce == hits <= sent

=============================================================================
