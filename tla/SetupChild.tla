----------------------------- MODULE SetupChild -----------------------------
(***************************************************************************)
(* What a setup may touch, and what it is told: the forked child of        *)
(* hm_install() and hm_command_run() from fork() to exec (install.c) with  *)
(* the whole of hm_sandbox_enter() (sandbox.c), and hacman runs that a     *)
(* setup starts, which inherit its environment and its confinement.        *)
(*                                                                         *)
(* frames[1] is the user's shell; each further frame is a hacman run that  *)
(* the shell of the frame below started, with the setup it has forked.     *)
(* A Landlock layer restricts the rights it handles to its rules, and      *)
(* layers only add up.                                                     *)
(***************************************************************************)
EXTENDS Naturals, Sequences

CONSTANTS
    MaxDepth,       \* how deep runs nest
    Abis,           \* the Landlock ABIs of the kernels, 0: no Landlock
    Place,          \* files and directories
    Within,         \* pairs <<q, p>>: q is p or lies below it
    Root, Null, Tmp,    \* "/", "/dev/null", "/tmp"
    Cache,          \* cache directories
    HomeCache,      \* ~/.cache/hacman
    NoCache,        \* no --cache, no HACMAN_CACHE
    WorkIn,         \* the work directories of a cache directory
    Projects        \* what a run may be asked to set up

Dir == UNION {{pr.dirs[i] : i \in DOMAIN pr.dirs} : pr \in Projects}

ASSUME SandboxAssumption ==
    /\ MaxDepth \in Nat /\ Abis \subseteq Nat
    /\ {Root, Null, Tmp, HomeCache} \subseteq Place /\ HomeCache \in Cache
    /\ Cache \subseteq Place /\ NoCache \notin Cache
    /\ WorkIn \in [Cache -> Place]
    /\ \A q \in Place : <<q, q>> \in Within /\ <<q, Root>> \in Within
    /\ \A c \in Cache : <<WorkIn[c], c>> \in Within
    /\ \A q, p, o \in Place :
          <<q, p>> \in Within /\ <<p, o>> \in Within => <<q, o>> \in Within

ASSUME ProjectsAssumption ==
    Projects \subseteq [kind : {"url", "command"}, response : BOOLEAN, sandboxed : BOOLEAN,
                        dirs : Seq(Place), option : Cache \cup {NoCache}]

Variable == {"NAME", "URL", "CHECK", "VERSION", "PREVIOUS", "RESPONSE", "WORKDIR"}
UrlVariable == {"NAME", "URL", "CHECK", "VERSION", "PREVIOUS"}

VARIABLES
    abi,            \* what the kernel answers
    frames,         \* the runs, outermost first
    step,           \* where the innermost one is
    ruleset,        \* the rule set it is building
    todo            \* the paths it still has to open for it

sandboxVars == <<abi, frames, step, ruleset, todo>>

NoRules == [handled |-> {}, rules |-> {}]
Depth == Len(frames)
Inner == frames[Depth]

UserFrame(c) ==
    [cache |-> HomeCache, layers |-> {},
     env |-> [cache |-> c, tmp |-> Tmp, of |-> [v \in Variable |-> 0]]]

SandboxInit ==
    /\ abi \in Abis
    /\ \E c \in Cache \cup {NoCache} : frames = <<UserFrame(c)>>
    /\ step = "shell" /\ ruleset = NoRules /\ todo = <<>>

-----------------------------------------------------------------------------
(* Landlock.                                                               *)

(* handled_access(), the rights as far as they differ here.                *)
HandledAccess(a) ==
    {"execute", "read", "write", "remove", "make"}
    \cup (IF a >= 2 THEN {"refer"} ELSE {})
    \cup (IF a >= 3 THEN {"truncate"} ELSE {})
    \cup (IF a >= 5 THEN {"ioctl"} ELSE {})
    \cup (IF a >= 9 THEN {"resolve"} ELSE {})

ReadonlyAccess(a) == {"execute", "read"} \cup (IF a >= 9 THEN {"resolve"} ELSE {})

Mutating == {"write", "remove", "make", "truncate", "refer"}

Allows(layer, right, q) ==
    right \in layer.handled =>
        \E rule \in layer.rules : right \in rule.rights /\ <<q, rule.at>> \in Within
May(layers, right, q) == \A layer \in layers : Allows(layer, right, q)

(* What a lock file, a record, a work directory or a temporary file needs. *)
CanUse(layers, q) == \A right \in {"write", "remove", "make"} : May(layers, right, q)

-----------------------------------------------------------------------------
(* A run, up to fork().                                                    *)

(* hm_cache_dir(): --cache, HACMAN_CACHE, then the default.                *)
CacheDir(pr, env) ==
    IF pr.option # NoCache THEN pr.option
    ELSE IF env.cache # NoCache THEN env.cache ELSE HomeCache

StartRun(pr) ==
    /\ step = "shell" /\ Depth <= MaxDepth
    /\ frames' = Append(frames, [project |-> pr, cache |-> CacheDir(pr, Inner.env),
                                 env |-> Inner.env, layers |-> Inner.layers])
    /\ step' = "lock"
    /\ UNCHANGED <<abi, ruleset, todo>>

(* hm_cache_lock() and hm_workdir_ensure(), which create files there.      *)
OpenCache ==
    /\ step = "lock"
    /\ step' = IF CanUse(Inner.layers, Inner.cache) THEN "temp" ELSE "refused"
    /\ UNCHANGED <<abi, frames, ruleset, todo>>

(* make_temp(): in $TMPDIR, else in /tmp.                                  *)
MakeTemp ==
    /\ step = "temp"
    /\ step' = IF CanUse(Inner.layers, Inner.env.tmp) \/ CanUse(Inner.layers, Tmp)
               THEN "describe" ELSE "refused"
    /\ UNCHANGED <<abi, frames, ruleset, todo>>

(* The run is over, whatever the reason: the shell below carries on.       *)
Leave ==
    /\ frames' = SubSeq(frames, 1, Depth - 1)
    /\ step' = "shell" /\ ruleset' = NoRules /\ todo' = <<>>
    /\ UNCHANGED abi

GiveUp == step = "refused" /\ Leave
ShellExits == step = "shell" /\ Depth > 1 /\ Leave

-----------------------------------------------------------------------------
(* The child.                                                              *)

SetInner(env) == frames' = [frames EXCEPT ![Depth].env = env]

(* What each kind of project sets; the rest it removes, or inherits.       *)
SetVariables(pr) ==
    IF pr.kind = "command" THEN {"NAME", "WORKDIR"}
    ELSE UrlVariable \cup (IF pr.response THEN {"RESPONSE"} ELSE {})

(* MUTANT: HACMAN_RESPONSE is set where there is one and else left alone.  *)
UnsetVariablesButResponse(pr) ==
    IF pr.kind = "command" THEN (UrlVariable \cup {"RESPONSE"}) \ {"NAME"}
    ELSE {"WORKDIR"}

(* What a setup must not inherit from the run it is nested in.             *)
UnsetVariables(pr) ==
    IF pr.kind = "command" THEN (UrlVariable \cup {"RESPONSE"}) \ {"NAME"}
    ELSE {"WORKDIR"} \cup (IF pr.response THEN {} ELSE {"RESPONSE"})

(* setenv(), unsetenv() and chdir() into the work directory.               *)
DescribeProject ==
    /\ step = "describe"
    /\ LET pr == Inner.project
       IN /\ SetInner([Inner.env EXCEPT !.of =
                [v \in Variable |-> IF v \in SetVariables(pr) THEN Depth
                                    ELSE IF v \in UnsetVariables(pr) THEN 0 ELSE @[v]]])
          /\ step' = IF pr.sandboxed THEN "point" ELSE "exec"
    /\ UNCHANGED <<abi, ruleset, todo>>

(* MUTANT: HACMAN_CACHE is left as it was.                                 *)
PointIntoCacheTmpOnly ==
    /\ step = "point"
    /\ SetInner([Inner.env EXCEPT !.tmp = WorkIn[Inner.cache]])
    /\ step' = "abi"
    /\ UNCHANGED <<abi, ruleset, todo>>

(* TMPDIR and HACMAN_CACHE, of sandboxed projects.                         *)
PointIntoCache ==
    /\ step = "point"
    /\ SetInner([Inner.env EXCEPT !.tmp = WorkIn[Inner.cache], !.cache = Inner.cache])
    /\ step' = "abi"
    /\ UNCHANGED <<abi, ruleset, todo>>

(* MUTANT: any Landlock will do.                                           *)
AskAnyAbi ==
    /\ step = "abi" /\ abi >= 1
    /\ ruleset' = [handled |-> HandledAccess(abi), rules |-> {}]
    /\ todo' = <<Root, WorkIn[Inner.cache], Inner.cache>> \o Inner.project.dirs
    /\ step' = "rules"
    /\ UNCHANGED <<abi, frames>>

(* ABI 3 is the first that mediates truncation.                            *)
CreateRuleset ==
    /\ step = "abi" /\ abi >= 3
    /\ ruleset' = [handled |-> HandledAccess(abi), rules |-> {}]
    /\ todo' = <<Root, WorkIn[Inner.cache], Inner.cache>> \o Inner.project.dirs
    /\ step' = "rules"
    /\ UNCHANGED <<abi, frames>>

(* add_path_rule(), the first rule being the one of "/".  O_NOFOLLOW and   *)
(* O_DIRECTORY make open() fail where somebody put something else          *)
(* (ChildFails).                                                           *)
AddDirRule ==
    /\ step = "rules" /\ todo # <<>>
    /\ ruleset' = [ruleset EXCEPT !.rules = @ \cup
          {[at |-> Head(todo), rights |-> IF ruleset.rules = {} THEN ReadonlyAccess(abi)
                                          ELSE HandledAccess(abi)]}]
    /\ todo' = Tail(todo)
    /\ UNCHANGED <<abi, frames, step>>

AddNullRule ==
    /\ step = "rules" /\ todo = <<>>
    /\ ruleset' = [ruleset EXCEPT !.rules = @ \cup {[at |-> Null, rights |-> {"write"}]}]
    /\ step' = "restrict"
    /\ UNCHANGED <<abi, frames, todo>>

(* PR_SET_NO_NEW_PRIVS and landlock_restrict_self().                       *)
RestrictSelf ==
    /\ step = "restrict"
    /\ frames' = [frames EXCEPT ![Depth].layers = @ \cup {ruleset}]
    /\ step' = "exec" /\ ruleset' = NoRules
    /\ UNCHANGED <<abi, todo>>

ExecShell ==
    /\ step = "exec"
    /\ step' = "shell"
    /\ UNCHANGED <<abi, frames, ruleset, todo>>

(* Any of these calls fails, the kernel has no or too old a Landlock, or a *)
(* path is missing, a link or no directory: _exit() without a shell.       *)
ChildFails ==
    /\ step \in {"describe", "abi", "rules", "restrict", "exec"}
    /\ Leave

Child ==
    \/ DescribeProject \/ PointIntoCache \/ CreateRuleset \/ AddDirRule \/ AddNullRule
    \/ RestrictSelf \/ ExecShell \/ ChildFails

SandboxNext ==
    \/ \E pr \in Projects : StartRun(pr)
    \/ OpenCache \/ MakeTemp \/ GiveUp \/ ShellExits \/ Child

SandboxSpec == SandboxInit /\ [][SandboxNext]_sandboxVars

-----------------------------------------------------------------------------
(* The setups that run project-controlled code, from the outermost one.    *)
Running(i) == i \in 2..Depth /\ (i < Depth \/ step = "shell")

(* Where the project of frame i may write: its cache directory, what it    *)
(* was granted, and /dev/null.                                             *)
Granted(i, q) ==
    \/ <<q, frames[i].cache>> \in Within
    \/ \E n \in DOMAIN frames[i].project.dirs : <<q, frames[i].project.dirs[n]>> \in Within

(* "Sandbox setup fails closed": whatever runs below a sandboxed setup,    *)
(* nested hacman runs and their setups, sandboxed or not, with whatever    *)
(* cache and grants of their own, changes nothing outside what that setup  *)
(* may write.                                                              *)
ShellIsConfined ==
    \A i, j \in 2..Depth :
        Running(i) /\ i <= j /\ frames[i].project.sandboxed =>
            \A right \in Mutating, q \in Place :
                May(frames[j].layers, right, q) =>
                    Granted(i, q) \/ (right = "write" /\ <<q, Null>> \in Within)

(* "A nested hacman uses the very cache the sandbox allows" (README): a    *)
(* run that is not sent elsewhere by --cache finds its cache directory and *)
(* $TMPDIR usable, however deep it is nested.                              *)
NestedRunsWork == step = "refused" => Inner.project.option # NoCache

(* "A script never mistakes a parent's response file or work directory for *)
(* its own": the variables are those of the project's kind, and its own.   *)
EnvDescribesOwnProject ==
    \A i \in 2..Depth : Running(i) =>
        \A v \in Variable :
            frames[i].env.of[v] = IF v \in SetVariables(frames[i].project) THEN i ELSE 0
=============================================================================
