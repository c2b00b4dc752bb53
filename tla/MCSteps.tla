------------------------------- MODULE MCSteps ------------------------------
(***************************************************************************)
(* Three parts of a hacman run that share no state, Fetch.tla,             *)
(* SetupChild.tla and SetupSignals.tla, as TLC runs them: which one is at  *)
(* work is chosen at the start, so that their state spaces add up instead  *)
(* of multiplying.                                                         *)
(***************************************************************************)
EXTENDS Fetch, SetupChild, SetupSignals, TLC

(* Answers with one, two or no entity tags, a version and what is around   *)
(* it, and one longer than the buffer.                                     *)
MCResponses ==
    {<<"etag:", "blank", "text", "cr", "nl", "last-modified:", "more", "nl">>,
     <<"last-modified:", "more", "nl", "etag:", "text", "nl">>,
     <<"prefix", "blank", "text", "more", "suffix", "text">>,
     <<"prefix", "text", "blank", "cr", "nl", "more">>,
     <<"text", "suffix", "prefix", "nl", "more">>, <<>>}

(* A home cache, and another one in a directory that projects may grant.   *)
MCPlace == {"/", "/dev/null", "/tmp", "home", "homeWork", "granted", "other", "otherWork"}
MCWithin ==
    {<<q, q>> : q \in MCPlace} \cup {<<q, "/">> : q \in MCPlace}
    \cup {<<"homeWork", "home">>, <<"otherWork", "other">>, <<"other", "granted">>,
          <<"otherWork", "granted">>}
MCCache == {"home", "other"}
MCWorkIn == "home" :> "homeWork" @@ "other" :> "otherWork"

Sandboxing == {<<TRUE, <<>>>>, <<TRUE, <<"granted">>>>, <<FALSE, <<>>>>}
MCProjects ==
    {[kind |-> "command", response |-> FALSE, sandboxed |-> s[1], dirs |-> s[2], option |-> o] :
        s \in Sandboxing, o \in {"none", "other"}}
    \cup {[kind |-> "url", response |-> r, sandboxed |-> s, dirs |-> <<>>, option |-> "none"] :
        r \in BOOLEAN, s \in BOOLEAN}

VARIABLE part
stepsVars == <<part, fetchVars, sandboxVars, vars>>

StepsInit ==
    /\ part \in {"fetch", "sandbox", "signals"}
    /\ FetchInit /\ Init
    /\ IF part = "sandbox" THEN SandboxInit
       ELSE /\ abi = 0 /\ frames = <<UserFrame(NoCache)>> /\ step = "shell"
            /\ ruleset = NoRules /\ todo = <<>>

StepsNext ==
    /\ UNCHANGED part
    /\ \/ part = "fetch" /\ FetchNext /\ UNCHANGED <<sandboxVars, vars>>
       \/ part = "sandbox" /\ SandboxNext /\ UNCHANGED <<fetchVars, vars>>
       \/ part = "signals" /\ Next /\ UNCHANGED <<fetchVars, sandboxVars>>

StepsSpec ==
    /\ StepsInit /\ [][StepsNext]_stepsVars
    /\ WF_fetchVars(part = "fetch" /\ Fetching) /\ WF_fetchVars(part = "fetch" /\ Curl)
    /\ WF_vars(part = "signals" /\ HacmanStep) /\ WF_vars(part = "signals" /\ ChildStep)
=============================================================================
