---------------------------- MODULE ProjectFile -----------------------------
(***************************************************************************)
(* hm_config_parse() (config.c): how the events of a SIML stream become    *)
(* the one project the rest of hacman works on, and the choice of the      *)
(* program by the name FILE was invoked under.                             *)
(*                                                                         *)
(* The parser keeps flags, not a stack: which nested list or mapping an    *)
(* entry belongs to is what the events before it left in them.  The        *)
(* vendored SIML reader is the environment: `nest`, `header` and `fresh`   *)
(* say which events it can produce next.                                   *)
(***************************************************************************)
EXTENDS Schedule, Sequences, FiniteSets

CONSTANTS
    Path, Form,         \* path templates, and what they expand to: FormKind
    Name, FileName,     \* program names; names of embedded files
    Schedules,          \* the values of `schedule` written, parse_schedule()
    DefaultInterval,    \* 86400
    MaxFiles, MaxNames, MaxDirs,    \* HM_FILES_MAX, ...
    MaxEntries,         \* bound on the entries of a file
    NoPath, NoName

FormKind == {"absolute", "relative", "unsafe", "unset"}

ASSUME FileAssumption ==
    /\ Form \in [Path -> FormKind]
    /\ NoPath \notin Path /\ NoName \notin Name
    /\ Schedules \subseteq [sched: SchedKind, interval: Int]
    /\ DefaultInterval \in Int
    /\ MaxFiles \in Nat /\ MaxNames \in Nat /\ MaxDirs \in Nat /\ MaxEntries \in Nat

CheckKind == {"etag", "hash", "version"}
NestedKey == {"files", "bin-path", "sandbox-write-dirs"}

VARIABLES
    nest, header, fresh,        \* SIML: open containers, a `key:` line before
                                \* one, and whether the last one is still empty
    entries,                    \* SIML: how many entries there were
    started, finished,          \* hm_cfg: the project's mapping was opened, closed
    seen, pending, inside,      \* hm_cfg: seen_*, pending_* and in_*
    proj, files, names, dirs,   \* hm_project
    listed,                     \* history: the bin-path mapping as written
    invoked, own,               \* the names FILE was given as and really has
    outcome

simlVars == <<nest, header, fresh, entries>>
cfgVars == <<started, finished, seen, pending, inside>>
projVars == <<proj, files, names, dirs, listed>>
nameVars == <<invoked, own>>
vars == <<nest, header, fresh, entries, started, finished, seen, pending, inside,
          proj, files, names, dirs, listed, invoked, own, outcome>>

Fields == [url: BOOLEAN, command: BOOLEAN, check: CheckKind, prefix: BOOLEAN,
           sched: SchedKind, interval: Int, explicit: BOOLEAN, sandboxed: BOOLEAN,
           install: BOOLEAN, bin: Path \cup {NoPath}, binDefault: Path \cup {NoPath},
           choice: {"single", "named", "default"}]

(* What begin_project() fills in.                                          *)
Blank == [url |-> FALSE, command |-> FALSE, check |-> "etag", prefix |-> FALSE,
          sched |-> "every", interval |-> DefaultInterval, explicit |-> FALSE,
          sandboxed |-> TRUE, install |-> FALSE, bin |-> NoPath, binDefault |-> NoPath,
          choice |-> "single"]

Init ==
    /\ nest = <<>> /\ header = FALSE /\ fresh = FALSE /\ entries = 0
    /\ started = FALSE /\ finished = FALSE
    /\ seen = {} /\ pending = {} /\ inside = {}
    /\ proj = Blank /\ files = {} /\ names = <<>> /\ dirs = <<>>
    /\ listed = [n \in Name |-> NoPath]
    /\ invoked \in Name \cup {NoName} /\ own \in Name
    /\ outcome = "reading"

Reject == outcome' = "rejected" /\ UNCHANGED <<simlVars, cfgVars, projVars, nameVars>>

-----------------------------------------------------------------------------
(* What SIML's reader can come up with.                                    *)

Innermost == nest[Len(nest)]
In(kind) == outcome = "reading" /\ nest # <<>> /\ ~header /\ Innermost = kind
Open(kind, flow) ==
    nest' = Append(nest, kind) /\ header' = FALSE /\ fresh' = ~flow /\ UNCHANGED entries
Close ==
    /\ nest' = SubSeq(nest, 1, Len(nest) - 1)
    /\ fresh' = FALSE
    /\ UNCHANGED <<header, entries>>
(* An entry of the innermost container.                                    *)
Entry ==
    /\ entries < MaxEntries
    /\ entries' = entries + 1 /\ fresh' = FALSE /\ UNCHANGED nest
Line == Entry /\ UNCHANGED header

-----------------------------------------------------------------------------
(* Documents, and the mapping that is the project.                         *)

(* A document starts with its root: begin_project().                       *)
Root(kind) ==
    /\ outcome = "reading" /\ nest = <<>>
    /\ IF started \/ kind = "seq" THEN Reject
       ELSE /\ started' = TRUE /\ Open("map", FALSE)
            /\ UNCHANGED <<finished, seen, pending, inside, projVars, nameVars, outcome>>

(* What kind of project it is, by finish_project(), and what that rules    *)
(* out whatever the order of the entries was.                              *)
WrongKind ==
    \/ proj.url = proj.command
    \/ proj.command /\ seen \cap {"check", "version", "install"} # {}
    \/ proj.url /\ ("files" \in seen \/ (proj.check = "version" /\ ~proj.prefix))

(* expand_template() and valid_relative_path() of the selected program.    *)
BinFails ==
    /\ proj.bin # NoPath
    /\ \/ Form[proj.bin] \in {"unset", "unsafe"}
       \/ Form[proj.bin] = "relative" /\ files = {} /\ ~proj.sandboxed

DirsFail ==
    dirs # <<>> /\ (~proj.sandboxed \/ \E i \in DOMAIN dirs : Form[dirs[i]] # "absolute")

(* MUTANT: write directories outside the sandbox are let through.          *)
FinishFailsNot == WrongKind \/ "bin-path" \in pending \/ BinFails

FinishFails == WrongKind \/ "bin-path" \in pending \/ BinFails \/ DirsFail

ClosesProject == In("map") /\ ~fresh /\ inside \cap {"files", "bin-path"} = {}

FinishProject ==
    /\ ClosesProject
    /\ IF FinishFails THEN Reject
       ELSE /\ finished' = TRUE /\ Close
            /\ UNCHANGED <<started, seen, pending, inside, projVars, nameVars, outcome>>

(* STREAM_END.                                                             *)
StreamEnd ==
    /\ outcome = "reading" /\ nest = <<>>
    /\ IF ~finished THEN Reject
       ELSE outcome' = "parsed" /\ UNCHANGED <<simlVars, cfgVars, projVars, nameVars>>

-----------------------------------------------------------------------------
(* Nested lists and mappings.                                              *)

(* MUTANT: nothing remembers that the project has files.                   *)
HeaderNotSeen(key) ==
    /\ In("map")
    /\ IF inside # {} \/ (key \in {"bin-path", "sandbox-write-dirs"} /\ key \in seen)
       THEN Reject
       ELSE /\ Entry /\ header' = TRUE
            /\ seen' = seen \cup ({key} \cap (NestedKey \ {"files"}))
            /\ pending' = pending \cup ({key} \cap NestedKey)
            /\ UNCHANGED <<started, finished, inside, projVars, nameVars, outcome>>

(* MAPPING_ENTRY_HEADER: a `key:` line, its list or mapping comes next.    *)
Header(key) ==
    /\ In("map")
    /\ IF inside # {} \/ (key \in {"bin-path", "sandbox-write-dirs"} /\ key \in seen)
       THEN Reject
       ELSE /\ Entry /\ header' = TRUE
            /\ seen' = seen \cup ({key} \cap NestedKey)
            /\ pending' = pending \cup ({key} \cap NestedKey)
            /\ UNCHANGED <<started, finished, inside, projVars, nameVars, outcome>>

(* SEQUENCE_START: after a header, as `key: [...]`, or in a sequence.      *)
SequenceStart(key, flow) ==
    /\ \/ outcome = "reading" /\ header /\ key = "" /\ ~flow
       \/ In("map") /\ key # "" /\ flow /\ entries < MaxEntries
       \/ In("seq") /\ key = ""
    /\ LET waited == "sandbox-write-dirs" \in pending
       IN IF ~(waited \/ (key = "sandbox-write-dirs" /\ key \notin seen)) THEN Reject
          ELSE /\ seen' = seen \cup {"sandbox-write-dirs"}
               /\ pending' = pending \ {"sandbox-write-dirs"}
               /\ inside' = inside \cup {"sandbox-write-dirs"}
               /\ Open("seq", flow)
               /\ UNCHANGED <<started, finished, projVars, nameVars, outcome>>

(* MUTANT: the end of a list forgets the mapping it is in.                 *)
SequenceEndForgets ==
    /\ In("seq") /\ ~fresh
    /\ inside' = {}
    /\ Close
    /\ UNCHANGED <<started, finished, seen, pending, projVars, nameVars, outcome>>

SequenceEnd ==
    /\ In("seq") /\ ~fresh
    /\ inside' = inside \ {"sandbox-write-dirs"}
    /\ Close
    /\ UNCHANGED <<started, finished, seen, pending, projVars, nameVars, outcome>>

(* MAPPING_START below the root: the first pending one that is a mapping.  *)
MappingStart ==
    /\ outcome = "reading" /\ (header \/ In("seq"))
    /\ LET awaited == IF "files" \in pending THEN {"files"} ELSE pending \cap {"bin-path"}
       IN IF awaited = {} THEN Reject
          ELSE /\ pending' = pending \ awaited /\ inside' = inside \cup awaited
               /\ Open("map", FALSE)
               /\ UNCHANGED <<started, finished, seen, projVars, nameVars, outcome>>

FilesEnd ==
    /\ In("map") /\ ~fresh /\ "files" \in inside
    /\ inside' = inside \ {"files"}
    /\ Close
    /\ UNCHANGED <<started, finished, seen, pending, projVars, nameVars, outcome>>

(* MUTANT: the first entry wins although the invoked name is listed.       *)
SettledFirst == [proj EXCEPT !.bin = proj.binDefault, !.choice = "default"]

(* finish_bin_map(): without a match the first entry is the candidate.     *)
Settled ==
    IF proj.choice = "named" THEN proj
    ELSE [proj EXCEPT !.bin = proj.binDefault, !.choice = "default"]

BinMapEnd ==
    /\ In("map") /\ ~fresh /\ "files" \notin inside /\ "bin-path" \in inside
    /\ IF names = <<>> THEN Reject
       ELSE /\ proj' = Settled
            /\ inside' = inside \ {"bin-path"}
            /\ Close
            /\ UNCHANGED <<started, finished, seen, pending, files, names, dirs, listed,
                           nameVars, outcome>>

-----------------------------------------------------------------------------
(* Entries of nested lists and mappings.                                   *)

(* MUTANT: the limit is off by one.                                        *)
DirsOverfull == Len(dirs) = MaxDirs + 1

DirsFull == Len(dirs) = MaxDirs

AddDir(path) ==
    /\ In("seq")
    /\ IF "sandbox-write-dirs" \notin inside \/ DirsFull THEN Reject
       ELSE /\ Line
            /\ dirs' = Append(dirs, path)
            /\ UNCHANGED <<cfgVars, proj, files, names, listed, nameVars, outcome>>

(* add_file()                                                              *)
AddFile(name) ==
    /\ In("map") /\ "files" \in inside
    /\ IF name \in files \/ Cardinality(files) = MaxFiles THEN Reject
       ELSE /\ Line
            /\ files' = files \cup {name}
            /\ UNCHANGED <<cfgVars, proj, names, dirs, listed, nameVars, outcome>>

(* add_bin_entry()                                                         *)
AddBinEntry(name, path) ==
    /\ In("map") /\ "bin-path" \in inside
    /\ IF (\E i \in DOMAIN names : names[i] = name) \/ Len(names) = MaxNames THEN Reject
       ELSE /\ Line
            /\ names' = Append(names, name)
            /\ listed' = [listed EXCEPT ![name] = path]
            /\ LET first == IF names = <<>> THEN [proj EXCEPT !.binDefault = path] ELSE proj
               IN proj' = IF name = invoked
                          THEN [first EXCEPT !.bin = path, !.choice = "named"]
                          ELSE first
            /\ UNCHANGED <<cfgVars, files, dirs, nameVars, outcome>>

(* A scalar among the files, an entry that is empty, too long or of an     *)
(* unknown key, a block scalar or a nested container out of its place.     *)
BadEntry == outcome = "reading" /\ nest # <<>> /\ ~header /\ Reject

-----------------------------------------------------------------------------
(* The project's own entries (apply_field).                                *)

InProject == In("map") /\ inside = {}
Field(key, p) ==
    /\ InProject /\ Line
    /\ proj' = p
    /\ seen' = seen \cup ({key} \cap {"check", "version", "install", "bin-path"})
    /\ UNCHANGED <<started, finished, pending, inside, files, names, dirs, listed,
                   nameVars, outcome>>

SetSubject ==
    \E key \in {"url", "command"} : Field(key, [proj EXCEPT ![key] = TRUE])
SetCheck == \E k \in CheckKind : Field("check", [proj EXCEPT !.check = k])
SetSchedule ==
    \E s \in Schedules :
        Field("schedule", [proj EXCEPT !.sched = s.sched, !.explicit = TRUE,
                                       !.interval = IF s.sched = "every" THEN s.interval ELSE @])
SetSandboxed == \E b \in BOOLEAN : Field("sandboxed", [proj EXCEPT !.sandboxed = b])
SetPrefix == Field("version", [proj EXCEPT !.prefix = TRUE])
SetSuffix == Field("version", proj)

SetBin(path) ==
    \/ InProject /\ "bin-path" \in seen /\ Reject
    \/ "bin-path" \notin seen /\ Field("bin-path", [proj EXCEPT !.bin = path])

(* `install: ...`, or a block scalar, which a bin-path mapping takes too.  *)
SetInstall ==
    /\ In("map") /\ "files" \notin inside /\ Line
    /\ proj' = [proj EXCEPT !.install = TRUE]
    /\ seen' = seen \cup {"install"}
    /\ UNCHANGED <<started, finished, pending, inside, files, names, dirs, listed,
                   nameVars, outcome>>

-----------------------------------------------------------------------------
(* main(): a project whose mapping does not list the invoked name is for   *)
(* the file itself and standard input only (confirm_default_bin).          *)
ConfirmBin ==
    /\ outcome = "parsed"
    /\ outcome' = IF proj.choice = "default" /\ invoked \notin {NoName, own}
                  THEN "rejected" ELSE "accepted"
    /\ UNCHANGED <<simlVars, cfgVars, projVars, nameVars>>

Next ==
    \/ \E kind \in {"map", "seq"} : Root(kind)
    \/ FinishProject \/ StreamEnd \/ ConfirmBin
    \/ \E key \in NestedKey \cup {"other"} : Header(key)
    \/ \E key \in NestedKey \cup {"other", ""}, flow \in BOOLEAN : SequenceStart(key, flow)
    \/ SequenceEnd \/ MappingStart \/ FilesEnd \/ BinMapEnd
    \/ \E path \in Path : AddDir(path) \/ SetBin(path)
    \/ \E name \in FileName : AddFile(name)
    \/ \E name \in Name, path \in Path : AddBinEntry(name, path)
    \/ BadEntry
    \/ SetSubject \/ SetCheck \/ SetSchedule \/ SetSandboxed \/ SetPrefix \/ SetSuffix
    \/ SetInstall

Spec == Init /\ [][Next]_vars

-----------------------------------------------------------------------------
TypeOK ==
    /\ nest \in Seq({"map", "seq"}) /\ header \in BOOLEAN /\ fresh \in BOOLEAN
    /\ entries \in 0..MaxEntries
    /\ started \in BOOLEAN /\ finished \in BOOLEAN
    /\ seen \subseteq NestedKey \cup {"check", "version", "install"}
    /\ pending \subseteq NestedKey /\ inside \subseteq NestedKey
    /\ proj \in Fields
    /\ files \subseteq FileName /\ IsFiniteSet(files) /\ Cardinality(files) <= MaxFiles
    /\ names \in Seq(Name) /\ Len(names) <= MaxNames
    /\ dirs \in Seq(Path) /\ Len(dirs) <= MaxDirs
    /\ listed \in [Name -> Path \cup {NoPath}]
    /\ invoked \in Name \cup {NoName} /\ own \in Name
    /\ outcome \in {"reading", "rejected", "parsed", "accepted"}

Taken == outcome \in {"parsed", "accepted"}

(* The flags of hm_cfg stay what a stack of the open containers would say: *)
(* no nested list or mapping leaves one behind that makes a later entry    *)
(* land in the wrong place, and no pending one is lost or left over.       *)
FlagsFollowNesting ==
    /\ "sandbox-write-dirs" \in inside <=> nest # <<>> /\ Innermost = "seq"
    /\ inside \cap {"files", "bin-path"} # {} <=> Len(nest) >= 2 /\ nest[2] = "map"
    /\ ~({"files", "bin-path"} \subseteq inside)
    /\ pending # {} => header

(* The project as the rest of hacman sees it.                              *)
AsProject ==
    [kind |-> IF proj.command THEN "command" ELSE "url",
     files |-> files # {},
     script |-> proj.command \/ proj.install,
     sched |-> proj.sched, interval |-> proj.interval, explicit |-> proj.explicit,
     bin |-> IF proj.bin = NoPath THEN "none"
             ELSE IF Form[proj.bin] = "absolute" THEN "host" ELSE "cached"]

(* Whatever is written and in whatever order, a project that is taken is   *)
(* one that Hacman.tla's runs start from.                                  *)
ParsedIsAccepted == Taken => AsProject \in Project /\ Accepted(AsProject)

(* README's rules between the entries hold of the project that is taken,   *)
(* although each entry is applied before the others are known.             *)
RulesHold ==
    Taken =>
        /\ proj.url # proj.command
        /\ proj.install => proj.url
        /\ proj.check = "version" => proj.url /\ proj.prefix
        /\ dirs # <<>> => proj.sandboxed
        /\ \A i \in DOMAIN dirs : Form[dirs[i]] = "absolute"
        /\ proj.bin # NoPath /\ files = {} /\ ~proj.sandboxed => Form[proj.bin] = "absolute"

(* README, "One file, several programs": of a mapping, a listed name runs  *)
(* its program; the file's own name and standard input run the first       *)
(* entry; any other name runs nothing.                                     *)
RightProgram ==
    outcome = "accepted" /\ names # <<>> =>
        IF invoked \in Name /\ listed[invoked] # NoPath
        THEN proj.bin = listed[invoked]
        ELSE invoked \in {own, NoName} /\ proj.bin = listed[names[1]]

=============================================================================
