------------------------------ MODULE MCFiles -------------------------------
(***************************************************************************)
(* Three parts of hacman that share no state: the reading of a project     *)
(* file (ProjectFile.tla), the writing of its files (Files.tla), and the   *)
(* lines that are shown (Diagnostics.tla).  Which one is at work is chosen *)
(* at the start, so that their state spaces add up instead of multiplying. *)
(***************************************************************************)
EXTENDS MCProjectFile, Files, Diagnostics

MCFileLists == {<<<<"a">>, <<"d", "b">>>>, <<<<"install.sh">>>>}
MCScript == <<"install.sh">>

(* Output that ends in the middle of a line, and holds a mark of its own,  *)
(* as that of a nested run does.                                           *)
MCOutputs == {<<"text", "nl", "hac", "man:", "text">>}
MCStatuses == {<<"status", "nl">>, <<"status", "nl", "status", "nl">>}
MCNotes == {<<"hac", "man:", "text", "nl", "text", "nl">>}

VARIABLE part
partVars == <<part, vars, fileVars, outputVars>>

(* A part that is not at work starts in one of its initial states.  Names  *)
(* are alike, so that the file's own may be any one of them.               *)
PartsInit ==
    /\ part \in {"parse", "write", "show"}
    /\ Init /\ FilesInit /\ OutputInit
    /\ own = CHOOSE n \in Name : TRUE
    /\ part = "parse" \/ invoked = NoName
    /\ part = "write" \/ (using = "work" /\ fileList = <<MCScript>> /\ ~scripted)
    /\ part = "show" \/ outFd = 1

PartsNext ==
    /\ UNCHANGED part
    /\ \/ part = "parse" /\ Next /\ UNCHANGED <<fileVars, outputVars>>
       \/ part = "write" /\ FilesNext /\ UNCHANGED <<vars, outputVars>>
       \/ part = "show" /\ OutputNext /\ UNCHANGED <<vars, fileVars>>

PartsSpec == PartsInit /\ [][PartsNext]_partVars
=============================================================================
