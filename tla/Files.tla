------------------------------- MODULE Files --------------------------------
(***************************************************************************)
(* Writing a project's files, one system call at a time: hm_unpack()       *)
(* (unpack.c), which any number of runs may do in the same directory, and  *)
(* hm_materialize_files() (install.c), which the holder of the update lock *)
(* does in its work directory.                                             *)
(*                                                                         *)
(* A path is a sequence of names below that directory.                     *)
(***************************************************************************)
EXTENDS Naturals, Sequences

CONSTANTS
    Pid,            \* processes
    FileLists,      \* the lists of embedded files, as sequences of paths
    Script,         \* install.sh or command.sh, as a path
    Somebody,       \* whoever else writes there: the user, a setup
    MaxChanges,     \* how often somebody does
    DiskFails       \* BOOLEAN: whether system calls fail

Below(dir, path) == Len(dir) < Len(path) /\ SubSeq(path, 1, Len(dir)) = dir
Parent(path) == SubSeq(path, 1, Len(path) - 1)

Written == {Script} \cup UNION {{fl[i] : i \in DOMAIN fl} : fl \in FileLists}
Node == UNION {{SubSeq(f, 1, n) : n \in DOMAIN f} : f \in Written}

Lost == <<"lost">>      \* where a directory was removed under its descriptor

ASSUME FilesAssumption ==
    /\ Written \cup {Lost} \subseteq Seq(STRING) \ {<<>>} /\ Lost \notin Node
    /\ FileLists \subseteq Seq(Written) /\ Len(Script) = 1
    /\ Somebody \notin Pid /\ MaxChanges \in Nat /\ DiskFails \in BOOLEAN

VARIABLES
    using,          \* "unpack" or "work"
    fileList,       \* the files of the project
    scripted,       \* it has an install script or a command
    tree,           \* what is there: kind, who put it there, complete or not
    temps,          \* the temporaries <target>.tmp.<pid>
    fstep,          \* where a process is
    nth,            \* which file it is at
    held,           \* the directory it has reached on the way to that file
    changes         \* how often somebody changed something

fileVars == <<using, fileList, scripted, tree, temps, fstep, nth, held, changes>>

Nothing == [kind |-> "none", by |-> Somebody, whole |-> TRUE]
Is(kind, p) == [kind |-> kind, by |-> p, whole |-> kind # "file"]
Complete(kind, p) == [kind |-> kind, by |-> p, whole |-> TRUE]

FilesInit ==
    /\ using \in {"unpack", "work"} /\ fileList \in FileLists /\ scripted \in BOOLEAN
    /\ tree = [n \in Node |-> Nothing]
    /\ temps = [p \in Pid |-> [n \in Node |-> "none"]]
    /\ fstep = [p \in Pid |-> "idle"]
    /\ nth = [p \in Pid |-> 1] /\ held = [p \in Pid |-> <<>>]
    /\ changes = 0

-----------------------------------------------------------------------------
ToWrite == IF using = "unpack" /\ scripted THEN Append(fileList, Script) ELSE fileList
Target(p) == ToWrite[nth[p]]
NextDir(p) == SubSeq(Target(p), 1, Len(held[p]) + 1)
Exists(n) == tree[n].kind # "none"
IsDir(n) == IF n = <<>> THEN TRUE ELSE n # Lost /\ tree[n].kind = "dir"
Children(n) == {m \in Node : Below(n, m) /\ Exists(m)}

FilesGoto(p, label) == fstep' = [fstep EXCEPT ![p] = label]
Put(n, entry) == tree' = [tree EXCEPT ![n] = entry]
askedFor == <<using, fileList, scripted>>

(* MUTANT: the last file, the script, is forgotten.                        *)
NextFileButLast(p) ==
    /\ nth' = [nth EXCEPT ![p] = @ + 1]
    /\ held' = [held EXCEPT ![p] = <<>>]
    /\ FilesGoto(p, IF nth[p] + 1 < Len(ToWrite) THEN "walk" ELSE "ok")

(* On to the next file, or done.                                           *)
NextFile(p) ==
    /\ nth' = [nth EXCEPT ![p] = @ + 1]
    /\ held' = [held EXCEPT ![p] = <<>>]
    /\ FilesGoto(p, IF nth[p] < Len(ToWrite) THEN "walk" ELSE "ok")

Begins(p) ==
    /\ nth' = [nth EXCEPT ![p] = 1] /\ held' = [held EXCEPT ![p] = <<>>]
    /\ FilesGoto(p, IF ToWrite = <<>> THEN "ok" ELSE "walk")

Fails(p) == FilesGoto(p, "failed") /\ UNCHANGED <<askedFor, tree, temps, nth, held, changes>>

Unpacks(p, label) == using = "unpack" /\ fstep[p] = label
Works(p, label) == using = "work" /\ fstep[p] = label

-----------------------------------------------------------------------------
(* hm_unpack()                                                             *)

(* A file in the script's place, or where it would have to be a directory. *)
Conflict == scripted /\ \E i \in DOMAIN fileList : fileList[i][1] = Script[1]

UnpackStarts(p) ==
    /\ Unpacks(p, "idle") /\ ~Conflict
    /\ Begins(p)
    /\ UNCHANGED <<askedFor, tree, temps, changes>>

UnpackRefused(p) == Unpacks(p, "idle") /\ (Conflict \/ DiskFails) /\ Fails(p)

InParent(p) == Len(held[p]) + 1 = Len(Target(p))

(* mkdirat(): what is there already is looked at by openat().              *)
MakeDirAt(p) ==
    /\ Unpacks(p, "walk") /\ held[p] # Lost /\ ~InParent(p)
    /\ IF Exists(NextDir(p)) THEN UNCHANGED tree ELSE Put(NextDir(p), Is("dir", p))
    /\ FilesGoto(p, "enter")
    /\ UNCHANGED <<askedFor, temps, nth, held, changes>>

(* MUTANT: openat() follows a link.                                        *)
EnterDirFollows(p) ==
    /\ Unpacks(p, "enter")
    /\ held[p] # Lost /\ tree[NextDir(p)].kind \in {"dir", "link"}
    /\ held' = [held EXCEPT ![p] = NextDir(p)]
    /\ FilesGoto(p, "walk")
    /\ UNCHANGED <<askedFor, tree, temps, nth, changes>>

(* openat() with O_DIRECTORY and O_NOFOLLOW.                               *)
EnterDir(p) ==
    /\ Unpacks(p, "enter")
    /\ held[p] # Lost /\ IsDir(NextDir(p))
    /\ held' = [held EXCEPT ![p] = NextDir(p)]
    /\ FilesGoto(p, "walk")
    /\ UNCHANGED <<askedFor, tree, temps, nth, changes>>

(* MUTANT: an existing file is taken and written over.                     *)
CreateOver(p) ==
    /\ Unpacks(p, "walk") /\ held[p] # Lost /\ InParent(p)
    /\ ~IsDir(Target(p))
    /\ Put(Target(p), Is("file", p))
    /\ FilesGoto(p, "write")
    /\ UNCHANGED <<askedFor, temps, nth, held, changes>>

(* openat() with O_EXCL.                                                   *)
Create(p) ==
    /\ Unpacks(p, "walk") /\ held[p] # Lost /\ InParent(p)
    /\ ~Exists(Target(p))
    /\ Put(Target(p), Is("file", p))
    /\ FilesGoto(p, "write")
    /\ UNCHANGED <<askedFor, temps, nth, held, changes>>

(* The call that is next finds something in the way, or fails.             *)
PathError(p) ==
    /\ using = "unpack" /\ fstep[p] \in {"walk", "enter"}
    /\ \/ DiskFails \/ held[p] = Lost
       \/ fstep[p] = "enter" /\ ~IsDir(NextDir(p))
       \/ fstep[p] = "walk" /\ InParent(p) /\ Exists(Target(p))
    /\ Fails(p)

(* The lines and fclose().                                                 *)
WriteExtracted(p) ==
    /\ Unpacks(p, "write")
    /\ Put(Target(p), Complete("file", p))
    /\ NextFile(p)
    /\ UNCHANGED <<askedFor, temps, changes>>

(* fdopen(), a write or fclose() fails: unlinkat().                        *)
WriteExtractedFails(p) ==
    /\ Unpacks(p, "write") /\ DiskFails
    /\ FilesGoto(p, "undo")
    /\ UNCHANGED <<askedFor, tree, temps, nth, held, changes>>

Undo(p) ==
    /\ Unpacks(p, "undo")
    /\ Put(Target(p), Nothing)
    /\ FilesGoto(p, "failed")
    /\ UNCHANGED <<askedFor, temps, nth, held, changes>>

-----------------------------------------------------------------------------
(* hm_materialize_files()                                                  *)

Writing(p) == fstep[p] \notin {"idle", "ok", "failed", "killed"}

(* Under the lock, in a work directory that was emptied or not.            *)
MaterializeStarts(p) ==
    /\ using = "work" /\ \A q \in Pid : ~Writing(q)
    /\ \/ tree' = [n \in Node |-> Nothing] /\ temps' = [q \in Pid |-> [n \in Node |-> "none"]]
       \/ UNCHANGED <<tree, temps>>
    /\ Begins(p)
    /\ UNCHANGED <<askedFor, changes>>

(* mkdir_p() of the parent, one mkdir() at a time; what is there already   *)
(* is found out by the next call.                                          *)
MakeDir(p) ==
    /\ Works(p, "walk") /\ ~InParent(p)
    /\ IF Exists(NextDir(p)) THEN UNCHANGED tree
       ELSE IsDir(held[p]) /\ Put(NextDir(p), Is("dir", p))
    /\ held' = [held EXCEPT ![p] = NextDir(p)]
    /\ UNCHANGED <<askedFor, temps, fstep, nth, changes>>

(* MUTANT: no temporary, the target itself is opened.                      *)
OpenTarget(p) ==
    /\ Works(p, "walk") /\ InParent(p) /\ IsDir(held[p])
    /\ ~IsDir(Target(p))
    /\ Put(Target(p), Is("file", p))
    /\ FilesGoto(p, "rename")
    /\ UNCHANGED <<askedFor, temps, nth, held, changes>>

(* open() of the temporary, with O_EXCL.                                   *)
OpenTemp(p) ==
    /\ Works(p, "walk") /\ InParent(p) /\ IsDir(held[p])
    /\ temps[p][Target(p)] = "none"
    /\ temps' = [temps EXCEPT ![p][Target(p)] = "open"]
    /\ FilesGoto(p, "write")
    /\ UNCHANGED <<askedFor, tree, nth, held, changes>>

MaterializeFails(p) ==
    /\ Works(p, "walk")
    /\ \/ DiskFails
       \/ ~IsDir(held[p]) /\ (InParent(p) \/ ~Exists(NextDir(p)))
       \/ InParent(p) /\ temps[p][Target(p)] # "none"
    /\ Fails(p)

WriteTemp(p) ==
    /\ Works(p, "write")
    /\ FilesGoto(p, "rename")
    /\ UNCHANGED <<askedFor, tree, temps, nth, held, changes>>

(* MUTANT: a failing rename() leaves the temporary behind.                 *)
TempFailsLeftBehind(p) ==
    /\ \/ Works(p, "write") /\ DiskFails /\ temps' = [temps EXCEPT ![p][Target(p)] = "none"]
       \/ Works(p, "rename") /\ (DiskFails \/ IsDir(Target(p))) /\ UNCHANGED temps
    /\ FilesGoto(p, "failed")
    /\ UNCHANGED <<askedFor, tree, nth, held, changes>>

(* fdopen(), a write, fclose() or rename() fails: unlink().                *)
TempFails(p) ==
    /\ \/ Works(p, "write") /\ DiskFails
       \/ Works(p, "rename") /\ (DiskFails \/ IsDir(Target(p)))
    /\ temps' = [temps EXCEPT ![p][Target(p)] = "none"]
    /\ FilesGoto(p, "failed")
    /\ UNCHANGED <<askedFor, tree, nth, held, changes>>

(* rename() over whatever is there but a directory.                        *)
RenameTemp(p) ==
    /\ Works(p, "rename") /\ ~IsDir(Target(p))
    /\ Put(Target(p), Complete("file", p))
    /\ temps' = [temps EXCEPT ![p][Target(p)] = "none"]
    /\ NextFile(p)
    /\ UNCHANGED <<askedFor, changes>>

-----------------------------------------------------------------------------
(* Everybody else.                                                         *)

KillWriter(p) ==
    /\ Writing(p)
    /\ FilesGoto(p, "killed")
    /\ temps' = [temps EXCEPT ![p] = [n \in Node |-> IF @[n] = "open" THEN "left" ELSE @[n]]]
    /\ UNCHANGED <<askedFor, tree, nth, held, changes>>

(* Somebody else makes a file, a directory or a link, or removes what is   *)
(* theirs: at any time in the target of --unpack, and in a work directory  *)
(* a setup does that, when its files have been written.                    *)
MayChange == changes < MaxChanges /\ (using = "unpack" \/ \A p \in Pid : ~Writing(p))

SomebodyPuts(n, kind) ==
    /\ MayChange /\ ~Exists(n) /\ IsDir(Parent(n))
    /\ using = "work" => kind # "link"
    /\ Put(n, Complete(kind, Somebody))
    /\ changes' = changes + 1
    /\ UNCHANGED <<askedFor, temps, fstep, nth, held>>

SomebodyTakes(n) ==
    /\ MayChange /\ Exists(n) /\ Children(n) = {}
    /\ using = "unpack" => tree[n].by = Somebody
    /\ Put(n, Nothing)
    /\ held' = [p \in Pid |-> IF held[p] = n THEN Lost ELSE held[p]]
    /\ changes' = changes + 1
    /\ UNCHANGED <<askedFor, temps, fstep, nth>>

Extract(p) ==
    \/ UnpackStarts(p) \/ UnpackRefused(p) \/ MakeDirAt(p) \/ EnterDir(p) \/ Create(p)
    \/ PathError(p) \/ WriteExtracted(p) \/ WriteExtractedFails(p) \/ Undo(p)
Materialize(p) ==
    \/ MaterializeStarts(p) \/ MakeDir(p) \/ OpenTemp(p) \/ MaterializeFails(p)
    \/ WriteTemp(p) \/ TempFails(p) \/ RenameTemp(p)

FilesNext ==
    \/ \E p \in Pid : Extract(p) \/ Materialize(p) \/ KillWriter(p)
    \/ \E n \in Node : SomebodyTakes(n) \/ \E kind \in {"file", "dir", "link"} : SomebodyPuts(n, kind)

FilesSpec == FilesInit /\ [][FilesNext]_fileVars

-----------------------------------------------------------------------------
(* A file in a work directory is complete whenever it is there, also when  *)
(* hacman is killed in between ("rename" of write_embedded_file()).        *)
TargetsAreWhole == using = "work" => \A n \in Node : tree[n].whole

(* A process that has finished has written every file of the project       *)
(* itself, completely; --unpack the script too.                            *)
SucceedsWithAllFiles ==
    [][\A p \in Pid : fstep[p] # "ok" /\ fstep'[p] = "ok" =>
          \A i \in DOMAIN ToWrite :
              tree'[ToWrite[i]] = Complete("file", p)]_fileVars

(* "Remove only our own newly created file if writing it fails": unless it *)
(* is killed, a process leaves no incomplete file and no temporary behind. *)
LeavesNothingHalf ==
    \A p \in Pid : fstep[p] \in {"ok", "failed"} =>
        \A n \in Node : (tree[n].by = p => tree[n].whole) /\ temps[p][n] # "open"

(* "Existing files and symlinks inside the target are refused" (README):   *)
(* what another unpacking run or the user put there stays as it is.        *)
UnpackSparesOthers ==
    [][\A p \in Pid, n \in Node :
          using = "unpack" /\ fstep'[p] # fstep[p] /\ tree'[n] # tree[n] =>
              ~Exists(n) \/ tree[n].by = p]_fileVars

(* "An existing symlink cannot redirect extraction outside the selected    *)
(* target": the directory a process has reached is a real one in it.       *)
UnpackStaysInTarget ==
    \A p \in Pid : using = "unpack" /\ held[p] \notin {Lost, <<>>} => tree[held[p]].kind = "dir"
=============================================================================
