---------------------------- MODULE FilesProofs -----------------------------
(***************************************************************************)
(* The properties of Files.tla for any number of processes and files, any  *)
(* directory depth, and any number of changes by somebody else.            *)
(***************************************************************************)
EXTENDS Files, SequenceTheorems, TLAPS

Entry == [kind : {"none", "file", "dir", "link"}, by : Pid \cup {Somebody}, whole : BOOLEAN]

FilesTypeOK ==
    /\ using \in {"unpack", "work"} /\ fileList \in FileLists /\ scripted \in BOOLEAN
    /\ tree \in [Node -> Entry]
    /\ temps \in [Pid -> [Node -> {"none", "open", "left"}]]
    /\ fstep \in [Pid -> {"idle", "walk", "enter", "write", "undo", "rename",
                          "ok", "failed", "killed"}]
    /\ nth \in [Pid -> Nat \ {0}]
    /\ held \in [Pid -> Seq(STRING)]

(* Where a process is on the way to its file.                              *)
OnTheWay(p) ==
    /\ Writing(p) => nth[p] \in DOMAIN ToWrite
    /\ fstep[p] = "walk" /\ held[p] # Lost => Len(held[p]) < Len(Target(p))
    /\ fstep[p] = "enter" /\ held[p] # Lost => Len(held[p]) + 1 < Len(Target(p))
    /\ fstep[p] \in {"enter", "undo"} => using = "unpack"
    /\ fstep[p] = "rename" => using = "work"
    /\ using = "work" /\ Writing(p) => held[p] # Lost

(* The directory it holds is one, and the file it has open is its own.     *)
HeldIsDir(p) ==
    using = "unpack" /\ held[p] \notin {Lost, <<>>} =>
        held[p] \in Node /\ tree[held[p]].kind = "dir"
OpenIsOwn(p) ==
    using = "unpack" /\ fstep[p] \in {"write", "undo"} => tree[Target(p)] = Is("file", p)

(* What is incomplete, or temporary, is being written.                     *)
HalfAtWork(p) ==
    \A n \in Node : tree[n].by = p /\ ~tree[n].whole =>
        /\ using = "unpack"
        /\ fstep[p] = "killed" \/ (fstep[p] \in {"write", "undo"} /\ n = Target(p))
OpenAtWork(p) ==
    \A n \in Node : temps[p][n] = "open" =>
        using = "work" /\ fstep[p] \in {"write", "rename"} /\ n = Target(p)

(* The files it is done with stay as it left them.                         *)
DoneStays(p) ==
    Writing(p) =>
        \A i \in DOMAIN ToWrite : i < nth[p] => tree[ToWrite[i]] = Complete("file", p)

Sound(p) ==
    OnTheWay(p) /\ HeldIsDir(p) /\ OpenIsOwn(p) /\ HalfAtWork(p) /\ OpenAtWork(p) /\ DoneStays(p)

OthersAreWhole == \A n \in Node : tree[n].by = Somebody => tree[n].whole
OneMaterializes == using = "work" => \A p, q \in Pid : Writing(p) /\ Writing(q) => p = q

FilesInv ==
    FilesTypeOK /\ OthersAreWhole /\ OneMaterializes /\ \A p \in Pid : Sound(p)

-----------------------------------------------------------------------------
(* Paths.                                                                  *)

LEMMA WrittenAreNodes ==
    \A f \in Written : f \in Seq(STRING) /\ Len(f) \in Nat \ {0} /\ f \in Node
<1> SUFFICES ASSUME NEW f \in Written PROVE f \in Seq(STRING) /\ Len(f) \in Nat \ {0} /\ f \in Node
  OBVIOUS
<1>1. f \in Seq(STRING) /\ f # <<>>
  BY FilesAssumption
<1>2. Len(f) \in Nat \ {0} /\ Len(f) \in DOMAIN f
  BY <1>1
<1>3. SubSeq(f, 1, Len(f)) = f
  BY <1>1, SubSeqFull
<1>4. f \in {SubSeq(f, 1, n) : n \in DOMAIN f}
  BY <1>2, <1>3
<1> QED
  BY <1>1, <1>2, <1>4 DEF Node

LEMMA ListsAreWritten == ASSUME FilesTypeOK PROVE ToWrite \in Seq(Written)
<1>1. fileList \in Seq(Written)
  BY FilesAssumption DEF FilesTypeOK
<1>2. Script \in Written
  BY DEF Written
<1> QED
  BY <1>1, <1>2 DEF ToWrite

LEMMA TargetIsNode ==
    ASSUME FilesTypeOK, NEW p \in Pid, nth[p] \in DOMAIN ToWrite
    PROVE  Target(p) \in Seq(STRING) /\ Len(Target(p)) \in Nat \ {0} /\ Target(p) \in Node
<1>1. Target(p) \in Written
  BY ListsAreWritten DEF Target
<1> QED
  BY <1>1, WrittenAreNodes

LEMMA NextDirIsNode ==
    ASSUME FilesTypeOK, NEW p \in Pid, nth[p] \in DOMAIN ToWrite,
           Len(held[p]) + 1 <= Len(Target(p))
    PROVE  /\ NextDir(p) \in Node /\ NextDir(p) \in Seq(STRING)
           /\ NextDir(p) # <<>> /\ Len(NextDir(p)) = Len(held[p]) + 1
<1> DEFINE n == Len(held[p]) + 1
           f == Target(p)
<1>1. f \in Seq(STRING) /\ f \in Written
  BY TargetIsNode, ListsAreWritten DEF Target
<1>2. n \in 1..Len(f) /\ n \in DOMAIN f
  BY <1>1 DEF FilesTypeOK
<1>3. SubSeq(f, 1, n) \in Node
  BY <1>1, <1>2 DEF Node
<1>4. \A i \in 1..n : f[i] \in STRING
  BY <1>1, <1>2
<1> HIDE DEF n, f
<1>5. SubSeq(f, 1, n) \in Seq(STRING) /\ Len(SubSeq(f, 1, n)) = n
  BY <1>2, <1>4, SubSeqProperties
<1>6. SubSeq(f, 1, n) # <<>>
  BY <1>2, <1>5
<1> QED
  BY <1>3, <1>5, <1>6 DEF NextDir, n, f



LEMMA Entries ==
    ASSUME NEW p \in Pid \cup {Somebody}
    PROVE  /\ Nothing \in Entry /\ Nothing.whole /\ Nothing.kind = "none"
           /\ Is("dir", p) \in Entry /\ Is("dir", p).whole
           /\ Is("dir", p).kind = "dir" /\ Is("dir", p).by = p
           /\ Is("file", p) \in Entry /\ ~Is("file", p).whole
           /\ Is("file", p).kind = "file" /\ Is("file", p).by = p
           /\ \A kind \in {"file", "dir", "link"} :
                 /\ Complete(kind, p) \in Entry /\ Complete(kind, p).whole
                 /\ Complete(kind, p).kind = kind /\ Complete(kind, p).by = p
<1>1. Nothing \in Entry /\ Nothing.whole /\ Nothing.kind = "none"
  BY DEF Nothing, Entry
<1>2. /\ Is("dir", p) \in Entry /\ Is("dir", p).whole
      /\ Is("dir", p).kind = "dir" /\ Is("dir", p).by = p
  BY DEF Is, Entry
<1>3. /\ Is("file", p) \in Entry /\ ~Is("file", p).whole
      /\ Is("file", p).kind = "file" /\ Is("file", p).by = p
  BY DEF Is, Entry
<1>4. \A kind \in {"file", "dir", "link"} :
                 /\ Complete(kind, p) \in Entry /\ Complete(kind, p).whole
                 /\ Complete(kind, p).kind = kind /\ Complete(kind, p).by = p
  BY DEF Complete, Entry
<1> QED
  BY <1>1, <1>2, <1>3, <1>4

LEMMA PutAt ==
    ASSUME FilesTypeOK, NEW n, NEW e \in Entry, Put(n, e)
    PROVE  /\ tree' \in [Node -> Entry]
           /\ \A m \in Node : m # n => tree'[m] = tree[m]
           /\ n \in Node => tree'[n] = e
BY DEF FilesTypeOK, Put

-----------------------------------------------------------------------------
(* What a step of p, or of somebody else, leaves alone.                    *)

Frame(p) ==
    /\ using' = using /\ ToWrite' = ToWrite
    /\ \A q \in Pid \ {p} :
          /\ fstep'[q] = fstep[q] /\ nth'[q] = nth[q] /\ held'[q] = held[q]
          /\ \A n \in Node : temps'[q][n] = "open" => temps[q][n] = "open"
          /\ using = "work" => ~Writing(q)
    /\ \A n \in Node : tree'[n] # tree[n] =>
          /\ (p \in Pid /\ tree'[n].by = p) \/ tree'[n].whole
          /\ using = "unpack" => tree[n].kind = "none" \/ tree[n] = Is("file", p)

LEMMA OthersKeep ==
    ASSUME FilesInv, NEW p \in Pid \cup {Somebody}, Frame(p),
           FilesTypeOK', NEW q \in Pid, q # p
    PROVE  Sound(q)'
<1> USE DEF FilesInv, Sound
<1>0. /\ using' = using /\ ToWrite' = ToWrite
      /\ fstep'[q] = fstep[q] /\ nth'[q] = nth[q] /\ held'[q] = held[q]
      /\ Target(q)' = Target(q) /\ (Writing(q)' <=> Writing(q))
  BY DEF Frame, Target, Writing
<1>1. OnTheWay(q)'
  BY <1>0 DEF OnTheWay
<1>2. HeldIsDir(q)'
  <2> SUFFICES ASSUME using = "unpack", held[q] \notin {Lost, <<>>}
               PROVE  held[q] \in Node /\ tree'[held[q]].kind = "dir"
    BY <1>0 DEF HeldIsDir
  <2>1. held[q] \in Node /\ tree[held[q]].kind = "dir"
    BY DEF HeldIsDir
  <2> QED
    BY <2>1, Entries DEF Frame
<1>3. OpenIsOwn(q)'
  <2> SUFFICES ASSUME using = "unpack", fstep[q] \in {"write", "undo"}
               PROVE  tree'[Target(q)] = Is("file", q)
    BY <1>0 DEF OpenIsOwn
  <2>1. tree[Target(q)] = Is("file", q)
    BY DEF OpenIsOwn
  <2>2. Target(q) \in Node
    BY TargetIsNode DEF OnTheWay, Writing
  <2>3. Is("file", q) # Is("file", p) /\ Is("file", q).kind # "none"
    BY Entries
  <2> QED
    BY <2>1, <2>2, <2>3 DEF Frame
<1>4. HalfAtWork(q)'
  BY <1>0 DEF HalfAtWork, Frame
<1>5. OpenAtWork(q)'
  BY <1>0 DEF OpenAtWork, Frame
<1>6. DoneStays(q)'
  <2> SUFFICES ASSUME Writing(q), NEW i \in DOMAIN ToWrite, i < nth[q]
               PROVE  tree'[ToWrite[i]] = Complete("file", q)
    BY <1>0 DEF DoneStays
  <2>1. tree[ToWrite[i]] = Complete("file", q) /\ using = "unpack"
    BY DEF DoneStays, Frame, FilesTypeOK
  <2>2. ToWrite[i] \in Node
    BY ListsAreWritten, WrittenAreNodes
  <2>3. Complete("file", q) # Is("file", p) /\ Complete("file", q).kind # "none"
    BY Entries
  <2> QED
    BY <2>1, <2>2, <2>3 DEF Frame
<1> QED
  BY <1>1, <1>2, <1>3, <1>4, <1>5, <1>6

(* What remains to be shown of a step of p.                                *)
LEMMA StepKeeps ==
    ASSUME FilesInv, NEW p \in Pid \cup {Somebody}, Frame(p), FilesTypeOK',
           p \in Pid => Sound(p)'
    PROVE  FilesInv' /\ Frame(p)
<1>1. \A q \in Pid : Sound(q)'
  BY OthersKeep
<1>2. OthersAreWhole'
  BY FilesAssumption DEF FilesInv, OthersAreWhole, Frame
<1>3. OneMaterializes'
  BY DEF OneMaterializes, Frame, Writing
<1> QED
  BY <1>1, <1>2, <1>3 DEF FilesInv
(* What is finished stays while other entries change.                      *)
LEMMA DoneKept ==
    ASSUME FilesInv, NEW p \in Pid, Writing(p), ToWrite' = ToWrite, nth'[p] = nth[p],
           \A n \in Node : tree[n] = Complete("file", p) => tree'[n] = tree[n]
    PROVE  DoneStays(p)'
<1> SUFFICES ASSUME NEW i \in DOMAIN ToWrite, i < nth[p]
             PROVE  tree'[ToWrite[i]] = Complete("file", p)
  BY DEF DoneStays
<1>1. tree[ToWrite[i]] = Complete("file", p)
  BY DEF FilesInv, Sound, DoneStays
<1>2. ToWrite[i] \in Node
  BY ListsAreWritten, WrittenAreNodes DEF FilesInv
<1> QED
  BY <1>1, <1>2

(* What is finished grows by the file that is complete now.                *)
LEMMA DoneGrows ==
    ASSUME FilesInv, NEW p \in Pid, Writing(p),
           tree'[Target(p)] = Complete("file", p),
           \A n \in Node : n # Target(p) => tree'[n] = tree[n]
    PROVE  \A i \in DOMAIN ToWrite : i < nth[p] + 1 => tree'[ToWrite[i]] = Complete("file", p)
<1> USE DEF FilesInv, Sound
<1> SUFFICES ASSUME NEW i \in DOMAIN ToWrite, i < nth[p] + 1
             PROVE  tree'[ToWrite[i]] = Complete("file", p)
  OBVIOUS
<1>1. ToWrite \in Seq(Written) /\ ToWrite[i] \in Node /\ i \in Nat
  BY ListsAreWritten, WrittenAreNodes
<1>2. CASE i < nth[p]
  <2>1. tree[ToWrite[i]] = Complete("file", p)
    BY <1>2 DEF DoneStays
  <2> QED
    BY <1>1, <2>1
<1>3. CASE i = nth[p]
  BY <1>3 DEF Target
<1> QED
  BY <1>1, <1>2, <1>3 DEF FilesTypeOK

(* On to the next file when this one is complete.                          *)
LEMMA NextFileKeeps ==
    ASSUME FilesInv, NEW p \in Pid, NextFile(p), Writing(p), FilesTypeOK', Frame(p),
           fstep[p] \in {"write", "rename"},
           temps'[p][Target(p)] # "open", \A n \in Node : temps'[p][n] = "open" => temps[p][n] = "open",
           tree'[Target(p)] = Complete("file", p),
           \A n \in Node : n # Target(p) => tree'[n] = tree[n],
           using = "unpack" => tree[Target(p)] = Is("file", p)
    PROVE  FilesInv' /\ Frame(p)
<1> USE DEF FilesInv, Sound, NextFile, FilesGoto
<1>1. /\ ToWrite' = ToWrite /\ using' = using /\ ToWrite \in Seq(Written)
      /\ nth[p] \in DOMAIN ToWrite /\ Target(p) \in Node
  BY TargetIsNode, ListsAreWritten DEF Frame, OnTheWay
<1>2. /\ nth'[p] = nth[p] + 1 /\ held'[p] = <<>>
      /\ fstep'[p] = IF nth[p] < Len(ToWrite) THEN "walk" ELSE "ok"
  BY DEF FilesTypeOK
<1>3. nth[p] < Len(ToWrite) => nth'[p] \in DOMAIN ToWrite
  BY <1>1, <1>2 DEF FilesTypeOK
<1>4. nth[p] < Len(ToWrite) => Target(p)' \in Written
  BY <1>1, <1>3 DEF Target
<1>5. nth[p] < Len(ToWrite) => Len(Target(p)') \in Nat \ {0}
  BY <1>4, WrittenAreNodes
<1>6. OnTheWay(p)'
  <2>1. <<>> # Lost /\ Len(<<>>) = 0
    BY FilesAssumption
  <2>2. CASE fstep'[p] = "walk"
    <3>1. nth'[p] \in DOMAIN ToWrite'
      BY <1>1, <1>2, <1>3, <2>2
    <3>2. Len(held'[p]) < Len(Target(p)')
      BY <1>2, <1>5, <2>1, <2>2
    <3> QED
      BY <1>2, <2>1, <2>2, <3>1, <3>2 DEF OnTheWay
  <2>3. CASE fstep'[p] = "ok"
    BY <2>3 DEF OnTheWay, Writing
  <2> QED
    BY <1>2, <2>2, <2>3
<1>7. HeldIsDir(p)' /\ OpenIsOwn(p)'
  BY <1>2 DEF HeldIsDir, OpenIsOwn
<1>8. HalfAtWork(p)'
  BY <1>1, Entries DEF HalfAtWork
<1>9. OpenAtWork(p)'
  BY DEF OpenAtWork
<1>10. DoneStays(p)'
  BY <1>1, <1>2, DoneGrows DEF DoneStays
<1> QED
  BY <1>6, <1>7, <1>8, <1>9, <1>10, StepKeeps

-----------------------------------------------------------------------------
(* The steps of hm_unpack().                                               *)

LEMMA StartKeeps ==
    ASSUME FilesInv, NEW p \in Pid, UnpackStarts(p)
    PROVE  FilesInv' /\ Frame(p)
<1> USE DEF FilesInv, Sound, UnpackStarts, Begins, FilesGoto, Unpacks, askedFor
<1>1. Frame(p)
  BY DEF Frame, ToWrite, FilesTypeOK
<1>2. FilesTypeOK'
  BY DEF FilesTypeOK
<1>3. ToWrite' = ToWrite /\ ToWrite \in Seq(Written) /\ nth'[p] = 1 /\ held'[p] = <<>>
  BY <1>1, ListsAreWritten DEF Frame, FilesTypeOK
<1>4. ~Writing(p) /\ fstep[p] = "idle"
  BY DEF Writing
<1>5. fstep'[p] = IF ToWrite = <<>> THEN "ok" ELSE "walk"
  BY DEF FilesTypeOK
<1>6. ToWrite # <<>> => 1 \in DOMAIN ToWrite /\ Target(p)' = ToWrite[1] /\ Len(ToWrite[1]) \in Nat \ {0}
  BY <1>3, WrittenAreNodes DEF Target
<1>7. OnTheWay(p)'
  BY <1>3, <1>5, <1>6 DEF OnTheWay, Writing, Target, Lost
<1>8. HeldIsDir(p)' /\ OpenIsOwn(p)'
  BY <1>3, <1>5 DEF HeldIsDir, OpenIsOwn
<1>9. HalfAtWork(p)' /\ OpenAtWork(p)'
  BY <1>4 DEF HalfAtWork, OpenAtWork
<1>10. DoneStays(p)'
  BY <1>3 DEF DoneStays
<1> QED
  BY <1>1, <1>2, <1>7, <1>8, <1>9, <1>10, StepKeeps

(* A step to "failed" that leaves everything else alone.                   *)
LEMMA FailsKeep ==
    ASSUME FilesInv, NEW p \in Pid, Fails(p),
           fstep[p] \in {"walk", "enter"} \/ (fstep[p] = "idle" /\ using = "unpack")
    PROVE  FilesInv' /\ Frame(p)
<1> USE DEF FilesInv, Sound, Fails, FilesGoto, askedFor
<1>1. Frame(p)
  BY DEF Frame, ToWrite, FilesTypeOK, OneMaterializes, Writing
<1>2. FilesTypeOK'
  BY DEF FilesTypeOK
<1>3. fstep'[p] = "failed"
  BY DEF FilesTypeOK
<1>4. OnTheWay(p)' /\ DoneStays(p)' /\ OpenIsOwn(p)'
  BY <1>3 DEF OnTheWay, DoneStays, OpenIsOwn, Writing
<1>5. HeldIsDir(p)' /\ HalfAtWork(p)' /\ OpenAtWork(p)'
  BY DEF HeldIsDir, HalfAtWork, OpenAtWork
<1> QED
  BY <1>1, <1>2, <1>4, <1>5, StepKeeps

LEMMA MakeDirAtKeeps ==
    ASSUME FilesInv, NEW p \in Pid, MakeDirAt(p)
    PROVE  FilesInv' /\ Frame(p)
<1> USE DEF FilesInv, Sound
<1> DEFINE d == NextDir(p)
<1>0. /\ ToWrite' = ToWrite /\ nth' = nth /\ held' = held /\ temps' = temps /\ using' = using
      /\ fileList' = fileList /\ scripted' = scripted
      /\ using = "unpack" /\ fstep[p] = "walk" /\ fstep' = [fstep EXCEPT ![p] = "enter"]
      /\ held[p] # Lost /\ Len(held[p]) + 1 # Len(Target(p))
      /\ IF Exists(d) THEN tree' = tree ELSE Put(d, Is("dir", p))
  BY DEF MakeDirAt, ToWrite, InParent, Unpacks, FilesGoto, askedFor
<1>1. nth[p] \in DOMAIN ToWrite /\ Len(held[p]) < Len(Target(p))
  BY <1>0 DEF OnTheWay, Writing
<1>2. Len(held[p]) \in Nat /\ Len(Target(p)) \in Nat
  BY <1>1, TargetIsNode DEF FilesTypeOK
<1>3. d \in Node
  BY <1>0, <1>1, <1>2, NextDirIsNode
<1>4. /\ tree' \in [Node -> Entry]
      /\ \A n \in Node : tree'[n] # tree[n] => tree[n].kind = "none" /\ tree'[n] = Is("dir", p)
  BY <1>0, <1>3, Entries, PutAt DEF Exists, FilesTypeOK
<1>5. FilesTypeOK'
  BY <1>0, <1>4 DEF FilesTypeOK
<1>6. Frame(p)
  BY <1>0, <1>4, Entries DEF Frame, FilesTypeOK
<1>7. fstep'[p] = "enter" /\ Target(p)' = Target(p)
  BY <1>0 DEF FilesTypeOK, Target
<1>8. OnTheWay(p)' /\ OpenIsOwn(p)' /\ OpenAtWork(p)'
  BY <1>0, <1>1, <1>2, <1>7 DEF OnTheWay, OpenIsOwn, OpenAtWork
<1>9. HeldIsDir(p)'
  BY <1>0, <1>4, Entries DEF HeldIsDir
<1>10. HalfAtWork(p)'
  BY <1>0, <1>4, <1>7, Entries DEF HalfAtWork
<1>11. DoneStays(p)'
  BY <1>0, <1>4, Entries, DoneKept DEF Writing
<1> QED
  BY <1>5, <1>6, <1>8, <1>9, <1>10, <1>11, StepKeeps

LEMMA EnterDirKeeps ==
    ASSUME FilesInv, NEW p \in Pid, EnterDir(p)
    PROVE  FilesInv' /\ Frame(p)
<1> USE DEF FilesInv, Sound
<1> DEFINE d == NextDir(p)
<1>0. /\ ToWrite' = ToWrite /\ nth' = nth /\ temps' = temps /\ tree' = tree /\ using' = using
      /\ fileList' = fileList /\ scripted' = scripted
      /\ using = "unpack" /\ fstep[p] = "enter" /\ fstep' = [fstep EXCEPT ![p] = "walk"]
      /\ held[p] # Lost /\ held' = [held EXCEPT ![p] = d] /\ IsDir(d)
  BY DEF EnterDir, ToWrite, Unpacks, FilesGoto, askedFor
<1>1. nth[p] \in DOMAIN ToWrite /\ Len(held[p]) + 1 < Len(Target(p))
  BY <1>0 DEF OnTheWay, Writing
<1>2. Len(held[p]) \in Nat /\ Len(Target(p)) \in Nat
  BY <1>1, TargetIsNode DEF FilesTypeOK
<1>3. d \in Node /\ d \in Seq(STRING) /\ d # <<>> /\ Len(d) = Len(held[p]) + 1
  BY <1>1, <1>2, NextDirIsNode
<1>4. FilesTypeOK'
  BY <1>0, <1>3 DEF FilesTypeOK
<1>5. Frame(p)
  BY <1>0 DEF Frame, FilesTypeOK
<1>6. fstep'[p] = "walk" /\ held'[p] = d /\ Target(p)' = Target(p)
  BY <1>0 DEF FilesTypeOK, Target
<1>7. OnTheWay(p)'
  BY <1>0, <1>1, <1>3, <1>6 DEF OnTheWay
<1>8. HeldIsDir(p)'
  BY <1>0, <1>3, <1>6 DEF HeldIsDir, IsDir
<1>9. OpenIsOwn(p)' /\ HalfAtWork(p)' /\ OpenAtWork(p)'
  BY <1>0, <1>6 DEF OpenIsOwn, HalfAtWork, OpenAtWork
<1>10. DoneStays(p)'
  BY <1>0 DEF DoneStays, Writing
<1> QED
  BY <1>4, <1>5, <1>7, <1>8, <1>9, <1>10, StepKeeps

LEMMA CreateKeeps ==
    ASSUME FilesInv, NEW p \in Pid, Create(p)
    PROVE  FilesInv' /\ Frame(p)
<1> USE DEF FilesInv, Sound
<1>0. /\ ToWrite' = ToWrite /\ nth' = nth /\ held' = held /\ temps' = temps /\ using' = using
      /\ fileList' = fileList /\ scripted' = scripted
      /\ using = "unpack" /\ fstep[p] = "walk" /\ fstep' = [fstep EXCEPT ![p] = "write"]
      /\ tree[Target(p)].kind = "none" /\ Put(Target(p), Is("file", p))
  BY DEF Create, ToWrite, Exists, Unpacks, FilesGoto, askedFor
<1>1. nth[p] \in DOMAIN ToWrite /\ Target(p) \in Node
  BY <1>0, TargetIsNode DEF OnTheWay, Writing
<1>2. /\ tree' \in [Node -> Entry] /\ tree'[Target(p)] = Is("file", p)
      /\ \A n \in Node : n # Target(p) => tree'[n] = tree[n]
  BY <1>0, <1>1, Entries, PutAt
<1>3. FilesTypeOK'
  BY <1>0, <1>2 DEF FilesTypeOK
<1>4. Frame(p)
  BY <1>0, <1>2, Entries DEF Frame, FilesTypeOK
<1>5. fstep'[p] = "write" /\ Target(p)' = Target(p)
  BY <1>0 DEF FilesTypeOK, Target
<1>6. OnTheWay(p)' /\ OpenIsOwn(p)' /\ OpenAtWork(p)'
  BY <1>0, <1>1, <1>2, <1>5 DEF OnTheWay, OpenIsOwn, OpenAtWork
<1>7. HeldIsDir(p)'
  BY <1>0, <1>2 DEF HeldIsDir
<1>8. HalfAtWork(p)'
  BY <1>0, <1>2, <1>5 DEF HalfAtWork
<1>9. DoneStays(p)'
  BY <1>0, <1>2, Entries, DoneKept DEF Writing
<1> QED
  BY <1>3, <1>4, <1>6, <1>7, <1>8, <1>9, StepKeeps

LEMMA WriteExtractedKeeps ==
    ASSUME FilesInv, NEW p \in Pid, WriteExtracted(p)
    PROVE  FilesInv' /\ Frame(p)
<1> USE DEF FilesInv, Sound
<1>0. /\ ToWrite' = ToWrite /\ temps' = temps /\ using' = using
      /\ fileList' = fileList /\ scripted' = scripted
      /\ using = "unpack" /\ fstep[p] = "write"
      /\ NextFile(p) /\ Put(Target(p), Complete("file", p))
  BY DEF WriteExtracted, ToWrite, Unpacks, askedFor
<1>1. Writing(p) /\ nth[p] \in DOMAIN ToWrite /\ Target(p) \in Node
  BY <1>0, TargetIsNode DEF OnTheWay, Writing
<1>2. /\ tree' \in [Node -> Entry] /\ tree'[Target(p)] = Complete("file", p)
      /\ \A n \in Node : n # Target(p) => tree'[n] = tree[n]
      /\ tree[Target(p)] = Is("file", p)
  BY <1>0, <1>1, Entries, PutAt DEF OpenIsOwn
<1>3. FilesTypeOK'
  BY <1>0, <1>2 DEF FilesTypeOK, NextFile, FilesGoto
<1>4. Frame(p)
  BY <1>0, <1>2, Entries DEF Frame, FilesTypeOK, NextFile, FilesGoto
<1>5. \A n \in Node : temps'[p][n] # "open"
  BY <1>0 DEF OpenAtWork
<1> QED
  BY <1>0, <1>1, <1>2, <1>3, <1>4, <1>5, NextFileKeeps

LEMMA WriteExtractedFailsKeeps ==
    ASSUME FilesInv, NEW p \in Pid, WriteExtractedFails(p)
    PROVE  FilesInv' /\ Frame(p)
<1> USE DEF FilesInv, Sound
<1>0. /\ ToWrite' = ToWrite /\ UNCHANGED <<using, fileList, scripted, tree, temps, nth, held>>
      /\ using = "unpack" /\ fstep[p] = "write" /\ fstep' = [fstep EXCEPT ![p] = "undo"]
  BY DEF WriteExtractedFails, ToWrite, Unpacks, FilesGoto, askedFor
<1>1. FilesTypeOK'
  BY <1>0 DEF FilesTypeOK
<1>2. Frame(p)
  BY <1>0 DEF Frame, FilesTypeOK
<1>3. fstep'[p] = "undo" /\ Target(p)' = Target(p)
  BY <1>0 DEF FilesTypeOK, Target
<1>4. OnTheWay(p)' /\ HeldIsDir(p)' /\ OpenIsOwn(p)'
  BY <1>0, <1>3 DEF OnTheWay, Writing, HeldIsDir, OpenIsOwn
<1>5. HalfAtWork(p)' /\ OpenAtWork(p)' /\ DoneStays(p)'
  BY <1>0, <1>3 DEF HalfAtWork, OpenAtWork, DoneStays, Writing
<1> QED
  BY <1>1, <1>2, <1>4, <1>5, StepKeeps

LEMMA UndoKeeps ==
    ASSUME FilesInv, NEW p \in Pid, Undo(p)
    PROVE  FilesInv' /\ Frame(p)
<1> USE DEF FilesInv, Sound
<1>0. /\ ToWrite' = ToWrite /\ UNCHANGED <<using, fileList, scripted, temps, nth, held>>
      /\ using = "unpack" /\ fstep[p] = "undo" /\ fstep' = [fstep EXCEPT ![p] = "failed"]
      /\ Put(Target(p), Nothing)
  BY DEF Undo, ToWrite, Unpacks, FilesGoto, askedFor
<1>1. Target(p) \in Node /\ tree[Target(p)] = Is("file", p)
  BY <1>0, TargetIsNode DEF OnTheWay, Writing, OpenIsOwn
<1>2. /\ tree' \in [Node -> Entry] /\ tree'[Target(p)] = Nothing
      /\ \A n \in Node : n # Target(p) => tree'[n] = tree[n]
  BY <1>0, <1>1, Entries, PutAt
<1>3. FilesTypeOK'
  BY <1>0, <1>2 DEF FilesTypeOK
<1>4. Frame(p)
  BY <1>0, <1>1, <1>2, Entries DEF Frame, FilesTypeOK
<1>5. fstep'[p] = "failed"
  BY <1>0 DEF FilesTypeOK
<1>6. OnTheWay(p)' /\ OpenIsOwn(p)' /\ OpenAtWork(p)' /\ DoneStays(p)'
  BY <1>0, <1>5 DEF OnTheWay, OpenIsOwn, OpenAtWork, DoneStays, Writing
<1>7. HeldIsDir(p)'
  BY <1>0, <1>1, <1>2, Entries DEF HeldIsDir
<1>8. HalfAtWork(p)'
  BY <1>0, <1>2, Entries DEF HalfAtWork
<1> QED
  BY <1>3, <1>4, <1>6, <1>7, <1>8, StepKeeps

-----------------------------------------------------------------------------
(* The steps of hm_materialize_files().                                    *)

LEMMA MaterializeStartsKeeps ==
    ASSUME FilesInv, NEW p \in Pid, MaterializeStarts(p)
    PROVE  FilesInv' /\ Frame(p)
<1> USE DEF FilesInv, Sound
<1>0. /\ ToWrite' = ToWrite /\ UNCHANGED <<using, fileList, scripted>>
      /\ using = "work" /\ \A q \in Pid : ~Writing(q)
      /\ Begins(p)
      /\ \/ tree' = [n \in Node |-> Nothing] /\ temps' = [q \in Pid |-> [n \in Node |-> "none"]]
         \/ tree' = tree /\ temps' = temps
  BY DEF MaterializeStarts, ToWrite, askedFor
<1>1. FilesTypeOK'
  BY <1>0, Entries DEF FilesTypeOK, Begins, FilesGoto
<1>2. \A n \in Node : tree[n].whole
  BY <1>0 DEF HalfAtWork, OthersAreWhole, FilesTypeOK, Entry
<1>3. \A n \in Node : tree'[n].whole
  BY <1>0, <1>2, Entries
<1>4. \A q \in Pid, n \in Node : temps'[q][n] # "open"
  BY <1>0 DEF OpenAtWork, Writing
<1>5. Frame(p)
  BY <1>0, <1>3, <1>4 DEF Frame, FilesTypeOK, Begins, FilesGoto
<1>6. /\ nth'[p] = 1 /\ held'[p] = <<>> /\ ToWrite \in Seq(Written)
      /\ fstep'[p] = IF ToWrite = <<>> THEN "ok" ELSE "walk"
  BY <1>0, ListsAreWritten DEF FilesTypeOK, Begins, FilesGoto
<1>7. ToWrite # <<>> =>
        1 \in DOMAIN ToWrite /\ Target(p)' = ToWrite[1] /\ Len(ToWrite[1]) \in Nat \ {0}
  BY <1>0, <1>6, WrittenAreNodes DEF Target
<1>8. OnTheWay(p)' /\ DoneStays(p)'
  BY <1>0, <1>6, <1>7 DEF OnTheWay, DoneStays, Writing, Lost
<1>9. HeldIsDir(p)' /\ OpenIsOwn(p)' /\ HalfAtWork(p)' /\ OpenAtWork(p)'
  BY <1>0, <1>3, <1>4 DEF HeldIsDir, OpenIsOwn, HalfAtWork, OpenAtWork
<1> QED
  BY <1>1, <1>5, <1>8, <1>9, StepKeeps

LEMMA MakeDirKeeps ==
    ASSUME FilesInv, NEW p \in Pid, MakeDir(p)
    PROVE  FilesInv' /\ Frame(p)
<1> USE DEF FilesInv, Sound
<1> DEFINE d == NextDir(p)
<1>0. /\ ToWrite' = ToWrite
      /\ UNCHANGED <<using, fileList, scripted, temps, nth, fstep>>
      /\ using = "work" /\ fstep[p] = "walk" /\ held' = [held EXCEPT ![p] = d]
      /\ Len(held[p]) + 1 # Len(Target(p))
      /\ IF Exists(d) THEN tree' = tree ELSE Put(d, Is("dir", p))
  BY DEF MakeDir, ToWrite, InParent, Works, askedFor
<1>1. Writing(p) /\ nth[p] \in DOMAIN ToWrite /\ Len(held[p]) < Len(Target(p))
  BY <1>0 DEF OnTheWay, Writing
<1>2. Len(held[p]) \in Nat /\ Len(Target(p)) \in Nat
  BY <1>1, TargetIsNode DEF FilesTypeOK
<1>3. d \in Node /\ d \in Seq(STRING) /\ Len(d) = Len(held[p]) + 1
  BY <1>0, <1>1, <1>2, NextDirIsNode
<1>4. /\ tree' \in [Node -> Entry]
      /\ \A n \in Node : tree'[n] # tree[n] => tree[n].kind = "none" /\ tree'[n] = Is("dir", p)
  BY <1>0, <1>3, Entries, PutAt DEF Exists, FilesTypeOK
<1>5. FilesTypeOK'
  BY <1>0, <1>3, <1>4 DEF FilesTypeOK
<1>6. Frame(p)
  BY <1>0, <1>1, <1>4, Entries DEF Frame, FilesTypeOK, OneMaterializes
<1>7. held'[p] = d /\ d # Lost /\ Target(p)' = Target(p)
  BY <1>0, <1>3, FilesAssumption DEF FilesTypeOK, Target
<1>8. OnTheWay(p)'
  BY <1>0, <1>1, <1>2, <1>3, <1>7 DEF OnTheWay, Writing
<1>9. HeldIsDir(p)' /\ OpenIsOwn(p)' /\ OpenAtWork(p)'
  BY <1>0, <1>7 DEF HeldIsDir, OpenIsOwn, OpenAtWork
<1>10. HalfAtWork(p)'
  BY <1>0, <1>4, Entries DEF HalfAtWork
<1>11. DoneStays(p)'
  BY <1>0, <1>1, <1>4, Entries, DoneKept
<1> QED
  BY <1>5, <1>6, <1>8, <1>9, <1>10, <1>11, StepKeeps

LEMMA OpenTempKeeps ==
    ASSUME FilesInv, NEW p \in Pid, OpenTemp(p)
    PROVE  FilesInv' /\ Frame(p)
<1> USE DEF FilesInv, Sound
<1>0. /\ ToWrite' = ToWrite /\ UNCHANGED <<using, fileList, scripted, tree, nth, held>>
      /\ using = "work" /\ fstep[p] = "walk" /\ fstep' = [fstep EXCEPT ![p] = "write"]
      /\ temps' = [temps EXCEPT ![p][Target(p)] = "open"]
  BY DEF OpenTemp, ToWrite, Works, FilesGoto, askedFor
<1>1. Writing(p)
  BY <1>0 DEF Writing
<1>2. FilesTypeOK'
  BY <1>0 DEF FilesTypeOK
<1>3. Frame(p)
  BY <1>0, <1>1 DEF Frame, FilesTypeOK, OneMaterializes
<1>4. fstep'[p] = "write" /\ Target(p)' = Target(p)
  BY <1>0 DEF FilesTypeOK, Target
<1>5. OnTheWay(p)' /\ HeldIsDir(p)' /\ OpenIsOwn(p)'
  BY <1>0, <1>4 DEF OnTheWay, Writing, HeldIsDir, OpenIsOwn
<1>6. HalfAtWork(p)' /\ DoneStays(p)'
  BY <1>0, <1>1, <1>4, DoneKept DEF HalfAtWork
<1>7. OpenAtWork(p)'
  BY <1>0, <1>4 DEF OpenAtWork, FilesTypeOK
<1> QED
  BY <1>2, <1>3, <1>5, <1>6, <1>7, StepKeeps

LEMMA WriteTempKeeps ==
    ASSUME FilesInv, NEW p \in Pid, WriteTemp(p)
    PROVE  FilesInv' /\ Frame(p)
<1> USE DEF FilesInv, Sound
<1>0. /\ ToWrite' = ToWrite /\ UNCHANGED <<using, fileList, scripted, tree, temps, nth, held>>
      /\ using = "work" /\ fstep[p] = "write" /\ fstep' = [fstep EXCEPT ![p] = "rename"]
  BY DEF WriteTemp, ToWrite, Works, FilesGoto, askedFor
<1>1. Writing(p)
  BY <1>0 DEF Writing
<1>2. FilesTypeOK'
  BY <1>0 DEF FilesTypeOK
<1>3. Frame(p)
  BY <1>0, <1>1 DEF Frame, FilesTypeOK, OneMaterializes
<1>4. fstep'[p] = "rename" /\ Target(p)' = Target(p)
  BY <1>0 DEF FilesTypeOK, Target
<1>5. OnTheWay(p)' /\ HeldIsDir(p)' /\ OpenIsOwn(p)'
  BY <1>0, <1>4 DEF OnTheWay, Writing, HeldIsDir, OpenIsOwn
<1>6. HalfAtWork(p)' /\ OpenAtWork(p)' /\ DoneStays(p)'
  BY <1>0, <1>1, <1>4, DoneKept DEF HalfAtWork, OpenAtWork
<1> QED
  BY <1>2, <1>3, <1>5, <1>6, StepKeeps

LEMMA TempFailsKeeps ==
    ASSUME FilesInv, NEW p \in Pid, TempFails(p)
    PROVE  FilesInv' /\ Frame(p)
<1> USE DEF FilesInv, Sound
<1>0. /\ ToWrite' = ToWrite /\ UNCHANGED <<using, fileList, scripted, tree, nth, held>>
      /\ using = "work" /\ fstep[p] \in {"write", "rename"}
      /\ fstep' = [fstep EXCEPT ![p] = "failed"]
      /\ temps' = [temps EXCEPT ![p][Target(p)] = "none"]
  BY DEF TempFails, ToWrite, Works, FilesGoto, askedFor
<1>1. Writing(p)
  BY <1>0 DEF Writing
<1>2. FilesTypeOK'
  BY <1>0 DEF FilesTypeOK
<1>3. Frame(p)
  BY <1>0, <1>1 DEF Frame, FilesTypeOK, OneMaterializes
<1>4. fstep'[p] = "failed"
  BY <1>0 DEF FilesTypeOK
<1>5. OnTheWay(p)' /\ HeldIsDir(p)' /\ OpenIsOwn(p)' /\ DoneStays(p)'
  BY <1>0, <1>4 DEF OnTheWay, Writing, HeldIsDir, OpenIsOwn, DoneStays
<1>6. HalfAtWork(p)'
  BY <1>0 DEF HalfAtWork
<1>7. OpenAtWork(p)'
  BY <1>0 DEF OpenAtWork, FilesTypeOK
<1> QED
  BY <1>2, <1>3, <1>5, <1>6, <1>7, StepKeeps

LEMMA RenameTempKeeps ==
    ASSUME FilesInv, NEW p \in Pid, RenameTemp(p)
    PROVE  FilesInv' /\ Frame(p)
<1> USE DEF FilesInv, Sound
<1>0. /\ ToWrite' = ToWrite /\ UNCHANGED <<using, fileList, scripted>>
      /\ using = "work" /\ fstep[p] = "rename"
      /\ NextFile(p) /\ Put(Target(p), Complete("file", p))
      /\ temps' = [temps EXCEPT ![p][Target(p)] = "none"]
  BY DEF RenameTemp, ToWrite, Works, askedFor
<1>1. Writing(p) /\ nth[p] \in DOMAIN ToWrite /\ Target(p) \in Node
  BY <1>0, TargetIsNode DEF OnTheWay, Writing
<1>2. /\ tree' \in [Node -> Entry] /\ tree'[Target(p)] = Complete("file", p)
      /\ \A n \in Node : n # Target(p) => tree'[n] = tree[n]
  BY <1>0, <1>1, Entries, PutAt
<1>3. FilesTypeOK'
  <2>1. temps' \in [Pid -> [Node -> {"none", "open", "left"}]]
    BY <1>0 DEF FilesTypeOK
  <2>2. held' \in [Pid -> Seq(STRING)] /\ nth' \in [Pid -> Nat \ {0}]
    BY <1>0 DEF FilesTypeOK, NextFile
  <2>3. fstep' \in [Pid -> {"idle", "walk", "enter", "write", "undo", "rename",
                            "ok", "failed", "killed"}]
    BY <1>0 DEF FilesTypeOK, NextFile, FilesGoto
  <2> QED
    BY <1>0, <1>2, <2>1, <2>2, <2>3 DEF FilesTypeOK
<1>4. Frame(p)
  BY <1>0, <1>1, <1>2, Entries DEF Frame, FilesTypeOK, NextFile, FilesGoto, OneMaterializes
<1>5. /\ temps'[p][Target(p)] # "open"
      /\ \A n \in Node : temps'[p][n] = "open" => temps[p][n] = "open"
  BY <1>0, <1>1 DEF FilesTypeOK
<1> QED
  BY <1>0, <1>1, <1>2, <1>3, <1>4, <1>5, NextFileKeeps

-----------------------------------------------------------------------------
(* The steps of everybody else.                                            *)

LEMMA KillWriterKeeps ==
    ASSUME FilesInv, NEW p \in Pid, KillWriter(p)
    PROVE  FilesInv' /\ Frame(p)
<1> USE DEF FilesInv, Sound
<1>0. /\ ToWrite' = ToWrite /\ UNCHANGED <<using, fileList, scripted, tree, nth, held>>
      /\ Writing(p) /\ fstep' = [fstep EXCEPT ![p] = "killed"]
      /\ temps' = [temps EXCEPT ![p] =
                      [n \in Node |-> IF @[n] = "open" THEN "left" ELSE @[n]]]
  BY DEF KillWriter, ToWrite, FilesGoto, askedFor
<1>1. FilesTypeOK'
  BY <1>0 DEF FilesTypeOK
<1>2. Frame(p)
  BY <1>0 DEF Frame, FilesTypeOK, OneMaterializes
<1>3. fstep'[p] = "killed"
  BY <1>0 DEF FilesTypeOK
<1>4. OnTheWay(p)' /\ HeldIsDir(p)' /\ OpenIsOwn(p)' /\ DoneStays(p)'
  BY <1>0, <1>3 DEF OnTheWay, Writing, HeldIsDir, OpenIsOwn, DoneStays
<1>5. HalfAtWork(p)'
  BY <1>0, <1>3 DEF HalfAtWork
<1>6. OpenAtWork(p)'
  BY <1>0 DEF OpenAtWork, FilesTypeOK
<1> QED
  BY <1>1, <1>2, <1>4, <1>5, <1>6, StepKeeps

LEMMA SomebodyPutsKeeps ==
    ASSUME FilesInv, NEW n \in Node, NEW kind \in {"file", "dir", "link"}, SomebodyPuts(n, kind)
    PROVE  FilesInv' /\ Frame(Somebody)
<1> USE DEF FilesInv
<1>0. /\ ToWrite' = ToWrite /\ UNCHANGED <<using, fileList, scripted, temps, fstep, nth, held>>
      /\ using = "work" => \A p \in Pid : ~Writing(p)
      /\ tree[n].kind = "none" /\ Put(n, Complete(kind, Somebody))
  BY DEF SomebodyPuts, MayChange, ToWrite, Exists, askedFor, FilesTypeOK
<1>1. /\ tree' \in [Node -> Entry] /\ tree'[n] = Complete(kind, Somebody)
      /\ \A m \in Node : m # n => tree'[m] = tree[m]
  BY <1>0, Entries, PutAt
<1>2. FilesTypeOK'
  BY <1>0, <1>1 DEF FilesTypeOK
<1>3. Frame(Somebody)
  BY <1>0, <1>1, Entries DEF Frame
<1> QED
  BY <1>2, <1>3, FilesAssumption, StepKeeps

(* Whoever holds the directory that is taken, holds it no longer.          *)
LEMMA SomebodyTakesKeeps ==
    ASSUME FilesInv, NEW n \in Node, SomebodyTakes(n)
    PROVE  FilesInv'
<1> USE DEF FilesInv, Sound
<1>0. /\ ToWrite' = ToWrite /\ UNCHANGED <<using, fileList, scripted, temps, fstep, nth>>
      /\ using = "work" => \A p \in Pid : ~Writing(p)
      /\ using = "unpack" => tree[n].by = Somebody
      /\ Put(n, Nothing)
      /\ held' = [p \in Pid |-> IF held[p] = n THEN Lost ELSE held[p]]
  BY DEF SomebodyTakes, MayChange, ToWrite, askedFor, FilesTypeOK
<1>1. /\ tree' \in [Node -> Entry] /\ tree'[n] = Nothing
      /\ \A m \in Node : m # n => tree'[m] = tree[m]
  BY <1>0, Entries, PutAt, FilesAssumption
<1>2. Lost \in Seq(STRING)
  BY FilesAssumption
<1>3. FilesTypeOK'
  BY <1>0, <1>1, <1>2 DEF FilesTypeOK
<1>4. OthersAreWhole' /\ OneMaterializes'
  BY <1>0, <1>1, Entries DEF OthersAreWhole, OneMaterializes, Writing
<1>5. ASSUME NEW p \in Pid PROVE Sound(p)'
  <2>1. /\ Target(p)' = Target(p) /\ (Writing(p)' <=> Writing(p))
        /\ held'[p] \in {held[p], Lost} /\ (held[p] = n => held'[p] = Lost)
    BY <1>0 DEF Target, Writing, FilesTypeOK
  <2>2. OnTheWay(p)'
    BY <1>0, <2>1 DEF OnTheWay
  <2>3. HeldIsDir(p)'
    BY <1>0, <1>1, <2>1 DEF HeldIsDir
  <2>4. OpenIsOwn(p)'
    <3> SUFFICES ASSUME using = "unpack", fstep[p] \in {"write", "undo"}
                 PROVE  tree'[Target(p)] = Is("file", p)
      BY <1>0, <2>1 DEF OpenIsOwn
    <3>1. tree[Target(p)] = Is("file", p) /\ Target(p) \in Node
      BY TargetIsNode DEF OpenIsOwn, OnTheWay, Writing
    <3> QED
      BY <1>0, <1>1, <3>1, Entries, FilesAssumption
  <2>5. HalfAtWork(p)' /\ OpenAtWork(p)'
    BY <1>0, <1>1, <2>1, Entries DEF HalfAtWork, OpenAtWork
  <2>6. DoneStays(p)'
    <3>1. CASE Writing(p)
      <4>1. using = "unpack"
        BY <1>0, <3>1 DEF FilesTypeOK
      <4>2. tree[n] # Complete("file", p)
        BY <1>0, <4>1, Entries, FilesAssumption
      <4> QED
        BY <1>0, <1>1, <3>1, <4>2, DoneKept
    <3>2. CASE ~Writing(p)
      BY <3>2, <2>1 DEF DoneStays
    <3> QED
      BY <3>1, <3>2
  <2> QED
    BY <2>2, <2>3, <2>4, <2>5, <2>6
<1> QED
  BY <1>3, <1>4, <1>5

-----------------------------------------------------------------------------
(* The whole.                                                              *)

LEMMA FilesInvInit == FilesInit => FilesInv
<1> SUFFICES ASSUME FilesInit PROVE FilesInv
  OBVIOUS
<1>1. FilesTypeOK
  BY FilesAssumption, Entries DEF FilesInit, FilesTypeOK
<1>2. \A n \in Node : tree[n] = Nothing
  BY DEF FilesInit
<1>3. OthersAreWhole
  BY <1>2, Entries DEF OthersAreWhole
<1>4. \A p \in Pid : fstep[p] = "idle" /\ ~Writing(p)
  BY DEF FilesInit, Writing
<1>5. OneMaterializes
  BY <1>4 DEF OneMaterializes
<1>6. ASSUME NEW p \in Pid PROVE Sound(p)
  <2>1. OnTheWay(p) /\ OpenIsOwn(p) /\ DoneStays(p)
    BY <1>4 DEF OnTheWay, OpenIsOwn, DoneStays
  <2>2. HeldIsDir(p)
    BY DEF HeldIsDir, FilesInit
  <2>3. HalfAtWork(p)
    BY <1>2, Entries DEF HalfAtWork
  <2>4. OpenAtWork(p)
    BY DEF OpenAtWork, FilesInit
  <2> QED
    BY <2>1, <2>2, <2>3, <2>4 DEF Sound
<1> QED
  BY <1>1, <1>3, <1>5, <1>6 DEF FilesInv

LEMMA ExtractKeeps ==
    ASSUME FilesInv, NEW p \in Pid, Extract(p)
    PROVE  FilesInv' /\ Frame(p)
<1>1. CASE UnpackStarts(p)
  BY <1>1, StartKeeps
<1>2. CASE UnpackRefused(p)
  BY <1>2, FailsKeep DEF UnpackRefused, Unpacks
<1>3. CASE MakeDirAt(p)
  BY <1>3, MakeDirAtKeeps
<1>4. CASE EnterDir(p)
  BY <1>4, EnterDirKeeps
<1>5. CASE Create(p)
  BY <1>5, CreateKeeps
<1>6. CASE PathError(p)
  BY <1>6, FailsKeep DEF PathError
<1>7. CASE WriteExtracted(p)
  BY <1>7, WriteExtractedKeeps
<1>8. CASE WriteExtractedFails(p)
  BY <1>8, WriteExtractedFailsKeeps
<1>9. CASE Undo(p)
  BY <1>9, UndoKeeps
<1> QED
  BY <1>1, <1>2, <1>3, <1>4, <1>5, <1>6, <1>7, <1>8, <1>9 DEF Extract

LEMMA MaterializeKeeps ==
    ASSUME FilesInv, NEW p \in Pid, Materialize(p)
    PROVE  FilesInv' /\ Frame(p)
<1>1. CASE MaterializeStarts(p)
  BY <1>1, MaterializeStartsKeeps
<1>2. CASE MakeDir(p)
  BY <1>2, MakeDirKeeps
<1>3. CASE OpenTemp(p)
  BY <1>3, OpenTempKeeps
<1>4. CASE MaterializeFails(p)
  BY <1>4, FailsKeep DEF MaterializeFails, Works
<1>5. CASE WriteTemp(p)
  BY <1>5, WriteTempKeeps
<1>6. CASE TempFails(p)
  BY <1>6, TempFailsKeeps
<1>7. CASE RenameTemp(p)
  BY <1>7, RenameTempKeeps
<1> QED
  BY <1>1, <1>2, <1>3, <1>4, <1>5, <1>6, <1>7 DEF Materialize

LEMMA FilesInvStep == FilesInv /\ [FilesNext]_fileVars => FilesInv'
<1> SUFFICES ASSUME FilesInv, [FilesNext]_fileVars PROVE FilesInv'
  OBVIOUS
<1>1. ASSUME NEW p \in Pid, Extract(p) PROVE FilesInv'
  BY <1>1, ExtractKeeps
<1>2. ASSUME NEW p \in Pid, Materialize(p) PROVE FilesInv'
  BY <1>2, MaterializeKeeps
<1>3. ASSUME NEW p \in Pid, KillWriter(p) PROVE FilesInv'
  BY <1>3, KillWriterKeeps
<1>4. ASSUME NEW n \in Node, SomebodyTakes(n) PROVE FilesInv'
  BY <1>4, SomebodyTakesKeeps
<1>5. ASSUME NEW n \in Node, NEW kind \in {"file", "dir", "link"}, SomebodyPuts(n, kind)
      PROVE  FilesInv'
  BY <1>5, SomebodyPutsKeeps
<1>6. CASE UNCHANGED fileVars
  BY <1>6 DEF fileVars, FilesInv, FilesTypeOK, OthersAreWhole, OneMaterializes, Sound,
              OnTheWay, HeldIsDir, OpenIsOwn, HalfAtWork, OpenAtWork, DoneStays,
              Writing, Target, ToWrite
<1> QED
  BY <1>1, <1>2, <1>3, <1>4, <1>5, <1>6 DEF FilesNext

(* The strengthened invariant: what every process has under way, and that  *)
(* everything incomplete belongs to somebody still at work on it or killed. *)
THEOREM AlwaysFilesInv == FilesSpec => []FilesInv
<1> QED
  BY FilesInvInit, FilesInvStep, PTL DEF FilesSpec

(* The files of a project in a work directory are written to a temporary    *)
(* that is renamed: a target is complete at every moment, also             *)
(* after a kill (write_embedded_file()).                                   *)
THEOREM TargetsAreAlwaysWhole == FilesSpec => []TargetsAreWhole
<1>1. FilesInv => TargetsAreWhole
  <2> SUFFICES ASSUME FilesInv, using = "work", NEW n \in Node PROVE tree[n].whole
    BY DEF TargetsAreWhole
  <2>1. tree[n].by \in Pid \cup {Somebody} /\ tree[n].whole \in BOOLEAN
    BY DEF FilesInv, FilesTypeOK, Entry
  <2>2. CASE tree[n].by = Somebody
    BY <2>2 DEF FilesInv, OthersAreWhole
  <2>3. CASE tree[n].by \in Pid
    BY <2>3 DEF FilesInv, Sound, HalfAtWork
  <2> QED
    BY <2>1, <2>2, <2>3
<1> QED
  BY <1>1, AlwaysFilesInv, PTL

(* A run that ends by itself, well or with an error, has no file of its    *)
(* own that is incomplete and no temporary left (write_extracted_file(),   *)
(* write_embedded_file()).                                                 *)
THEOREM NothingHalfIsLeft == FilesSpec => []LeavesNothingHalf
<1>1. FilesInv => LeavesNothingHalf
  BY DEF FilesInv, Sound, HalfAtWork, OpenAtWork, LeavesNothingHalf
<1> QED
  BY <1>1, AlwaysFilesInv, PTL

(* However links and directories are swapped under it, the directory an    *)
(* unpacking run has reached with mkdirat() and openat() is a real one in  *)
(* the target (open_extract_parent()).                                     *)
THEOREM UnpackAlwaysStaysInTarget == FilesSpec => []UnpackStaysInTarget
<1>1. FilesInv => UnpackStaysInTarget
  BY DEF FilesInv, Sound, HeldIsDir, UnpackStaysInTarget
<1> QED
  BY <1>1, AlwaysFilesInv, PTL

(* A process gets to "ok" by writing its last file, or had none to write.  *)
LEMMA FinishesByWriting ==
    ASSUME FilesInv, [FilesNext]_fileVars, NEW p \in Pid, fstep[p] # "ok", fstep'[p] = "ok"
    PROVE  \/ ToWrite = <<>>
           \/ /\ Writing(p) /\ nth[p] >= Len(ToWrite) /\ Put(Target(p), Complete("file", p))
<1> USE DEF FilesInv
<1> DEFINE Label == {"idle", "walk", "enter", "write", "undo", "rename",
                     "ok", "failed", "killed"}
<1>0. fstep \in [Pid -> Label]
  BY DEF FilesTypeOK
<1>1. Extract(p) \/ Materialize(p) \/ KillWriter(p)
  <2>1. ASSUME NEW q \in Pid, Extract(q) PROVE q = p
    BY <2>1, ExtractKeeps DEF Frame
  <2>2. ASSUME NEW q \in Pid, Materialize(q) PROVE q = p
    BY <2>2, MaterializeKeeps DEF Frame
  <2>3. ASSUME NEW q \in Pid, KillWriter(q) PROVE q = p
    BY <2>3, KillWriterKeeps DEF Frame
  <2>4. fstep' # fstep
    OBVIOUS
  <2> QED
    BY <2>1, <2>2, <2>3, <2>4 DEF FilesNext, SomebodyTakes, SomebodyPuts, fileVars
<1>2. CASE Begins(p)
  BY <1>0, <1>2 DEF Begins, FilesGoto
<1>3. CASE WriteExtracted(p) \/ RenameTemp(p)
  BY <1>0, <1>3 DEF WriteExtracted, RenameTemp, NextFile, FilesGoto, Unpacks, Works, Writing,
                    FilesTypeOK
<1>4. ASSUME NEW label \in Label \ {"ok"}, FilesGoto(p, label) PROVE FALSE
  BY <1>0, <1>4 DEF FilesGoto
<1>5. CASE Extract(p)
  BY <1>2, <1>3, <1>4, <1>5
     DEF Extract, UnpackStarts, UnpackRefused, MakeDirAt, EnterDir, Create, PathError,
         WriteExtractedFails, Undo, Fails
<1>6. CASE Materialize(p)
  BY <1>2, <1>3, <1>4, <1>6
     DEF Materialize, MaterializeStarts, MakeDir, OpenTemp, MaterializeFails, WriteTemp,
         TempFails, Fails
<1>7. CASE KillWriter(p)
  BY <1>4, <1>7 DEF KillWriter
<1> QED
  BY <1>1, <1>5, <1>6, <1>7

(* Whoever reports success has written every file completely, --unpack the *)
(* script too: no file is forgotten and none taken back (hm_unpack(),      *)
(* hm_materialize_files()).                                                *)
THEOREM SuccessMeansAllFiles == FilesSpec => SucceedsWithAllFiles
<1>1. FilesInv /\ [FilesNext]_fileVars =>
        \A p \in Pid : fstep[p] # "ok" /\ fstep'[p] = "ok" =>
            \A i \in DOMAIN ToWrite : tree'[ToWrite[i]] = Complete("file", p)
  <2> SUFFICES ASSUME FilesInv, [FilesNext]_fileVars, NEW p \in Pid,
                      fstep[p] # "ok", fstep'[p] = "ok", NEW i \in DOMAIN ToWrite
               PROVE  tree'[ToWrite[i]] = Complete("file", p)
    OBVIOUS
  <2>1. ToWrite \in Seq(Written) /\ FilesTypeOK
    BY ListsAreWritten DEF FilesInv
  <2>2. /\ Writing(p) /\ nth[p] >= Len(ToWrite) /\ Put(Target(p), Complete("file", p))
    BY <2>1, FinishesByWriting
  <2>3. Target(p) \in Node
    BY <2>1, <2>2, TargetIsNode DEF FilesInv, Sound, OnTheWay
  <2>4. /\ tree'[Target(p)] = Complete("file", p)
        /\ \A n \in Node : n # Target(p) => tree'[n] = tree[n]
    BY <2>1, <2>2, <2>3, Entries, PutAt
  <2>5. i < nth[p] + 1
    BY <2>1, <2>2 DEF FilesTypeOK
  <2> QED
    BY <2>2, <2>4, <2>5, DoneGrows
<1> QED
  BY <1>1, AlwaysFilesInv, PTL DEF FilesSpec, SucceedsWithAllFiles

(* Nothing that is there already is replaced or removed by --unpack but    *)
(* the file it has made itself (O_EXCL, mkdirat(), unlinkat()).            *)
THEOREM UnpackAlwaysSparesOthers == FilesSpec => UnpackSparesOthers
<1>1. FilesInv /\ [FilesNext]_fileVars =>
        \A p \in Pid, n \in Node :
            using = "unpack" /\ fstep'[p] # fstep[p] /\ tree'[n] # tree[n] =>
                ~Exists(n) \/ tree[n].by = p
  <2> SUFFICES ASSUME FilesInv, [FilesNext]_fileVars, NEW p \in Pid, NEW n \in Node,
                      using = "unpack", fstep'[p] # fstep[p], tree'[n] # tree[n]
               PROVE  ~Exists(n) \/ tree[n].by = p
    OBVIOUS
  <2>1. ASSUME NEW q \in Pid, Extract(q) \/ Materialize(q) \/ KillWriter(q)
        PROVE  ~Exists(n) \/ tree[n].by = p
    <3>1. Frame(q)
      BY <2>1, ExtractKeeps, MaterializeKeeps, KillWriterKeeps
    <3>2. q = p
      BY <3>1 DEF Frame
    <3> QED
      BY <3>1, <3>2, Entries DEF Frame, Exists
  <2>2. fstep' # fstep
    OBVIOUS
  <2> QED
    BY <2>1, <2>2 DEF FilesNext, SomebodyTakes, SomebodyPuts, fileVars
<1> QED
  BY <1>1, AlwaysFilesInv, PTL DEF FilesSpec, UnpackSparesOthers
=============================================================================
