------------------------- MODULE ProjectFileProofs --------------------------
(***************************************************************************)
(* Proofs about ProjectFile.tla, for every set of paths, names, schedules  *)
(* and limits, and for files of any length.                                *)
(***************************************************************************)
EXTENDS ProjectFile, SequenceTheorems, FiniteSetTheorems, TLAPS

-----------------------------------------------------------------------------
(* The nestings there are, and what opening and closing makes of them.     *)
InFile == Append(<<>>, "map")
InMap == Append(InFile, "map")
InList == Append(InFile, "seq")
InListInMap == Append(InMap, "seq")
Nestings == {<<>>, InFile, InMap, InList, InListInMap}

TopIs(n, kind) == n # <<>> /\ n[Len(n)] = kind
SecondIsMap(n) == Len(n) >= 2 /\ n[2] = "map"
Outer(n) == SubSeq(n, 1, Len(n) - 1)

Kinds == {"map", "seq"}

LEMMA Appended ==
    ASSUME NEW n \in Seq(Kinds), NEW kind \in Kinds
    PROVE  /\ Append(n, kind) \in Seq(Kinds)
           /\ Len(Append(n, kind)) = Len(n) + 1
           /\ Append(n, kind) # <<>>
           /\ Append(n, kind)[Len(n) + 1] = kind
           /\ \A i \in 1..Len(n) : Append(n, kind)[i] = n[i]
BY AppendProperties

LEMMA Levels ==
    /\ InFile \in Seq(Kinds) /\ InMap \in Seq(Kinds)
    /\ InList \in Seq(Kinds) /\ InListInMap \in Seq(Kinds)
    /\ Len(InFile) = 1 /\ Len(InMap) = 2 /\ Len(InList) = 2 /\ Len(InListInMap) = 3
    /\ InFile # <<>> /\ InMap # <<>> /\ InList # <<>> /\ InListInMap # <<>>
    /\ InFile[1] = "map" /\ InMap[2] = "map" /\ InList[2] = "seq"
    /\ InListInMap[2] = "map" /\ InListInMap[3] = "seq"
<1>1. <<>> \in Seq(Kinds) /\ Len(<<>>) = 0 /\ "map" \in Kinds /\ "seq" \in Kinds
  BY DEF Kinds
<1>2. InFile \in Seq(Kinds) /\ InFile # <<>> /\ Len(InFile) = 0 + 1 /\ InFile[0 + 1] = "map"
  BY <1>1, Appended DEF InFile
<1>3. InMap \in Seq(Kinds) /\ InMap # <<>>
      /\ Len(InMap) = Len(InFile) + 1 /\ InMap[Len(InFile) + 1] = "map"
  BY <1>1, <1>2, Appended DEF InMap
<1>4. InList \in Seq(Kinds) /\ InList # <<>>
      /\ Len(InList) = Len(InFile) + 1 /\ InList[Len(InFile) + 1] = "seq"
  BY <1>1, <1>2, Appended DEF InList
<1>5. /\ InListInMap \in Seq(Kinds) /\ InListInMap # <<>> /\ Len(InListInMap) = Len(InMap) + 1
      /\ InListInMap[Len(InMap) + 1] = "seq"
      /\ \A i \in 1..Len(InMap) : InListInMap[i] = InMap[i]
  BY <1>1, <1>3, Appended DEF InListInMap
<1>6. Len(InFile) = 1 /\ Len(InMap) = 2
  BY <1>2, <1>3
<1> QED
  BY <1>2, <1>3, <1>4, <1>5, <1>6

LEMMA Tops ==
    /\ TopIs(InFile, "map") /\ TopIs(InMap, "map")
    /\ TopIs(InList, "seq") /\ TopIs(InListInMap, "seq")
    /\ ~TopIs(<<>>, "map") /\ ~TopIs(<<>>, "seq")
    /\ ~TopIs(InFile, "seq") /\ ~TopIs(InMap, "seq")
    /\ ~TopIs(InList, "map") /\ ~TopIs(InListInMap, "map")
    /\ SecondIsMap(InMap) /\ SecondIsMap(InListInMap)
    /\ ~SecondIsMap(<<>>) /\ ~SecondIsMap(InFile) /\ ~SecondIsMap(InList)
    /\ InFile # <<>> /\ InMap # <<>> /\ InList # <<>> /\ InListInMap # <<>>
    /\ InFile # InMap /\ InFile # InList /\ InFile # InListInMap
    /\ InMap # InList /\ InMap # InListInMap /\ InList # InListInMap
<1>1. Len(<<>>) = 0
  OBVIOUS
<1>2. /\ InFile # InMap /\ InFile # InList /\ InFile # InListInMap
      /\ InMap # InList /\ InMap # InListInMap /\ InList # InListInMap
  <2>1. Len(InFile) # Len(InMap) /\ Len(InFile) # Len(InList) /\ Len(InFile) # Len(InListInMap)
        /\ Len(InMap) # Len(InListInMap) /\ Len(InList) # Len(InListInMap)
    BY Levels
  <2>2. InMap[2] # InList[2]
    BY Levels
  <2> QED
    BY <2>1, <2>2
<1>3. /\ InFile[Len(InFile)] = "map" /\ InMap[Len(InMap)] = "map"
      /\ InList[Len(InList)] = "seq" /\ InListInMap[Len(InListInMap)] = "seq"
  BY Levels
<1>4. "map" # "seq"
  OBVIOUS
<1>5. /\ SecondIsMap(InMap) /\ SecondIsMap(InListInMap)
      /\ ~SecondIsMap(<<>>) /\ ~SecondIsMap(InFile) /\ ~SecondIsMap(InList)
  BY <1>1, Levels DEF SecondIsMap
<1> QED
  BY <1>2, <1>3, <1>4, <1>5, Levels DEF TopIs

LEMMA OuterOfAppend ==
    ASSUME NEW n \in Seq(Kinds), NEW kind \in Kinds
    PROVE  Outer(Append(n, kind)) = n
<1> DEFINE a == Append(n, kind)
<1>1. /\ a \in Seq(Kinds) /\ Len(a) = Len(n) + 1
      /\ \A i \in 1..Len(n) : a[i] = n[i]
  BY AppendProperties
<1>2. Len(n) \in Nat
  OBVIOUS
<1>3. \A i \in 1..Len(n) : a[i] \in Kinds
  BY <1>1
<1>4. Len(a) - 1 = Len(n)
  BY <1>1, <1>2
<1>5. /\ SubSeq(a, 1, Len(n)) \in Seq(Kinds)
      /\ Len(SubSeq(a, 1, Len(n))) = Len(n)
      /\ \A i \in 1..Len(n) : SubSeq(a, 1, Len(n))[i] = n[i]
  <2>1. /\ SubSeq(a, 1, Len(n)) \in Seq(Kinds)
        /\ Len(SubSeq(a, 1, Len(n))) = IF 1 <= Len(n) THEN Len(n) - 1 + 1 ELSE 0
        /\ \A i \in 1..(Len(n) - 1 + 1) : SubSeq(a, 1, Len(n))[i] = a[1 + i - 1]
    BY <1>2, <1>3, SubSeqProperties
  <2> QED
    BY <2>1, <1>1, <1>2
<1>6. SubSeq(a, 1, Len(n)) = n
  BY <1>5, SeqEqual
<1> QED
  BY <1>4, <1>6 DEF Outer

LEMMA Opened ==
    /\ Append(<<>>, "map") = InFile
    /\ Append(InFile, "map") = InMap /\ Append(InFile, "seq") = InList
    /\ Append(InMap, "seq") = InListInMap
BY DEF InFile, InMap, InList, InListInMap

LEMMA Closed ==
    /\ Outer(InFile) = <<>> /\ Outer(InMap) = InFile /\ Outer(InList) = InFile
    /\ Outer(InListInMap) = InMap
<1>1. <<>> \in Seq(Kinds) /\ "map" \in Kinds /\ "seq" \in Kinds
  BY DEF Kinds
<1> QED
  BY <1>1, Levels, OuterOfAppend DEF InFile, InMap, InList, InListInMap

-----------------------------------------------------------------------------
(* The nesting and the flags.                                              *)
NestInv ==
    /\ nest \in Nestings
    /\ header \in BOOLEAN
    /\ inside \subseteq NestedKey
    /\ pending \in {{}, {"files"}, {"bin-path"}, {"sandbox-write-dirs"}}
    /\ header => nest = InFile
    /\ finished => nest = <<>> /\ started
    /\ nest = <<>> => (started => finished)
    /\ nest # <<>> => started
    /\ "sandbox-write-dirs" \in inside <=> TopIs(nest, "seq")
    /\ ("files" \in inside \/ "bin-path" \in inside) <=> SecondIsMap(nest)
    /\ ~("files" \in inside /\ "bin-path" \in inside)
    /\ pending # {} => header

LEMMA NestMeansFlags == NestInv => FlagsFollowNesting
BY DEF NestInv, FlagsFollowNesting, TopIs, SecondIsMap, Innermost

LEMMA NestInit == Init => NestInv
BY Tops DEF Init, NestInv, Nestings

(* Rejecting, and what follows the stream's end, leaves it all alone.      *)
LEMMA NestFrame ==
    ASSUME NestInv, UNCHANGED <<nest, header, started, finished, pending, inside>>
    PROVE  NestInv'
BY DEF NestInv

LEMMA InIsTop == ASSUME NEW kind, In(kind) PROVE TopIs(nest, kind) /\ ~header
BY DEF In, TopIs, Innermost

LEMMA CloseIsOuter == Close => nest' = Outer(nest) /\ header' = header
BY DEF Close, Outer

LEMMA NestNext == NestInv /\ [Next]_vars => NestInv'
<1> SUFFICES ASSUME NestInv, [Next]_vars PROVE NestInv'
  OBVIOUS
<1> USE DEF NestedKey
<1>0. CASE Reject
  BY <1>0, NestFrame DEF Reject, simlVars, cfgVars
<1>1. ASSUME NEW kind \in {"map", "seq"}, Root(kind) PROVE NestInv'
  <2> SUFFICES ASSUME ~Reject PROVE NestInv'
    BY <1>0
  <2>1. nest = <<>> /\ nest' = InFile /\ header' = FALSE /\ started'
        /\ UNCHANGED <<finished, pending, inside>>
    BY <1>1 DEF Root, Open, InFile
  <2>2. ~finished
    BY <1>1 DEF Root, NestInv
  <2> QED
    BY <2>1, <2>2, Tops DEF NestInv, Nestings
<1>2. CASE FinishProject
  <2> SUFFICES ASSUME ~Reject PROVE NestInv'
    BY <1>0
  <2>1. In("map") /\ Close /\ "files" \notin inside /\ "bin-path" \notin inside
        /\ UNCHANGED <<started, pending, inside>> /\ finished'
    BY <1>2 DEF FinishProject, ClosesProject
  <2>2. TopIs(nest, "map") /\ ~header /\ nest' = Outer(nest) /\ header' = header
    BY <2>1, InIsTop, CloseIsOuter
  <2>3. nest = InFile
    BY <2>1, <2>2, Tops DEF NestInv, Nestings
  <2> QED
    BY <2>1, <2>2, <2>3, Tops, Closed DEF NestInv, Nestings
<1>3. CASE StreamEnd \/ ConfirmBin
  BY <1>0, <1>3, NestFrame DEF StreamEnd, ConfirmBin, simlVars, cfgVars
<1>4. ASSUME NEW key \in NestedKey \cup {"other"}, Header(key) PROVE NestInv'
  <2> SUFFICES ASSUME ~Reject PROVE NestInv'
    BY <1>0
  <2>1. In("map") /\ inside = {} /\ header' /\ pending' = pending \cup ({key} \cap NestedKey)
        /\ UNCHANGED <<nest, started, finished, inside>> /\ header' = TRUE
    BY <1>4 DEF Header, Entry
  <2>2. TopIs(nest, "map")
    BY <2>1, InIsTop
  <2>3. nest = InFile
    BY <2>1, <2>2, Tops DEF NestInv, Nestings
  <2> QED
    BY <2>1, <2>3 DEF NestInv
<1>5. ASSUME NEW key \in NestedKey \cup {"other", ""}, NEW flow \in BOOLEAN,
             SequenceStart(key, flow)
      PROVE  NestInv'
  <2> SUFFICES ASSUME ~Reject PROVE NestInv'
    BY <1>0
  <2>1. /\ nest' = Append(nest, "seq") /\ header' = FALSE
        /\ inside' = inside \cup {"sandbox-write-dirs"}
        /\ pending' = pending \ {"sandbox-write-dirs"}
        /\ "sandbox-write-dirs" \in pending \/ key = "sandbox-write-dirs"
        /\ UNCHANGED <<started, finished>>
    BY <1>5 DEF SequenceStart, Open
  <2>2. header \/ (In("map") /\ key # "") \/ (In("seq") /\ key = "")
    BY <1>5 DEF SequenceStart
  <2>3. nest = InFile \/ nest = InMap
    BY <2>1, <2>2, InIsTop, Tops DEF NestInv, Nestings
  <2>4. pending' = {}
    <3>1. CASE header
      <4>1. "sandbox-write-dirs" \in pending
        BY <1>5, <3>1 DEF SequenceStart, In, Reject
      <4> QED
        BY <4>1, <2>1 DEF NestInv
    <3>2. CASE ~header
      BY <2>1, <3>2 DEF NestInv
    <3> QED
      BY <3>1, <3>2
  <2>5. (nest' = InList /\ nest = InFile) \/ (nest' = InListInMap /\ nest = InMap)
    <3>1. CASE nest = InFile
      BY <2>1, <3>1, Opened
    <3>2. CASE nest = InMap
      BY <2>1, <3>2, Opened
    <3> QED
      BY <2>3, <3>1, <3>2
  <2>6. ~finished
    BY <2>3, Tops DEF NestInv
  <2> QED
    BY <2>1, <2>4, <2>5, <2>6, Tops DEF NestInv, Nestings
<1>6. CASE SequenceEnd
  <2>1. In("seq") /\ Close /\ inside' = inside \ {"sandbox-write-dirs"}
        /\ UNCHANGED <<started, finished, pending>>
    BY <1>6 DEF SequenceEnd
  <2>2. TopIs(nest, "seq") /\ ~header /\ nest' = Outer(nest) /\ header' = header
    BY <2>1, InIsTop, CloseIsOuter
  <2>3. nest = InList \/ nest = InListInMap
    BY <2>2, Tops DEF NestInv, Nestings
  <2>4. (nest = InList /\ nest' = InFile) \/ (nest = InListInMap /\ nest' = InMap)
    <3>1. CASE nest = InList
      BY <2>2, <3>1, Closed
    <3>2. CASE nest = InListInMap
      BY <2>2, <3>2, Closed
    <3> QED
      BY <2>3, <3>1, <3>2
  <2> QED
    BY <2>1, <2>2, <2>4, Tops DEF NestInv, Nestings
<1>7. CASE MappingStart
  <2> SUFFICES ASSUME ~Reject PROVE NestInv'
    BY <1>0
  <2>1. PICK awaited \in SUBSET NestedKey :
          /\ awaited = IF "files" \in pending THEN {"files"} ELSE pending \cap {"bin-path"}
          /\ awaited # {}
          /\ pending' = pending \ awaited /\ inside' = inside \cup awaited
          /\ nest' = Append(nest, "map") /\ header' = FALSE
          /\ UNCHANGED <<started, finished>>
    BY <1>7 DEF MappingStart, Open
  <2>2. nest = InFile /\ nest' = InMap
    BY <2>1 DEF NestInv, InMap
  <2>3. pending' = {} /\ (awaited = {"files"} \/ awaited = {"bin-path"})
    BY <2>1 DEF NestInv
  <2>4. "files" \notin inside /\ "bin-path" \notin inside /\ "sandbox-write-dirs" \notin inside
    BY <2>2, Tops DEF NestInv
  <2> QED
    BY <2>1, <2>2, <2>3, <2>4, Tops DEF NestInv, Nestings
<1>8. CASE FilesEnd
  <2>1. In("map") /\ Close /\ "files" \in inside /\ inside' = inside \ {"files"}
        /\ UNCHANGED <<started, finished, pending>>
    BY <1>8 DEF FilesEnd
  <2>2. TopIs(nest, "map") /\ ~header /\ nest' = Outer(nest) /\ header' = header
    BY <2>1, InIsTop, CloseIsOuter
  <2>3. nest = InMap /\ nest' = InFile
    BY <2>1, <2>2, Tops, Closed DEF NestInv, Nestings
  <2> QED
    BY <2>1, <2>2, <2>3, Tops DEF NestInv, Nestings
<1>9. CASE BinMapEnd
  <2> SUFFICES ASSUME ~Reject PROVE NestInv'
    BY <1>0
  <2>1. In("map") /\ Close /\ "files" \notin inside /\ "bin-path" \in inside
        /\ inside' = inside \ {"bin-path"} /\ UNCHANGED <<started, finished, pending>>
    BY <1>9 DEF BinMapEnd
  <2>2. TopIs(nest, "map") /\ ~header /\ nest' = Outer(nest) /\ header' = header
    BY <2>1, InIsTop, CloseIsOuter
  <2>3. nest = InMap /\ nest' = InFile
    BY <2>1, <2>2, Tops, Closed DEF NestInv, Nestings
  <2> QED
    BY <2>1, <2>2, <2>3, Tops DEF NestInv, Nestings
<1>10. ASSUME NEW path \in Path, AddDir(path) \/ SetBin(path) PROVE NestInv'
  BY <1>0, <1>10, NestFrame DEF AddDir, SetBin, Field, Line, Entry, cfgVars
<1>11. ASSUME NEW name \in FileName, AddFile(name) PROVE NestInv'
  BY <1>0, <1>11, NestFrame DEF AddFile, Line, Entry, cfgVars
<1>12. ASSUME NEW name \in Name, NEW path \in Path, AddBinEntry(name, path) PROVE NestInv'
  BY <1>0, <1>12, NestFrame DEF AddBinEntry, Line, Entry, cfgVars
<1>13. CASE BadEntry
  BY <1>0, <1>13 DEF BadEntry
<1>14. CASE SetSubject \/ SetCheck \/ SetSchedule \/ SetSandboxed \/ SetPrefix \/ SetSuffix
            \/ SetInstall
  BY <1>14, NestFrame DEF SetSubject, SetCheck, SetSchedule, SetSandboxed, SetPrefix, SetSuffix,
                          SetInstall, Field, Line, Entry
<1>15. CASE UNCHANGED vars
  BY <1>15, NestFrame DEF vars
<1> QED
  BY <1>1, <1>2, <1>3, <1>4, <1>5, <1>6, <1>7, <1>8, <1>9, <1>10, <1>11, <1>12, <1>13, <1>14,
     <1>15 DEF Next

-----------------------------------------------------------------------------
(* The rules: what finish_project() is told by the seen_* flags.           *)
TypesInv ==
    /\ seen \subseteq NestedKey \cup {"check", "version", "install"}
    /\ proj \in Fields
    /\ outcome \in {"reading", "rejected", "parsed", "accepted"}

RuleInv ==
    /\ TypesInv
    /\ files # {} \/ "files" \in inside \/ "files" \in pending => "files" \in seen
    /\ proj.install => "install" \in seen
    /\ proj.check # "etag" => "check" \in seen
    /\ ~proj.explicit => proj.sched = "every"
    /\ finished => ~FinishFails
    /\ Taken => finished

LEMMA RuleInit == Init => RuleInv
<1> SUFFICES ASSUME Init PROVE RuleInv
  OBVIOUS
<1>1. Blank \in Fields
  BY FileAssumption DEF Blank, Fields, CheckKind, SchedKind
<1> QED
  BY <1>1 DEF Init, RuleInv, TypesInv, Taken, Blank

LEMMA RuleFrame ==
    ASSUME RuleInv,
           UNCHANGED <<started, finished, seen, pending, inside, proj, files, dirs>>,
           outcome' = outcome \/ outcome' = "rejected" \/ (Taken' /\ finished)
    PROVE  RuleInv'
<1>1. FinishFails' = FinishFails
  BY DEF FinishFails, WrongKind, BinFails, DirsFail
<1> QED
  BY <1>1 DEF RuleInv, TypesInv, Taken

LEMMA NotFinished ==
    ASSUME NestInv, NEW kind, In(kind) \/ header PROVE ~finished /\ (In(kind) => outcome = "reading")
BY Tops DEF NestInv, In

(* An entry or a container changes what the rules are about, but only      *)
(* before the project is finished.                                         *)
LEMMA RuleOpen ==
    ASSUME RuleInv, ~finished, UNCHANGED finished, outcome' = outcome, TypesInv',
           (files' # {} \/ "files" \in inside' \/ "files" \in pending' => "files" \in seen'),
           (proj'.install => "install" \in seen'),
           (proj'.check # "etag" => "check" \in seen'),
           (~proj'.explicit => proj'.sched = "every")
    PROVE  RuleInv'
BY DEF RuleInv, Taken

LEMMA FieldRule ==
    ASSUME NestInv, RuleInv, NEW key, NEW p \in Fields, Field(key, p),
           p.install => "install" \in seen \cup {key},
           p.check # "etag" => "check" \in seen \cup {key},
           ~p.explicit => p.sched = "every"
    PROVE  RuleInv'
<1>1. /\ In("map") /\ proj' = p
      /\ seen' = seen \cup ({key} \cap {"check", "version", "install", "bin-path"})
      /\ UNCHANGED <<finished, pending, inside, files, outcome>>
  BY DEF Field, InProject
<1>2. ~finished
  BY <1>1, NotFinished
<1>3. TypesInv'
  BY <1>1 DEF RuleInv, TypesInv, NestedKey
<1>4. ("install" \in seen \cup {key} => "install" \in seen')
      /\ ("check" \in seen \cup {key} => "check" \in seen') /\ seen \subseteq seen'
  BY <1>1
<1> QED
  BY <1>1, <1>2, <1>3, <1>4, RuleOpen DEF RuleInv

LEMMA RuleNext == NestInv /\ RuleInv /\ [Next]_vars => RuleInv'
<1> SUFFICES ASSUME NestInv, RuleInv, [Next]_vars PROVE RuleInv'
  OBVIOUS
<1>0. CASE Reject
  BY <1>0, RuleFrame DEF Reject, cfgVars, projVars
<1>1. ASSUME NEW kind \in {"map", "seq"}, Root(kind) PROVE RuleInv'
  <2> SUFFICES ASSUME ~Reject PROVE RuleInv'
    BY <1>0
  <2>1. ~finished /\ UNCHANGED <<finished, seen, pending, inside, proj, files, outcome>>
    BY <1>1 DEF Root, NestInv, projVars
  <2> QED
    BY <2>1, RuleOpen DEF RuleInv, TypesInv
<1>2. CASE FinishProject
  <2> SUFFICES ASSUME ~Reject PROVE RuleInv'
    BY <1>0
  <2>1. ~FinishFails /\ UNCHANGED <<seen, pending, inside, proj, files, dirs, outcome>>
        /\ outcome = "reading"
    BY <1>2 DEF FinishProject, ClosesProject, In, projVars
  <2>2. ~FinishFails'
    BY <2>1 DEF FinishFails, WrongKind, BinFails, DirsFail
  <2> QED
    BY <2>1, <2>2 DEF RuleInv, TypesInv, Taken
<1>3. CASE StreamEnd \/ ConfirmBin
  <2> SUFFICES ASSUME ~Reject PROVE RuleInv'
    BY <1>0
  <2>1. UNCHANGED <<started, finished, seen, pending, inside, proj, files, dirs>>
    BY <1>3 DEF StreamEnd, ConfirmBin, cfgVars, projVars
  <2>2. finished /\ outcome' \in {"rejected", "parsed", "accepted"}
    BY <1>3 DEF StreamEnd, ConfirmBin, RuleInv, Taken
  <2> QED
    BY <2>1, <2>2, RuleFrame DEF Taken
<1>4. ASSUME NEW key \in NestedKey \cup {"other"}, Header(key) PROVE RuleInv'
  <2> SUFFICES ASSUME ~Reject PROVE RuleInv'
    BY <1>0
  <2>1. In("map") /\ seen' = seen \cup ({key} \cap NestedKey)
        /\ pending' = pending \cup ({key} \cap NestedKey)
        /\ UNCHANGED <<finished, inside, proj, files, outcome>>
    BY <1>4 DEF Header, projVars
  <2>2. ~finished
    BY <2>1, NotFinished
  <2> QED
    BY <2>1, <2>2, RuleOpen DEF RuleInv, TypesInv
<1>5. ASSUME NEW key \in NestedKey \cup {"other", ""}, NEW flow \in BOOLEAN,
             SequenceStart(key, flow)
      PROVE  RuleInv'
  <2> SUFFICES ASSUME ~Reject PROVE RuleInv'
    BY <1>0
  <2>1. /\ seen' = seen \cup {"sandbox-write-dirs"}
        /\ pending' = pending \ {"sandbox-write-dirs"}
        /\ inside' = inside \cup {"sandbox-write-dirs"}
        /\ UNCHANGED <<finished, proj, files, outcome>>
        /\ header \/ In("map") \/ In("seq")
    BY <1>5 DEF SequenceStart, projVars
  <2>2. ~finished
    BY <2>1, NotFinished
  <2> QED
    BY <2>1, <2>2, RuleOpen DEF RuleInv, TypesInv, NestedKey
<1>6. CASE SequenceEnd
  <2>1. In("seq") /\ inside' \subseteq inside
        /\ UNCHANGED <<finished, seen, pending, proj, files, outcome>>
    BY <1>6 DEF SequenceEnd, projVars
  <2>2. ~finished
    BY <2>1, NotFinished
  <2> QED
    BY <2>1, <2>2, RuleOpen DEF RuleInv, TypesInv
<1>7. CASE MappingStart
  <2> SUFFICES ASSUME ~Reject PROVE RuleInv'
    BY <1>0
  <2>1. /\ header \/ In("seq")
        /\ pending' \subseteq pending /\ inside' \subseteq inside \cup pending
        /\ UNCHANGED <<finished, seen, proj, files, outcome>>
    BY <1>7 DEF MappingStart, projVars
  <2>2. ~finished
    BY <2>1, NotFinished
  <2> QED
    BY <2>1, <2>2, RuleOpen DEF RuleInv, TypesInv
<1>8. CASE FilesEnd
  <2>1. In("map") /\ inside' \subseteq inside
        /\ UNCHANGED <<finished, seen, pending, proj, files, outcome>>
    BY <1>8 DEF FilesEnd, projVars
  <2>2. ~finished
    BY <2>1, NotFinished
  <2> QED
    BY <2>1, <2>2, RuleOpen DEF RuleInv, TypesInv
<1>9. CASE BinMapEnd
  <2> SUFFICES ASSUME ~Reject PROVE RuleInv'
    BY <1>0
  <2>1. In("map") /\ proj' = Settled /\ inside' \subseteq inside
        /\ UNCHANGED <<finished, seen, pending, files, outcome>>
    BY <1>9 DEF BinMapEnd
  <2>2. ~finished
    BY <2>1, NotFinished
  <2>3. /\ proj' \in Fields /\ proj'.install = proj.install /\ proj'.check = proj.check
        /\ proj'.explicit = proj.explicit /\ proj'.sched = proj.sched
    BY <2>1 DEF Settled, RuleInv, TypesInv, Fields
  <2> QED
    BY <2>1, <2>2, <2>3, RuleOpen DEF RuleInv, TypesInv
<1>10. ASSUME NEW path \in Path, AddDir(path) PROVE RuleInv'
  <2> SUFFICES ASSUME ~Reject PROVE RuleInv'
    BY <1>0
  <2>1. In("seq") /\ UNCHANGED <<finished, seen, pending, inside, proj, files, outcome>>
    BY <1>10 DEF AddDir, cfgVars
  <2>2. ~finished
    BY <2>1, NotFinished
  <2> QED
    BY <2>1, <2>2, RuleOpen DEF RuleInv, TypesInv
<1>11. ASSUME NEW name \in FileName, AddFile(name) PROVE RuleInv'
  <2> SUFFICES ASSUME ~Reject PROVE RuleInv'
    BY <1>0
  <2>1. In("map") /\ "files" \in inside
        /\ UNCHANGED <<finished, seen, pending, inside, proj, outcome>>
    BY <1>11 DEF AddFile, cfgVars
  <2>2. ~finished
    BY <2>1, NotFinished
  <2> QED
    BY <2>1, <2>2, RuleOpen DEF RuleInv, TypesInv
<1>12. ASSUME NEW name \in Name, NEW path \in Path, AddBinEntry(name, path) PROVE RuleInv'
  <2> SUFFICES ASSUME ~Reject PROVE RuleInv'
    BY <1>0
  <2>1. PICK first :
          /\ In("map") /\ UNCHANGED <<finished, seen, pending, inside, files, outcome>>
          /\ first = IF names = <<>> THEN [proj EXCEPT !.binDefault = path] ELSE proj
          /\ proj' = IF name = invoked THEN [first EXCEPT !.bin = path, !.choice = "named"]
                     ELSE first
    BY <1>12 DEF AddBinEntry, cfgVars
  <2>2. ~finished
    BY <2>1, NotFinished
  <2>3. /\ first \in Fields /\ first.install = proj.install /\ first.check = proj.check
        /\ first.explicit = proj.explicit /\ first.sched = proj.sched
    BY <2>1 DEF RuleInv, TypesInv, Fields
  <2>4. /\ proj' \in Fields /\ proj'.install = proj.install /\ proj'.check = proj.check
        /\ proj'.explicit = proj.explicit /\ proj'.sched = proj.sched
    BY <2>1, <2>3 DEF Fields
  <2> QED
    BY <2>1, <2>2, <2>4, RuleOpen DEF RuleInv, TypesInv
<1>13. CASE BadEntry
  BY <1>0, <1>13 DEF BadEntry
<1>14. CASE SetSubject
  <2>1. PICK key \in {"url", "command"} : Field(key, [proj EXCEPT ![key] = TRUE])
    BY <1>14 DEF SetSubject
  <2> DEFINE p == [proj EXCEPT ![key] = TRUE]
  <2>2. /\ p \in Fields /\ p.install = proj.install /\ p.check = proj.check
        /\ p.explicit = proj.explicit /\ p.sched = proj.sched
    <3>1. CASE key = "url"
      BY <3>1 DEF RuleInv, TypesInv, Fields
    <3>2. CASE key = "command"
      BY <3>2 DEF RuleInv, TypesInv, Fields
    <3> QED
      BY <3>1, <3>2
  <2> HIDE DEF p
  <2>3. Field(key, p)
    BY <2>1 DEF p
  <2> QED
    BY <2>2, <2>3, FieldRule DEF RuleInv
<1>15. CASE SetCheck
  <2>1. PICK k \in CheckKind : Field("check", [proj EXCEPT !.check = k])
    BY <1>15 DEF SetCheck
  <2> DEFINE p == [proj EXCEPT !.check = k]
  <2>2. /\ p \in Fields /\ p.install = proj.install
        /\ p.explicit = proj.explicit /\ p.sched = proj.sched
    BY DEF RuleInv, TypesInv, Fields
  <2> HIDE DEF p
  <2>3. Field("check", p)
    BY <2>1 DEF p
  <2> QED
    BY <2>2, <2>3, FieldRule DEF RuleInv
<1>16. CASE SetSchedule
  <2>1. PICK s \in Schedules :
          Field("schedule", [proj EXCEPT !.sched = s.sched, !.explicit = TRUE,
                               !.interval = IF s.sched = "every" THEN s.interval ELSE @])
    BY <1>16 DEF SetSchedule
  <2> DEFINE p == [proj EXCEPT !.sched = s.sched, !.explicit = TRUE,
                     !.interval = IF s.sched = "every" THEN s.interval ELSE @]
  <2>2. s.sched \in SchedKind /\ s.interval \in Int
    BY FileAssumption
  <2>3. /\ p \in Fields /\ p.install = proj.install /\ p.check = proj.check /\ p.explicit
    BY <2>2 DEF RuleInv, TypesInv, Fields
  <2> HIDE DEF p
  <2>4. Field("schedule", p)
    BY <2>1 DEF p
  <2> QED
    BY <2>3, <2>4, FieldRule DEF RuleInv
<1>17. CASE SetSandboxed
  <2>1. PICK b \in BOOLEAN : Field("sandboxed", [proj EXCEPT !.sandboxed = b])
    BY <1>17 DEF SetSandboxed
  <2> DEFINE p == [proj EXCEPT !.sandboxed = b]
  <2>2. /\ p \in Fields /\ p.install = proj.install /\ p.check = proj.check
        /\ p.explicit = proj.explicit /\ p.sched = proj.sched
    BY DEF RuleInv, TypesInv, Fields
  <2> HIDE DEF p
  <2>3. Field("sandboxed", p)
    BY <2>1 DEF p
  <2> QED
    BY <2>2, <2>3, FieldRule DEF RuleInv
<1>18. CASE SetPrefix
  <2> DEFINE p == [proj EXCEPT !.prefix = TRUE]
  <2>1. /\ p \in Fields /\ p.install = proj.install /\ p.check = proj.check
        /\ p.explicit = proj.explicit /\ p.sched = proj.sched
    BY DEF RuleInv, TypesInv, Fields
  <2> HIDE DEF p
  <2>2. Field("version", p)
    BY <1>18 DEF SetPrefix, p
  <2> QED
    BY <2>1, <2>2, FieldRule DEF RuleInv
<1>19. CASE SetSuffix
  BY <1>19, FieldRule DEF SetSuffix, RuleInv, TypesInv
<1>20. ASSUME NEW path \in Path, SetBin(path) PROVE RuleInv'
  <2> SUFFICES ASSUME ~Reject PROVE RuleInv'
    BY <1>0
  <2> DEFINE p == [proj EXCEPT !.bin = path]
  <2>1. /\ p \in Fields /\ p.install = proj.install /\ p.check = proj.check
        /\ p.explicit = proj.explicit /\ p.sched = proj.sched
    BY DEF RuleInv, TypesInv, Fields
  <2> HIDE DEF p
  <2>2. Field("bin-path", p)
    BY <1>20 DEF SetBin, p
  <2> QED
    BY <2>1, <2>2, FieldRule DEF RuleInv
<1>21. CASE SetInstall
  <2>1. /\ In("map") /\ proj' = [proj EXCEPT !.install = TRUE]
        /\ seen' = seen \cup {"install"}
        /\ UNCHANGED <<finished, pending, inside, files, outcome>>
    BY <1>21 DEF SetInstall
  <2>2. ~finished
    BY <2>1, NotFinished
  <2>3. /\ proj' \in Fields /\ proj'.check = proj.check
        /\ proj'.explicit = proj.explicit /\ proj'.sched = proj.sched
    BY <2>1 DEF RuleInv, TypesInv, Fields
  <2> QED
    BY <2>1, <2>2, <2>3, RuleOpen DEF RuleInv, TypesInv
<1>22. CASE UNCHANGED vars
  BY <1>22, RuleFrame DEF vars
<1> QED
  BY <1>1, <1>2, <1>3, <1>4, <1>5, <1>6, <1>7, <1>8, <1>9, <1>10, <1>11, <1>12, <1>13, <1>14,
     <1>15, <1>16, <1>17, <1>18, <1>19, <1>20, <1>21, <1>22 DEF Next

LEMMA RulesFromInv == RuleInv => ParsedIsAccepted /\ RulesHold
<1> SUFFICES ASSUME RuleInv, Taken PROVE /\ AsProject \in Project /\ Accepted(AsProject)
                                         /\ RulesHold
  BY DEF ParsedIsAccepted, RulesHold
<1>1. ~WrongKind /\ ~BinFails /\ ~DirsFail /\ proj \in Fields
  BY DEF RuleInv, TypesInv, FinishFails
<1>2. /\ proj.url \in BOOLEAN /\ proj.command \in BOOLEAN /\ proj.install \in BOOLEAN
      /\ proj.check \in CheckKind /\ proj.prefix \in BOOLEAN /\ proj.sandboxed \in BOOLEAN
      /\ proj.sched \in SchedKind /\ proj.interval \in Int /\ proj.explicit \in BOOLEAN
      /\ proj.bin \in Path \cup {NoPath}
  BY <1>1 DEF Fields
<1>3. proj.url # proj.command /\ (proj.install => ~proj.command) /\ (proj.check # "etag" => ~proj.command)
  BY <1>1, <1>2 DEF RuleInv, WrongKind
<1>4. proj.url => files = {} /\ (proj.check = "version" => proj.prefix)
  BY <1>1, <1>2 DEF RuleInv, WrongKind
<1>5. AsProject \in Project /\ Accepted(AsProject)
  <2>1. AsProject \in Project
    BY <1>2 DEF AsProject, Project
  <2> QED
    BY <2>1, <1>2, <1>3, <1>4 DEF AsProject, Accepted, RuleInv
<1>6. dirs # <<>> => proj.sandboxed /\ \A i \in DOMAIN dirs : Form[dirs[i]] = "absolute"
  BY <1>1, <1>2 DEF DirsFail
<1>7. proj.bin # NoPath /\ files = {} /\ ~proj.sandboxed => Form[proj.bin] = "absolute"
  BY <1>1, <1>2, FileAssumption DEF BinFails, FormKind
<1>8. dirs = <<>> => \A i \in DOMAIN dirs : Form[dirs[i]] = "absolute"
  OBVIOUS
<1> QED
  BY <1>2, <1>3, <1>4, <1>5, <1>6, <1>7, <1>8 DEF RulesHold

-----------------------------------------------------------------------------
(* The limits of the arrays in hm_project.                                 *)
LimitInv ==
    /\ fresh \in BOOLEAN /\ started \in BOOLEAN /\ finished \in BOOLEAN
    /\ entries \in 0..MaxEntries
    /\ files \subseteq FileName /\ IsFiniteSet(files) /\ Cardinality(files) <= MaxFiles
    /\ names \in Seq(Name) /\ Len(names) <= MaxNames
    /\ dirs \in Seq(Path) /\ Len(dirs) <= MaxDirs
    /\ listed \in [Name -> Path \cup {NoPath}]
    /\ invoked \in Name \cup {NoName} /\ own \in Name

LEMMA LimitInit == Init => LimitInv
<1>1. IsFiniteSet({}) /\ Cardinality({}) = 0
  BY FS_EmptySet
<1> SUFFICES ASSUME Init PROVE LimitInv
  OBVIOUS
<1>2. /\ names \in Seq(Name) /\ Len(names) <= MaxNames
      /\ dirs \in Seq(Path) /\ Len(dirs) <= MaxDirs
  BY FileAssumption DEF Init
<1>3. Cardinality(files) <= MaxFiles /\ entries \in 0..MaxEntries
  BY <1>1, FileAssumption DEF Init
<1>4. listed \in [Name -> Path \cup {NoPath}]
  BY DEF Init
<1> QED
  BY <1>1, <1>2, <1>3, <1>4 DEF Init, LimitInv

LEMMA LimitFrame ==
    ASSUME LimitInv, UNCHANGED <<files, names, dirs, listed, invoked, own>>,
           fresh' \in BOOLEAN, started' \in BOOLEAN, finished' \in BOOLEAN,
           entries' \in 0..MaxEntries
    PROVE  LimitInv'
BY DEF LimitInv

LEMMA EntryCounts == LimitInv /\ Entry => entries' \in 0..MaxEntries /\ fresh' \in BOOLEAN
<1> SUFFICES ASSUME LimitInv, Entry PROVE entries' \in 0..MaxEntries /\ fresh' \in BOOLEAN
  OBVIOUS
<1>1. entries \in Nat /\ entries < MaxEntries /\ entries' = entries + 1 /\ fresh' = FALSE
  BY FileAssumption DEF LimitInv, Entry
<1>2. MaxEntries \in Nat
  BY FileAssumption
<1>3. entries' \in 0..MaxEntries
  BY <1>1, <1>2
<1>4. fresh' \in BOOLEAN
  BY <1>1
<1> QED
  BY <1>3, <1>4

LEMMA LimitNext == LimitInv /\ [Next]_vars => LimitInv'
<1> SUFFICES ASSUME LimitInv, [Next]_vars PROVE LimitInv'
  OBVIOUS
<1>0. CASE Reject
  BY <1>0, LimitFrame DEF Reject, simlVars, cfgVars, projVars, nameVars, LimitInv
<1>1. ASSUME NEW kind \in {"map", "seq"}, Root(kind) PROVE LimitInv'
  BY <1>0, <1>1, LimitFrame DEF Root, Open, projVars, nameVars, LimitInv
<1>2. CASE FinishProject
  BY <1>0, <1>2, LimitFrame DEF FinishProject, Close, projVars, nameVars, LimitInv
<1>3. CASE StreamEnd
  BY <1>0, <1>3, LimitFrame DEF StreamEnd, simlVars, cfgVars, projVars, nameVars, LimitInv
<1>4. CASE ConfirmBin
  BY <1>4, LimitFrame DEF ConfirmBin, simlVars, cfgVars, projVars, nameVars, LimitInv
<1>5. ASSUME NEW key \in NestedKey \cup {"other"}, Header(key) PROVE LimitInv'
  BY <1>0, <1>5, LimitFrame, EntryCounts DEF Header, projVars, nameVars, LimitInv
<1>6. ASSUME NEW key \in NestedKey \cup {"other", ""}, NEW flow \in BOOLEAN,
             SequenceStart(key, flow)
      PROVE  LimitInv'
  BY <1>0, <1>6, LimitFrame DEF SequenceStart, Open, projVars, nameVars, LimitInv
<1>7. CASE SequenceEnd \/ FilesEnd
  BY <1>7, LimitFrame DEF SequenceEnd, FilesEnd, Close, projVars, nameVars, LimitInv
<1>8. CASE MappingStart
  BY <1>0, <1>8, LimitFrame DEF MappingStart, Open, projVars, nameVars, LimitInv
<1>9. CASE BinMapEnd
  BY <1>0, <1>9, LimitFrame DEF BinMapEnd, Close, nameVars, LimitInv
<1>10. ASSUME NEW path \in Path, AddDir(path) PROVE LimitInv'
  <2> SUFFICES ASSUME ~Reject PROVE LimitInv'
    BY <1>0
  <2>1. ~DirsFull /\ Entry /\ dirs' = Append(dirs, path)
        /\ UNCHANGED <<started, finished, files, names, listed, invoked, own>>
    BY <1>10 DEF AddDir, Line, cfgVars, nameVars
  <2>2. Len(dirs) \in Nat /\ Len(dirs) < MaxDirs
    BY <2>1, FileAssumption DEF LimitInv, DirsFull
  <2>3. dirs' \in Seq(Path) /\ Len(dirs') = Len(dirs) + 1
    BY <2>1 DEF LimitInv
  <2>4. Len(dirs') <= MaxDirs
    BY <2>2, <2>3, FileAssumption
  <2> QED
    BY <2>1, <2>3, <2>4, EntryCounts DEF LimitInv
<1>11. ASSUME NEW name \in FileName, AddFile(name) PROVE LimitInv'
  <2> SUFFICES ASSUME ~Reject PROVE LimitInv'
    BY <1>0
  <2>1. name \notin files /\ Cardinality(files) # MaxFiles /\ Entry /\ files' = files \cup {name}
        /\ UNCHANGED <<started, finished, names, dirs, listed, invoked, own>>
    BY <1>11 DEF AddFile, Line, cfgVars, nameVars
  <2>2. IsFiniteSet(files') /\ Cardinality(files') = Cardinality(files) + 1
    BY <2>1, FS_AddElement DEF LimitInv
  <2>3. Cardinality(files) \in Nat
    BY FS_CardinalityType DEF LimitInv
  <2>4. Cardinality(files') <= MaxFiles
    BY <2>1, <2>2, <2>3, FileAssumption DEF LimitInv
  <2> QED
    BY <2>1, <2>2, <2>4, EntryCounts DEF LimitInv
<1>12. ASSUME NEW name \in Name, NEW path \in Path, AddBinEntry(name, path) PROVE LimitInv'
  <2> SUFFICES ASSUME ~Reject PROVE LimitInv'
    BY <1>0
  <2>1. Len(names) # MaxNames /\ Entry /\ names' = Append(names, name)
        /\ listed' = [listed EXCEPT ![name] = path]
        /\ UNCHANGED <<started, finished, files, dirs, invoked, own>>
    BY <1>12 DEF AddBinEntry, Line, cfgVars, nameVars
  <2>2. Len(names) \in Nat /\ Len(names) < MaxNames
    BY <2>1, FileAssumption DEF LimitInv
  <2>3. names' \in Seq(Name) /\ Len(names') = Len(names) + 1
    BY <2>1 DEF LimitInv
  <2>4. Len(names') <= MaxNames
    BY <2>2, <2>3, FileAssumption
  <2>5. listed' \in [Name -> Path \cup {NoPath}]
    BY <2>1 DEF LimitInv
  <2> QED
    BY <2>1, <2>3, <2>4, <2>5, EntryCounts DEF LimitInv
<1>13. CASE BadEntry
  BY <1>0, <1>13 DEF BadEntry
<1>14. CASE SetSubject \/ SetCheck \/ SetSchedule \/ SetSandboxed \/ SetPrefix \/ SetSuffix
            \/ SetInstall \/ \E path \in Path : SetBin(path)
  <2> SUFFICES ASSUME ~Reject PROVE LimitInv'
    BY <1>0
  <2>1. Entry /\ UNCHANGED <<started, finished, files, names, dirs, listed, invoked, own>>
    BY <1>14 DEF SetSubject, SetCheck, SetSchedule, SetSandboxed, SetPrefix, SetSuffix,
                 SetInstall, SetBin, Field, Line, nameVars
  <2> QED
    BY <2>1, LimitFrame, EntryCounts DEF LimitInv
<1>15. CASE UNCHANGED vars
  BY <1>15, LimitFrame DEF vars, LimitInv
<1> QED
  BY <1>1, <1>2, <1>3, <1>4, <1>5, <1>6, <1>7, <1>8, <1>9, <1>10, <1>11, <1>12, <1>13, <1>14,
     <1>15 DEF Next

-----------------------------------------------------------------------------
(* The bin-path mapping: what the choice stands for while it is read, and  *)
(* once it is closed.                                                      *)
MapInv ==
    /\ names = <<>> => proj.choice = "single" /\ \A n \in Name : listed[n] = NoPath
    /\ names # <<>> => "bin-path" \in seen /\ listed[names[1]] = proj.binDefault
    /\ proj.choice = "named" <=> invoked \in Name /\ listed[invoked] # NoPath
    /\ proj.choice = "named" => proj.bin = listed[invoked]
    /\ proj.choice = "default" => proj.bin = proj.binDefault
    /\ names # <<>> /\ "bin-path" \notin inside => proj.choice # "single"
    /\ "bin-path" \in pending => "bin-path" \in seen /\ names = <<>>
    /\ "bin-path" \in inside => "bin-path" \in seen /\ proj.choice # "default"
    /\ outcome = "accepted" => proj.choice # "default" \/ invoked \in {NoName, own}

LEMMA MapInit == Init => MapInv
BY FileAssumption DEF Init, MapInv, Blank

LEMMA MapFrame ==
    ASSUME MapInv, UNCHANGED <<names, listed, invoked, own>>,
           proj'.bin = proj.bin, proj'.binDefault = proj.binDefault, proj'.choice = proj.choice,
           "bin-path" \in seen => "bin-path" \in seen',
           "bin-path" \in inside' <=> "bin-path" \in inside,
           "bin-path" \in pending' => "bin-path" \in pending,
           outcome' # "accepted" \/ UNCHANGED outcome
    PROVE  MapInv'
BY DEF MapInv

LEMMA MapNext == NestInv /\ RuleInv /\ LimitInv /\ MapInv /\ [Next]_vars => MapInv'
<1> SUFFICES ASSUME NestInv, RuleInv, LimitInv, MapInv, [Next]_vars PROVE MapInv'
  OBVIOUS
<1>0. CASE Reject
  BY <1>0, MapFrame DEF Reject, cfgVars, projVars, nameVars
<1>1. ASSUME NEW kind \in {"map", "seq"}, Root(kind) PROVE MapInv'
  BY <1>0, <1>1, MapFrame DEF Root, projVars, nameVars
<1>2. CASE FinishProject
  BY <1>0, <1>2, MapFrame DEF FinishProject, projVars, nameVars
<1>3. CASE StreamEnd
  BY <1>0, <1>3, MapFrame DEF StreamEnd, cfgVars, projVars, nameVars
<1>4. CASE ConfirmBin
  BY <1>4 DEF ConfirmBin, cfgVars, projVars, nameVars, MapInv
<1>5. ASSUME NEW key \in NestedKey \cup {"other"}, Header(key) PROVE MapInv'
  <2> SUFFICES ASSUME ~Reject PROVE MapInv'
    BY <1>0
  <2>1. /\ seen' = seen \cup ({key} \cap NestedKey)
        /\ pending' = pending \cup ({key} \cap NestedKey)
        /\ key = "bin-path" => key \notin seen
        /\ UNCHANGED <<inside, names, listed, invoked, own, proj, outcome>>
    BY <1>5 DEF Header, projVars, nameVars
  <2>2. CASE key = "bin-path"
    BY <2>1, <2>2 DEF MapInv, NestedKey
  <2>3. CASE key # "bin-path"
    BY <2>1, <2>3, MapFrame
  <2> QED
    BY <2>2, <2>3
<1>6. ASSUME NEW key \in NestedKey \cup {"other", ""}, NEW flow \in BOOLEAN,
             SequenceStart(key, flow)
      PROVE  MapInv'
  <2> SUFFICES ASSUME ~Reject PROVE MapInv'
    BY <1>0
  <2>1. /\ seen' = seen \cup {"sandbox-write-dirs"}
        /\ pending' = pending \ {"sandbox-write-dirs"}
        /\ inside' = inside \cup {"sandbox-write-dirs"}
        /\ UNCHANGED <<names, listed, invoked, own, proj, outcome>>
    BY <1>6 DEF SequenceStart, projVars, nameVars
  <2> QED
    BY <2>1, MapFrame
<1>7. CASE SequenceEnd \/ FilesEnd
  BY <1>7, MapFrame DEF SequenceEnd, FilesEnd, projVars, nameVars
<1>8. CASE MappingStart
  <2> SUFFICES ASSUME ~Reject PROVE MapInv'
    BY <1>0
  <2>1. /\ pending' \subseteq pending
        /\ "bin-path" \in inside' => "bin-path" \in inside \/ "bin-path" \in pending
        /\ inside \subseteq inside'
        /\ UNCHANGED <<seen, names, listed, invoked, own, proj, outcome>>
    BY <1>8 DEF MappingStart, projVars, nameVars
  <2> QED
    BY <2>1 DEF MapInv
<1>9. CASE BinMapEnd
  <2> SUFFICES ASSUME ~Reject PROVE MapInv'
    BY <1>0
  <2>1. /\ names # <<>> /\ "bin-path" \in inside
        /\ proj' = Settled /\ inside' = inside \ {"bin-path"}
        /\ UNCHANGED <<seen, pending, names, listed, invoked, own, outcome>>
    BY <1>9 DEF BinMapEnd, nameVars
  <2>2. proj \in Fields
    BY DEF RuleInv, TypesInv
  <2>3. CASE proj.choice = "named"
    BY <2>1, <2>3 DEF Settled, MapInv
  <2>4. CASE proj.choice # "named"
    <3>1. /\ proj'.bin = proj.binDefault /\ proj'.binDefault = proj.binDefault
          /\ proj'.choice = "default"
      BY <2>1, <2>2, <2>4 DEF Settled, Fields
    <3>2. outcome # "accepted"
      BY <1>9 DEF BinMapEnd, In
    <3> QED
      BY <2>1, <2>4, <3>1, <3>2 DEF MapInv
  <2> QED
    BY <2>3, <2>4
<1>10. ASSUME NEW path \in Path, AddDir(path) PROVE MapInv'
  BY <1>0, <1>10, MapFrame DEF AddDir, cfgVars, nameVars
<1>11. ASSUME NEW name \in FileName, AddFile(name) PROVE MapInv'
  BY <1>0, <1>11, MapFrame DEF AddFile, cfgVars, nameVars
<1>12. ASSUME NEW name \in Name, NEW path \in Path, AddBinEntry(name, path) PROVE MapInv'
  <2> SUFFICES ASSUME ~Reject PROVE MapInv'
    BY <1>0
  <2>1. PICK first :
          /\ "bin-path" \in inside
          /\ \A i \in DOMAIN names : names[i] # name
          /\ names' = Append(names, name) /\ listed' = [listed EXCEPT ![name] = path]
          /\ UNCHANGED <<seen, pending, inside, invoked, own, outcome>>
          /\ first = IF names = <<>> THEN [proj EXCEPT !.binDefault = path] ELSE proj
          /\ proj' = IF name = invoked THEN [first EXCEPT !.bin = path, !.choice = "named"]
                     ELSE first
    BY <1>12 DEF AddBinEntry, cfgVars, nameVars
  <2>2. proj \in Fields
    BY DEF RuleInv, TypesInv
  <2>3. /\ first \in Fields /\ first.bin = proj.bin /\ first.choice = proj.choice
        /\ first.binDefault = IF names = <<>> THEN path ELSE proj.binDefault
    BY <2>1, <2>2 DEF Fields
  <2>4. proj'.binDefault = first.binDefault
    BY <2>1, <2>3 DEF Fields
  <2>5. names \in Seq(Name) /\ names' # <<>>
        /\ names'[1] = IF names = <<>> THEN name ELSE names[1]
    <3>1. names \in Seq(Name)
      BY DEF LimitInv
    <3>2. names' # <<>> /\ names'[Len(names) + 1] = name
          /\ \A i \in 1..Len(names) : names'[i] = names[i]
      BY <2>1, <3>1, AppendProperties
    <3>3. CASE names = <<>>
      BY <3>1, <3>2, <3>3
    <3>4. CASE names # <<>>
      <4>1. 1 \in 1..Len(names)
        BY <3>1, <3>4
      <4> QED
        BY <3>1, <3>2, <3>4, <4>1
    <3> QED
      BY <3>3, <3>4
  <2>6. /\ listed'[name] = path /\ path # NoPath
        /\ \A n \in Name : n # name => listed'[n] = listed[n]
    BY <2>1, FileAssumption DEF LimitInv
  <2>7. names # <<>> => names[1] \in Name /\ names[1] # name
    <3> SUFFICES ASSUME names # <<>> PROVE names[1] \in Name /\ names[1] # name
      OBVIOUS
    <3>1. 1 \in DOMAIN names
      BY <2>5
    <3> QED
      BY <2>1, <2>5, <3>1
  <2>8. listed'[names'[1]] = proj'.binDefault
    BY <2>3, <2>4, <2>5, <2>6, <2>7 DEF MapInv
  <2>9. outcome' = outcome /\ outcome # "accepted"
    BY <1>12, <2>1 DEF AddBinEntry, In
  <2>10. "bin-path" \notin pending
    BY <2>1, Tops DEF NestInv
  <2>11. CASE name = invoked
    <3>1. proj'.bin = path /\ proj'.choice = "named"
      BY <2>1, <2>3, <2>11 DEF Fields
    <3> QED
      BY <2>1, <2>5, <2>6, <2>8, <2>9, <2>11, <2>10, <3>1 DEF MapInv
  <2>12. CASE name # invoked
    <3>1. proj'.bin = proj.bin /\ proj'.choice = proj.choice
      BY <2>1, <2>3, <2>12
    <3>2. invoked \in Name => listed'[invoked] = listed[invoked]
      BY <2>6, <2>12
    <3> QED
      BY <2>1, <2>5, <2>8, <2>9, <2>10, <3>1, <3>2 DEF MapInv
  <2> QED
    BY <2>11, <2>12
<1>13. CASE BadEntry
  BY <1>0, <1>13 DEF BadEntry
<1>14. ASSUME NEW path \in Path, SetBin(path) PROVE MapInv'
  <2> SUFFICES ASSUME ~Reject PROVE MapInv'
    BY <1>0
  <2>1. "bin-path" \notin seen /\ proj' = [proj EXCEPT !.bin = path]
        /\ UNCHANGED <<inside, pending, names, listed, invoked, own, outcome>>
        /\ outcome = "reading"
    BY <1>14 DEF SetBin, Field, InProject, In, nameVars
  <2>2. proj'.choice = proj.choice
    BY <2>1 DEF RuleInv, TypesInv, Fields
  <2>3. names = <<>> /\ "bin-path" \notin inside /\ "bin-path" \notin pending
    BY <2>1 DEF MapInv
  <2> QED
    BY <2>1, <2>2, <2>3 DEF MapInv
<1>15. CASE SetSubject \/ SetCheck \/ SetSchedule \/ SetSandboxed \/ SetPrefix \/ SetSuffix
            \/ SetInstall
  <2>1. /\ proj'.bin = proj.bin /\ proj'.binDefault = proj.binDefault
        /\ proj'.choice = proj.choice
    <3>1. proj \in Fields
      BY DEF RuleInv, TypesInv
    <3>2. CASE SetSubject
      BY <3>1, <3>2 DEF SetSubject, Field, Fields
    <3>3. CASE SetCheck \/ SetSchedule \/ SetSandboxed \/ SetPrefix \/ SetSuffix \/ SetInstall
      BY <3>1, <3>3 DEF SetCheck, SetSchedule, SetSandboxed, SetPrefix, SetSuffix, SetInstall,
                        Field, Fields
    <3> QED
      BY <1>15, <3>2, <3>3
  <2>2. /\ seen \subseteq seen'
        /\ UNCHANGED <<inside, pending, names, listed, invoked, own, outcome>>
    BY <1>15 DEF SetSubject, SetCheck, SetSchedule, SetSandboxed, SetPrefix, SetSuffix,
                 SetInstall, Field, nameVars
  <2> QED
    BY <2>1, <2>2, MapFrame
<1>16. CASE UNCHANGED vars
  BY <1>16, MapFrame DEF vars
<1> QED
  BY <1>1, <1>2, <1>3, <1>4, <1>5, <1>6, <1>7, <1>8, <1>9, <1>10, <1>11, <1>12, <1>13, <1>14,
     <1>15, <1>16 DEF Next

LEMMA MapMeansRightProgram == NestInv /\ RuleInv /\ MapInv => RightProgram
<1> SUFFICES ASSUME NestInv, RuleInv, MapInv, outcome = "accepted", names # <<>>
             PROVE  IF invoked \in Name /\ listed[invoked] # NoPath
                    THEN proj.bin = listed[invoked]
                    ELSE invoked \in {own, NoName} /\ proj.bin = listed[names[1]]
  BY DEF RightProgram
<1>1. ~SecondIsMap(nest)
  BY Tops DEF RuleInv, Taken, NestInv
<1>2. "bin-path" \notin inside
  BY <1>1 DEF NestInv
<1>3. proj.choice \in {"single", "named", "default"}
  BY DEF RuleInv, TypesInv, Fields
<1> QED
  BY <1>2, <1>3 DEF MapInv

-----------------------------------------------------------------------------
FileInv == NestInv /\ RuleInv /\ LimitInv /\ MapInv

LEMMA FileAlways == Spec => []FileInv
<1>1. Init => FileInv
  BY NestInit, RuleInit, LimitInit, MapInit DEF FileInv
<1>2. FileInv /\ [Next]_vars => FileInv'
  BY NestNext, RuleNext, LimitNext, MapNext DEF FileInv
<1> QED
  BY <1>1, <1>2, PTL DEF Spec

LEMMA InvMeansTypes == FileInv => TypeOK
<1> SUFFICES ASSUME FileInv PROVE TypeOK
  OBVIOUS
<1>1. nest \in Seq({"map", "seq"})
  <2>1. <<>> \in Seq({"map", "seq"})
    OBVIOUS
  <2> QED
    BY <2>1, Levels DEF FileInv, NestInv, Nestings, Kinds
<1>2. pending \subseteq NestedKey
  BY DEF FileInv, NestInv, NestedKey
<1> QED
  BY <1>1, <1>2 DEF FileInv, NestInv, RuleInv, TypesInv, LimitInv, TypeOK

(* No file makes the parser write past an array of hm_project, and every   *)
(* variable stays in its domain: add_file(), add_bin_entry() and           *)
(* add_sandbox_write_dir() check their limits in time.                     *)
THEOREM LimitsHold == Spec => []TypeOK
BY FileAlways, InvMeansTypes, PTL

(* The flags that hm_config_parse() keeps are as good as a stack.          *)
THEOREM FlagsAreAStack == Spec => []FlagsFollowNesting
<1>1. FileInv => FlagsFollowNesting
  BY NestMeansFlags DEF FileInv
<1> QED
  BY <1>1, FileAlways, PTL

(* hm_config_parse() establishes what Hacman.tla assumes of a project      *)
(* (ConfAssumption).                                                       *)
THEOREM ProjectsAreAccepted == Spec => []ParsedIsAccepted
<1>1. FileInv => ParsedIsAccepted
  BY RulesFromInv DEF FileInv
<1> QED
  BY <1>1, FileAlways, PTL

(* finish_project() enforces the rules between entries in any order.       *)
THEOREM RulesAreKept == Spec => []RulesHold
<1>1. FileInv => RulesHold
  BY RulesFromInv DEF FileInv
<1> QED
  BY <1>1, FileAlways, PTL

(* The name FILE was given as selects the program README promises, or none *)
(* (add_bin_entry, finish_bin_map, confirm_default_bin).                   *)
THEOREM RightProgramRuns == Spec => []RightProgram
<1>1. FileInv => RightProgram
  BY MapMeansRightProgram DEF FileInv
<1> QED
  BY <1>1, FileAlways, PTL

=============================================================================
