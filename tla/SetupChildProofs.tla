-------------------------- MODULE SetupChildProofs --------------------------
(***************************************************************************)
(* The properties of SetupChild.tla for every depth of nested runs, every  *)
(* kernel, and any places, grants and cache directories.                   *)
(***************************************************************************)
EXTENDS SetupChild, SequenceTheorems, TLAPS

Rights == {"execute", "read", "write", "remove", "make", "refer", "truncate", "ioctl", "resolve"}
Rule == [at : Place, rights : SUBSET Rights]
Layer == [handled : SUBSET Rights, rules : SUBSET Rule]
Env == [cache : Cache \cup {NoCache}, tmp : Place, of : [Variable -> Nat]]
ShellFrame == [cache : Cache, layers : SUBSET Layer, env : Env]
RunFrame == [project : Projects, cache : Cache, env : Env, layers : SUBSET Layer]

ChildTypeOK ==
    /\ abi \in Nat
    /\ frames \in Seq(ShellFrame \cup RunFrame) /\ Depth >= 1
    /\ \A i \in 2..Depth : frames[i] \in RunFrame
    /\ step \in {"shell", "lock", "temp", "refused", "describe", "point", "abi", "rules",
                 "restrict", "exec"}
    /\ step # "shell" => Depth >= 2
    /\ ruleset \in Layer /\ todo \in Seq(Place)

(* Nothing a setup starts has fewer layers than the setup itself.          *)
LayersGrow == \A i, j \in 1..Depth : i <= j => frames[i].layers \subseteq frames[j].layers

(* A layer of its own confines a sandboxed setup to what it was granted.   *)
ConfinedBy(layer, i) ==
    \A right \in Mutating, q \in Place :
        Allows(layer, right, q) => Granted(i, q) \/ (right = "write" /\ <<q, Null>> \in Within)
Confined(i) ==
    (i < Depth \/ step \in {"exec", "shell"}) /\ frames[i].project.sandboxed =>
        \E layer \in frames[i].layers : ConfinedBy(layer, i)

(* The variables are described from chdir() on.                            *)
Described(i) ==
    i < Depth \/ step \in {"point", "abi", "rules", "restrict", "exec", "shell"} =>
        \A v \in Variable :
            frames[i].env.of[v] = IF v \in SetVariables(frames[i].project) THEN i ELSE 0

(* Who is confined at all can use the cache and $TMPDIR it is told of.     *)
Usable(f) ==
    f.layers = {} \/ (f.env.cache \in Cache /\ CanUse(f.layers, f.env.cache)
                      /\ CanUse(f.layers, f.env.tmp))

(* What the run at the top knows of its cache directory.                   *)
CacheKnown ==
    /\ step = "lock" /\ Inner.project.option = NoCache =>
          Inner.env.cache \in {NoCache, Inner.cache}
    /\ step \in {"temp", "describe", "point", "abi", "rules", "restrict"} =>
          CanUse(Inner.layers, Inner.cache)
    /\ step \in {"abi", "rules", "restrict"} =>
          Inner.env.cache = Inner.cache /\ Inner.env.tmp = WorkIn[Inner.cache]

(* The rule set it builds: "/" for reading, then what it is granted.       *)
Grants(i) == {WorkIn[frames[i].cache], frames[i].cache}
             \cup {frames[i].project.dirs[n] : n \in DOMAIN frames[i].project.dirs}
Modest(rule) ==
    \/ rule.rights \cap Mutating = {} \/ rule.at \in Grants(Depth)
    \/ rule.at = Null /\ rule.rights = {"write"}
CacheRule == [at |-> Inner.cache, rights |-> HandledAccess(abi)]
RulesSoFar ==
    /\ step \in {"rules", "restrict"} =>
          /\ abi >= 3 /\ ruleset.handled = HandledAccess(abi)
          /\ \A rule \in ruleset.rules : Modest(rule)
    /\ step = "rules" =>
          LET first == IF ruleset.rules = {} THEN 2 ELSE 1
          IN /\ ruleset.rules = {} => todo # <<>> /\ todo[1] = Root
             /\ \A n \in DOMAIN todo : n >= first => todo[n] \in Grants(Depth)
             /\ CacheRule \in ruleset.rules
                \/ \E n \in DOMAIN todo : n >= first /\ todo[n] = Inner.cache
    /\ step = "restrict" => CacheRule \in ruleset.rules

ChildInv ==
    /\ ChildTypeOK /\ LayersGrow
    /\ \A i \in 2..Depth : Confined(i) /\ Described(i)
    /\ \A i \in 1..Depth : Usable(frames[i])
    /\ CacheKnown /\ RulesSoFar /\ NestedRunsWork

-----------------------------------------------------------------------------
(* Landlock.                                                               *)

LEMMA RightsHandled ==
    ASSUME NEW a \in Nat
    PROVE  /\ HandledAccess(a) \in SUBSET Rights /\ ReadonlyAccess(a) \in SUBSET Rights
           /\ {"write"} \in SUBSET Rights
           /\ ReadonlyAccess(a) \cap Mutating = {}
           /\ {"write", "remove", "make"} \subseteq HandledAccess(a)
           /\ a >= 3 => Mutating \subseteq HandledAccess(a)
BY DEF HandledAccess, ReadonlyAccess, Mutating, Rights

(* Whoever may use a directory may use what is below it.                   *)
LEMMA UsableBelow ==
    ASSUME NEW layers \in SUBSET Layer, NEW p \in Place, NEW q \in Place, <<q, p>> \in Within,
           CanUse(layers, p)
    PROVE  CanUse(layers, q)
<1> SUFFICES ASSUME NEW right \in {"write", "remove", "make"}, NEW layer \in layers,
                    right \in layer.handled
             PROVE  \E rule \in layer.rules : right \in rule.rights /\ <<q, rule.at>> \in Within
  BY DEF CanUse, May, Allows
<1>1. PICK rule \in layer.rules : right \in rule.rights /\ <<p, rule.at>> \in Within
  BY DEF CanUse, May, Allows
<1>2. rule.at \in Place
  BY DEF Layer, Rule
<1>3. <<q, rule.at>> \in Within
  BY <1>1, <1>2, SandboxAssumption
<1> QED
  BY <1>1, <1>3

LEMMA WorkIsBelow ==
    ASSUME NEW c \in Cache
    PROVE  c \in Place /\ WorkIn[c] \in Place /\ <<WorkIn[c], c>> \in Within
BY SandboxAssumption

LEMMA ProjectParts ==
    ASSUME NEW pr \in Projects
    PROVE  /\ pr.dirs \in Seq(Place) /\ pr.option \in Cache \cup {NoCache}
           /\ pr.sandboxed \in BOOLEAN /\ pr.kind \in {"url", "command"} /\ pr.response \in BOOLEAN
BY ProjectsAssumption

-----------------------------------------------------------------------------
(* How the stack of runs changes.                                          *)

LEMMA TopIsARun ==
    ASSUME ChildTypeOK, step # "shell"
    PROVE  /\ Depth \in 2..Depth /\ Depth \in DOMAIN frames /\ Inner \in RunFrame
           /\ Inner.project \in Projects /\ Inner.cache \in Cache /\ Inner.env \in Env
           /\ Inner.layers \in SUBSET Layer
<1>1. Depth \in 2..Depth /\ Depth \in DOMAIN frames
  BY DEF ChildTypeOK, Depth
<1>2. Inner \in RunFrame
  BY <1>1 DEF ChildTypeOK, Inner
<1> QED
  BY <1>1, <1>2 DEF RunFrame

LEMMA TopChanges ==
    ASSUME ChildTypeOK, step # "shell",
           NEW env \in Env, NEW layers \in SUBSET Layer,
           \/ frames' = [frames EXCEPT ![Depth].env = env] /\ layers = Inner.layers
           \/ frames' = [frames EXCEPT ![Depth].layers = layers] /\ env = Inner.env
           \/ frames' = frames /\ env = Inner.env /\ layers = Inner.layers
    PROVE  /\ frames' \in Seq(ShellFrame \cup RunFrame) /\ Depth' = Depth
           /\ \A i \in 1..Depth : i # Depth => frames'[i] = frames[i]
           /\ \A i \in 2..Depth : frames'[i] \in RunFrame
           /\ Inner' = frames'[Depth] /\ Inner'.env = env /\ Inner'.layers = layers
           /\ Inner'.project = Inner.project /\ Inner'.cache = Inner.cache
<1>1. /\ Depth \in 2..Depth /\ Depth \in DOMAIN frames /\ frames[Depth] \in RunFrame
      /\ DOMAIN frames = 1..Depth /\ Depth \in Nat
  BY TopIsARun DEF Inner, ChildTypeOK, Depth
<1> DEFINE f1 == [frames[Depth] EXCEPT !.env = env]
           f2 == [frames[Depth] EXCEPT !.layers = layers]
<1>2. f1 \in RunFrame /\ f1.env = env /\ f1.layers = frames[Depth].layers
      /\ f1.project = frames[Depth].project /\ f1.cache = frames[Depth].cache
  BY <1>1 DEF RunFrame
<1>3. f2 \in RunFrame /\ f2.layers = layers /\ f2.env = frames[Depth].env
      /\ f2.project = frames[Depth].project /\ f2.cache = frames[Depth].cache
  BY <1>1 DEF RunFrame
<1>4. PICK f \in RunFrame :
        /\ f.env = env /\ f.layers = layers
        /\ f.project = frames[Depth].project /\ f.cache = frames[Depth].cache
        /\ frames' = [frames EXCEPT ![Depth] = f]
  <2>1. CASE frames' = [frames EXCEPT ![Depth].env = env] /\ layers = Inner.layers
    <3>1. frames' = [frames EXCEPT ![Depth] = f1]
      BY <2>1
    <3> HIDE DEF f1
    <3> QED
      BY <1>2, <2>1, <3>1 DEF Inner
  <2>2. CASE frames' = [frames EXCEPT ![Depth].layers = layers] /\ env = Inner.env
    <3>1. frames' = [frames EXCEPT ![Depth] = f2]
      BY <2>2
    <3> HIDE DEF f2
    <3> QED
      BY <1>3, <2>2, <3>1 DEF Inner
  <2>3. CASE frames' = frames /\ env = Inner.env /\ layers = Inner.layers
    <3>1. frames' = [frames EXCEPT ![Depth] = frames[Depth]]
      BY <2>3 DEF ChildTypeOK
    <3> QED
      BY <1>1, <2>3, <3>1 DEF Inner
  <2> QED
    BY <2>1, <2>2, <2>3
<1>5. frames' \in Seq(ShellFrame \cup RunFrame) /\ Len(frames') = Len(frames)
  BY <1>1, <1>4 DEF ChildTypeOK
<1>6. /\ \A i \in 1..Depth : i # Depth => frames'[i] = frames[i]
      /\ frames'[Depth] = f
  BY <1>1, <1>4
<1>7. \A i \in 2..Depth : frames'[i] \in RunFrame
  BY <1>4, <1>6 DEF ChildTypeOK
<1> QED
  BY <1>4, <1>5, <1>6, <1>7 DEF Depth, Inner
LEMMA TopKeeps ==
    ASSUME ChildInv, step # "shell", ChildTypeOK', Depth' = Depth,
           \A i \in 1..Depth : i # Depth => frames'[i] = frames[i],
           Inner.layers \subseteq Inner'.layers,
           Confined(Depth)', Described(Depth)', Usable(Inner)',
           CacheKnown', RulesSoFar', NestedRunsWork'
    PROVE  ChildInv'
<1> USE DEF ChildInv
<1>0. Depth \in Nat /\ Depth \in 1..Depth /\ Inner' = frames'[Depth] /\ Inner = frames[Depth]
  BY TopIsARun DEF Inner, ChildTypeOK, Depth
<1>1. LayersGrow'
  BY <1>0 DEF LayersGrow
<1>2. ASSUME NEW i \in 2..Depth PROVE Confined(i)' /\ Described(i)'
  <2>1. CASE i = Depth
    BY <2>1
  <2>2. CASE i # Depth
    <3>1. i < Depth /\ frames'[i] = frames[i]
      BY <1>0, <2>2
    <3> QED
      BY <3>1 DEF Confined, ConfinedBy, Granted, Described
  <2> QED
    BY <2>1, <2>2
<1>3. ASSUME NEW i \in 1..Depth PROVE Usable(frames[i])'
  BY <1>0 DEF Usable
<1> QED
  BY <1>0, <1>1, <1>2, <1>3

-----------------------------------------------------------------------------
(* The run before fork().                                                  *)

LEMMA OpenCacheKeeps == ASSUME ChildInv, OpenCache PROVE ChildInv'
<1> USE DEF ChildInv
<1>0. /\ step = "lock" /\ frames' = frames /\ ruleset' = ruleset /\ todo' = todo /\ abi' = abi
      /\ step' = IF CanUse(Inner.layers, Inner.cache) THEN "temp" ELSE "refused"
      /\ Depth' = Depth /\ Inner' = Inner /\ Depth \in 1..Depth /\ Inner = frames[Depth]
  BY TopIsARun DEF OpenCache, Depth, Inner
<1>1. ChildTypeOK'
  BY <1>0 DEF ChildTypeOK
<1>2. Confined(Depth)' /\ Described(Depth)' /\ RulesSoFar'
  BY <1>0 DEF Confined, Described, RulesSoFar, Depth, ChildTypeOK
<1>3. Usable(Inner)' /\ CacheKnown'
  BY <1>0 DEF Usable, CacheKnown
<1>4. NestedRunsWork'
  <2> SUFFICES ASSUME Inner.project.option = NoCache PROVE step' # "refused"
    BY <1>0 DEF NestedRunsWork
  <2>1. Usable(Inner) /\ Inner.env.cache \in {NoCache, Inner.cache}
    BY <1>0 DEF CacheKnown
  <2>2. CanUse(Inner.layers, Inner.cache)
    BY <2>1, SandboxAssumption DEF Usable, CanUse, May
  <2> QED
    BY <1>0, <2>2
<1> QED
  BY <1>0, <1>1, <1>2, <1>3, <1>4, TopKeeps

LEMMA MakeTempKeeps == ASSUME ChildInv, MakeTemp PROVE ChildInv'
<1> USE DEF ChildInv
<1>0. /\ step = "temp" /\ frames' = frames /\ ruleset' = ruleset /\ todo' = todo /\ abi' = abi
      /\ step' = IF CanUse(Inner.layers, Inner.env.tmp) \/ CanUse(Inner.layers, Tmp)
                 THEN "describe" ELSE "refused"
      /\ Depth' = Depth /\ Inner' = Inner /\ Depth \in 1..Depth /\ Inner = frames[Depth]
  BY TopIsARun DEF MakeTemp, Depth, Inner
<1>1. ChildTypeOK'
  BY <1>0 DEF ChildTypeOK
<1>2. Confined(Depth)' /\ Described(Depth)' /\ RulesSoFar'
  BY <1>0 DEF Confined, Described, RulesSoFar, Depth, ChildTypeOK
<1>3. Usable(Inner)' /\ CacheKnown'
  BY <1>0 DEF Usable, CacheKnown
<1>4. NestedRunsWork'
  <2>1. CanUse(Inner.layers, Inner.env.tmp)
    BY <1>0 DEF Usable, CanUse, May
  <2> QED
    BY <1>0, <2>1 DEF NestedRunsWork
<1> QED
  BY <1>0, <1>1, <1>2, <1>3, <1>4, TopKeeps

-----------------------------------------------------------------------------
(* The child.                                                              *)

LEMMA DescribeKeeps == ASSUME ChildInv, DescribeProject PROVE ChildInv'
<1> USE DEF ChildInv
<1> DEFINE pr == Inner.project
           e == [Inner.env EXCEPT !.of =
                   [v \in Variable |-> IF v \in SetVariables(pr) THEN Depth
                                       ELSE IF v \in UnsetVariables(pr) THEN 0 ELSE @[v]]]
<1>0. /\ step = "describe" /\ frames' = [frames EXCEPT ![Depth].env = e]
      /\ ruleset' = ruleset /\ todo' = todo /\ abi' = abi
      /\ step' = IF pr.sandboxed THEN "point" ELSE "exec"
  BY DEF DescribeProject, SetInner
<1>1. /\ Depth \in 2..Depth /\ Inner \in RunFrame /\ pr \in Projects /\ Inner.env \in Env
      /\ Inner.layers \in SUBSET Layer /\ Depth \in Nat
  BY <1>0, TopIsARun DEF ChildTypeOK, Depth
<1>2. /\ e \in Env /\ e.cache = Inner.env.cache /\ e.tmp = Inner.env.tmp
      /\ \A v \in Variable : e.of[v] = IF v \in SetVariables(pr) THEN Depth
                                       ELSE IF v \in UnsetVariables(pr) THEN 0
                                       ELSE Inner.env.of[v]
  BY <1>1 DEF Env
<1>3. \A v \in Variable : v \in SetVariables(pr) \/ v \in UnsetVariables(pr)
  BY <1>1, ProjectParts DEF Variable, SetVariables, UnsetVariables, UrlVariable
<1> HIDE DEF e
<1>4. /\ frames' \in Seq(ShellFrame \cup RunFrame) /\ Depth' = Depth
      /\ \A i \in 1..Depth : i # Depth => frames'[i] = frames[i]
      /\ \A i \in 2..Depth : frames'[i] \in RunFrame
      /\ Inner' = frames'[Depth] /\ Inner'.env = e /\ Inner'.layers = Inner.layers
      /\ Inner'.project = Inner.project /\ Inner'.cache = Inner.cache
  BY <1>0, <1>1, <1>2, TopChanges
<1>5. ChildTypeOK'
  BY <1>0, <1>4 DEF ChildTypeOK
<1>6. Described(Depth)'
  BY <1>2, <1>3, <1>4 DEF Described
<1>7. Confined(Depth)'
  <2>1. CASE pr.sandboxed
    BY <1>0, <1>4, <2>1 DEF Confined, ChildTypeOK
  <2>2. CASE ~pr.sandboxed
    BY <1>0, <1>4, <2>2 DEF Confined
  <2> QED
    BY <2>1, <2>2
<1>8. Usable(Inner)'
  <2>1. Usable(Inner)
    BY <1>1 DEF Inner
  <2> QED
    BY <1>2, <1>4, <2>1 DEF Usable
<1>9. CacheKnown' /\ NestedRunsWork' /\ RulesSoFar'
  BY <1>0, <1>4 DEF CacheKnown, NestedRunsWork, RulesSoFar
<1> QED
  BY <1>0, <1>4, <1>5, <1>6, <1>7, <1>8, <1>9, TopKeeps

LEMMA PointKeeps == ASSUME ChildInv, PointIntoCache PROVE ChildInv'
<1> USE DEF ChildInv
<1> DEFINE e == [Inner.env EXCEPT !.tmp = WorkIn[Inner.cache], !.cache = Inner.cache]
<1>0. /\ step = "point" /\ frames' = [frames EXCEPT ![Depth].env = e]
      /\ ruleset' = ruleset /\ todo' = todo /\ abi' = abi /\ step' = "abi"
  BY DEF PointIntoCache, SetInner
<1>1. /\ Depth \in 2..Depth /\ Inner \in RunFrame /\ Inner.env \in Env /\ Inner.cache \in Cache
      /\ Inner.layers \in SUBSET Layer /\ Depth \in Nat
  BY <1>0, TopIsARun DEF ChildTypeOK, Depth
<1>2. WorkIn[Inner.cache] \in Place
  BY <1>1, WorkIsBelow
<1>3. /\ e \in Env /\ e.cache = Inner.cache /\ e.tmp = WorkIn[Inner.cache]
      /\ e.of = Inner.env.of
  BY <1>1, <1>2 DEF Env
<1> HIDE DEF e
<1>4. /\ frames' \in Seq(ShellFrame \cup RunFrame) /\ Depth' = Depth
      /\ \A i \in 1..Depth : i # Depth => frames'[i] = frames[i]
      /\ \A i \in 2..Depth : frames'[i] \in RunFrame
      /\ Inner' = frames'[Depth] /\ Inner'.env = e /\ Inner'.layers = Inner.layers
      /\ Inner'.project = Inner.project /\ Inner'.cache = Inner.cache
  BY <1>0, <1>1, <1>3, TopChanges
<1>5. ChildTypeOK'
  BY <1>0, <1>4 DEF ChildTypeOK
<1>6. Described(Depth)'
  <2>1. \A v \in Variable :
          Inner.env.of[v] = IF v \in SetVariables(Inner.project) THEN Depth ELSE 0
    BY <1>0, <1>1 DEF Described, Inner
  <2> QED
    BY <1>3, <1>4, <2>1 DEF Described
<1>7. Confined(Depth)'
  BY <1>0, <1>1, <1>4 DEF Confined
<1>8. Usable(Inner)' /\ CacheKnown'
  <2>1. CanUse(Inner.layers, Inner.cache)
    BY <1>0 DEF CacheKnown
  <2>2. CanUse(Inner.layers, WorkIn[Inner.cache])
    BY <1>1, <2>1, WorkIsBelow, UsableBelow
  <2> QED
    BY <1>0, <1>1, <1>3, <1>4, <2>1, <2>2 DEF Usable, CacheKnown
<1>9. NestedRunsWork' /\ RulesSoFar'
  BY <1>0, <1>4 DEF NestedRunsWork, RulesSoFar
<1> QED
  BY <1>0, <1>4, <1>5, <1>6, <1>7, <1>8, <1>9, TopKeeps

(* The steps that only build the rule set.                                 *)
LEMMA BuildingKeeps ==
    ASSUME ChildInv, UNCHANGED <<abi, frames>>, step \in {"abi", "rules"},
           step' \in {"rules", "restrict"},
           ruleset' \in Layer, todo' \in Seq(Place), RulesSoFar'
    PROVE  ChildInv'
<1> USE DEF ChildInv
<1>0. /\ Depth' = Depth /\ Inner' = Inner /\ Depth \in 2..Depth /\ Inner = frames[Depth]
      /\ Depth \in Nat
  BY TopIsARun DEF Depth, Inner, ChildTypeOK
<1>1. ChildTypeOK'
  BY <1>0 DEF ChildTypeOK
<1>2. Confined(Depth)' /\ Described(Depth)'
  BY <1>0 DEF Confined, Described
<1>3. Usable(Inner)' /\ CacheKnown' /\ NestedRunsWork'
  BY <1>0 DEF Usable, CacheKnown, NestedRunsWork
<1> QED
  BY <1>0, <1>1, <1>2, <1>3, TopKeeps

LEMMA Prefixed ==
    ASSUME NEW S, NEW t \in Seq(S), NEW d \in Seq(S), Len(t) = 3
    PROVE  /\ t \o d \in Seq(S) /\ Len(t \o d) = 3 + Len(d)
           /\ (t \o d)[1] = t[1] /\ (t \o d)[2] = t[2] /\ (t \o d)[3] = t[3]
           /\ \A n \in DOMAIN (t \o d) : n > 3 => n - 3 \in DOMAIN d /\ (t \o d)[n] = d[n - 3]
<1> DEFINE c == t \o d
<1>0. /\ c \in Seq(S) /\ Len(c) = Len(t) + Len(d)
      /\ \A i \in 1..(Len(t) + Len(d)) : c[i] = IF i <= Len(t) THEN t[i] ELSE d[i - Len(t)]
  BY ConcatProperties
<1>1. Len(d) \in Nat /\ DOMAIN d = 1..Len(d) /\ DOMAIN c = 1..Len(c)
  BY <1>0
<1> HIDE DEF c
<1>2. c[1] = t[1] /\ c[2] = t[2] /\ c[3] = t[3]
  BY <1>0, <1>1
<1>3. ASSUME NEW n \in DOMAIN c, n > 3
      PROVE  n - 3 \in DOMAIN d /\ c[n] = d[n - 3]
  BY <1>0, <1>1, <1>3
<1> QED
  BY <1>0, <1>2, <1>3 DEF c

LEMMA CreateKeeps == ASSUME ChildInv, CreateRuleset PROVE ChildInv'
<1> USE DEF ChildInv
<1> DEFINE t == <<Root, WorkIn[Inner.cache], Inner.cache>>
           d == Inner.project.dirs
<1>0. /\ step = "abi" /\ abi >= 3 /\ UNCHANGED <<abi, frames>> /\ step' = "rules"
      /\ ruleset' = [handled |-> HandledAccess(abi), rules |-> {}]
      /\ todo' = t \o d
      /\ Depth' = Depth /\ Inner' = Inner /\ Inner = frames[Depth]
  BY DEF CreateRuleset, Depth, Inner
<1>1. /\ d \in Seq(Place) /\ Inner.cache \in Place /\ WorkIn[Inner.cache] \in Place
      /\ Root \in Place /\ abi \in Nat
  BY <1>0, TopIsARun, ProjectParts, WorkIsBelow, SandboxAssumption DEF ChildTypeOK
<1>2. /\ ruleset' \in Layer /\ ruleset'.handled = HandledAccess(abi) /\ ruleset'.rules = {}
  BY <1>0, <1>1, RightsHandled DEF Layer
<1>3. t \in Seq(Place) /\ Len(t) = 3 /\ t[1] = Root /\ t[2] = WorkIn[Inner.cache] /\ t[3] = Inner.cache
  BY <1>1
<1>4. /\ todo' \in Seq(Place) /\ Len(todo') = 3 + Len(d) /\ todo'[1] = Root
      /\ todo'[2] = WorkIn[Inner.cache] /\ todo'[3] = Inner.cache
      /\ \A n \in DOMAIN todo' : n > 3 => n - 3 \in DOMAIN d /\ todo'[n] = d[n - 3]
  <2>1. todo' = t \o d
    BY <1>0
  <2> HIDE DEF t, d
  <2> QED
    BY <1>1, <1>3, <2>1, Prefixed
<1> HIDE DEF t
<1>5. \A n \in DOMAIN todo' : n >= 2 => todo'[n] \in Grants(Depth)
  <2> SUFFICES ASSUME NEW n \in DOMAIN todo', n >= 2 PROVE todo'[n] \in Grants(Depth)
    OBVIOUS
  <2>1. n = 2 \/ n = 3 \/ n > 3
    BY <1>4
  <2> QED
    BY <1>0, <1>4, <2>1 DEF Grants
<1>6. 3 \in DOMAIN todo' /\ todo' # <<>>
  BY <1>1, <1>4
<1>7. Grants(Depth)' = Grants(Depth)
  BY <1>0 DEF Grants
<1>8. RulesSoFar'
  BY <1>0, <1>2, <1>4, <1>5, <1>6, <1>7 DEF RulesSoFar
<1> QED
  BY <1>0, <1>2, <1>4, <1>8, BuildingKeeps

LEMMA AddDirKeeps == ASSUME ChildInv, AddDirRule PROVE ChildInv'
<1> USE DEF ChildInv
<1> DEFINE a == IF ruleset.rules = {} THEN ReadonlyAccess(abi) ELSE HandledAccess(abi)
           r == [at |-> Head(todo), rights |-> a]
<1>0. /\ step = "rules" /\ todo # <<>> /\ UNCHANGED <<abi, frames>> /\ step' = "rules"
      /\ ruleset' = [ruleset EXCEPT !.rules = @ \cup {r}]
      /\ todo' = Tail(todo)
      /\ Depth' = Depth /\ Inner' = Inner /\ Inner = frames[Depth]
  BY DEF AddDirRule, Depth, Inner
<1>1. /\ todo \in Seq(Place) /\ Len(todo) \in Nat \ {0} /\ Head(todo) = todo[1] /\ todo[1] \in Place
      /\ abi \in Nat /\ 1 \in DOMAIN todo
  BY <1>0 DEF ChildTypeOK
<1>2. /\ todo' \in Seq(Place) /\ Len(todo') = Len(todo) - 1
      /\ \A n \in DOMAIN todo' : n + 1 \in DOMAIN todo /\ todo'[n] = todo[n + 1]
      /\ \A n \in DOMAIN todo : n # 1 => n - 1 \in DOMAIN todo' /\ todo'[n - 1] = todo[n]
  BY <1>0, <1>1
<1>3. r \in Rule /\ r.at = todo[1] /\ r.rights = a
  BY <1>1, RightsHandled DEF Rule
<1>4. /\ ruleset' \in Layer /\ ruleset'.handled = ruleset.handled
      /\ ruleset'.rules = ruleset.rules \cup {r}
  <2> HIDE DEF r
  <2> QED
    BY <1>0, <1>3 DEF ChildTypeOK, Layer
<1>5. /\ Grants(Depth)' = Grants(Depth) /\ CacheRule' = CacheRule
      /\ \A rule : Modest(rule) => Modest(rule)'
  BY <1>0 DEF Grants, CacheRule, Modest
<1>6. Modest(r)
  <2>1. CASE ruleset.rules = {}
    BY <1>1, <1>3, <2>1, RightsHandled DEF Modest
  <2>2. CASE ruleset.rules # {}
    <3>1. todo[1] \in Grants(Depth)
      BY <1>0, <1>1, <2>2 DEF RulesSoFar
    <3> QED
      BY <1>3, <3>1 DEF Modest
  <2> QED
    BY <2>1, <2>2
<1>7. \A n \in DOMAIN todo' : n >= 1 => todo'[n] \in Grants(Depth)
  BY <1>0, <1>1, <1>2 DEF RulesSoFar
<1>8. \/ CacheRule \in ruleset.rules \cup {r}
      \/ \E n \in DOMAIN todo' : n >= 1 /\ todo'[n] = Inner.cache
  <2>1. CASE CacheRule \in ruleset.rules
    BY <2>1
  <2>2. ASSUME NEW n \in DOMAIN todo, n >= (IF ruleset.rules = {} THEN 2 ELSE 1), todo[n] = Inner.cache
        PROVE  \/ CacheRule = r
               \/ \E m \in DOMAIN todo' : m >= 1 /\ todo'[m] = Inner.cache
    <3>1. CASE n = 1
      BY <1>1, <2>2, <3>1 DEF CacheRule
    <3>2. CASE n # 1
      <4>1. n - 1 \in DOMAIN todo' /\ n - 1 >= 1 /\ todo'[n - 1] = Inner.cache
        BY <1>1, <1>2, <2>2, <3>2
      <4> QED
        BY <4>1
    <3> QED
      BY <3>1, <3>2
  <2> QED
    BY <1>0, <2>1, <2>2 DEF RulesSoFar
<1> HIDE DEF r
<1>9. RulesSoFar'
  <2>1. abi' >= 3 /\ ruleset'.handled = HandledAccess(abi')
    BY <1>0, <1>4 DEF RulesSoFar
  <2>2. \A rule \in ruleset'.rules : Modest(rule)'
    <3>1. \A rule \in ruleset'.rules : Modest(rule)
      BY <1>0, <1>4, <1>6 DEF RulesSoFar
    <3> QED
      BY <1>5, <3>1
  <2>3. ruleset'.rules # {}
    BY <1>4
  <2> QED
    BY <1>0, <1>4, <1>5, <1>7, <1>8, <2>1, <2>2, <2>3 DEF RulesSoFar
<1> QED
  BY <1>0, <1>2, <1>4, <1>9, BuildingKeeps

LEMMA AddNullKeeps == ASSUME ChildInv, AddNullRule PROVE ChildInv'
<1> USE DEF ChildInv
<1> DEFINE r == [at |-> Null, rights |-> {"write"}]
<1>0. /\ step = "rules" /\ todo = <<>> /\ UNCHANGED <<abi, frames, todo>> /\ step' = "restrict"
      /\ ruleset' = [ruleset EXCEPT !.rules = @ \cup {r}]
      /\ Depth' = Depth /\ Inner' = Inner /\ Inner = frames[Depth]
  BY DEF AddNullRule, Depth, Inner
<1>1. r \in Rule /\ r.at = Null /\ r.rights = {"write"}
  BY SandboxAssumption DEF Rule, Rights
<1>2. Modest(r)'
  BY <1>1 DEF Modest
<1> HIDE DEF r
<1>3. /\ ruleset' \in Layer /\ ruleset'.handled = ruleset.handled
      /\ ruleset'.rules = ruleset.rules \cup {r} /\ todo' \in Seq(Place)
  BY <1>0, <1>1 DEF ChildTypeOK, Layer
<1>4. /\ CacheRule' = CacheRule /\ \A rule : Modest(rule) => Modest(rule)'
  BY <1>0 DEF Grants, CacheRule, Modest
<1>5. CacheRule \in ruleset.rules
  BY <1>0 DEF RulesSoFar
<1>6. RulesSoFar'
  BY <1>0, <1>2, <1>3, <1>4, <1>5 DEF RulesSoFar
<1> QED
  BY <1>0, <1>3, <1>6, BuildingKeeps

(* The rule set is a layer that confines the setup to its grants, and      *)
(* leaves it its cache directory.                                          *)
LEMMA RulesetConfines ==
    ASSUME ChildInv, step = "restrict"
    PROVE  /\ ConfinedBy(ruleset, Depth)
           /\ \A right \in {"write", "remove", "make"} : Allows(ruleset, right, Inner.cache)
<1> USE DEF ChildInv
<1>0. /\ Depth \in 2..Depth /\ Inner = frames[Depth] /\ Inner.cache \in Cache /\ abi \in Nat
      /\ Inner.project.dirs \in Seq(Place) /\ ruleset \in Layer
      /\ ruleset.handled = HandledAccess(abi) /\ Mutating \subseteq ruleset.handled
  BY TopIsARun, ProjectParts, RightsHandled DEF Inner, ChildTypeOK, RulesSoFar
<1>1. ASSUME NEW right \in Mutating, NEW q \in Place, Allows(ruleset, right, q)
      PROVE  Granted(Depth, q) \/ (right = "write" /\ <<q, Null>> \in Within)
  <2>1. PICK rule \in ruleset.rules : right \in rule.rights /\ <<q, rule.at>> \in Within
    BY <1>0, <1>1 DEF Allows
  <2>2. Modest(rule) /\ rule.at \in Place
    <3>1. Modest(rule)
      BY <2>1 DEF RulesSoFar
    <3>2. rule \in Rule
      <4>1. ruleset.rules \in SUBSET Rule
        BY <1>0 DEF Layer
      <4> QED
        BY <2>1, <4>1
    <3> QED
      BY <3>1, <3>2 DEF Rule
  <2>3. CASE rule.at = WorkIn[Inner.cache]
    <3>1. /\ Inner.cache \in Place /\ WorkIn[Inner.cache] \in Place
          /\ <<WorkIn[Inner.cache], Inner.cache>> \in Within
      BY <1>0, WorkIsBelow
    <3>2. <<q, Inner.cache>> \in Within
      BY <2>1, <2>3, <3>1, SandboxAssumption
    <3> QED
      BY <1>0, <3>2 DEF Granted
  <2>4. CASE rule.at \in Grants(Depth) \ {WorkIn[Inner.cache]}
    BY <1>0, <2>1, <2>4 DEF Granted, Grants
  <2>5. CASE rule.at = Null /\ rule.rights = {"write"}
    BY <2>1, <2>5
  <2>6. rule.rights \cap Mutating # {}
    BY <2>1
  <2> QED
    BY <2>2, <2>3, <2>4, <2>5, <2>6 DEF Modest
<1>2. ASSUME NEW right \in {"write", "remove", "make"}
      PROVE  Allows(ruleset, right, Inner.cache)
  <2>1. CacheRule \in ruleset.rules /\ CacheRule.at = Inner.cache
        /\ CacheRule.rights = HandledAccess(abi)
    BY DEF RulesSoFar, CacheRule
  <2>2. right \in HandledAccess(abi) /\ <<Inner.cache, Inner.cache>> \in Within
    BY <1>0, RightsHandled, SandboxAssumption
  <2> QED
    BY <2>1, <2>2 DEF Allows
<1> QED
  BY <1>1, <1>2 DEF ConfinedBy

LEMMA RestrictKeeps == ASSUME ChildInv, RestrictSelf PROVE ChildInv'
<1> USE DEF ChildInv
<1> DEFINE l == Inner.layers \cup {ruleset}
<1>0. /\ step = "restrict" /\ step' = "exec" /\ ruleset' = NoRules /\ UNCHANGED <<abi, todo>>
      /\ frames' = [frames EXCEPT ![Depth].layers = l]
  BY DEF RestrictSelf, Inner
<1>1. /\ Depth \in 2..Depth /\ Inner \in RunFrame /\ Inner.env \in Env /\ Inner.cache \in Cache
      /\ l \in SUBSET Layer /\ Depth \in Nat /\ Inner = frames[Depth]
  BY <1>0, TopIsARun DEF ChildTypeOK, Depth, Inner
<1>2. /\ frames' \in Seq(ShellFrame \cup RunFrame) /\ Depth' = Depth
      /\ \A i \in 1..Depth : i # Depth => frames'[i] = frames[i]
      /\ \A i \in 2..Depth : frames'[i] \in RunFrame
      /\ Inner' = frames'[Depth] /\ Inner'.env = Inner.env /\ Inner'.layers = l
      /\ Inner'.project = Inner.project /\ Inner'.cache = Inner.cache
  BY <1>0, <1>1, TopChanges
<1>3. NoRules \in Layer
  BY DEF NoRules, Layer
<1>4. ChildTypeOK'
  BY <1>0, <1>2, <1>3 DEF ChildTypeOK
<1>5. Confined(Depth)'
  <2>1. ConfinedBy(ruleset, Depth)
    BY <1>0, RulesetConfines
  <2>2. \A layer : ConfinedBy(layer, Depth) => ConfinedBy(layer, Depth)'
    BY <1>1, <1>2 DEF ConfinedBy, Granted
  <2> QED
    BY <1>2, <2>1, <2>2 DEF Confined
<1>6. Described(Depth)'
  BY <1>0, <1>1, <1>2 DEF Described
<1>7. Usable(Inner)'
  <2>1. CanUse(Inner.layers, Inner.cache) /\ Inner.env.cache = Inner.cache
        /\ Inner.env.tmp = WorkIn[Inner.cache]
    BY <1>0 DEF CacheKnown
  <2>2. CanUse(l, Inner.cache)
    BY <1>0, <2>1, RulesetConfines DEF CanUse, May
  <2>3. CanUse(l, WorkIn[Inner.cache])
    BY <1>1, <2>2, WorkIsBelow, UsableBelow
  <2> QED
    BY <1>1, <1>2, <2>1, <2>2, <2>3 DEF Usable
<1>8. CacheKnown' /\ NestedRunsWork' /\ RulesSoFar'
  BY <1>0 DEF CacheKnown, NestedRunsWork, RulesSoFar
<1> QED
  BY <1>0, <1>2, <1>4, <1>5, <1>6, <1>7, <1>8, TopKeeps

LEMMA ExecKeeps == ASSUME ChildInv, ExecShell PROVE ChildInv'
<1> USE DEF ChildInv
<1>0. /\ step = "exec" /\ step' = "shell" /\ UNCHANGED <<abi, frames, ruleset, todo>>
      /\ Depth' = Depth /\ Inner' = Inner /\ Depth \in 2..Depth /\ Inner = frames[Depth]
      /\ Depth \in Nat
  BY TopIsARun DEF ExecShell, Depth, Inner, ChildTypeOK
<1>1. ChildTypeOK'
  BY <1>0 DEF ChildTypeOK
<1>2. Confined(Depth)' /\ Described(Depth)'
  BY <1>0 DEF Confined, ConfinedBy, Granted, Described
<1>3. Usable(Inner)' /\ CacheKnown' /\ RulesSoFar' /\ NestedRunsWork'
  BY <1>0 DEF Usable, CacheKnown, RulesSoFar, NestedRunsWork
<1> QED
  BY <1>0, <1>1, <1>2, <1>3, TopKeeps

-----------------------------------------------------------------------------
(* Runs come and go.                                                       *)

LEMMA StartKeeps == ASSUME ChildInv, NEW pr \in Projects, StartRun(pr) PROVE ChildInv'
<1> USE DEF ChildInv
<1> DEFINE f == [project |-> pr, cache |-> CacheDir(pr, Inner.env),
                 env |-> Inner.env, layers |-> Inner.layers]
<1>0. /\ step = "shell" /\ step' = "lock" /\ UNCHANGED <<abi, ruleset, todo>>
      /\ frames' = Append(frames, f)
  BY DEF StartRun
<1>1. /\ frames \in Seq(ShellFrame \cup RunFrame) /\ Depth \in Nat /\ Depth >= 1
      /\ Inner \in ShellFrame \cup RunFrame /\ Inner = frames[Depth]
  BY DEF ChildTypeOK, Depth, Inner
<1>2. Inner.env \in Env /\ Inner.layers \in SUBSET Layer
  BY <1>1 DEF ShellFrame, RunFrame
<1>3. Inner.env.cache \in Cache \cup {NoCache}
  BY <1>2 DEF Env
<1>4. CacheDir(pr, Inner.env) \in Cache
  BY <1>3, ProjectParts, SandboxAssumption DEF CacheDir
<1>5. /\ f \in RunFrame /\ f.env = Inner.env /\ f.layers = Inner.layers
      /\ f.project = pr /\ f.cache = CacheDir(pr, Inner.env)
  BY <1>2, <1>4 DEF RunFrame
<1> HIDE DEF f
<1>6. /\ frames' \in Seq(ShellFrame \cup RunFrame) /\ Depth' = Depth + 1
      /\ \A i \in 1..Depth : frames'[i] = frames[i]
      /\ frames'[Depth + 1] = f /\ Inner' = f
  BY <1>0, <1>1, <1>5 DEF Depth, Inner
<1>7. ChildTypeOK'
  <2>1. \A i \in 2..(Depth + 1) : frames'[i] \in RunFrame
    <3> SUFFICES ASSUME NEW i \in 2..(Depth + 1) PROVE frames'[i] \in RunFrame
      OBVIOUS
    <3>1. i \in 2..Depth \/ i = Depth + 1
      BY <1>1
    <3> QED
      BY <1>1, <1>5, <1>6, <3>1 DEF ChildTypeOK
  <2>2. Depth' >= 2 /\ Depth' >= 1 /\ 2..Depth' = 2..(Depth + 1)
    BY <1>1, <1>6
  <2>3. /\ abi' \in Nat /\ ruleset' \in Layer /\ todo' \in Seq(Place) /\ step' = "lock"
    BY <1>0 DEF ChildTypeOK
  <2> QED
    BY <1>6, <2>1, <2>2, <2>3 DEF ChildTypeOK
<1>8. LayersGrow'
  <2> SUFFICES ASSUME NEW i \in 1..(Depth + 1), NEW j \in 1..(Depth + 1), i <= j
               PROVE  frames'[i].layers \subseteq frames'[j].layers
    BY <1>6 DEF LayersGrow
  <2>1. Depth \in 1..Depth
    BY <1>1
  <2>2. CASE i \in 1..Depth /\ j \in 1..Depth
    BY <1>6, <2>2 DEF LayersGrow
  <2>3. CASE i \in 1..Depth /\ j = Depth + 1
    <3>1. frames[i].layers \subseteq frames[Depth].layers
      BY <1>1, <2>1, <2>3 DEF LayersGrow
    <3> QED
      BY <1>1, <1>5, <1>6, <2>3, <3>1
  <2>4. CASE i = Depth + 1 /\ j = Depth + 1
    BY <2>4
  <2> QED
    BY <1>1, <2>2, <2>3, <2>4
<1>9. ASSUME NEW i \in 2..(Depth + 1) PROVE Confined(i)' /\ Described(i)'
  <2>1. CASE i \in 2..Depth
    <3>1. frames'[i] = frames[i] /\ Confined(i) /\ Described(i)
      BY <1>1, <1>6, <2>1
    <3> QED
      BY <1>0, <1>1, <2>1, <3>1 DEF Confined, ConfinedBy, Granted, Described
  <2>2. CASE i = Depth + 1
    BY <1>0, <1>1, <1>6, <2>2 DEF Confined, Described
  <2> QED
    BY <1>1, <2>1, <2>2
<1>10. ASSUME NEW i \in 1..(Depth + 1) PROVE Usable(frames[i])'
  <2>1. Usable(Inner)
    BY <1>1
  <2>2. CASE i \in 1..Depth
    BY <1>6, <2>2 DEF Usable
  <2>3. CASE i = Depth + 1
    BY <1>5, <1>6, <2>1, <2>3 DEF Usable
  <2> QED
    BY <1>1, <2>2, <2>3
<1>11. CacheKnown' /\ RulesSoFar' /\ NestedRunsWork'
  <2>1. pr.option = NoCache => Inner.env.cache \in {NoCache, CacheDir(pr, Inner.env)}
    BY DEF CacheDir
  <2> QED
    BY <1>0, <1>5, <1>6, <2>1 DEF CacheKnown, RulesSoFar, NestedRunsWork
<1> QED
  BY <1>6, <1>7, <1>8, <1>9, <1>10, <1>11

LEMMA LeaveKeeps == ASSUME ChildInv, Leave, Depth >= 2 PROVE ChildInv'
<1> USE DEF ChildInv
<1>0. /\ step' = "shell" /\ ruleset' = NoRules /\ todo' = <<>> /\ abi' = abi
      /\ frames' = SubSeq(frames, 1, Depth - 1)
  BY DEF Leave
<1>1. frames \in Seq(ShellFrame \cup RunFrame) /\ Depth \in Nat /\ DOMAIN frames = 1..Depth
  BY DEF ChildTypeOK, Depth
<1>2. /\ frames' \in Seq(ShellFrame \cup RunFrame) /\ Depth' = Depth - 1
      /\ \A i \in 1..(Depth - 1) : frames'[i] = frames[i]
  <2>1. \A i \in 1..(Depth - 1) : frames[i] \in ShellFrame \cup RunFrame
    BY <1>1
  <2> QED
    BY <1>0, <1>1, <2>1, SubSeqProperties DEF Depth
<1>3. NoRules \in Layer /\ <<>> \in Seq(Place)
  BY DEF NoRules, Layer
<1>4. ChildTypeOK'
  BY <1>0, <1>1, <1>2, <1>3 DEF ChildTypeOK
<1>5. LayersGrow'
  BY <1>1, <1>2 DEF LayersGrow
<1>6. ASSUME NEW i \in 2..(Depth - 1) PROVE Confined(i)' /\ Described(i)'
  <2>1. frames'[i] = frames[i] /\ Confined(i) /\ Described(i) /\ i < Depth
    BY <1>1, <1>2
  <2> QED
    BY <2>1 DEF Confined, ConfinedBy, Granted, Described
<1>7. ASSUME NEW i \in 1..(Depth - 1) PROVE Usable(frames[i])'
  BY <1>1, <1>2 DEF Usable
<1>8. CacheKnown' /\ RulesSoFar' /\ NestedRunsWork'
  BY <1>0 DEF CacheKnown, RulesSoFar, NestedRunsWork
<1> QED
  BY <1>2, <1>4, <1>5, <1>6, <1>7, <1>8

-----------------------------------------------------------------------------
(* The whole.                                                              *)

LEMMA ChildInvInit == SandboxInit => ChildInv
<1> SUFFICES ASSUME SandboxInit PROVE ChildInv
  OBVIOUS
<1>1. PICK c \in Cache \cup {NoCache} : frames = <<UserFrame(c)>>
  BY DEF SandboxInit
<1>2. /\ UserFrame(c) \in ShellFrame /\ UserFrame(c).layers = {}
  BY SandboxAssumption DEF UserFrame, ShellFrame, Env
<1>3. frames \in Seq(ShellFrame \cup RunFrame) /\ Depth = 1 /\ frames[1] = UserFrame(c)
  BY <1>1, <1>2 DEF Depth
<1>4. NoRules \in Layer /\ <<>> \in Seq(Place) /\ abi \in Nat
  BY SandboxAssumption DEF SandboxInit, NoRules, Layer
<1>5. ChildTypeOK
  BY <1>3, <1>4 DEF ChildTypeOK, SandboxInit
<1>6. LayersGrow
  BY <1>3 DEF LayersGrow
<1>7. \A i \in 1..Depth : Usable(frames[i])
  BY <1>2, <1>3 DEF Usable
<1>8. CacheKnown /\ RulesSoFar /\ NestedRunsWork
  BY DEF SandboxInit, CacheKnown, RulesSoFar, NestedRunsWork
<1> QED
  BY <1>3, <1>5, <1>6, <1>7, <1>8 DEF ChildInv

LEMMA ChildInvStep == ChildInv /\ [SandboxNext]_sandboxVars => ChildInv'
<1> SUFFICES ASSUME ChildInv, [SandboxNext]_sandboxVars PROVE ChildInv'
  OBVIOUS
<1>1. ASSUME NEW pr \in Projects, StartRun(pr) PROVE ChildInv'
  BY <1>1, StartKeeps
<1>2. CASE OpenCache
  BY <1>2, OpenCacheKeeps
<1>3. CASE MakeTemp
  BY <1>3, MakeTempKeeps
<1>4. CASE GiveUp \/ ShellExits \/ ChildFails
  <2>1. Leave /\ Depth >= 2
    BY <1>4 DEF GiveUp, ShellExits, ChildFails, ChildInv, ChildTypeOK, Depth
  <2> QED
    BY <2>1, LeaveKeeps
<1>5. CASE DescribeProject
  BY <1>5, DescribeKeeps
<1>6. CASE PointIntoCache
  BY <1>6, PointKeeps
<1>7. CASE CreateRuleset
  BY <1>7, CreateKeeps
<1>8. CASE AddDirRule
  BY <1>8, AddDirKeeps
<1>9. CASE AddNullRule
  BY <1>9, AddNullKeeps
<1>10. CASE RestrictSelf
  BY <1>10, RestrictKeeps
<1>11. CASE ExecShell
  BY <1>11, ExecKeeps
<1>12. CASE UNCHANGED sandboxVars
  <2>1. UNCHANGED <<abi, frames, step, ruleset, todo>> /\ Depth' = Depth /\ Inner' = Inner
    BY <1>12 DEF sandboxVars, Depth, Inner
  <2>2. ChildTypeOK' /\ LayersGrow'
    BY <2>1 DEF ChildInv, ChildTypeOK, LayersGrow
  <2>3. (\A i \in 2..Depth : Confined(i) /\ Described(i))'
    BY <2>1 DEF ChildInv, Confined, ConfinedBy, Granted, Described
  <2>4. (\A i \in 1..Depth : Usable(frames[i]))' /\ CacheKnown' /\ NestedRunsWork'
    BY <2>1 DEF ChildInv, Usable, CacheKnown, NestedRunsWork
  <2>5. RulesSoFar'
    BY <2>1 DEF ChildInv, RulesSoFar, Modest, Grants, CacheRule
  <2> QED
    BY <2>2, <2>3, <2>4, <2>5 DEF ChildInv
<1> QED
  BY <1>1, <1>2, <1>3, <1>4, <1>5, <1>6, <1>7, <1>8, <1>9, <1>10, <1>11, <1>12
     DEF SandboxNext, Child

LEMMA AlwaysChildInv == SandboxSpec => []ChildInv
<1> QED
  BY ChildInvInit, ChildInvStep, PTL DEF SandboxSpec

(* Whatever runs below a sandboxed setup, at any depth and with any cache  *)
(* or grants of its own, changes nothing outside that setup's cache        *)
(* directory and grants (hm_sandbox_enter(); layers only add up).          *)
THEOREM ShellsAreConfined == SandboxSpec => []ShellIsConfined
<1>1. ChildInv => ShellIsConfined
  <2> SUFFICES ASSUME ChildInv, NEW i \in 2..Depth, NEW j \in 2..Depth, Running(i), i <= j,
                      frames[i].project.sandboxed, NEW right \in Mutating, NEW q \in Place,
                      May(frames[j].layers, right, q)
               PROVE  Granted(i, q) \/ (right = "write" /\ <<q, Null>> \in Within)
    BY DEF ShellIsConfined
  <2>1. Confined(i)
    BY DEF ChildInv
  <2>2. PICK layer \in frames[i].layers : ConfinedBy(layer, i)
    BY <2>1 DEF Confined, Running
  <2>3. i \in 1..Depth /\ j \in 1..Depth
    BY DEF ChildInv, ChildTypeOK, Depth
  <2>4. layer \in frames[j].layers
    BY <2>2, <2>3 DEF ChildInv, LayersGrow
  <2> QED
    BY <2>2, <2>4 DEF May, ConfinedBy
<1> QED
  BY <1>1, AlwaysChildInv, PTL

(* However deep runs nest, one that is not sent elsewhere by --cache can   *)
(* lock its cache directory and make its temporary files (hm_cache_dir(),  *)
(* make_temp(), TMPDIR and HACMAN_CACHE of hm_install()).                  *)
THEOREM NestedRunsAlwaysWork == SandboxSpec => []NestedRunsWork
<1>1. ChildInv => NestedRunsWork
  BY DEF ChildInv
<1> QED
  BY <1>1, AlwaysChildInv, PTL

(* A setup sees the variables of its own project and none that a run       *)
(* further out has set (setenv() and unsetenv() of hm_install() and        *)
(* hm_command_run()).                                                      *)
THEOREM EnvIsOwn == SandboxSpec => []EnvDescribesOwnProject
<1>1. ChildInv => EnvDescribesOwnProject
  BY DEF ChildInv, Described, EnvDescribesOwnProject, Running
<1> QED
  BY <1>1, AlwaysChildInv, PTL
=============================================================================
