-------------------------- MODULE CacheLockProofs ---------------------------
(***************************************************************************)
(* The properties of CacheLock.tla for any number of processes and slots,  *)
(* any setups calling each other, and any process dying at any time.       *)
(***************************************************************************)
EXTENDS CacheLock, FiniteSetTheorems, WellFoundedInduction, TLAPS

(* The tree of processes as a value: Ancestry(p) is Above(up, p).          *)
Tree == [Proc -> Proc \cup {Root}]
Closed(u, S) == S \in SUBSET (Proc \cup {Root}) /\ \A q \in S \ {Root} : u[q] \in S
Above(u, p) ==
    {q \in Proc : \A S \in SUBSET (Proc \cup {Root}) :
                     p \in S /\ Closed(u, S) => q \in S}
Acyclic(u) == \A p \in Proc : p \notin Above(u, u[p])

(* Some processes now belong to init.                                      *)
Pruned(u, v) == \A x \in Proc : v[x] \in {u[x], Root}

LockTypeOK ==
    /\ holder \in [Slot -> Proc \cup {Nobody}]
    /\ at \in [Proc -> At]
    /\ slot \in [Proc -> Slot \cup {Nobody}]
    /\ up \in Tree
    /\ who \in [Proc -> Proc \cup {Nobody}]
    /\ cur \in [Proc -> Proc \cup {Root}]
    /\ depth \in [Proc -> Nat]
    /\ reentrant \in [Proc -> BOOLEAN]
    /\ \A p \in Proc : at[p] # "idle" => slot[p] \in Slot

(* Only a process past hm_cache_lock() holds a lock, that of its own slot. *)
HoldersInv ==
    \A s \in Slot : holder[s] # Nobody =>
        at[holder[s]] \in {"held", "setup"} /\ slot[holder[s]] = s

(* Parents are running a setup, and nobody is above itself.                *)
TreeInv == Acyclic(up) /\ \A p \in Proc : up[p] # Root => at[up[p]] = "setup"

(* Who holds the lock a process asks for, if it is above that process.     *)
HeldAbove(p) == holder[slot[p]] \in Above(up, up[p])

(* A lock that is held above was so when the process was started.          *)
AskInv(p) == at[p] \in Asking /\ HeldAbove(p) => reentrant[p]

(* The walk has not passed the holder, and cannot miss it: as long as the  *)
(* holder is above the process, the walk stands between the two.           *)
WalkInv(p) ==
    at[p] = "walk" =>
        /\ who[p] \in Proc
        /\ who[p] \in Above(up, cur[p]) => reentrant[p]
        /\ HeldAbove(p) =>
              /\ who[p] = holder[slot[p]] /\ who[p] \in Above(up, cur[p])
              /\ cur[p] \in Above(up, up[p])

LockInv ==
    LockTypeOK /\ HoldersInv /\ TreeInv /\ \A p \in Proc : AskInv(p) /\ WalkInv(p)

(* What is left of the walk fits into its bound, and who waits is free to. *)
InReach(p) ==
    /\ at[p] # "walk" => depth[p] = 0
    /\ at[p] = "walk" => depth[p] + Cardinality(Above(up, cur[p])) <= MaxWalk
WaitInv(p) == at[p] = "setlkw" => ~HeldAbove(p)
ReachInv == \A p \in Proc : InReach(p) /\ WaitInv(p)

-----------------------------------------------------------------------------
(* Trees.                                                                  *)

LEMMA AncestryIsAbove == \A p : Ancestry(p) = Above(up, p)
BY DEF Ancestry, Upward, Above, Closed

LEMMA InsideClosed ==
    ASSUME NEW u, NEW S, Closed(u, S), NEW z \in S
    PROVE  Above(u, z) \subseteq S
BY DEF Above, Closed

LEMMA AboveInProc == \A u, z : Above(u, z) \subseteq Proc
BY DEF Above

LEMMA AboveSelf == ASSUME NEW u, NEW z \in Proc PROVE z \in Above(u, z)
BY DEF Above

LEMMA AboveRoot == \A u : Above(u, Root) = {}
<1> TAKE u
<1>1. Closed(u, {Root})
  BY DEF Closed
<1>2. Above(u, Root) \subseteq {Root}
  BY <1>1, InsideClosed
<1> QED
  BY <1>2, AboveInProc, LockAssumption

LEMMA AboveParent ==
    ASSUME NEW u, NEW z \in Proc PROVE Above(u, u[z]) \subseteq Above(u, z)
<1> SUFFICES ASSUME NEW q \in Above(u, u[z]),
                    NEW S \in SUBSET (Proc \cup {Root}), z \in S, Closed(u, S)
             PROVE  q \in S
  BY AboveInProc DEF Above
<1>1. u[z] \in S
  BY LockAssumption DEF Closed
<1> QED
  BY <1>1, InsideClosed

LEMMA AboveStep ==
    ASSUME NEW u \in Tree, NEW z \in Proc
    PROVE  Above(u, z) = {z} \cup Above(u, u[z])
<1>1. ASSUME NEW q \in Above(u, z), q # z PROVE q \in Above(u, u[z])
  <2> SUFFICES ASSUME NEW S \in SUBSET (Proc \cup {Root}), u[z] \in S, Closed(u, S)
               PROVE  q \in S
    BY AboveInProc DEF Above
  <2>1. Closed(u, S \cup {z})
    BY DEF Closed
  <2>2. q \in S \cup {z}
    BY <2>1, InsideClosed
  <2> QED
    BY <1>1, <2>2
<1> QED
  BY <1>1, AboveSelf, AboveParent

LEMMA AboveAbove ==
    ASSUME NEW u, NEW z, NEW x \in Above(u, z)
    PROVE  Above(u, x) \subseteq Above(u, z)
<1> SUFFICES ASSUME NEW q \in Above(u, x),
                    NEW S \in SUBSET (Proc \cup {Root}), z \in S, Closed(u, S)
             PROVE  q \in S
  BY AboveInProc DEF Above
<1>1. x \in S
  BY InsideClosed
<1> QED
  BY <1>1, InsideClosed

LEMMA AboveOnlySelf ==
    ASSUME NEW u \in Tree, Acyclic(u), NEW x \in Proc, NEW y \in Proc,
           x \in Above(u, y), y \in Above(u, x)
    PROVE  x = y
<1> SUFFICES ASSUME x # y PROVE FALSE
  OBVIOUS
<1>1. x \in Above(u, u[y])
  BY AboveStep
<1>2. y \in Above(u, u[y])
  BY <1>1, AboveAbove
<1> QED
  BY <1>2 DEF Acyclic

(* What is above a process is a chain.                                     *)
LEMMA Comparable ==
    ASSUME NEW u \in Tree, NEW z \in Proc \cup {Root}, NEW x \in Above(u, z), NEW y \in Above(u, z)
    PROVE  y \in Above(u, x) \/ x \in Above(u, y)
<1> DEFINE S == {Root} \cup Above(u, x) \cup {w \in Proc : x \in Above(u, w)}
<1>0. x \in Proc /\ y \in Proc
  BY AboveInProc
<1>1. S \in SUBSET (Proc \cup {Root})
  BY AboveInProc
<1>2. z \in S
  OBVIOUS
<1>3. ASSUME NEW w \in S \ {Root} PROVE u[w] \in S
  <2>0. w \in Proc /\ u[w] \in Proc \cup {Root}
    BY AboveInProc DEF Tree
  <2>1. CASE w \in Above(u, x)
    <3>1. Above(u, w) \subseteq Above(u, x)
      BY <2>1, AboveAbove
    <3>2. u[w] # Root => u[w] \in Above(u, w)
      BY <2>0, AboveSelf, AboveParent
    <3> QED
      BY <3>1, <3>2
  <2>2. CASE x \in Above(u, w) /\ x # w
    <3>1. x \in Above(u, u[w])
      BY <2>0, <2>2, AboveStep
    <3> QED
      BY <2>0, <3>1
  <2>3. CASE x = w
    <3>1. w \in Above(u, x)
      BY <2>0, <2>3, AboveSelf
    <3> QED
      BY <2>1, <3>1
  <2> QED
    BY <1>3, <2>1, <2>2, <2>3
<1>4. Closed(u, S)
  <2> HIDE DEF S
  <2> QED
    BY <1>1, <1>3 DEF Closed
<1>5. y \in S
  <2> HIDE DEF S
  <2> QED
    BY <1>2, <1>4, InsideClosed
<1> QED
  BY <1>0, <1>5, LockAssumption

LEMMA AbovePruned ==
    ASSUME NEW u \in Tree, NEW v \in Tree, Pruned(u, v), NEW z
    PROVE  Above(v, z) \subseteq Above(u, z)
<1> SUFFICES ASSUME NEW q \in Above(v, z),
                    NEW S \in SUBSET (Proc \cup {Root}), z \in S, Closed(u, S)
             PROVE  q \in S
  BY AboveInProc DEF Above
<1>1. Closed(v, S \cup {Root})
  BY DEF Closed, Pruned
<1>2. q \in S \cup {Root} /\ q \in Proc
  BY <1>1, InsideClosed, AboveInProc
<1> QED
  BY <1>2, LockAssumption

(* If q stays above z, so does what is between them.                       *)
LEMMA BetweenStays ==
    ASSUME NEW u \in Tree, NEW v \in Tree, Pruned(u, v), Acyclic(u),
           NEW z \in Proc \cup {Root}, NEW c \in Above(u, z), NEW q \in Above(u, c), q \in Above(v, z)
    PROVE  c \in Above(v, z) /\ q \in Above(v, c)
<1> DEFINE S == {Root} \cup {w \in Proc : c \in Above(u, w) /\ c \notin Above(v, w)}
<1>0. c \in Proc /\ q \in Proc
  BY AboveInProc
<1>1. ASSUME NEW w \in S \ {Root} PROVE v[w] \in S
  <2>1. w \in Proc /\ c \in Above(u, w) /\ c \notin Above(v, w) /\ v[w] \in Proc \cup {Root}
    BY DEF Tree
  <2>2. c # w
    BY <2>1, AboveSelf
  <2>3. c \in Above(u, u[w]) /\ c \notin Above(v, v[w])
    BY <2>1, <2>2, AboveStep
  <2> QED
    BY <2>1, <2>3 DEF Pruned
<1>2. Closed(v, S)
  BY <1>1 DEF Closed
<1>3. ASSUME c \notin Above(v, z) PROVE FALSE
  <2>1. z \in S
    BY <1>3
  <2>2. q \in S
    <3> HIDE DEF S
    <3> QED
      BY <1>2, <2>1, InsideClosed
  <2>3. c \in Above(u, q) /\ c \notin Above(v, q)
    BY <1>0, <2>2, LockAssumption
  <2>4. c = q
    BY <1>0, <2>3, AboveOnlySelf
  <2> QED
    BY <1>0, <2>3, <2>4, AboveSelf
<1>4. q \in Above(v, c) \/ c \in Above(v, q)
  BY <1>3, Comparable
<1>5. ASSUME c \in Above(v, q) PROVE c = q
  <2>1. c \in Above(u, q)
    BY <1>5, AbovePruned
  <2> QED
    BY <1>0, <2>1, AboveOnlySelf
<1> QED
  BY <1>0, <1>3, <1>4, <1>5, AboveSelf

(* A new leaf changes nothing for the others.                              *)
LEMMA LeafIsNotAbove ==
    ASSUME NEW u \in Tree, NEW b \in Proc, \A x \in Proc : u[x] # b,
           NEW z \in Proc \cup {Root}, z # b
    PROVE  b \notin Above(u, z)
<1> DEFINE S == (Proc \cup {Root}) \ {b}
<1>1. Closed(u, S)
  BY DEF Closed, Tree
<1>2. Above(u, z) \subseteq S
  BY <1>1, InsideClosed
<1> QED
  BY <1>2

LEMMA AboveGrafted ==
    ASSUME NEW u \in Tree, NEW b \in Proc, \A x \in Proc : u[x] # b,
           NEW par \in Proc \cup {Root},
           NEW v \in Tree, \A x \in Proc : v[x] = IF x = b THEN par ELSE u[x],
           NEW z \in Proc \cup {Root}, z # b
    PROVE  Above(v, z) = Above(u, z)
<1>0. \A x \in Proc : x # b => v[x] = u[x]
  OBVIOUS
<1>1. ASSUME NEW q \in Above(v, z), NEW S \in SUBSET (Proc \cup {Root}), z \in S, Closed(u, S)
      PROVE  q \in S
  <2>1. Closed(v, S \ {b})
    BY <1>0, <1>1 DEF Closed
  <2> QED
    BY <1>1, <2>1, InsideClosed
<1>2. ASSUME NEW q \in Above(u, z), NEW S \in SUBSET (Proc \cup {Root}), z \in S, Closed(v, S)
      PROVE  q \in S
  <2>1. Closed(u, S \ {b})
    BY <1>0, <1>2 DEF Closed
  <2> QED
    BY <1>2, <2>1, InsideClosed
<1>3. Above(v, z) \subseteq Above(u, z)
  BY <1>1, AboveInProc DEF Above
<1>4. Above(u, z) \subseteq Above(v, z)
  BY <1>2, AboveInProc DEF Above
<1> QED
  BY <1>3, <1>4

-----------------------------------------------------------------------------
(* What the invariant says of who is above whom.                           *)

LEMMA AboveRuns ==
    ASSUME LockInv, NEW z \in Proc \cup {Root}, z # Root => at[z] = "setup"
    PROVE  \A x \in Above(up, z) : at[x] = "setup"
<1> DEFINE S == {Root} \cup {x \in Proc : at[x] = "setup"}
<1>1. Closed(up, S)
  BY LockAssumption DEF Closed, LockInv, LockTypeOK, Tree, TreeInv
<1>2. Above(up, z) \subseteq S
  <2> HIDE DEF S
  <2>1. z \in S
    BY DEF S
  <2> QED
    BY <1>1, <2>1, InsideClosed
<1> QED
  BY <1>2, AboveInProc, LockAssumption

LEMMA ParentsRun ==
    ASSUME LockInv, NEW p \in Proc
    PROVE  up[p] \in Proc \cup {Root} /\ \A x \in Above(up, up[p]) : x \in Proc /\ at[x] = "setup"
<1>1. up[p] \in Proc \cup {Root} /\ (up[p] # Root => at[up[p]] = "setup")
  BY DEF LockInv, LockTypeOK, Tree, TreeInv
<1> QED
  BY <1>1, AboveRuns, AboveInProc

(* One process stays as it is, and so does what is above it.               *)
LEMMA SameProcess ==
    ASSUME NEW q \in Proc,
           at'[q] = at[q], slot'[q] = slot[q], who'[q] = who[q], cur'[q] = cur[q],
           reentrant'[q] = reentrant[q], up' = up,
           at[q] \in Asking /\ HeldAbove(q)' => holder'[slot[q]] = holder[slot[q]],
           AskInv(q), WalkInv(q)
    PROVE  AskInv(q)' /\ WalkInv(q)'
<1>1. ASSUME at[q] \in Asking, HeldAbove(q)' PROVE HeldAbove(q)
  BY <1>1 DEF HeldAbove
<1>2. AskInv(q)'
  BY <1>1 DEF AskInv
<1>3. WalkInv(q)'
  <2> SUFFICES ASSUME at[q] = "walk" PROVE WalkInv(q)'
    BY DEF WalkInv
  <2>1. at[q] \in Asking
    BY DEF Asking
  <2> QED
    BY <1>1, <2>1 DEF WalkInv
<1> QED
  BY <1>2, <1>3

(* What a process takes that was not running a setup is not above anybody. *)
LEMMA TakenIsNotAbove ==
    ASSUME LockInv, NEW p \in Proc, at[p] # "setup", up' = up, slot' = slot,
           holder' = [holder EXCEPT ![slot[p]] = p],
           NEW q \in Proc, at[q] \in Asking, HeldAbove(q)'
    PROVE  holder'[slot[q]] = holder[slot[q]]
<1>1. slot[q] \in Slot
  BY DEF LockInv, LockTypeOK, Asking
<1>2. holder'[slot[q]] # p
  BY ParentsRun DEF HeldAbove
<1> QED
  BY <1>1, <1>2 DEF LockInv, LockTypeOK

LEMMA TakesLock ==
    ASSUME LockInv, NEW p \in Proc, at[p] \in {"setlk", "setlkw"}, holder[slot[p]] = Nobody,
           holder' = [holder EXCEPT ![slot[p]] = p], at' = [at EXCEPT ![p] = "held"],
           UNCHANGED <<slot, up, who, cur, depth, reentrant>>
    PROVE  LockInv'
<1>0. /\ \A q \in Proc \ {p} : at'[q] = at[q]
      /\ at'[p] = "held" /\ slot[p] \in Slot
      /\ \A s \in Slot : holder'[s] = IF s = slot[p] THEN p ELSE holder[s]
  BY DEF LockInv, LockTypeOK
<1>1. LockTypeOK'
  BY <1>0 DEF LockInv, LockTypeOK, At
<1>2. HoldersInv'
  <2> SUFFICES ASSUME NEW s \in Slot, holder'[s] # Nobody
               PROVE  at'[holder'[s]] \in {"held", "setup"} /\ slot'[holder'[s]] = s
    BY DEF HoldersInv
  <2>1. CASE s = slot[p]
    BY <1>0, <2>1
  <2>2. CASE s # slot[p]
    <3>1. at[holder[s]] \in {"held", "setup"} /\ slot[holder[s]] = s /\ holder'[s] = holder[s]
          /\ holder[s] \in Proc
      BY <1>0, <2>2 DEF LockInv, LockTypeOK, HoldersInv
    <3> QED
      BY <1>0, <3>1
  <2> QED
    BY <2>1, <2>2
<1>3. TreeInv'
  <2>1. \A q \in Proc : up[q] # p
    BY LockAssumption DEF LockInv, TreeInv
  <2>2. \A q \in Proc : up[q] # Root => at'[up[q]] = "setup"
    BY <1>0, <2>1 DEF LockInv, LockTypeOK, Tree, TreeInv
  <2> QED
    BY <2>2 DEF LockInv, TreeInv
<1>4. ASSUME NEW q \in Proc PROVE AskInv(q)' /\ WalkInv(q)'
  <2>1. CASE q = p
    BY <1>0, <2>1 DEF AskInv, WalkInv, Asking
  <2>2. CASE q # p
    <3>1. at[q] \in Asking /\ HeldAbove(q)' => holder'[slot[q]] = holder[slot[q]]
      BY TakenIsNotAbove
    <3>2. AskInv(q) /\ WalkInv(q)
      BY DEF LockInv
    <3> QED
      BY <1>0, <2>2, <3>1, <3>2, SameProcess
  <2> QED
    BY <2>1, <2>2
<1> QED
  BY <1>1, <1>2, <1>3, <1>4 DEF LockInv

(* A step that only moves one process that is not, and will not be, a      *)
(* holder.                                                                 *)
LEMMA OneMoves ==
    ASSUME LockInv, NEW p \in Proc, LockTypeOK',
           at[p] \notin {"held", "setup"}, at'[p] \notin {"held", "setup"},
           \A q \in Proc \ {p} : /\ at'[q] = at[q] /\ who'[q] = who[q] /\ cur'[q] = cur[q],
           UNCHANGED <<holder, slot, up, reentrant>>,
           AskInv(p)', WalkInv(p)'
    PROVE  LockInv'
<1>1. HoldersInv'
  <2> SUFFICES ASSUME NEW s \in Slot, holder'[s] # Nobody
               PROVE  at'[holder'[s]] \in {"held", "setup"} /\ slot'[holder'[s]] = s
    BY DEF HoldersInv
  <2>1. at[holder[s]] \in {"held", "setup"} /\ slot[holder[s]] = s /\ holder[s] \in Proc
    BY DEF LockInv, LockTypeOK, HoldersInv
  <2> QED
    BY <2>1
<1>2. TreeInv'
  <2>1. \A q \in Proc : up[q] # Root => at'[up[q]] = "setup"
    BY DEF LockInv, LockTypeOK, Tree, TreeInv
  <2> QED
    BY <2>1 DEF LockInv, TreeInv
<1>3. ASSUME NEW q \in Proc, q # p PROVE AskInv(q)' /\ WalkInv(q)'
  <2>1. AskInv(q) /\ WalkInv(q)
    BY DEF LockInv
  <2> QED
    BY <1>3, <2>1, SameProcess
<1> QED
  BY <1>1, <1>2, <1>3 DEF LockInv

LEMMA SetLkInv == ASSUME LockInv, NEW p \in Proc, SetLk(p) PROVE LockInv'
<1>1. CASE holder[slot[p]] = Nobody
  BY <1>1, TakesLock DEF SetLk
<1>2. CASE holder[slot[p]] # Nobody
  <2>0. /\ at[p] = "setlk" /\ at' = [at EXCEPT ![p] = "getlk"]
        /\ UNCHANGED <<holder, slot, up, who, cur, depth, reentrant>>
    BY <1>2 DEF SetLk
  <2>1. at'[p] = "getlk" /\ \A q \in Proc \ {p} : at'[q] = at[q]
    BY <2>0 DEF LockInv, LockTypeOK
  <2>2. LockTypeOK'
    BY <2>0, <2>1 DEF LockInv, LockTypeOK, At
  <2>3. AskInv(p)'
    <3>1. AskInv(p)
      BY DEF LockInv
    <3> QED
      BY <2>0, <2>1, <3>1 DEF AskInv, HeldAbove, Asking
  <2>4. WalkInv(p)'
    BY <2>1 DEF WalkInv
  <2> QED
    BY <2>0, <2>1, <2>2, <2>3, <2>4, OneMoves
<1> QED
  BY <1>1, <1>2

LEMMA SetLkWInv == ASSUME LockInv, NEW p \in Proc, SetLkW(p) PROVE LockInv'
BY TakesLock DEF SetLkW

LEMMA GetLkInv == ASSUME LockInv, NEW p \in Proc, GetLk(p) PROVE LockInv'
<1>0. /\ at[p] = "getlk" /\ slot[p] \in Slot /\ up[p] \in Proc \cup {Root}
      /\ holder[slot[p]] \in Proc \cup {Nobody}
      /\ AskInv(p)
      /\ UNCHANGED <<holder, slot, up, depth, reentrant>>
  BY DEF LockInv, LockTypeOK, GetLk, Tree
<1>1. CASE holder[slot[p]] = Nobody
  <2>0. at' = [at EXCEPT ![p] = "setlkw"] /\ UNCHANGED <<who, cur>>
    BY <1>1 DEF GetLk
  <2>1. at'[p] = "setlkw" /\ \A q \in Proc \ {p} : at'[q] = at[q]
    BY <2>0 DEF LockInv, LockTypeOK
  <2>2. LockTypeOK'
    BY <1>0, <2>0, <2>1 DEF LockInv, LockTypeOK, At
  <2>3. AskInv(p)'
    BY <1>0, <1>1, AboveInProc, LockAssumption DEF AskInv, HeldAbove
  <2>4. WalkInv(p)'
    BY <2>1 DEF WalkInv
  <2> QED
    BY <1>0, <2>0, <2>1, <2>2, <2>3, <2>4, OneMoves
<1>2. CASE holder[slot[p]] # Nobody
  <2>0. /\ at' = [at EXCEPT ![p] = "walk"]
        /\ who' = [who EXCEPT ![p] = holder[slot[p]]]
        /\ cur' = [cur EXCEPT ![p] = up[p]]
    BY <1>2 DEF GetLk
  <2>1. /\ at'[p] = "walk" /\ who'[p] = holder[slot[p]] /\ cur'[p] = up[p]
        /\ \A q \in Proc \ {p} : at'[q] = at[q] /\ who'[q] = who[q] /\ cur'[q] = cur[q]
    BY <2>0 DEF LockInv, LockTypeOK
  <2>2. LockTypeOK'
    BY <1>0, <2>0, <2>1 DEF LockInv, LockTypeOK, At
  <2>3. HeldAbove(p)' <=> HeldAbove(p)
    BY <1>0 DEF HeldAbove
  <2>4. HeldAbove(p) => reentrant[p]
    BY <1>0 DEF AskInv, Asking
  <2>5. AskInv(p)'
    BY <1>0, <2>3, <2>4 DEF AskInv
  <2>6. HeldAbove(p) => up[p] \in Above(up, up[p])
    BY <1>0, AboveRoot, AboveSelf DEF HeldAbove
  <2>7. WalkInv(p)'
    BY <1>0, <1>2, <2>1, <2>3, <2>4, <2>6 DEF WalkInv, HeldAbove
  <2> QED
    BY <1>0, <2>1, <2>2, <2>5, <2>7, OneMoves
<1> QED
  BY <1>1, <1>2

LEMMA WalkEndsInv ==
    ASSUME LockInv, NEW p \in Proc, at[p] = "walk", NEW label \in {"setlkw", "refused"},
           WalkEnds(p, label), UNCHANGED <<holder, slot, up, reentrant>>
    PROVE  LockInv'
<1>1. /\ at'[p] = label /\ slot[p] \in Slot
      /\ \A q \in Proc \ {p} : at'[q] = at[q] /\ who'[q] = who[q] /\ cur'[q] = cur[q]
  BY DEF LockInv, LockTypeOK, WalkEnds
<1>2. LockTypeOK'
  BY <1>1, LockAssumption DEF LockInv, LockTypeOK, At, WalkEnds
<1>3. HeldAbove(p) => reentrant[p]
  BY DEF LockInv, AskInv, Asking
<1>4. AskInv(p)'
  BY <1>3 DEF AskInv, HeldAbove
<1>5. WalkInv(p)'
  BY <1>1 DEF WalkInv
<1> QED
  BY <1>1, <1>2, <1>4, <1>5, OneMoves

LEMMA WalkStepInv == ASSUME LockInv, NEW p \in Proc, Walk(p) PROVE LockInv'
<1>1. CASE \E label \in {"setlkw", "refused"} : WalkEnds(p, label)
  BY <1>1, WalkEndsInv DEF Walk
<1>2. CASE ~ \E label \in {"setlkw", "refused"} : WalkEnds(p, label)
  <2>0. /\ at[p] = "walk" /\ cur[p] # Root /\ cur[p] # who[p] /\ cur[p] \in Proc
        /\ cur' = [cur EXCEPT ![p] = up[cur[p]]]
        /\ depth' = [depth EXCEPT ![p] = @ + 1]
        /\ UNCHANGED <<at, who, holder, slot, up, reentrant>>
        /\ up[cur[p]] \in Proc \cup {Root}
    BY <1>2 DEF Walk, LockInv, LockTypeOK, Tree
  <2>1. cur'[p] = up[cur[p]] /\ \A q \in Proc \ {p} : cur'[q] = cur[q]
    BY <2>0 DEF LockInv, LockTypeOK
  <2>2. LockTypeOK'
    BY <2>0 DEF LockInv, LockTypeOK
  <2>3. AskInv(p) /\ WalkInv(p)
    BY DEF LockInv
  <2>4. AskInv(p)'
    BY <2>0, <2>3 DEF AskInv, HeldAbove
  <2>5. Above(up, cur[p]) = {cur[p]} \cup Above(up, up[cur[p]])
    BY <2>0, AboveStep DEF LockInv, LockTypeOK
  <2>6. ASSUME HeldAbove(p)
        PROVE  who[p] \in Above(up, up[cur[p]]) /\ up[cur[p]] \in Above(up, up[p])
    <3>1. who[p] \in Above(up, up[cur[p]]) /\ cur[p] \in Above(up, up[p])
      BY <2>0, <2>3, <2>5, <2>6 DEF WalkInv
    <3>2. up[cur[p]] # Root
      BY <3>1, AboveRoot
    <3>3. up[cur[p]] \in Above(up, cur[p])
      BY <2>0, <2>5, <3>2, AboveSelf
    <3> QED
      BY <3>1, <3>3, AboveAbove
  <2>7. WalkInv(p)'
    <3>1. HeldAbove(p)' <=> HeldAbove(p)
      BY <2>0 DEF HeldAbove
    <3> QED
      BY <2>0, <2>1, <2>3, <2>5, <2>6, <3>1 DEF WalkInv
  <2> QED
    BY <2>0, <2>1, <2>2, <2>4, <2>7, OneMoves
<1> QED
  BY <1>1, <1>2

LEMMA BeginSetupInv == ASSUME LockInv, NEW p \in Proc, BeginSetup(p) PROVE LockInv'
<1>0. /\ at[p] = "held" /\ at'[p] = "setup" /\ \A q \in Proc \ {p} : at'[q] = at[q]
      /\ UNCHANGED <<holder, slot, up, who, cur, depth, reentrant>>
  BY DEF BeginSetup, LockInv, LockTypeOK
<1>1. LockTypeOK'
  BY <1>0 DEF LockInv, LockTypeOK, At, BeginSetup
<1>2. HoldersInv'
  <2> SUFFICES ASSUME NEW s \in Slot, holder'[s] # Nobody
               PROVE  at'[holder'[s]] \in {"held", "setup"} /\ slot'[holder'[s]] = s
    BY DEF HoldersInv
  <2>1. at[holder[s]] \in {"held", "setup"} /\ slot[holder[s]] = s /\ holder[s] \in Proc
    BY <1>0 DEF LockInv, LockTypeOK, HoldersInv
  <2> QED
    BY <1>0, <2>1
<1>3. TreeInv'
  <2>1. \A q \in Proc : up[q] # Root => at'[up[q]] = "setup"
    BY <1>0 DEF LockInv, LockTypeOK, Tree, TreeInv
  <2> QED
    BY <1>0, <2>1 DEF LockInv, TreeInv
<1>4. ASSUME NEW q \in Proc PROVE AskInv(q)' /\ WalkInv(q)'
  <2>1. CASE q = p
    BY <1>0, <2>1 DEF AskInv, WalkInv, Asking
  <2>2. CASE q # p
    <3>1. AskInv(q) /\ WalkInv(q)
      BY DEF LockInv
    <3> QED
      BY <1>0, <2>2, <3>1, SameProcess
  <2> QED
    BY <2>1, <2>2
<1> QED
  BY <1>1, <1>2, <1>3, <1>4 DEF LockInv

(* A process is started; only what nobody else stands on can be.           *)
LEMMA BeginChanges ==
    ASSUME LockInv, ~Recycling, NEW p \in Proc, NEW s \in Slot, NEW par \in Proc \cup {Root},
           par # Root => at[par] = "setup", Begin(p, s, par)
    PROVE  /\ at[p] = "idle" /\ at'[p] = "setlk" /\ slot'[p] = s /\ up'[p] = par
           /\ up \in Tree /\ up' \in Tree /\ par # p
           /\ reentrant'[p] = (holder[s] \in Above(up, par))
           /\ \A q \in Proc \ {p} :
                 /\ at'[q] = at[q] /\ slot'[q] = slot[q] /\ up'[q] = up[q]
                 /\ reentrant'[q] = reentrant[q]
                 /\ at[q] = "walk" => p \notin {cur[q], who[q]}
           /\ UNCHANGED <<holder, who, cur, depth>>
           /\ \A q \in Proc : up[q] # p
           /\ \A z \in Proc \cup {Root} : z # p => Above(up', z) = Above(up, z)
<1>0. /\ at[p] = "idle" /\ at'[p] = "setlk" /\ slot'[p] = s /\ up'[p] = par
      /\ up' = [up EXCEPT ![p] = par] /\ up \in Tree /\ par # p
      /\ reentrant'[p] = (holder[s] \in Above(up, par))
      /\ \A q \in Proc \ {p} :
            /\ at'[q] = at[q] /\ slot'[q] = slot[q] /\ up'[q] = up[q]
            /\ reentrant'[q] = reentrant[q]
            /\ at[q] = "walk" => p \notin {cur[q], who[q]}
      /\ UNCHANGED <<holder, who, cur, depth>>
  BY AncestryIsAbove, LockAssumption DEF Begin, LockInv, LockTypeOK, Tree
<1>1. \A q \in Proc : up[q] # p
  BY <1>0, LockAssumption DEF LockInv, TreeInv
<1>2. up \in Tree /\ up' \in Tree /\ \A x \in Proc : up'[x] = IF x = p THEN par ELSE up[x]
  BY <1>0 DEF Tree
<1>3. \A z \in Proc \cup {Root} : z # p => Above(up', z) = Above(up, z)
  BY <1>1, <1>2, AboveGrafted
<1> QED
  BY <1>0, <1>1, <1>2, <1>3

LEMMA BeginInv ==
    ASSUME LockInv, ~Recycling, NEW p \in Proc, NEW s \in Slot, NEW par \in Proc \cup {Root},
           par # Root => at[par] = "setup", Begin(p, s, par)
    PROVE  LockInv'
<1>0. /\ at[p] = "idle" /\ at'[p] = "setlk" /\ slot'[p] = s /\ up'[p] = par
      /\ up \in Tree /\ up' \in Tree /\ par # p
      /\ reentrant'[p] = (holder[s] \in Above(up, par))
      /\ \A q \in Proc \ {p} :
            /\ at'[q] = at[q] /\ slot'[q] = slot[q] /\ up'[q] = up[q]
            /\ reentrant'[q] = reentrant[q]
            /\ at[q] = "walk" => p \notin {cur[q], who[q]}
      /\ UNCHANGED <<holder, who, cur, depth>>
  BY BeginChanges
<1>1. \A q \in Proc : up[q] # p
  BY BeginChanges
<1>2. \A z \in Proc \cup {Root} : z # p => Above(up', z) = Above(up, z)
  BY BeginChanges
<1>3. LockTypeOK'
  <2>2. up' \in Tree
    BY <1>0
  <2>3. reentrant' \in [Proc -> BOOLEAN]
    BY DEF Begin, LockInv, LockTypeOK
  <2>4. at' \in [Proc -> At] /\ slot' \in [Proc -> Slot \cup {Nobody}]
    BY DEF Begin, LockInv, LockTypeOK, At
  <2>5. \A q \in Proc : at'[q] # "idle" => slot'[q] \in Slot
    BY <1>0 DEF LockInv, LockTypeOK
  <2> QED
    BY <1>0, <2>2, <2>3, <2>4, <2>5 DEF LockInv, LockTypeOK
<1>4. HoldersInv'
  <2> SUFFICES ASSUME NEW t \in Slot, holder'[t] # Nobody
               PROVE  at'[holder'[t]] \in {"held", "setup"} /\ slot'[holder'[t]] = t
    BY DEF HoldersInv
  <2>1. at[holder[t]] \in {"held", "setup"} /\ slot[holder[t]] = t /\ holder[t] \in Proc
    BY <1>0 DEF LockInv, LockTypeOK, HoldersInv
  <2> QED
    BY <1>0, <2>1
<1>5. TreeInv'
  <2>1. ASSUME NEW q \in Proc
        PROVE  /\ up'[q] # Root => at'[up'[q]] = "setup"
               /\ q \notin Above(up', up'[q])
    <3>0. up[q] \in Proc \cup {Root} /\ up[q] # p
      BY <1>0, <1>1 DEF Tree
    <3>1. CASE q = p
      <4>1. p \notin Above(up, par)
        BY <1>0, <1>1, LeafIsNotAbove
      <4> QED
        BY <1>0, <1>2, <3>1, <4>1
    <3>2. CASE q # p
      <4>1. up'[q] = up[q] /\ (up[q] # Root => at'[up[q]] = at[up[q]])
        BY <1>0, <3>0, <3>2
      <4>2. (up[q] # Root => at[up[q]] = "setup") /\ q \notin Above(up, up[q])
        BY DEF LockInv, TreeInv, Acyclic
      <4>3. Above(up', up[q]) = Above(up, up[q])
        BY <1>2, <3>0
      <4> QED
        BY <4>1, <4>2, <4>3
    <3> QED
      BY <3>1, <3>2
  <2> QED
    BY <2>1 DEF TreeInv, Acyclic
<1>6. ASSUME NEW q \in Proc PROVE AskInv(q)' /\ WalkInv(q)'
  <2>1. CASE q = p
    <3>1. HeldAbove(p)' => reentrant'[p]
      BY <1>0, <1>2 DEF HeldAbove
    <3> QED
      BY <1>0, <2>1, <3>1 DEF AskInv, WalkInv
  <2>2. CASE q # p
    <3>0. up[q] \in Proc \cup {Root} /\ up[q] # p /\ cur[q] \in Proc \cup {Root}
      BY <1>0, <1>1 DEF Tree, LockInv, LockTypeOK
    <3>1. HeldAbove(q)' <=> HeldAbove(q)
      BY <1>0, <1>2, <2>2, <3>0 DEF HeldAbove
    <3>2. at[q] = "walk" => Above(up', cur[q]) = Above(up, cur[q])
      BY <1>0, <1>2, <2>2, <3>0
    <3>3. AskInv(q) /\ WalkInv(q)
      BY DEF LockInv
    <3>4. AskInv(q)'
      BY <1>0, <2>2, <3>1, <3>3 DEF AskInv
    <3>5. Above(up', up'[q]) = Above(up, up[q])
      BY <1>0, <1>2, <2>2, <3>0
    <3>6. WalkInv(q)'
      BY <1>0, <2>2, <3>1, <3>2, <3>3, <3>5 DEF WalkInv
    <3> QED
      BY <3>4, <3>6
  <2> QED
    BY <2>1, <2>2
<1> QED
  BY <1>3, <1>4, <1>5, <1>6 DEF LockInv

LEMMA LaunchInv == ASSUME LockInv, ~Recycling, NEW p \in Proc, Launch(p) PROVE LockInv'
<1>1. PICK s \in Tops : Begin(p, s, Root)
  BY DEF Launch
<1> QED
  BY <1>1, BeginInv, LockAssumption

LEMMA NestInv == ASSUME LockInv, ~Recycling, NEW p \in Proc, Nest(p) PROVE LockInv'
<1>1. PICK q \in Proc, s \in Slot : at[q] = "setup" /\ Begin(p, s, q)
  BY DEF Nest
<1> QED
  BY <1>1, BeginInv

(* A process is gone, its children belong to init.                         *)
LEMMA ExitChanges ==
    ASSUME LockInv, NEW p \in Proc, Exit(p)
    PROVE  /\ LockTypeOK' /\ at'[p] = "idle" /\ Pruned(up, up')
           /\ \A s \in Slot : holder'[s] = IF holder[s] = p THEN Nobody ELSE holder[s]
           /\ \A q \in Proc : up'[q] = IF q = p \/ up[q] = p THEN Root ELSE up[q]
           /\ \A q \in Proc \ {p} :
                 /\ at'[q] = at[q] /\ slot'[q] = slot[q] /\ reentrant'[q] = reentrant[q]
                 /\ who'[q] = who[q] /\ cur'[q] = cur[q] /\ depth'[q] = depth[q]
<1>1. at'[p] = "idle" /\ \A q \in Proc \ {p} :
                 /\ at'[q] = at[q] /\ slot'[q] = slot[q] /\ reentrant'[q] = reentrant[q]
                 /\ who'[q] = who[q] /\ cur'[q] = cur[q] /\ depth'[q] = depth[q]
  BY DEF Exit, LockInv, LockTypeOK
<1>2. \A q \in Proc : up'[q] = IF q = p \/ up[q] = p THEN Root ELSE up[q]
  BY DEF Exit
<1>3. \A s \in Slot : holder'[s] = IF holder[s] = p THEN Nobody ELSE holder[s]
  BY DEF Exit
<1>4. holder' \in [Slot -> Proc \cup {Nobody}] /\ at' \in [Proc -> At]
      /\ slot' \in [Proc -> Slot \cup {Nobody}] /\ who' \in [Proc -> Proc \cup {Nobody}]
  BY DEF Exit, LockInv, LockTypeOK, At
<1>5. cur' \in [Proc -> Proc \cup {Root}] /\ depth' \in [Proc -> Nat]
      /\ reentrant' \in [Proc -> BOOLEAN]
  BY DEF Exit, LockInv, LockTypeOK
<1>6. up' \in Tree
  BY DEF Exit, LockInv, LockTypeOK, Tree
<1>7. \A q \in Proc : at'[q] # "idle" => slot'[q] \in Slot
  BY <1>1 DEF LockInv, LockTypeOK
<1> QED
  BY <1>1, <1>2, <1>3, <1>4, <1>5, <1>6, <1>7 DEF LockTypeOK, Pruned

(* Whoever is still above a process holds what it held.                    *)
LEMMA ExitKeepsAbove ==
    ASSUME LockInv, NEW p \in Proc, Exit(p), NEW q \in Proc \ {p}, at[q] \in Asking
    PROVE  /\ HeldAbove(q)' => HeldAbove(q) /\ holder'[slot[q]] = holder[slot[q]]
           /\ HeldAbove(q)' => up'[q] = up[q]
<1>0. slot[q] \in Slot /\ slot'[q] = slot[q] /\ up \in Tree /\ up' \in Tree /\ Pruned(up, up')
      /\ holder[slot[q]] \in Proc \cup {Nobody}
  BY ExitChanges DEF LockInv, LockTypeOK, Asking
<1> SUFFICES ASSUME HeldAbove(q)'
             PROVE  HeldAbove(q) /\ holder'[slot[q]] = holder[slot[q]] /\ up'[q] = up[q]
  OBVIOUS
<1>1. holder'[slot[q]] \in Above(up', up'[q]) /\ holder'[slot[q]] \in Proc
  BY <1>0, AboveInProc DEF HeldAbove
<1>2. holder'[slot[q]] = holder[slot[q]]
  BY <1>0, <1>1, ExitChanges, LockAssumption
<1>3. up'[q] # Root
  BY <1>1, AboveRoot
<1>4. up'[q] = up[q]
  BY <1>3, ExitChanges
<1>5. holder[slot[q]] \in Above(up, up[q])
  BY <1>0, <1>1, <1>2, <1>4, AbovePruned
<1> QED
  BY <1>2, <1>4, <1>5 DEF HeldAbove

LEMMA ExitInv == ASSUME LockInv, NEW p \in Proc, Exit(p) PROVE LockInv'
<1>0. up \in Tree /\ up' \in Tree /\ Pruned(up, up') /\ Acyclic(up) /\ LockTypeOK'
  BY ExitChanges DEF LockInv, LockTypeOK, TreeInv
<1>1. HoldersInv'
  <2> SUFFICES ASSUME NEW s \in Slot, holder'[s] # Nobody
               PROVE  at'[holder'[s]] \in {"held", "setup"} /\ slot'[holder'[s]] = s
    BY DEF HoldersInv
  <2>1. holder'[s] = holder[s] /\ holder[s] # p /\ holder[s] \in Proc
    BY ExitChanges DEF LockInv, LockTypeOK
  <2>2. at[holder[s]] \in {"held", "setup"} /\ slot[holder[s]] = s
    BY <2>1 DEF LockInv, HoldersInv
  <2> QED
    BY <2>1, <2>2, ExitChanges
<1>2. TreeInv'
  <2>1. ASSUME NEW q \in Proc
        PROVE  /\ up'[q] # Root => at'[up'[q]] = "setup"
               /\ q \notin Above(up', up'[q])
    <3>1. CASE up'[q] = Root
      BY <3>1, AboveRoot
    <3>2. CASE up'[q] # Root
      <4>1. up'[q] = up[q] /\ up[q] # p /\ up[q] \in Proc
        BY <1>0, <3>2, ExitChanges DEF Tree
      <4>2. at[up[q]] = "setup" /\ q \notin Above(up, up[q])
        BY <3>2, <4>1 DEF LockInv, TreeInv, Acyclic
      <4> QED
        BY <1>0, <4>1, <4>2, ExitChanges, AbovePruned
    <3> QED
      BY <3>1, <3>2
  <2> QED
    BY <2>1 DEF TreeInv, Acyclic
<1>3. ASSUME NEW q \in Proc PROVE AskInv(q)' /\ WalkInv(q)'
  <2>1. CASE q = p
    BY <2>1, ExitChanges DEF AskInv, WalkInv, Asking
  <2>2. CASE q # p
    <3>0. /\ at'[q] = at[q] /\ slot'[q] = slot[q] /\ reentrant'[q] = reentrant[q]
          /\ who'[q] = who[q] /\ cur'[q] = cur[q] /\ AskInv(q) /\ WalkInv(q)
          /\ up[q] \in Proc \cup {Root}
      BY <1>0, <2>2, ExitChanges DEF LockInv, Tree
    <3>1. AskInv(q)'
      BY <2>2, <3>0, ExitKeepsAbove DEF AskInv
    <3>2. WalkInv(q)'
      <4> SUFFICES ASSUME at[q] = "walk" PROVE WalkInv(q)'
        BY <3>0 DEF WalkInv
      <4>1. who[q] \in Proc /\ (who[q] \in Above(up', cur[q]) => reentrant[q])
        BY <1>0, <3>0, AbovePruned DEF WalkInv
      <4>2. ASSUME HeldAbove(q)'
            PROVE  /\ who[q] = holder'[slot[q]] /\ who[q] \in Above(up', cur[q])
                   /\ cur[q] \in Above(up', up'[q])
        <5>1. HeldAbove(q) /\ holder'[slot[q]] = holder[slot[q]] /\ up'[q] = up[q]
          BY <2>2, <4>2, ExitKeepsAbove DEF Asking
        <5>2. who[q] = holder[slot[q]] /\ who[q] \in Above(up, cur[q]) /\ cur[q] \in Above(up, up[q])
          BY <3>0, <5>1 DEF WalkInv
        <5>3. who[q] \in Above(up', up[q])
          BY <3>0, <4>2, <5>1, <5>2 DEF HeldAbove
        <5>4. cur[q] \in Above(up', up[q]) /\ who[q] \in Above(up', cur[q])
          BY <1>0, <3>0, <5>2, <5>3, BetweenStays
        <5> QED
          BY <5>1, <5>2, <5>4
      <4> QED
        BY <3>0, <4>1, <4>2 DEF WalkInv
    <3> QED
      BY <3>1, <3>2
  <2> QED
    BY <2>1, <2>2
<1> QED
  BY <1>0, <1>1, <1>2, <1>3 DEF LockInv

-----------------------------------------------------------------------------
LEMMA LockInvInit == Init => LockInv
<1> SUFFICES ASSUME Init PROVE LockInv
  OBVIOUS
<1>1. LockTypeOK
  BY DEF Init, LockTypeOK, At, Tree
<1>2. HoldersInv
  BY DEF Init, HoldersInv
<1>3. TreeInv
  BY AboveRoot DEF Init, TreeInv, Acyclic
<1>4. \A p \in Proc : AskInv(p) /\ WalkInv(p)
  BY DEF Init, AskInv, WalkInv, Asking
<1> QED
  BY <1>1, <1>2, <1>3, <1>4 DEF LockInv

LEMMA LockInvStutters == LockInv /\ UNCHANGED vars => LockInv'
<1> SUFFICES ASSUME LockInv, UNCHANGED vars PROVE LockInv'
  OBVIOUS
<1>1. LockTypeOK' /\ HoldersInv' /\ TreeInv'
  BY DEF vars, LockInv, LockTypeOK, HoldersInv, TreeInv
<1>2. \A p \in Proc : AskInv(p)' /\ WalkInv(p)'
  BY DEF vars, LockInv, AskInv, WalkInv, HeldAbove
<1> QED
  BY <1>1, <1>2 DEF LockInv

LEMMA LockInvNext == ~Recycling /\ LockInv /\ [Next]_vars => LockInv'
<1> SUFFICES ASSUME ~Recycling, LockInv, [Next]_vars PROVE LockInv'
  OBVIOUS
<1>1. ASSUME NEW p \in Proc, Launch(p) \/ Nest(p) PROVE LockInv'
  BY <1>1, LaunchInv, NestInv
<1>2. ASSUME NEW p \in Proc, Step(p) PROVE LockInv'
  BY <1>2, SetLkInv, GetLkInv, WalkStepInv, SetLkWInv, BeginSetupInv, ExitInv DEF Step, End
<1>3. ASSUME NEW p \in Proc, Killed(p) PROVE LockInv'
  BY <1>3, ExitInv DEF Killed
<1>4. CASE UNCHANGED vars
  BY <1>4, LockInvStutters
<1> QED
  BY <1>1, <1>2, <1>3, <1>4 DEF Next

LEMMA AlwaysLockInv == ASSUME ~Recycling PROVE Spec => []LockInv
<1>1. LockInv /\ [Next]_vars => LockInv'
  BY LockInvNext
<1> QED
  BY <1>1, LockInvInit, PTL DEF Spec

-----------------------------------------------------------------------------
(* The walk reaches the top: its bound is at least the height of the tree. *)
WalkReachesTop == IsFiniteSet(Proc) /\ Cardinality(Proc) <= MaxWalk + 1

LEMMA AboveCounts ==
    ASSUME IsFiniteSet(Proc)
    PROVE  \A u, z : IsFiniteSet(Above(u, z)) /\ Cardinality(Above(u, z)) \in Nat
<1> TAKE u, z
<1>1. IsFiniteSet(Above(u, z))
  BY AboveInProc, FS_Subset
<1> QED
  BY <1>1, FS_CardinalityType

LEMMA AboveIsLow ==
    ASSUME WalkReachesTop, NEW u, NEW p \in Proc, Acyclic(u)
    PROVE  Cardinality(Above(u, u[p])) <= MaxWalk
<1>1. Above(u, u[p]) \subseteq Proc \ {p}
  BY AboveInProc DEF Acyclic
<1>2. IsFiniteSet(Proc \ {p}) /\ Cardinality(Proc \ {p}) = Cardinality(Proc) - 1
  BY FS_RemoveElement DEF WalkReachesTop
<1>3. Cardinality(Above(u, u[p])) <= Cardinality(Proc \ {p})
  BY <1>1, <1>2, FS_Subset
<1>4. Cardinality(Above(u, u[p])) \in Nat /\ Cardinality(Proc) \in Nat
  BY AboveCounts, FS_CardinalityType DEF WalkReachesTop
<1> QED
  BY <1>2, <1>3, <1>4, LockAssumption DEF WalkReachesTop

LEMMA AboveIsLower ==
    ASSUME IsFiniteSet(Proc), NEW u \in Tree, NEW z \in Proc, Acyclic(u)
    PROVE  Cardinality(Above(u, z)) = Cardinality(Above(u, u[z])) + 1
<1>1. Above(u, z) = Above(u, u[z]) \cup {z} /\ z \notin Above(u, u[z])
  BY AboveStep DEF Acyclic
<1> QED
  BY <1>1, AboveCounts, FS_AddElement

(* A process that stays as it is, when nobody new holds its lock.          *)
LEMMA SameReach ==
    ASSUME NEW q \in Proc,
           at'[q] = at[q], slot'[q] = slot[q], cur'[q] = cur[q], depth'[q] = depth[q], up' = up,
           at[q] \in Asking /\ HeldAbove(q)' => holder'[slot[q]] = holder[slot[q]],
           InReach(q), WaitInv(q)
    PROVE  InReach(q)' /\ WaitInv(q)'
<1>1. InReach(q)'
  BY DEF InReach
<1>2. ASSUME at[q] = "setlkw", HeldAbove(q)' PROVE HeldAbove(q)
  BY <1>2 DEF HeldAbove, Asking
<1> QED
  BY <1>1, <1>2 DEF WaitInv

LEMMA TakesLockReach ==
    ASSUME LockInv, ReachInv, NEW p \in Proc, at[p] \in {"setlk", "setlkw"},
           holder' = [holder EXCEPT ![slot[p]] = p], at' = [at EXCEPT ![p] = "held"],
           UNCHANGED <<slot, up, who, cur, depth, reentrant>>
    PROVE  ReachInv'
<1>0. at'[p] = "held" /\ \A q \in Proc \ {p} : at'[q] = at[q]
  BY DEF LockInv, LockTypeOK
<1>1. ASSUME NEW q \in Proc PROVE InReach(q)' /\ WaitInv(q)'
  <2>0. InReach(q) /\ WaitInv(q)
    BY DEF ReachInv
  <2>1. CASE q = p
    BY <1>0, <2>0, <2>1 DEF InReach, WaitInv
  <2>2. CASE q # p
    <3>1. at[q] \in Asking /\ HeldAbove(q)' => holder'[slot[q]] = holder[slot[q]]
      BY TakenIsNotAbove
    <3> QED
      BY <1>0, <2>0, <2>2, <3>1, SameReach
  <2> QED
    BY <2>1, <2>2
<1> QED
  BY <1>1 DEF ReachInv

LEMMA OneMovesReach ==
    ASSUME ReachInv, NEW p \in Proc,
           \A q \in Proc \ {p} : at'[q] = at[q] /\ cur'[q] = cur[q] /\ depth'[q] = depth[q],
           UNCHANGED <<holder, slot, up>>, InReach(p)', WaitInv(p)'
    PROVE  ReachInv'
<1>1. ASSUME NEW q \in Proc, q # p PROVE InReach(q)' /\ WaitInv(q)'
  <2>1. InReach(q) /\ WaitInv(q)
    BY DEF ReachInv
  <2> QED
    BY <1>1, <2>1, SameReach
<1> QED
  BY <1>1 DEF ReachInv

LEMMA SetLkReach == ASSUME LockInv, ReachInv, NEW p \in Proc, SetLk(p) PROVE ReachInv'
<1>1. CASE holder[slot[p]] = Nobody
  BY <1>1, TakesLockReach DEF SetLk
<1>2. CASE holder[slot[p]] # Nobody
  <2>0. /\ at[p] = "setlk" /\ at'[p] = "getlk" /\ \A q \in Proc \ {p} : at'[q] = at[q]
        /\ UNCHANGED <<holder, slot, up, who, cur, depth, reentrant>> /\ InReach(p)
    BY <1>2 DEF SetLk, LockInv, LockTypeOK, ReachInv
  <2>1. InReach(p)' /\ WaitInv(p)'
    BY <2>0 DEF InReach, WaitInv
  <2> QED
    BY <2>0, <2>1, OneMovesReach
<1> QED
  BY <1>1, <1>2

LEMMA SetLkWReach == ASSUME LockInv, ReachInv, NEW p \in Proc, SetLkW(p) PROVE ReachInv'
BY TakesLockReach DEF SetLkW

LEMMA GetLkReach ==
    ASSUME WalkReachesTop, LockInv, ReachInv, NEW p \in Proc, GetLk(p) PROVE ReachInv'
<1>0. /\ at[p] = "getlk" /\ InReach(p) /\ Acyclic(up)
      /\ UNCHANGED <<holder, slot, up, depth, reentrant>>
  BY DEF GetLk, ReachInv, LockInv, TreeInv
<1>1. CASE holder[slot[p]] = Nobody
  <2>0. /\ at'[p] = "setlkw" /\ UNCHANGED cur
        /\ \A q \in Proc \ {p} : at'[q] = at[q]
    BY <1>1 DEF GetLk, LockInv, LockTypeOK
  <2>1. WaitInv(p)'
    BY <1>0, <1>1, AboveInProc, LockAssumption DEF WaitInv, HeldAbove
  <2>2. InReach(p)'
    BY <1>0, <2>0 DEF InReach
  <2> QED
    BY <1>0, <2>0, <2>1, <2>2, OneMovesReach
<1>2. CASE holder[slot[p]] # Nobody
  <2>0. /\ at'[p] = "walk" /\ cur'[p] = up[p]
        /\ \A q \in Proc \ {p} : at'[q] = at[q] /\ cur'[q] = cur[q]
    BY <1>2 DEF GetLk, LockInv, LockTypeOK
  <2>1. depth[p] = 0 /\ Cardinality(Above(up, up[p])) <= MaxWalk
    BY <1>0, AboveIsLow DEF InReach
  <2>2. Cardinality(Above(up, up[p])) \in Nat
    BY AboveCounts DEF WalkReachesTop
  <2>3. InReach(p)'
    BY <1>0, <2>0, <2>1, <2>2 DEF InReach
  <2>4. WaitInv(p)'
    BY <2>0 DEF WaitInv
  <2> QED
    BY <1>0, <2>0, <2>3, <2>4, OneMovesReach
<1> QED
  BY <1>1, <1>2

(* The walk gives up where the holder is not above, or not any more.       *)
LEMMA WalkReach ==
    ASSUME WalkReachesTop, LockInv, ReachInv, NEW p \in Proc, Walk(p) PROVE ReachInv'
<1>0. /\ at[p] = "walk" /\ InReach(p) /\ WalkInv(p) /\ up \in Tree /\ Acyclic(up)
      /\ UNCHANGED <<holder, slot, up, reentrant>> /\ cur[p] \in Proc \cup {Root}
      /\ depth[p] \in Nat
  BY DEF Walk, ReachInv, LockInv, LockTypeOK, TreeInv
<1>1. ASSUME NEW label \in {"setlkw", "refused"}, WalkEnds(p, label),
             label = "setlkw" => ~HeldAbove(p)
      PROVE  ReachInv'
  <2>1. /\ at'[p] = label /\ depth'[p] = 0
        /\ \A q \in Proc \ {p} : at'[q] = at[q] /\ cur'[q] = cur[q] /\ depth'[q] = depth[q]
    BY <1>1 DEF WalkEnds, LockInv, LockTypeOK
  <2>2. InReach(p)'
    BY <2>1 DEF InReach
  <2>3. WaitInv(p)'
    BY <1>0, <1>1, <2>1 DEF WaitInv, HeldAbove
  <2> QED
    BY <1>0, <2>1, <2>2, <2>3, OneMovesReach
<1>2. ASSUME HeldAbove(p) PROVE cur[p] # Root /\ at[cur[p]] = "setup" /\ depth[p] < MaxWalk
  <2>1. cur[p] \in Above(up, up[p])
    BY <1>0, <1>2 DEF WalkInv
  <2>2. cur[p] \in Proc /\ at[cur[p]] = "setup"
    BY <2>1, ParentsRun
  <2>3. Cardinality(Above(up, cur[p])) = Cardinality(Above(up, up[cur[p]])) + 1
    BY <1>0, <2>2, AboveIsLower DEF WalkReachesTop
  <2>4. Cardinality(Above(up, up[cur[p]])) \in Nat
    BY AboveCounts DEF WalkReachesTop
  <2>5. depth[p] + Cardinality(Above(up, cur[p])) <= MaxWalk
    BY <1>0 DEF InReach
  <2>6. depth[p] < MaxWalk
    BY <1>0, <2>3, <2>4, <2>5, LockAssumption
  <2> QED
    BY <2>2, <2>6, LockAssumption
<1>3. CASE WalkEnds(p, "refused")
  BY <1>1, <1>3
<1>4. CASE WalkEnds(p, "setlkw") /\ ~WalkEnds(p, "refused")
  <2>1. depth[p] >= MaxWalk \/ cur[p] = Root \/ at[cur[p]] = "idle"
    BY <1>4 DEF Walk, WalkEnds
  <2>2. ~HeldAbove(p)
    BY <1>0, <1>2, <2>1, LockAssumption
  <2> QED
    BY <1>1, <1>4, <2>2
<1>5. CASE ~WalkEnds(p, "setlkw") /\ ~WalkEnds(p, "refused")
  <2>0. /\ cur[p] # Root /\ cur' = [cur EXCEPT ![p] = up[cur[p]]]
        /\ depth' = [depth EXCEPT ![p] = @ + 1] /\ UNCHANGED <<at, who>>
    BY <1>5 DEF Walk
  <2>1. /\ cur'[p] = up[cur[p]] /\ depth'[p] = depth[p] + 1
        /\ \A q \in Proc \ {p} : at'[q] = at[q] /\ cur'[q] = cur[q] /\ depth'[q] = depth[q]
    BY <2>0 DEF LockInv, LockTypeOK
  <2>2. Cardinality(Above(up, cur[p])) = Cardinality(Above(up, up[cur[p]])) + 1
    BY <1>0, <2>0, AboveIsLower DEF WalkReachesTop
  <2>3. Cardinality(Above(up, up[cur[p]])) \in Nat
    BY AboveCounts DEF WalkReachesTop
  <2>4. depth[p] + Cardinality(Above(up, cur[p])) <= MaxWalk
    BY <1>0 DEF InReach
  <2>5. depth'[p] + Cardinality(Above(up, up[cur[p]])) <= MaxWalk
    BY <1>0, <2>1, <2>2, <2>3, <2>4, LockAssumption
  <2>6. InReach(p)'
    BY <1>0, <2>0, <2>1, <2>5 DEF InReach
  <2>7. WaitInv(p)'
    BY <1>0, <2>0 DEF WaitInv
  <2> QED
    BY <1>0, <2>1, <2>6, <2>7, OneMovesReach
<1> QED
  BY <1>3, <1>4, <1>5

LEMMA BeginSetupReach == ASSUME LockInv, ReachInv, NEW p \in Proc, BeginSetup(p) PROVE ReachInv'
<1>0. /\ at[p] = "held" /\ at'[p] = "setup" /\ \A q \in Proc \ {p} : at'[q] = at[q]
      /\ UNCHANGED <<holder, slot, up, who, cur, depth, reentrant>> /\ InReach(p)
  BY DEF BeginSetup, LockInv, LockTypeOK, ReachInv
<1>1. InReach(p)' /\ WaitInv(p)'
  BY <1>0 DEF InReach, WaitInv
<1> QED
  BY <1>0, <1>1, OneMovesReach

LEMMA BeginReach ==
    ASSUME LockInv, ReachInv, ~Recycling, NEW p \in Proc, NEW s \in Slot,
           NEW par \in Proc \cup {Root}, par # Root => at[par] = "setup", Begin(p, s, par)
    PROVE  ReachInv'
<1>0. /\ at[p] = "idle" /\ at'[p] = "setlk" /\ up \in Tree /\ depth' = depth
      /\ \A q \in Proc \ {p} :
            /\ at'[q] = at[q] /\ slot'[q] = slot[q] /\ up'[q] = up[q]
            /\ at[q] = "walk" => p # cur[q]
      /\ UNCHANGED <<holder, cur>>
      /\ \A q \in Proc : up[q] # p
  BY BeginChanges
<1>1. \A z \in Proc \cup {Root} : z # p => Above(up', z) = Above(up, z)
  BY BeginChanges
<1>2. ASSUME NEW q \in Proc PROVE InReach(q)' /\ WaitInv(q)'
  <2>0. InReach(q) /\ WaitInv(q) /\ cur[q] \in Proc \cup {Root} /\ up[q] \in Proc \cup {Root}
    BY <1>0 DEF ReachInv, LockInv, LockTypeOK, Tree
  <2>1. CASE q = p
    BY <1>0, <2>0, <2>1 DEF InReach, WaitInv
  <2>2. CASE q # p
    <3>1. at[q] = "walk" => Above(up', cur[q]) = Above(up, cur[q])
      BY <1>0, <1>1, <2>0, <2>2
    <3>2. HeldAbove(q)' <=> HeldAbove(q)
      BY <1>0, <1>1, <2>0, <2>2 DEF HeldAbove
    <3>3. InReach(q)'
      BY <1>0, <2>0, <2>2, <3>1 DEF InReach
    <3>4. WaitInv(q)'
      BY <1>0, <2>0, <2>2, <3>2 DEF WaitInv
    <3> QED
      BY <3>3, <3>4
  <2> QED
    BY <2>1, <2>2
<1> QED
  BY <1>2 DEF ReachInv

LEMMA LaunchReach == ASSUME LockInv, ReachInv, ~Recycling, NEW p \in Proc, Launch(p) PROVE ReachInv'
<1>1. PICK s \in Tops : Begin(p, s, Root)
  BY DEF Launch
<1> QED
  BY <1>1, BeginReach, LockAssumption

LEMMA NestReach == ASSUME LockInv, ReachInv, ~Recycling, NEW p \in Proc, Nest(p) PROVE ReachInv'
<1>1. PICK q \in Proc, s \in Slot : at[q] = "setup" /\ Begin(p, s, q)
  BY DEF Nest
<1> QED
  BY <1>1, BeginReach

LEMMA ExitReach ==
    ASSUME IsFiniteSet(Proc), LockInv, ReachInv, NEW p \in Proc, Exit(p) PROVE ReachInv'
<1>0. up \in Tree /\ up' \in Tree /\ Pruned(up, up')
  BY ExitChanges DEF LockInv, LockTypeOK
<1>1. ASSUME NEW q \in Proc PROVE InReach(q)' /\ WaitInv(q)'
  <2>0. InReach(q) /\ WaitInv(q) /\ depth[q] \in Nat
    BY DEF ReachInv, LockInv, LockTypeOK
  <2>1. CASE q = p
    <3>1. depth'[p] = 0
      BY DEF Exit, LockInv, LockTypeOK
    <3> QED
      BY <2>1, <3>1, ExitChanges DEF InReach, WaitInv
  <2>2. CASE q # p
    <3>0. /\ at'[q] = at[q] /\ slot'[q] = slot[q] /\ cur'[q] = cur[q] /\ depth'[q] = depth[q]
      BY <2>2, ExitChanges
    <3>1. Above(up', cur[q]) \subseteq Above(up, cur[q])
      BY <1>0, AbovePruned
    <3>2. Cardinality(Above(up', cur[q])) <= Cardinality(Above(up, cur[q]))
      BY <3>1, AboveCounts, FS_Subset
    <3>3. Cardinality(Above(up', cur[q])) \in Nat /\ Cardinality(Above(up, cur[q])) \in Nat
      BY AboveCounts
    <3>4. InReach(q)'
      BY <2>0, <3>0, <3>2, <3>3, LockAssumption DEF InReach
    <3>5. WaitInv(q)'
      BY <2>0, <2>2, <3>0, ExitKeepsAbove DEF WaitInv, Asking
    <3> QED
      BY <3>4, <3>5
  <2> QED
    BY <2>1, <2>2
<1> QED
  BY <1>1 DEF ReachInv

LEMMA ReachInvInit == Init => ReachInv
BY DEF Init, ReachInv, InReach, WaitInv

LEMMA ReachInvStutters == ReachInv /\ UNCHANGED vars => ReachInv'
<1> SUFFICES ASSUME ReachInv, UNCHANGED vars PROVE ReachInv'
  OBVIOUS
<1>1. ASSUME NEW q \in Proc PROVE InReach(q)' /\ WaitInv(q)'
  BY SameReach DEF ReachInv, vars
<1> QED
  BY <1>1 DEF ReachInv

LEMMA ReachInvNext ==
    WalkReachesTop /\ ~Recycling /\ LockInv /\ ReachInv /\ [Next]_vars => ReachInv'
<1> SUFFICES ASSUME WalkReachesTop, ~Recycling, LockInv, ReachInv, [Next]_vars PROVE ReachInv'
  OBVIOUS
<1>0. IsFiniteSet(Proc)
  BY DEF WalkReachesTop
<1>1. ASSUME NEW p \in Proc, Launch(p) \/ Nest(p) PROVE ReachInv'
  BY <1>1, LaunchReach, NestReach
<1>2. ASSUME NEW p \in Proc, Step(p) PROVE ReachInv'
  BY <1>0, <1>2, SetLkReach, GetLkReach, WalkReach, SetLkWReach, BeginSetupReach, ExitReach
     DEF Step, End
<1>3. ASSUME NEW p \in Proc, Killed(p) PROVE ReachInv'
  BY <1>0, <1>3, ExitReach DEF Killed
<1>4. CASE UNCHANGED vars
  BY <1>4, ReachInvStutters
<1> QED
  BY <1>1, <1>2, <1>3, <1>4 DEF Next

(* Nobody blocks on a lock that one of its ancestors holds                 *)
(* (held_by_ancestor()), whoever dies while the walk is under way, as long *)
(* as the walk is not cut short and no id it stands on is used again.      *)
THEOREM NobodyWaitsForAncestor ==
    ASSUME WalkReachesTop, ~Recycling
    PROVE  Spec => []NeverWaitsForAncestor
<1>1. LockInv /\ ReachInv /\ [Next]_vars => (LockInv /\ ReachInv)'
  BY LockInvNext, ReachInvNext
<1>2. Init => LockInv /\ ReachInv
  BY LockInvInit, ReachInvInit
<1>3. ReachInv => NeverWaitsForAncestor
  BY AncestryIsAbove DEF ReachInv, WaitInv, HeldAbove, NeverWaitsForAncestor
<1> QED
  BY <1>1, <1>2, <1>3, PTL DEF Spec

-----------------------------------------------------------------------------
(* The refinement of UpdateLock.                                           *)

LockStep == [Promised!ULNext]_(Promised!lockVars)

(* One process changes its phase.                                          *)
LEMMA OnePhase ==
    ASSUME LockTypeOK, NEW p \in Proc, NEW ph,
           \A q \in Proc \ {p} : at'[q] = at[q], PhaseOf(p)' = ph
    PROVE  [q \in Proc |-> PhaseOf(q)]' = [[q \in Proc |-> PhaseOf(q)] EXCEPT ![p] = ph]
<1>1. \A q \in Proc \ {p} : PhaseOf(q)' = PhaseOf(q)
  BY DEF PhaseOf
<1> HIDE DEF PhaseOf
<1> QED
  BY <1>1

LEMMA NoPhase ==
    ASSUME LockTypeOK, NEW p \in Proc, \A q \in Proc \ {p} : at'[q] = at[q],
           PhaseOf(p)' = PhaseOf(p), UNCHANGED <<holder, reentrant>>
    PROVE  LockStep
<1>1. \A q \in Proc : PhaseOf(q)' = PhaseOf(q)
  BY DEF PhaseOf
<1>2. [q \in Proc |-> PhaseOf(q)]' = [q \in Proc |-> PhaseOf(q)]
  <2> HIDE DEF PhaseOf
  <2> QED
    BY <1>1
<1> QED
  BY <1>2 DEF LockStep, Promised!lockVars

LEMMA GrantsLock ==
    ASSUME LockInv, NEW p \in Proc, at[p] \in {"setlk", "setlkw"}, holder[slot[p]] = Nobody,
           holder' = [holder EXCEPT ![slot[p]] = p], at' = [at EXCEPT ![p] = "held"],
           UNCHANGED reentrant
    PROVE  LockStep
<1>1. slot[p] \in Slot /\ at'[p] = "held" /\ \A q \in Proc \ {p} : at'[q] = at[q]
  BY DEF LockInv, LockTypeOK
<1>2. PhaseOf(p) = "asking" /\ PhaseOf(p)' = "in"
  BY <1>1 DEF PhaseOf, Asking
<1>3. [q \in Proc |-> PhaseOf(q)]' = [[q \in Proc |-> PhaseOf(q)] EXCEPT ![p] = "in"]
  BY <1>1, <1>2, OnePhase DEF LockInv
<1> HIDE DEF PhaseOf
<1>4. Promised!Grant(p)
  BY <1>1, <1>2, <1>3 DEF Promised!Grant
<1> QED
  BY <1>4 DEF LockStep, Promised!ULNext

LEMMA AsksForLock ==
    ASSUME LockInv, NEW p \in Proc, NEW s \in Slot, NEW par, Begin(p, s, par)
    PROVE  LockStep
<1>1. /\ at[p] = "idle" /\ at'[p] = "setlk" /\ \A q \in Proc \ {p} : at'[q] = at[q]
      /\ UNCHANGED holder
  BY DEF Begin, LockInv, LockTypeOK
<1>2. PhaseOf(p) = "out" /\ PhaseOf(p)' = "asking"
  BY <1>1 DEF PhaseOf, Asking
<1>3. [q \in Proc |-> PhaseOf(q)]' = [[q \in Proc |-> PhaseOf(q)] EXCEPT ![p] = "asking"]
  BY <1>1, <1>2, OnePhase DEF LockInv
<1>4. \E r \in BOOLEAN : reentrant' = [reentrant EXCEPT ![p] = r]
  <2>1. (holder[s] \in Ancestry(par)) \in BOOLEAN
    OBVIOUS
  <2> QED
    BY <2>1 DEF Begin
<1> HIDE DEF PhaseOf
<1>5. Promised!Ask(p)
  BY <1>1, <1>2, <1>3, <1>4 DEF Promised!Ask
<1> QED
  BY <1>5 DEF LockStep, Promised!ULNext

(* Only a process below the holder at its start is refused.                *)
LEMMA RefusesReentry ==
    ASSUME LockInv, NEW p \in Proc, Walk(p), WalkEnds(p, "refused")
    PROVE  LockStep
<1>1. /\ at[p] = "walk" /\ at'[p] = "refused" /\ \A q \in Proc \ {p} : at'[q] = at[q]
      /\ UNCHANGED <<holder, reentrant>>
  BY DEF Walk, WalkEnds, LockInv, LockTypeOK
<1>2. cur[p] # Root /\ cur[p] = who[p] /\ cur[p] \in Proc
  BY DEF Walk, WalkEnds, LockInv, LockTypeOK
<1>3. reentrant[p]
  BY <1>1, <1>2, AboveSelf DEF LockInv, WalkInv
<1>4. PhaseOf(p) = "asking" /\ PhaseOf(p)' = "refused"
  BY <1>1 DEF PhaseOf, Asking
<1>5. [q \in Proc |-> PhaseOf(q)]' = [[q \in Proc |-> PhaseOf(q)] EXCEPT ![p] = "refused"]
  BY <1>1, <1>4, OnePhase DEF LockInv
<1> HIDE DEF PhaseOf
<1>6. Promised!Refuse(p)
  BY <1>1, <1>3, <1>4, <1>5 DEF Promised!Refuse
<1> QED
  BY <1>6 DEF LockStep, Promised!ULNext

LEMMA DropsLock == ASSUME LockInv, NEW p \in Proc, at[p] # "idle", Exit(p) PROVE LockStep
<1>1. at'[p] = "idle" /\ \A q \in Proc \ {p} : at'[q] = at[q]
  BY ExitChanges
<1>2. PhaseOf(p) # "out" /\ PhaseOf(p)' = "out"
  BY <1>1 DEF PhaseOf, Asking, LockInv, LockTypeOK, At
<1>3. [q \in Proc |-> PhaseOf(q)]' = [[q \in Proc |-> PhaseOf(q)] EXCEPT ![p] = "out"]
  BY <1>1, <1>2, OnePhase DEF LockInv
<1> HIDE DEF PhaseOf
<1>4. Promised!Drop(p)
  BY <1>2, <1>3 DEF Promised!Drop, Exit
<1> QED
  BY <1>4 DEF LockStep, Promised!ULNext

LEMMA StepKeepsPromise == ASSUME LockInv, NEW p \in Proc, Step(p) PROVE LockStep
<1>1. CASE SetLk(p)
  <2>1. CASE holder[slot[p]] = Nobody
    BY <1>1, <2>1, GrantsLock DEF SetLk
  <2>2. CASE holder[slot[p]] # Nobody
    <3>1. /\ at[p] = "setlk" /\ at'[p] = "getlk" /\ \A q \in Proc \ {p} : at'[q] = at[q]
          /\ UNCHANGED <<holder, reentrant>>
      BY <1>1, <2>2 DEF SetLk, LockInv, LockTypeOK
    <3>2. PhaseOf(p)' = PhaseOf(p)
      BY <3>1 DEF PhaseOf, Asking
    <3> QED
      BY <3>1, <3>2, NoPhase DEF LockInv
  <2> QED
    BY <2>1, <2>2
<1>2. CASE GetLk(p)
  <2>1. /\ at[p] = "getlk" /\ at'[p] \in {"setlkw", "walk"}
        /\ \A q \in Proc \ {p} : at'[q] = at[q]
        /\ UNCHANGED <<holder, reentrant>>
    BY <1>2 DEF GetLk, LockInv, LockTypeOK
  <2>2. PhaseOf(p)' = PhaseOf(p)
    BY <2>1 DEF PhaseOf, Asking
  <2> QED
    BY <2>1, <2>2, NoPhase DEF LockInv
<1>3. CASE Walk(p) /\ ~WalkEnds(p, "refused")
  <2>1. /\ at[p] = "walk" /\ at'[p] \in {"setlkw", "walk"}
        /\ \A q \in Proc \ {p} : at'[q] = at[q]
        /\ UNCHANGED <<holder, reentrant>>
    BY <1>3 DEF Walk, WalkEnds, LockInv, LockTypeOK
  <2>2. PhaseOf(p)' = PhaseOf(p)
    BY <2>1 DEF PhaseOf, Asking
  <2> QED
    BY <2>1, <2>2, NoPhase DEF LockInv
<1>4. CASE Walk(p) /\ WalkEnds(p, "refused")
  BY <1>4, RefusesReentry
<1>5. CASE SetLkW(p)
  BY <1>5, GrantsLock DEF SetLkW
<1>6. CASE BeginSetup(p)
  <2>1. /\ at[p] = "held" /\ at'[p] = "setup" /\ \A q \in Proc \ {p} : at'[q] = at[q]
        /\ UNCHANGED <<holder, reentrant>>
    BY <1>6 DEF BeginSetup, LockInv, LockTypeOK
  <2>2. PhaseOf(p)' = PhaseOf(p)
    BY <2>1 DEF PhaseOf, Asking
  <2> QED
    BY <2>1, <2>2, NoPhase DEF LockInv
<1>7. CASE End(p)
  BY <1>7, DropsLock DEF End
<1> QED
  BY <1>1, <1>2, <1>3, <1>4, <1>5, <1>6, <1>7 DEF Step

LEMMA NextKeepsPromise == LockInv /\ [Next]_vars => LockStep
<1> SUFFICES ASSUME LockInv, [Next]_vars PROVE LockStep
  OBVIOUS
<1>1. ASSUME NEW p \in Proc, Launch(p) \/ Nest(p) PROVE LockStep
  <2>1. PICK s \in Slot, par \in Proc \cup {Root} : Begin(p, s, par)
    BY <1>1, LockAssumption DEF Launch, Nest
  <2> QED
    BY <2>1, AsksForLock
<1>2. ASSUME NEW p \in Proc, Killed(p) PROVE LockStep
  BY <1>2, DropsLock DEF Killed
<1>3. CASE UNCHANGED vars
  <2>1. \A q \in Proc : PhaseOf(q)' = PhaseOf(q)
    BY <1>3 DEF vars, PhaseOf
  <2>2. [q \in Proc |-> PhaseOf(q)]' = [q \in Proc |-> PhaseOf(q)]
    <3> HIDE DEF PhaseOf
    <3> QED
      BY <2>1
  <2> QED
    BY <1>3, <2>2 DEF vars, LockStep, Promised!lockVars
<1> QED
  BY <1>1, <1>2, <1>3, StepKeepsPromise DEF Next

LEMMA InitKeepsPromise == Init => Promised!ULInit
<1> SUFFICES ASSUME Init PROVE Promised!ULInit
  OBVIOUS
<1>1. ASSUME NEW q \in Proc PROVE PhaseOf(q) = "out"
  <2>1. at[q] = "idle"
    BY DEF Init
  <2> QED
    BY <2>1 DEF PhaseOf, Asking
<1>2. [q \in Proc |-> PhaseOf(q)] = [q \in Proc |-> "out"]
  <2> HIDE DEF PhaseOf
  <2> QED
    BY <1>1
<1> QED
  BY <1>2 DEF Init, Promised!ULInit

(* hm_cache_lock() implements the abstract update lock: one holder per     *)
(* slot, and only who was started below the holder is refused.             *)
THEOREM LockImplementsPromise == ASSUME ~Recycling PROVE Spec => KeepsPromise
<1>1. LockInv /\ [Next]_vars => [Promised!ULNext]_(Promised!lockVars)
  BY NextKeepsPromise DEF LockStep
<1>2. Spec => []LockInv
  BY AlwaysLockInv
<1> QED
  BY <1>1, <1>2, InitKeepsPromise, PTL DEF Spec, KeepsPromise, Promised!ULSpec

-----------------------------------------------------------------------------
(* No deadlock.  The walk of is_ancestor() only sees the waiter's own      *)
(* tree; two trees may still wait for each other, as the run that enters a *)
(* cycle of projects at two of them shows.  That is the only way: where    *)
(* setups call each other in an order, somebody can always go on.          *)

(* Each setup runs its own project or one further down.                    *)
Ordered(rank) ==
    /\ rank \in [Slot -> Nat]
    /\ \A c \in Calls : c[1] = c[2] \/ rank[c[2]] < rank[c[1]]

(* hacman is between two calls, its setup runs no hacman and ends, or the  *)
(* lock it waits for is free.                                              *)
CanGo(p) ==
    \/ at[p] \in {"setlk", "getlk", "walk", "held", "refused"}
    \/ at[p] = "setup" /\ \A q \in Proc : up[q] # p
    \/ at[p] = "setlkw" /\ holder[slot[p]] = Nobody

SomeoneCanGo == (\E p \in Proc : at[p] # "idle") => \E p \in Proc : CanGo(p)

(* Who is past hm_cache_lock() has its lock, and who was started by a      *)
(* setup is about a project that the setup may run.                        *)
CallsInv ==
    \A p \in Proc :
        /\ at[p] \in {"held", "setup"} => holder[slot[p]] = p
        /\ up[p] # Root => at[p] # "idle" /\ <<slot[up[p]], slot[p]>> \in Calls

LEMMA TakesLockCalls ==
    ASSUME LockInv, CallsInv, NEW p \in Proc, at[p] \in {"setlk", "setlkw"},
           holder[slot[p]] = Nobody, holder' = [holder EXCEPT ![slot[p]] = p],
           at' = [at EXCEPT ![p] = "held"], UNCHANGED <<slot, up>>
    PROVE  CallsInv'
<1>1. slot[p] \in Slot /\ holder'[slot[p]] = p /\ at'[p] = "held"
  BY DEF LockInv, LockTypeOK
<1>2. ASSUME NEW q \in Proc, q # p, at[q] \in {"held", "setup"} PROVE holder'[slot[q]] = q
  <2>1. holder[slot[q]] = q
    BY <1>2 DEF CallsInv
  <2>2. slot[q] # slot[p] /\ slot[q] \in Slot
    BY <1>2, <2>1, LockAssumption DEF LockInv, LockTypeOK
  <2> QED
    BY <2>1, <2>2 DEF LockInv, LockTypeOK
<1>3. \A q \in Proc : q # p => at'[q] = at[q]
  BY DEF LockInv, LockTypeOK
<1> QED
  BY <1>1, <1>2, <1>3 DEF CallsInv

(* A step on the way to the lock, or from the lock to the setup.           *)
LEMMA GoesOnCalls ==
    ASSUME LockInv, CallsInv, NEW p \in Proc, NEW label \in At,
           at[p] # "idle", label # "idle", label \in {"held", "setup"} => at[p] = "held",
           at' = [at EXCEPT ![p] = label], UNCHANGED <<holder, slot, up>>
    PROVE  CallsInv'
<1>1. \A q \in Proc : at'[q] = IF q = p THEN label ELSE at[q]
  BY DEF LockInv, LockTypeOK
<1> QED
  BY <1>1 DEF CallsInv

LEMMA StepCalls ==
    ASSUME LockInv, CallsInv, NEW p \in Proc,
           SetLk(p) \/ GetLk(p) \/ Walk(p) \/ SetLkW(p) \/ BeginSetup(p)
    PROVE  CallsInv'
<1>1. CASE SetLk(p)
  BY <1>1, TakesLockCalls, GoesOnCalls DEF SetLk, At
<1>2. CASE GetLk(p)
  BY <1>2, GoesOnCalls DEF GetLk, At
<1>3. CASE Walk(p)
  <2>1. at' = at /\ UNCHANGED <<holder, slot, up>> => CallsInv'
    BY DEF CallsInv
  <2> QED
    BY <1>3, <2>1, GoesOnCalls DEF Walk, WalkEnds, At
<1>4. CASE SetLkW(p)
  BY <1>4, TakesLockCalls DEF SetLkW
<1>5. CASE BeginSetup(p)
  BY <1>5, GoesOnCalls DEF BeginSetup, At
<1> QED
  BY <1>1, <1>2, <1>3, <1>4, <1>5

LEMMA BeginCalls ==
    ASSUME LockInv, CallsInv, ~Recycling, NEW p \in Proc, NEW s \in Slot,
           NEW par \in Proc \cup {Root},
           par # Root => at[par] = "setup" /\ <<slot[par], s>> \in Calls, Begin(p, s, par)
    PROVE  CallsInv'
<1>1. /\ at[p] = "idle" /\ at'[p] = "setlk" /\ slot'[p] = s /\ up'[p] = par /\ par # p
      /\ \A q \in Proc \ {p} : at'[q] = at[q] /\ slot'[q] = slot[q] /\ up'[q] = up[q]
      /\ holder' = holder /\ \A q \in Proc : up[q] # p
  BY BeginChanges
<1>2. up'[p] # Root => at'[p] # "idle" /\ <<slot'[up'[p]], slot'[p]>> \in Calls
  BY <1>1
<1>3. ASSUME NEW q \in Proc \ {p}, up'[q] # Root
      PROVE  at'[q] # "idle" /\ <<slot'[up'[q]], slot'[q]>> \in Calls
  <2>1. up'[q] = up[q] /\ up[q] \in Proc \ {p}
    BY <1>1, <1>3 DEF LockInv, LockTypeOK, Tree
  <2> QED
    BY <1>1, <1>3, <2>1 DEF CallsInv
<1> QED
  BY <1>1, <1>2, <1>3 DEF CallsInv

LEMMA ExitCalls == ASSUME LockInv, CallsInv, NEW p \in Proc, Exit(p) PROVE CallsInv'
<1>1. /\ at'[p] = "idle"
      /\ \A s \in Slot : holder'[s] = IF holder[s] = p THEN Nobody ELSE holder[s]
      /\ \A q \in Proc : up'[q] = IF q = p \/ up[q] = p THEN Root ELSE up[q]
      /\ \A q \in Proc \ {p} : at'[q] = at[q] /\ slot'[q] = slot[q]
  BY ExitChanges
<1>2. ASSUME NEW q \in Proc, at'[q] \in {"held", "setup"} PROVE holder'[slot'[q]] = q
  <2>1. q # p /\ at'[q] = at[q] /\ slot'[q] = slot[q] /\ slot[q] \in Slot
    BY <1>1, <1>2 DEF LockInv, LockTypeOK
  <2> QED
    BY <1>1, <1>2, <2>1 DEF CallsInv
<1>3. ASSUME NEW q \in Proc, up'[q] # Root
      PROVE  at'[q] # "idle" /\ <<slot'[up'[q]], slot'[q]>> \in Calls
  <2>1. q # p /\ up[q] # p /\ up'[q] = up[q] /\ up[q] \in Proc
    BY <1>1, <1>3 DEF LockInv, LockTypeOK, Tree
  <2> QED
    BY <1>1, <1>3, <2>1 DEF CallsInv
<1> QED
  BY <1>2, <1>3 DEF CallsInv

LEMMA NextCalls == ~Recycling /\ LockInv /\ CallsInv /\ [Next]_vars => CallsInv'
<1> SUFFICES ASSUME ~Recycling, LockInv, CallsInv, [Next]_vars PROVE CallsInv'
  OBVIOUS
<1>1. ASSUME NEW p \in Proc, Launch(p) PROVE CallsInv'
  BY <1>1, BeginCalls, LockAssumption DEF Launch
<1>2. ASSUME NEW p \in Proc, Nest(p) PROVE CallsInv'
  <2>1. PICK q \in Proc, s \in Slot :
              at[q] = "setup" /\ <<slot[q], s>> \in Calls /\ Begin(p, s, q)
    BY <1>2 DEF Nest
  <2> QED
    BY <2>1, BeginCalls
<1>3. ASSUME NEW p \in Proc, Step(p) PROVE CallsInv'
  BY <1>3, StepCalls, ExitCalls DEF Step, End
<1>4. ASSUME NEW p \in Proc, Killed(p) PROVE CallsInv'
  BY <1>4, ExitCalls DEF Killed
<1>5. CASE UNCHANGED vars
  BY <1>5 DEF vars, CallsInv
<1> QED
  BY <1>1, <1>2, <1>3, <1>4, <1>5 DEF Next

(* Of the setups that run, one is about a project furthest down.           *)
LEMMA LowestSetup ==
    ASSUME NEW rank \in [Slot -> Nat], LockTypeOK, NEW h \in Proc, at[h] = "setup"
    PROVE  \E p \in Proc : /\ at[p] = "setup"
                           /\ \A q \in Proc : at[q] = "setup" =>
                                 ~(rank[slot[q]] < rank[slot[p]])
<1> DEFINE R == OpToRel(<, Nat)
           S == {rank[slot[p]] : p \in {p \in Proc : at[p] = "setup"}}
<1>1. S \subseteq Nat /\ S # {}
  BY DEF LockTypeOK
<1>2. \A x, y \in Nat : <<y, x>> \in R <=> y < x
  BY DEF OpToRel
<1>3. IsWellFoundedOn(R, Nat)
  BY NatLessThanWellFounded
<1> HIDE DEF R
<1>4. PICK m \in S : \A k \in S : <<k, m>> \notin R
  <2> HIDE DEF S
  <2> QED
    BY <1>1, <1>3, WFMin
<1>5. PICK p \in Proc : at[p] = "setup" /\ m = rank[slot[p]]
  OBVIOUS
<1>6. ASSUME NEW q \in Proc, at[q] = "setup" PROVE ~(rank[slot[q]] < rank[slot[p]])
  <2>1. rank[slot[q]] \in S
    BY <1>6
  <2>2. rank[slot[q]] \in Nat /\ m \in Nat /\ <<rank[slot[q]], m>> \notin R
    BY <1>1, <1>4, <2>1
  <2> QED
    BY <1>2, <1>5, <2>2, Zenon
<1> QED
  BY <1>5, <1>6

(* If nobody could go on, the setup furthest down would wait for one below *)
(* it: for a tool of its own whose lock is held by no ancestor.            *)
LEMMA OrderedCanGo ==
    ASSUME NEW rank, Ordered(rank), LockInv, ReachInv, CallsInv
    PROVE  SomeoneCanGo
<1> SUFFICES ASSUME NEW p0 \in Proc, at[p0] # "idle", \A p \in Proc : ~CanGo(p)
             PROVE  FALSE
  BY DEF SomeoneCanGo
<1>1. ASSUME NEW p \in Proc, at[p] # "idle"
      PROVE  /\ at[p] \in {"setup", "setlkw"} /\ slot[p] \in Slot
             /\ at[p] = "setlkw" =>
                   /\ holder[slot[p]] \in Proc /\ at[holder[slot[p]]] = "setup"
                   /\ slot[holder[slot[p]]] = slot[p]
             /\ at[p] = "setup" => \E q \in Proc : up[q] = p
  <2>1. at[p] \in {"setup", "setlkw"} /\ slot[p] \in Slot
    BY <1>1 DEF CanGo, LockInv, LockTypeOK, At
  <2>2. at[p] = "setup" => \E q \in Proc : up[q] = p
    BY DEF CanGo
  <2>3. ASSUME at[p] = "setlkw"
        PROVE  /\ holder[slot[p]] \in Proc /\ at[holder[slot[p]]] = "setup"
               /\ slot[holder[slot[p]]] = slot[p]
    <3>1. holder[slot[p]] # Nobody /\ holder[slot[p]] \in Proc
      BY <2>1, <2>3 DEF CanGo, LockInv, LockTypeOK
    <3>2. at[holder[slot[p]]] \in {"held", "setup"} /\ slot[holder[slot[p]]] = slot[p]
      BY <2>1, <3>1 DEF LockInv, HoldersInv
    <3> QED
      BY <3>1, <3>2 DEF CanGo
  <2> QED
    BY <2>1, <2>2, <2>3
<1>2. PICK h \in Proc : at[h] = "setup"
  BY <1>1
<1>3. PICK p \in Proc : /\ at[p] = "setup"
                        /\ \A q \in Proc : at[q] = "setup" => ~(rank[slot[q]] < rank[slot[p]])
  BY <1>2, LowestSetup DEF Ordered, LockInv
<1>4. PICK q \in Proc : up[q] = p
  BY <1>1, <1>3
<1>5. /\ up[q] # Root /\ at[q] # "idle" /\ <<slot[p], slot[q]>> \in Calls
      /\ slot[p] \in Slot /\ slot[q] \in Slot
  BY <1>1, <1>3, <1>4, LockAssumption DEF CallsInv
<1>6. slot[p] = slot[q] \/ rank[slot[q]] < rank[slot[p]]
  BY <1>5 DEF Ordered
<1>7. p # q
  <2>1. q \notin Above(up, up[q])
    BY DEF LockInv, TreeInv, Acyclic
  <2> QED
    BY <1>4, <2>1, AboveSelf
<1>8. CASE at[q] = "setup"
  <2>1. holder[slot[p]] = p /\ holder[slot[q]] = q
    BY <1>3, <1>8 DEF CallsInv
  <2> QED
    BY <1>3, <1>6, <1>7, <1>8, <2>1
<1>9. CASE at[q] = "setlkw"
  <2>1. rank[slot[q]] < rank[slot[p]] => FALSE
    BY <1>1, <1>3, <1>9
  <2>2. holder[slot[p]] = p
    BY <1>3 DEF CallsInv
  <2>3. holder[slot[q]] \notin Above(up, p)
    BY <1>4, <1>9 DEF ReachInv, WaitInv, HeldAbove
  <2> QED
    BY <1>6, <2>1, <2>2, <2>3, AboveSelf
<1> QED
  BY <1>1, <1>5, <1>8, <1>9

(* hm_cache_lock() and the setups that run hacman never all wait for each  *)
(* other, whatever runs at a time and whoever is killed, provided that the *)
(* projects whose setups run each other have an order.                     *)
THEOREM OrderedSetupsNeverDeadlock ==
    ASSUME WalkReachesTop, ~Recycling, \E rank : Ordered(rank)
    PROVE  Spec => []SomeoneCanGo
<1>1. LockInv /\ ReachInv /\ CallsInv /\ [Next]_vars => (LockInv /\ ReachInv /\ CallsInv)'
  BY LockInvNext, ReachInvNext, NextCalls
<1>2. Init => LockInv /\ ReachInv /\ CallsInv
  <2>1. Init => CallsInv
    BY DEF Init, CallsInv
  <2> QED
    BY <2>1, LockInvInit, ReachInvInit
<1>3. LockInv /\ ReachInv /\ CallsInv => SomeoneCanGo
  BY OrderedCanGo
<1> QED
  BY <1>1, <1>2, <1>3, PTL DEF Spec
=============================================================================
