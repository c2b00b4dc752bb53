------------------------- MODULE DiagnosticsProofs -------------------------
(***************************************************************************)
(* What Diagnostics.tla shows is whole, in order and marked, for all texts *)
(* of setups, of curl and of hacman, however long and however they are cut *)
(* into reads, and for any size of the buffers.                            *)
(***************************************************************************)
EXTENDS Diagnostics, SequenceTheorems, TLAPS

-----------------------------------------------------------------------------
(* Texts and what is shown of them.                                        *)

Unit == {"hac", "man:", "text", "nl", "status"}
Shown == [text : Unit, marked : BOOLEAN]

(* A text is a sequence of units, and so are its parts.                    *)
LEMMA TextUnits == Text \subseteq Seq(Unit) /\ StatusText \subseteq Seq(Unit)
<1>1. ASSUME NEW s \in Text PROVE s \in Seq(Unit)
  BY DEF Text, Unit
<1>2. ASSUME NEW s \in StatusText PROVE s \in Seq(Unit)
  BY DEF StatusText, Unit
<1> QED
  BY <1>1, <1>2

(* What is said is as long as what is shown, unit by unit.                 *)
LEMMA SaidUnits ==
  ASSUME NEW a \in Seq(Shown)
  PROVE  /\ Said(a) \in Seq(Unit) /\ Len(Said(a)) = Len(a)
         /\ \A i \in 1..Len(a) : Said(a)[i] = a[i].text
<1>1. DOMAIN a = 1..Len(a) /\ Len(a) \in Nat /\ \A i \in 1..Len(a) : a[i] \in Shown
  OBVIOUS
<1>2. Said(a) = [i \in 1..Len(a) |-> a[i].text] /\ \A i \in 1..Len(a) : a[i].text \in Unit
  BY <1>1 DEF Said, Shown
<1> QED
  BY <1>1, <1>2

(* The elements of a concatenation, of which there are two kinds.          *)
LEMMA ConcatParts ==
  ASSUME NEW S, NEW a \in Seq(S), NEW b \in Seq(S)
  PROVE  /\ a \o b \in Seq(S) /\ Len(a) \in Nat /\ Len(b) \in Nat
         /\ Len(a \o b) = Len(a) + Len(b)
         /\ \A i \in 1..Len(a) : (a \o b)[i] = a[i]
         /\ \A i \in 1..Len(b) : (a \o b)[Len(a) + i] = b[i]
         /\ \A i \in 1..Len(a \o b) :
               i \in 1..Len(a) \/ \E k \in 1..Len(b) : i = Len(a) + k
<1>1. a \o b \in Seq(S) /\ Len(a) \in Nat /\ Len(b) \in Nat /\ Len(a \o b) = Len(a) + Len(b)
  BY ConcatProperties
<1>2. ASSUME NEW i \in 1..Len(a \o b), i \notin 1..Len(a)
      PROVE  \E k \in 1..Len(b) : i = Len(a) + k
  <2>1. i - Len(a) \in 1..Len(b) /\ i = Len(a) + (i - Len(a))
    BY <1>1, <1>2
  <2> QED
    BY <2>1
<1>3. ASSUME NEW i \in 1..Len(a)
      PROVE  (a \o b)[i] = a[i]
  <2>1. i \in 1..Len(a) + Len(b) /\ i <= Len(a)
    BY <1>1
  <2> QED
    BY <2>1, ConcatProperties
<1>4. ASSUME NEW i \in 1..Len(b)
      PROVE  (a \o b)[Len(a) + i] = b[i]
  <2>1. Len(a) + i \in 1..Len(a) + Len(b) /\ ~(Len(a) + i <= Len(a)) /\ (Len(a) + i) - Len(a) = i
    BY <1>1
  <2> QED
    BY <2>1, ConcatProperties
<1> QED
  BY <1>1, <1>2, <1>3, <1>4

(* Showing one after the other says one after the other.                   *)
LEMMA SaidConcat ==
  ASSUME NEW a \in Seq(Shown), NEW b \in Seq(Shown)
  PROVE  Said(a \o b) = Said(a) \o Said(b)
<1>1. PICK c \in Seq(Shown) : c = a \o b
  BY ConcatParts
<1>2. PICK x \in Seq(Unit) : x = Said(a) /\ Len(x) = Len(a) /\ \A i \in 1..Len(a) : x[i] = a[i].text
  BY SaidUnits
<1>3. PICK y \in Seq(Unit) : y = Said(b) /\ Len(y) = Len(b) /\ \A i \in 1..Len(b) : y[i] = b[i].text
  BY SaidUnits
<1>4. PICK z \in Seq(Unit) : z = Said(c) /\ Len(z) = Len(c) /\ \A i \in 1..Len(c) : z[i] = c[i].text
  BY SaidUnits
<1>5. PICK d \in Seq(Unit) : d = x \o y
  BY ConcatParts
<1>6. /\ Len(a) \in Nat /\ Len(b) \in Nat
      /\ Len(c) = Len(a) + Len(b)
      /\ \A i \in 1..Len(a) : c[i] = a[i]
      /\ \A i \in 1..Len(b) : c[Len(a) + i] = b[i]
      /\ \A i \in 1..Len(c) : i \in 1..Len(a) \/ \E k \in 1..Len(b) : i = Len(a) + k
  BY <1>1, ConcatParts
<1>7. /\ Len(d) = Len(a) + Len(b)
      /\ \A i \in 1..Len(a) : d[i] = x[i]
      /\ \A i \in 1..Len(b) : d[Len(a) + i] = y[i]
  <2>1. /\ Len(d) = Len(x) + Len(y)
        /\ \A i \in 1..Len(x) : d[i] = x[i]
        /\ \A i \in 1..Len(y) : d[Len(x) + i] = y[i]
    BY <1>5, ConcatParts
  <2> QED
    BY <1>2, <1>3, <2>1
<1>8. ASSUME NEW i \in 1..Len(c)
      PROVE  z[i] = d[i]
  <2>1. CASE i \in 1..Len(a)
    <3>1. z[i] = a[i].text
      BY <1>4, <1>6, <2>1
    <3>2. d[i] = a[i].text
      BY <1>2, <1>7, <2>1
    <3> QED
      BY <3>1, <3>2
  <2>2. ASSUME NEW k \in 1..Len(b), i = Len(a) + k
        PROVE  z[i] = d[i]
    <3>1. z[i] = b[k].text
      BY <1>4, <1>6, <2>2
    <3>2. d[i] = b[k].text
      BY <1>3, <1>7, <2>2
    <3> QED
      BY <3>1, <3>2
  <2> QED
    BY <1>6, <2>1, <2>2
<1>9. z = d
  BY <1>4, <1>6, <1>7, <1>8, SeqEqual
<1> QED
  BY <1>1, <1>2, <1>3, <1>4, <1>5, <1>9

(* Concatenation is associative.                                           *)
LEMMA Association ==
  \A a, b, c \in Seq(Unit) : (a \o b) \o c = a \o (b \o c)
  BY ConcatAssociative

(* The end of a concatenation is the end of its second part, if any.       *)
LEMMA EndedConcat ==
  ASSUME NEW a \in Seq(Unit), NEW b \in Seq(Unit)
  PROVE  Ended(a \o b) <=> IF b = <<>> THEN Ended(a) ELSE Ended(b)
<1>1. CASE b = <<>>
  BY <1>1, ConcatEmptySeq
<1>2. CASE b # <<>>
  <2>1. Len(b) > 0 /\ Len(a \o b) = Len(a) + Len(b) /\ Len(a) \in Nat /\ Len(b) \in Nat
    BY <1>2, ConcatProperties, EmptySeq
  <2>2. (a \o b)[Len(a \o b)] = b[Len(b)]
    BY <2>1, ConcatProperties
  <2>3. a \o b # <<>>
    BY <2>1, EmptySeq
  <2> QED
    BY <1>2, <2>2, <2>3 DEF Ended
<1> QED
  BY <1>1, <1>2

(* Units shown as they are say themselves.                                 *)
LEMMA PlainShows ==
  ASSUME NEW s \in Seq(Unit)
  PROVE  Plain(s) \in Seq(Shown) /\ Len(Plain(s)) = Len(s) /\ Said(Plain(s)) = s
<1>1. Plain(s) = [i \in 1..Len(s) |-> [text |-> s[i], marked |-> FALSE]] /\ Len(s) \in Nat
  BY DEF Plain
<1>2. \A i \in 1..Len(s) : [text |-> s[i], marked |-> FALSE] \in Shown
  BY DEF Shown
<1>3. Plain(s) \in Seq(Shown) /\ Len(Plain(s)) = Len(s)
  BY <1>1, <1>2
<1>4. \A i \in 1..Len(s) : Said(Plain(s))[i] = s[i]
  <2>1. \A i \in 1..Len(s) : Plain(s)[i].text = s[i]
    BY <1>1
  <2> QED
    BY <1>3, <2>1, SaidUnits
<1>5. Said(Plain(s)) \in Seq(Unit) /\ Len(Said(Plain(s))) = Len(s)
  BY <1>3, SaidUnits
<1> QED
  BY <1>3, <1>4, <1>5, SeqEqual

-----------------------------------------------------------------------------
(* The lines of the terminal.                                              *)

(* What is added to a terminal keeps its lines marked if every line that   *)
(* it starts is marked.                                                    *)
LineStart(shown, add, i) == IF i = 1 THEN Ended(Said(shown)) ELSE add[i - 1].text = "nl"
AddsMarked(shown, add) ==
    \A i \in 1..Len(add) :
        IF LineStart(shown, add, i)
        THEN \/ add[i].marked
             \/ OwnMark(Said(add), i)
             \/ outFd = 1 /\ add[i].text = "status"
        ELSE ~add[i].marked

LEMMA LinesConcat ==
  ASSUME NEW a \in Seq(Shown), NEW b \in Seq(Shown), LinesAreMarked(a), AddsMarked(a, b)
  PROVE  LinesAreMarked(a \o b)
<1>1. PICK c \in Seq(Shown) : c = a \o b
  BY ConcatParts
<1>2. /\ Len(a) \in Nat /\ Len(b) \in Nat
      /\ Len(c) = Len(a) + Len(b)
      /\ \A i \in 1..Len(a) : c[i] = a[i]
      /\ \A i \in 1..Len(b) : c[Len(a) + i] = b[i]
      /\ \A i \in 1..Len(c) : i \in 1..Len(a) \/ \E k \in 1..Len(b) : i = Len(a) + k
  BY <1>1, ConcatParts
<1>3. PICK x \in Seq(Unit) : x = Said(a) /\ Len(x) = Len(a) /\ \A i \in 1..Len(a) : x[i] = a[i].text
  BY SaidUnits
<1>4. PICK y \in Seq(Unit) : y = Said(b) /\ Len(y) = Len(b) /\ \A i \in 1..Len(b) : y[i] = b[i].text
  BY SaidUnits
<1>5. PICK z \in Seq(Unit) : z = Said(c) /\ Len(z) = Len(c) /\ \A i \in 1..Len(c) : z[i] = c[i].text
  BY SaidUnits
<1>6. ASSUME NEW i \in 1..Len(a)
      PROVE  IF i = 1 \/ c[i - 1].text = "nl"
             THEN c[i].marked \/ OwnMark(z, i) \/ (outFd = 1 /\ c[i].text = "status")
             ELSE ~c[i].marked
  <2>1. c[i] = a[i] /\ (i # 1 => c[i - 1] = a[i - 1])
    BY <1>2
  <2>2. OwnMark(x, i) => OwnMark(z, i)
    <3>1. SUFFICES ASSUME i < Len(x), x[i] = Mark[1], x[i + 1] = Mark[2]
                   PROVE  OwnMark(z, i)
      BY DEF OwnMark
    <3>2. i + 1 \in 1..Len(a) /\ i + 1 \in 1..Len(c) /\ i \in 1..Len(c) /\ i < Len(c)
      BY <1>2, <1>3, <3>1
    <3>3. \A k \in 1..Len(a) : k \in 1..Len(c) => z[k] = x[k]
      BY <1>2, <1>3, <1>5
    <3> QED
      BY <1>5, <3>1, <3>2, <3>3 DEF OwnMark
  <2>3. IF i = 1 \/ a[i - 1].text = "nl"
        THEN a[i].marked \/ OwnMark(x, i) \/ (outFd = 1 /\ a[i].text = "status")
        ELSE ~a[i].marked
    <3>1. i \in DOMAIN a
      OBVIOUS
    <3> QED
      BY <1>3, <3>1 DEF LinesAreMarked
  <2> QED
    BY <2>1, <2>2, <2>3
<1>7. ASSUME NEW j \in 1..Len(b)
      PROVE  IF Len(a) + j = 1 \/ c[Len(a) + j - 1].text = "nl"
             THEN \/ c[Len(a) + j].marked
                  \/ OwnMark(z, Len(a) + j)
                  \/ outFd = 1 /\ c[Len(a) + j].text = "status"
             ELSE ~c[Len(a) + j].marked
  <2>1. c[Len(a) + j] = b[j]
    BY <1>2
  <2>2. OwnMark(y, j) => OwnMark(z, Len(a) + j)
    <3>1. SUFFICES ASSUME j < Len(y), y[j] = Mark[1], y[j + 1] = Mark[2]
                   PROVE  OwnMark(z, Len(a) + j)
      BY DEF OwnMark
    <3>2. /\ j + 1 \in 1..Len(b) /\ (Len(a) + j) + 1 = Len(a) + (j + 1)
          /\ Len(a) + j \in 1..Len(c) /\ (Len(a) + j) + 1 \in 1..Len(c)
          /\ Len(a) + j < Len(c)
      BY <1>2, <1>4, <3>1
    <3>3. \A k \in 1..Len(b) : Len(a) + k \in 1..Len(c) => z[Len(a) + k] = y[k]
      BY <1>2, <1>4, <1>5
    <3>4. z[Len(a) + j] = y[j] /\ z[(Len(a) + j) + 1] = y[j + 1]
      BY <3>2, <3>3
    <3> QED
      BY <1>5, <3>1, <3>2, <3>4 DEF OwnMark
  <2>3. (Len(a) + j = 1 \/ c[Len(a) + j - 1].text = "nl") <=> LineStart(a, b, j)
    <3>1. CASE j # 1
      <4>1. j - 1 \in 1..Len(b) /\ Len(a) + j - 1 = Len(a) + (j - 1) /\ Len(a) + j # 1
        BY <1>2, <3>1
      <4> QED
        BY <1>2, <3>1, <4>1 DEF LineStart
    <3>2. CASE j = 1 /\ Len(a) = 0
      <4>1. x = <<>>
        BY <1>3, <3>2, EmptySeq
      <4> QED
        BY <1>3, <3>2, <4>1 DEF LineStart, Ended
    <3>3. CASE j = 1 /\ Len(a) > 0
      <4>1. Len(a) + j - 1 = Len(a) /\ Len(a) + j # 1 /\ Len(a) \in 1..Len(a)
        BY <1>2, <3>3
      <4>2. c[Len(a) + j - 1].text = x[Len(x)]
        BY <1>2, <1>3, <4>1
      <4>3. x # <<>>
        BY <1>3, <3>3, EmptySeq
      <4> QED
        BY <1>3, <3>3, <4>1, <4>2, <4>3 DEF LineStart, Ended
    <3> QED
      BY <1>2, <3>1, <3>2, <3>3
  <2>4. IF LineStart(a, b, j)
        THEN b[j].marked \/ OwnMark(y, j) \/ (outFd = 1 /\ b[j].text = "status")
        ELSE ~b[j].marked
    BY <1>4 DEF AddsMarked
  <2> QED
    BY <2>1, <2>2, <2>3, <2>4
<1>8. ASSUME NEW i \in 1..Len(c)
      PROVE  IF i = 1 \/ c[i - 1].text = "nl"
             THEN c[i].marked \/ OwnMark(z, i) \/ (outFd = 1 /\ c[i].text = "status")
             ELSE ~c[i].marked
  <2>1. CASE i \in 1..Len(a)
    BY <1>6, <2>1
  <2>2. ASSUME NEW k \in 1..Len(b), i = Len(a) + k
        PROVE  IF i = 1 \/ c[i - 1].text = "nl"
               THEN c[i].marked \/ OwnMark(z, i) \/ (outFd = 1 /\ c[i].text = "status")
               ELSE ~c[i].marked
    BY <1>7, <2>2
  <2> QED
    BY <1>2, <2>1, <2>2
<1>9. LinesAreMarked(c)
  <2>1. DOMAIN c = 1..Len(c)
    OBVIOUS
  <2> QED
    BY <1>5, <1>8, <2>1 DEF LinesAreMarked
<1> QED
  BY <1>1, <1>9
-----------------------------------------------------------------------------
(* The operators that show something.                                      *)

(* Each line is marked, and stderr_line_start tells where the next unit    *)
(* goes.                                                                   *)
ErrOK(e) ==
    /\ e \in [shown : Seq(Shown), start : BOOLEAN]
    /\ LinesAreMarked(e.shown)
    /\ e.start <=> Ended(Said(e.shown))

(* What is added with its lines marked leaves the terminal in order.       *)
LEMMA ShowsMore ==
  ASSUME NEW e, ErrOK(e), NEW add \in Seq(Shown), NEW start \in BOOLEAN,
         AddsMarked(e.shown, add), add # <<>>, start <=> Ended(Said(add))
  PROVE  /\ ErrOK([shown |-> e.shown \o add, start |-> start])
         /\ Said(e.shown \o add) = Said(e.shown) \o Said(add)
<1>1. e.shown \in Seq(Shown) /\ e.shown \o add \in Seq(Shown) /\ LinesAreMarked(e.shown)
  BY ConcatParts DEF ErrOK
<1>2. LinesAreMarked(e.shown \o add)
  BY <1>1, LinesConcat
<1>3. Said(e.shown \o add) = Said(e.shown) \o Said(add)
  BY <1>1, SaidConcat
<1>4. Said(e.shown) \in Seq(Unit) /\ Said(add) \in Seq(Unit) /\ Len(Said(add)) = Len(add)
  BY <1>1, SaidUnits
<1>5. Said(add) # <<>>
  <2>1. Len(add) # 0
    BY EmptySeq
  <2> QED
    BY <1>4, <2>1, EmptySeq
<1>6. Ended(Said(e.shown) \o Said(add)) <=> Ended(Said(add))
  BY <1>4, <1>5, EndedConcat
<1> QED
  BY <1>1, <1>2, <1>3, <1>6 DEF ErrOK

(* hm_write_prefixed_stderr() shows what it is given, with marks.          *)
LEMMA PrefixedShows ==
  ASSUME NEW e, ErrOK(e), NEW s \in Seq(Unit), NEW keep \in BOOLEAN
  PROVE  /\ ErrOK(Prefixed(e, s, keep))
         /\ Said(Prefixed(e, s, keep).shown) = Said(e.shown) \o s
<1>1. e.shown \in Seq(Shown) /\ Said(e.shown) \in Seq(Unit)
  BY SaidUnits DEF ErrOK
<1>2. CASE s = <<>>
  BY <1>1, <1>2, ConcatEmptySeq DEF Prefixed
<1>3. CASE s # <<>>
  <2> DEFINE begins(i) == IF i = 1 THEN e.start ELSE s[i - 1] = "nl"
             add == [i \in 1..Len(s) |->
                        [text |-> s[i], marked |-> begins(i) /\ ~(keep /\ OwnMark(s, i))]]
             start == s[Len(s)] = "nl"
  <2>1. DOMAIN s = 1..Len(s) /\ Len(s) \in Nat \ {0} /\ \A i \in 1..Len(s) : s[i] \in Unit
    BY <1>3, EmptySeq
  <2>2. Prefixed(e, s, keep) = [shown |-> e.shown \o add, start |-> start]
    BY <1>3, <2>1 DEF Prefixed
  <2>3. \A i \in 1..Len(s) :
          [text |-> s[i], marked |-> begins(i) /\ ~(keep /\ OwnMark(s, i))] \in Shown
    BY <2>1 DEF Shown, ErrOK
  <2>4. add \in Seq(Shown) /\ Len(add) = Len(s)
    BY <2>1, <2>3
  <2>5. Said(add) = s
    <3>1. /\ Said(add) \in Seq(Unit) /\ Len(Said(add)) = Len(s)
          /\ \A i \in 1..Len(s) : Said(add)[i] = add[i].text
      <4> HIDE DEF add
      <4> QED
        BY <2>4, SaidUnits
    <3>2. \A i \in 1..Len(s) : add[i].text = s[i]
      OBVIOUS
    <3> QED
      BY <3>1, <3>2, SeqEqual
  <2>6. AddsMarked(e.shown, add)
    <3>1. SUFFICES ASSUME NEW i \in 1..Len(s)
                   PROVE  IF LineStart(e.shown, add, i)
                          THEN add[i].marked \/ OwnMark(s, i)
                          ELSE ~add[i].marked
      BY <2>4, <2>5 DEF AddsMarked
    <3>2. LineStart(e.shown, add, i) <=> begins(i)
      <4>1. CASE i = 1
        BY <4>1 DEF LineStart, ErrOK
      <4>2. CASE i # 1
        <5>1. i - 1 \in 1..Len(s)
          BY <2>1, <4>2
        <5> QED
          BY <4>2, <5>1 DEF LineStart
      <4> QED
        BY <4>1, <4>2
    <3>3. add[i].marked <=> (begins(i) /\ ~(keep /\ OwnMark(s, i)))
      OBVIOUS
    <3> QED
      BY <3>2, <3>3
  <2>7. add # <<>> /\ start \in BOOLEAN /\ (start <=> Ended(Said(add)))
    BY <1>3, <2>1, <2>4, <2>5, EmptySeq DEF Ended
  <2> HIDE DEF add, start
  <2>8. /\ ErrOK([shown |-> e.shown \o add, start |-> start])
        /\ Said(e.shown \o add) = Said(e.shown) \o Said(add)
    BY <2>4, <2>6, <2>7, ShowsMore
  <2> QED
    BY <2>2, <2>5, <2>8
<1> QED
  BY <1>2, <1>3

(* So does a plain write() at the start of a line, of whole lines of which *)
(* each one has its mark.                                                  *)
LEMMA RawShows ==
  ASSUME NEW e, ErrOK(e), e.start, NEW s \in Seq(Unit), Ended(s),
         AddsMarked(e.shown, Plain(s))
  PROVE  /\ ErrOK(Raw(e, s)) /\ Raw(e, s).start
         /\ Said(Raw(e, s).shown) = Said(e.shown) \o s
<1>1. /\ e \in [shown : Seq(Shown), start : BOOLEAN]
      /\ Said(e.shown) \in Seq(Unit)
  BY SaidUnits DEF ErrOK
<1>2. Raw(e, s) = [shown |-> e.shown \o Plain(s), start |-> e.start] /\ e.start \in BOOLEAN
  BY <1>1 DEF Raw
<1>3. Plain(s) \in Seq(Shown) /\ Len(Plain(s)) = Len(s) /\ Said(Plain(s)) = s
  BY PlainShows
<1>4. CASE s = <<>>
  <2>1. Plain(s) = <<>>
    BY <1>3, <1>4, EmptySeq
  <2>2. e.shown \o Plain(s) = e.shown /\ Said(e.shown) \o s = Said(e.shown)
    BY <1>1, <1>4, <2>1, ConcatEmptySeq
  <2>3. [shown |-> e.shown, start |-> e.start] = e
    BY <1>1
  <2> QED
    BY <1>2, <2>2, <2>3
<1>5. CASE s # <<>>
  <2>1. Plain(s) # <<>>
    BY <1>3, <1>5, EmptySeq
  <2>2. e.start <=> Ended(Said(Plain(s)))
    BY <1>3
  <2>3. /\ ErrOK([shown |-> e.shown \o Plain(s), start |-> e.start])
        /\ Said(e.shown \o Plain(s)) = Said(e.shown) \o Said(Plain(s))
    BY <1>2, <1>3, <2>1, <2>2, ShowsMore
  <2> QED
    BY <1>2, <1>3, <2>3
<1> QED
  BY <1>4, <1>5

(* hm_err_stream_end() ends the last line, if it has to be ended.          *)
LEMMA EndLineShows ==
  ASSUME NEW e, ErrOK(e)
  PROVE  /\ ErrOK(EndLine(e)) /\ EndLine(e).start
         /\ Said(EndLine(e).shown) = Closed(Said(e.shown))
<1>1. CASE e.start
  BY <1>1 DEF EndLine, ErrOK, Closed
<1>2. CASE ~e.start
  <2> DEFINE nl == <<"nl">>
  <2>1. nl \in Seq(Unit) /\ nl # <<>> /\ Ended(nl) /\ Len(nl) = 1 /\ nl[1] = "nl"
    BY DEF Unit, Ended
  <2>2. /\ e \in [shown : Seq(Shown), start : BOOLEAN]
        /\ Said(e.shown) \in Seq(Unit) /\ ~Ended(Said(e.shown))
    BY <1>2, SaidUnits DEF ErrOK
  <2> HIDE DEF nl
  <2>3. Plain(nl) \in Seq(Shown) /\ Len(Plain(nl)) = 1 /\ Said(Plain(nl)) = nl
    BY <2>1, PlainShows
  <2>4. AddsMarked(e.shown, Plain(nl))
    <3>1. Plain(nl)[1].marked = FALSE
      BY <2>1 DEF Plain
    <3>2. \A i \in 1..Len(Plain(nl)) : i = 1
      BY <2>3
    <3> QED
      BY <2>2, <3>1, <3>2 DEF AddsMarked, LineStart
  <2>5. Plain(nl) # <<>>
    BY <2>3, EmptySeq
  <2>6. EndLine(e) = [shown |-> e.shown \o Plain(nl), start |-> TRUE]
    BY <1>2, <2>2 DEF EndLine, Raw, nl
  <2>7. /\ ErrOK([shown |-> e.shown \o Plain(nl), start |-> TRUE])
        /\ Said(e.shown \o Plain(nl)) = Said(e.shown) \o nl
    BY <2>1, <2>3, <2>4, <2>5, ShowsMore
  <2>8. Closed(Said(e.shown)) = Said(e.shown) \o nl
    BY <2>2 DEF Closed, nl
  <2> QED
    BY <2>6, <2>7, <2>8
<1> QED
  BY <1>1, <1>2 DEF ErrOK

(* What a buffer of status lines holds: whole lines.                       *)
Whole(s) ==
    /\ s \in StatusText /\ Ended(s)
    /\ \A i \in DOMAIN s : s[i] = "nl" => i > 1 /\ s[i - 1] # "nl"

LEMMA WholeConcat ==
  ASSUME NEW a, NEW b, Whole(a), Whole(b)
  PROVE  Whole(a \o b)
<1>1. /\ a \in StatusText /\ b \in StatusText
      /\ a \in Seq(Unit) /\ b \in Seq(Unit) /\ a \o b \in StatusText
  BY TextUnits, ConcatParts DEF Whole, StatusText
<1>2. Ended(a \o b)
  BY <1>1, EndedConcat DEF Whole
<1>3. /\ Len(a) \in Nat /\ Len(b) \in Nat /\ Len(a \o b) = Len(a) + Len(b)
      /\ \A i \in 1..Len(a) : (a \o b)[i] = a[i]
      /\ \A i \in 1..Len(b) : (a \o b)[Len(a) + i] = b[i]
      /\ \A i \in 1..Len(a \o b) : i \in 1..Len(a) \/ \E k \in 1..Len(b) : i = Len(a) + k
  BY <1>1, ConcatParts
<1>4. DOMAIN a = 1..Len(a) /\ DOMAIN b = 1..Len(b) /\ DOMAIN (a \o b) = 1..Len(a \o b)
  BY <1>1
<1>5. ASSUME NEW i \in 1..Len(a), a[i] = "nl"
      PROVE  i > 1 /\ (a \o b)[i - 1] # "nl"
  <2>1. i > 1 /\ a[i - 1] # "nl"
    BY <1>4, <1>5 DEF Whole
  <2>2. i - 1 \in 1..Len(a)
    BY <1>3, <2>1
  <2> QED
    BY <1>3, <2>1, <2>2
<1>6. ASSUME NEW k \in 1..Len(b), b[k] = "nl"
      PROVE  Len(a) + k > 1 /\ (a \o b)[Len(a) + k - 1] # "nl"
  <2>1. k > 1 /\ b[k - 1] # "nl"
    BY <1>4, <1>6 DEF Whole
  <2>2. k - 1 \in 1..Len(b) /\ Len(a) + k - 1 = Len(a) + (k - 1) /\ Len(a) + k > 1
    BY <1>3, <2>1
  <2> QED
    BY <1>3, <2>1, <2>2
<1>7. ASSUME NEW i \in 1..Len(a \o b), (a \o b)[i] = "nl"
      PROVE  i > 1 /\ (a \o b)[i - 1] # "nl"
  <2>1. CASE i \in 1..Len(a)
    BY <1>3, <1>5, <1>7, <2>1
  <2>2. ASSUME NEW k \in 1..Len(b), i = Len(a) + k
        PROVE  i > 1 /\ (a \o b)[i - 1] # "nl"
    BY <1>3, <1>6, <1>7, <2>2
  <2> QED
    BY <1>3, <2>1, <2>2
<1> QED
  BY <1>1, <1>2, <1>4, <1>7 DEF Whole
(* Flushing shows the buffer, marked or on stdout.                         *)
LEMMA FlushedShows ==
  ASSUME ErrOK(err), Whole(outBuf), outBuf # <<>> => err.start, outFd \in {1, 2}
  PROVE  /\ ErrOK(Flushed) /\ (err.start => Flushed.start)
         /\ Said(Flushed.shown) = Said(err.shown) \o outBuf
<1>1. /\ outBuf \in Seq(Unit) /\ Ended(outBuf)
      /\ Said(err.shown) \in Seq(Unit)
      /\ err \in [shown : Seq(Shown), start : BOOLEAN]
  BY TextUnits, SaidUnits DEF Whole, ErrOK
<1>2. CASE outFd = 2
  <2>1. /\ Flushed = Prefixed(err, outBuf, FALSE)
        /\ ErrOK(Flushed) /\ Said(Flushed.shown) = Said(err.shown) \o outBuf
    BY <1>1, <1>2, PrefixedShows DEF Flushed
  <2>2. err.start => Ended(Said(err.shown) \o outBuf)
    BY <1>1, EndedConcat DEF ErrOK
  <2> QED
    BY <2>1, <2>2 DEF ErrOK
<1>3. CASE outFd = 1 /\ outBuf # <<>>
  <2>1. AddsMarked(err.shown, Plain(outBuf))
    <3>1. /\ Len(Plain(outBuf)) = Len(outBuf) /\ DOMAIN outBuf = 1..Len(outBuf)
          /\ Len(outBuf) \in Nat
      BY <1>1, PlainShows
    <3>2. \A i \in 1..Len(outBuf) :
            Plain(outBuf)[i].text = outBuf[i] /\ ~Plain(outBuf)[i].marked
      BY <3>1 DEF Plain
    <3>3. ASSUME NEW i \in 1..Len(outBuf), i = 1 \/ outBuf[i - 1] = "nl"
          PROVE  outBuf[i] = "status"
      <4>1. outBuf \in Seq({"status", "nl"})
        BY DEF Whole, StatusText
      <4>2. outBuf[i] = "nl" => i > 1 /\ outBuf[i - 1] # "nl"
        BY <3>1 DEF Whole
      <4>3. outBuf[i] \in {"status", "nl"}
        BY <4>1
      <4> QED
        BY <3>3, <4>2, <4>3
    <3>4. ASSUME NEW i \in 1..Len(outBuf)
          PROVE  IF LineStart(err.shown, Plain(outBuf), i)
                 THEN Plain(outBuf)[i].text = "status"
                 ELSE ~Plain(outBuf)[i].marked
      <4>1. LineStart(err.shown, Plain(outBuf), i) => i = 1 \/ outBuf[i - 1] = "nl"
        <5>1. i # 1 => i - 1 \in 1..Len(outBuf)
          BY <3>1
        <5> QED
          BY <3>2, <5>1 DEF LineStart
      <4> QED
        BY <3>2, <3>3, <4>1
    <3> QED
      BY <1>3, <3>1, <3>4 DEF AddsMarked
  <2>2. Flushed = Raw(err, outBuf)
    BY <1>3 DEF Flushed
  <2> QED
    BY <1>1, <1>3, <2>1, <2>2, RawShows
<1>4. CASE outFd = 1 /\ outBuf = <<>>
  <2>1. Plain(outBuf) = <<>>
    BY <1>1, <1>4, PlainShows, EmptySeq
  <2>2. err.shown \o Plain(outBuf) = err.shown /\ Said(err.shown) \o outBuf = Said(err.shown)
    BY <1>1, <1>4, <2>1, ConcatEmptySeq
  <2>3. Flushed = [shown |-> err.shown, start |-> err.start]
    BY <1>4, <2>2 DEF Flushed, Raw
  <2>4. Flushed = err
    BY <1>1, <2>3
  <2> QED
    BY <2>2, <2>4
<1> QED
  BY <1>2, <1>3, <1>4

-----------------------------------------------------------------------------
(* The invariant.                                                          *)

OutputTypes ==
    /\ opc \in {"main", "relay", "wait", "replay", "report", "over", "program"}
    /\ outFd \in {1, 2} /\ Whole(outBuf) /\ ErrOK(err)
    /\ stream \in {"none", "curl", "trace", "capture"}
    /\ holders \subseteq {"first", "background"}
    /\ unwritten \in Text /\ written \in Text /\ offset \in 0..Len(written)
    /\ ending \in {"none", "ok", "failed"}
    /\ spoken \in Seq(Unit) /\ Ended(spoken)
    /\ messages \in Nat /\ overwritten \in BOOLEAN

(* Where a stream is in its course.  Status lines are flushed before a     *)
(* setup, and while a check's output is relayed they are buffered only     *)
(* until its first byte; a capture is shown when its first writer has      *)
(* failed, and only then can it be overwritten.                            *)
Course ==
    /\ outBuf # <<>> \/ opc \notin {"relay", "replay"} => err.start
    /\ opc \in {"relay", "wait", "replay", "report"} /\ stream # "curl" => outBuf = <<>>
    /\ opc \in {"wait", "replay"} => stream = "capture"
    /\ opc = "relay" => stream # "capture" /\ (outBuf # <<>> => offset = 0)
    /\ ending # "none" => "first" \notin holders
    /\ opc = "replay" => ending = "failed"
    /\ overwritten => ending = "failed" /\ opc \in {"replay", "report", "over"}

(* What was said so far is what is shown, and then what is buffered.       *)
Told == IF opc \in {"relay", "replay"} THEN spoken \o SubSeq(written, 1, offset) ELSE spoken
AllIsTold == ~overwritten => Said(err.shown) \o outBuf = Told

OutputInv == OutputTypes /\ Course /\ AllIsTold

(* The invariant says what ShownAsSaid does.                               *)
LEMMA OutputInvShows == OutputInv => ShownAsSaid
<1> SUFFICES ASSUME OutputInv PROVE ShownAsSaid
  OBVIOUS
<1>1. LinesAreMarked(err.shown) /\ (err.start <=> Ended(Said(err.shown)))
  BY DEF OutputInv, OutputTypes, ErrOK
<1>2. opc \notin {"relay", "replay"} => err.start
  BY DEF OutputInv, Course
<1>3. opc \notin {"relay", "replay"} /\ ~overwritten => Said(err.shown) \o outBuf = spoken
  BY DEF OutputInv, AllIsTold, Told
<1> QED
  BY <1>1, <1>2, <1>3 DEF ShownAsSaid

(* A terminal is in order in the next state if outFd stays.                *)
LEMMA ErrStep ==
  ASSUME NEW e, ErrOK(e), err' = e, UNCHANGED outFd
  PROVE  ErrOK(err)'
  BY DEF ErrOK, LinesAreMarked

(* The messages of hacman.                                                 *)
LEMMA Messages ==
  /\ \A m \in Statuses : Whole(m) /\ m \in Seq(Unit) /\ Ended(m)
  /\ \A m \in Notes : m \in Seq(Unit) /\ Ended(m)
  /\ Outputs \subseteq Text
<1>1. \A m \in Statuses : Whole(m) /\ m \in Seq(Unit)
  BY DiagnosticsAssumption, TextUnits DEF Whole, Ended
<1>2. \A m \in Notes : m \in Seq(Unit) /\ Ended(m)
  BY DiagnosticsAssumption, TextUnits DEF Ended
<1> QED
  BY <1>1, <1>2, DiagnosticsAssumption DEF Whole

(* hm_err() shows the buffer, and then the message, from a line start to a *)
(* line start.                                                             *)
LEMMA ComplainShows ==
  ASSUME OutputTypes, err.start, NEW m \in Seq(Unit), Ended(m), Complains(m), UNCHANGED outFd
  PROVE  /\ ErrOK(err)' /\ err'.start
         /\ Said(err'.shown) = (Said(err.shown) \o outBuf) \o m
<1>1. /\ ErrOK(Flushed) /\ Flushed.start
      /\ Said(Flushed.shown) = Said(err.shown) \o outBuf
  BY FlushedShows DEF OutputTypes
<1>2. EndLine(Flushed) = Flushed
  BY <1>1 DEF EndLine
<1>3. /\ ErrOK(Prefixed(Flushed, m, TRUE))
      /\ Said(Prefixed(Flushed, m, TRUE).shown) = Said(Flushed.shown) \o m
  BY <1>1, PrefixedShows
<1>4. err' = Prefixed(Flushed, m, TRUE)
  BY <1>2 DEF Complains
<1>5. Said(Flushed.shown) \in Seq(Unit) /\ Ended(Said(Flushed.shown))
  BY <1>1, SaidUnits DEF ErrOK
<1>6. Ended(Said(Flushed.shown) \o m)
  BY <1>5, EndedConcat
<1> QED
  BY <1>1, <1>3, <1>4, <1>6, ErrStep DEF ErrOK
-----------------------------------------------------------------------------
(* The steps.                                                              *)

(* What was read grows by what follows it.                                 *)
LEMMA ReadOn ==
  ASSUME NEW i \in 0..Len(written), NEW n \in Nat, i + n <= Len(written), written \in Text
  PROVE  /\ SubSeq(written, 1, i) \in Seq(Unit)
         /\ SubSeq(written, i + 1, i + n) \in Seq(Unit)
         /\ SubSeq(written, 1, i) \o SubSeq(written, i + 1, i + n) = SubSeq(written, 1, i + n)
<1>1. written \in Seq(Unit) /\ Len(written) \in Nat
  BY TextUnits
<1>2. SubSeq(written, 1, i) \in Seq(Unit)
  <2>1. \A k \in 1..i : written[k] \in Unit
    BY <1>1
  <2> QED
    BY <1>1, <2>1, SubSeqProperties
<1>3. SubSeq(written, i + 1, i + n) \in Seq(Unit)
  <2>1. \A k \in (i + 1)..(i + n) : written[k] \in Unit
    BY <1>1
  <2> QED
    BY <1>1, <2>1, SubSeqProperties
<1>4. SubSeq(written, 1, i) \o SubSeq(written, i + 1, i + n) = SubSeq(written, 1, i + n)
  <2>1. 1 \in 1..Len(written) + 1 /\ i \in (1 - 1)..Len(written) /\ i + n \in i..Len(written)
    BY <1>1
  <2> QED
    BY <1>1, <2>1, ConcatAdjacentSubSeq
<1> QED
  BY <1>2, <1>3, <1>4
(* A stutter.                                                              *)
LEMMA NothingSaid ==
  ASSUME OutputInv, UNCHANGED outputVars
  PROVE  OutputInv'
BY DEF OutputInv, OutputTypes, Course, AllIsTold, Told, outputVars, streamVars, ErrOK, Whole,
       LinesAreMarked

(* What is buffered, shown and said are texts, and a flush shows the first.*)
LEMMA BufferIsUnits ==
  ASSUME OutputInv
  PROVE  /\ outBuf \in Seq(Unit) /\ Said(err.shown) \in Seq(Unit) /\ spoken \in Seq(Unit)
         /\ ErrOK(Flushed) /\ (err.start => Flushed.start)
         /\ Said(Flushed.shown) = Said(err.shown) \o outBuf
  BY TextUnits, SaidUnits, FlushedShows DEF OutputInv, OutputTypes, Course, Whole, ErrOK

(* The empty buffer.                                                       *)
LEMMA NothingBuffered == Whole(<<>>) /\ \A s \in Seq(Unit) : s \o <<>> = s
<1>1. <<>> \in StatusText /\ DOMAIN <<>> = {}
  BY EmptySeq DEF StatusText
<1> QED
  BY <1>1, ConcatEmptySeq DEF Whole, Ended

(* hacman's own messages.                                                  *)
LEMMA ReportKeeps == ASSUME OutputInv, NEW m \in Statuses, Report(m) PROVE OutputInv'
<1>1. /\ Whole(m) /\ m \in Seq(Unit) /\ Ended(m)
      /\ outBuf \in Seq(Unit) /\ Said(err.shown) \in Seq(Unit) /\ spoken \in Seq(Unit)
      /\ opc = "main" /\ err.start /\ ~overwritten
      /\ Said(err.shown) \o outBuf = spoken
  BY Messages, BufferIsUnits
     DEF Report, OutputInv, OutputTypes, Course, AllIsTold, Told
<1>2. spoken' = spoken \o m /\ spoken' \in Seq(Unit) /\ Ended(spoken')
  BY <1>1, ConcatParts, EndedConcat DEF Report, OutputInv, OutputTypes
<1>3. /\ ErrOK(err)' /\ Whole(outBuf)' /\ err'.start
      /\ Said(err'.shown) \o outBuf' = spoken'
  <2>1. CASE err' = Flushed /\ outBuf' = m
    <3>1. ErrOK(err)' /\ err'.start /\ Said(err'.shown) = Said(err.shown) \o outBuf
      BY <1>1, <2>1, BufferIsUnits, ErrStep DEF Report
    <3>2. Whole(outBuf)'
      BY <1>1, <2>1 DEF Whole
    <3> QED
      BY <1>1, <1>2, <2>1, <3>1, <3>2
  <2>2. CASE outBuf' = outBuf \o m /\ UNCHANGED err
    <3>1. ErrOK(err)' /\ err'.start
      BY <1>1, <2>2, ErrStep DEF Report, OutputInv, OutputTypes
    <3>2. Whole(outBuf)'
      <4>1. Whole(outBuf \o m)
        BY <1>1, WholeConcat DEF OutputInv, OutputTypes
      <4> QED
        BY <2>2, <4>1 DEF Whole
    <3>3. (Said(err.shown) \o outBuf) \o m = Said(err.shown) \o (outBuf \o m)
      BY <1>1, Association
    <3> QED
      BY <1>1, <1>2, <2>2, <3>1, <3>2, <3>3
  <2> QED
    BY <2>1, <2>2 DEF Report
<1>4. UNCHANGED <<opc, outFd, streamVars>> /\ messages' = messages + 1
  BY DEF Report
<1>5. OutputTypes'
  BY <1>2, <1>3, <1>4 DEF OutputInv, OutputTypes, streamVars
<1>6. Course' /\ AllIsTold'
  BY <1>1, <1>3, <1>4 DEF OutputInv, Course, AllIsTold, Told, streamVars
<1> QED
  BY <1>5, <1>6 DEF OutputInv

LEMMA ComplainKeeps == ASSUME OutputInv, NEW m \in Notes, Complain(m) PROVE OutputInv'
<1>1. /\ m \in Seq(Unit) /\ Ended(m)
      /\ spoken \in Seq(Unit) /\ Ended(spoken)
      /\ opc = "main" /\ err.start /\ ~overwritten
      /\ Said(err.shown) \o outBuf = spoken
  BY Messages DEF Complain, OutputInv, OutputTypes, Course, AllIsTold, Told
<1>2. /\ UNCHANGED <<opc, outFd, streamVars>> /\ messages' = messages + 1
      /\ Complains(m) /\ outBuf' = <<>> /\ spoken' = spoken \o m
  BY DEF Complain, Complains
<1>3. ErrOK(err)' /\ err'.start /\ Said(err'.shown) = (Said(err.shown) \o outBuf) \o m
  BY <1>1, <1>2, ComplainShows DEF OutputInv
<1>4. spoken' \in Seq(Unit) /\ Ended(spoken')
  BY <1>1, <1>2, ConcatParts, EndedConcat
<1>5. OutputTypes'
  BY <1>2, <1>3, <1>4, NothingBuffered DEF OutputInv, OutputTypes, streamVars, Whole
<1>6. Course'
  BY <1>1, <1>2, <1>3 DEF OutputInv, Course, streamVars
<1>7. AllIsTold'
  BY <1>1, <1>2, <1>3, <1>4, NothingBuffered DEF AllIsTold, Told
<1> QED
  BY <1>5, <1>6, <1>7 DEF OutputInv
(* The start of a stream, whatever was buffered.                           *)
LEMMA BeginStreamKeeps ==
  ASSUME OutputInv, NEW kind \in {"curl", "trace", "capture"}, NEW text \in Outputs,
         BeginStream(kind, text)
  PROVE  OutputInv'
<1>1. /\ outBuf \in Seq(Unit) /\ Said(err.shown) \in Seq(Unit) /\ spoken \in Seq(Unit)
      /\ opc = "main" /\ err.start /\ ~overwritten
      /\ Said(err.shown) \o outBuf = spoken
  BY BufferIsUnits DEF BeginStream, OutputInv, OutputTypes, Course, AllIsTold, Told
<1>2. /\ stream' = kind /\ holders' = {"first"} /\ unwritten' = text /\ written' = <<>>
      /\ offset' = 0 /\ ending' = "none"
      /\ opc' = IF kind = "capture" THEN "wait" ELSE "relay"
      /\ UNCHANGED <<outFd, spoken, messages, overwritten>>
  BY DEF BeginStream
<1>3. /\ ErrOK(err)' /\ Whole(outBuf)' /\ err'.start
      /\ Said(err'.shown) \o outBuf' = spoken
      /\ kind # "curl" => outBuf' = <<>>
  <2>1. CASE kind = "curl"
    <3>1. UNCHANGED <<err, outBuf>>
      BY <2>1 DEF BeginStream
    <3>2. ErrOK(err)' /\ Whole(outBuf)'
      BY <1>2, <3>1, ErrStep DEF OutputInv, OutputTypes, Whole
    <3> QED
      BY <1>1, <2>1, <3>1, <3>2
  <2>2. CASE kind # "curl"
    <3>1. err' = Flushed /\ outBuf' = <<>>
      BY <2>2 DEF BeginStream
    <3>2. ErrOK(err)' /\ err'.start /\ Said(err'.shown) = spoken
      BY <1>1, <1>2, <3>1, BufferIsUnits, ErrStep
    <3>3. Whole(outBuf)'
      BY <3>1, NothingBuffered DEF Whole
    <3> QED
      BY <1>1, <3>1, <3>2, <3>3, NothingBuffered
  <2> QED
    BY <2>1, <2>2
<1>4. text \in Text /\ <<>> \in Text /\ Len(<<>>) = 0
  BY Messages DEF Text
<1>5. OutputTypes'
  BY <1>2, <1>3, <1>4 DEF OutputInv, OutputTypes
<1>6. Course'
  BY <1>1, <1>2, <1>3 DEF Course
<1>7. AllIsTold'
  <2>1. SubSeq(<<>>, 1, 0) = <<>>
    BY SubSeqEmpty
  <2> QED
    BY <1>1, <1>2, <1>3, <2>1, NothingBuffered DEF AllIsTold, Told
<1> QED
  BY <1>5, <1>6, <1>7 DEF OutputInv

(* hm_err_bytes() of the next units, whoever calls it.                     *)
LEMMA PassesOnTells ==
  ASSUME OutputInv, NEW n \in Nat \ {0}, offset + n <= Len(written), PassesOn(n),
         opc \in {"relay", "replay"},
         UNCHANGED <<opc, outFd, stream, holders, unwritten, written, ending, spoken,
                     messages, overwritten>>
  PROVE  OutputInv'
<1>1. /\ outBuf \in Seq(Unit) /\ Said(err.shown) \in Seq(Unit) /\ spoken \in Seq(Unit)
      /\ ErrOK(Flushed) /\ Said(Flushed.shown) = Said(err.shown) \o outBuf
      /\ written \in Text /\ offset \in 0..Len(written) /\ Len(written) \in Nat
  BY BufferIsUnits, TextUnits DEF OutputInv, OutputTypes
<1> DEFINE chunk == SubSeq(written, offset + 1, offset + n)
<1>2. /\ err' = Prefixed(Flushed, chunk, TRUE) /\ outBuf' = <<>> /\ offset' = offset + n
  BY DEF PassesOn
<1>3. /\ SubSeq(written, 1, offset) \in Seq(Unit) /\ chunk \in Seq(Unit)
      /\ SubSeq(written, 1, offset) \o chunk = SubSeq(written, 1, offset + n)
  BY <1>1, ReadOn
<1> HIDE DEF chunk
<1>4. ErrOK(err)' /\ Said(err'.shown) = (Said(err.shown) \o outBuf) \o chunk
  <2>1. /\ ErrOK(Prefixed(Flushed, chunk, TRUE))
        /\ Said(Prefixed(Flushed, chunk, TRUE).shown) = Said(Flushed.shown) \o chunk
    BY <1>1, <1>3, PrefixedShows
  <2> QED
    BY <1>1, <1>2, <2>1, ErrStep
<1>5. Whole(outBuf)'
  BY <1>2, NothingBuffered DEF Whole
<1>6. OutputTypes'
  <2>1. offset' \in 0..Len(written')
    BY <1>1, <1>2
  <2> QED
    BY <1>4, <1>5, <2>1 DEF OutputInv, OutputTypes
<1>7. Course'
  BY <1>2 DEF OutputInv, Course
<1>8. AllIsTold'
  <2>1. SUFFICES ASSUME ~overwritten PROVE Said(err'.shown) \o <<>> = Told'
    BY <1>2 DEF AllIsTold
  <2>2. Said(err.shown) \o outBuf = spoken \o SubSeq(written, 1, offset)
    BY <2>1 DEF OutputInv, AllIsTold, Told
  <2>3. (spoken \o SubSeq(written, 1, offset)) \o chunk = spoken \o SubSeq(written, 1, offset + n)
    <3>1. (spoken \o SubSeq(written, 1, offset)) \o chunk
            = spoken \o (SubSeq(written, 1, offset) \o chunk)
      BY <1>1, <1>3, Association
    <3> QED
      BY <1>3, <3>1
  <2>4. Said(err'.shown) = spoken \o SubSeq(written, 1, offset + n)
    BY <1>4, <2>2, <2>3
  <2>5. Said(err'.shown) \in Seq(Unit)
    BY <1>4, SaidUnits DEF ErrOK
  <2> QED
    BY <1>2, <2>4, <2>5, NothingBuffered DEF Told
<1> QED
  BY <1>6, <1>7, <1>8 DEF OutputInv

LEMMA RelayKeeps == ASSUME OutputInv, Relay PROVE OutputInv'
<1>1. PICK n \in 1..Chunk : offset + n <= Len(written) /\ PassesOn(n)
  BY DEF Relay
<1>2. n \in Nat \ {0}
  BY <1>1, DiagnosticsAssumption
<1> QED
  BY <1>1, <1>2, PassesOnTells DEF Relay

LEMMA ReplayKeeps == ASSUME OutputInv, Replay PROVE OutputInv'
<1> DEFINE n == IF Len(written) - offset < Chunk THEN Len(written) - offset ELSE Chunk
<1>1. /\ n \in Nat \ {0} /\ offset + n <= Len(written)
  BY DiagnosticsAssumption, TextUnits DEF Replay, OutputInv, OutputTypes
<1>2. PassesOn(n)
  BY DEF Replay
<1> HIDE DEF n
<1> QED
  BY <1>1, <1>2, PassesOnTells DEF Replay

(* The end of what is shown ends its last line, on the terminal as in what *)
(* was said.                                                               *)
LEMMA ShowEndsTells ==
  ASSUME OutputInv, ShowEnds, opc \in {"relay", "replay"}, offset = Len(written),
         opc = "relay" => holders = {},
         UNCHANGED <<outFd, outBuf, streamVars, messages>>
  PROVE  OutputInv'
<1>1. /\ outBuf \in Seq(Unit) /\ Said(err.shown) \in Seq(Unit)
      /\ spoken \in Seq(Unit) /\ Ended(spoken)
      /\ written \in Seq(Unit) /\ ErrOK(err)
  BY BufferIsUnits, TextUnits DEF OutputInv, OutputTypes
<1>2. err' = EndLine(err) /\ spoken' = Closed(spoken \o written) /\ opc' = "report"
  BY DEF ShowEnds
<1>3. ErrOK(err)' /\ err'.start /\ Said(err'.shown) = Closed(Said(err.shown))
  BY <1>1, <1>2, EndLineShows, ErrStep
<1>4. spoken \o written \in Seq(Unit)
  BY <1>1, ConcatParts
<1>5. spoken' \in Seq(Unit) /\ Ended(spoken')
  <2>1. CASE Ended(spoken \o written)
    BY <1>2, <1>4, <2>1 DEF Closed
  <2>2. CASE ~Ended(spoken \o written)
    <3>1. spoken' = Append(spoken \o written, "nl") /\ "nl" \in Unit
      BY <1>2, <2>2 DEF Closed, Unit
    <3> QED
      BY <1>4, <3>1, AppendProperties DEF Ended
  <2> QED
    BY <2>1, <2>2
<1>6. Whole(outBuf)'
  BY DEF OutputInv, OutputTypes, Whole
<1>7. OutputTypes'
  BY <1>2, <1>3, <1>5, <1>6 DEF OutputInv, OutputTypes, streamVars
<1>8. overwritten => ending = "failed"
  BY DEF OutputInv, Course
<1>9. Course'
  BY <1>2, <1>3, <1>8 DEF OutputInv, Course, streamVars
<1>10. AllIsTold'
  <2>1. SUFFICES ASSUME ~overwritten PROVE Said(err'.shown) \o outBuf = spoken'
    BY <1>2 DEF AllIsTold, Told, streamVars
  <2>2. Said(err.shown) \o outBuf = spoken \o written
    BY <1>1, <2>1, SubSeqFull DEF OutputInv, AllIsTold, Told
  <2>3. CASE outBuf = <<>>
    <3>1. Said(err.shown) = spoken \o written
      BY <1>1, <2>2, <2>3, ConcatEmptySeq
    <3>2. Said(err'.shown) \in Seq(Unit)
      BY <1>3, SaidUnits DEF ErrOK
    <3> QED
      BY <1>2, <1>3, <2>3, <3>1, <3>2, ConcatEmptySeq
  <2>4. CASE outBuf # <<>>
    <3>1. err.start /\ offset = 0
      BY <2>4 DEF OutputInv, Course
    <3>2. written = <<>>
      BY <1>1, <3>1, EmptySeq
    <3>3. spoken \o written = spoken
      BY <1>1, <3>2, ConcatEmptySeq
    <3>4. spoken' = spoken /\ err' = err
      BY <1>1, <1>2, <3>1, <3>3 DEF Closed, EndLine
    <3> QED
      BY <2>2, <3>3, <3>4
  <2> QED
    BY <2>3, <2>4
<1> QED
  BY <1>7, <1>9, <1>10 DEF OutputInv

LEMMA EndsKeep == ASSUME OutputInv, RelayEnds \/ ReplayEnds PROVE OutputInv'
<1>1. CASE RelayEnds
  BY <1>1, ShowEndsTells DEF RelayEnds
<1>2. CASE ReplayEnds
  BY <1>2, ShowEndsTells DEF ReplayEnds
<1> QED
  BY <1>1, <1>2
(* What is decided without showing anything.                               *)
LEMMA DiscardKeeps == ASSUME OutputInv, Discard PROVE OutputInv'
<1>1. Whole(outBuf)' /\ ErrOK(err)'
  BY ErrStep DEF Discard, OutputInv, OutputTypes, Whole
<1> QED
  BY <1>1 DEF Discard, OutputInv, OutputTypes, Course, AllIsTold, Told, streamVars

LEMMA GoOnKeeps == ASSUME OutputInv, GoOn PROVE OutputInv'
<1>1. Whole(outBuf)' /\ ErrOK(err)'
  BY ErrStep DEF GoOn, OutputInv, OutputTypes, Whole
<1> QED
  BY <1>1 DEF GoOn, OutputInv, OutputTypes, Course, AllIsTold, Told, streamVars

LEMMA RewindKeeps == ASSUME OutputInv, Rewind PROVE OutputInv'
<1>1. Whole(outBuf)' /\ ErrOK(err)'
  BY ErrStep DEF Rewind, OutputInv, OutputTypes, Whole
<1>2. 0 \in 0..Len(written) /\ SubSeq(written, 1, 0) = <<>> /\ spoken \o <<>> = spoken
  BY SubSeqEmpty, NothingBuffered DEF OutputInv, OutputTypes
<1>3. ending # "none" => "first" \notin holders
  BY DEF OutputInv, Course
<1>4. OutputTypes'
  BY <1>1, <1>2 DEF Rewind, OutputInv, OutputTypes
<1>5. Course'
  BY DEF Rewind, OutputInv, Course
<1>6. AllIsTold'
  BY <1>2 DEF Rewind, OutputInv, AllIsTold, Told
<1> QED
  BY <1>4, <1>5, <1>6 DEF OutputInv

(* A pair, without evaluating it.                                          *)
LEMMA TwoUnits ==
  ASSUME NEW x \in Unit, NEW y \in Unit
  PROVE  /\ <<x, y>> \in Seq(Unit) /\ Len(<<x, y>>) = 2
         /\ <<x, y>>[1] = x /\ <<x, y>>[2] = y
  OBVIOUS

(* The diagnostic of a failure carries hacman's mark.                      *)
LEMMA FailureIsMarked ==
  /\ Failure \in Seq(Unit) /\ Failure # <<>> /\ Ended(Failure)
  /\ \A shown : AddsMarked(shown, Plain(Failure))
<1>1. PICK a \in Seq(Unit) : a = Mark /\ Len(a) = 2 /\ a[1] = "hac" /\ a[2] = "man:"
  <2>1. "hac" \in Unit /\ "man:" \in Unit
    BY DEF Unit
  <2>2. PICK x, y : x = "hac" /\ y = "man:"
    OBVIOUS
  <2>3. /\ <<x, y>> \in Seq(Unit) /\ Len(<<x, y>>) = 2
        /\ <<x, y>>[1] = x /\ <<x, y>>[2] = y
    BY <2>1, <2>2, TwoUnits
  <2>4. Mark = <<x, y>>
    BY <2>2 DEF Mark
  <2> QED
    BY <2>2, <2>3, <2>4
<1>2. PICK b \in Seq(Unit) : b = <<"text", "nl">> /\ Len(b) = 2 /\ b[1] = "text" /\ b[2] = "nl"
  <2>1. "text" \in Unit /\ "nl" \in Unit
    BY DEF Unit
  <2>2. PICK x, y : x = "text" /\ y = "nl"
    OBVIOUS
  <2>3. /\ <<x, y>> \in Seq(Unit) /\ Len(<<x, y>>) = 2
        /\ <<x, y>>[1] = x /\ <<x, y>>[2] = y
    BY <2>1, <2>2, TwoUnits
  <2> QED
    BY <2>2, <2>3
<1>3. /\ Failure \in Seq(Unit) /\ Len(Failure) = 4 /\ Failure # <<>>
      /\ Failure[1] = "hac" /\ Failure[2] = "man:" /\ Failure[3] = "text" /\ Failure[4] = "nl"
  <2>1. Failure = a \o b
    BY <1>1, <1>2 DEF Failure
  <2>2. /\ Failure \in Seq(Unit) /\ Len(Failure) = 4
        /\ \A i \in 1..2 : Failure[i] = a[i] /\ Failure[2 + i] = b[i]
    <3>1. /\ a \o b \in Seq(Unit) /\ Len(a \o b) = Len(a) + Len(b)
          /\ \A i \in 1..Len(a) : (a \o b)[i] = a[i]
          /\ \A i \in 1..Len(b) : (a \o b)[Len(a) + i] = b[i]
      BY ConcatParts
    <3> QED
      BY <1>1, <1>2, <2>1, <3>1
  <2>3. Failure[1] = a[1] /\ Failure[2] = a[2] /\ Failure[2 + 1] = b[1] /\ Failure[2 + 2] = b[2]
    BY <2>2
  <2> QED
    BY <1>1, <1>2, <2>2, <2>3, EmptySeq
<1>4. \A i \in 1..4 : ~Plain(Failure)[i].marked /\ Plain(Failure)[i].text = Failure[i]
  BY <1>3 DEF Plain
<1>5. Len(Plain(Failure)) = 4 /\ Said(Plain(Failure)) = Failure
  BY <1>3, PlainShows
<1>6. OwnMark(Failure, 1)
  BY <1>3 DEF OwnMark, Mark
<1>7. ASSUME NEW shown, NEW i \in 1..4, i # 1
      PROVE  ~LineStart(shown, Plain(Failure), i)
  <2>1. i - 1 \in 1..3
    BY <1>7
  <2>2. Plain(Failure)[i - 1].text \in {"hac", "man:", "text"}
    BY <1>3, <1>4, <2>1
  <2> QED
    BY <1>7, <2>2 DEF LineStart
<1>8. \A shown : AddsMarked(shown, Plain(Failure))
  BY <1>4, <1>5, <1>6, <1>7 DEF AddsMarked
<1> QED
  BY <1>3, <1>8 DEF Ended

LEMMA DiagnoseKeeps == ASSUME OutputInv, Diagnose PROVE OutputInv'
<1>1. /\ outBuf \in Seq(Unit) /\ Said(err.shown) \in Seq(Unit)
      /\ spoken \in Seq(Unit) /\ Ended(spoken) /\ ErrOK(err) /\ err.start
      /\ opc = "report" /\ ending = "failed" /\ opc' = "over"
      /\ UNCHANGED <<outFd, streamVars, messages>>
  BY BufferIsUnits DEF Diagnose, OutputInv, OutputTypes, Course
<1>2. /\ Failure \in Seq(Unit) /\ Failure # <<>> /\ Ended(Failure)
      /\ AddsMarked(err.shown, Plain(Failure))
  BY FailureIsMarked
<1>3. spoken' = spoken \o Failure /\ spoken' \in Seq(Unit) /\ Ended(spoken')
  <2>1. spoken' = spoken \o Failure
    BY DEF Diagnose, Complains
  <2> QED
    BY <1>1, <1>2, <2>1, ConcatParts, EndedConcat
<1>4. CASE stream = "curl"
  <2>1. Complains(Failure) /\ outBuf' = <<>>
    BY <1>4 DEF Diagnose, Complains
  <2>2. /\ ErrOK(err)' /\ err'.start
        /\ Said(err'.shown) = (Said(err.shown) \o outBuf) \o Failure
    BY <1>1, <1>2, <2>1, ComplainShows DEF OutputInv
  <2>3. OutputTypes'
    BY <1>1, <1>3, <2>1, <2>2, NothingBuffered DEF OutputInv, OutputTypes, streamVars, Whole
  <2>4. Course'
    BY <1>1, <2>1, <2>2 DEF OutputInv, Course, streamVars
  <2>5. AllIsTold'
    BY <1>1, <1>3, <2>1, <2>2, NothingBuffered
       DEF OutputInv, AllIsTold, Told, streamVars
  <2> QED
    BY <2>3, <2>4, <2>5 DEF OutputInv
<1>5. CASE stream # "curl"
  <2>1. err' = Raw(err, Failure) /\ UNCHANGED outBuf
    BY <1>5 DEF Diagnose
  <2>2. ErrOK(err)' /\ err'.start /\ Said(err'.shown) = Said(err.shown) \o Failure
    BY <1>1, <1>2, <2>1, RawShows, ErrStep
  <2>3. outBuf = <<>>
    BY <1>1, <1>5 DEF OutputInv, Course
  <2>4. OutputTypes'
    BY <1>1, <1>3, <2>1, <2>2 DEF OutputInv, OutputTypes, streamVars, Whole
  <2>5. Course'
    BY <1>1, <2>1, <2>2 DEF OutputInv, Course, streamVars
  <2>6. AllIsTold'
    <3>1. SUFFICES ASSUME ~overwritten PROVE Said(err'.shown) \o outBuf = spoken'
      BY <1>1, <2>1 DEF AllIsTold, Told, streamVars
    <3>2. Said(err.shown) = spoken
      BY <1>1, <2>3, <3>1, NothingBuffered DEF OutputInv, AllIsTold, Told
    <3> QED
      BY <1>3, <2>2, <2>3, <3>2, NothingBuffered
  <2> QED
    BY <2>4, <2>5, <2>6 DEF OutputInv
<1> QED
  BY <1>4, <1>5
(* The end of hacman's own output.                                         *)
LEMMA HandOverKeeps == ASSUME OutputInv, HandOver PROVE OutputInv'
<1>1. /\ Said(err.shown) \in Seq(Unit) /\ outBuf \in Seq(Unit) /\ ErrOK(Flushed)
      /\ Flushed.start /\ Said(Flushed.shown) = Said(err.shown) \o outBuf
      /\ opc = "main" /\ ~overwritten /\ Said(err.shown) \o outBuf = spoken
  BY BufferIsUnits DEF HandOver, OutputInv, Course, AllIsTold, Told
<1>2. /\ err' = Flushed /\ outBuf' = <<>> /\ opc' = "program"
      /\ UNCHANGED <<outFd, streamVars, spoken, messages>>
  BY <1>1 DEF HandOver, EndLine
<1>3. ErrOK(err)' /\ Whole(outBuf)'
  BY <1>1, <1>2, ErrStep, NothingBuffered DEF Whole
<1>4. OutputTypes'
  BY <1>2, <1>3 DEF OutputInv, OutputTypes, streamVars
<1>5. Course'
  BY <1>1, <1>2 DEF OutputInv, Course, streamVars
<1>6. AllIsTold'
  <2>1. Said(Flushed.shown) \in Seq(Unit)
    BY <1>1, SaidUnits DEF ErrOK
  <2> QED
    BY <1>1, <1>2, <2>1, NothingBuffered DEF AllIsTold, Told
<1> QED
  BY <1>4, <1>5, <1>6 DEF OutputInv

-----------------------------------------------------------------------------
(* Those who write.                                                        *)

(* A write goes on, or over, what is there; what was read before its       *)
(* position stays.                                                         *)
LEMMA WritesGoOn ==
  ASSUME OutputInv, unwritten # <<>>, Writes(<<Head(unwritten)>>)
  PROVE  /\ written' \in Text /\ offset' \in 0..Len(written') /\ Tail(unwritten) \in Text
         /\ stream # "capture" =>
                offset' = offset /\ SubSeq(written', 1, offset) = SubSeq(written, 1, offset)
<1> DEFINE Units == {"hac", "man:", "text", "nl"}
<1>1. /\ written \in Seq(Units) /\ unwritten \in Seq(Units)
      /\ Len(written) \in Nat /\ offset \in 0..Len(written)
  BY DEF OutputInv, OutputTypes, Text
<1>2. Head(unwritten) \in Units /\ Tail(unwritten) \in Seq(Units)
  BY <1>1, HeadTailProperties
<1>3. PICK s \in Seq(Units) : s = <<Head(unwritten)>> /\ Len(s) = 1
  <2>1. ASSUME NEW S, NEW h \in S PROVE <<h>> \in Seq(S) /\ Len(<<h>>) = 1
    OBVIOUS
  <2> QED
    BY <1>2, <2>1
<1>4. CASE stream # "capture"
  <2>1. written' = written \o s /\ offset' = offset
    BY <1>3, <1>4 DEF Writes
  <2>2. written' \in Seq(Units) /\ Len(written') = Len(written) + 1
    BY <1>1, <1>3, <2>1, ConcatParts
  <2>3. SubSeq(written', 1, offset) = SubSeq(written, 1, offset)
    <3>1. CASE offset = 0
      BY <3>1, SubSeqEmpty
    <3>2. CASE offset # 0
      <4>1. 1 \in 1..Len(written) /\ offset \in 1..Len(written)
        BY <1>1, <3>2
      <4> QED
        BY <1>1, <1>3, <2>1, <4>1, SubSeqOfConcat1
    <3> QED
      BY <3>1, <3>2
  <2>4. offset' \in 0..Len(written')
    BY <1>1, <2>1, <2>2
  <2> QED
    BY <1>2, <2>1, <2>2, <2>3, <2>4 DEF Text
<1>5. CASE stream = "capture"
  <2>1. PICK before, after : /\ before = SubSeq(written, 1, offset)
                             /\ after = SubSeq(written, offset + 1 + 1, Len(written))
    OBVIOUS
  <2>2. before \in Seq(Units) /\ Len(before) = offset
    <3>1. \A k \in 1..offset : written[k] \in Units
      BY <1>1
    <3> QED
      BY <1>1, <2>1, <3>1, SubSeqProperties
  <2>3. after \in Seq(Units) /\ Len(after) \in Nat
    <3>1. \A k \in (offset + 1 + 1)..Len(written) : written[k] \in Units
      BY <1>1
    <3> QED
      BY <1>1, <2>1, <3>1, SubSeqProperties
  <2>4. written' = (before \o s) \o after /\ offset' = offset + 1
    BY <1>3, <1>5, <2>1 DEF Writes
  <2>5. before \o s \in Seq(Units) /\ Len(before \o s) = offset + 1
    BY <1>3, <2>2, ConcatParts
  <2>6. written' \in Seq(Units) /\ Len(written') = offset + 1 + Len(after)
    BY <2>3, <2>4, <2>5, ConcatParts
  <2>7. offset' \in 0..Len(written')
    BY <1>1, <2>3, <2>4, <2>6
  <2> QED
    BY <1>2, <1>5, <2>6, <2>7 DEF Text
<1> QED
  BY <1>4, <1>5

(* The terminal is left alone.                                             *)
LEMMA TerminalStays ==
  ASSUME OutputInv, UNCHANGED <<outFd, outBuf, err>>
  PROVE  Whole(outBuf)' /\ ErrOK(err)'
  BY ErrStep DEF OutputInv, OutputTypes, Whole

LEMMA ShellWritesKeeps == ASSUME OutputInv, ShellWrites PROVE OutputInv'
<1>1. /\ written' \in Text /\ offset' \in 0..Len(written') /\ unwritten' \in Text
      /\ stream # "capture" =>
                offset' = offset /\ SubSeq(written', 1, offset) = SubSeq(written, 1, offset)
  BY WritesGoOn DEF ShellWrites
<1>2. Whole(outBuf)' /\ ErrOK(err)'
  BY TerminalStays DEF ShellWrites
<1>3. UNCHANGED <<opc, outFd, outBuf, err, stream, holders, ending, spoken, messages, overwritten>>
  BY DEF ShellWrites
<1>4. opc # "replay"
  BY DEF ShellWrites, OutputInv, Course
<1>5. OutputTypes'
  BY <1>1, <1>2, <1>3 DEF OutputInv, OutputTypes
<1>6. Course' /\ AllIsTold'
  BY <1>1, <1>3, <1>4 DEF OutputInv, Course, AllIsTold, Told
<1> QED
  BY <1>5, <1>6 DEF OutputInv

LEMMA BackgroundWritesKeeps == ASSUME OutputInv, BackgroundWrites PROVE OutputInv'
<1>1. /\ written' \in Text /\ offset' \in 0..Len(written') /\ unwritten' \in Text
      /\ stream # "capture" =>
                offset' = offset /\ SubSeq(written', 1, offset) = SubSeq(written, 1, offset)
  BY WritesGoOn DEF BackgroundWrites
<1>2. Whole(outBuf)' /\ ErrOK(err)'
  BY TerminalStays DEF BackgroundWrites
<1>3. /\ UNCHANGED <<opc, outFd, outBuf, err, stream, holders, ending, spoken, messages>>
      /\ overwritten' = (overwritten \/ opc = "replay")
  BY DEF BackgroundWrites
<1>4. OutputTypes'
  BY <1>1, <1>2, <1>3 DEF OutputInv, OutputTypes
<1>5. Course' /\ AllIsTold'
  BY <1>1, <1>3 DEF OutputInv, Course, AllIsTold, Told
<1> QED
  BY <1>4, <1>5 DEF OutputInv

LEMMA EndingsKeep == ASSUME OutputInv, ShellEnds \/ BackgroundEnds PROVE OutputInv'
<1>1. Whole(outBuf)' /\ ErrOK(err)'
  BY TerminalStays DEF ShellEnds, BackgroundEnds
<1>2. /\ UNCHANGED <<opc, outFd, outBuf, err, stream, unwritten, written, offset, spoken,
                     messages, overwritten>>
      /\ holders' \subseteq {"first", "background"} /\ "first" \notin holders'
      /\ ending' \in {"none", "ok", "failed"}
      /\ "first" \in holders \/ ending' = ending
  BY DEF ShellEnds, BackgroundEnds, OutputInv, OutputTypes
<1>3. OutputTypes'
  BY <1>1, <1>2 DEF OutputInv, OutputTypes
<1>4. Course' /\ AllIsTold'
  BY <1>2 DEF OutputInv, Course, AllIsTold, Told
<1> QED
  BY <1>3, <1>4 DEF OutputInv

-----------------------------------------------------------------------------
(* The whole.                                                              *)

LEMMA OutputInvInit == OutputInit => OutputInv
<1> SUFFICES ASSUME OutputInit PROVE OutputInv
  OBVIOUS
<1> USE DEF OutputInit
<1>1. Whole(outBuf) /\ <<>> \in Text /\ <<>> \in Seq(Unit) /\ Ended(<<>>) /\ Len(<<>>) = 0
  BY NothingBuffered, EmptySeq DEF Text, Ended
<1>2. Said(<<>>) = <<>>
  BY <1>1, SaidUnits, EmptySeq
<1>3. ErrOK(err)
  <2>1. err.shown = <<>> /\ err.start = TRUE
    OBVIOUS
  <2>2. err \in [shown : Seq(Shown), start : BOOLEAN]
    BY EmptySeq
  <2>3. LinesAreMarked(err.shown)
    BY <2>1 DEF LinesAreMarked
  <2> QED
    BY <1>1, <1>2, <2>1, <2>2, <2>3 DEF ErrOK
<1>4. OutputTypes
  <2>1. unwritten \in Text /\ written \in Text /\ spoken \in Seq(Unit) /\ Ended(spoken)
    BY <1>1
  <2>2. offset \in 0..Len(written)
    BY <1>1
  <2>3. opc = "main" /\ outFd \in {1, 2} /\ stream = "none" /\ holders = {} /\ ending = "none"
    OBVIOUS
  <2>4. messages \in Nat /\ overwritten \in BOOLEAN
    OBVIOUS
  <2> HIDE DEF OutputInit
  <2> QED
    BY <1>1, <1>3, <2>1, <2>2, <2>3, <2>4 DEF OutputTypes
<1>5. Course /\ AllIsTold
  BY <1>1, <1>2, NothingBuffered DEF Course, AllIsTold, Told
<1> QED
  BY <1>4, <1>5 DEF OutputInv

LEMMA OutputInvStep == OutputInv /\ [OutputNext]_outputVars => OutputInv'
<1> SUFFICES ASSUME OutputInv, [OutputNext]_outputVars PROVE OutputInv'
  OBVIOUS
<1>1. CASE UNCHANGED outputVars
  BY <1>1, NothingSaid
<1>2. CASE \E m \in Statuses : Report(m)
  BY <1>2, ReportKeeps
<1>3. CASE \E m \in Notes : Complain(m)
  BY <1>3, ComplainKeeps
<1>4. CASE \E kind \in {"curl", "trace", "capture"}, text \in Outputs : BeginStream(kind, text)
  BY <1>4, BeginStreamKeeps
<1>5. CASE Relay
  BY <1>5, RelayKeeps
<1>6. CASE RelayEnds \/ ReplayEnds
  BY <1>6, EndsKeep
<1>7. CASE Discard
  BY <1>7, DiscardKeeps
<1>8. CASE Rewind
  BY <1>8, RewindKeeps
<1>9. CASE Replay
  BY <1>9, ReplayKeeps
<1>10. CASE Diagnose
  BY <1>10, DiagnoseKeeps
<1>11. CASE GoOn
  BY <1>11, GoOnKeeps
<1>12. CASE HandOver
  BY <1>12, HandOverKeeps
<1>13. CASE ShellWrites
  BY <1>13, ShellWritesKeeps
<1>14. CASE BackgroundWrites
  BY <1>14, BackgroundWritesKeeps
<1>15. CASE ShellEnds \/ BackgroundEnds
  BY <1>15, EndingsKeep
<1> QED
  BY <1>1, <1>2, <1>3, <1>4, <1>5, <1>6, <1>7, <1>8, <1>9, <1>10, <1>11, <1>12, <1>13, <1>14,
     <1>15 DEF OutputNext

(* Whatever setups and curl write, however it is cut into reads, and       *)
(* whenever they end: every line on the terminal carries hacman's mark,    *)
(* and once a stream was shown, all that was said is there, in order.      *)
THEOREM OutputIsShownAsSaid == OutputSpec => []ShownAsSaid
<1>1. OutputSpec => []OutputInv
  BY OutputInvInit, OutputInvStep, PTL DEF OutputSpec
<1> QED
  BY <1>1, OutputInvShows, PTL
=============================================================================
