---------------------------- MODULE FetchProofs -----------------------------
(***************************************************************************)
(* The properties of Fetch.tla for every response, and any sizes of the    *)
(* buffer, the pipes and the mark.                                         *)
(***************************************************************************)
EXTENDS Fetch, SequenceTheorems, WellFoundedInduction, TLAPS

Forked == fpc \in {"poll", "readOut", "readErr", "wait"}
Ended == curl \in {"ended", "reaped"}

(* Who holds which end of a pipe.                                          *)
EndsInv ==
    /\ fpc = "pipe" => delivered = 0
    /\ fpc \in {"pipe", "pipe2", "fork"} => curl = "none" /\ inPipe = [e \in Pipe |-> 0]
    /\ fpc = "pipe" => readers = NoEnds /\ writers = NoEnds
    /\ Forked => /\ curl # "none" /\ \A e \in Pipe : writers[e] = IF Ended THEN {} ELSE {"curl"}
    /\ fpc \in {"wait", "done"} => \A e \in Pipe : "hacman" \notin readers[e] \cup writers[e]
    /\ fpc = "done" => curl \in {"none", "ended", "reaped"}

(* What poll() saw of a pipe still holds: only hacman takes out of it.     *)
ReadyInv ==
    \A e \in Pipe :
        (fpc = "readOut" \/ (fpc = "readErr" /\ e = "err")) /\ e \in ready =>
            "hacman" \in readers[e] /\ (inPipe[e] > 0 \/ Ended)

(* What hacman has read of the answer and of the complaints, and what it   *)
(* has seen of them when it has closed a pipe.                             *)
Taken == delivered - inPipe["out"]
StreamInv ==
    /\ inPipe["out"] <= delivered /\ inPipe["err"] <= said
    /\ body = SubSeq(resp, 1, Len(body))
    /\ Len(body) = IF Taken < BodyMax - 1 THEN Taken ELSE BodyMax - 1
    /\ relayed = said - inPipe["err"]
    /\ status = "zero" => Ended /\ delivered = Len(resp)
    /\ \A e \in Pipe :
          Forked /\ "hacman" \notin readers[e] /\ ~cutShort => Ended /\ inPipe[e] = 0

(* What was decided at the end.                                            *)
MarkInv ==
    /\ fpc # "done" => mark = Fail
    /\ fpc = "done" /\ curl = "reaped" /\ ~cutShort => \A e \in Pipe : inPipe[e] = 0
    /\ fpc = "done" /\ mark # Fail =>
          curl = "reaped" /\ status = "zero" /\ mark = MarkOf(check, body)

FetchInv == FetchTypeOK /\ EndsInv /\ ReadyInv /\ StreamInv /\ MarkInv
-----------------------------------------------------------------------------
(* What any step has to show.                                              *)

LEMMA RespIsUnits == ASSUME FetchTypeOK PROVE resp \in Seq(Unit) /\ Len(resp) \in Nat
<1>1. resp \in Seq(Unit)
  <2>1. CASE resp = <<>>
    BY <2>1
  <2>2. CASE resp \in Responses
    BY <2>2, FetchAssumption
  <2> QED
    BY <2>1, <2>2 DEF FetchTypeOK
<1> QED
  BY <1>1

(* A step that reads nothing and writes nothing.                           *)
LEMMA NothingMoves ==
    ASSUME FetchInv, UNCHANGED <<resp, body, relayed, inPipe, delivered, said>>,
           status' = "zero" => Ended' /\ delivered = Len(resp),
           \A e \in Pipe : Forked' /\ "hacman" \notin readers'[e] /\ ~cutShort' =>
                               Ended' /\ inPipe[e] = 0
    PROVE  StreamInv'
BY DEF FetchInv, StreamInv, Taken

-----------------------------------------------------------------------------
(* hacman.                                                                 *)

LEMMA AskKeeps ==
    ASSUME FetchInv, NEW c \in Check, NEW r \in Responses, AskServer(c, r)
    PROVE  FetchInv'
<1> USE DEF FetchInv, AskServer, FGoto, OpenPipe, keptVars, curlVars
<1>1. FetchTypeOK'
  BY DEF FetchTypeOK, EndsInv, Pipe
<1>2. EndsInv'
  BY DEF EndsInv, Forked, Ended
<1>3. ReadyInv' /\ MarkInv'
  BY DEF ReadyInv, MarkInv, EndsInv
<1>4. StreamInv'
  <2>1. delivered = 0 /\ inPipe["out"] = 0 /\ ~Ended
    BY DEF EndsInv, Ended, Pipe
  <2>2. Len(body) = 0
    BY <2>1, FetchAssumption DEF StreamInv, Taken
  <2>3. body = <<>> /\ SubSeq(resp', 1, 0) = <<>>
    <3>1. body \in Seq(Unit) /\ resp' \in Seq(Unit)
      BY <1>1, FetchAssumption DEF FetchTypeOK
    <3> QED
      BY <2>2, <3>1
  <2> QED
    BY <2>1, <2>2, <2>3 DEF StreamInv, Taken, Ended, Forked
<1> QED
  BY <1>1, <1>2, <1>3, <1>4

LEMMA OpenStderrKeeps == ASSUME FetchInv, OpenStderr PROVE FetchInv'
<1> USE DEF FetchInv, OpenStderr, FGoto, OpenPipe, askedVars, keptVars, curlVars
<1>1. FetchTypeOK'
  BY DEF FetchTypeOK, Pipe
<1>2. EndsInv'
  BY DEF EndsInv, Forked, Ended
<1>3. ReadyInv' /\ MarkInv'
  BY DEF ReadyInv, MarkInv
<1>4. StreamInv'
  BY NothingMoves DEF StreamInv, Ended, Forked
<1> QED
  BY <1>1, <1>2, <1>3, <1>4

LEMMA OpenFailsKeeps == ASSUME FetchInv, OpenFails PROVE FetchInv'
<1> USE DEF FetchInv, OpenFails, FGoto, NoEnds, askedVars, keptVars, curlVars
<1>1. FetchTypeOK'
  BY DEF FetchTypeOK, Pipe
<1>2. EndsInv'
  BY DEF EndsInv, Forked, Ended
<1>3. ReadyInv' /\ MarkInv'
  BY DEF ReadyInv, MarkInv, EndsInv
<1>4. StreamInv'
  BY NothingMoves DEF StreamInv, Ended, Forked
<1> QED
  BY <1>1, <1>2, <1>3, <1>4

LEMMA ForkCurlKeeps == ASSUME FetchInv, ForkCurl PROVE FetchInv'
<1> USE DEF FetchInv, ForkCurl, FGoto, askedVars, keptVars
<1>1. FetchTypeOK'
  BY DEF FetchTypeOK, Pipe
<1>2. EndsInv'
  BY DEF EndsInv, Forked, Ended
<1>3. ReadyInv' /\ MarkInv'
  BY DEF ReadyInv, MarkInv
<1>4. StreamInv'
  BY NothingMoves DEF StreamInv, EndsInv, Ended, Forked
<1> QED
  BY <1>1, <1>2, <1>3, <1>4

LEMMA PollKeeps == ASSUME FetchInv, Poll PROVE FetchInv'
<1> USE DEF FetchInv, Poll, FGoto, askedVars, keptVars, curlVars, pipeVars
<1>1. FetchTypeOK'
  BY DEF FetchTypeOK, Pipe, Open
<1>2. EndsInv'
  BY DEF EndsInv, Forked, Ended, Open
<1>3. ReadyInv'
  BY DEF ReadyInv, EndsInv, Forked, Ended, Open, Readable
<1>4. MarkInv'
  BY DEF MarkInv
<1>5. StreamInv'
  BY NothingMoves DEF StreamInv, Ended, Forked
<1> QED
  BY <1>1, <1>2, <1>3, <1>4, <1>5

LEMMA PollFailsKeeps == ASSUME FetchInv, PollFails PROVE FetchInv'
<1> USE DEF FetchInv, PollFails, FGoto, askedVars, curlVars
<1>1. FetchTypeOK'
  BY DEF FetchTypeOK, Pipe
<1>2. EndsInv'
  BY DEF EndsInv, Forked, Ended
<1>3. ReadyInv' /\ MarkInv'
  BY DEF ReadyInv, MarkInv
<1>4. StreamInv'
  BY NothingMoves DEF StreamInv, Ended, Forked
<1> QED
  BY <1>1, <1>2, <1>3, <1>4

(* What is kept is a prefix of the answer; what is over is dropped.        *)
LEMMA KeepsAPrefix ==
    ASSUME FetchInv, NEW n \in 1..inPipe["out"], Full \/ RoomFor(n), resp' = resp,
           delivered' = delivered, inPipe' = [inPipe EXCEPT !["out"] = @ - n],
           body' = IF Full THEN body ELSE body \o Arrived(n)
    PROVE  /\ body' \in Seq(Unit) /\ body' = SubSeq(resp, 1, Len(body'))
           /\ Taken' = Taken + n
           /\ Len(body') = IF Taken' < BodyMax - 1 THEN Taken' ELSE BodyMax - 1
<1> USE DEF FetchInv
<1>1. /\ inPipe["out"] \in Nat /\ delivered \in 0..Len(resp) /\ inPipe["out"] <= delivered
      /\ n \in Nat /\ n <= inPipe["out"] /\ BodyMax - 1 \in Nat
      /\ resp \in Seq(Unit) /\ Len(resp) \in Nat
  BY RespIsUnits, FetchAssumption DEF FetchTypeOK, StreamInv, Pipe
<1>2. Taken \in Nat /\ Taken' = Taken + n /\ Taken + n <= Len(resp)
  BY <1>1 DEF Taken, FetchTypeOK, Pipe
<1>3. CASE Full
  <2>1. body' = body /\ Len(body) = BodyMax - 1
    BY <1>1, <1>2, <1>3 DEF StreamInv, Full
  <2> QED
    BY <1>1, <1>2, <1>3, <2>1 DEF StreamInv, FetchTypeOK
<1>4. CASE ~Full
  <2>1. Len(body) = Taken /\ body = SubSeq(resp, 1, Taken) /\ Taken + n <= BodyMax - 1
    BY <1>1, <1>2, <1>4 DEF StreamInv, Full, RoomFor
  <2>2. Arrived(n) = SubSeq(resp, Taken + 1, Taken + n)
    BY DEF Arrived, Taken
  <2>3. body' = SubSeq(resp, 1, Taken + n)
    <3>1. 1 \in 1..(Len(resp) + 1) /\ Taken \in (1 - 1)..Len(resp) /\ Taken + n \in Taken..Len(resp)
      BY <1>1, <1>2
    <3> QED
      BY <1>1, <1>4, <2>1, <2>2, <3>1, ConcatAdjacentSubSeq
  <2> DEFINE k == Taken + n
  <2>4. k \in Nat /\ k <= BodyMax - 1 /\ Taken' = k /\ \A i \in 1..k : resp[i] \in Unit
    BY <1>1, <1>2, <2>1
  <2>5. body' = SubSeq(resp, 1, k)
    BY <2>3
  <2> HIDE DEF k
  <2>6. SubSeq(resp, 1, k) \in Seq(Unit) /\ Len(SubSeq(resp, 1, k)) = k
    BY <2>4, SubSeqProperties
  <2>7. body' \in Seq(Unit) /\ Len(body') = k
    BY <2>5, <2>6
  <2>8. body' = SubSeq(resp, 1, Len(body'))
    BY <2>5, <2>7
  <2>9. Len(body') = IF Taken' < BodyMax - 1 THEN Taken' ELSE BodyMax - 1
    BY <1>1, <2>4, <2>7
  <2> QED
    BY <1>2, <2>7, <2>8, <2>9
<1> QED
  BY <1>3, <1>4

LEMMA ReadOutKeeps == ASSUME FetchInv, ReadOut PROVE FetchInv'
<1> USE DEF FetchInv
<1>0. /\ fpc = "readOut" /\ "out" \in ready /\ fpc' = "readErr"
      /\ UNCHANGED <<check, resp, ready, relayed, mark, curl, status, delivered, said, writers>>
      /\ "hacman" \in readers["out"] /\ (inPipe["out"] > 0 \/ Ended)
  BY DEF ReadOut, FGoto, askedVars, curlVars, ReadyInv, Pipe
<1>1. \A e \in Pipe : inPipe[e] \in 0..PipeSize /\ readers[e] \in SUBSET {"hacman", "curl"}
  BY DEF FetchTypeOK
<1>2. CASE \E n \in 1..inPipe["out"] :
              /\ Full \/ RoomFor(n)
              /\ body' = IF Full THEN body ELSE body \o Arrived(n)
              /\ Drain("out", n) /\ UNCHANGED <<cutShort, readers>>
  <2>1. PICK n \in 1..inPipe["out"] :
              /\ Full \/ RoomFor(n)
              /\ body' = IF Full THEN body ELSE body \o Arrived(n)
              /\ inPipe' = [inPipe EXCEPT !["out"] = @ - n] /\ UNCHANGED <<cutShort, readers>>
    BY <1>2 DEF Drain
  <2>2. /\ body' \in Seq(Unit) /\ body' = SubSeq(resp, 1, Len(body'))
        /\ Taken' = Taken + n
        /\ Len(body') = IF Taken' < BodyMax - 1 THEN Taken' ELSE BodyMax - 1
    BY <1>0, <2>1, KeepsAPrefix
  <2>3. /\ inPipe'["out"] = inPipe["out"] - n /\ inPipe'["err"] = inPipe["err"]
        /\ n \in Nat /\ n >= 1 /\ n <= inPipe["out"] /\ PipeSize \in Nat
        /\ delivered \in Nat
    BY <1>1, <2>1, FetchAssumption DEF FetchTypeOK, Pipe
  <2>4. Taken' \in Int
    BY <1>0, <1>1, <2>3 DEF Taken, FetchTypeOK, Pipe
  <2>5. FetchTypeOK'
    <3>1. inPipe' \in [Pipe -> 0..PipeSize]
      BY <1>1, <2>1, <2>3 DEF FetchTypeOK, Pipe
    <3>2. Len(body') < BodyMax
      BY <2>2, <2>4, FetchAssumption
    <3> QED
      BY <1>0, <2>1, <2>2, <3>1, <3>2 DEF FetchTypeOK
  <2>6. EndsInv' /\ ReadyInv' /\ MarkInv'
    BY <1>0, <2>1, <2>3 DEF EndsInv, ReadyInv, MarkInv, Forked, Ended, Pipe
  <2>7. StreamInv'
    <3>1. inPipe'["out"] <= delivered'
      BY <1>0, <1>1, <2>3 DEF StreamInv, Pipe
    <3>2. \A e \in Pipe : Forked' /\ "hacman" \notin readers'[e] /\ ~cutShort' =>
              Ended' /\ inPipe'[e] = 0
      BY <1>0, <2>1, <2>3 DEF StreamInv, Forked, Ended, Pipe
    <3> QED
      BY <1>0, <2>2, <2>3, <3>1, <3>2 DEF StreamInv, Ended
  <2> QED
    BY <2>5, <2>6, <2>7
<1>3. CASE /\ CloseRead("out") /\ UNCHANGED <<body, inPipe>>
           /\ cutShort' \/ (inPipe["out"] = 0 /\ cutShort' = cutShort)
           /\ cutShort' \in BOOLEAN
  <2>1. /\ readers' = [readers EXCEPT !["out"] = @ \ {"hacman"}]
        /\ body' = body /\ inPipe' = inPipe
        /\ ~cutShort' => inPipe["out"] = 0 /\ ~cutShort /\ Ended
    BY <1>0, <1>1, <1>3 DEF CloseRead, Pipe
  <2>2. FetchTypeOK'
    BY <1>0, <1>1, <1>3, <2>1 DEF FetchTypeOK, Pipe
  <2>3. EndsInv' /\ ReadyInv' /\ MarkInv'
    BY <1>0, <1>1, <2>1 DEF EndsInv, ReadyInv, MarkInv, Forked, Ended, Pipe, FetchTypeOK
  <2>4. StreamInv'
    <3>1. \A e \in Pipe : Forked' /\ "hacman" \notin readers'[e] /\ ~cutShort' =>
              Ended' /\ inPipe[e] = 0
      BY <1>0, <2>1 DEF StreamInv, Forked, Ended, Pipe, FetchTypeOK
    <3> QED
      BY <1>0, <2>1, <3>1, NothingMoves DEF StreamInv, Ended
  <2> QED
    BY <2>2, <2>3, <2>4
<1> QED
  BY <1>0, <1>2, <1>3 DEF ReadOut, FetchTypeOK

LEMMA SkipOutKeeps == ASSUME FetchInv, SkipOut PROVE FetchInv'
<1> USE DEF FetchInv, SkipOut, FGoto, askedVars, keptVars, curlVars, pipeVars
<1>1. FetchTypeOK' /\ EndsInv' /\ ReadyInv' /\ MarkInv'
  BY DEF FetchTypeOK, EndsInv, ReadyInv, MarkInv, Forked, Ended, Pipe
<1>2. StreamInv'
  BY NothingMoves DEF StreamInv, Ended, Forked
<1> QED
  BY <1>1, <1>2

LEMMA ReadErrKeeps == ASSUME FetchInv, ReadErr PROVE FetchInv'
<1> USE DEF FetchInv
<1>0. /\ fpc = "readErr" /\ "err" \in ready /\ fpc' = "poll"
      /\ UNCHANGED <<check, resp, ready, body, mark, curl, status, delivered, said, writers>>
      /\ "hacman" \in readers["err"] /\ (inPipe["err"] > 0 \/ Ended)
  BY DEF ReadErr, FGoto, askedVars, curlVars, ReadyInv, Pipe
<1>1. /\ \A e \in Pipe : inPipe[e] \in 0..PipeSize /\ readers[e] \in SUBSET {"hacman", "curl"}
      /\ relayed \in Nat /\ relayed = said - inPipe["err"] /\ said \in 0..Complaint
      /\ Complaint \in Nat /\ PipeSize \in Nat
  BY FetchAssumption DEF FetchTypeOK, StreamInv
<1>2. CASE (\E n \in 1..inPipe["err"] : Drain("err", n) /\ relayed' = relayed + n)
           /\ UNCHANGED <<cutShort, readers>>
  <2>1. PICK n \in 1..inPipe["err"] :
              inPipe' = [inPipe EXCEPT !["err"] = @ - n] /\ relayed' = relayed + n
              /\ UNCHANGED <<cutShort, readers>>
    BY <1>2 DEF Drain
  <2>2. /\ inPipe'["err"] = inPipe["err"] - n /\ inPipe'["out"] = inPipe["out"]
        /\ n \in Nat /\ n >= 1 /\ n <= inPipe["err"]
    BY <1>1, <2>1 DEF FetchTypeOK, Pipe
  <2>3. FetchTypeOK'
    <3>1. inPipe' \in [Pipe -> 0..PipeSize]
      BY <1>1, <2>1, <2>2 DEF FetchTypeOK, Pipe
    <3>2. relayed' \in 0..Complaint
      BY <1>1, <2>1, <2>2 DEF Pipe
    <3> QED
      BY <1>0, <2>1, <3>1, <3>2 DEF FetchTypeOK
  <2>4. EndsInv' /\ ReadyInv' /\ MarkInv'
    BY <1>0, <2>1, <2>2 DEF EndsInv, ReadyInv, MarkInv, Forked, Ended, Pipe
  <2>5. StreamInv'
    <3>1. \A e \in Pipe : Forked' /\ "hacman" \notin readers'[e] /\ ~cutShort' =>
              Ended' /\ inPipe'[e] = 0
      BY <1>0, <2>1, <2>2 DEF StreamInv, Forked, Ended, Pipe
    <3>2. relayed' = said' - inPipe'["err"] /\ inPipe'["err"] <= said'
      BY <1>0, <1>1, <2>1, <2>2 DEF Pipe
    <3> QED
      BY <1>0, <2>2, <3>1, <3>2 DEF StreamInv, Ended, Taken
  <2> QED
    BY <2>3, <2>4, <2>5
<1>3. CASE /\ CloseRead("err") /\ UNCHANGED <<relayed, inPipe>>
           /\ cutShort' \/ (inPipe["err"] = 0 /\ cutShort' = cutShort)
           /\ cutShort' \in BOOLEAN
  <2>1. /\ readers' = [readers EXCEPT !["err"] = @ \ {"hacman"}]
        /\ relayed' = relayed /\ inPipe' = inPipe
        /\ ~cutShort' => inPipe["err"] = 0 /\ ~cutShort /\ Ended
    BY <1>0, <1>1, <1>3 DEF CloseRead, Pipe
  <2>2. FetchTypeOK'
    BY <1>0, <1>1, <1>3, <2>1 DEF FetchTypeOK, Pipe
  <2>3. EndsInv' /\ ReadyInv' /\ MarkInv'
    BY <1>0, <1>1, <2>1 DEF EndsInv, ReadyInv, MarkInv, Forked, Ended, Pipe, FetchTypeOK
  <2>4. StreamInv'
    <3>1. \A e \in Pipe : Forked' /\ "hacman" \notin readers'[e] /\ ~cutShort' =>
              Ended' /\ inPipe[e] = 0
      BY <1>0, <2>1 DEF StreamInv, Forked, Ended, Pipe, FetchTypeOK
    <3> QED
      BY <1>0, <2>1, <3>1, NothingMoves DEF StreamInv, Ended
  <2> QED
    BY <2>2, <2>3, <2>4
<1> QED
  BY <1>0, <1>2, <1>3 DEF ReadErr, FetchTypeOK

LEMMA SkipErrKeeps == ASSUME FetchInv, SkipErr PROVE FetchInv'
<1> USE DEF FetchInv, SkipErr, FGoto, askedVars, keptVars, curlVars, pipeVars
<1>1. FetchTypeOK' /\ EndsInv' /\ ReadyInv' /\ MarkInv'
  BY DEF FetchTypeOK, EndsInv, ReadyInv, MarkInv, Forked, Ended, Pipe
<1>2. StreamInv'
  BY NothingMoves DEF StreamInv, Ended, Forked
<1> QED
  BY <1>1, <1>2

LEMMA TakeMarkKeeps == ASSUME FetchInv, TakeMark PROVE FetchInv'
<1> USE DEF FetchInv, TakeMark, FGoto, askedVars, pipeVars
<1>1. FetchTypeOK'
  BY DEF FetchTypeOK
<1>2. EndsInv' /\ ReadyInv'
  BY DEF EndsInv, ReadyInv, Forked, Ended
<1>3. MarkInv'
  BY DEF MarkInv, EndsInv, StreamInv, Forked
<1>4. StreamInv'
  BY NothingMoves DEF StreamInv, Ended, Forked
<1> QED
  BY <1>1, <1>2, <1>3, <1>4

LEMMA WaitFailsKeeps == ASSUME FetchInv, WaitFails PROVE FetchInv'
<1> USE DEF FetchInv, WaitFails, FGoto, askedVars, keptVars, curlVars, pipeVars
<1>1. FetchTypeOK' /\ EndsInv' /\ ReadyInv' /\ MarkInv'
  BY DEF FetchTypeOK, EndsInv, ReadyInv, MarkInv, Forked, Ended
<1>2. StreamInv'
  BY NothingMoves DEF StreamInv, Ended, Forked
<1> QED
  BY <1>1, <1>2

-----------------------------------------------------------------------------
(* curl.                                                                   *)

LEMMA ExecCurlKeeps == ASSUME FetchInv, ExecCurl PROVE FetchInv'
<1> USE DEF FetchInv, ExecCurl, fetcherVars, askedVars, keptVars
<1>1. FetchTypeOK'
  BY DEF FetchTypeOK, Pipe
<1>2. EndsInv' /\ ReadyInv' /\ MarkInv'
  BY DEF EndsInv, ReadyInv, MarkInv, Forked, Ended, FetchTypeOK
<1>3. StreamInv'
  <2>1. \A e \in Pipe : "hacman" \in readers[e] => "hacman" \in readers'[e]
    BY DEF FetchTypeOK
  <2> QED
    BY <2>1, NothingMoves DEF StreamInv, Ended, Forked
<1> QED
  BY <1>1, <1>2, <1>3

LEMMA CurlEndsKeeps ==
    ASSUME FetchInv, NEW how \in {"zero", "nonzero", "signal"}, CurlEnds(how),
           curl \in {"forked", "running"} \cup Pipe, how = "zero" => delivered = Len(resp)
    PROVE  FetchInv'
<1> USE DEF FetchInv, CurlEnds, fetcherVars, askedVars, keptVars
<1>0. ~Ended /\ Ended' /\ (Forked' <=> Forked) /\ fpc' = fpc
  BY DEF Ended, Forked, Pipe
<1>1. FetchTypeOK'
  BY DEF FetchTypeOK, Pipe
<1>2. Forked
  BY <1>0 DEF EndsInv, Forked, FetchTypeOK, Pipe
<1>3. EndsInv' /\ ReadyInv' /\ MarkInv'
  BY <1>0, <1>2 DEF EndsInv, ReadyInv, MarkInv, Forked, FetchTypeOK
<1>4. StreamInv'
  <2>1. \A e \in Pipe : "hacman" \in readers[e] => "hacman" \in readers'[e]
    BY DEF FetchTypeOK
  <2> QED
    BY <1>0, <2>1, NothingMoves DEF StreamInv
<1> QED
  BY <1>1, <1>3, <1>4

LEMMA CurlBeginsKeeps == ASSUME FetchInv, NEW e \in Pipe, CurlBegins(e) PROVE FetchInv'
<1> USE DEF FetchInv, CurlBegins, fetcherVars, askedVars, keptVars, pipeVars
<1>0. ~Ended /\ ~Ended' /\ (Forked' <=> Forked)
  BY DEF Ended, Forked, Pipe
<1>1. FetchTypeOK' /\ EndsInv' /\ ReadyInv' /\ MarkInv'
  BY <1>0 DEF FetchTypeOK, EndsInv, ReadyInv, MarkInv, Forked, Pipe
<1>2. StreamInv'
  BY <1>0, NothingMoves DEF StreamInv
<1> QED
  BY <1>1, <1>2

LEMMA CurlWritesKeeps == ASSUME FetchInv, NEW e \in Pipe, CurlWrites(e) PROVE FetchInv'
<1> USE DEF FetchInv, fetcherVars, askedVars, keptVars
<1>1. PICK n \in 1..(PipeSize - inPipe[e]) :
          /\ n <= Unwritten(e)
          /\ inPipe' = [inPipe EXCEPT ![e] = @ + n]
          /\ IF e = "out" THEN delivered' = delivered + n /\ UNCHANGED said
             ELSE said' = said + n /\ UNCHANGED delivered
  BY DEF CurlWrites
<1>2. /\ UNCHANGED <<fpc, check, resp, ready, body, relayed, mark, cutShort, status, readers, writers>>
      /\ curl = e /\ curl' = "running" /\ ~Ended /\ ~Ended' /\ (Forked' <=> Forked)
  BY DEF CurlWrites, Ended, Forked, Pipe
<1>3. /\ inPipe \in [Pipe -> 0..PipeSize] /\ PipeSize \in Nat /\ n \in Nat /\ n >= 1
      /\ delivered \in 0..Len(resp) /\ said \in 0..Complaint /\ Complaint \in Nat
      /\ Len(resp) \in Nat
  BY <1>1, RespIsUnits, FetchAssumption DEF FetchTypeOK
<1>4. inPipe' \in [Pipe -> 0..PipeSize]
  BY <1>1, <1>3
<1>5. delivered' \in 0..Len(resp) /\ said' \in 0..Complaint
  BY <1>1, <1>3 DEF Unwritten
<1>6. FetchTypeOK'
  BY <1>2, <1>4, <1>5 DEF FetchTypeOK
<1>7. Forked
  BY <1>2 DEF EndsInv, Forked, FetchTypeOK, Pipe, Ended
<1>8. EndsInv' /\ MarkInv'
  BY <1>2, <1>7 DEF EndsInv, MarkInv, Forked
<1>9. ReadyInv'
  BY <1>1, <1>2, <1>3 DEF ReadyInv
<1>10. StreamInv'
  <2>1. CASE e = "out"
    <3>1. inPipe'["out"] = inPipe["out"] + n /\ inPipe'["err"] = inPipe["err"]
          /\ delivered' = delivered + n /\ said' = said
      BY <1>1, <1>3, <2>1 DEF Pipe
    <3>2. Taken' = Taken
      BY <1>3, <3>1 DEF Taken, Pipe
    <3> QED
      BY <1>2, <1>3, <3>1, <3>2 DEF StreamInv, Pipe
  <2>2. CASE e = "err"
    <3>1. inPipe'["err"] = inPipe["err"] + n /\ inPipe'["out"] = inPipe["out"]
          /\ said' = said + n /\ delivered' = delivered
      BY <1>1, <1>3, <2>2 DEF Pipe
    <3>2. Taken' = Taken /\ said' - inPipe'["err"] = said - inPipe["err"]
      BY <1>3, <3>1 DEF Taken, Pipe
    <3> QED
      BY <1>2, <1>3, <3>1, <3>2 DEF StreamInv, Pipe
  <2> QED
    BY <2>1, <2>2 DEF Pipe
<1> QED
  BY <1>6, <1>8, <1>9, <1>10

-----------------------------------------------------------------------------
(* The whole.                                                              *)

LEMMA FetchInvInit == FetchInit => FetchInv
<1> SUFFICES ASSUME FetchInit PROVE FetchInv
  OBVIOUS
<1>1. FetchTypeOK
  <2>1. <<>> \in Seq(Unit) /\ Len(<<>>) = 0
    OBVIOUS
  <2>2. body = <<>> /\ resp = <<>> /\ delivered = 0 /\ said = 0 /\ relayed = 0
    BY DEF FetchInit
  <2>3. /\ body \in Seq(Unit) /\ Len(body) < BodyMax
        /\ relayed \in 0..Complaint /\ said \in 0..Complaint /\ delivered \in 0..Len(resp)
    BY <2>1, <2>2, FetchAssumption
  <2>4. inPipe \in [Pipe -> 0..PipeSize]
    BY FetchAssumption DEF FetchInit
  <2>5. /\ readers \in [Pipe -> SUBSET {"hacman", "curl"}]
        /\ writers \in [Pipe -> SUBSET {"hacman", "curl"}]
    BY DEF FetchInit
  <2> QED
    BY <2>2, <2>3, <2>4, <2>5 DEF FetchInit, FetchTypeOK, Check
<1>2. EndsInv /\ ReadyInv /\ MarkInv
  BY DEF FetchInit, EndsInv, ReadyInv, MarkInv, Forked, NoEnds
<1>3. StreamInv
  <2>1. SubSeq(<<>>, 1, 0) = <<>>
    OBVIOUS
  <2> QED
    BY <2>1, FetchAssumption DEF FetchInit, StreamInv, Forked, Taken, Pipe
<1> QED
  BY <1>1, <1>2, <1>3 DEF FetchInv

LEMMA FetchInvStep == FetchInv /\ [FetchNext]_fetchVars => FetchInv'
<1> SUFFICES ASSUME FetchInv, [FetchNext]_fetchVars PROVE FetchInv'
  OBVIOUS
<1>1. ASSUME NEW c \in Check, NEW r \in Responses, AskServer(c, r) PROVE FetchInv'
  BY <1>1, AskKeeps
<1>2. CASE Fetching
  BY <1>2, OpenStderrKeeps, ForkCurlKeeps, PollKeeps, ReadOutKeeps, SkipOutKeeps, ReadErrKeeps,
     SkipErrKeeps, TakeMarkKeeps DEF Fetching
<1>3. CASE FetchFails
  BY <1>3, OpenFailsKeeps, PollFailsKeeps, WaitFailsKeeps DEF FetchFails
<1>4. CASE CurlSucceeds \/ CurlFails \/ ExecCurlFails \/ CurlKilled
  <2>1. CASE CurlSucceeds
    BY <2>1, CurlEndsKeeps DEF CurlSucceeds
  <2>2. CASE CurlFails \/ ExecCurlFails \/ CurlKilled
    BY <2>2, CurlEndsKeeps DEF CurlFails, ExecCurlFails, CurlKilled
  <2> QED
    BY <1>4, <2>1, <2>2
<1>5. CASE Curl
  BY <1>4, <1>5, ExecCurlKeeps, CurlBeginsKeeps, CurlWritesKeeps DEF Curl
<1>6. CASE UNCHANGED fetchVars
  BY <1>6 DEF fetchVars, fetcherVars, askedVars, keptVars, curlVars, pipeVars, FetchInv,
              FetchTypeOK, EndsInv, ReadyInv, StreamInv, MarkInv, Forked, Ended, Taken
<1> QED
  BY <1>1, <1>2, <1>3, <1>4, <1>5, <1>6 DEF FetchNext

LEMMA AlwaysFetchInv == FetchSpec => []FetchInv
<1> QED
  BY FetchInvInit, FetchInvStep, PTL DEF FetchSpec

(* However the reads fall, the body stays within its buffer, with room for *)
(* the byte that ends it, and everything else in its domain (run_curl()).  *)
THEOREM FetchTypesHold == FetchSpec => []FetchTypeOK
<1>1. FetchInv => FetchTypeOK
  BY DEF FetchInv
<1> QED
  BY <1>1, AlwaysFetchInv, PTL

(* Whichever pipe(), fork(), poll(), read() or waitpid() fails, hm_check() *)
(* returns with both ends of both pipes closed.                            *)
THEOREM NoDescriptorIsLeft == FetchSpec => []NoDescriptorLeft
<1>1. FetchInv => NoDescriptorLeft
  BY DEF FetchInv, EndsInv, NoDescriptorLeft
<1> QED
  BY <1>1, AlwaysFetchInv, PTL

(* Everything curl wrote to its standard error has been passed on when the *)
(* check ends, in whatever portions it came.                               *)
THEOREM ComplaintsAreAllPassedOn == FetchSpec => []ComplaintsPassedOn
<1>1. FetchInv => ComplaintsPassedOn
  BY DEF FetchInv, MarkInv, StreamInv, ComplaintsPassedOn, FetchTypeOK, Pipe
<1> QED
  BY <1>1, AlwaysFetchInv, PTL

LEMMA MinOfTwo ==
    ASSUME NEW a \in Nat, NEW b \in Nat
    PROVE  Min({a, b}) = IF a < b THEN a ELSE b
<1>1. (IF a < b THEN a ELSE b) \in {a, b}
  OBVIOUS
<1>2. \A y \in {a, b} : (IF a < b THEN a ELSE b) <= y
  OBVIOUS
<1>3. \A x \in {a, b} : (\A y \in {a, b} : x <= y) => x = IF a < b THEN a ELSE b
  OBVIOUS
<1> QED
  BY <1>1, <1>2, <1>3 DEF Min

(* A mark is what hm_check() extracts from the whole answer, as far as the *)
(* buffer goes, and only an answer curl delivered completely gives one.    *)
THEOREM MarksAreOfTheAnswer == FetchSpec => []MarkIsOfTheAnswer
<1>1. FetchInv => MarkIsOfTheAnswer
  <2> SUFFICES ASSUME FetchInv, fpc = "done", mark # Fail, ~cutShort
               PROVE  delivered = Len(resp) /\ mark = MarkOf(check, Kept(resp))
    BY DEF MarkIsOfTheAnswer
  <2>1. /\ delivered = Len(resp) /\ inPipe["out"] = 0 /\ mark = MarkOf(check, body)
        /\ delivered \in Nat
    BY RespIsUnits DEF FetchInv, MarkInv, StreamInv, Pipe
  <2>2. /\ body = SubSeq(resp, 1, Len(body))
        /\ Len(body) = IF Len(resp) < BodyMax - 1 THEN Len(resp) ELSE BodyMax - 1
    BY <2>1 DEF FetchInv, StreamInv, Taken
  <2>3. Len(body) = Min({Len(resp), BodyMax - 1})
    BY <2>1, <2>2, MinOfTwo, FetchAssumption
  <2> QED
    BY <2>1, <2>2, <2>3 DEF Kept
<1> QED
  BY <1>1, AlwaysFetchInv, PTL

-----------------------------------------------------------------------------
(* Extraction: what Find() and Trim() return.                              *)

LEMMA LeastExists ==
    ASSUME NEW S \in SUBSET Nat, S # {}
    PROVE  \E m \in S : \A k \in S : m <= k
<1> DEFINE R == OpToRel(<, Nat)
<1>1. \A x, y \in Nat : <<y, x>> \in R <=> y < x
  BY DEF OpToRel
<1>2. IsWellFoundedOn(R, Nat)
  BY NatLessThanWellFounded
<1> HIDE DEF R
<1>3. PICK m \in S : \A k \in S : <<k, m>> \notin R
  BY <1>2, WFMin
<1>4. ASSUME NEW k \in S PROVE m <= k
  <2>1. k \in Nat /\ m \in Nat
    OBVIOUS
  <2>2. ~(k < m)
    BY <1>1, <1>3, <2>1, Zenon
  <2> QED
    BY <2>1, <2>2
<1> QED
  BY <1>4

LEMMA MinIsLeast ==
    ASSUME NEW S \in SUBSET Nat, S # {}
    PROVE  Min(S) \in S /\ \A y \in S : Min(S) <= y
BY LeastExists DEF Min

LEMMA MaxIsGreatest ==
    ASSUME NEW N \in Nat, NEW S \in SUBSET (0..N), S # {}
    PROVE  Max(S) \in S /\ \A y \in S : y <= Max(S)
<1> DEFINE T == {N - k : k \in S}
<1>1. PICK n \in S : TRUE
  OBVIOUS
<1>2. T \in SUBSET Nat /\ N - n \in T
  OBVIOUS
<1>3. PICK m \in T : \A k \in T : m <= k
  <2> HIDE DEF T
  <2> QED
    BY <1>2, LeastExists
<1>4. PICK x \in S : m = N - x
  BY <1>3
<1>5. \A y \in S : y <= x
  <2> SUFFICES ASSUME NEW y \in S PROVE y <= x
    OBVIOUS
  <2>1. N - y \in T
    OBVIOUS
  <2>2. m <= N - y
    BY <1>3, <2>1
  <2> QED
    BY <1>4, <2>2
<1> QED
  BY <1>4, <1>5 DEF Max

LEMMA FindIsFirst ==
    ASSUME NEW b \in Seq(Unit), NEW i \in Nat \ {0}, i <= Len(b) + 1, NEW u
    PROVE  /\ Find(b, i, u) \in i..(Len(b) + 1)
           /\ \A j \in i..(Find(b, i, u) - 1) : b[j] # u
           /\ Find(b, i, u) <= Len(b) => b[Find(b, i, u)] = u
<1> DEFINE at == {j \in i..Len(b) : b[j] = u}
<1>0. Len(b) \in Nat /\ at \in SUBSET Nat
  OBVIOUS
<1>1. CASE at = {}
  <2>1. Find(b, i, u) = Len(b) + 1
    BY <1>1 DEF Find
  <2> QED
    BY <1>0, <1>1, <2>1
<1>2. CASE at # {}
  <2>1. Find(b, i, u) = Min(at)
    BY <1>2 DEF Find
  <2>2. Min(at) \in at /\ \A y \in at : Min(at) <= y
    <3> HIDE DEF at
    <3> QED
      BY <1>0, <1>2, MinIsLeast
  <2>3. Min(at) \in i..Len(b) /\ b[Min(at)] = u
    BY <2>2
  <2>4. ASSUME NEW j \in i..(Min(at) - 1) PROVE b[j] # u
    <3>1. j \in i..Len(b) /\ ~(Min(at) <= j)
      BY <1>0, <2>3
    <3> QED
      BY <2>2, <3>1
  <2> QED
    BY <1>0, <2>1, <2>3, <2>4
<1> QED
  BY <1>1, <1>2

LEMMA TrimIsMiddle ==
    ASSUME NEW v \in Seq(Unit), NEW lead, NEW trail, Trim(v, lead, trail) # <<>>
    PROVE  \E a, c \in DOMAIN v :
              /\ a <= c /\ Trim(v, lead, trail) = SubSeq(v, a, c)
              /\ v[a] \notin lead /\ \A n \in 1..(a - 1) : v[n] \in lead
              /\ v[c] \notin trail /\ \A n \in (c + 1)..Len(v) : v[n] \in trail
<1> DEFINE from == {i \in DOMAIN v : v[i] \notin lead}
           to == {i \in DOMAIN v : v[i] \notin trail}
<1>0. Len(v) \in Nat /\ DOMAIN v = 1..Len(v) /\ from \in SUBSET Nat /\ to \in SUBSET (0..Len(v))
  OBVIOUS
<1>1. from # {} /\ to # {} /\ Trim(v, lead, trail) = SubSeq(v, Min(from), Max(to))
  BY DEF Trim
<1>2. Min(from) \in from /\ \A y \in from : Min(from) <= y
  <2> HIDE DEF from
  <2> QED
    BY <1>0, <1>1, MinIsLeast
<1>3. Max(to) \in to /\ \A y \in to : y <= Max(to)
  <2> HIDE DEF to
  <2> QED
    BY <1>0, <1>1, MaxIsGreatest
<1> DEFINE a == Min(from)
           c == Max(to)
<1>4. /\ a \in DOMAIN v /\ v[a] \notin lead /\ c \in DOMAIN v /\ v[c] \notin trail
      /\ \A y \in DOMAIN v : v[y] \notin lead => a <= y
      /\ \A y \in DOMAIN v : v[y] \notin trail => y <= c
      /\ Trim(v, lead, trail) = SubSeq(v, a, c)
  BY <1>1, <1>2, <1>3
<1> HIDE DEF a, c
<1>5. a \in Nat /\ c \in Nat /\ a >= 1
  BY <1>0, <1>4
<1>6. a <= c
  <2> SUFFICES ASSUME c < a PROVE FALSE
    BY <1>5
  <2>1. SubSeq(v, a, c) = <<>>
    BY <1>5
  <2> QED
    BY <1>4, <2>1
<1>7. \A n \in 1..(a - 1) : v[n] \in lead
  BY <1>0, <1>4, <1>5
<1>8. \A n \in (c + 1)..Len(v) : v[n] \in trail
  BY <1>0, <1>4, <1>5
<1> QED
  BY <1>4, <1>6, <1>7, <1>8

(* A part of a body, unit for unit.                                        *)
LEMMA PartOfBody ==
    ASSUME NEW b \in Seq(Unit), NEW i \in Nat, NEW k \in Nat, i + 1 <= k, k <= Len(b) + 1
    PROVE  /\ SubSeq(b, i + 1, k - 1) \in Seq(Unit)
           /\ Len(SubSeq(b, i + 1, k - 1)) = k - i - 1
           /\ \A n \in 1..(k - i - 1) : SubSeq(b, i + 1, k - 1)[n] = b[i + n]
<1> DEFINE m == i + 1
           l == k - 1
<1>1. m \in Int /\ l \in Int /\ Len(b) \in Nat
  OBVIOUS
<1>2. \A n \in m..l : b[n] \in Unit
  BY <1>1
<1>3. \A n \in 1..(k - i - 1) : m + n - 1 = i + n /\ n \in 1..(l - m + 1)
  OBVIOUS
<1>4. (IF m <= l THEN l - m + 1 ELSE 0) = k - i - 1
  OBVIOUS
<1> HIDE DEF m, l
<1>5. /\ SubSeq(b, m, l) \in Seq(Unit)
      /\ Len(SubSeq(b, m, l)) = IF m <= l THEN l - m + 1 ELSE 0
      /\ \A n \in 1..(l - m + 1) : SubSeq(b, m, l)[n] = b[m + n - 1]
  BY <1>1, <1>2, SubSeqProperties
<1>6. /\ SubSeq(b, m, l) \in Seq(Unit) /\ Len(SubSeq(b, m, l)) = k - i - 1
      /\ \A n \in 1..(k - i - 1) : SubSeq(b, m, l)[n] = b[i + n]
  BY <1>3, <1>4, <1>5
<1> QED
  BY <1>6 DEF m, l

(* The version that extract_version() finds in a body, before it is cut.   *)
LEMMA VersionBetween ==
    ASSUME NEW b \in Seq(Unit), NEW stop, VersionMark(b, stop) # Fail
    PROVE  \E i, j, k \in 1..(Len(b) + 1) :
              LET v == VersionMark(b, stop)
              IN /\ i < j /\ j < k /\ i <= Len(b) /\ b[i] = "prefix"
                 /\ \A n \in 1..(i - 1) : b[n] # "prefix"
                 /\ \A n \in (i + 1)..(k - 1) : b[n] # stop
                 /\ k > Len(b) => stop # "suffix"
                 /\ k <= Len(b) => b[k] = stop
                 /\ v \in Seq(Unit) /\ Len(v) >= 1 /\ j + Len(v) <= k
                 /\ \A n \in 1..Len(v) : v[n] = b[j + n - 1]
                 /\ b[j] # "blank" /\ \A n \in (i + 1)..(j - 1) : b[n] = "blank"
                 /\ b[j + Len(v) - 1] \notin {"blank", "cr"}
                 /\ \A n \in (j + Len(v))..(k - 1) : b[n] \in {"blank", "cr"}
<1> DEFINE i == Find(b, 1, "prefix")
           start == i + 1
           k == Find(b, start, stop)
           s == SubSeq(b, start, k - 1)
           v == Trim(s, {"blank"}, {"blank", "cr"})
           none == start > Len(b) + 1 \/ (stop = "suffix" /\ k > Len(b)) \/ v = <<>>
<1>0. Len(b) \in Nat
  OBVIOUS
<1>1. ~none /\ VersionMark(b, stop) = v
  <2>1. VersionMark(b, stop) = IF none THEN Fail ELSE v
    BY DEF VersionMark
  <2> HIDE DEF none, v
  <2> QED
    BY <2>1
<1>2. /\ i \in 1..(Len(b) + 1) /\ \A n \in 1..(i - 1) : b[n] # "prefix"
      /\ i <= Len(b) => b[i] = "prefix"
  BY <1>0, FindIsFirst
<1>3. i \in 1..Len(b) /\ i \in Nat /\ b[i] = "prefix" /\ v # <<>> /\ (k > Len(b) => stop # "suffix")
  <2> HIDE DEF i, k, v
  <2> QED
    BY <1>0, <1>1, <1>2
<1>4. /\ k \in (i + 1)..(Len(b) + 1) /\ \A n \in (i + 1)..(k - 1) : b[n] # stop
      /\ k <= Len(b) => b[k] = stop
  <2>1. start \in Nat \ {0} /\ start <= Len(b) + 1
    <3> HIDE DEF i
    <3> QED
      BY <1>0, <1>3
  <2> HIDE DEF start
  <2>2. /\ k \in start..(Len(b) + 1) /\ \A n \in start..(k - 1) : b[n] # stop
        /\ k <= Len(b) => b[k] = stop
    BY <2>1, FindIsFirst
  <2> QED
    BY <2>2 DEF start
<1> HIDE DEF i, k
<1>5. k \in Nat /\ i + 1 <= k /\ k <= Len(b) + 1 /\ 1 <= i
  BY <1>0, <1>3, <1>4
<1>6. /\ s \in Seq(Unit) /\ Len(s) = k - i - 1
      /\ \A n \in 1..(k - i - 1) : s[n] = b[i + n]
  BY <1>0, <1>3, <1>5, PartOfBody
<1> HIDE DEF s
<1>7. PICK a, c \in DOMAIN s :
          /\ a <= c /\ v = SubSeq(s, a, c)
          /\ s[a] \notin {"blank"} /\ \A n \in 1..(a - 1) : s[n] \in {"blank"}
          /\ s[c] \notin {"blank", "cr"} /\ \A n \in (c + 1)..Len(s) : s[n] \in {"blank", "cr"}
  <2> DEFINE blank == {"blank"}
             space == {"blank", "cr"}
  <2> HIDE DEF blank, space
  <2>1. Trim(s, blank, space) # <<>>
    BY <1>3 DEF blank, space
  <2>2. \E a, c \in DOMAIN s :
          /\ a <= c /\ Trim(s, blank, space) = SubSeq(s, a, c)
          /\ s[a] \notin blank /\ \A n \in 1..(a - 1) : s[n] \in blank
          /\ s[c] \notin space /\ \A n \in (c + 1)..Len(s) : s[n] \in space
    BY <1>6, <2>1, TrimIsMiddle
  <2> QED
    BY <2>2 DEF blank, space
<1> HIDE DEF v
<1>8. a \in Nat /\ c \in Nat /\ 1 <= a /\ a <= c /\ c <= k - i - 1 /\ Len(s) = k - i - 1
  BY <1>6, <1>7
<1>9. /\ v \in Seq(Unit) /\ Len(v) = c - a + 1
      /\ \A n \in 1..(c - a + 1) : v[n] = s[a + n - 1]
  <2>1. \A n \in a..c : s[n] \in Unit
    BY <1>6, <1>8
  <2>2. SubSeq(s, a, c) \in Seq(Unit) /\ Len(SubSeq(s, a, c)) = c - a + 1
        /\ \A n \in 1..(c - a + 1) : SubSeq(s, a, c)[n] = s[a + n - 1]
    BY <1>8, <2>1, SubSeqProperties
  <2> QED
    BY <1>7, <2>2
<1> DEFINE j == i + a
<1>10. /\ i \in 1..(Len(b) + 1) /\ k \in 1..(Len(b) + 1) /\ j \in 1..(Len(b) + 1)
       /\ i < j /\ j < k /\ j + Len(v) <= k /\ Len(v) >= 1 /\ i <= Len(b)
  BY <1>0, <1>3, <1>5, <1>8, <1>9
<1>11. \A n \in 1..Len(v) : v[n] = b[j + n - 1]
  <2> SUFFICES ASSUME NEW n \in 1..Len(v) PROVE v[n] = b[j + n - 1]
    OBVIOUS
  <2>0. n \in 1..(c - a + 1)
    BY <1>9
  <2>1. a + n - 1 \in 1..(k - i - 1)
    <3>1. n \in Int /\ 1 <= n /\ n <= c - a + 1
      BY <1>8, <2>0
    <3>2. a + n - 1 >= 1
      BY <1>8, <3>1
    <3>3. a + n - 1 <= c
      BY <1>8, <3>1
    <3>4. a + n - 1 \in Int /\ k - i - 1 \in Int /\ c \in Int /\ c <= k - i - 1
      BY <1>3, <1>5, <1>8, <3>1
    <3>5. a + n - 1 <= k - i - 1
      BY <3>3, <3>4
    <3> QED
      BY <3>2, <3>4, <3>5
  <2>2. i + (a + n - 1) = j + n - 1
    BY <1>3, <1>8, <2>0
  <2> QED
    BY <1>6, <1>9, <2>0, <2>1, <2>2
<1>12. b[j] # "blank" /\ \A n \in (i + 1)..(j - 1) : b[n] = "blank"
  <2>1. b[j] = s[a]
    <3>1. a \in 1..(k - i - 1)
      BY <1>3, <1>5, <1>8
    <3> QED
      BY <1>6, <3>1
  <2>2. ASSUME NEW n \in (i + 1)..(j - 1) PROVE b[n] = "blank"
    <3>1. n - i \in 1..(a - 1) /\ n - i \in 1..(k - i - 1) /\ i + (n - i) = n
      BY <1>3, <1>5, <1>8
    <3> QED
      BY <1>6, <1>7, <3>1
  <2> QED
    BY <1>7, <2>1, <2>2
<1>13. /\ b[j + Len(v) - 1] \notin {"blank", "cr"}
       /\ \A n \in (j + Len(v))..(k - 1) : b[n] \in {"blank", "cr"}
  <2>1. b[j + Len(v) - 1] = s[c]
    <3>1. c \in 1..(k - i - 1)
      BY <1>3, <1>5, <1>8
    <3>2. j + (c - a + 1) - 1 = i + c
      BY <1>3, <1>5, <1>8
    <3>3. j + Len(v) - 1 = i + c
      BY <1>9, <3>2
    <3> QED
      BY <1>6, <3>1, <3>3
  <2>2. ASSUME NEW n \in (j + Len(v))..(k - 1) PROVE b[n] \in {"blank", "cr"}
    <3>0. n \in (j + (c - a + 1))..(k - 1)
      BY <1>9
    <3>1. n \in Int /\ n >= i + c + 1 /\ n <= k - 1
      BY <1>3, <1>5, <1>8, <3>0
    <3>2. n - i >= c + 1 /\ n - i <= k - i - 1 /\ n - i \in Int /\ i + (n - i) = n
      BY <1>3, <1>5, <1>8, <3>1
    <3>3. n - i \in (c + 1)..(k - i - 1) /\ n - i \in 1..(k - i - 1)
      BY <1>3, <1>5, <1>8, <3>2
    <3>4. n - i \in (c + 1)..Len(s)
      BY <1>8, <3>3
    <3> QED
      BY <1>6, <1>7, <3>2, <3>3, <3>4
  <2> QED
    BY <1>7, <2>1, <2>2
<1> HIDE DEF j, start, none
<1> QED
  BY <1>1, <1>2, <1>3, <1>4, <1>9, <1>10, <1>11, <1>12, <1>13

(* A version is the trimmed text between the first prefix and the suffix   *)
(* or the end of the line, cut at the length of a mark (extract_version(), *)
(* hm_str_copy()).                                                         *)
THEOREM VersionsAreDelimited == FetchSpec => []VersionIsDelimited
<1>1. FetchInv => VersionIsDelimited
  <2> SUFFICES ASSUME FetchInv, fpc = "done", mark # Fail, check \in {"version", "line"}
               PROVE  VersionIsDelimited
    BY DEF VersionIsDelimited
  <2> DEFINE stop == IF check = "version" THEN "suffix" ELSE "nl"
             v == VersionMark(body, stop)
  <2>1. body \in Seq(Unit) /\ mark = Clip(v)
    BY DEF FetchInv, FetchTypeOK, MarkInv, MarkOf
  <2>2. v # Fail
    BY <2>1 DEF Clip
  <2> HIDE DEF stop
  <2>3. PICK i, j, k \in 1..(Len(body) + 1) :
              /\ i < j /\ j < k /\ i <= Len(body) /\ body[i] = "prefix"
              /\ \A n \in 1..(i - 1) : body[n] # "prefix"
              /\ \A n \in (i + 1)..(k - 1) : body[n] # stop
              /\ k > Len(body) => stop # "suffix"
              /\ k <= Len(body) => body[k] = stop
              /\ v \in Seq(Unit) /\ Len(v) >= 1 /\ j + Len(v) <= k
              /\ \A n \in 1..Len(v) : v[n] = body[j + n - 1]
              /\ body[j] # "blank" /\ \A n \in (i + 1)..(j - 1) : body[n] = "blank"
              /\ body[j + Len(v) - 1] \notin {"blank", "cr"}
              /\ \A n \in (j + Len(v))..(k - 1) : body[n] \in {"blank", "cr"}
    BY <2>1, <2>2, VersionBetween
  <2> HIDE DEF v
  <2> DEFINE m == IF Len(v) < MarkMax THEN Len(v) ELSE MarkMax
  <2>4. /\ Len(v) \in Nat /\ m \in 1..Len(v) /\ Len(body) \in Nat /\ m \in Nat
        /\ m < MarkMax => m = Len(v)
    BY <2>1, <2>3, FetchAssumption
  <2>5. mark = SubSeq(v, 1, m)
    <3>1. Min({Len(v), MarkMax}) = m
      BY <2>4, MinOfTwo, FetchAssumption
    <3> QED
      BY <2>1, <2>2, <3>1 DEF Clip
  <2> HIDE DEF m
  <2>6. Len(mark) = m /\ mark \in Seq(Unit) /\ \A n \in 1..m : mark[n] = body[j + n - 1]
    <3>1. \A n \in 1..m : v[n] \in Unit
      BY <2>3, <2>4
    <3>2. Len(mark) = m /\ mark \in Seq(Unit) /\ \A n \in 1..m : mark[n] = v[1 + n - 1]
      BY <2>4, <2>5, <3>1, SubSeqProperties
    <3>3. \A n \in 1..m : v[1 + n - 1] = v[n] /\ v[n] = body[j + n - 1]
      BY <2>3, <2>4
    <3> QED
      BY <3>2, <3>3
  <2> DEFINE between == SubSeq(body, i + 1, k - 1)
             text == SubSeq(body, j, j + Len(mark) - 1)
  <2>7. \A n \in DOMAIN between : between[n] # stop
    <3>1. i \in Nat /\ k \in Nat /\ i + 1 <= k /\ k <= Len(body) + 1
      BY <2>3, <2>4
    <3>2. Len(between) = k - i - 1 /\ between \in Seq(Unit)
          /\ \A n \in 1..(k - i - 1) : between[n] = body[i + n]
      BY <2>1, <3>1, PartOfBody
    <3> HIDE DEF between
    <3>3. DOMAIN between = 1..(k - i - 1)
      BY <3>2
    <3>4. ASSUME NEW n \in 1..(k - i - 1) PROVE between[n] # stop
      <4>1. i + n \in (i + 1)..(k - 1)
        BY <3>1
      <4> QED
        BY <2>3, <3>2, <4>1
    <3> QED
      BY <3>3, <3>4
  <2>8. mark = text
    <3>1. \A n \in j..(j + m - 1) : body[n] \in Unit
      BY <2>1, <2>3, <2>4
    <3>2. Len(text) = m /\ text \in Seq(Unit) /\ \A n \in 1..m : text[n] = body[j + n - 1]
      BY <2>3, <2>4, <2>6, <3>1, SubSeqProperties
    <3> HIDE DEF text
    <3> QED
      BY <2>6, <3>2
  <2>9. mark # <<>> /\ mark[1] # "blank"
    <3>1. mark[1] = body[j]
      BY <2>3, <2>4, <2>6
    <3> QED
      BY <2>3, <2>4, <2>6, <3>1
  <2>10. Len(mark) < MarkMax => /\ mark[Len(mark)] \notin {"blank", "cr"}
                                /\ \A n \in (j + Len(mark))..(k - 1) : body[n] \in {"blank", "cr"}
    BY <2>3, <2>4, <2>6
  <2>11. k > Len(body) => check = "line"
    BY <2>3 DEF stop
  <2> HIDE DEF between, text
  <2>12. /\ i < j /\ j < k
         /\ body[i] = "prefix" /\ \A n \in 1..(i - 1) : body[n] # "prefix"
         /\ \A n \in DOMAIN between : between[n] # stop
         /\ k > Len(body) => check = "line"
         /\ k <= Len(body) => body[k] = stop
         /\ mark = text /\ mark # <<>> /\ mark[1] # "blank"
         /\ \A n \in (i + 1)..(j - 1) : body[n] = "blank"
         /\ Len(mark) < MarkMax => mark[Len(mark)] \notin {"blank", "cr"}
         /\ Len(mark) < MarkMax =>
               \A n \in (j + Len(mark))..(k - 1) : body[n] \in {"blank", "cr"}
    BY <2>3, <2>7, <2>8, <2>9, <2>10, <2>11
  <2> QED
    BY <2>12 DEF VersionIsDelimited, stop, between, text
<1> QED
  BY <1>1, AlwaysFetchInv, PTL

-----------------------------------------------------------------------------
(* Why a check ends, without a word of fairness: every step but the        *)
(* question itself uses something up, and until the end hacman or curl has *)
(* a step to take.                                                         *)

One(b) == IF b THEN 1 ELSE 0
StillToWrite == (Len(resp) - delivered) + (Complaint - said)
StillInPipes == inPipe["out"] + inPipe["err"]
StillOpen == One("hacman" \in readers["out"]) + One("hacman" \in readers["err"])
HacmanLeft ==
    CASE fpc = "pipe" -> 0
      [] fpc = "pipe2" -> 8
      [] fpc = "fork" -> 4
      [] fpc = "poll" -> 3
      [] fpc = "readOut" -> 2
      [] fpc = "readErr" -> IF "err" \in ready THEN 1 ELSE 4
      [] fpc = "wait" -> 1
      [] fpc = "done" -> 0
CurlLeft ==
    CASE curl = "none" -> 4
      [] curl = "forked" -> 3
      [] curl = "running" -> 2
      [] curl \in Pipe -> 1
      [] curl \in {"ended", "reaped"} -> 0

(* A unit costs its way into the pipe, a turn of the poll() loop that      *)
(* takes it out, and the write() around it.                                *)
Weight(w, i, o, h, c) == 5 * w + 3 * i + 3 * o + h + c
WorkLeft == Weight(StillToWrite, StillInPipes, StillOpen, HacmanLeft, CurlLeft)

WorkRunsOut == [](WorkLeft \in Nat) /\ [][fpc # "pipe" => WorkLeft' < WorkLeft]_fetchVars

(* hacman is between two calls, or poll() or waitpid() has an answer, or   *)
(* curl is not in a write(), or in one the pipe has room for or that       *)
(* nobody reads.                                                           *)
NeverBothBlocked ==
    fpc \notin {"pipe", "done"} =>
        \/ fpc \in {"pipe2", "fork", "readOut", "readErr"}
        \/ fpc = "poll" /\ (Open = {} \/ \E e \in Open : Readable(e))
        \/ fpc = "wait" /\ curl = "ended"
        \/ curl \in {"forked", "running"}
        \/ \E e \in Pipe : /\ curl = e
                           /\ readers[e] = {} \/ (inPipe[e] < PipeSize /\ Unwritten(e) > 0)

(* curl only enters write() with something to write, hacman only leaves    *)
(* poll() with something to read.                                          *)
BusyInv ==
    /\ \A e \in Pipe : curl = e => Unwritten(e) > 0
    /\ curl \in {"running"} \cup Pipe => \A e \in Pipe : "curl" \notin readers[e]
    /\ fpc = "pipe2" => "hacman" \in readers["out"]
    /\ fpc = "fork" => \A e \in Pipe : "hacman" \in readers[e]
    /\ fpc = "readOut" => ready # {}
    /\ curl = "reaped" => fpc = "done"

LEMMA NextBusy == FetchInv /\ BusyInv /\ [FetchNext]_fetchVars => BusyInv'
<1> SUFFICES ASSUME FetchInv, BusyInv, [FetchNext]_fetchVars PROVE BusyInv'
  OBVIOUS
<1> USE DEF BusyInv, Unwritten, FGoto, askedVars, keptVars, curlVars, pipeVars,
            fetcherVars
<1>1. /\ Len(resp) \in Nat /\ delivered \in 0..Len(resp) /\ said \in 0..Complaint
      /\ Complaint \in Nat
  BY RespIsUnits, FetchAssumption DEF FetchInv, FetchTypeOK
<1>2. curl \in {"none", "forked", "running", "out", "err", "ended", "reaped"}
  BY DEF FetchInv, FetchTypeOK, Pipe
<1>3. CASE UNCHANGED fetchVars
  BY <1>3 DEF fetchVars
<1>4. ASSUME NEW c \in Check, NEW r \in Responses, AskServer(c, r) PROVE BusyInv'
  BY <1>4 DEF AskServer, OpenPipe, FetchInv, FetchTypeOK, EndsInv, Pipe
<1>5. CASE OpenStderr \/ OpenFails
  BY <1>1, <1>5
     DEF OpenStderr, OpenPipe, OpenFails, NoEnds, FetchInv, FetchTypeOK, EndsInv, Pipe
<1>6. CASE ForkCurl
  BY <1>6 DEF ForkCurl, Pipe
<1>7. CASE Poll
  BY <1>7 DEF Poll
<1>8. CASE PollFails
  BY <1>8 DEF PollFails
<1>9. CASE ReadOut
  <2>1. \A e \in Pipe : readers'[e] \subseteq readers[e]
    BY <1>9 DEF ReadOut, CloseRead, FetchInv, FetchTypeOK
  <2>2. UNCHANGED <<curl, delivered, said, resp>> /\ fpc = "readOut" /\ fpc' = "readErr"
    BY <1>9 DEF ReadOut
  <2> QED
    BY <2>1, <2>2
<1>10. CASE ReadErr
  <2>1. \A e \in Pipe : readers'[e] \subseteq readers[e]
    BY <1>10 DEF ReadErr, CloseRead, FetchInv, FetchTypeOK
  <2>2. UNCHANGED <<curl, delivered, said, resp>> /\ fpc = "readErr" /\ fpc' = "poll"
    BY <1>10 DEF ReadErr
  <2> QED
    BY <2>1, <2>2
<1>11. CASE SkipOut \/ SkipErr
  BY <1>11 DEF SkipOut, SkipErr
<1>12. CASE TakeMark \/ WaitFails
  BY <1>12 DEF TakeMark, WaitFails, Pipe
<1>13. CASE ExecCurl
  BY <1>13 DEF ExecCurl, Pipe
<1>14. CASE ExecCurlFails \/ CurlSucceeds \/ CurlFails \/ CurlKilled
  BY <1>14 DEF ExecCurlFails, CurlSucceeds, CurlFails, CurlKilled, CurlEnds, Pipe
<1>15. ASSUME NEW e \in Pipe, CurlBegins(e) PROVE BusyInv'
  BY <1>15 DEF CurlBegins, Pipe
<1>16. ASSUME NEW e \in Pipe, CurlWrites(e) PROVE BusyInv'
  <2>1. curl = e /\ curl' = "running" /\ UNCHANGED <<fpc, ready, readers>>
    BY <1>16 DEF CurlWrites
  <2> QED
    BY <1>16, <2>1 DEF Pipe
<1> QED
  BY <1>3, <1>4, <1>5, <1>6, <1>7, <1>8, <1>9, <1>10, <1>11, <1>12, <1>13, <1>14, <1>15, <1>16
     DEF FetchNext, Fetching, FetchFails, Curl

PartsAreNat ==
    /\ StillToWrite \in Nat /\ StillInPipes \in Nat /\ StillOpen \in Nat
    /\ HacmanLeft \in Nat /\ CurlLeft \in Nat

LEMMA TypedParts == FetchTypeOK => PartsAreNat
<1> SUFFICES ASSUME FetchTypeOK PROVE PartsAreNat
  OBVIOUS
<1>1. StillToWrite \in Nat
  BY RespIsUnits, FetchAssumption DEF StillToWrite, FetchTypeOK
<1>2. StillInPipes \in Nat /\ StillOpen \in Nat
  BY FetchAssumption DEF StillInPipes, StillOpen, One, FetchTypeOK, Pipe
<1>3. HacmanLeft \in Nat /\ CurlLeft \in Nat
  BY DEF HacmanLeft, CurlLeft, FetchTypeOK, Pipe
<1> QED
  BY <1>1, <1>2, <1>3 DEF PartsAreNat

(* The ways in which a step makes the sum smaller: hacman or curl goes on, *)
(* the second pipe is opened, a pipe is read or closed, a pipe is written. *)
LEMMA Lighter ==
    ASSUME NEW w \in Nat, NEW i \in Nat, NEW o \in Nat, NEW h \in Nat, NEW c \in Nat,
           NEW w2 \in Nat, NEW i2 \in Nat, NEW o2 \in Nat, NEW h2 \in Nat, NEW c2 \in Nat,
           \/ /\ w2 = w /\ i2 = i /\ (o2 = o \/ o2 = 0)
              /\ h2 = h \/ h2 < h
              /\ c2 = c \/ c2 < c
              /\ h2 < h \/ c2 < c
           \/ w2 = w /\ i2 = i /\ o2 <= o + 1 /\ h2 + 4 <= h /\ c2 = c
           \/ /\ w2 = w /\ h2 <= h + 2 /\ c2 = c
              /\ (i2 < i /\ o2 = o) \/ (i2 = i /\ o2 < o)
           \/ w2 < w /\ w2 + i2 = w + i /\ o2 = o /\ h2 = h /\ c2 = c + 1
    PROVE  Weight(w2, i2, o2, h2, c2) < Weight(w, i, o, h, c)
BY DEF Weight

LEMMA NextIsNearer ==
    ASSUME FetchInv, BusyInv, FetchNext, fpc # "pipe",
           PartsAreNat, PartsAreNat'
    PROVE  WorkLeft' < WorkLeft
<1> USE DEF FGoto, askedVars, keptVars, curlVars, pipeVars, fetcherVars
<1>1. /\ Len(resp) \in Nat /\ delivered \in 0..Len(resp) /\ said \in 0..Complaint
      /\ Complaint \in Nat /\ inPipe["out"] \in Nat /\ inPipe["err"] \in Nat
      /\ DOMAIN inPipe = {"out", "err"} /\ DOMAIN readers = {"out", "err"}
  BY RespIsUnits, FetchAssumption DEF FetchInv, FetchTypeOK, Pipe
<1> USE DEF PartsAreNat
<1>2. ASSUME
        \/ /\ StillToWrite' = StillToWrite /\ StillInPipes' = StillInPipes
           /\ StillOpen' = StillOpen \/ StillOpen' = 0
           /\ HacmanLeft' = HacmanLeft \/ HacmanLeft' < HacmanLeft
           /\ CurlLeft' = CurlLeft \/ CurlLeft' < CurlLeft
           /\ HacmanLeft' < HacmanLeft \/ CurlLeft' < CurlLeft
        \/ /\ StillToWrite' = StillToWrite /\ StillInPipes' = StillInPipes
           /\ StillOpen' <= StillOpen + 1 /\ HacmanLeft' + 4 <= HacmanLeft
           /\ CurlLeft' = CurlLeft
        \/ /\ StillToWrite' = StillToWrite
           /\ HacmanLeft' <= HacmanLeft + 2 /\ CurlLeft' = CurlLeft
           /\ \/ StillInPipes' < StillInPipes /\ StillOpen' = StillOpen
              \/ StillInPipes' = StillInPipes /\ StillOpen' < StillOpen
        \/ /\ StillToWrite' < StillToWrite
           /\ StillToWrite' + StillInPipes' = StillToWrite + StillInPipes
           /\ StillOpen' = StillOpen
           /\ HacmanLeft' = HacmanLeft /\ CurlLeft' = CurlLeft + 1
      PROVE  WorkLeft' < WorkLeft
  BY <1>2, Lighter DEF WorkLeft
<1>3. ASSUME UNCHANGED <<resp, delivered, said>> PROVE StillToWrite' = StillToWrite
  BY <1>3 DEF StillToWrite
<1>4. ASSUME UNCHANGED inPipe PROVE StillInPipes' = StillInPipes
  BY <1>4 DEF StillInPipes
<1>5. ASSUME \A e \in Pipe : "hacman" \in readers'[e] <=> "hacman" \in readers[e]
      PROVE  StillOpen' = StillOpen
  BY <1>5 DEF StillOpen, One, Pipe
<1>6. CASE OpenStderr
  <2>1. HacmanLeft = 8 /\ HacmanLeft' = 4 /\ CurlLeft' = CurlLeft
    BY <1>6 DEF OpenStderr, HacmanLeft, CurlLeft
  <2>2. StillOpen' <= StillOpen + 1 /\ StillOpen' \in Nat
    BY <1>1, <1>6 DEF OpenStderr, OpenPipe, StillOpen, One
  <2>3. StillToWrite' = StillToWrite /\ StillInPipes' = StillInPipes
    BY <1>3, <1>4, <1>6 DEF OpenStderr
  <2> QED
    BY <1>2, <2>1, <2>2, <2>3
<1>7. CASE OpenFails
  <2>1. HacmanLeft > 0 /\ HacmanLeft' = 0 /\ CurlLeft' = CurlLeft
    BY <1>7 DEF OpenFails, HacmanLeft, CurlLeft
  <2>2. StillOpen' = 0
    BY <1>7 DEF OpenFails, NoEnds, StillOpen, One, Pipe
  <2>3. StillToWrite' = StillToWrite /\ StillInPipes' = StillInPipes
    BY <1>3, <1>4, <1>7 DEF OpenFails
  <2> QED
    BY <1>2, <2>1, <2>2, <2>3
<1>8. CASE ForkCurl
  <2>1. HacmanLeft = 4 /\ HacmanLeft' = 3 /\ CurlLeft = 4 /\ CurlLeft' = 3
    BY <1>8 DEF ForkCurl, HacmanLeft, CurlLeft, FetchInv, EndsInv, Pipe
  <2>2. StillOpen' = 2 /\ StillOpen = 2
    BY <1>8 DEF ForkCurl, StillOpen, One, BusyInv, Pipe
  <2>3. StillToWrite' = StillToWrite /\ StillInPipes' = StillInPipes
    BY <1>3, <1>4, <1>8 DEF ForkCurl
  <2> QED
    BY <1>2, <2>1, <2>2, <2>3
<1>9. CASE Poll
  <2>1. HacmanLeft' < HacmanLeft /\ HacmanLeft' \in Nat /\ CurlLeft' = CurlLeft
    BY <1>9 DEF Poll, HacmanLeft, CurlLeft
  <2>2. StillToWrite' = StillToWrite /\ StillInPipes' = StillInPipes /\ StillOpen' = StillOpen
    BY <1>3, <1>4, <1>5, <1>9 DEF Poll
  <2> QED
    BY <1>2, <2>1, <2>2
<1>10. CASE PollFails
  <2>1. HacmanLeft = 3 /\ HacmanLeft' = 1 /\ CurlLeft' = CurlLeft
    BY <1>10 DEF PollFails, HacmanLeft, CurlLeft
  <2>2. StillOpen' = 0
    BY <1>10 DEF PollFails, StillOpen, One, Pipe
  <2>3. StillToWrite' = StillToWrite /\ StillInPipes' = StillInPipes
    BY <1>3, <1>4, <1>10 DEF PollFails
  <2> QED
    BY <1>2, <2>1, <2>2, <2>3
<1>11. CASE ReadOut
  <2>1. HacmanLeft' <= HacmanLeft + 2 /\ CurlLeft' = CurlLeft
    BY <1>11 DEF ReadOut, HacmanLeft, CurlLeft
  <2>2. CASE UNCHANGED readers
    <3>1. PICK n \in 1..inPipe["out"] : Drain("out", n)
      BY <1>11, <2>2 DEF ReadOut, CloseRead, FetchInv, ReadyInv, FetchTypeOK, Pipe
    <3>2. StillInPipes' < StillInPipes
      BY <1>1, <3>1 DEF Drain, StillInPipes
    <3>3. StillToWrite' = StillToWrite /\ StillOpen' = StillOpen
      BY <1>3, <1>5, <1>11, <2>2 DEF ReadOut
    <3> QED
      BY <1>2, <2>1, <3>2, <3>3
  <2>3. CASE CloseRead("out") /\ UNCHANGED inPipe
    <3>1. StillOpen' < StillOpen
      BY <1>1, <1>11, <2>3 DEF ReadOut, CloseRead, StillOpen, One, FetchInv, ReadyInv, Pipe
    <3>2. StillToWrite' = StillToWrite /\ StillInPipes' = StillInPipes
      BY <1>3, <1>4, <1>11, <2>3 DEF ReadOut
    <3> QED
      BY <1>2, <2>1, <3>1, <3>2
  <2> QED
    BY <1>11, <2>2, <2>3 DEF ReadOut
<1>12. CASE SkipOut
  <2>1. HacmanLeft = 2 /\ HacmanLeft' = 1 /\ CurlLeft' = CurlLeft
    BY <1>12 DEF SkipOut, HacmanLeft, CurlLeft, BusyInv, FetchInv, FetchTypeOK, Pipe
  <2>2. StillToWrite' = StillToWrite /\ StillInPipes' = StillInPipes /\ StillOpen' = StillOpen
    BY <1>3, <1>4, <1>5, <1>12 DEF SkipOut
  <2> QED
    BY <1>2, <2>1, <2>2
<1>13. CASE ReadErr
  <2>1. HacmanLeft = 1 /\ HacmanLeft' = 3 /\ CurlLeft' = CurlLeft
    BY <1>13 DEF ReadErr, HacmanLeft, CurlLeft
  <2>2. CASE UNCHANGED readers
    <3>1. PICK n \in 1..inPipe["err"] : Drain("err", n)
      BY <1>13, <2>2 DEF ReadErr, CloseRead, FetchInv, ReadyInv, FetchTypeOK, Pipe
    <3>2. StillInPipes' < StillInPipes
      BY <1>1, <3>1 DEF Drain, StillInPipes
    <3>3. StillToWrite' = StillToWrite /\ StillOpen' = StillOpen
      BY <1>3, <1>5, <1>13, <2>2 DEF ReadErr
    <3> QED
      BY <1>2, <2>1, <3>2, <3>3
  <2>3. CASE CloseRead("err") /\ UNCHANGED inPipe
    <3>1. StillOpen' < StillOpen
      BY <1>1, <1>13, <2>3 DEF ReadErr, CloseRead, StillOpen, One, FetchInv, ReadyInv, Pipe
    <3>2. StillToWrite' = StillToWrite /\ StillInPipes' = StillInPipes
      BY <1>3, <1>4, <1>13, <2>3 DEF ReadErr
    <3> QED
      BY <1>2, <2>1, <3>1, <3>2
  <2> QED
    BY <1>13, <2>2, <2>3 DEF ReadErr
<1>14. CASE SkipErr
  <2>1. HacmanLeft = 4 /\ HacmanLeft' = 3 /\ CurlLeft' = CurlLeft
    BY <1>14 DEF SkipErr, HacmanLeft, CurlLeft
  <2>2. StillToWrite' = StillToWrite /\ StillInPipes' = StillInPipes /\ StillOpen' = StillOpen
    BY <1>3, <1>4, <1>5, <1>14 DEF SkipErr
  <2> QED
    BY <1>2, <2>1, <2>2
<1>15. CASE TakeMark \/ WaitFails
  <2>1. HacmanLeft = 1 /\ HacmanLeft' = 0 /\ CurlLeft' = 0 /\ CurlLeft = 0
    BY <1>15 DEF TakeMark, WaitFails, HacmanLeft, CurlLeft, Pipe
  <2>2. StillToWrite' = StillToWrite /\ StillInPipes' = StillInPipes /\ StillOpen' = StillOpen
    BY <1>3, <1>4, <1>5, <1>15 DEF TakeMark, WaitFails
  <2> QED
    BY <1>2, <2>1, <2>2
<1>16. ASSUME HacmanLeft' = HacmanLeft, CurlLeft' < CurlLeft, CurlLeft' \in Nat,
              UNCHANGED <<resp, delivered, said, inPipe>>,
              \A e \in Pipe : "hacman" \in readers'[e] <=> "hacman" \in readers[e]
       PROVE  WorkLeft' < WorkLeft
  <2>1. StillToWrite' = StillToWrite /\ StillInPipes' = StillInPipes /\ StillOpen' = StillOpen
    BY <1>3, <1>4, <1>5, <1>16
  <2> QED
    BY <1>2, <1>16, <2>1
<1>17. CASE ExecCurl
  <2>1. HacmanLeft' = HacmanLeft /\ CurlLeft = 3 /\ CurlLeft' = 2
    BY <1>17 DEF ExecCurl, HacmanLeft, CurlLeft, Pipe
  <2> QED
    BY <1>16, <1>17, <2>1 DEF ExecCurl, Pipe
<1>18. CASE ExecCurlFails \/ CurlSucceeds \/ CurlFails \/ CurlKilled
  <2>1. \E how \in {"zero", "nonzero", "signal"} : CurlEnds(how)
    BY <1>18 DEF ExecCurlFails, CurlSucceeds, CurlFails, CurlKilled
  <2>2. HacmanLeft' = HacmanLeft /\ CurlLeft' = 0
    BY <2>1 DEF CurlEnds, HacmanLeft, CurlLeft, Pipe
  <2>3. CurlLeft \in {1, 2, 3}
    BY <1>18 DEF ExecCurlFails, CurlSucceeds, CurlFails, CurlKilled, CurlLeft, Pipe
  <2> QED
    BY <1>16, <2>1, <2>2, <2>3 DEF CurlEnds, Pipe
<1>19. ASSUME NEW e \in Pipe, CurlBegins(e) PROVE WorkLeft' < WorkLeft
  <2>1. HacmanLeft' = HacmanLeft /\ CurlLeft = 2 /\ CurlLeft' = 1
    BY <1>19 DEF CurlBegins, HacmanLeft, CurlLeft, Pipe
  <2> QED
    BY <1>16, <1>19, <2>1 DEF CurlBegins, Pipe
<1>20. ASSUME NEW e \in Pipe, CurlWrites(e) PROVE WorkLeft' < WorkLeft
  <2>1. HacmanLeft' = HacmanLeft /\ CurlLeft = 1 /\ CurlLeft' = 2
    BY <1>20 DEF CurlWrites, HacmanLeft, CurlLeft, Pipe
  <2>2. PICK n \in 1..(PipeSize - inPipe[e]) :
              /\ n <= Unwritten(e)
              /\ inPipe' = [inPipe EXCEPT ![e] = @ + n]
              /\ IF e = "out" THEN delivered' = delivered + n /\ UNCHANGED said
                 ELSE said' = said + n /\ UNCHANGED delivered
    BY <1>20 DEF CurlWrites
  <2>3. n \in Nat /\ n >= 1
    BY <1>1, <2>2, FetchAssumption DEF Pipe
  <2>4. StillToWrite' = StillToWrite - n
    <3>1. /\ resp' = resp
          /\ \/ delivered' = delivered + n /\ said' = said
             \/ delivered' = delivered /\ said' = said + n
      BY <1>20, <2>2 DEF CurlWrites
    <3>2. /\ Len(resp) \in Int /\ delivered \in Int /\ said \in Int /\ Complaint \in Int
          /\ n \in Int
      BY <1>1, <2>3
    <3>3. CASE delivered' = delivered + n /\ said' = said
      BY <3>1, <3>2, <3>3 DEF StillToWrite
    <3>4. CASE delivered' = delivered /\ said' = said + n
      BY <3>1, <3>2, <3>4 DEF StillToWrite
    <3> QED
      BY <3>1, <3>3, <3>4
  <2>5. StillInPipes' = StillInPipes + n
    <3>1. \/ inPipe'["out"] = inPipe["out"] + n /\ inPipe'["err"] = inPipe["err"]
          \/ inPipe'["out"] = inPipe["out"] /\ inPipe'["err"] = inPipe["err"] + n
      BY <1>1, <2>2 DEF Pipe
    <3> QED
      BY <1>1, <2>3, <3>1 DEF StillInPipes
  <2>6. StillOpen' = StillOpen
    BY <1>5, <1>20 DEF CurlWrites
  <2> QED
    BY <1>2, <2>1, <2>3, <2>4, <2>5, <2>6
<1> QED
  BY <1>6, <1>7, <1>8, <1>9, <1>10, <1>11, <1>12, <1>13, <1>14, <1>15, <1>17, <1>18,
     <1>19, <1>20
     DEF FetchNext, Fetching, FetchFails, Curl, AskServer

LEMMA AlwaysBusyInv == FetchSpec => [](FetchInv /\ BusyInv)
<1>1. FetchInit => BusyInv
  BY DEF FetchInit, BusyInv, Pipe
<1> QED
  BY <1>1, NextBusy, AlwaysFetchInv, PTL DEF FetchSpec

(* run_curl() cannot go round its loop for ever, whatever the server       *)
(* sends, however poll() and the two pipes take turns and whichever calls  *)
(* fail: each step of hacman or of curl leaves less to be done.            *)
THEOREM ChecksRunOut == FetchSpec => WorkRunsOut
<1>1. FetchInv => WorkLeft \in Nat
  BY TypedParts DEF FetchInv, PartsAreNat, WorkLeft, Weight
<1>2. FetchInv => PartsAreNat
  BY TypedParts DEF FetchInv
<1>3. FetchInv /\ BusyInv /\ PartsAreNat /\ PartsAreNat' /\ [FetchNext]_fetchVars =>
          [fpc # "pipe" => WorkLeft' < WorkLeft]_fetchVars
  BY NextIsNearer
<1> QED
  BY <1>1, <1>2, <1>3, AlwaysBusyInv, PTL DEF FetchSpec, WorkRunsOut

(* Two processes and two pipes that fill up, without a deadlock: while     *)
(* curl blocks in write(), hacman finds something in that pipe or has      *)
(* closed it (run_curl() drains both, also when the buffer is full).       *)
THEOREM ChecksNeverBlock == FetchSpec => []NeverBothBlocked
<1>1. FetchInv /\ BusyInv => NeverBothBlocked
  <2> SUFFICES ASSUME FetchInv, BusyInv, fpc \in {"poll", "wait"},
                      curl \notin {"forked", "running"}
               PROVE  NeverBothBlocked
    BY DEF NeverBothBlocked, FetchInv, FetchTypeOK
  <2>1. CASE Ended
    <3>1. \A e \in Pipe : writers[e] = {}
      BY <2>1 DEF FetchInv, EndsInv, Forked
    <3>2. fpc = "wait" => curl = "ended"
      BY <2>1 DEF BusyInv, Ended
    <3> QED
      BY <3>1, <3>2 DEF NeverBothBlocked, Readable, Open
  <2>2. CASE ~Ended
    <3>1. curl \in Pipe
      BY <2>2 DEF FetchInv, FetchTypeOK, EndsInv, Forked, Ended
    <3>2. Unwritten(curl) > 0 /\ "curl" \notin readers[curl]
      BY <3>1 DEF BusyInv
    <3>3. readers[curl] \subseteq {"hacman", "curl"} /\ inPipe[curl] \in 0..PipeSize
      BY <3>1 DEF FetchInv, FetchTypeOK
    <3>4. CASE "hacman" \in readers[curl] /\ inPipe[curl] = PipeSize
      <4>1. fpc = "poll"
        BY <3>1, <3>4 DEF FetchInv, EndsInv
      <4> QED
        BY <3>1, <3>4, <4>1, FetchAssumption DEF NeverBothBlocked, Readable, Open
    <3>5. CASE "hacman" \notin readers[curl]
      BY <3>1, <3>2, <3>3, <3>5 DEF NeverBothBlocked
    <3>6. CASE inPipe[curl] # PipeSize
      <4>1. inPipe[curl] < PipeSize
        BY <3>3, <3>6, FetchAssumption
      <4> QED
        BY <3>1, <3>2, <4>1 DEF NeverBothBlocked
    <3> QED
      BY <3>4, <3>5, <3>6
  <2> QED
    BY <2>1, <2>2
<1> QED
  BY <1>1, AlwaysBusyInv, PTL
=============================================================================
