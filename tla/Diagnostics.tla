---------------------------- MODULE Diagnostics ----------------------------
(***************************************************************************)
(* What a run shows (util.c, and the output of setups in install.c): the   *)
(* status lines of hm_out(), which are buffered, the messages of hm_err(), *)
(* and the bytes of curl's and of a setup's streams, which are marked      *)
(* "hacman: " line by line however they were cut into reads.               *)
(*                                                                         *)
(* A quiet setup writes into a file that hacman shows if the setup fails.  *)
(* The child inherits hacman's descriptor of that file, and with it the    *)
(* position in it.                                                         *)
(***************************************************************************)
EXTENDS Naturals, Sequences

CONSTANTS
    Outputs,        \* what a setup or curl may write
    Statuses,       \* messages of hm_out()
    Notes,          \* messages of hm_err()
    OutCap,         \* HM_OUT_CAP
    Chunk,          \* size of the buffers that are read into
    MaxMessages

Mark == <<"hac", "man:">>   \* a read may end inside it
Text == Seq({"hac", "man:", "text", "nl"})
StatusText == Seq({"status", "nl"})     \* every line starts with a "status"

ASSUME DiagnosticsAssumption ==
    /\ Outputs \cup Notes \subseteq Text /\ Statuses \subseteq StatusText
    /\ \A m \in Statuses :
        /\ Len(m) <= OutCap
        /\ \A i \in DOMAIN m : m[i] = "nl" => i > 1 /\ m[i - 1] # "nl"
    /\ \A m \in Statuses \cup Notes : m # <<>> /\ m[Len(m)] = "nl"
    /\ \A m \in Notes : SubSeq(m, 1, 2) = Mark
    /\ OutCap \in Nat /\ Chunk \in Nat \ {0} /\ MaxMessages \in Nat

VARIABLES
    opc,            \* "main", or what is done with a stream
    outFd,          \* 1, or 2 if there is a program to hand over to
    outBuf,         \* out_buf
    err,            \* the terminal, and stderr_line_start
    stream,         \* "curl", "trace" or "capture"
    holders,        \* who can write to the stream
    unwritten,      \* what the shell, or curl, has still to write
    written,        \* what arrived in the pipe or the file
    offset,         \* up to where it was read; the position in the file
    ending,         \* how the shell, or curl, ended
    spoken,         \* history: what is to be shown, in this order
    messages,       \* how many of hacman's own that are
    overwritten     \* history: the file was written to while it was shown

streamVars == <<stream, holders, unwritten, written, offset, ending, overwritten>>
outputVars == <<opc, outFd, outBuf, err, streamVars, spoken, messages>>

OutputInit ==
    /\ opc = "main" /\ outFd \in {1, 2}
    /\ outBuf = <<>> /\ err = [shown |-> <<>>, start |-> TRUE]
    /\ stream = "none" /\ holders = {} /\ unwritten = <<>> /\ written = <<>>
    /\ offset = 0 /\ ending = "none"
    /\ spoken = <<>> /\ messages = 0 /\ overwritten = FALSE

-----------------------------------------------------------------------------
(* util.c                                                                  *)

(* What is shown is a sequence of units, each one with a mark put before   *)
(* it or without.                                                          *)
Plain(s) == [i \in DOMAIN s |-> [text |-> s[i], marked |-> FALSE]]
Said(shown) == [i \in DOMAIN shown |-> shown[i].text]
OwnMark(s, i) == i < Len(s) /\ s[i] = Mark[1] /\ s[i + 1] = Mark[2]

(* write() to stdout, and stdio's stderr                                   *)
Raw(e, s) == [shown |-> e.shown \o Plain(s), start |-> e.start]

(* hm_write_prefixed_stderr()                                              *)
Prefixed(e, s, keep) ==
    LET begins(i) == IF i = 1 THEN e.start ELSE s[i - 1] = "nl"
    IN IF s = <<>> THEN e
       ELSE [shown |-> e.shown \o
                [i \in DOMAIN s |->
                    [text |-> s[i], marked |-> begins(i) /\ ~(keep /\ OwnMark(s, i))]],
             start |-> s[Len(s)] = "nl"]

(* hm_err_stream_end(), and a text with the end of its last line.          *)
EndLine(e) == IF e.start THEN e ELSE [Raw(e, <<"nl">>) EXCEPT !.start = TRUE]
Ended(s) == s = <<>> \/ s[Len(s)] = "nl"
Closed(s) == IF Ended(s) THEN s ELSE Append(s, "nl")

(* hm_out_flush()                                                          *)
Flushed == IF outFd = 2 THEN Prefixed(err, outBuf, FALSE) ELSE Raw(err, outBuf)

(* hm_out()                                                                *)
Report(m) ==
    /\ opc = "main" /\ m \in Statuses /\ messages < MaxMessages
    /\ IF Len(m) > OutCap - Len(outBuf) THEN err' = Flushed /\ outBuf' = m
       ELSE outBuf' = outBuf \o m /\ UNCHANGED err
    /\ spoken' = spoken \o m /\ messages' = messages + 1
    /\ UNCHANGED <<opc, outFd, streamVars>>

(* hm_err()                                                                *)
Complains(m) ==
    /\ err' = Prefixed(EndLine(Flushed), m, TRUE) /\ outBuf' = <<>>
    /\ spoken' = spoken \o m

Complain(m) ==
    /\ opc = "main" /\ m \in Notes /\ messages < MaxMessages
    /\ Complains(m) /\ messages' = messages + 1
    /\ UNCHANGED <<opc, outFd, streamVars>>

(* hm_err_bytes() of the next n units of the stream.                       *)
PassesOn(n) ==
    /\ err' = Prefixed(Flushed, SubSeq(written, offset + 1, offset + n), TRUE)
    /\ outBuf' = <<>> /\ offset' = offset + n

-----------------------------------------------------------------------------
(* install.c and check.c                                                   *)

(* A check with curl, then a setup; status lines are flushed before the    *)
(* latter.                                                                 *)
BeginStream(kind, text) ==
    /\ opc = "main" /\ text \in Outputs
    /\ \/ stream = "none" /\ kind \in {"curl", "trace", "capture"}
       \/ stream = "curl" /\ kind \in {"trace", "capture"}
    /\ IF kind = "curl" THEN UNCHANGED <<err, outBuf>> ELSE err' = Flushed /\ outBuf' = <<>>
    /\ stream' = kind /\ holders' = {"first"}
    /\ unwritten' = text /\ written' = <<>> /\ offset' = 0 /\ ending' = "none"
    /\ opc' = IF kind = "capture" THEN "wait" ELSE "relay"
    /\ UNCHANGED <<outFd, spoken, messages, overwritten>>

(* relay_setup_stderr(), and the poll() loop of run_curl(): until nobody   *)
(* can write any more.                                                     *)
Relay ==
    /\ opc = "relay"
    /\ \E n \in 1..Chunk : offset + n <= Len(written) /\ PassesOn(n)
    /\ UNCHANGED <<opc, outFd, stream, holders, unwritten, written, ending, spoken,
                   messages, overwritten>>

ShowEnds ==
    /\ err' = EndLine(err)
    /\ spoken' = Closed(spoken \o written)
    /\ opc' = "report"

RelayEnds ==
    /\ opc = "relay" /\ holders = {} /\ offset = Len(written)
    /\ ShowEnds
    /\ UNCHANGED <<outFd, outBuf, streamVars, messages>>

(* waitpid(): the output of a setup that succeeded is forgotten.           *)
Discard ==
    /\ opc = "wait" /\ ending = "ok"
    /\ opc' = "report"
    /\ UNCHANGED <<outFd, outBuf, err, streamVars, spoken, messages>>

(* replay_capture(): lseek(), then read() of as much as there is.          *)
Rewind ==
    /\ opc = "wait" /\ ending = "failed"
    /\ offset' = 0 /\ opc' = "replay"
    /\ UNCHANGED <<outFd, outBuf, err, stream, holders, unwritten, written, ending, spoken,
                   messages, overwritten>>

Replay ==
    /\ opc = "replay" /\ offset < Len(written)
    /\ PassesOn(IF Len(written) - offset < Chunk THEN Len(written) - offset ELSE Chunk)
    /\ UNCHANGED <<opc, outFd, stream, holders, unwritten, written, ending, spoken, messages,
                   overwritten>>

(* MUTANT: the last line of a replayed output is not ended.                *)
ReplayEndsMidLine ==
    /\ opc = "replay" /\ offset = Len(written)
    /\ spoken' = Closed(spoken \o written) /\ opc' = "report"
    /\ UNCHANGED <<outFd, outBuf, err, streamVars, messages>>

ReplayEnds ==
    /\ opc = "replay" /\ offset = Len(written)
    /\ ShowEnds
    /\ UNCHANGED <<outFd, outBuf, streamVars, messages>>

Failure == Mark \o <<"text", "nl">>

(* The failure itself: hm_err() of a check, stdio's stderr of a setup.     *)
Diagnose ==
    /\ opc = "report" /\ ending = "failed"
    /\ IF stream = "curl" THEN Complains(Failure)
       ELSE err' = Raw(err, Failure) /\ spoken' = spoken \o Failure /\ UNCHANGED outBuf
    /\ opc' = "over"
    /\ UNCHANGED <<outFd, streamVars, messages>>

GoOn ==
    /\ opc = "report" /\ ending = "ok"
    /\ opc' = "main"
    /\ UNCHANGED <<outFd, outBuf, err, streamVars, spoken, messages>>

(* finish() and exec_program(): from here on the terminal is the program's,*)
(* or the caller's.                                                        *)
HandOver ==
    /\ opc = "main"
    /\ err' = IF outFd = 2 THEN EndLine(Flushed) ELSE Flushed
    /\ outBuf' = <<>> /\ opc' = "program"
    /\ UNCHANGED <<outFd, streamVars, spoken, messages>>

-----------------------------------------------------------------------------
(* The shell or curl ("first"), and what it leaves in the background.      *)

(* write(): a pipe takes it at its end, the file at its position.          *)
Writes(s) ==
    IF stream = "capture"
    THEN /\ written' = SubSeq(written, 1, offset) \o s
                       \o SubSeq(written, offset + Len(s) + 1, Len(written))
         /\ offset' = offset + Len(s)
    ELSE written' = written \o s /\ UNCHANGED offset

ShellWrites ==
    /\ "first" \in holders /\ unwritten # <<>>
    /\ Writes(<<Head(unwritten)>>)
    /\ unwritten' = Tail(unwritten)
    /\ UNCHANGED <<opc, outFd, outBuf, err, stream, holders, ending, spoken, messages, overwritten>>

(* It ends, and may leave a process behind that holds the stream.          *)
ShellEnds ==
    /\ "first" \in holders /\ ending' \in {"ok", "failed"}
    /\ \/ holders' = {}
       \/ stream # "curl" /\ holders' = {"background"}
    /\ UNCHANGED <<opc, outFd, outBuf, err, stream, unwritten, written, offset, spoken, messages,
                   overwritten>>

BackgroundWrites ==
    /\ "background" \in holders /\ unwritten # <<>>
    /\ Writes(<<Head(unwritten)>>)
    /\ unwritten' = Tail(unwritten)
    /\ overwritten' = (overwritten \/ opc = "replay")
    /\ UNCHANGED <<opc, outFd, outBuf, err, stream, holders, ending, spoken, messages>>

BackgroundEnds ==
    /\ "background" \in holders /\ holders' = {}
    /\ UNCHANGED <<opc, outFd, outBuf, err, stream, unwritten, written, offset, ending, spoken,
                   messages, overwritten>>

OutputNext ==
    \/ \E m \in Statuses : Report(m)
    \/ \E m \in Notes : Complain(m)
    \/ \E kind \in {"curl", "trace", "capture"}, text \in Outputs : BeginStream(kind, text)
    \/ Relay \/ RelayEnds \/ Discard \/ Rewind \/ Replay \/ ReplayEnds
    \/ Diagnose \/ GoOn \/ HandOver
    \/ ShellWrites \/ ShellEnds \/ BackgroundWrites \/ BackgroundEnds

OutputSpec == OutputInit /\ [][OutputNext]_outputVars

-----------------------------------------------------------------------------
(* Every line that is shown carries hacman's mark: one put before it, or   *)
(* its own, as that of a nested run has; only a status line that goes to   *)
(* stdout has none.  No mark is put inside a line.                         *)
LinesAreMarked(shown) ==
    \A i \in DOMAIN shown :
        IF i = 1 \/ shown[i - 1].text = "nl"
        THEN \/ shown[i].marked
             \/ OwnMark(Said(shown), i)
             \/ outFd = 1 /\ shown[i].text = "status"
        ELSE ~shown[i].marked

(* "its complete captured output is replayed to stderr before the failure  *)
(* diagnostic; displayed setup stderr is prefixed" (README): at any time,  *)
(* however streams were cut into reads, each line is marked, and once a    *)
(* stream was shown, all that was said is shown or buffered, whole, in the *)
(* order it was said and with its last line ended.  A setup that succeeded *)
(* quietly shows nothing.                                                  *)
ShownAsSaid ==
    /\ LinesAreMarked(err.shown)
    /\ opc \notin {"relay", "replay"} /\ ~overwritten =>
        Said(err.shown) \o outBuf = spoken /\ Ended(Said(err.shown))
=============================================================================
