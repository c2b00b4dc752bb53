------------------------------- MODULE Fetch --------------------------------
(***************************************************************************)
(* hm_check() (check.c): run_curl() starts curl with a pipe for its        *)
(* standard output and one for its standard error, drains both with        *)
(* poll(), keeps the first bytes of the output in a fixed buffer, waits    *)
(* for curl, and takes a mark out of what it kept.                         *)
(*                                                                         *)
(* Bytes are told apart as far as the extraction does: the header names    *)
(* ("etag:", "last-modified:"), the version's prefix and suffix, blanks,   *)
(* line ends and text.                                                     *)
(***************************************************************************)
EXTENDS Naturals, Sequences, FiniteSetsExt

CONSTANTS
    Responses,      \* what the server may answer, as sequences of units
    Complaint,      \* how much curl may write on its standard error
    BodyMax,        \* HM_BODY_MAX
    PipeSize,       \* what a pipe holds before a writer blocks
    MarkMax,        \* HM_MARK_MAX
    CallsFail       \* BOOLEAN: whether system calls fail

Unit == {"etag:", "last-modified:", "prefix", "suffix", "blank", "cr", "nl", "text", "more"}
Pipe == {"out", "err"}
Check == {"etag", "hash", "version", "line"}    \* "line": version without a suffix
Fail == <<"no mark">>

ASSUME FetchAssumption ==
    /\ Responses \subseteq Seq(Unit)
    /\ Complaint \in Nat /\ MarkMax \in Nat \ {0}
    /\ BodyMax \in Nat \ {0} /\ PipeSize \in Nat \ {0}
    /\ CallsFail \in BOOLEAN

VARIABLES
    fpc,            \* where hacman is in run_curl()
    check,          \* p->check
    resp,           \* the server's answer
    ready,          \* the revents of the last poll()
    body,           \* body_buf[0..total)
    relayed,        \* how much of curl's complaints was passed on
    mark,           \* res->mark, or Fail where hm_check() returned -1
    curl,           \* the forked child; "out" or "err": inside a write()
    status,         \* how it ended
    delivered, said,     \* how much it wrote on either pipe
    inPipe,         \* how many of these units are still in the pipe
    readers,        \* who holds a read end of each pipe
    writers,        \* who holds a write end
    cutShort        \* history: poll() or read() failed

askedVars == <<check, resp>>
keptVars == <<body, relayed, mark, cutShort>>
curlVars == <<curl, status, delivered, said>>
pipeVars == <<inPipe, readers, writers>>
fetcherVars == <<fpc, askedVars, ready, keptVars>>
fetchVars == <<fetcherVars, curlVars, pipeVars>>

FetchInit ==
    /\ fpc = "pipe" /\ check = "etag" /\ resp = <<>>
    /\ ready = {} /\ body = <<>> /\ relayed = 0 /\ mark = Fail
    /\ curl = "none" /\ status = "none" /\ delivered = 0 /\ said = 0
    /\ inPipe = [e \in Pipe |-> 0]
    /\ readers = [e \in Pipe |-> {}] /\ writers = [e \in Pipe |-> {}]
    /\ cutShort = FALSE

-----------------------------------------------------------------------------
(* Extraction.                                                             *)

(* The first u in b at i or later, or just behind b.                       *)
Find(b, i, u) ==
    LET at == {j \in i..Len(b) : b[j] = u} IN IF at = {} THEN Len(b) + 1 ELSE Min(at)

(* Without leading units of `lead`, then without trailing ones of `trail`. *)
Trim(v, lead, trail) ==
    LET from == {i \in DOMAIN v : v[i] \notin lead}
        to == {i \in DOMAIN v : v[i] \notin trail}
    IN IF from = {} \/ to = {} THEN <<>> ELSE SubSeq(v, Min(from), Max(to))

LineStarts(b) == {i \in DOMAIN b : i = 1 \/ b[i - 1] = "nl"}

(* last_header(): the value on the last line of that name.                 *)
HeaderLines(b, name) == {i \in LineStarts(b) : b[i] = name}
HeaderValue(b, i) ==
    Trim(Trim(SubSeq(b, i + 1, Find(b, i, "nl") - 1), {}, {"cr"}), {"blank"}, {"blank"})
LastHeader(b, name) == HeaderValue(b, Max(HeaderLines(b, name)))

EtagMark(b) ==
    IF HeaderLines(b, "etag:") # {} THEN LastHeader(b, "etag:")
    ELSE IF HeaderLines(b, "last-modified:") # {} THEN LastHeader(b, "last-modified:")
    ELSE Fail

(* MUTANT: a version whose suffix never comes is taken to the end.         *)
VersionMarkUnended(b, stop) ==
    LET start == Find(b, 1, "prefix") + 1
        v == Trim(SubSeq(b, start, Find(b, start, stop) - 1), {"blank"}, {"blank", "cr"})
    IN IF start > Len(b) + 1 \/ v = <<>> THEN Fail ELSE v

(* extract_version()                                                       *)
VersionMark(b, stop) ==
    LET start == Find(b, 1, "prefix") + 1
        end == Find(b, start, stop)
        v == Trim(SubSeq(b, start, end - 1), {"blank"}, {"blank", "cr"})
    IN IF start > Len(b) + 1 \/ (stop = "suffix" /\ end > Len(b)) \/ v = <<>>
       THEN Fail ELSE v

(* hm_str_copy() into the mark.                                            *)
Clip(v) == IF v = Fail THEN Fail ELSE SubSeq(v, 1, Min({Len(v), MarkMax}))

(* The switch at the end of hm_check().  Different bodies have different   *)
(* hashes; a hash fits into a mark.                                        *)
MarkOf(c, b) ==
    CASE c = "etag" -> Clip(EtagMark(b))
      [] c = "hash" -> b
      [] c = "version" -> Clip(VersionMark(b, "suffix"))
      [] c = "line" -> Clip(VersionMark(b, "nl"))

-----------------------------------------------------------------------------
(* hacman: pipe(), pipe(), fork(), poll() and read() until both pipes are  *)
(* at their end, waitpid().                                                *)

FGoto(label) == fpc' = label

OpenPipe(e) ==
    /\ readers' = [readers EXCEPT ![e] = {"hacman"}]
    /\ writers' = [writers EXCEPT ![e] = {"hacman"}]

AskServer(c, r) ==
    /\ fpc = "pipe" /\ c \in Check /\ r \in Responses
    /\ check' = c /\ resp' = r
    /\ OpenPipe("out") /\ FGoto("pipe2")
    /\ UNCHANGED <<ready, keptVars, curlVars, inPipe>>

OpenStderr ==
    /\ fpc = "pipe2"
    /\ OpenPipe("err") /\ FGoto("fork")
    /\ UNCHANGED <<askedVars, ready, keptVars, curlVars, inPipe>>

NoEnds == [e \in Pipe |-> {}]

(* MUTANT: a failing second pipe() leaves the first one open.              *)
OpenFailsForgets ==
    /\ CallsFail
    /\ fpc \in {"pipe", "pipe2", "fork"}
    /\ IF fpc = "fork" THEN readers' = NoEnds /\ writers' = NoEnds
       ELSE UNCHANGED <<readers, writers>>
    /\ FGoto("done")
    /\ UNCHANGED <<askedVars, ready, keptVars, curlVars, inPipe>>

(* A failing pipe() or fork() closes what was opened before it.            *)
OpenFails ==
    /\ CallsFail
    /\ fpc \in {"pipe", "pipe2", "fork"}
    /\ readers' = NoEnds /\ writers' = NoEnds
    /\ FGoto("done")
    /\ UNCHANGED <<askedVars, ready, keptVars, curlVars, inPipe>>

(* The child has every end; hacman then closes its write ends.             *)
ForkCurl ==
    /\ fpc = "fork"
    /\ curl' = "forked"
    /\ readers' = [e \in Pipe |-> {"hacman", "curl"}]
    /\ writers' = [e \in Pipe |-> {"curl"}]
    /\ FGoto("poll")
    /\ UNCHANGED <<askedVars, ready, keptVars, status, delivered, said, inPipe>>

Open == {e \in Pipe : "hacman" \in readers[e]}
Readable(e) == inPipe[e] > 0 \/ writers[e] = {}

(* MUTANT: standard error is looked at only when the output has ended.     *)
PollOutFirst ==
    /\ fpc = "poll"
    /\ \/ Open = {} /\ FGoto("wait") /\ UNCHANGED ready
       \/ /\ \E e \in Open : Readable(e) /\ (e = "err" => "out" \notin Open)
          /\ ready' = {e \in Open : Readable(e) /\ (e = "err" => "out" \notin Open)}
          /\ FGoto("readOut")
    /\ UNCHANGED <<askedVars, keptVars, curlVars, pipeVars>>

(* MUTANT: the loop is over when the output is.                            *)
PollUntilOutputEnds ==
    /\ fpc = "poll"
    /\ IF "out" \notin Open
       THEN /\ readers' = [e \in Pipe |-> readers[e] \ {"hacman"}]
            /\ FGoto("wait") /\ UNCHANGED ready
       ELSE /\ \E e \in Open : Readable(e)
            /\ ready' = {e \in Open : Readable(e)}
            /\ FGoto("readOut") /\ UNCHANGED readers
    /\ UNCHANGED <<askedVars, keptVars, curlVars, inPipe, writers>>

(* Blocks until one of the open pipes has something to read or has ended.  *)
Poll ==
    /\ fpc = "poll"
    /\ \/ Open = {} /\ FGoto("wait") /\ UNCHANGED ready
       \/ /\ \E e \in Open : Readable(e)
          /\ ready' = {e \in Open : Readable(e)}
          /\ FGoto("readOut")
    /\ UNCHANGED <<askedVars, keptVars, curlVars, pipeVars>>

(* Any error of poll() but EINTR ends the loop and closes both pipes.      *)
PollFails ==
    /\ CallsFail /\ fpc = "poll" /\ Open # {}
    /\ cutShort' = TRUE
    /\ readers' = [e \in Pipe |-> readers[e] \ {"hacman"}]
    /\ FGoto("wait")
    /\ UNCHANGED <<askedVars, ready, body, relayed, mark, curlVars, inPipe, writers>>

CloseRead(e) == readers' = [readers EXCEPT ![e] = @ \ {"hacman"}]
Drain(e, n) == inPipe' = [inPipe EXCEPT ![e] = @ - n]

Full == Len(body) >= BodyMax - 1
(* MUTANT: the terminating byte is forgotten.                              *)
RoomForAll(n) == Len(body) + n <= BodyMax
(* A read() never takes more than there is room for.                       *)
RoomFor(n) == Len(body) + n <= BodyMax - 1
(* The units of the response at the head of the pipe.                      *)
Arrived(n) == SubSeq(resp, delivered - inPipe["out"] + 1, delivered - inPipe["out"] + n)

(* read() of the output: what fits is kept, what comes when the buffer is  *)
(* full is read and dropped, so that curl never blocks; at the end, or on  *)
(* an error, the pipe is closed.                                           *)
ReadOut ==
    /\ fpc = "readOut" /\ "out" \in ready
    /\ \/ /\ \E n \in 1..inPipe["out"] :
                /\ Full \/ RoomFor(n)
                /\ body' = IF Full THEN body ELSE body \o Arrived(n)
                /\ Drain("out", n)
          /\ UNCHANGED <<cutShort, readers>>
       \/ inPipe["out"] = 0 /\ CloseRead("out") /\ UNCHANGED <<body, cutShort, inPipe>>
       \/ CallsFail /\ CloseRead("out") /\ cutShort' = TRUE /\ UNCHANGED <<body, inPipe>>
    /\ FGoto("readErr")
    /\ UNCHANGED <<askedVars, ready, relayed, mark, curlVars, writers>>

SkipOut ==
    /\ fpc = "readOut" /\ "out" \notin ready
    /\ FGoto("readErr")
    /\ UNCHANGED <<askedVars, ready, keptVars, curlVars, pipeVars>>

(* read() of the complaints, which hm_err_bytes() passes on.               *)
ReadErr ==
    /\ fpc = "readErr" /\ "err" \in ready
    /\ \/ /\ \E n \in 1..inPipe["err"] : Drain("err", n) /\ relayed' = relayed + n
          /\ UNCHANGED <<cutShort, readers>>
       \/ inPipe["err"] = 0 /\ CloseRead("err") /\ UNCHANGED <<relayed, cutShort, inPipe>>
       \/ CallsFail /\ CloseRead("err") /\ cutShort' = TRUE /\ UNCHANGED <<relayed, inPipe>>
    /\ FGoto("poll")
    /\ UNCHANGED <<askedVars, ready, body, mark, curlVars, writers>>

SkipErr ==
    /\ fpc = "readErr" /\ "err" \notin ready
    /\ FGoto("poll")
    /\ UNCHANGED <<askedVars, ready, keptVars, curlVars, pipeVars>>

(* MUTANT: how curl ended does not matter.                                 *)
TakeMarkAnyway ==
    /\ fpc = "wait" /\ curl = "ended"
    /\ curl' = "reaped"
    /\ mark' = MarkOf(check, body)
    /\ FGoto("done")
    /\ UNCHANGED <<askedVars, ready, body, relayed, cutShort, status, delivered, said, pipeVars>>

(* waitpid(), and the mark if curl ended well.                             *)
TakeMark ==
    /\ fpc = "wait" /\ curl = "ended"
    /\ curl' = "reaped"
    /\ mark' = IF status = "zero" THEN MarkOf(check, body) ELSE Fail
    /\ FGoto("done")
    /\ UNCHANGED <<askedVars, ready, body, relayed, cutShort, status, delivered, said, pipeVars>>

(* waitpid() of a child the kernel reaps by itself (SIGCHLD ignored).      *)
WaitFails ==
    /\ CallsFail /\ fpc = "wait" /\ curl = "ended"
    /\ FGoto("done")
    /\ UNCHANGED <<askedVars, ready, keptVars, curlVars, pipeVars>>

-----------------------------------------------------------------------------
(* The child: hacman's code up to execvp(), then curl.                     *)

(* close() of the read ends, dup2(), execvp().                             *)
ExecCurl ==
    /\ curl = "forked"
    /\ curl' = "running"
    /\ readers' = [e \in Pipe |-> readers[e] \ {"curl"}]
    /\ UNCHANGED <<fetcherVars, status, delivered, said, inPipe, writers>>

CurlEnds(how) ==
    /\ curl' = "ended" /\ status' = how
    /\ readers' = [e \in Pipe |-> readers[e] \ {"curl"}]
    /\ writers' = [e \in Pipe |-> writers[e] \ {"curl"}]
    /\ UNCHANGED <<fetcherVars, delivered, said, inPipe>>

(* _exit(127): no curl, or no descriptor for dup2().                       *)
ExecCurlFails == curl = "forked" /\ CurlEnds("nonzero")

Unwritten(e) == IF e = "out" THEN Len(resp) - delivered ELSE Complaint - said

(* curl enters write(), with more of the answer or another complaint, and  *)
(* stays there as long as the pipe is full.                                *)
CurlBegins(e) ==
    /\ curl = "running" /\ Unwritten(e) > 0
    /\ curl' = e
    /\ UNCHANGED <<fetcherVars, status, delivered, said, pipeVars>>

CurlWrites(e) ==
    /\ curl = e /\ readers[e] # {}
    /\ \E n \in 1..(PipeSize - inPipe[e]) :
          /\ n <= Unwritten(e)
          /\ inPipe' = [inPipe EXCEPT ![e] = @ + n]
          /\ IF e = "out" THEN delivered' = delivered + n /\ UNCHANGED said
             ELSE said' = said + n /\ UNCHANGED delivered
    /\ curl' = "running"
    /\ UNCHANGED <<fetcherVars, status, readers, writers>>

(* It succeeds when it delivered everything, and fails for any reason      *)
(* (--fail, --max-time, nobody reads) when it is not inside a write().     *)
CurlSucceeds == curl = "running" /\ delivered = Len(resp) /\ CurlEnds("zero")
CurlFails ==
    /\ curl = "running" \/ (curl \in Pipe /\ readers[curl] = {})
    /\ CurlEnds("nonzero")

(* A user's kill(1).                                                       *)
CurlKilled == curl \in {"running"} \cup Pipe /\ CallsFail /\ CurlEnds("signal")

Fetching ==
    \/ OpenStderr \/ ForkCurl \/ Poll \/ ReadOut \/ SkipOut \/ ReadErr \/ SkipErr \/ TakeMark
FetchFails == OpenFails \/ PollFails \/ WaitFails
Curl ==
    \/ ExecCurl \/ CurlSucceeds \/ CurlFails
    \/ \E e \in Pipe : CurlBegins(e) \/ CurlWrites(e)

FetchNext ==
    \/ \E c \in Check, r \in Responses : AskServer(c, r)
    \/ Fetching \/ FetchFails \/ Curl \/ ExecCurlFails \/ CurlKilled

FetchSpec == FetchInit /\ [][FetchNext]_fetchVars

(* Both processes run on; curl ends by itself (--max-time).                *)
FetchFairness == WF_fetchVars(Fetching) /\ WF_fetchVars(Curl)

-----------------------------------------------------------------------------
FetchTypeOK ==
    /\ fpc \in {"pipe", "pipe2", "fork", "poll", "readOut", "readErr", "wait", "done"}
    /\ check \in Check /\ resp \in Responses \cup {<<>>}
    /\ ready \subseteq Pipe /\ cutShort \in BOOLEAN
    /\ body \in Seq(Unit) /\ Len(body) < BodyMax
    /\ relayed \in 0..Complaint
    /\ curl \in {"none", "forked", "running", "ended", "reaped"} \cup Pipe
    /\ status \in {"none", "zero", "nonzero", "signal"}
    /\ delivered \in 0..Len(resp) /\ said \in 0..Complaint
    /\ inPipe \in [Pipe -> 0..PipeSize]
    /\ readers \in [Pipe -> SUBSET {"hacman", "curl"}]
    /\ writers \in [Pipe -> SUBSET {"hacman", "curl"}]

(* What the buffer has room for.                                           *)
Kept(r) == SubSeq(r, 1, Min({Len(r), BodyMax - 1}))

(* A mark stands for the whole answer, as far as the buffer goes: however  *)
(* the reads and writes fell, and never for one that curl could not fetch. *)
MarkIsOfTheAnswer ==
    fpc = "done" /\ mark # Fail /\ ~cutShort =>
        delivered = Len(resp) /\ mark = MarkOf(check, Kept(resp))

(* All that curl complained about was passed on, although the two pipes    *)
(* end at different times.                                                 *)
ComplaintsPassedOn == fpc = "done" /\ curl = "reaped" /\ ~cutShort => relayed = said

(* "the text between `version-prefix` and `version-suffix`", trimmed; "an  *)
(* empty suffix means up to the end of the line" (check.c).                *)
VersionIsDelimited ==
    fpc = "done" /\ mark # Fail /\ check \in {"version", "line"} =>
        \E i, j, k \in 1..(Len(body) + 1) :
            LET stop == IF check = "version" THEN "suffix" ELSE "nl"
                between == SubSeq(body, i + 1, k - 1)
                text == SubSeq(body, j, j + Len(mark) - 1)
            IN /\ i < j /\ j < k
               /\ body[i] = "prefix" /\ \A n \in 1..(i - 1) : body[n] # "prefix"
               /\ \A n \in DOMAIN between : between[n] # stop
               /\ k > Len(body) => check = "line"
               /\ k <= Len(body) => body[k] = stop
               /\ mark = text /\ mark # <<>> /\ mark[1] # "blank"
               /\ \A n \in (i + 1)..(j - 1) : body[n] = "blank"
               /\ Len(mark) < MarkMax => mark[Len(mark)] \notin {"blank", "cr"}
               /\ Len(mark) < MarkMax =>
                     \A n \in (j + Len(mark))..(k - 1) : body[n] \in {"blank", "cr"}

(* No descriptor is left open, whichever call failed.                      *)
NoDescriptorLeft ==
    fpc = "done" => \A e \in Pipe : "hacman" \notin readers[e] \cup writers[e]

(* Two pipes, two processes that block on them: the check comes to an end. *)
CheckEnds == (fpc = "pipe2") ~> (fpc = "done")
=============================================================================
