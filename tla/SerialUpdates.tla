--------------------------- MODULE SerialUpdates ---------------------------
(***************************************************************************)
(* What the update lock, the reload and the second decision are for: the   *)
(* records of a cache change as if every run decided, checked and recorded *)
(* in one step.  A record is replaced only by a run that the record, as it *)
(* is at that moment, calls for, and a URL's mark only by a run that set   *)
(* the project up or that observed the mark already recorded.  Hacman.tla  *)
(* shows by which steps the runs get there.                                *)
(***************************************************************************)
EXTENDS Schedule

CONSTANTS Proc, Slot, Ident, Conf, Mark, Stored, Time, NoIdent, NoMark, NoRequest

VARIABLES
    record,     \* per slot
    done,       \* the identities that were set up or adopted in a slot
    request,    \* what each run is asked for
    ready       \* the runs that have set up what they are about to record

serialVars == <<record, done, request, ready>>

Request == [slot: Slot, ident: Ident, force: BOOLEAN]

SUInit ==
    /\ record = [s \in Slot |-> [ident |-> NoIdent, lastCheck |-> 0, mark |-> NoMark]]
    /\ done = [s \in Slot |-> {}]
    /\ request = [p \in Proc |-> NoRequest]
    /\ ready = {}

Asked(p) == request[p] \in Request
ConfAsked(p) == Conf[request[p].ident]

(* The record counts for the project it was made for.                      *)
Known(p) == record[request[p].slot].ident = request[p].ident
LastCheck(p) == IF Known(p) THEN record[request[p].slot].lastCheck ELSE 0
MarkKnown(p) == IF Known(p) THEN record[request[p].slot].mark ELSE NoMark

(* A program in the cache may have been missing when it was looked for.    *)
CalledForAt(p, now) ==
    \E missing \in {FALSE, ConfAsked(p).bin = "cached"} :
        IsDue(ConfAsked(p), Known(p), LastCheck(p), now, request[p].force, missing)

Ask(p) ==
    /\ request[p] = NoRequest
    /\ UNCHANGED <<record, done, ready>>
    /\ \E r \in Request : request' = [request EXCEPT ![p] = r]

(* A run may fail to record, and ends or dies at any time.                 *)
GiveUp(p) ==
    /\ Asked(p)
    /\ ready' = ready \ {p}
    /\ UNCHANGED <<record, done>>
    /\ UNCHANGED request \/ request' = [request EXCEPT ![p] = NoRequest]

SetUp(p) ==
    /\ Asked(p) /\ p \notin ready
    /\ ready' = ready \cup {p}
    /\ done' = [done EXCEPT ![request[p].slot] = @ \cup {request[p].ident}]
    /\ \E now \in Time : CalledForAt(p, now)
    /\ UNCHANGED <<record, request>>

(* A command keeps its mark; a URL has the one that was observed.          *)
Update(p) ==
    /\ Asked(p)
    /\ ready' = ready \ {p}
    /\ UNCHANGED <<done, request>>
    /\ \E now \in Time, observed \in Mark \cup {NoMark} :
        /\ CalledForAt(p, now)
        /\ p \in ready \/ (ConfAsked(p).kind = "url" /\ Known(p) /\ MarkKnown(p) = observed)
        /\ record' = [record EXCEPT ![request[p].slot] =
                        [ident |-> request[p].ident, lastCheck |-> now,
                         mark |-> Stored[IF ConfAsked(p).kind = "url" THEN observed
                                         ELSE MarkKnown(p)]]]

SUNext == \E p \in Proc : Ask(p) \/ GiveUp(p) \/ SetUp(p) \/ Update(p)

SUSpec == SUInit /\ [][SUNext]_serialVars

=============================================================================
