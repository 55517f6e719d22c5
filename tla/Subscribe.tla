----------------------------- MODULE Subscribe ------------------------------
(***************************************************************************)
(* internal/server/subscribe.go: HandleSubscribeLabelers up to the call of *)
(* StreamFrom, and the client that comes back with its last cursor.        *)
(*                                                                         *)
(* The handler reads the head and the floor with queries of their own, so  *)
(* commits and prune batches fall between them.  A client keeps only the   *)
(* relay_seq it received last and sends it as ?cursor= when it reconnects. *)
(***************************************************************************)
EXTENDS Seam

VARIABLES
    req,        \* where the handler stands in evaluating the cursor
    asked,      \* the ?cursor= of this connection (NoCursor: absent)
    readHead,   \* the head CursorStatus read
    start,      \* the value it will give StreamFrom
    told,       \* the control frame the client got on this connection
    pos,        \* last relay_seq the client received, on any connection
    origin,     \* where the client's stream began
    got         \* everything the client received, on all its connections

evalVars == <<asked, readHead, start>>
clientVars == <<pos, origin, got>>
subscribeVars == <<req, evalVars, told, clientVars>>
allVars == <<vars, subscribeVars>>

NoCursor == -1

FloorSeq == IF rows = {} THEN 0 ELSE Min(rows)

-----------------------------------------------------------------------------
SubInit ==
    /\ Init
    /\ req = [c \in Consumers |-> "none"]
    /\ asked = [c \in Consumers |-> NoCursor]
    /\ readHead = [c \in Consumers |-> 0]
    /\ start = [c \in Consumers |-> 0]
    /\ told = [c \in Consumers |-> "nothing"]
    /\ pos = [c \in Consumers |-> NoCursor]
    /\ origin = [c \in Consumers |-> NoCursor]
    /\ got = [c \in Consumers |-> {}]

\* The client connects: a new one with no cursor, or with any number it likes,
\* one that was here before with the last relay_seq it received.
Connect(c) ==
    /\ handler[c] = "idle"
    /\ req[c] = "none"
    /\ \E k \in IF pos[c] = NoCursor THEN {NoCursor} \cup 0 .. MaxSeq ELSE {pos[c]} :
          /\ asked' = [asked EXCEPT ![c] = k]
          /\ req' = [req EXCEPT ![c] = IF k = NoCursor THEN "live" ELSE "status"]
    /\ told' = [told EXCEPT ![c] = "nothing"]
    /\ UNCHANGED <<vars, readHead, start, clientVars>>

\* No cursor: from the current head.
EvalLive(c) ==
    /\ req[c] = "live"
    /\ start' = [start EXCEPT ![c] = HeadSeq]
    /\ req' = [req EXCEPT ![c] = "stream"]
    /\ UNCHANGED <<vars, asked, readHead, told, clientVars>>

\* CursorStatus, first query.
EvalHead(c) ==
    /\ req[c] = "status"
    /\ readHead' = [readHead EXCEPT ![c] = HeadSeq]
    /\ req' = [req EXCEPT ![c] = "floor"]
    /\ UNCHANGED <<vars, asked, start, told, clientVars>>

\* CursorStatus, second query, and its verdict.
CursorFuture(c) == asked[c] > readHead[c]

\* Fault: the successor of the cursor is not counted as available.
OutdatedOffByOne(c) == FloorSeq > 0 /\ asked[c] < FloorSeq

CursorOutdated(c) == FloorSeq > 0 /\ asked[c] < FloorSeq - 1

EvalFloor(c) ==
    /\ req[c] = "floor"
    /\ \/ /\ CursorFuture(c)
          /\ told' = [told EXCEPT ![c] = "FutureCursor"]
          /\ req' = [req EXCEPT ![c] = "none"]
          /\ UNCHANGED start
       \/ /\ ~CursorFuture(c) /\ CursorOutdated(c)
          /\ req' = [req EXCEPT ![c] = "outdated"]
          /\ UNCHANGED <<start, told>>
       \/ /\ ~CursorFuture(c) /\ ~CursorOutdated(c)
          /\ start' = [start EXCEPT ![c] = asked[c]]
          /\ req' = [req EXCEPT ![c] = "stream"]
          /\ UNCHANGED told
    /\ UNCHANGED <<vars, asked, readHead, clientVars>>

\* CursorOutdated: read the floor again, tell the client, resume below it.
\* Fault: resume at the floor as if it were the last row received.
ResumePastFloor(c) ==
    /\ req[c] = "outdated"
    /\ told' = [told EXCEPT ![c] = "OutdatedCursor"]
    /\ start' = [start EXCEPT ![c] = FloorSeq]
    /\ req' = [req EXCEPT ![c] = "stream"]
    /\ UNCHANGED <<vars, asked, readHead, clientVars>>

EvalOutdated(c) ==
    /\ req[c] = "outdated"
    /\ told' = [told EXCEPT ![c] = "OutdatedCursor"]
    /\ start' = [start EXCEPT ![c] = FloorSeq - 1]
    /\ req' = [req EXCEPT ![c] = "stream"]
    /\ UNCHANGED <<vars, asked, readHead, clientVars>>

\* A query fails, or the #info frame cannot be written: the connection closes.
EvalFails(c) ==
    /\ \/ ReadsFail /\ req[c] \in {"live", "status", "floor", "outdated"}
       \/ req[c] = "outdated"
    /\ req' = [req EXCEPT ![c] = "none"]
    /\ UNCHANGED <<vars, evalVars, told, clientVars>>

\* A new client's stream begins at the cursor it gave, or where the relay put it.
Origin(c) ==
    IF pos[c] # NoCursor THEN origin[c]
    ELSE IF asked[c] # NoCursor THEN asked[c] ELSE start[c]

\* Fault: the cursor itself is sent again.
StreamFromCursor(c) ==
    /\ req[c] = "stream"
    /\ StreamFrom(c, start[c] - 1)
    /\ req' = [req EXCEPT ![c] = "none"]
    /\ origin' = [origin EXCEPT ![c] = Origin(c)]
    /\ UNCHANGED <<evalVars, told, pos, got>>

\* Fault: the evaluation is still open while the stream runs.
StreamTwice(c) ==
    /\ req[c] = "stream"
    /\ StreamFrom(c, start[c])
    /\ origin' = [origin EXCEPT ![c] = Origin(c)]
    /\ UNCHANGED <<req, evalVars, told, pos, got>>

BeginStream(c) ==
    /\ req[c] = "stream"
    /\ StreamFrom(c, start[c])
    /\ req' = [req EXCEPT ![c] = "none"]
    /\ origin' = [origin EXCEPT ![c] = Origin(c)]
    /\ UNCHANGED <<evalVars, told, pos, got>>

-----------------------------------------------------------------------------
(* The stream of Seam, with what the client makes of it *)

ClientReads(c) ==
    /\ WriteOK(c)
    /\ pos' = [pos EXCEPT ![c] = sent[c][taken[c]]]
    /\ got' = [got EXCEPT ![c] = @ \cup {sent[c][taken[c]]}]
    /\ UNCHANGED <<req, evalVars, told, origin>>

ClientTooSlow(c) ==
    /\ TooSlow(c)
    /\ told' = [told EXCEPT ![c] = "ConsumerTooSlow"]
    /\ UNCHANGED <<req, evalVars, clientVars>>

SubHandler(c) ==
    \/ ClientReads(c)
    \/ ClientTooSlow(c)
    \/ (Take(c) \/ WriteFails(c) \/ CleanupDrains(c) \/ Disconnect(c)) /\ UNCHANGED subscribeVars

\* The clients outlive the process; evaluations in it do not.
SubCrash ==
    /\ Crash
    /\ req' = [c \in Consumers |-> "none"]
    /\ UNCHANGED <<evalVars, told, clientVars>>

Eval(c) ==
    \/ EvalLive(c) \/ EvalHead(c) \/ EvalFloor(c) \/ EvalOutdated(c)
    \/ EvalFails(c) \/ BeginStream(c)

SubNext ==
    \/ (Ingest \/ Broadcast \/ Prune) /\ UNCHANGED subscribeVars
    \/ SubCrash
    \/ \E c \in Consumers :
          \/ Connect(c) \/ Eval(c)
          \/ (Stream(c) \/ Drainer(c)) /\ UNCHANGED subscribeVars
          \/ SubHandler(c)

SubSpec == SubInit /\ [][SubNext]_allVars

-----------------------------------------------------------------------------
(* Correctness *)

SubTypeOK ==
    /\ SeamTypeOK
    /\ req \in [Consumers -> {"none", "live", "status", "floor", "outdated", "stream"}]
    /\ asked \in [Consumers -> NoCursor .. MaxSeq]
    /\ readHead \in [Consumers -> 0 .. MaxSeq]
    /\ start \in [Consumers -> -1 .. MaxSeq]
    /\ told \in [Consumers -> {"nothing", "FutureCursor", "OutdatedCursor", "ConsumerTooSlow"}]
    /\ pos \in [Consumers -> NoCursor .. MaxSeq]
    /\ origin \in [Consumers -> NoCursor .. MaxSeq]
    /\ got \in [Consumers -> SUBSET Seqs]
    /\ \A c \in Consumers : req[c] # "none" => handler[c] = "idle"

\* A reconnecting client never sees an event again (AC9.2 and AC2.2 over
\* connections, crashes of the relay included).
NeverAgain ==
    [][\A c \in Consumers : ClientReads(c) => pos'[c] > pos[c]]_allVars

\* Over all its connections, all a client lacks below its position are rows the
\* prune job deleted (AC9.2).
ResumesWithoutGap ==
    \A c \in Consumers : \A s \in rows :
        origin[c] < s /\ s <= pos[c] => s \in got[c]

\* OutdatedCursor is said only of a cursor whose successor was pruned.
OutdatedIsTrue ==
    \A c \in Consumers :
        told[c] = "OutdatedCursor" => asked[c] + 1 \in 1 .. lastSeq \ rows

\* A client that comes back with the last relay_seq it received is never told
\* FutureCursor (AC9.2: "A reconnecting consumer resumes from its last cursor").
ReturningIsNotFuture ==
    [][\A c \in Consumers :
          told[c] # "FutureCursor" /\ told'[c] = "FutureCursor" => pos[c] = NoCursor]_allVars
=============================================================================
