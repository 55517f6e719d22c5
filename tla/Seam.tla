------------------------------- MODULE Seam --------------------------------
(***************************************************************************)
(* internal/server/seam.go and hub.go: StreamFrom joins the durable log to *)
(* the live hub for each consumer, and the write loop of                   *)
(* HandleSubscribeLabelers takes what it delivers.                         *)
(*                                                                         *)
(* Per consumer there are three goroutines: the stream (pc), the drainer   *)
(* that empties the live channel during phases 1 and 2, and the handler    *)
(* that writes to the WebSocket.  They share two buffered channels, live   *)
(* (filled by Hub.Broadcast) and out (filled by the stream), and the       *)
(* cancellation of streamCtx.  The channel out is kept as its history:     *)
(* sent is all the stream ever pushed, taken how much the handler took,    *)
(* wrote how much of that it wrote to the client.                          *)
(***************************************************************************)
EXTENDS RelayLog, Sequences, FiniteSets, FiniteSetsExt

CONSTANTS
    Consumers,   \* WebSocket connections
    BufSize,     \* capacity of live, of out, and of a playback chunk
    ReadsFail    \* may a database read return an error?

ASSUME BufSizeAssumption == BufSize \in Nat \ {0}
ASSUME ReadsFailAssumption == ReadsFail \in BOOLEAN

VARIABLES
    pc,       \* where the stream goroutine of StreamFrom stands
    phase,    \* 1, 2, 3: which of the three backfill loops it is in
    since,    \* the argument of StreamFrom
    cursor,   \* last relay_seq delivered from the database
    chunk,    \* rows the current playback query has yet to yield
    n,        \* rows the current query has delivered
    held,     \* live event on its way to out (0: none)
    drainer,  \* "run" or "off"
    sub,      \* is the consumer in Hub.subs, its live channel open?
    dropped,  \* did Broadcast find the live channel full and drop it?
    live,     \* the live channel
    sent,     \* everything pushed to out, in order
    taken,    \* how many of sent the handler has received
    wrote,    \* how many of sent the handler has written to the client
    handler   \* where HandleSubscribeLabelers stands

streamVars == <<pc, phase, since, cursor, chunk, n, held>>
hubVars == <<sub, dropped, live>>
handlerVars == <<taken, wrote, handler>>
seamVars == <<streamVars, drainer, hubVars, sent, handlerVars>>
vars == <<logVars, seamVars>>

-----------------------------------------------------------------------------
(* Reading the state *)

Ran(s) == {s[i] : i \in 1 .. Len(s)}
Upto(s, k) == {s[i] : i \in 1 .. k}

HeadSeq == IF rows = {} THEN 0 ELSE Max(rows)

\* Rows a playback query with relay_seq > k sees.
Later(k) == {r \in rows : r > k}

\* The result of that query under LIMIT BufSize, in ascending order.
Chunks(k) ==
    {R \in SUBSET Later(k) :
        /\ Cardinality(R) <= BufSize
        /\ Cardinality(R) < BufSize => R = Later(k)
        /\ \A r \in R, x \in Later(k) \ R : r < x}

\* streamCtx is cancelled once the handler runs cleanup.
Cancelled(c) == handler[c] = "cleanup"

\* Fault: the channel out holds one event more than its capacity.
RoomOffByOne(c) == Len(sent[c]) - taken[c] <= BufSize

Room(c) == Len(sent[c]) - taken[c] < BufSize
OutEmpty(c) == Len(sent[c]) = taken[c]

\* Fault: an empty live channel is taken for a closed one.
EmptyIsClosed(c) == live[c] = <<>>

LiveClosed(c) == ~sub[c] /\ live[c] = <<>>

\* Fault: the last event of the backfill is not recognised on the live channel.
DuplicateOffByOne(c) == Head(live[c]) < cursor[c]

\* e.RelaySeq <= lastBackfill
Duplicate(c) == Head(live[c]) <= cursor[c]

Received(c) == Upto(sent[c], wrote[c])

-----------------------------------------------------------------------------
Init ==
    /\ LogInit
    /\ pc = [c \in Consumers |-> "idle"]
    /\ phase = [c \in Consumers |-> 1]
    /\ since = [c \in Consumers |-> 0]
    /\ cursor = [c \in Consumers |-> 0]
    /\ chunk = [c \in Consumers |-> {}]
    /\ n = [c \in Consumers |-> 0]
    /\ held = [c \in Consumers |-> 0]
    /\ drainer = [c \in Consumers |-> "off"]
    /\ sub = [c \in Consumers |-> FALSE]
    /\ dropped = [c \in Consumers |-> FALSE]
    /\ live = [c \in Consumers |-> <<>>]
    /\ sent = [c \in Consumers |-> <<>>]
    /\ taken = [c \in Consumers |-> 0]
    /\ wrote = [c \in Consumers |-> 0]
    /\ handler = [c \in Consumers |-> "idle"]

-----------------------------------------------------------------------------
(* The hub, called by PersistIngest under its mutex *)

\* Broadcast: a subscriber whose buffer is full is dropped, never waited for.
Broadcast ==
    /\ Announce
    /\ live' = [c \in Consumers |->
                  IF sub[c] /\ Len(live[c]) < BufSize THEN Append(live[c], unsent)
                                                      ELSE live[c]]
    /\ dropped' = [c \in Consumers |->
                     dropped[c] \/ (sub[c] /\ Len(live[c]) = BufSize)]
    /\ sub' = [c \in Consumers |-> sub[c] /\ Len(live[c]) < BufSize]
    /\ UNCHANGED <<streamVars, drainer, sent, handlerVars>>

\* Hub.Subscribe.
Subscribes(c) == sub' = [sub EXCEPT ![c] = TRUE]

\* The function it returns: nothing happens if Broadcast or the other caller has
\* removed the subscription before.
Unsubscribes(c) == sub' = [sub EXCEPT ![c] = FALSE]

-----------------------------------------------------------------------------
(* StreamFrom *)

\* Subscribe to live first, then start the stream and its drainer.
StreamFrom(c, s) ==
    /\ handler[c] = "idle"
    /\ handler' = [handler EXCEPT ![c] = "take"]
    /\ pc' = [pc EXCEPT ![c] = "head"]
    /\ since' = [since EXCEPT ![c] = s]
    /\ cursor' = [cursor EXCEPT ![c] = s]
    /\ drainer' = [drainer EXCEPT ![c] = "run"]
    /\ Subscribes(c)
    /\ UNCHANGED <<logVars, phase, chunk, n, held, dropped, live, sent, taken, wrote>>

\* The goroutine returns: liveCancel and close(out).
Return(c) ==
    /\ pc' = [pc EXCEPT ![c] = "end"]
    /\ Unsubscribes(c)
    /\ chunk' = [chunk EXCEPT ![c] = {}]
    /\ held' = [held EXCEPT ![c] = 0]
    /\ UNCHANGED <<logVars, phase, since, cursor, n, drainer, dropped, live, sent, handlerVars>>

\* Phase 1, top of the loop: compare the head with the cursor.
ReadHead(c) ==
    /\ pc[c] = "head"
    /\ ~Cancelled(c)
    /\ pc' = [pc EXCEPT ![c] = "read"]
    /\ phase' = [phase EXCEPT ![c] = IF HeadSeq - cursor[c] <= BufSize THEN 2 ELSE 1]
    /\ UNCHANGED <<logVars, since, cursor, chunk, n, held, drainer, hubVars, sent, handlerVars>>

\* A query that yields nothing ends the loop of the phase.
NextPhase(c) ==
    /\ pc' = [pc EXCEPT ![c] = CASE phase[c] = 1 -> "read"
                                 [] phase[c] = 2 -> "stop"
                                 [] phase[c] = 3 -> "live"]
    /\ phase' = [phase EXCEPT ![c] = IF phase[c] = 1 THEN 2 ELSE phase[c]]

\* PlaybackFramesChunk runs its query; SQLite fixes the snapshot here.
ReadChunk(c) ==
    /\ pc[c] = "read"
    /\ ~Cancelled(c)
    /\ \E R \in Chunks(cursor[c]) :
          /\ chunk' = [chunk EXCEPT ![c] = R]
          /\ IF R = {} THEN NextPhase(c)
                       ELSE pc' = [pc EXCEPT ![c] = "push"] /\ UNCHANGED phase
    /\ n' = [n EXCEPT ![c] = 0]
    /\ UNCHANGED <<logVars, since, cursor, held, drainer, hubVars, sent, handlerVars>>

\* The playback callback: out <- e, cursor = e.RelaySeq.
Push(c) ==
    /\ pc[c] = "push"
    /\ Room(c)
    /\ \E e \in chunk[c] :
          /\ \A x \in chunk[c] : e <= x
          /\ sent' = [sent EXCEPT ![c] = Append(@, e)]
          /\ cursor' = [cursor EXCEPT ![c] = e]
          /\ chunk' = [chunk EXCEPT ![c] = @ \ {e}]
          /\ pc' = [pc EXCEPT ![c] = IF chunk[c] # {e} THEN "push"
                                     ELSE IF phase[c] = 1 THEN "head" ELSE "read"]
    /\ n' = [n EXCEPT ![c] = @ + 1]
    /\ UNCHANGED <<logVars, phase, since, held, drainer, hubVars, handlerVars>>

\* A database error: close(stopDrain) and wait for the drainer in phases 1 and
\* 2, return at once in phase 3.
LeaveBackfill(c) ==
    IF phase[c] = 3
    THEN Return(c)
    ELSE /\ pc' = [pc EXCEPT ![c] = "abort"]
         /\ chunk' = [chunk EXCEPT ![c] = {}]
         /\ UNCHANGED <<logVars, phase, since, cursor, n, held, drainer, hubVars, sent, handlerVars>>

ReadFails(c) ==
    /\ ReadsFail
    /\ pc[c] \in {"head", "read", "push"}
    /\ ~Cancelled(c)
    /\ LeaveBackfill(c)

\* streamCtx is done: the check at the top of a loop, the query, or the
\* callback notices.  A query that delivered nothing by then looks like an
\* empty one, so phase 3 falls through to phase 4.
FallThrough(c) ==
    /\ phase[c] = 3
    /\ pc[c] = "push" => n[c] = 0
    /\ pc' = [pc EXCEPT ![c] = "live"]
    /\ chunk' = [chunk EXCEPT ![c] = {}]
    /\ UNCHANGED <<logVars, phase, since, cursor, n, held, drainer, hubVars, sent, handlerVars>>

BackfillCancelled(c) ==
    /\ Cancelled(c)
    /\ pc[c] \in {"head", "read", "push"}
    /\ \/ FallThrough(c)
       \/ ~(phase[c] = 3 /\ pc[c] = "push" /\ n[c] = 0) /\ LeaveBackfill(c)

\* Fault: no straggler reads; live as soon as the drainer is gone.
SkipStragglers(c) ==
    /\ pc[c] = "stop"
    /\ drainer[c] = "off"
    /\ pc' = [pc EXCEPT ![c] = "live"]
    /\ UNCHANGED <<logVars, phase, since, cursor, chunk, n, held, drainer, hubVars, sent, handlerVars>>

\* Between phases 2 and 3: close(stopDrain); <-drainDone.
StopDrain(c) ==
    /\ pc[c] = "stop"
    /\ drainer[c] = "off"
    /\ IF Cancelled(c)
       THEN Return(c)
       ELSE /\ pc' = [pc EXCEPT ![c] = "read"]
            /\ phase' = [phase EXCEPT ![c] = 3]
            /\ UNCHANGED <<logVars, since, cursor, chunk, n, held, drainer, hubVars, sent, handlerVars>>

\* Fault: return on an error without waiting for drainDone.
AbortAtOnce(c) == pc[c] = "abort" /\ Return(c)

AbortBackfill(c) ==
    /\ pc[c] = "abort"
    /\ drainer[c] = "off"
    /\ Return(c)

\* Phase 4: one event from the live channel; cursor is lastBackfill from here on.
Receive(c) ==
    /\ pc[c] = "live"
    /\ live[c] # <<>>
    /\ live' = [live EXCEPT ![c] = Tail(@)]
    /\ IF Duplicate(c)
       THEN UNCHANGED <<pc, held>>
       ELSE /\ pc' = [pc EXCEPT ![c] = "deliver"]
            /\ held' = [held EXCEPT ![c] = Head(live[c])]
    /\ UNCHANGED <<logVars, phase, since, cursor, chunk, n, drainer, sub, dropped, sent, handlerVars>>

Deliver(c) ==
    /\ pc[c] = "deliver"
    /\ Room(c)
    /\ sent' = [sent EXCEPT ![c] = Append(@, held[c])]
    /\ held' = [held EXCEPT ![c] = 0]
    /\ pc' = [pc EXCEPT ![c] = "live"]
    /\ UNCHANGED <<logVars, phase, since, cursor, chunk, n, drainer, hubVars, handlerVars>>

\* Fault: phase 4 does not look whether the live channel was closed.
LeaveOnCancelOnly(c) ==
    /\ pc[c] \in {"live", "deliver"} /\ Cancelled(c)
    /\ Return(c)

\* Phase 4 ends when the live channel is closed and empty, or on cancellation.
LeaveLive(c) ==
    /\ \/ pc[c] = "live" /\ LiveClosed(c)
       \/ pc[c] \in {"live", "deliver"} /\ Cancelled(c)
    /\ Return(c)

-----------------------------------------------------------------------------
(* The drainer of phases 1 and 2.  With stopDrain closed and events waiting *)
(* its select picks either.                                                 *)

Drain(c) ==
    /\ drainer[c] = "run"
    /\ live[c] # <<>>
    /\ live' = [live EXCEPT ![c] = Tail(@)]
    /\ UNCHANGED <<logVars, streamVars, drainer, sub, dropped, sent, handlerVars>>

\* Fault: the drainer does not watch stopDrain.
DrainIgnoresStop(c) ==
    /\ drainer[c] = "run"
    /\ LiveClosed(c) \/ Cancelled(c)
    /\ drainer' = [drainer EXCEPT ![c] = "off"]
    /\ UNCHANGED <<logVars, streamVars, hubVars, sent, handlerVars>>

DrainExit(c) ==
    /\ drainer[c] = "run"
    /\ LiveClosed(c) \/ pc[c] \in {"stop", "abort"} \/ Cancelled(c)
    /\ drainer' = [drainer EXCEPT ![c] = "off"]
    /\ UNCHANGED <<logVars, streamVars, hubVars, sent, handlerVars>>

-----------------------------------------------------------------------------
(* The write loop of HandleSubscribeLabelers and the cleanup it defers *)

Take(c) ==
    /\ handler[c] = "take"
    /\ ~OutEmpty(c)
    /\ taken' = [taken EXCEPT ![c] = @ + 1]
    /\ handler' = [handler EXCEPT ![c] = "write"]
    /\ UNCHANGED <<logVars, streamVars, drainer, hubVars, sent, wrote>>

WriteOK(c) ==
    /\ handler[c] = "write"
    /\ wrote' = [wrote EXCEPT ![c] = taken[c]]
    /\ handler' = [handler EXCEPT ![c] = "take"]
    /\ UNCHANGED <<logVars, streamVars, drainer, hubVars, sent, taken>>

\* cleanup: streamCancel and liveCancel, then drain out until it is closed.
Cleanup(c) ==
    /\ handler' = [handler EXCEPT ![c] = "cleanup"]
    /\ Unsubscribes(c)
    /\ UNCHANGED <<logVars, streamVars, drainer, dropped, live, sent, taken, wrote>>

\* The client is gone, or the write deadline passed.
WriteFails(c) == handler[c] = "write" /\ Cleanup(c)

\* out was closed under the handler: it writes ConsumerTooSlow.
TooSlow(c) ==
    /\ handler[c] = "take"
    /\ OutEmpty(c)
    /\ pc[c] = "end"
    /\ Cleanup(c)

CleanupDrains(c) ==
    /\ handler[c] = "cleanup"
    /\ ~OutEmpty(c)
    /\ taken' = [taken EXCEPT ![c] = @ + 1]
    /\ UNCHANGED <<logVars, streamVars, drainer, hubVars, sent, wrote, handler>>

\* Back to a connection that does not exist.
Forget(C) ==
    /\ pc' = [c \in Consumers |-> IF c \in C THEN "idle" ELSE pc[c]]
    /\ phase' = [c \in Consumers |-> IF c \in C THEN 1 ELSE phase[c]]
    /\ since' = [c \in Consumers |-> IF c \in C THEN 0 ELSE since[c]]
    /\ cursor' = [c \in Consumers |-> IF c \in C THEN 0 ELSE cursor[c]]
    /\ chunk' = [c \in Consumers |-> IF c \in C THEN {} ELSE chunk[c]]
    /\ n' = [c \in Consumers |-> IF c \in C THEN 0 ELSE n[c]]
    /\ held' = [c \in Consumers |-> IF c \in C THEN 0 ELSE held[c]]
    /\ drainer' = [c \in Consumers |-> IF c \in C THEN "off" ELSE drainer[c]]
    /\ sub' = [c \in Consumers |-> IF c \in C THEN FALSE ELSE sub[c]]
    /\ dropped' = [c \in Consumers |-> IF c \in C THEN FALSE ELSE dropped[c]]
    /\ live' = [c \in Consumers |-> IF c \in C THEN <<>> ELSE live[c]]
    /\ sent' = [c \in Consumers |-> IF c \in C THEN <<>> ELSE sent[c]]
    /\ taken' = [c \in Consumers |-> IF c \in C THEN 0 ELSE taken[c]]
    /\ wrote' = [c \in Consumers |-> IF c \in C THEN 0 ELSE wrote[c]]
    /\ handler' = [c \in Consumers |-> IF c \in C THEN "idle" ELSE handler[c]]

\* out is closed and empty: the handler returns.
Disconnect(c) ==
    /\ handler[c] = "cleanup"
    /\ OutEmpty(c)
    /\ pc[c] = "end"
    /\ Forget({c})
    /\ UNCHANGED logVars

-----------------------------------------------------------------------------
(* The environment *)

Ingest == Commit /\ UNCHANGED seamVars
Prune == (\E gone \in SUBSET rows : Expire(gone)) /\ UNCHANGED seamVars

\* The process dies with every connection in it.
Crash == Restart /\ Forget(Consumers)

Stream(c) ==
    \/ ReadHead(c) \/ ReadChunk(c) \/ Push(c) \/ ReadFails(c) \/ BackfillCancelled(c)
    \/ StopDrain(c) \/ AbortBackfill(c) \/ Receive(c) \/ Deliver(c) \/ LeaveLive(c)

Drainer(c) == Drain(c) \/ DrainExit(c)

Handler(c) ==
    \/ Take(c) \/ WriteOK(c) \/ WriteFails(c) \/ TooSlow(c)
    \/ CleanupDrains(c) \/ Disconnect(c)

Next ==
    \/ Ingest \/ Broadcast \/ Prune \/ Crash
    \/ \E c \in Consumers :
          \/ \E s \in -1 .. lastSeq : StreamFrom(c, s)
          \/ Stream(c) \/ Drainer(c) \/ Handler(c)

Spec == Init /\ [][Next]_vars

\* Goroutines run; a WebSocket write ends, by success or by its deadline; the
\* writer that committed goes on to broadcast.  Nothing makes events arrive,
\* rows expire, consumers connect or the process crash.
FairSpec ==
    /\ Spec
    /\ WF_vars(Broadcast)
    /\ \A c \in Consumers : WF_vars(Stream(c)) /\ WF_vars(Drainer(c)) /\ WF_vars(Handler(c))

-----------------------------------------------------------------------------
(* Correctness *)

\* Both channels hold at most BufSize events; the counters are counters.
Capacity(c) ==
    /\ wrote[c] <= taken[c] /\ taken[c] <= Len(sent[c])
    /\ Len(sent[c]) - taken[c] <= BufSize
    /\ Len(live[c]) <= BufSize

PCs == {"idle", "head", "read", "push", "stop", "live", "deliver", "abort", "end"}

StreamTypes ==
    /\ pc \in [Consumers -> PCs]
    /\ phase \in [Consumers -> 1 .. 3]
    /\ since \in [Consumers -> -1 .. MaxSeq]
    /\ cursor \in [Consumers -> -1 .. MaxSeq]
    /\ chunk \in [Consumers -> SUBSET Seqs]
    /\ n \in [Consumers -> Nat]
    /\ held \in [Consumers -> 0 .. MaxSeq]

HubTypes ==
    /\ drainer \in [Consumers -> {"run", "off"}]
    /\ sub \in [Consumers -> BOOLEAN]
    /\ dropped \in [Consumers -> BOOLEAN]
    /\ live \in [Consumers -> Seq(Seqs)]

HandlerTypes ==
    /\ sent \in [Consumers -> Seq(Seqs)]
    /\ taken \in [Consumers -> Nat]
    /\ wrote \in [Consumers -> Nat]
    /\ handler \in [Consumers -> {"idle", "take", "write", "cleanup"}]

SeamTypeOK ==
    /\ LogTypeOK
    /\ StreamTypes
    /\ HubTypes
    /\ HandlerTypes
    /\ \A c \in Consumers : Capacity(c)

\* A client sees relay_seq strictly ascending and above its cursor: no event
\* twice and none out of order, across the three backfill loops, the events
\* the drainer discarded and the live channel (AC2.2).
InOrder ==
    \A c \in Consumers :
        /\ \A i \in 1 .. wrote[c] : sent[c][i] > since[c]
        /\ \A i, j \in 1 .. wrote[c] : i < j => sent[c][i] < sent[c][j]

\* No gap: a row above the cursor that the client lacks lies above everything
\* it has, whatever the hub dropped or the handler cancelled.  The only holes
\* in what a client received are rows the prune job deleted (AC2.2).
NoGap ==
    \A c \in Consumers : \A s \in rows :
        s > since[c] /\ s \notin Received(c) => \A x \in Received(c) : x < s

\* The goroutine of StreamFrom leaves nothing behind: once it has closed out,
\* the drainer is gone and the hub has forgotten the subscription.
NoLeak ==
    \A c \in Consumers :
        pc[c] \in {"idle", "end"} => drainer[c] = "off" /\ ~sub[c]

\* A client is told ConsumerTooSlow only when the hub dropped it
\* (subscribe.go: "this was a genuine slow-consumer drop").
TooSlowIsGenuine ==
    [][\A c \in Consumers : TooSlow(c) => dropped[c]]_vars

\* Every row above the cursor of an open stream is written to the client in
\* the end, unless it expires first or the connection ends.
Delivered ==
    \A c \in Consumers, s \in Seqs :
        (pc[c] # "idle" /\ s > since[c] /\ s \in rows)
            ~> (s \in Received(c) \/ s \notin rows \/ pc[c] = "idle")

\* A dropped consumer is disconnected, not kept waiting (AC9.1), and cleanup
\* ends: the goroutine notices the cancellation wherever it stands, closes out,
\* and the handler that drains out returns.
ConnectionEnds ==
    \A c \in Consumers : (dropped[c] \/ Cancelled(c)) ~> handler[c] = "idle"
=============================================================================
