------------------------------ MODULE Upstream ------------------------------
(***************************************************************************)
(* internal/slurper/subscription.go: the subscriptions the slurper starts, *)
(* one after the other, for one labeler.  A subscription dials from the    *)
(* stored cursor, limits and filters the labels of each frame, records     *)
(* what it keeps with PersistIngest and only then stores the cursor; any   *)
(* error ends the connection and it dials again.                           *)
(*                                                                         *)
(* Reconcile cancels a subscription without waiting for its goroutine, so  *)
(* the next one dials while the database call of the old one is still in   *)
(* flight.  The events and the cursor are in the same SQLite file.         *)
(***************************************************************************)
EXTENDS Integers, Sequences, FiniteSets

CONSTANTS
    MaxUp,       \* bound on the frames the labeler publishes
    MaxSubs,     \* bound on the subscriptions the slurper starts
    Contents,    \* what a frame may carry: sets of "signed" and "unsigned"
    Overrides,   \* values of require_sig: "default", "required", "optional"
    SigDefault,  \* RELAY_REQUIRE_SIG
    PowerFails   \* may the machine lose power?

ASSUME BoundAssumption == MaxUp \in Nat /\ MaxSubs \in Nat
ASSUME ContentAssumption == Contents \subseteq SUBSET {"signed", "unsigned"}
ASSUME OverrideAssumption == Overrides \subseteq {"default", "required", "optional"}
ASSUME SwitchAssumption == SigDefault \in BOOLEAN /\ PowerFails \in BOOLEAN

Ids == 1 .. MaxSubs

VARIABLES
    up,        \* the frames published by the labeler, by upstream seq
    started,   \* the subscription started last, 0 at first
    live,      \* is the context of a subscription still alive?
    override,  \* the require_sig of the registry row each was started with
    pc,        \* where the goroutine of each stands
    pos,       \* last upstream seq behind the connection of each
    cursor,    \* labelers.last_upstream_seq, 0 for NULL
    recorded,  \* history: the frames PersistIngest committed
    dropped,   \* history: the frames of which the policy kept nothing
    base,      \* history: the head when a connection without cursor began
    synced     \* the database a power loss leaves

subVars == <<live, override, pc, pos>>
dbVars == <<cursor, recorded>>
vars == <<up, started, subVars, dbVars, dropped, base, synced>>

Record == [seq : Nat, labels : SUBSET {"signed", "unsigned"}, by : Ids, late : BOOLEAN]

\* Fault: the goroutine runs on a context nobody cancels.
NeverCancelled(i) == TRUE

\* The context given to the database calls, the handshake and the loops.
Alive(i) == live[i]

\* The frame the handler has in hand.
Frame(i) == pos[i] + 1

Init ==
    /\ up = <<>>
    /\ started = 0
    /\ live = [i \in Ids |-> FALSE]
    /\ override \in [Ids -> {"default"}]
    /\ pc = [i \in Ids |-> "none"]
    /\ pos = [i \in Ids |-> 0]
    /\ cursor = 0
    /\ recorded = {}
    /\ dropped = {}
    /\ base = 0
    /\ synced = [cursor |-> 0, recorded |-> {}]

-----------------------------------------------------------------------------
(* The sig policy *)

SigRequired(o) == o = "required" \/ (o = "default" /\ SigDefault)

\* KeepLabel over the labels of a frame.
Kept(i) ==
    {label \in up[Frame(i)] : label = "signed" \/ ~SigRequired(override[i])}

-----------------------------------------------------------------------------
(* The slurper *)

\* Fault: the old subscription is forgotten but not cancelled.
StartBesideOld(o) ==
    /\ started < MaxSubs
    /\ started' = started + 1
    /\ live' = [live EXCEPT ![started + 1] = TRUE]
    /\ override' = [override EXCEPT ![started + 1] = o]
    /\ pc' = [pc EXCEPT ![started + 1] = "top"]
    /\ UNCHANGED <<up, pos, dbVars, dropped, base, synced>>

\* Reconcile starts a subscription with the row it read; one that runs with
\* another endpoint or policy is cancelled first, and not waited for.
Start(o) ==
    /\ started < MaxSubs
    /\ started' = started + 1
    /\ live' = [i \in Ids |-> i = started + 1]
    /\ override' = [override EXCEPT ![started + 1] = o]
    /\ pc' = [pc EXCEPT ![started + 1] = "top"]
    /\ UNCHANGED <<up, pos, dbVars, dropped, base, synced>>

\* Reconcile finds the labeler disabled.  The bound keeps one start in reserve.
Stop ==
    /\ started \in 1 .. MaxSubs - 1
    /\ live' = [live EXCEPT ![started] = FALSE]
    /\ UNCHANGED <<up, started, override, pc, pos, dbVars, dropped, base, synced>>

-----------------------------------------------------------------------------
(* run, dial and handleLabelLabels *)

Goto(i, point) == pc' = [pc EXCEPT ![i] = point]

\* The loop of run sees its context alive, dial reads the cursor.
ReadCursor(i) ==
    /\ pc[i] = "top"
    /\ Alive(i)
    /\ Goto(i, "dial")
    /\ pos' = [pos EXCEPT ![i] = cursor]
    /\ UNCHANGED <<up, started, live, override, dbVars, dropped, base, synced>>

\* The handshake.  The labeler replays what follows the cursor and goes on
\* live; without a cursor it sends only what it publishes from now on.
Connect(i) ==
    /\ pc[i] = "dial"
    /\ Alive(i)
    /\ Goto(i, "stream")
    /\ pos' = [pos EXCEPT ![i] = IF @ = 0 THEN Len(up) ELSE @]
    /\ base' = IF pos[i] = 0 THEN Len(up) ELSE base
    /\ UNCHANGED <<up, started, live, override, dbVars, dropped, synced>>

\* HandleRepoStream hands over the next frame; one that was already read from
\* the socket comes even after the cancellation.
Receive(i) ==
    /\ pc[i] = "stream"
    /\ Frame(i) <= Len(up)
    /\ Goto(i, "frame")
    /\ UNCHANGED <<up, started, live, override, pos, dbVars, dropped, base, synced>>

\* The limiter let every label pass and some are kept: PersistIngest begins its
\* transaction, which a cancelled context refuses.
BeginPersist(i) ==
    /\ pc[i] = "frame"
    /\ Alive(i)
    /\ Kept(i) # {}
    /\ Goto(i, "commit")
    /\ UNCHANGED <<up, started, live, override, pos, dbVars, dropped, base, synced>>

\* The transaction commits, in time or just after the cancellation.
Persist(i) ==
    /\ pc[i] = "commit"
    /\ recorded' = recorded \cup
          {[seq |-> Frame(i), labels |-> Kept(i), by |-> i, late |-> ~live[i]]}
    /\ Goto(i, "recorded")
    /\ UNCHANGED <<up, started, live, override, pos, cursor, dropped, base, synced>>

\* WriteCursor after the commit.
BeginWrite(i) ==
    /\ pc[i] = "recorded"
    /\ Alive(i)
    /\ Goto(i, "write")
    /\ UNCHANGED <<up, started, live, override, pos, dbVars, dropped, base, synced>>

\* Nothing is kept: WriteCursor without a persist.
BeginSkip(i) ==
    /\ pc[i] = "frame"
    /\ Alive(i)
    /\ Kept(i) = {}
    /\ dropped' = dropped \cup {Frame(i)}
    /\ Goto(i, "write")
    /\ UNCHANGED <<up, started, live, override, pos, dbVars, base, synced>>

\* Fault: the cursor is stored before the frame is recorded.
WriteFirst(i) ==
    /\ pc[i] \in {"commit", "write"}
    /\ cursor' = Frame(i)
    /\ Goto(i, IF pc[i] = "write" THEN "stream" ELSE "commit")
    /\ pos' = IF pc[i] = "write" THEN [pos EXCEPT ![i] = @ + 1] ELSE pos
    /\ UNCHANGED <<up, started, live, override, recorded, dropped, base, synced>>

\* The UPDATE takes effect and the handler returns for the next frame.
WriteCursor(i) ==
    /\ pc[i] = "write"
    /\ cursor' = Frame(i)
    /\ Goto(i, "stream")
    /\ pos' = [pos EXCEPT ![i] = @ + 1]
    /\ UNCHANGED <<up, started, live, override, recorded, dropped, base, synced>>

\* Fault: a failed frame is passed over.
FailSkips(i) ==
    /\ pc[i] \in {"frame", "commit", "recorded", "write"}
    /\ Goto(i, "stream")
    /\ pos' = [pos EXCEPT ![i] = @ + 1]
    /\ UNCHANGED <<up, started, live, override, dbVars, dropped, base, synced>>

\* A failed read, handshake, limiter wait, transaction or write, a lost
\* connection, an #error frame or the cancellation: dial returns, run backs off.
Fail(i) ==
    /\ pc[i] \in {"dial", "stream", "frame", "commit", "recorded", "write"}
    /\ Goto(i, "top")
    /\ pos' = [pos EXCEPT ![i] = 0]
    /\ UNCHANGED <<up, started, live, override, dbVars, dropped, base, synced>>

\* run sees its context cancelled.
Exit(i) ==
    /\ pc[i] = "top"
    /\ ~Alive(i)
    /\ Goto(i, "none")
    /\ UNCHANGED <<up, started, live, override, pos, dbVars, dropped, base, synced>>

-----------------------------------------------------------------------------
(* The environment *)

Publish ==
    /\ Len(up) < MaxUp
    /\ \E labels \in Contents : up' = Append(up, labels)
    /\ UNCHANGED <<started, subVars, dbVars, dropped, base, synced>>

\* The operating system writes the WAL out.
Sync ==
    /\ PowerFails
    /\ synced' = [cursor |-> cursor, recorded |-> recorded]
    /\ UNCHANGED <<up, started, subVars, dbVars, dropped, base>>

\* The goroutines are gone.  The bound keeps one start in reserve.
Die ==
    /\ started < MaxSubs
    /\ live' = [i \in Ids |-> FALSE]
    /\ pc' = [i \in Ids |-> "none"]
    /\ pos' = [i \in Ids |-> 0]
    /\ UNCHANGED <<up, started, override, dropped, base, synced>>

Crash == Die /\ UNCHANGED dbVars

\* Fault: the events lose their unsynced tail, the cursor does not.
PowerLossApart ==
    /\ PowerFails
    /\ Die
    /\ recorded' = synced.recorded
    /\ UNCHANGED cursor

\* The WAL is cut at one point for both tables.
PowerLoss ==
    /\ PowerFails
    /\ Die
    /\ cursor' = synced.cursor
    /\ recorded' = synced.recorded

Sub(i) ==
    \/ ReadCursor(i) \/ Connect(i) \/ Receive(i) \/ BeginPersist(i) \/ Persist(i)
    \/ BeginWrite(i) \/ BeginSkip(i) \/ WriteCursor(i) \/ Fail(i) \/ Exit(i)

Next ==
    \/ \E o \in Overrides : Start(o)
    \/ Stop
    \/ \E i \in Ids : Sub(i)
    \/ Publish \/ Sync \/ Crash \/ PowerLoss

Spec == Init /\ [][Next]_vars

\* The ticker of Run reconciles again and again; goroutines run; an operation
\* that is retried for ever (every redial is one) succeeds in the end.
FairSpec ==
    /\ Spec
    /\ WF_vars(\E o \in Overrides : Start(o))
    /\ WF_vars(\E i \in Ids : Exit(i))
    /\ SF_vars(\E i \in Ids : ReadCursor(i))
    /\ SF_vars(\E i \in Ids : Connect(i))
    /\ SF_vars(\E i \in Ids : Receive(i))
    /\ SF_vars(\E i \in Ids : BeginPersist(i) \/ BeginSkip(i))
    /\ SF_vars(\E i \in Ids : Persist(i))
    /\ SF_vars(\E i \in Ids : BeginWrite(i))
    /\ SF_vars(\E i \in Ids : WriteCursor(i))

-----------------------------------------------------------------------------
(* Correctness *)

\* Types; and no subscription but the last one started has a live context.
UpTypeOK ==
    /\ up \in Seq(Contents) /\ Len(up) <= MaxUp
    /\ started \in 0 .. MaxSubs
    /\ live \in [Ids -> BOOLEAN]
    /\ \A i \in Ids : live[i] => i = started
    /\ override \in [Ids -> {"default", "required", "optional"}]
    /\ pc \in [Ids -> {"none", "top", "dial", "stream", "frame", "commit", "recorded", "write"}]
    /\ pos \in [Ids -> 0 .. MaxUp]
    /\ cursor \in 0 .. MaxUp
    /\ recorded \subseteq Record
    /\ dropped \subseteq 1 .. MaxUp
    /\ base \in 0 .. MaxUp
    /\ synced \in [cursor : 0 .. MaxUp, recorded : SUBSET Record]

Handled == {r.seq : r \in recorded} \cup dropped

\* At-least-once (AC10.1): every frame up to the stored cursor was recorded or
\* refused by the policy, though cancelled subscriptions store cursors late,
\* over that of their successor, and crashes and power losses strike anywhere.
CursorIsBacked == base + 1 .. cursor \subseteq Handled

\* A power loss leaves a cursor that is backed by what it leaves.
SyncedIsBacked ==
    base + 1 .. synced.cursor \subseteq {r.seq : r \in synced.recorded} \cup dropped

\* Whatever a connection has behind it is backed, and so is the frame in hand
\* from the moment it is recorded or refused.
ConnectionIsBacked(i) ==
    /\ pc[i] \in {"none", "top"} \/ base + 1 .. pos[i] \subseteq Handled
    /\ pc[i] \in {"frame", "commit", "recorded", "write"} => Frame(i) <= Len(up)
    /\ pc[i] \in {"recorded", "write"} => Frame(i) \in Handled

\* The inductive form of CursorIsBacked.
UpInv ==
    /\ UpTypeOK
    /\ base <= Len(up)
    /\ CursorIsBacked
    /\ SyncedIsBacked
    /\ \A i \in Ids : ConnectionIsBacked(i)

\* Once Reconcile has cancelled a subscription, at most the one frame it had in
\* hand is still recorded by it: a disabled labeler goes silent.
OneLateFrame ==
    \A i \in Ids :
        \A r, s \in recorded :
            r.by = i /\ s.by = i /\ r.late /\ s.late => r.seq = s.seq

\* While the policy of the running configuration requires signatures (AC4.2), an
\* unsigned label is recorded only by a subscription cancelled meanwhile.
PolicyInForce ==
    [][\A r \in recorded' \ recorded :
          "unsigned" \in r.labels /\ SigRequired(override[started]) => r.late]_vars

\* The bookmark no failure can take back.
DurableCursor == IF PowerFails THEN synced.cursor ELSE cursor

\* Dial read no cursor and the labeler has not answered yet.
DialsBlank == \E i \in Ids : pc[i] = "dial" /\ pos[i] = 0

\* Once there is a durable bookmark and no connection under way that was begun
\* without it, every frame published is recorded or refused in the end: errors,
\* redials, restarts and crashes only repeat frames.
NothingLost ==
    \A n \in 1 .. MaxUp :
        (DurableCursor # 0 /\ ~DialsBlank /\ n \in base + 1 .. Len(up)) ~> n \in Handled

Promise ==
    INSTANCE AtLeastOnce WITH
        Sole <- FALSE, MayForget <- FALSE, MayRewind <- PowerFails,
        head <- Len(up), matters <- 1 .. Len(up),
        bookmark <- cursor, dealt <- Handled, blank <- DialsBlank

\* The subscriptions of a labeler, together, are one reader of its stream: frames
\* are first recorded or refused in their order, and old ones are given up only
\* by a connection that found no cursor.
ImplementsAtLeastOnce == Promise!Spec
=============================================================================
