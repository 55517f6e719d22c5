------------------------------ MODULE Firehose ------------------------------
(***************************************************************************)
(* internal/firehose: the watcher that follows the commits of the network, *)
(* announces labeler service records and keeps meta.firehose_cursor, which *)
(* it stores in batches and once more when a connection ends.              *)
(*                                                                         *)
(* The handler of a commit swallows every failure and stages the cursor    *)
(* behind it all the same.  The table of labelers that it writes is in     *)
(* module Slurper; the log it writes to, in LabelPersist.                  *)
(***************************************************************************)
EXTENDS Integers, Sequences, FiniteSets

CONSTANTS
    MaxCommits,  \* bound on the commits published
    MaxRecords,  \* bound on the service records published
    Contents,    \* what a commit may hold: the number of its service records, or Broken
    FlushEvery,  \* cursorFlushEvery
    Failures,    \* which calls may fail: of "store", "network", "meta"
    Signals      \* may the process be told to stop?

Broken == -1  \* a commit whose records cannot be extracted

ASSUME BoundAssumption == MaxCommits \in Nat /\ MaxRecords \in Nat /\ FlushEvery \in Nat \ {0}
ASSUME ContentAssumption == Contents \subseteq Nat \cup {Broken}
ASSUME FailureAssumption == Failures \subseteq {"store", "network", "meta"} /\ Signals \in BOOLEAN

VARIABLES
    up,        \* the commits published, by seq
    alive,     \* is the context of the errgroup alive?
    pc,        \* where the watcher stands
    pos,       \* last seq behind the connection
    nth,       \* which service record of the commit is in hand
    pending,   \* pendingSeq, 0 for nil
    count,     \* commitCount
    cursor,    \* meta.firehose_cursor, 0 if there is none
    recorded,  \* history: the service records in the log, <<seq, nth>>
    refused,   \* history: those whose DID names no labeler, and broken commits
    lost,      \* history: those tried and given up because a call failed
    unread,    \* history: the commits skipped by connections that could not read the
               \* cursor, and not handled since
    blind,     \* history: is this connection one of them?
    base,      \* history: the head when a connection without a stored cursor began
    staged,    \* history: the commits this connection staged
    missed     \* history: did its last flush fail? "no", "flush", or "exit"

connVars == <<pos, nth, pending, count>>
sightVars == <<unread, blind>>
histVars == <<recorded, refused, lost, sightVars, base>>
lagVars == <<staged, missed>>
vars == <<up, alive, pc, connVars, cursor, histVars, lagVars>>

\* The commit in hand, and its service records.
This == pos + 1
Records(n) == IF up[n] = Broken THEN {<<n, 0>>} ELSE {<<n, k>> : k \in 1 .. up[n]}

Init ==
    /\ up = <<>>
    /\ alive = TRUE
    /\ pc = "top"
    /\ pos = 0 /\ nth = 0 /\ pending = 0 /\ count = 0
    /\ cursor = 0
    /\ recorded = {} /\ refused = {} /\ lost = {}
    /\ unread = {} /\ blind = FALSE
    /\ base = 0
    /\ staged = {} /\ missed = "no"

\* A call on the context of the errgroup fails when it is cancelled, and
\* whenever calls of its kind may fail.
MayFail(kind) == ~alive \/ kind \in Failures

-----------------------------------------------------------------------------
(* Run and dial *)

\* Fault: the cursor staged by the last connection is not reset.
DialsStaged(from) ==
    /\ pc = "top"
    /\ alive
    /\ pc' = "dial"
    /\ pos' = from /\ nth' = 0
    /\ blind' = (from # cursor)
    /\ staged' = {} /\ missed' = "no"
    /\ UNCHANGED <<up, alive, pending, count, cursor, recorded, refused, lost, unread, base>>

Dials(from) ==
    /\ pc = "top"
    /\ alive
    /\ pc' = "dial"
    /\ pending' = 0 /\ count' = 0
    /\ pos' = from /\ nth' = 0
    /\ blind' = (from # cursor)
    /\ staged' = {} /\ missed' = "no"
    /\ UNCHANGED <<up, alive, cursor, recorded, refused, lost, unread, base>>

\* GetMeta.
ReadMeta == Dials(cursor)

\* GetMeta fails: dial goes on without a cursor.
ReadMetaFails ==
    /\ "meta" \in Failures
    /\ Dials(0)

\* Without a cursor the connection begins with the next commit: whatever lies
\* between a stored cursor that could not be read and the head is given up.
Connect ==
    /\ pc = "dial"
    /\ alive
    /\ pc' = "stream"
    /\ pos' = IF pos = 0 THEN Len(up) ELSE pos
    /\ base' = IF pos = 0 /\ cursor = 0 THEN Len(up) ELSE base
    /\ unread' = IF blind THEN unread \cup (cursor + 1 .. Len(up)) ELSE unread
    /\ UNCHANGED <<up, alive, nth, pending, count, cursor, recorded, refused, lost, blind, lagVars>>

DialFails ==
    /\ pc = "dial"
    /\ pc' = "top"
    /\ pos' = 0
    /\ UNCHANGED <<up, alive, nth, pending, count, cursor, histVars, lagVars>>

\* HandleRepoStream returns: an error, the end of the connection, the cancellation.
Disconnect ==
    /\ pc = "stream"
    /\ pc' = "close"
    /\ UNCHANGED <<up, alive, connVars, cursor, histVars, lagVars>>

\* Fault: the flush on exit uses the context of the errgroup.
ErrgroupContext == alive

\* Fault: dial returns without a flush.
NoFlush == FALSE

\* The deferred flush has a context of its own: may it store the cursor?
FlushContext == TRUE

\* dial returns: the staged cursor is stored.
FlushOnExit ==
    /\ pc = "close"
    /\ pc' = "top"
    /\ cursor' = IF pending # 0 /\ FlushContext THEN pending ELSE cursor
    /\ pos' = 0
    /\ UNCHANGED <<up, alive, nth, pending, count, histVars, lagVars>>

FlushOnExitFails ==
    /\ pc = "close"
    /\ pending # 0
    /\ "store" \in Failures
    /\ pc' = "top"
    /\ missed' = "exit"
    /\ pos' = 0
    /\ UNCHANGED <<up, alive, nth, pending, count, cursor, histVars, staged>>

Exit ==
    /\ pc = "top"
    /\ ~alive
    /\ pc' = "gone"
    /\ UNCHANGED <<up, alive, connVars, cursor, histVars, lagVars>>

-----------------------------------------------------------------------------
(* handleCommit *)

\* The next commit; the context may be cancelled while it is in hand.
\* ExtractLabelerServiceOps finds its records, or fails: the commit is dropped
\* and the cursor not staged.
Receive ==
    /\ pc = "stream"
    /\ alive
    /\ This <= Len(up)
    /\ IF up[This] = Broken
       THEN /\ refused' = refused \cup Records(This)
            /\ unread' = unread \ {This}
            /\ pos' = This
            /\ UNCHANGED <<pc, nth>>
       ELSE /\ pc' = IF up[This] = 0 THEN "stage" ELSE "resolve"
            /\ nth' = IF up[This] = 0 THEN 0 ELSE 1
            /\ UNCHANGED <<refused, unread, pos>>
    /\ UNCHANGED <<up, alive, pending, count, cursor, recorded, lost, blind, base, lagVars>>

\* Fault: the loop ends at the first record.
FirstRecordOnly == pc' = "stage" /\ nth' = 0

\* The loop over the records goes on.
NextRecord ==
    IF nth < up[This]
    THEN pc' = "resolve" /\ nth' = nth + 1
    ELSE pc' = "stage" /\ nth' = 0

\* LabelerEndpoint, then Upsert, each on its way to the next call.
Passes(at, next) ==
    /\ pc = at
    /\ alive
    /\ pc' = next
    /\ UNCHANGED <<up, alive, connVars, cursor, histVars, lagVars>>

\* LabelerEndpoint returns the endpoint.
Resolves == Passes("resolve", "upsert")

\* The statement of Upsert commits, maybe just before a cancellation.
Upserts == Passes("upsert", "persist")

\* The DID document names no labeler: RecordError.
Refuses ==
    /\ pc = "resolve"
    /\ alive
    /\ refused' = refused \cup {<<This, nth>>}
    /\ NextRecord
    /\ UNCHANGED <<up, alive, pos, pending, count, cursor, recorded, lost, sightVars, base, lagVars>>

\* PersistIngest commits the #service event, and the slurper is poked.
Persists ==
    /\ pc = "persist"
    /\ alive
    /\ recorded' = recorded \cup {<<This, nth>>}
    /\ NextRecord
    /\ UNCHANGED <<up, alive, pos, pending, count, cursor, refused, lost, sightVars, base, lagVars>>

\* One of the three calls fails: continue.
GivesUp ==
    /\ \/ pc = "resolve" /\ MayFail("network")
       \/ pc \in {"upsert", "persist"} /\ MayFail("store")
    /\ lost' = lost \cup {<<This, nth>>}
    /\ NextRecord
    /\ UNCHANGED <<up, alive, pos, pending, count, cursor, recorded, refused, sightVars, base, lagVars>>

\* Fault: a batch is one commit too long.
DueLate == count >= FlushEvery

\* Enough commits for a flush.
Due == count + 1 >= FlushEvery

\* maybeFlushCursor stages the cursor; the interval may have passed or not.
Stage ==
    /\ pc = "stage"
    /\ pending' = This
    /\ count' = count + 1
    /\ staged' = staged \cup {This}
    /\ unread' = unread \ {This}
    /\ \/ pc' = "flush" /\ UNCHANGED pos
       \/ ~Due /\ pc' = "stream" /\ pos' = This
    /\ UNCHANGED <<up, alive, nth, cursor, recorded, refused, lost, blind, base, missed>>

\* SetMeta.
Flush ==
    /\ pc = "flush"
    /\ alive
    /\ cursor' = This
    /\ pending' = 0 /\ count' = 0
    /\ missed' = "no"
    /\ pc' = "stream" /\ pos' = This
    /\ UNCHANGED <<up, alive, nth, histVars, staged>>

FlushFails ==
    /\ pc = "flush"
    /\ MayFail("store")
    /\ missed' = "flush"
    /\ pc' = "stream" /\ pos' = This
    /\ UNCHANGED <<up, alive, nth, pending, count, cursor, histVars, staged>>

-----------------------------------------------------------------------------
(* The environment *)

Publish ==
    /\ Len(up) < MaxCommits
    /\ \E c \in Contents :
          /\ Cardinality(UNION {Records(n) : n \in DOMAIN up}) + c <= MaxRecords
          /\ up' = Append(up, c)
    /\ UNCHANGED <<alive, pc, connVars, cursor, histVars, lagVars>>

\* A signal: the context is cancelled, the watcher returns when it sees it.
Cancel ==
    /\ Signals
    /\ alive
    /\ alive' = FALSE
    /\ UNCHANGED <<up, pc, connVars, cursor, histVars, lagVars>>

\* The process dies at any point, or has ended, and starts again.
Restart ==
    /\ alive' = TRUE
    /\ pc' = "top"
    /\ pos' = 0 /\ nth' = 0 /\ pending' = 0 /\ count' = 0
    /\ staged' = {} /\ missed' = "no" /\ blind' = FALSE
    /\ UNCHANGED <<up, cursor, recorded, refused, lost, unread, base>>

Watcher ==
    \/ ReadMeta \/ ReadMetaFails \/ Connect \/ DialFails \/ Disconnect
    \/ FlushOnExit \/ FlushOnExitFails \/ Exit
    \/ Receive \/ Resolves \/ Upserts \/ Refuses \/ Persists \/ GivesUp
    \/ Stage \/ Flush \/ FlushFails

Next == Watcher \/ Publish \/ Cancel \/ Restart

Spec == Init /\ [][Next]_vars

\* The goroutine runs, the handshake, the upstream's replay and the flush on
\* exit succeed in the end when they are tried again and again.
FairSpec ==
    /\ Spec
    /\ WF_vars(Watcher)
    /\ SF_vars(Connect)
    /\ SF_vars(Receive)
    /\ SF_vars(FlushOnExit /\ pending # 0)

-----------------------------------------------------------------------------
(* Correctness *)

FhTypeOK ==
    /\ up \in Seq(Contents) /\ Len(up) <= MaxCommits
    /\ alive \in BOOLEAN
    /\ pc \in {"top", "dial", "stream", "resolve", "upsert", "persist", "stage", "flush", "close", "gone"}
    /\ {pos, pending, cursor, base} \subseteq 0 .. MaxCommits
    /\ nth \in Nat /\ count \in Nat
    /\ \A h \in {recorded, refused, lost} : h \subseteq (1 .. MaxCommits) \X Nat
    /\ unread \subseteq 1 .. MaxCommits /\ staged \subseteq 1 .. MaxCommits
    /\ blind \in BOOLEAN
    /\ missed \in {"no", "flush", "exit"}

Settled(n) == n <= Len(up) /\ Records(n) \subseteq recorded \cup refused

\* Every record of the commit came to an end in the handler, a failed one included.
Tried(n) == n <= Len(up) /\ Records(n) \subseteq recorded \cup refused \cup lost

Accounted(n) == n <= Len(up) /\ (Tried(n) \/ n \in unread)

Passable(n) == Tried(n) \/ (blind /\ n \in unread)

\* A connection that has read the stored cursor moves it over commits only that the
\* handler has been through: not over the one in hand, nor over one that another
\* connection, which could not read the cursor, has skipped.  Such a one moves it
\* over what it has skipped itself, and over nothing else untried.
CursorPassesTheTried ==
    [][\A n \in base + 1 .. cursor' : n > cursor => Passable(n)]_vars

\* After a connection has ended, by an error or the graceful shutdown, the next
\* one repeats nothing it handled, unless its last write failed
\* ("so progress is never lost across a redial or graceful shutdown").
RedialRepeatsNothing ==
    pc \in {"top", "gone"} /\ missed # "exit" => \A n \in staged : n <= cursor

\* What this connection handled and a crash would repeat.
Behind == {n \in staged : n > cursor}

\* A crash makes the next process repeat fewer than FlushEvery commits that were
\* handled, unless a write of the cursor failed.
ReplayIsBounded ==
    missed = "no" /\ pc # "flush" => Cardinality(Behind) < FlushEvery

Handling == {"resolve", "upsert", "persist", "stage", "flush"}

Backed(b) == b <= Len(up) /\ \A n \in base + 1 .. b : Accounted(n)

\* This connection may store b.
Storable(b) == b <= Len(up) /\ \A n \in base + 1 .. b : n <= cursor \/ Passable(n)

\* What is behind the cursor is accounted for; whatever may become the cursor passes
\* what may be passed, and so the records of the commit in hand were tried up to the
\* one in hand.
AccountInv ==
    /\ base <= Len(up) /\ Backed(cursor)
    /\ Storable(pending) /\ Storable(pos)
    /\ pc \in Handling => This <= Len(up) /\ up[This] # Broken
    /\ pc \in {"resolve", "upsert", "persist"} =>
          nth \in 1 .. up[This] /\ \A k \in 1 .. nth - 1 : <<This, k>> \in recorded \cup refused \cup lost
    /\ pc \in {"stage", "flush"} => Tried(This)
    /\ pc = "dial" => pos = (IF blind THEN 0 ELSE cursor) /\ (blind => cursor # 0) /\ pending = 0

\* Where the cursors stand to each other, and what the batch holds.
BatchInv ==
    /\ pc \notin {"top", "gone", "dial"} => cursor <= pos
    /\ pc \in {"top", "gone", "dial"} \/ pending \in {0} \cup cursor + 1 .. (IF pc = "flush" THEN This ELSE pos)
    /\ pc = "flush" => pending = This
    /\ pc = "dial" => staged = {}
    /\ missed = "exit" => pc \in {"top", "gone"}
    /\ pc \notin {"top", "gone"} => \A n \in staged : n <= cursor \/ n <= pending
    /\ RedialRepeatsNothing
    /\ Cardinality(Behind) <= count
    /\ missed = "no" /\ pc # "flush" => count < FlushEvery

\* The inductive form of the three.
FhInv == FhTypeOK /\ AccountInv /\ BatchInv

\* At-least-once for discovery: behind the cursor every record was announced,
\* or its DID names no labeler.
NothingMissed == \A n \in base + 1 .. cursor : Settled(n)

\* A commit published once there is a cursor is tried in the end, or given up by a
\* connection that could not read the cursor, however early each connection breaks,
\* if crashes end and nobody stops the process.
\* Not so behind a broken commit, which moves no cursor: there the connection
\* has to last for more than one commit.
EveryCommitIsDealtWith ==
    <>[][~Restart]_vars =>
        \A n \in 1 .. MaxCommits :
            (/\ cursor # 0
             /\ n \in base + 1 .. Len(up)
             /\ \A m \in base + 1 .. n - 1 : up[m] # Broken)
            ~> (Accounted(n) \/ ~alive)

Matters == {n \in 1 .. Len(up) : Records(n) # {}}

Dealt == {n \in Matters : Accounted(n)}

DialsBlank == pc = "dial" /\ pos = 0 /\ cursor = 0

Promise ==
    INSTANCE AtLeastOnce WITH
        Sole <- TRUE, MayForget <- "meta" \in Failures, MayRewind <- FALSE,
        head <- Len(up), matters <- Matters,
        bookmark <- cursor, dealt <- Dealt, blank <- DialsBlank

\* The watcher follows the commits in their order and its cursor never moves
\* back, whatever fails, across redials, shutdowns and crashes.
ImplementsAtLeastOnce == Promise!Spec
=============================================================================
