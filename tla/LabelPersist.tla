---------------------------- MODULE LabelPersist ----------------------------
(***************************************************************************)
(* internal/store/persist.go and prunejob.go: PersistIngest, the single    *)
(* writer that mints relay_seq inside a SQLite transaction and announces   *)
(* the committed event under its mutex, and the prune job that deletes     *)
(* expired rows in batches, on the wall clock both read.                   *)
(*                                                                         *)
(* A process crash rolls the open transaction back and keeps what was      *)
(* committed.  Under synchronous(NORMAL) in WAL mode a power loss also     *)
(* loses what was committed after the last sync of the WAL.                *)
(***************************************************************************)
EXTENDS Integers, FiniteSets, FiniteSetsExt

CONSTANTS
    Writers,      \* goroutines that call PersistIngest
    NoWriter,     \* the mutex is free
    MaxSeq,       \* bound on relay_seq
    MaxTime,      \* bound on the clock
    Window,       \* retention window, in clock units
    BatchSize,    \* pruneBatchSize
    ClockSteps,   \* may the wall clock be set back?
    PowerFails    \* may the machine lose power?

ASSUME WriterAssumption == NoWriter \notin Writers
ASSUME MaxSeqAssumption == MaxSeq \in Nat
ASSUME TimeAssumption == MaxTime \in Nat /\ Window \in Nat
ASSUME BatchAssumption == BatchSize \in Nat \ {0}
ASSUME FaultAssumption == ClockSteps \in BOOLEAN /\ PowerFails \in BOOLEAN

VARIABLES
    mu,       \* holder of LabelPersist.mu
    wpc,      \* where each writer stands in PersistIngest
    row,      \* the row each writer is building: its relay_seq, ingest_ts, frame
    events,   \* the committed rows of table events
    seqHigh,  \* sqlite_sequence of table events (AUTOINCREMENT)
    bcast,    \* relay_seq of the last event given to the broadcaster
    now,      \* the wall clock
    ppc,      \* prune job: "idle", or "batch" inside Prune's loop
    cutoff,   \* olderThanMillis of the prune pass
    synced    \* the part of the database a power loss cannot take

writerVars == <<mu, wpc, row>>
dbVars == <<events, seqHigh>>
pruneVars == <<ppc, cutoff>>
vars == <<writerVars, dbVars, bcast, now, pruneVars, synced>>

\* frame is the relay_seq embedded in frame_cbor, 0 for the placeholder x''.
Row == [seq : Nat, ts : Nat, frame : Nat]
NoRow == [seq |-> 0, ts |-> 0, frame |-> 0]

SeqsOf(R) == {e.seq : e \in R}

InTx(w) == wpc[w] \in {"inserted", "encoded"}
TxOpen == \E w \in Writers : InTx(w)

Init ==
    /\ mu = NoWriter
    /\ wpc = [w \in Writers |-> "idle"]
    /\ row = [w \in Writers |-> NoRow]
    /\ events = {}
    /\ seqHigh = 0
    /\ bcast = 0
    /\ now = 0
    /\ ppc = "idle"
    /\ cutoff = 0
    /\ synced = [events |-> {}, seqHigh |-> 0]

-----------------------------------------------------------------------------
(* PersistIngest *)

Call(w) ==
    /\ wpc[w] = "idle"
    /\ wpc' = [wpc EXCEPT ![w] = "waiting"]
    /\ UNCHANGED <<mu, row, dbVars, bcast, now, pruneVars, synced>>

\* Fault: no mutex; SQLite's write lock alone orders the writers.
LockFree(w) ==
    /\ wpc[w] = "waiting"
    /\ mu' = w
    /\ wpc' = [wpc EXCEPT ![w] = "stamped"]
    /\ row' = [row EXCEPT ![w] = [NoRow EXCEPT !.ts = now]]
    /\ UNCHANGED <<dbVars, bcast, now, pruneVars, synced>>

\* p.mu.Lock(), then ingestTs is read from the clock.
Lock(w) ==
    /\ wpc[w] = "waiting"
    /\ mu = NoWriter
    /\ mu' = w
    /\ wpc' = [wpc EXCEPT ![w] = "stamped"]
    /\ row' = [row EXCEPT ![w] = [NoRow EXCEPT !.ts = now]]
    /\ UNCHANGED <<dbVars, bcast, now, pruneVars, synced>>

\* Fault: relay_seq is MAX(relay_seq) + 1, without AUTOINCREMENT's memory.
InsertWithoutMemory(w) ==
    /\ wpc[w] = "stamped"
    /\ ~TxOpen
    /\ seqHigh < MaxSeq
    /\ wpc' = [wpc EXCEPT ![w] = "inserted"]
    /\ row' = [row EXCEPT ![w].seq = Max({0} \cup SeqsOf(events)) + 1]
    /\ UNCHANGED <<mu, dbVars, bcast, now, pruneVars, synced>>

\* BeginTx and INSERT ... RETURNING relay_seq: AUTOINCREMENT mints the number
\* inside the transaction, which holds SQLite's write lock from here.
Insert(w) ==
    /\ wpc[w] = "stamped"
    /\ ~TxOpen
    /\ seqHigh < MaxSeq
    /\ wpc' = [wpc EXCEPT ![w] = "inserted"]
    /\ row' = [row EXCEPT ![w].seq = seqHigh + 1]
    /\ UNCHANGED <<mu, dbVars, bcast, now, pruneVars, synced>>

\* Encode the frame with the minted number and UPDATE the placeholder.
Encode(w) ==
    /\ wpc[w] = "inserted"
    /\ wpc' = [wpc EXCEPT ![w] = "encoded"]
    /\ row' = [row EXCEPT ![w].frame = row[w].seq]
    /\ UNCHANGED <<mu, dbVars, bcast, now, pruneVars, synced>>

\* Fault: a transaction whose UPDATE has not run can be committed.
CommitEarly(w) ==
    /\ InTx(w)
    /\ wpc' = [wpc EXCEPT ![w] = "committed"]
    /\ events' = events \cup {row[w]}
    /\ seqHigh' = row[w].seq
    /\ UNCHANGED <<mu, row, bcast, now, pruneVars, synced>>

CommitTx(w) ==
    /\ wpc[w] = "encoded"
    /\ wpc' = [wpc EXCEPT ![w] = "committed"]
    /\ events' = events \cup {row[w]}
    /\ seqHigh' = row[w].seq
    /\ UNCHANGED <<mu, row, bcast, now, pruneVars, synced>>

\* The deferred Unlock (and Rollback) of every return.
Release(w) ==
    /\ mu' = NoWriter
    /\ wpc' = [wpc EXCEPT ![w] = "idle"]
    /\ row' = [row EXCEPT ![w] = NoRow]

\* Still under the mutex: call the broadcaster, return the number.
Air(w) ==
    /\ wpc[w] = "committed"
    /\ bcast' = row[w].seq
    /\ Release(w)
    /\ UNCHANGED <<dbVars, now, pruneVars, synced>>

\* Fault: the error path of a failed encoding forgets the deferred unlock.
FailsLocked(w) ==
    /\ wpc[w] \in {"stamped", "inserted", "encoded"}
    /\ wpc' = [wpc EXCEPT ![w] = "idle"]
    /\ row' = [row EXCEPT ![w] = NoRow]
    /\ UNCHANGED <<mu, dbVars, bcast, now, pruneVars, synced>>

\* An error or a cancelled context before the commit: roll back and return.
PersistFails(w) ==
    /\ wpc[w] \in {"stamped", "inserted", "encoded"}
    /\ Release(w)
    /\ UNCHANGED <<dbVars, bcast, now, pruneVars, synced>>

-----------------------------------------------------------------------------
(* The prune job *)

\* tick: the cutoff is computed once for the whole pass.
PruneTick ==
    /\ ppc = "idle"
    /\ ppc' = "batch"
    /\ cutoff' = now - Window
    /\ UNCHANGED <<writerVars, dbVars, bcast, now, synced>>

\* Fault: a pass deletes what is no younger than the cutoff.
ExpiredTooSoon == {e \in events : e.ts <= cutoff}

Expired == {e \in events : e.ts < cutoff}

\* Fault: the batch takes the youngest expired rows first.
YoungestFirst(e, f) == e.ts > f.ts \/ (e.ts = f.ts /\ e.seq > f.seq)

\* The order of idx_events_ingest_ts.
Before(e, f) == e.ts < f.ts \/ (e.ts = f.ts /\ e.seq < f.seq)

\* What one DELETE ... LIMIT pruneBatchSize takes.
Batches ==
    {B \in SUBSET Expired :
        /\ Cardinality(B) <= BatchSize
        /\ Cardinality(B) < BatchSize => B = Expired
        /\ \A e \in B, f \in Expired \ B : Before(e, f)}

\* One batch is one implicit transaction; a short one ends the loop.
PruneBatch ==
    /\ ppc = "batch"
    /\ ~TxOpen
    /\ \E B \in Batches :
          /\ events' = events \ B
          /\ ppc' = IF Cardinality(B) < BatchSize THEN "idle" ELSE "batch"
    /\ UNCHANGED <<writerVars, seqHigh, bcast, now, cutoff, synced>>

\* SQLITE_BUSY after busy_timeout, or the context is cancelled.
PruneFails ==
    /\ ppc = "batch"
    /\ ppc' = "idle"
    /\ UNCHANGED <<writerVars, dbVars, bcast, now, cutoff, synced>>

-----------------------------------------------------------------------------
(* The environment *)

ClockAdvances ==
    /\ now < MaxTime
    /\ now' = now + 1
    /\ UNCHANGED <<writerVars, dbVars, bcast, pruneVars, synced>>

ClockStepsBack ==
    /\ ClockSteps
    /\ \E t \in 0 .. now - 1 : now' = t
    /\ UNCHANGED <<writerVars, dbVars, bcast, pruneVars, synced>>

\* The operating system writes the WAL out.
Sync ==
    /\ PowerFails
    /\ synced' = [events |-> events, seqHigh |-> seqHigh]
    /\ UNCHANGED <<writerVars, dbVars, bcast, now, pruneVars>>

\* Every goroutine is gone, its transaction rolled back by the next Open.
Die ==
    /\ mu' = NoWriter
    /\ wpc' = [w \in Writers |-> "idle"]
    /\ row' = [w \in Writers |-> NoRow]
    /\ ppc' = "idle"
    /\ UNCHANGED <<bcast, now, cutoff, synced>>

Crash == Die /\ UNCHANGED dbVars

PowerLoss ==
    /\ PowerFails
    /\ Die
    /\ events' = synced.events
    /\ seqHigh' = synced.seqHigh

Persist(w) == Insert(w) \/ Encode(w) \/ CommitTx(w) \/ Air(w) \/ PersistFails(w)

PruneStep == PruneBatch \/ PruneFails

\* What happens while the power and the clock hold.
SteadyNext ==
    \/ \E w \in Writers : Call(w) \/ Lock(w) \/ Persist(w)
    \/ PruneTick \/ PruneStep
    \/ ClockAdvances \/ Crash

Next == SteadyNext \/ ClockStepsBack \/ Sync \/ PowerLoss

Spec == Init /\ [][Next]_vars

-----------------------------------------------------------------------------
(* Correctness *)

TypeOK ==
    /\ mu \in Writers \cup {NoWriter}
    /\ \A w \in Writers : mu = w <=> wpc[w] \notin {"idle", "waiting"}
    /\ wpc \in [Writers -> {"idle", "waiting", "stamped", "inserted", "encoded", "committed"}]
    /\ row \in [Writers -> Row]
    /\ events \subseteq Row
    /\ seqHigh \in 0 .. MaxSeq
    /\ bcast \in 0 .. MaxSeq
    /\ now \in 0 .. MaxTime
    /\ ppc \in {"idle", "batch"}
    /\ cutoff \in Int
    /\ synced \in [events : SUBSET Row, seqHigh : 0 .. MaxSeq]

\* Each relay_seq given to the broadcaster is above the one before: with concurrent writers,
\* failed and rolled back calls, prune passes that empty the table, and crashes
\* between commit and broadcast (AC3.1, AC3.2, AC3.3).
BroadcastAscending == [][\A w \in Writers : Air(w) => bcast' > bcast]_vars

\* A committed row holds the frame of its own number, never the placeholder.
FrameCarriesSeq == \A e \in events : e.frame = e.seq

\* What survives is a contiguous run up to the head, between any two batches:
\* every row above the retention floor is there to be played back.
ContiguousRetention ==
    \A e \in events : e.seq .. seqHigh \subseteq SeqsOf(events)

\* The prune job deletes only what is older than the window at that moment,
\* though its cutoff may be old and the rows may be newer than the tick.
KeepsWindow ==
    [][\A e \in events \ events' : e.ts < now - Window]_vars

\* The store implements the abstract log.
Unsent ==
    IF \E w \in Writers : wpc[w] = "committed"
    THEN row[CHOOSE w \in Writers : wpc[w] = "committed"].seq
    ELSE 0

Log == INSTANCE RelayLog WITH lastSeq <- seqHigh, rows <- SeqsOf(events),
                              unsent <- Unsent

ImplementsLog == Log!LogSpec
=============================================================================
