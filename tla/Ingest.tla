------------------------------- MODULE Ingest -------------------------------
(***************************************************************************)
(* The subscriptions of one labeler (Upstream) as writers of the store     *)
(* (LabelPersist): handleLabelLabels calls PersistIngest, waits for the    *)
(* mutex and the transaction, and only when the call has returned stores   *)
(* the cursor in the same SQLite file.  Other writers, the prune job, the  *)
(* clock, crashes and power losses go on meanwhile.                        *)
(*                                                                         *)
(* Subscription i is the writer i: its goroutine is inside PersistIngest   *)
(* while wpc[i] is not "idle".  One that is cancelled in there may fail    *)
(* or commit all the same; the code refuses the transaction to one that    *)
(* was cancelled before it began.                                          *)
(*                                                                         *)
(* The two modules with proofs are used here for what they extend; their   *)
(* theorems are cited in RelayProofs.                                      *)
(***************************************************************************)
EXTENDS LabelPersistProofs, Sequences

CONSTANTS MaxUp, MaxSubs, Contents, Overrides, SigDefault   \* as in Upstream

Ids == 1 .. MaxSubs

ASSUME SubscriptionAssumption ==
    /\ MaxUp \in Nat /\ MaxSubs \in Nat
    /\ Contents \subseteq SUBSET {"signed", "unsigned"}
    /\ Overrides \subseteq {"default", "required", "optional"}
    /\ SigDefault \in BOOLEAN
    /\ Ids \subseteq Writers

VARIABLES
    up, started, ctx, override, spc, upPos,       \* of Upstream, ctx for its live
    upCursor, recorded, refused, base, upSynced,  \* refused for its dropped
    made,        \* history: which row was made of which frame
    madeSynced,  \* the part of made that a power loss leaves
    peak         \* history: the latest the clock ever showed

\* Rows are made of frames by a history of pairs; Upstream keeps the frames only.
Subs == INSTANCE UpstreamProofs WITH live <- ctx, pc <- spc, pos <- upPos, cursor <- upCursor,
                                     dropped <- refused, synced <- upSynced

upstreamVars == <<up, started, ctx, override, spc, upPos, upCursor, recorded, refused, base, upSynced>>
madeVars == <<made, madeSynced>>
ingestVars == <<vars, upstreamVars, madeVars, peak>>

IngestInit ==
    /\ Init
    /\ Subs!Init
    /\ made = {}
    /\ madeSynced = {}
    /\ peak = 0

\* handleLabelLabels calls PersistIngest with what it keeps of the frame.
Calls(i) ==
    /\ Call(i)
    /\ Subs!BeginPersist(i)
    /\ UNCHANGED <<madeVars, peak>>

Commits(i) ==
    /\ CommitTx(i)
    /\ Subs!Persist(i)
    /\ made' = made \cup {[row |-> row[i], of |-> Subs!Frame(i)]}
    /\ UNCHANGED <<madeSynced, peak>>

\* Fault: the error of PersistIngest is logged, and the frame taken for recorded.
FailsUnseen(i) ==
    /\ PersistFails(i)
    /\ spc' = [spc EXCEPT ![i] = "recorded"]
    /\ UNCHANGED <<up, started, ctx, override, upPos, upCursor, recorded, refused, base, upSynced>>
    /\ UNCHANGED <<madeVars, peak>>

\* PersistIngest returns an error: the connection ends, the frame will come again.
PersistErrs(i) ==
    /\ PersistFails(i)
    /\ Subs!Fail(i)
    /\ UNCHANGED <<madeVars, peak>>

\* What a subscription does outside PersistIngest.
SubAlone(i) ==
    /\ wpc[i] = "idle"
    /\ \/ Subs!ReadCursor(i) \/ Subs!Connect(i) \/ Subs!Receive(i)
       \/ Subs!BeginSkip(i) \/ Subs!BeginWrite(i)
       \/ Subs!WriteCursor(i) /\ ~TxOpen
       \/ Subs!Fail(i) \/ Subs!Exit(i)
    /\ UNCHANGED <<vars, madeVars, peak>>

\* What the slurper and the labeler do.
UpstreamAlone ==
    /\ (\E o \in Overrides : Subs!Start(o)) \/ Subs!Stop \/ Subs!Publish
    /\ UNCHANGED <<vars, madeVars, peak>>

\* What PersistIngest does for the subscriptions before its commit and after it, what
\* it does for other labelers and the watcher, and what the prune job does.
StoreWorks ==
    /\ \/ \E w \in Writers : Lock(w) \/ Insert(w) \/ Encode(w) \/ Air(w)
       \/ \E w \in Writers \ Ids : Call(w) \/ CommitTx(w) \/ PersistFails(w)
       \/ PruneTick \/ PruneStep
    /\ UNCHANGED <<upstreamVars, madeVars, peak>>

Clock ==
    /\ ClockAdvances \/ ClockStepsBack
    /\ peak' = IF now' > peak THEN now' ELSE peak
    /\ UNCHANGED <<upstreamVars, madeVars>>

\* Events and cursor are in one file: a sync and a power loss take both.
IngestSync ==
    /\ Sync
    /\ Subs!Sync
    /\ madeSynced' = made
    /\ UNCHANGED <<made, peak>>

IngestCrash ==
    /\ Crash
    /\ Subs!Crash
    /\ UNCHANGED <<madeVars, peak>>

IngestPowerLoss ==
    /\ PowerLoss
    /\ Subs!PowerLoss
    /\ made' = madeSynced
    /\ UNCHANGED <<madeSynced, peak>>

IngestNext ==
    \/ \E i \in Ids : Calls(i) \/ Commits(i) \/ PersistErrs(i) \/ SubAlone(i)
    \/ UpstreamAlone
    \/ StoreWorks
    \/ Clock
    \/ IngestSync \/ IngestCrash \/ IngestPowerLoss

IngestSpec == IngestInit /\ [][IngestNext]_ingestVars

-----------------------------------------------------------------------------
(* Correctness *)

\* A row the prune job may have deleted.
Old(e) == e.ts < peak - Window

\* The cursor of a labeler never claims more than the log holds: each frame it has
\* passed was refused by the policy, or a row made of it is in the table, or was
\* until it was older than the window.  Cursor and rows are in two tables, written
\* in two transactions, with errors, cancellations, prune passes, crashes and power
\* losses between them, and the subscriptions of a labeler overlap.
CursorIsStored ==
    \A f \in base + 1 .. upCursor : f \notin refused =>
        \E m \in made : m.of = f /\ (m.row \in events \/ Old(m.row))

Ordered(M) ==
    \A m \in M : \A f \in base + 1 .. m.of : f \notin refused =>
        \E k \in M : k.of = f /\ k.row.seq <= m.row.seq

\* The relay does not reorder a labeler: before any row made of a frame there is one
\* made of each frame before it, so a consumer first sees a label and then its negation.
KeepsUpstreamOrder == Ordered(made)
=============================================================================
