------------------------------ MODULE RelayLog ------------------------------
(***************************************************************************)
(* What the store promises to the rest of the relay: one totally ordered   *)
(* log of events.  An event is its relay_seq.  A writer commits the next   *)
(* number and then announces it to the live hub, both while it holds the   *)
(* persist mutex, so at most one committed event is still unannounced; the *)
(* prune job removes rows at any time; a process crash keeps the rows and  *)
(* loses the announcement.                                                 *)
(*                                                                         *)
(* LabelPersist (the transactions, the clock, the prune batches) is shown  *)
(* to implement this log; Seam and Subscribe are built on it.              *)
(***************************************************************************)
EXTENDS Integers

CONSTANT MaxSeq     \* bound: the log takes no more than MaxSeq events

ASSUME MaxSeqAssumption == MaxSeq \in Nat

VARIABLES
    lastSeq,    \* sqlite_sequence for events: the highest relay_seq ever minted
    rows,       \* relay_seq of the rows in table events
    unsent,     \* committed by PersistIngest, broadcaster not called yet (0: none)
    bcast       \* relay_seq of the last broadcast (0: none yet)

logVars == <<lastSeq, rows, unsent, bcast>>

Seqs == 1 .. MaxSeq

LogTypeOK ==
    /\ lastSeq \in 0 .. MaxSeq
    /\ rows \subseteq 1 .. lastSeq
    /\ unsent \in {0, lastSeq}
    /\ bcast \in 0 .. lastSeq
    /\ unsent # 0 => bcast < unsent

LogInit ==
    /\ lastSeq = 0
    /\ rows = {}
    /\ unsent = 0
    /\ bcast = 0

\* PersistIngest up to tx.Commit(): the row and its number appear together.
Commit ==
    /\ unsent = 0
    /\ lastSeq < MaxSeq
    /\ lastSeq' = lastSeq + 1
    /\ rows' = rows \cup {lastSeq + 1}
    /\ unsent' = lastSeq + 1
    /\ UNCHANGED bcast

\* PersistIngest calls the broadcaster, still under the mutex.
Announce ==
    /\ unsent # 0
    /\ bcast' = unsent
    /\ unsent' = 0
    /\ UNCHANGED <<lastSeq, rows>>

\* One DELETE of the prune loop removes a set of rows.
Expire(gone) ==
    /\ gone \subseteq rows
    /\ gone # {}
    /\ rows' = rows \ gone
    /\ UNCHANGED <<lastSeq, unsent, bcast>>

\* The process dies and is started again on the same database file.
Restart ==
    /\ unsent' = 0
    /\ UNCHANGED <<lastSeq, rows, bcast>>

LogNext ==
    \/ Commit
    \/ Announce
    \/ \E gone \in SUBSET rows : Expire(gone)
    \/ Restart

LogSpec == LogInit /\ [][LogNext]_logVars

=============================================================================
