------------------------------ MODULE Registry ------------------------------
(***************************************************************************)
(* internal/store/registry.go: the statements that admin handlers, the     *)
(* firehose watcher and the slurper run against table labelers, as         *)
(* functions of the table.  Each is one SQL statement, hence atomic.  The  *)
(* upstream cursor of a row is in module Upstream; source, last_error and  *)
(* updated_at decide nothing, they are only reported, and are left out.    *)
(***************************************************************************)
CONSTANTS
    Labelers,    \* DIDs
    Endpoints,   \* endpoints a DID document may name
    NoEndpoint,  \* the '' that RecordError inserts
    Overrides,   \* values of require_sig, "default" for NULL
    NoRow        \* the labeler is not in the table

ASSUME EndpointAssumption == NoEndpoint \notin Endpoints
ASSUME DefaultAssumption == "default" \in Overrides

Row == [endpoint : Endpoints \cup {NoEndpoint}, enabled : BOOLEAN, sig : Overrides]

ASSUME NoRowAssumption == NoRow \notin Row

Known(table, l) == table[l] # NoRow

Fresh(e, on) == [endpoint |-> e, enabled |-> on, sig |-> "default"]

\* Upsert with source "manual" claims the row.
UpsertManual(table, l, e) ==
    [table EXCEPT ![l] = IF Known(table, l)
                         THEN [@ EXCEPT !.endpoint = e, !.enabled = TRUE]
                         ELSE Fresh(e, TRUE)]

\* Fault: an upsert by discovery writes all it was given.
UpsertGreedy(table, l, e, on) == [table EXCEPT ![l] = Fresh(e, on)]

\* Upsert with source "firehose" only refreshes the endpoint of a known row.
UpsertFirehose(table, l, e, on) ==
    [table EXCEPT ![l] = IF Known(table, l)
                         THEN [@ EXCEPT !.endpoint = e]
                         ELSE Fresh(e, on)]

SetEnabled(table, l, on) == [table EXCEPT ![l].enabled = on]

SetRequireSig(table, l, override) == [table EXCEPT ![l].sig = override]

\* A known row keeps everything but last_error; a new one is disabled.
RecordError(table, l) ==
    [table EXCEPT ![l] = IF Known(table, l) THEN @ ELSE Fresh(NoEndpoint, FALSE)]

\* What a subscription is started with.
Config(row) == [endpoint |-> row.endpoint, sig |-> row.sig]

ListEnabled(table) ==
    [l \in {k \in Labelers : Known(table, k) /\ table[k].enabled} |-> Config(table[l])]
=============================================================================
