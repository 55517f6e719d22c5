------------------------------- MODULE Slurper -------------------------------
(***************************************************************************)
(* internal/slurper/slurper.go with those who write the registry and poke  *)
(* it (internal/admin, internal/firehose) and the errgroup of              *)
(* cmd/labeler-relay that starts and stops it.                             *)
(*                                                                         *)
(* Reconcile reads the enabled rows before it takes the mutex, and two     *)
(* goroutines call it: Run, on a tick or a poke, and the initial reconcile *)
(* of main.  What a subscription does between two looks at its context is  *)
(* one state, "busy": it uses the store (module Upstream has the detail).  *)
(***************************************************************************)
EXTENDS Registry, Integers

CONSTANTS
    Admins,         \* admin requests in flight
    AutoSubscribe,  \* does discovery enable what it inserts?
    MaxSlots        \* bound on the goroutines of one labeler at a time

ASSUME SwitchAssumption == AutoSubscribe \in BOOLEAN
ASSUME SlotAssumption == MaxSlots \in Nat \ {0}

Slots == 1 .. MaxSlots
Reconcilers == {"initial", "loop"}

VARIABLES
    rows,     \* table labelers, the only thing on disk
    owes,     \* the admin handlers that have written and not yet poked
    wpc,      \* the watcher in handleCommit: "idle", or "upserted"
    poked,    \* is pokeCh full?
    rpc,      \* where each caller of Reconcile stands
    list,     \* the enabled rows it read
    active,   \* the map of active subscriptions: a slot, or 0
    subs,     \* the goroutines by labeler and slot
    root,     \* is the root context of the slurper alive?
    down,     \* is the context of the errgroup cancelled?
    closing,  \* "no", Shutdown "waiting" or "returned", store "closed"
    unseen,   \* history: labelers an admin changed since Run turned to the registry
    wish      \* history: what the operator said last: "none", "on", "off"

recVars == <<rpc, list>>
slurpVars == <<active, subs, root>>
stopVars == <<down, closing>>
vars == <<rows, owes, wpc, poked, recVars, slurpVars, stopVars, unseen, wish>>

Configs == [endpoint : Endpoints \cup {NoEndpoint}, sig : Overrides]
Goroutine == [config : Configs, live : BOOLEAN, pc : {"top", "busy", "gone"}]

\* A slot without a goroutine.
NoSub == [config |-> [endpoint |-> NoEndpoint, sig |-> "default"], live |-> FALSE, pc |-> "gone"]

\* A new process: main reconciles once, Run waits.
Init ==
    /\ owes = {}
    /\ wpc = "idle"
    /\ poked = FALSE
    /\ rpc = [initial |-> "due", loop |-> "idle"]
    /\ list = [r \in Reconcilers |-> <<>>]
    /\ active = [l \in Labelers |-> 0]
    /\ subs = [l \in Labelers |-> [i \in Slots |-> NoSub]]
    /\ root = TRUE
    /\ down = FALSE
    /\ closing = "no"
    /\ unseen = {}
    /\ rows = [l \in Labelers |-> NoRow]
    /\ wish = [l \in Labelers |-> "none"]

-----------------------------------------------------------------------------
(* The admin API.  Handlers in flight may outlive the shutdown of the server *)
(* by its timeout, but not the store.                                        *)

Free(a) == a \notin owes /\ closing # "closed"

\* A handler writes, and has still to poke.
Writes(a, l, word) ==
    /\ owes' = owes \cup {a}
    /\ unseen' = unseen \cup {l}
    /\ wish' = [wish EXCEPT ![l] = word]
    /\ UNCHANGED <<wpc, poked, recVars, slurpVars, stopVars>>

\* handlePostLabeler, with what the DID resolved to at some time before.
Posts(a, l, e) ==
    /\ Free(a)
    /\ rows' = UpsertManual(rows, l, e)
    /\ Writes(a, l, "on")

\* handleEnableLabeler, handleDisableLabeler, handleDeleteLabeler.
Switches(a, l, on) ==
    /\ Free(a)
    /\ Known(rows, l)
    /\ rows' = SetEnabled(rows, l, on)
    /\ Writes(a, l, IF on THEN "on" ELSE "off")

\* handlePatchLabeler.
Patches(a, l, override) ==
    /\ Free(a)
    /\ Known(rows, l)
    /\ rows' = SetRequireSig(rows, l, override)
    /\ Writes(a, l, wish[l])

\* Poke: the channel holds one signal, further ones fall away.
AdminPokes(a) ==
    /\ a \in owes
    /\ owes' = owes \ {a}
    /\ poked' = TRUE
    /\ UNCHANGED <<rows, wpc, recVars, slurpVars, stopVars, unseen, wish>>

Admin(a) ==
    \/ AdminPokes(a)
    \/ \E l \in Labelers, e \in Endpoints : Posts(a, l, e)
    \/ \E l \in Labelers, on \in BOOLEAN : Switches(a, l, on)
    \/ \E l \in Labelers, o \in Overrides : Patches(a, l, o)

-----------------------------------------------------------------------------
(* The firehose watcher, on the context of the errgroup *)

WatchStep(point) ==
    /\ wpc' = point
    /\ UNCHANGED <<owes, recVars, slurpVars, stopVars, unseen, wish>>

\* The DID does not resolve, or names no labeler endpoint.
DiscoverRecordsError(l) ==
    /\ wpc = "idle"
    /\ ~down
    /\ rows' = RecordError(rows, l)
    /\ WatchStep("idle")
    /\ UNCHANGED poked

DiscoverUpserts(l, e) ==
    /\ wpc = "idle"
    /\ ~down
    /\ rows' = UpsertFirehose(rows, l, e, AutoSubscribe)
    /\ WatchStep("upserted")
    /\ UNCHANGED poked

\* PersistIngest of the #service event succeeds.
DiscoverPokes ==
    /\ wpc = "upserted"
    /\ poked' = TRUE
    /\ WatchStep("idle")
    /\ UNCHANGED rows

\* It fails: continue, without a poke.
DiscoverFails ==
    /\ wpc = "upserted"
    /\ WatchStep("idle")
    /\ UNCHANGED <<rows, poked>>

Watcher ==
    \/ \E l \in Labelers : DiscoverRecordsError(l)
    \/ \E l \in Labelers, e \in Endpoints : DiscoverUpserts(l, e)
    \/ DiscoverPokes \/ DiscoverFails

-----------------------------------------------------------------------------
(* Reconcile *)

RecStep(r, point) == rpc' = [rpc EXCEPT ![r] = point]

\* What a caller of Reconcile does after it: Run loops, the initial one is over.
Back(r) == IF r = "loop" THEN "idle" ELSE "over"

\* The ticker of Run.
Tick ==
    /\ rpc["loop"] = "idle"
    /\ RecStep("loop", "due")
    /\ UNCHANGED <<rows, owes, wpc, poked, list, slurpVars, stopVars, unseen, wish>>

TakePoke ==
    /\ rpc["loop"] = "idle"
    /\ poked
    /\ poked' = FALSE
    /\ RecStep("loop", "due")
    /\ UNCHANGED <<rows, owes, wpc, list, slurpVars, stopVars, unseen, wish>>

\* ListEnabled, before the mutex is taken.
Lists(r) ==
    /\ rpc[r] = "due"
    /\ ~down
    /\ list' = [list EXCEPT ![r] = ListEnabled(rows)]
    /\ RecStep(r, "listed")
    /\ unseen' = IF r = "loop" THEN {} ELSE unseen
    /\ UNCHANGED <<rows, owes, wpc, poked, slurpVars, stopVars, wish>>

\* The query fails, or its context is cancelled: Reconcile returns the error.
ListFails(r) ==
    /\ rpc[r] = "due"
    /\ RecStep(r, Back(r))
    /\ unseen' = IF r = "loop" THEN {} ELSE unseen
    /\ UNCHANGED <<rows, owes, wpc, poked, list, slurpVars, stopVars, wish>>

\* Fault: a new endpoint does not count as a change.
SigChanged(snapshot, current) == snapshot.sig # current.sig

SubscriptionConfigChanged(snapshot, current) ==
    snapshot.endpoint # current.endpoint \/ snapshot.sig # current.sig

\* The labelers whose subscription goes on under the list of r.
Kept(r) ==
    {l \in DOMAIN list[r] :
        active[l] # 0 /\ ~SubscriptionConfigChanged(subs[l][active[l]].config, list[r][l])}

\* No goroutine runs here; the map may still hold what it was started with.
Ended(l, i) == subs[l][i].pc = "gone"

Spare(l) == {i \in Slots \ {active[l]} : Ended(l, i)}

NewSlot(l) == CHOOSE i \in Spare(l) : TRUE

\* Fault: a subscription that is replaced is dropped from the map, not cancelled.
CancelsDisabled(l, r) == l \notin DOMAIN list[r]

\* The old subscription of l is cancelled: it changed or is not enabled any more.
Cancels(l, r) == l \notin Kept(r)

\* Fault: Reconcile drains the channel when it is through.
PokeDrained == FALSE

\* Reconcile leaves a signal that came meanwhile in the channel.
PokeLeft == poked

\* Under the mutex: cancel what changed or is disabled, start what is missing.
\* The bound on slots makes it wait for a goroutine to end.
Applies(r) ==
    /\ rpc[r] = "listed"
    /\ \A l \in Labelers : l \in DOMAIN list[r] \ Kept(r) => Spare(l) # {}
    /\ active' = [l \in Labelers |->
          IF l \in Kept(r) THEN active[l]
          ELSE IF l \in DOMAIN list[r] THEN NewSlot(l) ELSE 0]
    /\ subs' = [l \in Labelers |-> [i \in Slots |->
          IF active'[l] = i /\ l \notin Kept(r)
          THEN [config |-> list[r][l], live |-> TRUE, pc |-> "top"]
          ELSE IF active[l] = i /\ Cancels(l, r) THEN [subs[l][i] EXCEPT !.live = FALSE]
          ELSE subs[l][i]]]
    /\ RecStep(r, Back(r))
    /\ list' = [list EXCEPT ![r] = <<>>]
    /\ poked' = PokeLeft
    /\ UNCHANGED <<rows, owes, wpc, root, stopVars, unseen, wish>>

-----------------------------------------------------------------------------
(* The goroutines *)

\* Fault: the context of a subscription does not hang off the root context.
AliveWithoutRoot(l, i) == subs[l][i].live

\* Its own context, a child of the root.
Alive(l, i) == subs[l][i].live /\ root

\* run looks at its context and dials: it reads its cursor from the store.
Dials(l, i) ==
    /\ subs[l][i].pc = "top"
    /\ Alive(l, i)
    /\ subs' = [subs EXCEPT ![l][i].pc = "busy"]
    /\ UNCHANGED <<rows, owes, wpc, poked, recVars, active, root, stopVars, unseen, wish>>

\* dial returns.
Returns(l, i) ==
    /\ subs[l][i].pc = "busy"
    /\ subs' = [subs EXCEPT ![l][i].pc = "top"]
    /\ UNCHANGED <<rows, owes, wpc, poked, recVars, active, root, stopVars, unseen, wish>>

\* run sees its context cancelled: the goroutine is done.
Exits(l, i) ==
    /\ subs[l][i].pc = "top"
    /\ ~Alive(l, i)
    /\ subs' = [subs EXCEPT ![l][i] = IF active[l] = i THEN [@ EXCEPT !.pc = "gone"] ELSE NoSub]
    /\ UNCHANGED <<rows, owes, wpc, poked, recVars, active, root, stopVars, unseen, wish>>

-----------------------------------------------------------------------------
(* The end of the process *)

\* A signal, or a fatal error of some component.
GoesDown ==
    /\ ~down
    /\ down' = TRUE
    /\ UNCHANGED <<rows, owes, wpc, poked, recVars, slurpVars, closing, unseen, wish>>

\* Fault: Shutdown waits for goroutines it never cancelled.
ShutdownWaitsOnly ==
    /\ down
    /\ closing = "no"
    /\ active' = [l \in Labelers |-> 0]
    /\ closing' = "waiting"
    /\ UNCHANGED <<rows, owes, wpc, poked, recVars, subs, root, down, unseen, wish>>

\* Shutdown under the mutex.
Shutdown ==
    /\ down
    /\ closing = "no"
    /\ subs' = [l \in Labelers |-> [i \in Slots |->
          IF active[l] = i THEN [subs[l][i] EXCEPT !.live = FALSE] ELSE subs[l][i]]]
    /\ active' = [l \in Labelers |-> 0]
    /\ root' = FALSE
    /\ closing' = "waiting"
    /\ UNCHANGED <<rows, owes, wpc, poked, recVars, down, unseen, wish>>

\* wg.Wait returns.
ShutdownReturns ==
    /\ closing = "waiting"
    /\ \A l \in Labelers, i \in Slots : Ended(l, i)
    /\ closing' = "returned"
    /\ UNCHANGED <<rows, owes, wpc, poked, recVars, slurpVars, down, unseen, wish>>

\* Run sees the context of the errgroup cancelled.
RunReturns ==
    /\ down
    /\ rpc["loop"] = "idle"
    /\ RecStep("loop", "over")
    /\ UNCHANGED <<rows, owes, wpc, poked, list, slurpVars, stopVars, unseen, wish>>

\* g.Wait: all members of the errgroup are done.
Finished ==
    /\ closing = "returned"
    /\ \A r \in Reconcilers : rpc[r] = "over"
    /\ wpc = "idle"

\* The deferred st.Close.
CloseStore ==
    /\ Finished
    /\ closing' = "closed"
    /\ UNCHANGED <<rows, owes, wpc, poked, recVars, slurpVars, down, unseen, wish>>

\* The process dies or has ended, and another one starts on the same file.
Restart ==
    /\ owes' = {}
    /\ wpc' = "idle"
    /\ poked' = FALSE
    /\ rpc' = [initial |-> "due", loop |-> "idle"]
    /\ list' = [r \in Reconcilers |-> <<>>]
    /\ active' = [l \in Labelers |-> 0]
    /\ subs' = [l \in Labelers |-> [i \in Slots |-> NoSub]]
    /\ root' = TRUE
    /\ down' = FALSE
    /\ closing' = "no"
    /\ unseen' = {}
    /\ UNCHANGED <<rows, wish>>

Next ==
    \/ \E a \in Admins : Admin(a)
    \/ Watcher
    \/ Tick \/ TakePoke
    \/ \E r \in Reconcilers : Lists(r) \/ ListFails(r) \/ Applies(r)
    \/ \E l \in Labelers, i \in Slots : Dials(l, i) \/ Returns(l, i) \/ Exits(l, i)
    \/ GoesDown \/ Shutdown \/ ShutdownReturns \/ RunReturns \/ CloseStore
    \/ Restart

Spec == Init /\ [][Next]_vars

\* Goroutines run, the ticker ticks, and a query of the registry that is tried
\* again on every tick succeeds in the end.  Nobody has to send requests.
FairSpec ==
    /\ Spec
    /\ \A a \in Admins : WF_vars(AdminPokes(a))
    /\ WF_vars(DiscoverPokes \/ DiscoverFails)
    /\ WF_vars(Tick \/ TakePoke)
    /\ \A r \in Reconcilers : WF_vars(Lists(r) \/ ListFails(r)) /\ SF_vars(Lists(r)) /\ WF_vars(Applies(r))
    /\ \A l \in Labelers, i \in Slots : WF_vars(Dials(l, i) \/ Returns(l, i) \/ Exits(l, i))
    /\ WF_vars(Shutdown) /\ WF_vars(ShutdownReturns)
    /\ SF_vars(RunReturns) /\ WF_vars(CloseStore)

-----------------------------------------------------------------------------
(* Correctness *)

SlTypeOK ==
    /\ rows \in [Labelers -> Row \cup {NoRow}]
    /\ owes \subseteq Admins
    /\ wpc \in {"idle", "upserted"}
    /\ poked \in BOOLEAN
    /\ rpc \in [Reconcilers -> {"idle", "due", "listed", "over"}]
    /\ DOMAIN list = Reconcilers
    /\ \A r \in Reconcilers : DOMAIN list[r] \subseteq Labelers /\ \A l \in DOMAIN list[r] : list[r][l] \in Configs
    /\ active \in [Labelers -> 0 .. MaxSlots]
    /\ subs \in [Labelers -> [Slots -> Goroutine]]
    /\ root \in BOOLEAN /\ down \in BOOLEAN
    /\ closing \in {"no", "waiting", "returned", "closed"}
    /\ unseen \subseteq Labelers
    /\ wish \in [Labelers -> {"none", "on", "off"}]

\* A labeler has at most one subscription that is not cancelled, the one in the
\* map, whatever two reconciles from different snapshots do: no labeler is
\* ingested twice at a time, and no goroutine is out of Shutdown's reach.
OneSubscription ==
    \A l \in Labelers, i \in Slots :
        subs[l][i].live => active[l] = i

\* An admin change is never missed for want of a signal (AC8.2): until Run turns
\* to the registry, a poke is pending, owed, or taken, though signals collapse.
PokeIsNotLost ==
    unseen # {} => poked \/ owes # {} \/ rpc["loop"] = "due" \/ rpc["loop"] = "over"

\* What the operator said last holds (AC8.4): no discovery, resolved before or
\* after, enables a labeler that was switched off or disables one that is on.
OperatorDecides ==
    \A l \in Labelers :
        wish[l] # "none" => Known(rows, l) /\ rows[l].enabled = (wish[l] = "on")

\* Once the store is closed, no subscription is at work and none will be: a
\* reconcile that read its list before the shutdown may still start one after it.
StoreOutlives ==
    closing = "closed" =>
        \A l \in Labelers, i \in Slots : Ended(l, i) \/ (subs[l][i].pc = "top" /\ ~Alive(l, i))

\* The inductive form of both: the root context is dead from Shutdown on, and
\* when Shutdown has returned no goroutine is at work.
SlInv ==
    /\ SlTypeOK
    /\ OneSubscription
    /\ closing # "no" => ~root
    /\ closing \in {"returned", "closed"} =>
          \A l \in Labelers, i \in Slots : subs[l][i].pc # "busy"

\* The subscriptions are those of the registry.
Match ==
    \A l \in Labelers :
        IF Known(rows, l) /\ rows[l].enabled
        THEN active[l] # 0 /\ subs[l][active[l]].config = Config(rows[l])
        ELSE active[l] = 0

\* When the registry is left alone and the process stays up, the subscriptions
\* come to match it and stay so, even after a reconcile from a stale list.
Converges ==
    <>[]~down /\ <>[][rows' = rows /\ ~Restart]_vars => <>[]Match

\* A process that is told to stop closes its store.
ShutdownEnds == down ~> closing = "closed" \/ ~down
=============================================================================
