---------------------------- MODULE SlurperProofs ----------------------------
(***************************************************************************)
(* Proofs about Slurper, for any number of labelers, endpoints, admin      *)
(* requests and goroutine slots: one live subscription per labeler, no use *)
(* of the store after it is closed, and the operator's word over           *)
(* discovery's.                                                            *)
(***************************************************************************)
EXTENDS Slurper, TLAPS

USE EndpointAssumption, DefaultAssumption, NoRowAssumption, SwitchAssumption, SlotAssumption
    DEF Slots, Reconcilers

\* What one step does to the registry: nothing, or one statement on one labeler.
LEMMA RegistryTypes ==
    ASSUME NEW table \in [Labelers -> Row \cup {NoRow}], NEW l \in Labelers
    PROVE  /\ \A e \in Endpoints :
                 /\ UpsertManual(table, l, e) \in [Labelers -> Row \cup {NoRow}]
                 /\ \A on \in BOOLEAN : UpsertFirehose(table, l, e, on) \in [Labelers -> Row \cup {NoRow}]
           /\ RecordError(table, l) \in [Labelers -> Row \cup {NoRow}]
           /\ Known(table, l) =>
                 /\ \A on \in BOOLEAN : SetEnabled(table, l, on) \in [Labelers -> Row \cup {NoRow}]
                 /\ \A o \in Overrides : SetRequireSig(table, l, o) \in [Labelers -> Row \cup {NoRow}]
<1> USE DEF Row, Known, Fresh
<1>1. \A e \in Endpoints : UpsertManual(table, l, e) \in [Labelers -> Row \cup {NoRow}]
  BY DEF UpsertManual
<1>2. \A e \in Endpoints, on \in BOOLEAN :
         UpsertFirehose(table, l, e, on) \in [Labelers -> Row \cup {NoRow}]
  BY DEF UpsertFirehose
<1>3. RecordError(table, l) \in [Labelers -> Row \cup {NoRow}]
  BY DEF RecordError
<1>4. ASSUME Known(table, l), NEW on \in BOOLEAN
      PROVE  SetEnabled(table, l, on) \in [Labelers -> Row \cup {NoRow}]
  BY <1>4 DEF SetEnabled
<1>5. ASSUME Known(table, l), NEW o \in Overrides
      PROVE  SetRequireSig(table, l, o) \in [Labelers -> Row \cup {NoRow}]
  BY <1>5 DEF SetRequireSig
<1> QED
  BY <1>1, <1>2, <1>3, <1>4, <1>5

\* The list that Reconcile reads holds what subscriptions are started with.
LEMMA ListTypes ==
    ASSUME NEW table \in [Labelers -> Row \cup {NoRow}]
    PROVE  /\ DOMAIN ListEnabled(table) \subseteq Labelers
           /\ \A l \in DOMAIN ListEnabled(table) : ListEnabled(table)[l] \in Configs
<1> DEFINE D == {k \in Labelers : Known(table, k) /\ table[k].enabled}
<1>1. ASSUME NEW l \in D
      PROVE  Config(table[l]) \in Configs
  BY DEF Known, Row, Config, Configs
<1> QED
  BY <1>1 DEF ListEnabled

-----------------------------------------------------------------------------
(* The inductive invariant *)

LEMMA NoSubTypes == NoSub \in Goroutine /\ NoSub.live = FALSE /\ NoSub.pc = "gone"
  BY DEF NoSub, Goroutine, Configs

\* Where a new process begins, at first and after a restart.
Afresh ==
    /\ list = [r \in Reconcilers |-> <<>>]
    /\ active = [l \in Labelers |-> 0]
    /\ subs = [l \in Labelers |-> [i \in Slots |-> NoSub]]

LEMMA AfreshTypes ==
    Afresh =>
       /\ DOMAIN list = Reconcilers
       /\ \A r \in Reconcilers : DOMAIN list[r] = {}
       /\ active \in [Labelers -> 0 .. MaxSlots]
       /\ subs \in [Labelers -> [Slots -> Goroutine]]
       /\ \A l \in Labelers, i \in Slots : ~subs[l][i].live /\ subs[l][i].pc = "gone"
<1>1. DOMAIN <<>> = {}
  OBVIOUS
<1> QED
  BY <1>1, NoSubTypes DEF Afresh

LEMMA SlInit == Init => SlInv /\ OperatorDecides
<1> SUFFICES ASSUME Init
             PROVE  SlInv /\ OperatorDecides
  OBVIOUS
<1>1. Afresh
  BY DEF Init, Afresh
<1>2. /\ rows \in [Labelers -> Row \cup {NoRow}]
      /\ rpc \in [Reconcilers -> {"idle", "due", "listed", "over"}]
      /\ wish \in [Labelers -> {"none", "on", "off"}]
  BY DEF Init
<1>3. SlTypeOK
  BY <1>1, <1>2, AfreshTypes DEF Init, SlTypeOK
<1> QED
  BY <1>1, <1>3, AfreshTypes DEF Init, SlInv, OneSubscription, OperatorDecides

\* A goroutine moves on.
LEMMA MoveTypes ==
    ASSUME SlTypeOK, NEW l \in Labelers, NEW i \in Slots, NEW point \in {"top", "busy", "gone"},
           subs' = [subs EXCEPT ![l][i].pc = point]
    PROVE  /\ subs' \in [Labelers -> [Slots -> Goroutine]]
           /\ \A k \in Labelers, j \in Slots :
                 /\ subs'[k][j].live = subs[k][j].live
                 /\ subs'[k][j].pc = IF k = l /\ j = i THEN point ELSE subs[k][j].pc
<1>1. subs \in [Labelers -> [Slots -> Goroutine]]
  BY DEF SlTypeOK
<1>2. subs' = [subs EXCEPT ![l] = [subs[l] EXCEPT ![i] = [subs[l][i] EXCEPT !.pc = point]]]
  OBVIOUS
<1>3. [subs[l][i] EXCEPT !.pc = point] \in Goroutine
  BY <1>1 DEF Goroutine
<1>4. ASSUME NEW k \in Labelers, NEW j \in Slots
      PROVE  subs'[k][j] = IF k = l /\ j = i THEN [subs[k][j] EXCEPT !.pc = point] ELSE subs[k][j]
  BY <1>1, <1>2
<1>5. ASSUME NEW k \in Labelers, NEW j \in Slots
      PROVE  /\ subs'[k][j].live = subs[k][j].live
             /\ subs'[k][j].pc = IF k = l /\ j = i THEN point ELSE subs[k][j].pc
  BY <1>1, <1>4 DEF Goroutine
<1> QED
  BY <1>1, <1>2, <1>3, <1>5

\* The subscriptions under a reconcile: none but the new one becomes live.
LEMMA AppliesInv ==
    ASSUME SlInv, NEW r \in Reconcilers, Applies(r)
    PROVE  SlInv'
<1> USE DEF recVars, slurpVars, stopVars
<1>1. ASSUME NEW l \in Labelers, l \in DOMAIN list[r] \ Kept(r)
      PROVE  NewSlot(l) \in Slots
  BY <1>1 DEF Applies, NewSlot, Spare
<1>2. SlTypeOK
  BY DEF SlInv
<1>3. active' \in [Labelers -> 0 .. MaxSlots]
  BY <1>1, <1>2 DEF Applies, SlTypeOK
<1>4. ASSUME NEW l \in Labelers, NEW i \in Slots, active'[l] = i, l \notin Kept(r)
      PROVE  l \in DOMAIN list[r]
  BY <1>4 DEF Applies
<1>5. subs' \in [Labelers -> [Slots -> Goroutine]]
  <2>1. ASSUME NEW l \in Labelers, NEW i \in Slots, active'[l] = i, l \notin Kept(r)
        PROVE  [config |-> list[r][l], live |-> TRUE, pc |-> "top"] \in Goroutine
    BY <1>2, <1>4, <2>1 DEF SlTypeOK, Goroutine
  <2>2. ASSUME NEW l \in Labelers, NEW i \in Slots
        PROVE  subs[l][i] \in Goroutine /\ [subs[l][i] EXCEPT !.live = FALSE] \in Goroutine
    <3>1. subs[l][i] \in Goroutine
      BY <1>2 DEF SlTypeOK
    <3> QED
      BY <3>1 DEF Goroutine
  <2> QED
    BY <2>1, <2>2 DEF Applies
<1>6. SlTypeOK'
  <2>1. DOMAIN <<>> = {}
    OBVIOUS
  <2>2. /\ DOMAIN list' = Reconcilers
        /\ \A q \in Reconcilers : list'[q] = IF q = r THEN <<>> ELSE list[q]
    BY <1>2 DEF Applies, SlTypeOK
  <2>3. rpc' \in [Reconcilers -> {"idle", "due", "listed", "over"}]
    BY <1>2 DEF Applies, SlTypeOK, RecStep, Back
  <2>4. poked' \in BOOLEAN
    BY <1>2 DEF Applies, SlTypeOK, PokeLeft
  <2>5. ASSUME NEW q \in Reconcilers
        PROVE  DOMAIN list'[q] \subseteq Labelers /\ \A l \in DOMAIN list'[q] : list'[q][l] \in Configs
    BY <1>2, <2>1, <2>2 DEF SlTypeOK
  <2> QED
    BY <1>2, <1>3, <1>5, <2>2, <2>3, <2>4, <2>5 DEF Applies, SlTypeOK
<1>7. OneSubscription'
  <2> SUFFICES ASSUME NEW l \in Labelers, NEW i \in Slots, subs'[l][i].live, active'[l] # i
               PROVE  FALSE
    BY DEF OneSubscription
  <2>1. subs'[l][i] = IF active[l] = i /\ Cancels(l, r)
                      THEN [subs[l][i] EXCEPT !.live = FALSE] ELSE subs[l][i]
    BY DEF Applies
  <2>2. subs[l][i].live /\ ~(active[l] = i /\ Cancels(l, r))
    BY <1>2, <2>1 DEF SlTypeOK, Goroutine
  <2>3. active[l] = i /\ l \in Kept(r)
    BY <2>2 DEF SlInv, OneSubscription, Cancels
  <2> QED
    BY <2>3 DEF Applies
<1>8. ASSUME NEW l \in Labelers, NEW i \in Slots, subs'[l][i].pc = "busy"
      PROVE  subs[l][i].pc = "busy"
  BY <1>2, <1>8 DEF Applies, SlTypeOK, Goroutine
<1> QED
  BY <1>6, <1>7, <1>8 DEF SlInv, Applies

\* What the steps that leave the slurper's map, its goroutines and the shutdown
\* alone have in common.
LEMMA BystanderInv ==
    ASSUME SlInv, SlTypeOK', UNCHANGED <<slurpVars, stopVars>>
    PROVE  SlInv'
  BY DEF SlInv, OneSubscription, slurpVars, stopVars

LEMMA SlStep == SlInv /\ [Next]_vars => SlInv'
<1> SUFFICES ASSUME SlInv, [Next]_vars
             PROVE  SlInv'
  OBVIOUS
<1>0. SlTypeOK
  BY DEF SlInv
<1> USE DEF recVars, slurpVars, stopVars
<1>1. ASSUME NEW a \in Admins, Admin(a)
      PROVE  SlInv'
  <2>1. ASSUME AdminPokes(a)
        PROVE  SlTypeOK'
    BY <1>0, <2>1 DEF AdminPokes, SlTypeOK
  <2>2. ASSUME NEW l \in Labelers, NEW e \in Endpoints, Posts(a, l, e)
        PROVE  SlTypeOK'
    BY <1>0, <2>2, RegistryTypes DEF Posts, Writes, SlTypeOK
  <2>3. ASSUME NEW l \in Labelers, NEW on \in BOOLEAN, Switches(a, l, on)
        PROVE  SlTypeOK'
    BY <1>0, <2>3, RegistryTypes DEF Switches, Writes, SlTypeOK
  <2>4. ASSUME NEW l \in Labelers, NEW o \in Overrides, Patches(a, l, o)
        PROVE  SlTypeOK'
    BY <1>0, <2>4, RegistryTypes DEF Patches, Writes, SlTypeOK
  <2>5. UNCHANGED <<slurpVars, stopVars>>
    BY <1>1 DEF Admin, AdminPokes, Posts, Switches, Patches, Writes
  <2> QED
    BY <1>1, <2>1, <2>2, <2>3, <2>4, <2>5, BystanderInv DEF Admin
<1>2. ASSUME Watcher
      PROVE  SlInv'
  <2>1. ASSUME NEW l \in Labelers, DiscoverRecordsError(l)
        PROVE  SlTypeOK'
    BY <1>0, <2>1, RegistryTypes DEF DiscoverRecordsError, WatchStep, SlTypeOK
  <2>2. ASSUME NEW l \in Labelers, NEW e \in Endpoints, DiscoverUpserts(l, e)
        PROVE  SlTypeOK'
    BY <1>0, <2>2, RegistryTypes DEF DiscoverUpserts, WatchStep, SlTypeOK
  <2>3. ASSUME DiscoverPokes \/ DiscoverFails
        PROVE  SlTypeOK'
    BY <1>0, <2>3 DEF DiscoverPokes, DiscoverFails, WatchStep, SlTypeOK
  <2>4. UNCHANGED <<slurpVars, stopVars>>
    BY <1>2 DEF Watcher, DiscoverRecordsError, DiscoverUpserts, DiscoverPokes, DiscoverFails, WatchStep
  <2> QED
    BY <1>2, <2>1, <2>2, <2>3, <2>4, BystanderInv DEF Watcher
<1>3. ASSUME Tick \/ TakePoke \/ RunReturns
      PROVE  SlInv'
  <2>1. rpc' \in [Reconcilers -> {"idle", "due", "listed", "over"}] /\ poked' \in BOOLEAN
    <3>1. \E point \in {"due", "over"} : rpc' = [rpc EXCEPT !["loop"] = point]
      BY <1>3 DEF Tick, TakePoke, RunReturns, RecStep
    <3>2. poked' = poked \/ poked' = FALSE
      BY <1>3 DEF Tick, TakePoke, RunReturns
    <3> QED
      BY <1>0, <3>1, <3>2 DEF SlTypeOK
  <2>2. UNCHANGED <<rows, owes, wpc, list, slurpVars, stopVars, unseen, wish>>
    BY <1>3 DEF Tick, TakePoke, RunReturns
  <2>3. SlTypeOK'
    BY <1>0, <2>1, <2>2 DEF SlTypeOK
  <2> QED
    BY <2>2, <2>3, BystanderInv
<1>4. ASSUME NEW r \in Reconcilers, Lists(r)
      PROVE  SlInv'
  <2>1. list' = [list EXCEPT ![r] = ListEnabled(rows)]
    BY <1>4 DEF Lists
  <2>2. /\ DOMAIN ListEnabled(rows) \subseteq Labelers
        /\ \A l \in DOMAIN ListEnabled(rows) : ListEnabled(rows)[l] \in Configs
    BY <1>0, ListTypes DEF SlTypeOK
  <2>3. ASSUME NEW q \in Reconcilers
        PROVE  DOMAIN list'[q] \subseteq Labelers /\ \A l \in DOMAIN list'[q] : list'[q][l] \in Configs
    <3>1. CASE q = r
      BY <1>0, <2>1, <2>2, <3>1 DEF SlTypeOK
    <3>2. CASE q # r
      BY <1>0, <2>1, <3>2 DEF SlTypeOK
    <3> QED
      BY <3>1, <3>2
  <2>4. SlTypeOK'
    BY <1>0, <1>4, <2>3 DEF Lists, RecStep, SlTypeOK
  <2> QED
    BY <1>4, <2>4, BystanderInv DEF Lists
<1>5. ASSUME NEW r \in Reconcilers, ListFails(r)
      PROVE  SlInv'
  <2>1. SlTypeOK'
    BY <1>0, <1>5 DEF ListFails, RecStep, Back, SlTypeOK
  <2> QED
    BY <1>5, <2>1, BystanderInv DEF ListFails
<1>6. ASSUME NEW r \in Reconcilers, Applies(r)
      PROVE  SlInv'
  BY <1>6, AppliesInv
<1>7. ASSUME NEW l \in Labelers, NEW i \in Slots, Dials(l, i)
      PROVE  SlInv'
  <2>1. closing = "no"
    BY <1>0, <1>7 DEF Dials, Alive, SlInv, SlTypeOK
  <2>2. subs' = [subs EXCEPT ![l][i].pc = "busy"]
    BY <1>7 DEF Dials
  <2>3. SlTypeOK'
    BY <1>0, <1>7, <2>2, MoveTypes DEF Dials, SlTypeOK
  <2>4. OneSubscription'
    BY <1>0, <1>7, <2>2, MoveTypes DEF Dials, SlInv, OneSubscription
  <2> QED
    BY <1>7, <2>1, <2>3, <2>4 DEF Dials, SlInv
<1>8. ASSUME NEW l \in Labelers, NEW i \in Slots, Returns(l, i)
      PROVE  SlInv'
  <2>1. subs' = [subs EXCEPT ![l][i].pc = "top"]
    BY <1>8 DEF Returns
  <2>2. SlTypeOK'
    BY <1>0, <1>8, <2>1, MoveTypes DEF Returns, SlTypeOK
  <2>3. OneSubscription'
    BY <1>0, <1>8, <2>1, MoveTypes DEF Returns, SlInv, OneSubscription
  <2>4. ASSUME NEW k \in Labelers, NEW j \in Slots, subs'[k][j].pc = "busy"
        PROVE  subs[k][j].pc = "busy"
    BY <1>0, <2>1, <2>4, MoveTypes
  <2> QED
    BY <1>8, <2>2, <2>3, <2>4 DEF Returns, SlInv
<1>9. ASSUME NEW l \in Labelers, NEW i \in Slots, Exits(l, i)
      PROVE  SlInv'
  <2>1. subs \in [Labelers -> [Slots -> Goroutine]] /\ subs[l][i] \in Goroutine
    BY <1>0 DEF SlTypeOK
  <2> DEFINE g == IF active[l] = i THEN [subs[l][i] EXCEPT !.pc = "gone"] ELSE NoSub
  <2>2. g \in Goroutine /\ (g.live => subs[l][i].live /\ active[l] = i) /\ g.pc = "gone"
    BY <2>1, NoSubTypes DEF Goroutine
  <2>3. subs' = [subs EXCEPT ![l] = [subs[l] EXCEPT ![i] = g]]
    BY <1>9 DEF Exits
  <2> HIDE DEF g
  <2>4. subs' \in [Labelers -> [Slots -> Goroutine]]
    BY <2>1, <2>2, <2>3
  <2>5. ASSUME NEW k \in Labelers, NEW j \in Slots
        PROVE  subs'[k][j] = IF k = l /\ j = i THEN g ELSE subs[k][j]
    BY <2>1, <2>3
  <2>6. SlTypeOK'
    BY <1>0, <1>9, <2>4 DEF Exits, SlTypeOK
  <2> QED
    BY <1>9, <2>2, <2>5, <2>6 DEF Exits, SlInv, OneSubscription
<1>10. ASSUME GoesDown \/ ShutdownReturns \/ CloseStore
       PROVE  SlInv'
  <2>1. SlTypeOK'
    BY <1>0, <1>10 DEF GoesDown, ShutdownReturns, CloseStore, SlTypeOK
  <2>2. OneSubscription'
    BY <1>10 DEF GoesDown, ShutdownReturns, CloseStore, SlInv, OneSubscription
  <2> QED
    BY <1>10, <2>1, <2>2 DEF GoesDown, ShutdownReturns, CloseStore, Finished, Ended, SlInv
<1>11. ASSUME Shutdown
       PROVE  SlInv'
  <2>1. ASSUME NEW l \in Labelers, NEW i \in Slots
        PROVE  subs'[l][i] \in Goroutine /\ ~subs'[l][i].live /\ subs'[l][i].pc = subs[l][i].pc
    <3>1. subs[l][i] \in Goroutine /\ (subs[l][i].live => active[l] = i)
      BY <1>0 DEF SlInv, SlTypeOK, OneSubscription
    <3>2. subs'[l][i] = IF active[l] = i THEN [subs[l][i] EXCEPT !.live = FALSE] ELSE subs[l][i]
      BY <1>11 DEF Shutdown
    <3> QED
      BY <3>1, <3>2 DEF Goroutine
  <2>2. SlTypeOK'
    <3>1. subs' \in [Labelers -> [Slots -> Goroutine]]
      BY <1>11, <2>1 DEF Shutdown
    <3>2. active' \in [Labelers -> 0 .. MaxSlots]
      BY <1>11 DEF Shutdown
    <3> QED
      BY <1>0, <1>11, <3>1, <3>2 DEF Shutdown, SlTypeOK
  <2> QED
    BY <1>11, <2>1, <2>2 DEF Shutdown, SlInv, OneSubscription
<1>12. ASSUME Restart
       PROVE  SlInv'
  <2>1. Afresh'
    BY <1>12 DEF Restart, Afresh
  <2>2. rpc' \in [Reconcilers -> {"idle", "due", "listed", "over"}]
    BY <1>12 DEF Restart
  <2>3. /\ DOMAIN list' = Reconcilers
        /\ \A r \in Reconcilers : DOMAIN list'[r] = {}
        /\ active' \in [Labelers -> 0 .. MaxSlots]
        /\ subs' \in [Labelers -> [Slots -> Goroutine]]
        /\ \A l \in Labelers, i \in Slots : ~subs'[l][i].live /\ subs'[l][i].pc = "gone"
    <3>1. DOMAIN <<>> = {}
      OBVIOUS
    <3> QED
      BY <2>1, <3>1, NoSubTypes DEF Afresh
  <2>4. SlTypeOK'
    BY <1>0, <1>12, <2>2, <2>3 DEF Restart, SlTypeOK
  <2> QED
    BY <1>12, <2>3, <2>4 DEF Restart, SlInv, OneSubscription
<1>13. ASSUME UNCHANGED vars
       PROVE  SlInv'
  BY <1>0, <1>13 DEF vars, SlInv, SlTypeOK, OneSubscription
<1> QED
  BY <1>1, <1>2, <1>3, <1>4, <1>5, <1>6, <1>7, <1>8, <1>9, <1>10, <1>11, <1>12, <1>13 DEF Next

\* SlInv is an invariant for every value of the constants.
THEOREM SlurperIsHealthy == Spec => []SlInv
  BY SlInit, SlStep, PTL DEF Spec

\* The state of the registry, the reconcilers and the goroutines is well typed.
THEOREM SlTypeCorrect == Spec => []SlTypeOK
<1>1. SlInv => SlTypeOK
  BY DEF SlInv
<1> QED
  BY <1>1, SlurperIsHealthy, PTL

\* No two reconciles, whatever lists they read, leave two live subscriptions.
THEOREM OneSubscriptionEach == Spec => []OneSubscription
<1>1. SlInv => OneSubscription
  BY DEF SlInv
<1> QED
  BY <1>1, SlurperIsHealthy, PTL

\* No subscription uses the store after it is closed.
THEOREM StoreIsOutlived == Spec => []StoreOutlives
<1>1. SlInv => StoreOutlives
  BY DEF SlInv, SlTypeOK, StoreOutlives, Ended, Alive, Goroutine
<1> QED
  BY <1>1, SlurperIsHealthy, PTL

-----------------------------------------------------------------------------
(* The registry *)

\* What each statement does to the enabled flags.
LEMMA ManualRows ==
    ASSUME NEW table \in [Labelers -> Row \cup {NoRow}], NEW l \in Labelers, NEW e \in Endpoints
    PROVE  \A k \in Labelers :
              IF k = l
              THEN Known(UpsertManual(table, l, e), k) /\ UpsertManual(table, l, e)[k].enabled = TRUE
              ELSE UpsertManual(table, l, e)[k] = table[k]
<1>1. Fresh(e, TRUE) \in Row /\ Fresh(e, TRUE).enabled = TRUE
  BY DEF Fresh, Row
<1>2. ASSUME Known(table, l)
      PROVE  /\ [table[l] EXCEPT !.endpoint = e, !.enabled = TRUE] \in Row
             /\ [table[l] EXCEPT !.endpoint = e, !.enabled = TRUE].enabled = TRUE
  BY <1>2 DEF Known, Row
<1> QED
  BY <1>1, <1>2 DEF UpsertManual, Known

LEMMA SwitchRows ==
    ASSUME NEW table \in [Labelers -> Row \cup {NoRow}], NEW l \in Labelers, NEW on \in BOOLEAN,
           Known(table, l)
    PROVE  \A k \in Labelers :
              IF k = l
              THEN Known(SetEnabled(table, l, on), k) /\ SetEnabled(table, l, on)[k].enabled = on
              ELSE SetEnabled(table, l, on)[k] = table[k]
<1>1. table[l] \in Row /\ [table[l] EXCEPT !.enabled = on] \in Row
  BY DEF Known, Row
<1>2. [table[l] EXCEPT !.enabled = on].enabled = on
  BY <1>1 DEF Row
<1> QED
  BY <1>1, <1>2 DEF SetEnabled, Known

LEMMA PatchRows ==
    ASSUME NEW table \in [Labelers -> Row \cup {NoRow}], NEW l \in Labelers, NEW o \in Overrides,
           Known(table, l)
    PROVE  \A k \in Labelers :
              IF k = l
              THEN /\ Known(SetRequireSig(table, l, o), k)
                   /\ SetRequireSig(table, l, o)[k].enabled = table[k].enabled
              ELSE SetRequireSig(table, l, o)[k] = table[k]
<1>1. table[l] \in Row /\ [table[l] EXCEPT !.sig = o] \in Row
  BY DEF Known, Row
<1>2. [table[l] EXCEPT !.sig = o].enabled = table[l].enabled
  BY <1>1 DEF Row
<1> QED
  BY <1>1, <1>2 DEF SetRequireSig, Known

LEMMA FirehoseRows ==
    ASSUME NEW table \in [Labelers -> Row \cup {NoRow}], NEW l \in Labelers, NEW e \in Endpoints,
           NEW on \in BOOLEAN
    PROVE  \A k \in Labelers : Known(table, k) =>
              /\ Known(UpsertFirehose(table, l, e, on), k)
              /\ UpsertFirehose(table, l, e, on)[k].enabled = table[k].enabled
<1>1. ASSUME Known(table, l)
      PROVE  /\ [table[l] EXCEPT !.endpoint = e] \in Row
             /\ [table[l] EXCEPT !.endpoint = e].enabled = table[l].enabled
  BY <1>1 DEF Known, Row
<1> QED
  BY <1>1 DEF UpsertFirehose, Known

\* Discovery leaves the enabled flag of a known row alone.
LEMMA DecidesStep == SlTypeOK /\ OperatorDecides /\ [Next]_vars => OperatorDecides'
<1> SUFFICES ASSUME SlTypeOK, OperatorDecides, [Next]_vars
             PROVE  OperatorDecides'
  OBVIOUS
<1> USE DEF Known, Fresh, Row
<1>1. ASSUME NEW a \in Admins, NEW l \in Labelers, NEW e \in Endpoints, Posts(a, l, e)
      PROVE  OperatorDecides'
  <2>1. rows \in [Labelers -> Row \cup {NoRow}] /\ rows' = UpsertManual(rows, l, e)
    BY <1>1 DEF Posts, SlTypeOK
  <2>2. ASSUME NEW k \in Labelers
        PROVE  wish'[k] = IF k = l THEN "on" ELSE wish[k]
    BY <1>1 DEF Posts, Writes, SlTypeOK
  <2>3. ASSUME NEW k \in Labelers, wish'[k] # "none"
        PROVE  Known(rows', k) /\ rows'[k].enabled = (wish'[k] = "on")
    <3>1. CASE k = l
      <4>1. Known(rows', k) /\ rows'[k].enabled = TRUE
        BY <2>1, <3>1, ManualRows
      <4>2. wish'[k] = "on"
        BY <2>2, <3>1
      <4> QED
        BY <4>1, <4>2, Zenon
    <3>2. CASE k # l
      <4>1. wish'[k] = wish[k]
        BY <2>2, <3>2
      <4>3. rows'[k] = rows[k]
        BY <2>1, <3>2 DEF UpsertManual
      <4> QED
        BY <2>3, <4>1, <4>3, Zenon DEF OperatorDecides, Known
    <3> QED
      BY <3>1, <3>2
  <2> QED
    BY <2>3 DEF OperatorDecides
<1>2. ASSUME NEW a \in Admins, NEW l \in Labelers, NEW on \in BOOLEAN, Switches(a, l, on)
      PROVE  OperatorDecides'
  BY <1>2, SwitchRows DEF Switches, Writes, SlTypeOK, OperatorDecides
<1>3. ASSUME NEW a \in Admins, NEW l \in Labelers, NEW o \in Overrides, Patches(a, l, o)
      PROVE  OperatorDecides'
  <2>1. /\ rows \in [Labelers -> Row \cup {NoRow}]
        /\ Known(rows, l)
        /\ rows' = SetRequireSig(rows, l, o)
    BY <1>3 DEF Patches, SlTypeOK
  <2>2. wish' = wish
    BY <1>3 DEF Patches, Writes, SlTypeOK
  <2>3. ASSUME NEW k \in Labelers, Known(rows, k)
        PROVE  Known(rows', k) /\ rows'[k].enabled = rows[k].enabled
    <3>1. IF k = l
          THEN /\ Known(SetRequireSig(rows, l, o), k)
               /\ SetRequireSig(rows, l, o)[k].enabled = rows[k].enabled
          ELSE SetRequireSig(rows, l, o)[k] = rows[k]
      BY <2>1, PatchRows
    <3> QED
      BY <2>1, <2>3, <3>1, Zenon DEF Known
  <2> QED
    BY <2>2, <2>3, Zenon DEF OperatorDecides
<1>4. ASSUME NEW l \in Labelers, DiscoverRecordsError(l)
      PROVE  OperatorDecides'
  BY <1>4 DEF DiscoverRecordsError, WatchStep, RecordError, SlTypeOK, OperatorDecides
<1>5. ASSUME NEW l \in Labelers, NEW e \in Endpoints, DiscoverUpserts(l, e)
      PROVE  OperatorDecides'
  BY <1>5, FirehoseRows DEF DiscoverUpserts, WatchStep, SlTypeOK, OperatorDecides
<1>6. ASSUME UNCHANGED <<rows, wish>>
      PROVE  OperatorDecides'
  BY <1>6 DEF OperatorDecides
<1>7. \/ \E a \in Admins, l \in Labelers :
            \/ \E e \in Endpoints : Posts(a, l, e)
            \/ \E on \in BOOLEAN : Switches(a, l, on)
            \/ \E o \in Overrides : Patches(a, l, o)
      \/ \E l \in Labelers :
            \/ DiscoverRecordsError(l)
            \/ \E e \in Endpoints : DiscoverUpserts(l, e)
      \/ UNCHANGED <<rows, wish>>
  BY DEF Next, Admin, AdminPokes, Watcher, DiscoverPokes, DiscoverFails, WatchStep, Tick, TakePoke,
         Lists, ListFails, Applies, Dials, Returns, Exits, GoesDown, Shutdown, ShutdownReturns,
         RunReturns, CloseStore, Restart, vars
<1> QED
  BY <1>1, <1>2, <1>3, <1>4, <1>5, <1>6, <1>7

\* What the operator said last holds over every discovery.
THEOREM OperatorHasTheWord == Spec => []OperatorDecides
  BY SlInit, DecidesStep, SlTypeCorrect, PTL DEF Spec

-----------------------------------------------------------------------------
(* The signals *)

\* A reconcile that failed or is through takes no signal with it.
LEMMA ReconcileKeepsSignals ==
    ASSUME SlTypeOK, PokeIsNotLost, NEW r \in Reconcilers,
           Lists(r) \/ ListFails(r) \/ Applies(r)
    PROVE  PokeIsNotLost'
<1>1. CASE r = "loop"
  <2>1. CASE Lists(r) \/ ListFails(r)
    BY <1>1, <2>1 DEF Lists, ListFails, PokeIsNotLost
  <2>2. CASE Applies(r)
    BY <1>1, <2>2 DEF Applies, PokeLeft, PokeIsNotLost
  <2> QED
    BY <2>1, <2>2
<1>2. CASE r = "initial"
  <2>1. rpc'["loop"] = rpc["loop"]
    BY <1>2 DEF Lists, ListFails, Applies, RecStep, SlTypeOK
  <2>2. UNCHANGED <<unseen, owes, poked>>
    BY <1>2 DEF Lists, ListFails, Applies, PokeLeft
  <2> QED
    BY <2>1, <2>2 DEF PokeIsNotLost
<1> QED
  BY <1>1, <1>2

LEMMA SignalStep == SlTypeOK /\ PokeIsNotLost /\ [Next]_vars => PokeIsNotLost'
<1> SUFFICES ASSUME SlTypeOK, PokeIsNotLost, [Next]_vars
             PROVE  PokeIsNotLost'
  OBVIOUS
<1> USE DEF recVars, slurpVars, stopVars
<1>1. ASSUME NEW a \in Admins, Admin(a)
      PROVE  PokeIsNotLost'
  <2>1. CASE AdminPokes(a)
    BY <2>1 DEF AdminPokes, PokeIsNotLost
  <2>2. CASE ~AdminPokes(a)
    BY <1>1, <2>2 DEF Admin, Posts, Switches, Patches, Writes, PokeIsNotLost
  <2> QED
    BY <2>1, <2>2
<1>2. ASSUME Watcher
      PROVE  PokeIsNotLost'
  BY <1>2 DEF Watcher, DiscoverRecordsError, DiscoverUpserts, DiscoverPokes, DiscoverFails,
              WatchStep, PokeIsNotLost
<1>3. ASSUME Tick \/ TakePoke \/ RunReturns
      PROVE  PokeIsNotLost'
  <2>1. rpc'["loop"] \in {"due", "over"}
    BY <1>3 DEF Tick, TakePoke, RunReturns, RecStep, SlTypeOK
  <2> QED
    BY <2>1 DEF PokeIsNotLost
<1>4. ASSUME NEW r \in Reconcilers, Lists(r) \/ ListFails(r) \/ Applies(r)
      PROVE  PokeIsNotLost'
  BY <1>4, ReconcileKeepsSignals
<1>5. ASSUME NEW l \in Labelers, NEW i \in Slots, Dials(l, i) \/ Returns(l, i) \/ Exits(l, i)
      PROVE  PokeIsNotLost'
  BY <1>5 DEF Dials, Returns, Exits, PokeIsNotLost
<1>6. ASSUME GoesDown \/ Shutdown \/ ShutdownReturns \/ CloseStore
      PROVE  PokeIsNotLost'
  BY <1>6 DEF GoesDown, Shutdown, ShutdownReturns, CloseStore, PokeIsNotLost
<1>7. ASSUME Restart
      PROVE  PokeIsNotLost'
  BY <1>7 DEF Restart, PokeIsNotLost
<1>8. ASSUME UNCHANGED vars
      PROVE  PokeIsNotLost'
  BY <1>8 DEF vars, PokeIsNotLost
<1> QED
  BY <1>1, <1>2, <1>3, <1>4, <1>5, <1>6, <1>7, <1>8 DEF Next

\* Signals collapse, but no admin change waits without one.
THEOREM NoPokeIsLost == Spec => []PokeIsNotLost
<1>1. Init => PokeIsNotLost
  BY DEF Init, PokeIsNotLost
<1> QED
  BY <1>1, SignalStep, SlTypeCorrect, PTL DEF Spec
=============================================================================
