----------------------------- MODULE RelayProofs -----------------------------
(***************************************************************************)
(* Proofs about Relay: the store under the endpoint is the log the         *)
(* endpoint was proved on, so what holds of each holds of both together,   *)
(* and the two guarantees meet in what a client may miss.                  *)
(*                                                                         *)
(* Proofs about Ingest: the store is what the subscriptions take it for,   *)
(* and the cursors they keep never claim more than it holds.               *)
(*                                                                         *)
(* Proofs about Hub: the store with the hub under its mutex is the store,  *)
(* and no live channel is closed twice.                                    *)
(*                                                                         *)
(* The end joins Relay and Ingest over the one store: from the labeler to  *)
(* the client.                                                             *)
(***************************************************************************)
EXTENDS Relay, Ingest, Hub

USE DEF endpointVars, clientVars

\* The variables of the endpoint, as its modules group them.
LEMMA EndpointStands ==
    ASSUME UNCHANGED endpointVars
    PROVE  UNCHANGED <<Endpoint!seamVars, Endpoint!subscribeVars>>
  BY DEF Endpoint!seamVars, Endpoint!streamVars, Endpoint!hubVars, Endpoint!handlerVars,
         Endpoint!subscribeVars, Endpoint!evalVars, Endpoint!clientVars

-----------------------------------------------------------------------------
(* The store in it *)

\* The relay takes no step that the store alone would not take.
LEMMA StoreMoves == RelayNext => [Next]_vars
  BY DEF RelayNext, CommitMints, AirToHub, StoreAlone, EndpointAlone, RelayCrash,
         Next, SteadyNext, Persist, PruneStep

LEMMA RelayHasStore == RelaySpec => Spec
<1>1. RelayInit => Init
  BY DEF RelayInit
<1>2. [RelayNext]_relayVars => [Next]_vars
  BY StoreMoves DEF relayVars
<1> QED
  BY <1>1, <1>2, PTL DEF RelaySpec, Spec

-----------------------------------------------------------------------------
(* The endpoint in it *)

\* The log of the store and the log of the endpoint take the same steps.
LEMMA SameCommit == Log!Commit /\ UNCHANGED Endpoint!seamVars => Endpoint!Ingest
  BY DEF Log!Commit, Endpoint!Commit, Endpoint!Ingest

LEMMA SameExpire ==
    ASSUME NEW gone \in SUBSET SeqsOf(events), Log!Expire(gone), UNCHANGED Endpoint!seamVars
    PROVE  Endpoint!Prune
  BY DEF Log!Expire, Endpoint!Expire, Endpoint!Prune

LEMMA SameLog == UNCHANGED Log!logVars => UNCHANGED Endpoint!logVars
  BY DEF Log!logVars, Endpoint!logVars

\* With the store still, every step of the endpoint is one of its own.
LEMMA EndpointMoves ==
    ASSUME NEW c \in Consumers, EndpointAlone(c)
    PROVE  Endpoint!SubNext
  BY DEF EndpointAlone, Endpoint!SubNext, Endpoint!subscribeVars, Endpoint!evalVars, Endpoint!clientVars

\* Each step of the relay is one of the endpoint on the abstract log, or unseen by it.
LEMMA EndpointStep ==
    ASSUME KeyInv, KeyInv', [RelayNext]_relayVars
    PROVE  [Endpoint!SubNext]_(Endpoint!allVars)
<1>1. ASSUME UNCHANGED Log!logVars, UNCHANGED endpointVars
      PROVE  UNCHANGED Endpoint!allVars
  BY <1>1, EndpointStands, SameLog DEF Endpoint!allVars, Endpoint!vars
<1>2. ASSUME NEW w \in Writers, CommitMints(w)
      PROVE  Endpoint!SubNext
  BY <1>2, CommitIsCommit, EndpointStands, SameCommit DEF CommitMints, Endpoint!SubNext
<1>3. ASSUME NEW w \in Writers, AirToHub(w)
      PROVE  Endpoint!SubNext
  BY <1>3 DEF AirToHub, Endpoint!SubNext, Endpoint!subscribeVars, Endpoint!evalVars, Endpoint!clientVars
<1>4. CASE StoreAlone
  <2>1. CASE PruneBatch
    <3>1. UNCHANGED Log!logVars \/ \E gone \in SUBSET SeqsOf(events) : Log!Expire(gone)
      BY <2>1, BatchIsExpire
    <3>2. ASSUME NEW gone \in SUBSET SeqsOf(events), Log!Expire(gone)
          PROVE  Endpoint!SubNext
      BY <1>4, <3>2, SameExpire, EndpointStands DEF StoreAlone, Endpoint!SubNext
    <3> QED
      BY <1>1, <1>4, <3>1, <3>2 DEF StoreAlone
  <2>2. CASE ~PruneBatch
    <3>1. UNCHANGED Log!logVars
      BY <1>4, <2>2, StoreIsSilent DEF StoreAlone, PruneStep
    <3> QED
      BY <1>1, <1>4, <3>1 DEF StoreAlone
  <2> QED
    BY <2>1, <2>2
<1>5. ASSUME NEW c \in Consumers, EndpointAlone(c)
      PROVE  Endpoint!SubNext
  BY <1>5, EndpointMoves
<1>6. CASE RelayCrash
  BY <1>6 DEF RelayCrash, Endpoint!SubNext
<1>7. CASE UNCHANGED relayVars
  <2>1. UNCHANGED vars /\ UNCHANGED endpointVars
    BY <1>7 DEF relayVars
  <2> QED
    BY <1>1, <2>1, StoreIsSilent
<1> QED
  BY <1>2, <1>3, <1>4, <1>5, <1>6, <1>7 DEF RelayNext

LEMMA EndpointAssumptions ==
    /\ Endpoint!MaxSeqAssumption
    /\ Endpoint!BufSizeAssumption
    /\ Endpoint!ReadsFailAssumption
  BY MaxSeqAssumption, EndpointAssumption
     DEF Endpoint!MaxSeqAssumption, Endpoint!BufSizeAssumption, Endpoint!ReadsFailAssumption

\* The store, with its mutex, transactions, batches and crashes, under the endpoint:
\* every behaviour is one of the endpoint on the abstract log, the one it was model-
\* checked and proved on.
THEOREM RelayIsEndpoint ==
    ASSUME PowerFails = FALSE
    PROVE  RelaySpec => ImplementsEndpoint
<1>1. RelayInit => Endpoint!SubInit
  BY DEF RelayInit
<1>2. KeyInv /\ KeyInv' /\ [RelayNext]_relayVars => [Endpoint!SubNext]_(Endpoint!allVars)
  BY EndpointStep
<1>3. RelaySpec => []KeyInv
  BY RelayHasStore, KeyInvariant, PTL
<1> QED
  BY <1>1, <1>2, <1>3, PTL DEF RelaySpec, ImplementsEndpoint, Endpoint!SubSpec

\* So all that is proved of the endpoint holds in the relay.
LEMMA EndpointIsHealthy ==
    ASSUME PowerFails = FALSE
    PROVE  RelaySpec => []Endpoint!SubInv
<1>1. Endpoint!SubSpec => []Endpoint!SubInv
  BY EndpointAssumptions, Endpoint!SubscribersAreHealthy
<1> QED
  BY <1>1, RelayIsEndpoint, PTL DEF ImplementsEndpoint

\* ConsumerTooSlow means dropped by the hub, whatever the store does meanwhile.
THEOREM RelayDropsTheSlow ==
    ASSUME PowerFails = FALSE, ReadsFail = FALSE
    PROVE  RelaySpec => TooSlowIsGenuine
<1>1. Endpoint!SubSpec => Endpoint!Spec
  BY EndpointAssumptions, Endpoint!EndpointIsSeam
<1>2. Endpoint!Spec => Endpoint!TooSlowIsGenuine
  BY EndpointAssumptions, Endpoint!TooSlowMeansDropped
<1> QED
  BY <1>1, <1>2, RelayIsEndpoint, PTL DEF ImplementsEndpoint, TooSlowIsGenuine

-----------------------------------------------------------------------------
(* What a client may miss *)

\* What the table has lost is older than the window.
WindowInv == \A e \in minted : e \in Row /\ (e \in events \/ e.ts < now - Window)

\* Only a commit adds a row, and it is minted; only a batch removes one.
LEMMA RowsComeAndGo ==
    ASSUME [RelayNext]_relayVars
    PROVE  \/ \E w \in Writers : CommitTx(w) /\ minted' = minted \cup {row[w]}
           \/ PruneBatch /\ minted' = minted
           \/ UNCHANGED <<events, minted>>
<1>1. CASE StoreAlone
  BY <1>1 DEF StoreAlone, PruneStep, Call, Lock, Insert, Encode, PersistFails, PruneTick,
              PruneFails, ClockAdvances, ClockStepsBack, dbVars
<1>2. ASSUME NEW w \in Writers, AirToHub(w)
      PROVE  UNCHANGED <<events, minted>>
  BY <1>2 DEF AirToHub, Air, dbVars
<1>3. CASE RelayCrash \/ \E c \in Consumers : EndpointAlone(c)
  BY <1>3 DEF RelayCrash, Crash, dbVars, EndpointAlone, vars
<1>4. CASE UNCHANGED relayVars
  BY <1>4 DEF relayVars, vars, dbVars
<1> QED
  BY <1>1, <1>2, <1>3, <1>4 DEF RelayNext, CommitMints

LEMMA ClockMoves ==
    ASSUME ClockSteps = FALSE, KeyInv, [RelayNext]_relayVars
    PROVE  now' >= now /\ now \in Nat /\ now' \in Nat
<1>1. now \in Nat
  BY TimeAssumption DEF KeyInv, DbInv, TypeOK
<1>2. now' = now \/ now' = now + 1
  BY DEF RelayNext, CommitMints, CommitTx, AirToHub, Air, StoreAlone, Call, Lock, Insert, Encode,
         PersistFails, PruneTick, PruneStep, PruneBatch, PruneFails, ClockAdvances, ClockStepsBack,
         EndpointAlone, RelayCrash, Crash, Die, relayVars, vars
<1> QED
  BY <1>1, <1>2

LEMMA WindowStep ==
    ASSUME ClockSteps = FALSE, KeyInv, AgeInv, WindowInv, [RelayNext]_relayVars
    PROVE  WindowInv'
<1>1. now' >= now /\ now \in Nat /\ now' \in Nat /\ Window \in Nat
  BY ClockMoves, TimeAssumption
<1>2. ASSUME NEW e \in minted, e \in events' \/ e.ts < now - Window
      PROVE  e \in Row /\ (e \in events' \/ e.ts < now' - Window)
  BY <1>1, <1>2 DEF WindowInv, Row
<1>3. ASSUME NEW w \in Writers, CommitTx(w), minted' = minted \cup {row[w]}
      PROVE  WindowInv'
  <2>1. row[w] \in Row /\ row[w] \in events' /\ events \subseteq events'
    BY <1>3 DEF CommitTx, KeyInv, DbInv, TypeOK
  <2> QED
    BY <1>2, <1>3, <2>1 DEF WindowInv
<1>4. ASSUME PruneBatch, minted' = minted
      PROVE  WindowInv'
  <2>1. \A e \in events \ events' : e.ts < now - Window
    BY <1>4, BatchIsOld DEF KeyInv
  <2> QED
    BY <1>2, <1>4, <2>1 DEF WindowInv
<1>5. CASE UNCHANGED <<events, minted>>
  BY <1>2, <1>5 DEF WindowInv
<1> QED
  BY <1>3, <1>4, <1>5, RowsComeAndGo

LEMMA RelayInvariant ==
    ASSUME PowerFails = FALSE, ClockSteps = FALSE
    PROVE  RelaySpec => [](KeyInv /\ AgeInv /\ WindowInv /\ Endpoint!SubInv)
<1>1. RelayInit => WindowInv
  BY DEF RelayInit, WindowInv
<1>2. KeyInv /\ AgeInv /\ WindowInv /\ [RelayNext]_relayVars => WindowInv'
  BY WindowStep
<1>3. RelaySpec => []KeyInv /\ []AgeInv
  BY RelayHasStore, KeyInvariant, AgeInvariant, PTL
<1> QED
  BY <1>1, <1>2, <1>3, EndpointIsHealthy, PTL DEF RelaySpec

\* A client that has gone past an event younger than the retention window has it:
\* the prune job keeps what is young, the endpoint sends what is kept.
THEOREM NoYoungEventIsMissed ==
    ASSUME PowerFails = FALSE, ClockSteps = FALSE
    PROVE  RelaySpec => []YoungIsNotMissed
<1>1. KeyInv /\ WindowInv /\ Endpoint!SubInv => YoungIsNotMissed
  <2> SUFFICES ASSUME KeyInv, WindowInv, Endpoint!SubInv, NEW c \in Consumers, NEW e \in minted,
                      e.ts >= now - Window, origin[c] < e.seq, e.seq <= pos[c]
               PROVE  e.seq \in got[c]
    BY DEF YoungIsNotMissed
  <2>1. e \in Row /\ (e \in events \/ e.ts < now - Window)
    BY DEF WindowInv
  <2>2. now \in Nat /\ Window \in Nat
    BY TimeAssumption DEF KeyInv, DbInv, TypeOK
  <2>3. e \in events
    BY <2>1, <2>2 DEF Row
  <2>4. e.seq \in SeqsOf(events)
    BY <2>3 DEF SeqsOf
  <2> QED
    BY <2>4 DEF Endpoint!SubInv, Endpoint!Resumes
<1> QED
  BY <1>1, RelayInvariant, PTL

\* From the oldest event that is left on, a client has all events up to its position:
\* what the prune job leaves is contiguous, and what is left the client has.
THEOREM HolesAreOld ==
    ASSUME PowerFails = FALSE, ClockSteps = FALSE
    PROVE  RelaySpec => []HolesAreBelowFloor
<1>1. KeyInv /\ AgeInv /\ Endpoint!SubInv => HolesAreBelowFloor
  <2> SUFFICES ASSUME KeyInv, AgeInv, Endpoint!SubInv, NEW c \in Consumers, NEW e \in events,
                      NEW s \in e.seq .. pos[c], origin[c] < s
               PROVE  s \in got[c]
    BY DEF HolesAreBelowFloor
  <2>1. pos[c] <= seqHigh /\ pos[c] \in Int /\ seqHigh \in Nat /\ e.seq \in Nat
    BY EndpointAssumptions, MaxSeqAssumption
       DEF Endpoint!SubInv, Endpoint!Follows, Endpoint!SubTypeOK, Endpoint!NoCursor, KeyInv, DbInv, TypeOK, Row
  <2>2. s \in e.seq .. seqHigh /\ s <= pos[c]
    BY <2>1
  <2>3. s \in SeqsOf(events)
    BY <2>2 DEF AgeInv, Aged
  <2> QED
    BY <2>2, <2>3 DEF Endpoint!SubInv, Endpoint!Resumes
<1> QED
  BY <1>1, RelayInvariant, PTL

-----------------------------------------------------------------------------
(* Ingest: the subscriptions of a labeler write to the store                  *)

LEMMA IngestSubsAssumptions ==
    /\ Subs!BoundAssumption /\ Subs!ContentAssumption
    /\ Subs!OverrideAssumption /\ Subs!SwitchAssumption
  BY SubscriptionAssumption, FaultAssumption
     DEF Subs!BoundAssumption, Subs!ContentAssumption, Subs!OverrideAssumption, Subs!SwitchAssumption

LEMMA IdsWrite == \A i \in Ids : i \in Writers
  BY SubscriptionAssumption

-----------------------------------------------------------------------------
(* The parts *)

\* No step of the whole is one the store would not take.
LEMMA IngestStepsStore == IngestNext => [Next]_vars
  BY IdsWrite DEF IngestNext, Calls, Commits, PersistErrs, SubAlone, UpstreamAlone, StoreWorks, Clock,
         IngestSync, IngestCrash, IngestPowerLoss, Next, SteadyNext, Persist, PruneStep

LEMMA IngestHasStore == IngestSpec => Spec
<1>1. IngestInit => Init
  BY DEF IngestInit
<1>2. [IngestNext]_ingestVars => [Next]_vars
  BY IngestStepsStore DEF ingestVars
<1> QED
  BY <1>1, <1>2, PTL DEF IngestSpec, Spec

LEMMA UpstreamStands == ASSUME UNCHANGED upstreamVars PROVE UNCHANGED Subs!vars
  BY DEF upstreamVars, Subs!vars, Subs!subVars, Subs!dbVars

\* No step of the whole is one the subscriptions would not take.
LEMMA IngestStepsSubs == [IngestNext]_ingestVars => [Subs!Next]_(Subs!vars)
<1> USE DEF Subs!Next, Subs!Sub
<1>1. ASSUME NEW i \in Ids, Calls(i) \/ Commits(i) \/ PersistErrs(i) \/ SubAlone(i)
      PROVE  Subs!Next
  BY <1>1 DEF Calls, Commits, PersistErrs, SubAlone, Ids, Subs!Ids
<1>2. UpstreamAlone => Subs!Next
  BY DEF UpstreamAlone
<1>3. IngestSync \/ IngestCrash \/ IngestPowerLoss => Subs!Next
  BY DEF IngestSync, IngestCrash, IngestPowerLoss
<1>4. StoreWorks \/ Clock \/ UNCHANGED ingestVars => UNCHANGED Subs!vars
  BY UpstreamStands DEF StoreWorks, Clock, ingestVars
<1> QED
  BY <1>1, <1>2, <1>3, <1>4 DEF IngestNext

\* What Upstream assumes of PersistIngest is what the store does for it.
THEOREM IngestIsUpstream == IngestSpec => Subs!Spec
<1>1. IngestInit => Subs!Init
  BY DEF IngestInit
<1> QED
  BY <1>1, IngestStepsSubs, PTL DEF IngestSpec, Subs!Spec

LEMMA SubsAreHealthy == IngestSpec => []Subs!UpInv
<1>1. Subs!Spec => []Subs!UpInv
  BY IngestSubsAssumptions, Subs!UpInvariant
<1> QED
  BY <1>1, IngestIsUpstream, PTL

-----------------------------------------------------------------------------
(* Rows and frames *)

\* The rows of M, made of the frames recorded in R, against table E and its counter.
Tallies(M, R, E, high) ==
    /\ \A m \in M : m.row \in Row /\ m.row.seq <= high /\ m.of \in Nat
    /\ {m.of : m \in M} = {r.seq : r \in R}
    /\ \A m \in M : m.row \in E \/ Old(m.row)
    /\ Ordered(M)

\* A power loss leaves cursor, rows and history at one point.
IngestInv ==
    /\ Tallies(made, recorded, events, seqHigh)
    /\ Tallies(madeSynced, upSynced.recorded, synced.events, synced.seqHigh)
    /\ peak \in Nat /\ now <= peak
    /\ ppc = "batch" => cutoff <= peak - Window

LEMMA IngestInitial == IngestInit => IngestInv
  BY DEF IngestInit, Init, Subs!Init, IngestInv, Tallies, Ordered

\* What is stored or old stays so, and a frame refused or given up stays that.
LEMMA StillTallies ==
    ASSUME NEW M, NEW R, NEW E, NEW high, NEW E2, NEW high2,
           Tallies(M, R, E, high),
           high \in Nat, high2 \in Nat, high <= high2,
           peak \in Nat, peak' \in Nat, peak <= peak',
           base \in Nat, base' \in Nat, base <= base', refused \subseteq refused',
           \A e \in E : e \in E2 \/ Old(e)
    PROVE  Tallies(M, R, E2, high2)'
<1>1. ASSUME NEW m \in M
      PROVE  /\ m.row \in Row /\ m.row.seq <= high2 /\ m.of \in Nat
             /\ m.row \in E2 \/ Old(m.row)'
  <2>1. m.row \in Row /\ m.row.seq <= high /\ m.of \in Nat /\ (m.row \in E \/ Old(m.row))
    BY DEF Tallies
  <2>2. m.row.seq \in Nat /\ m.row.ts \in Nat
    BY <2>1 DEF Row
  <2>3. Old(m.row) => Old(m.row)'
    BY <2>2, TimeAssumption DEF Old
  <2> QED
    BY <2>1, <2>2, <2>3
<1>2. Ordered(M)'
  <2> SUFFICES ASSUME NEW m \in M, NEW f \in base' + 1 .. m.of, f \notin refused'
               PROVE  \E k \in M : k.of = f /\ k.row.seq <= m.row.seq
    BY DEF Ordered
  <2>1. m.of \in Nat
    BY <1>1
  <2>2. \A b, c, l \in Nat : b <= c => c + 1 .. l \subseteq b + 1 .. l
    OBVIOUS
  <2>3. f \in base + 1 .. m.of
    BY <2>1, <2>2
  <2>4. f \notin refused
    OBVIOUS
  <2> QED
    BY <2>3, <2>4 DEF Tallies, Ordered
<1>3. {m.of : m \in M} = {r.seq : r \in R}
  BY DEF Tallies
<1> QED
  BY <1>1, <1>2, <1>3 DEF Tallies

\* The order and the age of what is tallied.
LEMMA TalliesStay ==
    ASSUME NEW M, NEW R, NEW E, NEW high,
           UNCHANGED <<base, refused, peak>>,
           Tallies(M, R, E, high)
    PROVE  Tallies(M, R, E, high)'
  BY DEF Tallies, Ordered, Old

\* A step that makes no row and takes none away that is not old.
LEMMA IngestKept ==
    ASSUME IngestInv, DbInv, DbInv',
           UNCHANGED <<made, madeSynced, recorded, upSynced, synced>>,
           seqHigh <= seqHigh', base \in Nat, base' \in Nat, base <= base',
           refused \subseteq refused',
           peak' \in Nat, peak <= peak', now' <= peak',
           \A e \in events : e \in events' \/ Old(e),
           ppc' = "batch" => cutoff' <= peak' - Window
    PROVE  IngestInv'
<1>1. /\ seqHigh \in Nat /\ seqHigh' \in Nat /\ synced.seqHigh \in Nat /\ peak \in Nat
  BY MaxSeqAssumption DEF DbInv, TypeOK, IngestInv
<1>2. Tallies(made, recorded, events, seqHigh)'
  BY <1>1, StillTallies DEF IngestInv, Tallies
<1>3. Tallies(madeSynced, upSynced.recorded, synced.events, synced.seqHigh)'
  BY <1>1, StillTallies DEF IngestInv
<1> QED
  BY <1>2, <1>3 DEF IngestInv

\* A commit adds a row above all others, made of the frame after those that are dealt with.
LEMMA IngestCommits ==
    ASSUME IngestInv, DbInv, Subs!UpInv, NEW i \in Ids, Commits(i)
    PROVE  IngestInv'
<1> DEFINE new == [row |-> row[i], of |-> Subs!Frame(i)]
           r == [seq |-> Subs!Frame(i), labels |-> Subs!Kept(i), by |-> i, late |-> ~ctx[i]]
<1>1. /\ i \in Writers /\ i \in Subs!Ids
      /\ row[i] \in Row /\ row[i].seq = seqHigh + 1 /\ seqHigh \in Nat
  BY IdsWrite, MaxSeqAssumption DEF Commits, CommitTx, DbInv, TypeOK, InTx, Ids, Subs!Ids
<1>2. /\ UNCHANGED <<base, refused, peak, madeSynced, upSynced, synced, now, ppc, cutoff>>
      /\ events' = events \cup {row[i]} /\ seqHigh' = seqHigh + 1
      /\ made' = made \cup {new}
  BY <1>1 DEF Commits, CommitTx, Subs!Persist, pruneVars
<1>3. r.seq = Subs!Frame(i) /\ recorded' = recorded \cup {r}
  BY DEF Commits, Subs!Persist
<1>4. base \in Nat /\ upPos[i] \in Nat /\ Subs!Frame(i) = upPos[i] + 1
  BY <1>1, SubscriptionAssumption DEF Subs!UpInv, Subs!UpTypeOK, Subs!Frame
<1>5. base + 1 .. upPos[i] \subseteq {k.seq : k \in recorded} \cup refused
  BY <1>1 DEF Commits, Subs!Persist, Subs!UpInv, Subs!ConnectionIsBacked, Subs!Handled
<1> HIDE DEF new, r
<1>n. new.row = row[i] /\ new.of = upPos[i] + 1
  BY <1>4 DEF new
<1>6. \A m \in made : m.row \in Row /\ m.row.seq <= seqHigh' /\ m.of \in Nat /\ (m.row \in events' \/ Old(m.row)')
  BY <1>1, <1>2 DEF IngestInv, Tallies, Old, Row
<1>7. Ordered(made)'
  <2> SUFFICES ASSUME NEW m \in made', NEW f \in base + 1 .. m.of, f \notin refused
               PROVE  \E k \in made' : k.of = f /\ k.row.seq <= m.row.seq
    BY <1>2 DEF Ordered
  <2>1. CASE m \in made
    BY <1>2, <2>1 DEF IngestInv, Tallies, Ordered
  <2>2. CASE m = new
    <3>1. CASE f = upPos[i] + 1
      <4>1. m.row.seq \in Nat
        BY <1>1, <1>n, <2>2
      <4> QED
        BY <1>2, <1>n, <2>2, <3>1, <4>1
    <3>2. CASE f # upPos[i] + 1
      <4>1. f \in base + 1 .. upPos[i]
        BY <1>4, <1>n, <2>2, <3>2
      <4>2. PICK k \in made : k.of = f
        BY <1>5, <4>1 DEF IngestInv, Tallies
      <4>3. k.row.seq \in Nat /\ k.row.seq <= seqHigh
        BY DEF IngestInv, Tallies, Row
      <4>4. k.row.seq <= m.row.seq
        BY <1>1, <1>n, <2>2, <4>3
      <4> QED
        BY <1>2, <4>2, <4>4
    <3> QED
      BY <3>1, <3>2
  <2> QED
    BY <1>2, <2>1, <2>2
<1>8. Tallies(made, recorded, events, seqHigh)'
  <2>1. {m.of : m \in made'} = {m.of : m \in made} \cup {new.of}
    BY <1>2
  <2>2. {k.seq : k \in recorded'} = {k.seq : k \in recorded} \cup {r.seq}
    BY <1>3
  <2>3. {m.of : m \in made'} = {k.seq : k \in recorded'}
    BY <1>3, <1>4, <1>n, <2>1, <2>2 DEF IngestInv, Tallies
  <2>4. new.row \in Row /\ new.row.seq <= seqHigh' /\ new.of \in Nat /\ new.row \in events'
    BY <1>1, <1>2, <1>4, <1>n
  <2> QED
    BY <1>2, <1>6, <1>7, <2>3, <2>4 DEF Tallies
<1>9. Tallies(madeSynced, upSynced.recorded, synced.events, synced.seqHigh)'
  BY <1>2, TalliesStay DEF IngestInv
<1> QED
  BY <1>2, <1>8, <1>9 DEF IngestInv

\* What the clock has shown bounds the cutoff of a pass; a batch takes what is older.
LEMMA PruneTakesTheOld ==
    ASSUME IngestInv, DbInv, StoreWorks, NEW e \in events \ events'
    PROVE  Old(e)
<1>1. PruneBatch
  BY DEF StoreWorks, PruneStep, Call, Lock, Insert, Encode, CommitTx, Air, PersistFails, PruneTick,
         PruneFails, dbVars
<1>2. e \in Expired /\ ppc = "batch" /\ e \in Row
  BY <1>1 DEF PruneBatch, Batches, DbInv, TypeOK
<1> QED
  BY <1>2, TimeAssumption DEF Expired, Old, IngestInv, DbInv, TypeOK, Row

LEMMA IngestStep ==
    ASSUME IngestInv, DbInv, DbInv', Subs!UpInv, [IngestNext]_ingestVars
    PROVE  IngestInv'
<1> USE DEF pruneVars, writerVars, dbVars, upstreamVars, madeVars
<1>t. /\ base \in Nat /\ Len(up) \in Nat /\ base <= Len(up)
      /\ now \in Nat /\ now <= peak /\ peak \in Nat /\ cutoff \in Int /\ seqHigh \in Nat
      /\ ppc = "batch" => cutoff <= peak - Window
  BY MaxSeqAssumption, TimeAssumption, SubscriptionAssumption
     DEF DbInv, TypeOK, Subs!UpInv, Subs!UpTypeOK, IngestInv
<1>1. ASSUME NEW i \in Ids, Commits(i)
      PROVE  IngestInv'
  BY <1>1, IngestCommits
<1>2. ASSUME NEW i \in Ids, SubAlone(i)
      PROVE  IngestInv'
  <2>1. /\ UNCHANGED <<vars, madeVars, peak, recorded, upSynced>>
        /\ base' \in {base, Len(up)} /\ refused \subseteq refused'
    BY <1>2 DEF SubAlone, Subs!ReadCursor, Subs!Connect, Subs!Receive, Subs!BeginSkip, Subs!BeginWrite,
                Subs!WriteCursor, Subs!Fail, Subs!Exit, Subs!dbVars
  <2>2. base' \in Nat /\ base <= base'
    BY <1>t, <2>1
  <2> QED
    BY <1>t, <2>1, <2>2, IngestKept DEF vars
<1>3. ASSUME NEW i \in Ids, Calls(i) \/ PersistErrs(i)
      PROVE  IngestInv'
  <2>1. UNCHANGED <<madeVars, peak, recorded, upSynced, base, refused, events, seqHigh, synced, now, pruneVars>>
    BY <1>3 DEF Calls, PersistErrs, Subs!BeginPersist, Subs!Fail, Subs!dbVars, Call, PersistFails
  <2> QED
    BY <1>t, <2>1, IngestKept
<1>4. CASE UpstreamAlone
  <2>1. UNCHANGED <<vars, madeVars, peak, recorded, upSynced, base, refused>>
    BY <1>4 DEF UpstreamAlone, Subs!Start, Subs!Stop, Subs!Publish, Subs!dbVars
  <2> QED
    BY <1>t, <2>1, IngestKept DEF vars
<1>5. CASE StoreWorks
  <2>1. UNCHANGED <<madeVars, peak, recorded, upSynced, base, refused, synced, now>>
    BY <1>5 DEF StoreWorks, PruneStep, Call, Lock, Insert, Encode, CommitTx, Air, PersistFails, PruneTick,
                PruneBatch, PruneFails
  <2>2. seqHigh <= seqHigh'
    <3>1. ASSUME NEW w \in Writers, CommitTx(w)
          PROVE  seqHigh' = seqHigh + 1
      BY <3>1 DEF CommitTx, DbInv, InTx
    <3>2. ASSUME NEW w \in Writers, Call(w) \/ Lock(w) \/ Insert(w) \/ Encode(w) \/ Air(w) \/ PersistFails(w)
          PROVE  seqHigh' = seqHigh
      BY <3>2 DEF Call, Lock, Insert, Encode, Air, PersistFails
    <3>3. PruneTick \/ PruneStep => seqHigh' = seqHigh
      BY DEF PruneTick, PruneStep, PruneBatch, PruneFails
    <3> QED
      BY <1>5, <1>t, <3>1, <3>2, <3>3 DEF StoreWorks
  <2>3. ppc' = "batch" => cutoff' <= peak' - Window
    <3>1. CASE PruneTick
      BY <1>t, <2>1, <3>1, TimeAssumption DEF PruneTick
    <3>2. CASE UNCHANGED cutoff /\ (ppc' = "batch" => ppc = "batch")
      BY <1>t, <2>1, <3>2
    <3> QED
      BY <1>5, <3>1, <3>2 DEF StoreWorks, PruneStep, Call, Lock, Insert, Encode, CommitTx, Air,
                              PersistFails, PruneBatch, PruneFails
  <2>4. \A e \in events : e \in events' \/ Old(e)
    BY <1>5, PruneTakesTheOld
  <2> QED
    BY <1>t, <2>1, <2>2, <2>3, <2>4, IngestKept
<1>6. CASE Clock
  <2>1. /\ UNCHANGED <<madeVars, recorded, upSynced, base, refused, events, seqHigh, synced, pruneVars>>
        /\ now' \in Nat /\ peak' = IF now' > peak THEN now' ELSE peak
    BY <1>6, <1>t DEF Clock, ClockAdvances, ClockStepsBack
  <2>2. peak' \in Nat /\ peak <= peak' /\ now' <= peak'
    BY <1>t, <2>1
  <2>3. \A c, p, q \in Int : c <= p - Window /\ p <= q => c <= q - Window
    BY TimeAssumption
  <2>4. ppc' = "batch" => cutoff' <= peak' - Window
    BY <1>t, <2>1, <2>2, <2>3
  <2> QED
    BY <1>t, <2>1, <2>2, <2>4, IngestKept
<1>7. CASE IngestSync
  <2>1. /\ UNCHANGED <<made, recorded, events, seqHigh, base, refused, peak, now, ppc, cutoff>>
        /\ madeSynced' = made /\ upSynced'.recorded = recorded
        /\ synced'.events = events /\ synced'.seqHigh = seqHigh
    BY <1>7 DEF IngestSync, Sync, Subs!Sync, Subs!dbVars
  <2> QED
    BY <2>1, TalliesStay DEF IngestInv
<1>8. CASE IngestCrash
  <2>1. /\ UNCHANGED <<madeVars, peak, recorded, upSynced, base, refused, events, seqHigh, synced, now>>
        /\ ppc' = "idle"
    BY <1>8 DEF IngestCrash, Crash, Die, Subs!Crash, Subs!Die, Subs!dbVars
  <2> QED
    BY <1>t, <2>1, IngestKept
<1>9. CASE IngestPowerLoss
  <2>1. /\ UNCHANGED <<madeSynced, upSynced, synced, base, refused, peak, now>>
        /\ made' = madeSynced /\ recorded' = upSynced.recorded
        /\ events' = synced.events /\ seqHigh' = synced.seqHigh /\ ppc' = "idle"
    BY <1>9 DEF IngestPowerLoss, PowerLoss, Die, Subs!PowerLoss, Subs!Die
  <2> QED
    BY <2>1, TalliesStay DEF IngestInv
<1>10. CASE UNCHANGED ingestVars
  BY <1>10, TalliesStay DEF ingestVars, vars, IngestInv
<1> QED
  BY <1>1, <1>2, <1>3, <1>4, <1>5, <1>6, <1>7, <1>8, <1>9, <1>10 DEF IngestNext

LEMMA IngestInvariant == IngestSpec => []IngestInv
<1>1. IngestInv /\ DbInv /\ DbInv' /\ Subs!UpInv /\ [IngestNext]_ingestVars => IngestInv'
  BY IngestStep
<1>2. IngestSpec => []DbInv
  BY IngestHasStore, DbInvariant, PTL
<1> QED
  BY <1>1, <1>2, IngestInitial, SubsAreHealthy, PTL DEF IngestSpec

\* The cursor of a labeler never claims more than the log holds or held until it was
\* older than the window, whatever fails in between: power losses and a clock that is
\* set back included.
THEOREM CursorNeverLies == IngestSpec => []CursorIsStored
<1>1. ASSUME IngestInv, Subs!UpInv, NEW f \in base + 1 .. upCursor, f \notin refused
      PROVE  \E m \in made : m.of = f /\ (m.row \in events \/ Old(m.row))
  <2>1. f \in {k.seq : k \in recorded}
    BY <1>1 DEF Subs!UpInv, Subs!CursorIsBacked, Subs!Handled
  <2> QED
    BY <1>1, <2>1 DEF IngestInv, Tallies
<1>2. IngestInv /\ Subs!UpInv => CursorIsStored
  BY <1>1 DEF CursorIsStored
<1> QED
  BY <1>2, IngestInvariant, SubsAreHealthy, PTL

\* The relay does not reorder a labeler, however many of its subscriptions overlap.
THEOREM OrderIsKept == IngestSpec => []KeepsUpstreamOrder
<1>1. IngestInv => KeepsUpstreamOrder
  BY DEF IngestInv, Tallies, KeepsUpstreamOrder
<1> QED
  BY <1>1, IngestInvariant, PTL

-----------------------------------------------------------------------------
(* The hub under the mutex of the store *)

\* What the channels rely on: Hub.mu is held over the whole loop of Broadcast, and
\* what is listed is not closed.
HubInv ==
    /\ HubTypeOK
    /\ hubMu = NoWriter => todo = {}
    /\ \A s \in Subscribers : closings[s] <= 1
    /\ \A s \in listed : closings[s] = 0

LEMMA HubInitial == HubInit => HubInv
  BY LiveSizeAssumption DEF HubInit, HubInv, HubTypeOK, Unused, Callers

LEMMA HubStep == HubInv /\ [HubNext]_hubVars => HubInv'
<1> SUFFICES ASSUME HubInv, [HubNext]_hubVars
             PROVE  HubInv'
  OBVIOUS
<1> USE LiveSizeAssumption, WriterAssumption DEF liveVars
<1>1. ASSUME NEW w \in Writers, LockHub(w)
      PROVE  HubInv'
  BY <1>1 DEF LockHub, HubInv, HubTypeOK
<1>2. ASSUME NEW w \in Writers, Offer(w)
      PROVE  HubInv'
  <2>1. PICK s \in todo :
          /\ todo' = todo \ {s}
          /\ IF buffered[s] < LiveSize
             THEN /\ buffered' = [buffered EXCEPT ![s] = @ + 1]
                  /\ UNCHANGED <<listed, closings>>
             ELSE /\ closings' = [closings EXCEPT ![s] = @ + 1]
                  /\ listed' = listed \ {s}
                  /\ buffered' = [buffered EXCEPT ![s] = 0]
    BY <1>2 DEF Offer
  <2>2. hubMu' = hubMu /\ callers' = callers /\ hubMu # NoWriter
    BY <1>2 DEF Offer
  <2>3. s \in listed /\ s \in Subscribers /\ closings[s] = 0
    BY <2>1 DEF HubInv, HubTypeOK
  <2>4. CASE buffered[s] < LiveSize
    BY <2>1, <2>2, <2>3, <2>4 DEF HubInv, HubTypeOK
  <2>5. CASE ~(buffered[s] < LiveSize)
    BY <2>1, <2>2, <2>3, <2>5 DEF HubInv, HubTypeOK
  <2> QED
    BY <2>4, <2>5
<1>3. ASSUME NEW w \in Writers, Announced(w)
      PROVE  HubInv'
  BY <1>3 DEF Announced, HubInv, HubTypeOK
<1>4. ASSUME NEW s \in Subscribers, Join(s)
      PROVE  HubInv'
  BY <1>4 DEF Join, HubInv, HubTypeOK, Callers
<1>5. ASSUME NEW s \in Subscribers, TakeLive(s)
      PROVE  HubInv'
  BY <1>5 DEF TakeLive, HubInv, HubTypeOK
<1>6. ASSUME NEW s \in Subscribers, CancelLive(s)
      PROVE  HubInv'
  <2>1. todo' = {} /\ hubMu' = hubMu /\ listed' = listed \ {s}
    BY <1>6 DEF CancelLive, HubInv
  <2>2. \A r \in Subscribers : closings'[r] \in Nat /\ closings'[r] <= 1 /\ (r \in listed' => closings'[r] = 0)
    BY <1>6, <2>1 DEF CancelLive, HubInv, HubTypeOK
  <2>3. /\ closings' \in [Subscribers -> Nat]
        /\ callers' \in [Subscribers -> 0 .. Callers]
        /\ buffered' \in [Subscribers -> 0 .. LiveSize]
    BY <1>6 DEF CancelLive, HubInv, HubTypeOK, Callers
  <2> QED
    BY <2>1, <2>2, <2>3 DEF HubInv, HubTypeOK
<1>7. CASE HubCrash
  BY <1>7 DEF HubCrash, HubInv, HubTypeOK, Unused, Callers
<1>8. CASE UNCHANGED liveVars
  BY <1>8 DEF HubInv, HubTypeOK
<1> QED
  BY <1>1, <1>2, <1>3, <1>4, <1>5, <1>6, <1>7, <1>8
     DEF HubNext, Writes, Broadcasts, StoreAside, hubVars

\* However drops, ending streams and cleanups interleave, with any number of
\* subscriptions and writers: no live channel is closed twice, and the loop of
\* Broadcast sends to none that is closed.
THEOREM NoChannelClosesTwice == HubSpec => []ClosedOnce
<1>1. HubInv => ClosedOnce
  BY DEF HubInv, HubTypeOK, ClosedOnce
<1> QED
  BY <1>1, HubInitial, HubStep, PTL DEF HubSpec

\* The store takes no step under the hub that it would not take alone.
LEMMA HubStepsStore == [HubNext]_hubVars => [Next]_vars
  BY DEF HubNext, Writes, Broadcasts, LockHub, Offer, Announced, StoreAside, Join, TakeLive,
         CancelLive, HubCrash, hubVars, Next, SteadyNext, Persist, PruneStep

LEMMA HubHasStore == HubSpec => Spec
<1>1. HubInit => Init
  BY DEF HubInit
<1> QED
  BY <1>1, HubStepsStore, PTL DEF HubSpec, Spec

\* With the loop of Broadcast taken apart under both mutexes, the store still is the
\* log of the endpoint, for which a broadcast is one step.
THEOREM HubKeepsTheLog ==
    ASSUME PowerFails = FALSE
    PROVE  HubSpec => ImplementsLog /\ BroadcastAscending
  BY HubHasStore, StoreImplementsLog, BroadcastsAscend, PTL

-----------------------------------------------------------------------------
(* From the labeler to the client: the relay and the subscriptions are run on *)
(* one store, so a behaviour of the whole is one of both specifications.      *)

\* Every row made of a frame was minted by the store.
AllMinted == \A m \in made : m.row \in minted

\* A commit has one writer, and what is minted stays that.
LEMMA OneWriterCommits ==
    ASSUME NEW i \in Writers, CommitTx(i), [RelayNext]_relayVars, DbInv
    PROVE  minted' = minted \cup {row[i]}
<1>1. wpc[i] = "encoded" /\ wpc'[i] = "committed" /\ mu = i
  BY DEF CommitTx, DbInv, TypeOK
<1>2. ASSUME NEW w \in Writers, CommitTx(w)
      PROVE  w = i
  BY <1>1, <1>2 DEF CommitTx, DbInv, TypeOK
<1>3. \A w \in Writers : ~Air(w)
  BY <1>1 DEF Air, Release, DbInv, TypeOK
<1>4. ~StoreAlone
  BY <1>1 DEF StoreAlone, PruneStep, Call, Lock, Insert, Encode, PersistFails, Release, PruneTick,
              PruneBatch, PruneFails, ClockAdvances, ClockStepsBack, writerVars, DbInv, TypeOK
<1>5. ~RelayCrash /\ wpc' # wpc
  BY <1>1 DEF RelayCrash, Crash, Die
<1> QED
  BY <1>2, <1>3, <1>4, <1>5 DEF RelayNext, CommitMints, AirToHub, EndpointAlone, relayVars, vars, writerVars

LEMMA AllMintedStep ==
    ASSUME PowerFails = FALSE, AllMinted, DbInv, [RelayNext]_relayVars, [IngestNext]_ingestVars
    PROVE  AllMinted'
<1>1. minted \subseteq minted'
  BY RowsComeAndGo
<1>2. ASSUME NEW i \in Ids, Commits(i)
      PROVE  AllMinted'
  <2>1. row[i] \in minted'
    BY <1>2, IdsWrite, OneWriterCommits DEF Commits
  <2> QED
    BY <1>1, <1>2, <2>1 DEF AllMinted, Commits
<1>3. ASSUME made' = made
      PROVE  AllMinted'
  BY <1>1, <1>3 DEF AllMinted
<1>4. ~IngestPowerLoss
  BY DEF IngestPowerLoss, PowerLoss
<1> QED
  BY <1>2, <1>3, <1>4 DEF IngestNext, Calls, PersistErrs, SubAlone, UpstreamAlone, StoreWorks, Clock,
                          IngestSync, IngestCrash, ingestVars, madeVars

LEMMA AllAreMinted ==
    ASSUME PowerFails = FALSE
    PROVE  RelaySpec /\ IngestSpec => []AllMinted
<1>1. IngestInit => AllMinted
  BY DEF IngestInit, AllMinted
<1>2. AllMinted /\ DbInv /\ [RelayNext]_relayVars /\ [IngestNext]_ingestVars => AllMinted'
  BY AllMintedStep
<1>3. RelaySpec => []DbInv
  BY RelayHasStore, DbInvariant, PTL
<1> QED
  BY <1>1, <1>2, <1>3, PTL DEF RelaySpec, IngestSpec

\* The client has this row, unless it is no longer owed to it: older than the window,
\* or from before the client's first position.
Has(c, e) == e.ts >= now - Window /\ origin[c] < e.seq => e.seq \in got[c]

\* Each frame the cursor of the labeler has passed was refused by the policy, or there
\* is a row of it that every client has which has gone past it.
LabelsReachConsumers ==
    \A f \in base + 1 .. upCursor : f \notin refused =>
        \E m \in made : m.of = f /\ \A c \in Consumers : m.row.seq <= pos[c] => Has(c, m.row)

\* A client that has gone past a row of a frame has, of each frame before it, a row
\* with no higher number: it sees a label before its negation.
LabelsArriveInOrder ==
    \A c \in Consumers : \A m \in made : m.row.seq <= pos[c] =>
        \A f \in base + 1 .. m.of : f \notin refused =>
            \E k \in made : k.of = f /\ k.row.seq <= m.row.seq /\ Has(c, k.row)

\* Each frame a labeler published, up to the cursor that is stored for it, reaches every
\* client that stays within the window, through cancelled and overlapping subscriptions,
\* failing and rolled back writes, prune passes, drops, reconnections and crashes.
THEOREM EveryLabelReachesConsumers ==
    ASSUME PowerFails = FALSE, ClockSteps = FALSE
    PROVE  RelaySpec /\ IngestSpec => []LabelsReachConsumers
<1>1. CursorIsStored /\ AllMinted /\ YoungIsNotMissed => LabelsReachConsumers
  BY DEF CursorIsStored, AllMinted, YoungIsNotMissed, LabelsReachConsumers, Has
<1> QED
  BY <1>1, CursorNeverLies, AllAreMinted, NoYoungEventIsMissed, PTL

\* And in the order in which the labeler published them.
THEOREM EveryLabelArrivesInOrder ==
    ASSUME PowerFails = FALSE, ClockSteps = FALSE
    PROVE  RelaySpec /\ IngestSpec => []LabelsArriveInOrder
<1>1. ASSUME KeepsUpstreamOrder, AllMinted, YoungIsNotMissed, Endpoint!SubInv, DbInv, IngestInv
      PROVE  LabelsArriveInOrder
  <2> SUFFICES ASSUME NEW c \in Consumers, NEW m \in made, m.row.seq <= pos[c],
                      NEW f \in base + 1 .. m.of, f \notin refused
               PROVE  \E k \in made : k.of = f /\ k.row.seq <= m.row.seq /\ Has(c, k.row)
    BY DEF LabelsArriveInOrder
  <2>1. PICK k \in made : k.of = f /\ k.row.seq <= m.row.seq
    BY <1>1 DEF KeepsUpstreamOrder, Ordered
  <2>2. k.row.seq \in Nat /\ m.row.seq \in Nat /\ pos[c] \in Int
    BY <1>1, EndpointAssumptions
       DEF IngestInv, Tallies, Row, Endpoint!SubInv, Endpoint!SubTypeOK, Endpoint!NoCursor
  <2>3. k.row.seq <= pos[c]
    BY <2>1, <2>2
  <2>4. Has(c, k.row)
    BY <1>1, <2>3 DEF AllMinted, YoungIsNotMissed, Has
  <2> QED
    BY <2>1, <2>4
<1>2. KeepsUpstreamOrder /\ AllMinted /\ YoungIsNotMissed /\ Endpoint!SubInv /\ DbInv /\ IngestInv
         => LabelsArriveInOrder
  BY <1>1
<1>3. RelaySpec => []DbInv
  BY RelayHasStore, DbInvariant, PTL
<1> QED
  BY <1>2, <1>3, OrderIsKept, AllAreMinted, NoYoungEventIsMissed, EndpointIsHealthy, IngestInvariant, PTL
=============================================================================
