-------------------------------- MODULE Relay --------------------------------
(***************************************************************************)
(* The relay of cmd/labeler-relay/main.go: the store of LabelPersist, with *)
(* the hub as its broadcaster, under the subscribe endpoint of Subscribe.  *)
(* The two meet in three places: PersistIngest calls Hub.Broadcast between *)
(* its commit and its unlock, StreamFrom and CursorStatus query the table  *)
(* while transactions and prune batches come and go, and a crash ends them *)
(* together.                                                               *)
(*                                                                         *)
(* Power losses are left out: they take back what consumers have received. *)
(*                                                                         *)
(* The two modules with proofs are used here for what they extend; their   *)
(* theorems are cited in RelayProofs.                                      *)
(***************************************************************************)
EXTENDS LabelPersistProofs

CONSTANTS Consumers, BufSize, ReadsFail   \* as in Seam

ASSUME EndpointAssumption == BufSize \in Nat \ {0} /\ ReadsFail \in BOOLEAN

VARIABLES
    pc, phase, since, cursor, chunk, n, held, drainer, \* of Seam
    sub, dropped, live, sent, taken, wrote, handler,
    req, asked, readHead, start, told,                 \* of Subscribe
    pos, origin, got,
    minted    \* history: the rows ever committed

\* The endpoint sees the rows of the table and the highest number; what PersistIngest
\* has committed and not announced it cannot tell from other rows.
Endpoint == INSTANCE SubscribeProofs WITH lastSeq <- seqHigh, rows <- SeqsOf(events),
                                          unsent <- Unsent

clientVars == <<req, asked, readHead, start, told, pos, origin, got>>
endpointVars == <<pc, phase, since, cursor, chunk, n, held, drainer, sub, dropped, live, sent,
                  taken, wrote, handler, clientVars>>
relayVars == <<vars, endpointVars, minted>>

RelayInit ==
    /\ Init
    /\ Endpoint!SubInit
    /\ minted = {}

\* Fault: nobody called SetBroadcaster.
AirUnheard(w) ==
    /\ Air(w)
    /\ UNCHANGED <<endpointVars, minted>>

\* SetBroadcaster: the announcement goes to the hub, on the writer's goroutine.
AirToHub(w) ==
    /\ Air(w)
    /\ Endpoint!Broadcast
    /\ UNCHANGED <<clientVars, minted>>

CommitMints(w) ==
    /\ CommitTx(w)
    /\ minted' = minted \cup {row[w]}
    /\ UNCHANGED endpointVars

\* What the store does on its own.
StoreAlone ==
    /\ \/ \E w \in Writers : Call(w) \/ Lock(w) \/ Insert(w) \/ Encode(w) \/ PersistFails(w)
       \/ PruneTick \/ PruneStep
       \/ ClockAdvances \/ ClockStepsBack
    /\ UNCHANGED <<endpointVars, minted>>

\* What a connection does on its own.
EndpointAlone(c) ==
    /\ UNCHANGED <<vars, minted>>
    /\ \/ Endpoint!Connect(c) \/ Endpoint!Eval(c)
       \/ (Endpoint!Stream(c) \/ Endpoint!Drainer(c)) /\ UNCHANGED clientVars
       \/ Endpoint!SubHandler(c)

RelayCrash ==
    /\ Crash
    /\ Endpoint!SubCrash
    /\ UNCHANGED minted

RelayNext ==
    \/ \E w \in Writers : CommitMints(w) \/ AirToHub(w)
    \/ StoreAlone
    \/ \E c \in Consumers : EndpointAlone(c)
    \/ RelayCrash

RelaySpec == RelayInit /\ [][RelayNext]_relayVars

-----------------------------------------------------------------------------
(* Correctness *)

\* The whole is a subscribe endpoint on the abstract log, as Subscribe has it.
ImplementsEndpoint == Endpoint!SubSpec

\* ConsumerTooSlow is said only to a consumer that Broadcast dropped, as in Seam.
TooSlowIsGenuine == Endpoint!TooSlowIsGenuine

\* An event younger than the retention window is missed by no client that has gone
\* past it: however often it reconnected, was dropped or outlived a crash, and
\* whatever was pruned between the queries made for it.
YoungIsNotMissed ==
    \A c \in Consumers : \A e \in minted :
        e.ts >= now - Window /\ origin[c] < e.seq /\ e.seq <= pos[c] => e.seq \in got[c]

\* What a client lacks is below the retention floor: from the oldest event that is
\* left, it has all there ever was up to its position.
HolesAreBelowFloor ==
    \A c \in Consumers : \A e \in events : \A s \in e.seq .. pos[c] :
        origin[c] < s => s \in got[c]
=============================================================================
