--------------------------------- MODULE Hub ---------------------------------
(***************************************************************************)
(* internal/server/hub.go as the broadcaster of PersistIngest: a writer    *)
(* that has committed takes the mutex of the hub under its own and offers  *)
(* the event to one live channel after the other, while consumers          *)
(* subscribe, receive and cancel, or do nothing for ever.                  *)
(*                                                                         *)
(* Here are the two mutexes and the life of the channels, whose events are *)
(* only counted; what a consumer makes of the events is in Seam, where a   *)
(* broadcast is one step.                                                  *)
(***************************************************************************)
EXTENDS LabelPersist

CONSTANTS
    Subscribers,  \* calls of StreamFrom, one connection after the other for each
    LiveSize      \* capacity of a live channel

ASSUME LiveSizeAssumption == LiveSize \in Nat \ {0}

VARIABLES
    hubMu,     \* the writer whose Broadcast holds Hub.mu, or NoWriter
    todo,      \* the subscriptions its loop has yet to visit
    listed,    \* Hub.subs
    buffered,  \* the number of events in each live channel that is not closed
    closings,  \* history: how often each live channel was closed
    callers    \* how many have yet to call the function that Subscribe returned

liveVars == <<hubMu, todo, listed, buffered, closings, callers>>
hubVars == <<vars, liveVars>>

Callers == 2  \* the stream when it returns, and cleanup

Unused == [s \in Subscribers |-> 0]

HubInit ==
    /\ Init
    /\ hubMu = NoWriter /\ todo = {} /\ listed = {}
    /\ buffered = Unused /\ closings = Unused /\ callers = Unused

-----------------------------------------------------------------------------
(* Broadcast, on the goroutine of the writer *)

\* h.mu.Lock(), and the loop begins.
LockHub(w) ==
    /\ wpc[w] = "committed"
    /\ hubMu = NoWriter
    /\ hubMu' = w
    /\ todo' = listed
    /\ UNCHANGED <<vars, listed, buffered, closings, callers>>

\* Fault: the send has no default case.
OfferBlocking(w) ==
    /\ hubMu = w
    /\ \E s \in todo :
          /\ buffered[s] < LiveSize
          /\ todo' = todo \ {s}
          /\ buffered' = [buffered EXCEPT ![s] = @ + 1]
    /\ UNCHANGED <<vars, hubMu, listed, closings, callers>>

\* The next subscription, in any order: the event goes into its channel, or the
\* channel is full, is closed and forgotten.
Offer(w) ==
    /\ hubMu = w
    /\ \E s \in todo :
          /\ todo' = todo \ {s}
          /\ IF buffered[s] < LiveSize
             THEN /\ buffered' = [buffered EXCEPT ![s] = @ + 1]
                  /\ UNCHANGED <<listed, closings>>
             ELSE /\ closings' = [closings EXCEPT ![s] = @ + 1]
                  /\ listed' = listed \ {s}
                  /\ buffered' = [buffered EXCEPT ![s] = 0]
    /\ UNCHANGED <<vars, hubMu, callers>>

\* The loop is over: both mutexes are released.
Announced(w) ==
    /\ hubMu = w
    /\ todo = {}
    /\ Air(w)
    /\ hubMu' = NoWriter
    /\ UNCHANGED <<todo, listed, buffered, closings, callers>>

-----------------------------------------------------------------------------
(* Consumers *)

\* Subscribe, for a connection whose predecessor is gone: a new number, a new channel.
Join(s) ==
    /\ hubMu = NoWriter
    /\ callers[s] = 0
    /\ callers' = [callers EXCEPT ![s] = Callers]
    /\ listed' = listed \cup {s}
    /\ closings' = [closings EXCEPT ![s] = 0]
    /\ UNCHANGED <<vars, hubMu, todo, buffered>>

\* The stream or its drainer receives an event; nothing makes it.
TakeLive(s) ==
    /\ s \in listed
    /\ buffered[s] > 0
    /\ buffered' = [buffered EXCEPT ![s] = @ - 1]
    /\ UNCHANGED <<vars, hubMu, todo, listed, closings, callers>>

\* Fault: the subscription is not looked up before its channel is closed.
CancelBlindly(s) ==
    /\ hubMu = NoWriter
    /\ callers[s] > 0
    /\ callers' = [callers EXCEPT ![s] = @ - 1]
    /\ listed' = listed \ {s}
    /\ closings' = [closings EXCEPT ![s] = @ + 1]
    /\ buffered' = [buffered EXCEPT ![s] = 0]
    /\ UNCHANGED <<vars, hubMu, todo>>

\* cancel, called by the stream when it returns and by cleanup: a subscription
\* that Broadcast or the other caller has removed is left alone.
CancelLive(s) ==
    /\ hubMu = NoWriter
    /\ callers[s] > 0
    /\ callers' = [callers EXCEPT ![s] = @ - 1]
    /\ listed' = listed \ {s}
    /\ closings' = IF s \in listed THEN [closings EXCEPT ![s] = @ + 1] ELSE closings
    /\ buffered' = [buffered EXCEPT ![s] = 0]
    /\ UNCHANGED <<vars, hubMu, todo>>

-----------------------------------------------------------------------------
\* The steps of PersistIngest before its commit, and its failures.
Writes(w) ==
    /\ Insert(w) \/ Encode(w) \/ CommitTx(w) \/ PersistFails(w)
    /\ UNCHANGED liveVars

Broadcasts(w) == LockHub(w) \/ Offer(w) \/ Announced(w)

StoreAside ==
    /\ \/ \E w \in Writers : Call(w) \/ Lock(w)
       \/ PruneTick \/ PruneStep
       \/ ClockAdvances
    /\ UNCHANGED liveVars

\* The hub begins anew with the process.
HubCrash ==
    /\ Crash
    /\ hubMu' = NoWriter /\ todo' = {} /\ listed' = {}
    /\ buffered' = Unused /\ closings' = Unused /\ callers' = Unused

HubNext ==
    \/ \E w \in Writers : Writes(w) \/ Broadcasts(w)
    \/ StoreAside
    \/ \E s \in Subscribers : Join(s) \/ TakeLive(s) \/ CancelLive(s)
    \/ HubCrash

\* Writers and the prune job run as the scheduler, the mutex and busy_timeout
\* make them; no consumer has to do anything, nor to call PersistIngest.
HubSpec ==
    /\ HubInit /\ [][HubNext]_hubVars
    /\ \A w \in Writers : WF_hubVars(Writes(w) \/ Broadcasts(w)) /\ SF_hubVars(Lock(w) /\ UNCHANGED liveVars)
    /\ WF_hubVars(PruneStep /\ UNCHANGED liveVars)

-----------------------------------------------------------------------------
(* Correctness *)

HubTypeOK ==
    /\ hubMu \in Writers \cup {NoWriter}
    /\ todo \subseteq listed /\ listed \subseteq Subscribers
    /\ buffered \in [Subscribers -> 0 .. LiveSize]
    /\ closings \in [Subscribers -> Nat]
    /\ callers \in [Subscribers -> 0 .. Callers]

\* However a drop by Broadcast, the end of the stream and cleanup come together, a
\* live channel is closed once, and none that Broadcast is about to send to is
\* closed: either would panic under both mutexes.
ClosedOnce ==
    /\ \A s \in Subscribers : closings[s] <= 1
    /\ \A s \in todo : closings[s] = 0

\* Every call of PersistIngest returns, whoever else calls it and fails, and
\* whatever the consumers leave undone (hub.go: Broadcast MUST be non-blocking).
PersistReturns == \A w \in Writers : wpc[w] # "idle" ~> wpc[w] = "idle"
=============================================================================
