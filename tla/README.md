# A verified model of labeler-relay

labeler-relay subscribes to many atproto labelers, mints one global `relay_seq`
for everything they emit, stores the events in SQLite and fans them out to
WebSocket consumers who may resume from any retained cursor. This directory
holds TLA+ models of its core, the TLC runs that check them on small instances,
and TLAPS proofs of the properties that matter most for instances of any size.

## 1. The system

| component | source | state it keeps | operations |
|---|---|---|---|
| event log | `internal/store/persist.go`, `prunejob.go`, `store.go`, `schema.sql` | table `events` (relay_seq, frame, ingest_ts), `sqlite_sequence`, the persist mutex | `PersistIngest`, `PlaybackFramesChunk`, `Head`, `RetentionFloor`, `CursorStatus`, `Prune`, the prune ticker |
| hub | `internal/server/hub.go` | the mutex, one bounded channel per subscriber | `Subscribe`, `Broadcast`, cancel |
| consumer stream | `internal/server/seam.go` | per connection: phase, cursor, live and out channels, a drainer goroutine, `streamCtx` | `StreamFrom` (four phases), cleanup |
| subscribe endpoint | `internal/server/subscribe.go` | the connection | cursor evaluation, write loop, control frames |
| labeler registry | `internal/store/registry.go` | table `labelers` (endpoint, source, enabled, require_sig, last_upstream_seq, last_error) | `Upsert`, `SetEnabled`, `SetRequireSig`, `RecordError`, `ReadCursor`, `WriteCursor`, lists |
| slurper | `internal/slurper/slurper.go`, `policy.go` | the map of active subscriptions, a poke channel of capacity 1 | `Reconcile`, `Poke`, `Run`, `Shutdown` |
| upstream subscription | `internal/slurper/subscription.go`, `internal/backoff` | a connection, the backoff delay | dial, handle frame (limit, filter, persist, write cursor), redial |
| rate limiter | `internal/slurper/ratelimit.go` | two sliding windows per subscription, kept over its redials | `Wait`, which polls |
| firehose watcher | `internal/firehose/*` | pending cursor, commit count, `meta.firehose_cursor` | dial, handle commit, batched and deferred flush |
| admin API | `internal/admin/*` | none of its own | registry calls, poke |
| wiring | `cmd/labeler-relay/main.go` | the errgroup | start, shutdown |

How they interact: subscriptions and the watcher call `PersistIngest`
concurrently; it commits under its mutex and calls `Hub.Broadcast` before it
unlocks, so the hub must never block. `StreamFrom` reads the database without
that mutex, in as many queries as it needs, while commits, prune batches and
broadcasts go on. Admin handlers, the watcher and the subscriptions all write
rows of `labelers` and poke the slurper, which reconciles from a snapshot of it.

What is hard about it: the junction of backfill and live tail (events on both
sides, on either, or dropped by the drainer), the full buffer that ends a
subscription in the middle of a backfill, cancellation at any step, prune
batches between any two queries, the crash between commit and broadcast, the
wall clock that decides what expires; and on the side of the upstreams the
at-least-once resume, overlapping subscriptions of one labeler, reconciliation
from a stale snapshot, signals that collapse, a shutdown beside a reconcile, a
limiter whose polls spend what they wait for, and the batched firehose cursor.
`PROJECT.json` lists these hazards line by line with the properties that cover them.

## 2. Modules

| module | role |
|---|---|
| `RelayLog` | what the store promises: one log, numbers minted in order, at most one committed event not yet announced, rows that expire, restarts |
| `LabelPersist` | the store as it is: mutex, transaction, placeholder and frame, prune batches, clock, process crash, power loss; implements `RelayLog` |
| `LabelPersistProofs` | TLAPS proofs about it, with its inductive invariants `DbInv`, `KeyInv` and `AgeInv` |
| `Hub` | the hub as the broadcaster of `LabelPersist`: the mutex of the hub inside that of the store, the loop of `Broadcast` one channel at a time, consumers that subscribe, receive, cancel twice or do nothing |
| `Seam` | `StreamFrom`, the hub, the drainer, the write loop and the cleanup of each consumer, on top of `RelayLog` |
| `SeamProofs` | TLAPS proofs about it, with its inductive invariant `SeamInv` |
| `Subscribe` | the cursor evaluation and a client that reconnects for ever, on top of `Seam` |
| `SubscribeProofs` | TLAPS proofs about it, with its inductive invariant `SubInv` |
| `Relay` | `LabelPersist` under `Subscribe`, joined as `main.go` joins them: the hub is the store's broadcaster, the endpoint reads its table, a crash ends both |
| `Upstream` | the subscriptions of one labeler, one started after the other and overlapping: dial, frame, policy, persist, cursor, redial, crash, power loss; implements `AtLeastOnce` |
| `AtLeastOnce` | what a reader with a stored bookmark promises of a numbered stream: whatever the bookmark has passed was dealt with, across failures, crashes and, if the machine may, power losses |
| `UpstreamProofs` | TLAPS proofs about `Upstream`, with its inductive invariant `UpInv` |
| `Ingest` | `Upstream` on `LabelPersist`: the subscriptions of one labeler are writers of the store and keep their cursor in its file, beside other writers, the prune job, the clock, crashes and power losses |
| `RelayProofs` | TLAPS proofs about `Relay`, `Ingest` and `Hub`: the whole implements the endpoint on the abstract log, what a client may miss, that the upstream cursor never claims more than the log holds, both together, from the labeler to the client, and that no live channel is closed twice |
| `Pacing` | the limiter's two windows and its polling, with the redial loop and the backoff of the subscription it belongs to |
| `PacingProofs` | TLAPS proofs about it, with its inductive invariants `PaceInv`, `SecondInv` and `PatienceInv` |
| `Registry` | the statements on table `labelers` as functions of the table |
| `Slurper` | `Reconcile` and its two callers, pokes, ticker, admin handlers, the discovery's writes, the goroutines of all labelers, shutdown, store close, restart |
| `SlurperProofs` | TLAPS proofs about it, with its inductive invariant `SlInv` |
| `Firehose` | the watcher: commits with any number of service records, failures, staged cursor, batched and deferred flush, redial, cancellation, crash; implements `AtLeastOnce` |
| `FirehoseProofs` | TLAPS proofs about it, with its inductive invariant `FhInv` |
| `MCHub`, `MCSeam`, `MCSubscribe`, `MCRelay`, `MCIngest`, `MCUpstream`, `MCSlurper`, `MCFirehose`, `MCPacing` | the instances TLC checks |

How the modules fit together: `Subscribe` extends `Seam`, which extends
`RelayLog`; `LabelPersist` implements `RelayLog`. `Relay` puts the two together
without the abstraction: `Endpoint` is `Subscribe` with its log replaced by the table, the
counter and the unannounced row of `LabelPersist`; the store and the endpoint move each on its
own, except that `Air` of a writer is `Broadcast` of the hub and that they crash together.
`ImplementsEndpoint` says that this is the endpoint on the abstract log, so what `Seam` and
`Subscribe` show holds of the store as it is, power losses excepted. `Hub` extends `LabelPersist` too and
takes `Air` apart, which `Seam` and `Relay` have as one step: the writer locks the hub, offers the event to one
channel after the other and unlocks both. It has nothing of the streams but the number of events in
their live channels. `Slurper` extends `Registry` and
decides which subscriptions run; `Upstream` looks inside the state `busy` of such
a subscription and takes from `Slurper` only that `Reconcile` starts one after the
other and cancels the old one without waiting (`OneSubscription`). `Firehose` has
the cursor of discovery, while its writes to the registry and its pokes are actions
of `Slurper`. The log `Upstream` and `Firehose` write to is that of `LabelPersist`,
where each of them is a writer; they keep only which frames were committed.
`Ingest` undoes this abstraction for the subscriptions: `Subs` is `Upstream` with its
state beside that of the store, where subscription `i` is the writer `i`. `BeginPersist` is
the `Call` of the writer, `Persist` its `CommitTx`, and the subscription stands still until
`PersistIngest` has returned; its failure is `PersistFails`; syncs, crashes and power losses
take both tables at once. `made` remembers which row was made of which frame.
`Relay` and `Ingest` share the store and nothing else, so the program from the labelers to the
clients is their conjunction, `RelaySpec /\ IngestSpec`; the last theorems are about it.
`Pacing` is the time inside `Upstream`: how long a label takes to get through
`BeginPersist` and how long `top` waits for the next dial.

Both readers of a foreign stream make one promise, `AtLeastOnce`: the bookmark is
never ahead of what was dealt with since a reader last started without one. Every frame
of a labeler matters, and is dealt with when it is recorded or the policy keeps
nothing of it; a commit matters if it holds service records, and is dealt with when
each was tried, or when a connection that could not read the cursor has skipped it. They differ in three constants. The subscriptions of a labeler overlap
and may move the bookmark back (`Sole` is false) and share a file with the log, so
that a power loss rewinds both (`MayRewind`); the watcher is alone, and may fail to
read its bookmark, which gives up the commits between it and the head, and no others
(`MayForget`). The mappings, `Promise`, are at the end of `Upstream` and
`Firehose`.

Some definitions begin with the word Fault in their comment: each is a plausible
mistake in the definition after it, none is used by a specification. Put in the
place of the right definition they break a property, which shows that the
property can see the mistake.

### State and actions against the code

*LabelPersist.* `mu` is `LabelPersist.mu`; a writer (`wpc`) walks
`Call, Lock, Insert, Encode, CommitTx, Air`, the statements of `PersistIngest`
that another goroutine or a crash can separate; every early return is
`PersistFails`, whose deferred `Unlock` and `Rollback` are part of the action.
The row being written is visible to nobody before `CommitTx`; a frame is
abstracted to the relay_seq it embeds (0 for the placeholder). SQLite's write
lock is the conjunct `~TxOpen`. The prune job computes its cutoff in `PruneTick`
and deletes in `PruneBatch`; the subquery has no ORDER BY, and the order is that
of the index that serves it, `Before`.

*Hub.* `hubMu` is `Hub.mu` while `Broadcast` holds it; `Subscribe` and cancel, which hold it
for a few statements, are one step each and wait while it is held. `LockHub`, `Offer` (once for each of `todo`, in
any order, as Go ranges over a map) and `Announced` are `Broadcast`, on the goroutine of the
writer, whose persist mutex is free again only after `Announced`. `listed` is `Hub.subs`; a subscription
that stays listed keeps the number of events in its channel (`buffered`). `callers` counts who has
yet to call cancel: the deferred call of the stream and that of cleanup. Once both have, the
same element of `Subscribers` stands for the next connection.

*Seam.* `pc` is the point of the stream goroutine: `head` (before `p.Head`),
`read` (before a playback query), `push` (inside its callback), `stop` (between
phases 2 and 3, waiting for the drainer), `abort` (waiting for it before a
return), `live` and `deliver` (phase 4), `end`. `phase` tells which of the three
loops `read` and `push` belong to. A query fixes its snapshot when it runs
(`ReadChunk`), then delivers row by row (`Push`), each of which may block on
`out`. The channel `out` is kept as history (`sent`, with `taken` and `wrote`
counting what the handler took and wrote), so that what the client received is
a function of the state. `select` with several ready cases is a choice. A
consumer that finished returns to `idle` and may connect again.

*Subscribe.* Each query of the evaluation is a step. A client carries the last
relay_seq it received from one connection to the next, as atproto consumers do.

*Relay.* The variables are those of `LabelPersist` and `Subscribe`, and `minted`, the rows
ever committed. The rows the endpoint sees are the relay_seqs of the committed rows, by the
same mapping as in `ImplementsLog`; that there is an event not yet announced it cannot tell.
Left out of `RelayNext` are the power loss, which takes back what consumers were sent, and
`Sync`, which only a power loss looks at.

*Upstream.* `pc` of a subscription: `top` (loop head of `run`), `dial` (cursor
read, handshake under way), `stream` (in `HandleRepoStream`), `frame`
(in `handleLabelLabels`, before `PersistIngest`), `commit` (its transaction in
flight), `recorded`, `write` (`WriteCursor` in flight), `none`. A call that begins
needs a context alive (`Alive`); one in flight may take effect after the
cancellation, which is why `Persist` and `WriteCursor` do not ask. All errors
share `Fail`, since each makes `dial` return and `run` back off. The limiter lets
a frame through or fails. `Start` is what `Reconcile` does to one labeler:
the new context is the only one alive, the old goroutine is not waited for.
Events and cursor live in one SQLite file, so a power loss cuts the WAL at one
point for both (`synced`).

*Pacing.* `pc` is `top` (loop head of `run`), `open` (in `dial`), `wait` (before the
two `Allow` of `Wait`), `pause` (its 10 ms), `sleep` (the backoff) or `gone`. A label
asks the second first, and the hour only if the second allows; `Refuse` spends the
permit of the second that the hour then refuses (`Waste`). `second` and `hour` are
the windows of the sliding-window library as the code uses it: the events of the
current window and of the previous one, which counts by what it still overlaps.
Time is kept only as the phase within the hour, the age of the connection, and
what is left of a sleep. A redial keeps the limiter. The two looks at the context in
`Wait` are `GivesUp`; `Pass` does not look, as in the code. `Sleeps` is `NextMs`,
the jitter and the cap on the sum.

*Slurper.* `rpc` has one entry for each of the two callers of `Reconcile`:
`due`, `listed` (rows read, mutex not yet taken), `idle` or `over`. `Lists` is the
query before the mutex, `Applies` everything under it. A goroutine is a slot with
its configuration, its context and `top`, `busy` or `gone`; `Applies` cancels
without waiting, so the slot of an old goroutine stays taken until it exits. An
admin handler is two steps, the write and the poke; so is a discovery. `GoesDown`
is the cancelled context of the errgroup, which leaves `root` alive until
`Shutdown`; `Finished` is `g.Wait`. `Restart` is a crash or a normal end followed
by a start: only `rows` survive.

*Firehose.* `pc` walks `top, dial, stream`, for a commit `resolve, upsert,
persist` for each of its service records, then `stage` and maybe `flush`, and
`close` for the deferred function of `dial`. `pending` and `count` are
`pendingSeq` and `commitCount`; the time since the last flush is the free choice
in `Stage`. `Failures` names the calls that may fail for reasons of their own;
every call fails once the context is cancelled, except the deferred flush, which
has its own. `blind` marks a connection that starts at the head because the stored cursor could not be read, and
`unread` what such connections have skipped and nobody has handled since: those commits were not
tried, and the properties name them apart (`Accounted`, `Passable`).

### Left out of these modules

Frame contents, headers and logging; gauges and callbacks for metrics; the
cursor that does not parse (the connection closes before anything happens); the
WebSocket upgrade; `PlaybackFrames`, which only tests call. The limiter is kept in
memory: a subscription that is replaced, and a restarted relay, begin with fresh
windows, so `BudgetIsKept` is about one subscription. The firehose watcher has the
redial loop of `Pacing` without a limiter.

## 3. Runs

| run | instance | shows |
|---|---|---|
| `seam` | one consumer, buffers of 1, three events, read errors | `InOrder`, `NoGap`, `NoLeak`, `Delivered`, `ConnectionEnds` |
| `relay` | one writer, one client, buffers of 1, two events, one step of the clock, no read errors | `YoungIsNotMissed`, `ImplementsEndpoint`, `TooSlowIsGenuine` |
| `subscribe` | one client, buffers of 2, three events, read errors | `SubTypeOK`, `ResumesWithoutGap`, `OutdatedIsTrue`, `NeverAgain` |
| `persist` | two writers, four events, one step of the clock, batches of 2, two subscriptions with live channels of 1 | `ContiguousRetention`, `BroadcastAscending`, `ImplementsLog`, `PersistReturns`, `ClosedOnce` |
| `ingest` | two subscriptions as the writers, two frames, two events, power losses, one step of the clock and back | `FrameCarriesSeq`, `CursorIsStored`, `KeepsUpstreamOrder` |
| `upstream` | two subscriptions, two frames with and without signatures, power losses | `OneLateFrame`, `PolicyInForce`, `NothingLost`, `ImplementsAtLeastOnce` |
| `slurper` | one labeler, one admin request at a time, one policy, two goroutines | `OneSubscription`, `PokeIsNotLost`, `OperatorDecides`, `StoreOutlives`, `Converges`, `ShutdownEnds` |
| `pacing` | seconds of two ticks, hours of three seconds, up to two labels a second and three an hour, delays from 1 to 5 | `BudgetIsKept`, `HourIsNotWasted`, `PatienceGrows`, `WaitEnds`, `CancelEnds` |
| `firehose` | three commits with two records between them or broken, batches of two, every call fails, shutdowns, crashes | `CursorPassesTheTried`, `RedialRepeatsNothing`, `ReplayIsBounded`, `EveryCommitIsDealtWith`, `ImplementsAtLeastOnce` |

Three runs end in a counterexample: there the code does not do what one of its
comments or its design document says.

| run | property | what happens |
|---|---|---|
| `readerror` | `TooSlowIsGenuine` | a failed database read closes the stream and the client is told `ConsumerTooSlow` |
| `future` | `ReturningIsNotFuture` | retention empties the table, `Head` falls to 0, a returning client is told `FutureCursor` |
| `firehose_lost` | `NothingMissed` | a graceful shutdown cancels the call that handles a commit; the failure is swallowed, the cursor staged behind the commit, and the deferred flush stores it: the labeler is never announced |

What the models also contain, without a run of its own: with a clock set back
`ContiguousRetention` fails (a later event expires before an earlier one); after a
power loss `synchronous(NORMAL)` mints an announced number again, so
`BroadcastAscending` fails; a prune batch after `CursorStatus` takes rows a
client was promised without `OutdatedCursor`; a consumer that has everything may
be dropped because phase 3 left events in its live channel; a failed read of the
firehose cursor starts the connection at the head.

### Bounds

`MaxSeq` bounds the events ever minted, `MaxTime` the clock; both are guards of
`Commit`/`Insert` and `ClockAdvances`. `BufSize` is the capacity of the live
channel, the out channel and the playback chunk, which the code gives one value.
With buffers of one and three events (`seam`), every chunk is full and may be followed
by another, both channels can be full at once with an event left over, an event can be on
both sides of the junction and a drop can happen in every phase; `subscribe` repeats
all of it with buffers of two, so that a chunk and a channel may also be half full. `relay`
has a smaller instance because it interleaves the statements of the store with those of the
stream: with two events one can be committed between two queries made for the client and one be
both in the backfill and announced, and with a window of zero one step of the clock makes
rows expire while the client reads them. One
consumer is enough for TLC because consumers share only the hub, whose loop treats
each on its own and, by `PersistReturns`, never waits; the proofs cover any number of them.

In `persist` two writers meet every contention on the mutex, and two subscriptions let `Broadcast` drop one and
serve the other in one loop. Live channels of one are full after one event that nobody receives. With
a window of zero, one step of the clock makes the rows from before it expire, up to four of them in two full
batches, so that a pass can be interrupted with the table half pruned; rows of two ages and
the largest number gone are among its states.

`ingest` has the two subscriptions as the only writers, which overlap in the mutex when the
first is cancelled; two rows for two frames, each of which may have to be recorded twice, reach
the bound of `MaxSeq` in some behaviours, and there `Insert` waits and the call fails. A power
loss, a batch of the prune job and both steps of the clock can fall between any two steps.
Writers for other labelers are in the model and in the proof; the run leaves them out, because
all they do to these subscriptions is to hold the mutex and to raise the counter.

In `Upstream`, `MaxUp` bounds the frames and `MaxSubs` the subscriptions ever
started, across crashes too. Two of each are enough for an old subscription to
record, store its cursor or fail at every point of its successor, and for a
frame to be repeated. `Stop` and a crash always leave one start in reserve, so
that the bound is never the reason why nothing runs; otherwise `NothingLost`
would be about the bound. In `Slurper`, `MaxSlots` bounds the goroutines of one
labeler at a time: `Reconcile` waits for one to end when all are taken. Two let a
cancelled one overlap with its successor, the proofs take any number. Labelers
share nothing but the list, the poke and the shutdown; one labeler exercises them,
the proofs take any set. With one policy a
running subscription is still replaced for a new endpoint, by the same comparison.
In `Firehose`, three commits and batches of two let a flush in
the middle, a flush on exit and a crash between them occur in every order, and a
connection that always breaks after one commit has somewhere left to go;
`MaxRecords` bounds the service records in all commits, so that one commit may hold two.

In `Pacing` nothing is bounded: the ages of what matters end at a window or at
`ResetAfter`, and time itself is only a phase, so the run covers any number of
hours. An hour of three seconds is enough for the larger window to refuse while the
smaller one recovers, is spent on polls, and recovers again. `HourBudget` is about the hour of the limiter's own
window, not about any sixty minutes. The limits are any in
`LimitConfig`, the smaller above the larger included. The delay doubles twice
before it reaches its maximum, and the jitter is up to a half (`JitterShare`)
instead of a tenth, to have any effect on so few ticks. A sliding window weighs its
predecessor as if its events had come evenly, so a second that begins in the middle
of one may let through up to twice the budget: `SecondBudget` says that it is no more.

Deadlock checking is off everywhere: all bounded counters end, an idle relay has
nothing to do, and a process told to stop does.

### Fairness

`Seam!FairSpec`: the writer that committed goes on to broadcast (it is running
code under a mutex it holds, and the broadcast cannot block); the stream, the
drainer and the handler of each consumer run when they can (goroutines); a
WebSocket write ends because it has a deadline, but its outcome is open, so
nothing assumes that a client reads. No fairness on commits, prune, connections
or crashes. `Hub!HubSpec`: the store while power and clock hold; weak fairness of the statements inside
the persist mutex, the loop of `Broadcast` included, and of the prune loop (a busy batch gives up after
`busy_timeout`), strong fairness of `Lock`, because `sync.Mutex` hands itself to a starving waiter. No
fairness of any consumer: none has to receive, to cancel or to connect, and `PersistReturns` holds all the same,
which is what "Broadcast MUST be non-blocking" (`hub.go`) asks for. A send without its default case
(`OfferBlocking`) and an error path that keeps the mutex (`FailsLocked`) both break it.

`Upstream!FairSpec`: goroutines run and the ticker reconciles again (weak
fairness of `Start` and `Exit`); what `run` repeats for ever succeeds in the end
(strong fairness of the successful outcome of each call, since `Fail` competes
with each). Without the latter an upstream that is down for good refutes every
liveness property. `NothingLost` starts at a cursor no failure can take back and
while no blank connection is under way: a connection without a cursor starts at
the head of the upstream, by the protocol. `Slurper!FairSpec`: goroutines run, the
ticker ticks, a query tried on every tick succeeds in the end (`SF(Lists)`), and
`Run` gets to see its cancelled context although tick and poke compete with it in
its `select`. Nobody has to send requests; `Converges` has the premise that the
registry is left alone and the process stays up. `Firehose!FairSpec`: the watcher
runs, and the handshake, the upstream's replay and the flush on exit succeed in
the end when tried again and again. `EveryCommitIsDealtWith` has the premise that
crashes end: crashing for ever between two flushes is no progress, in the code
either. It leaves out what lies behind a commit whose records cannot be extracted:
the handler drops such a commit without staging the cursor, so a connection that
breaks right after it comes back to it, again and again; the fairness assumed allows
connections that last for a single commit. And it takes a commit that a connection without a readable cursor has
skipped for dealt with: the flush of that connection passes it, and no later one comes back to it.

`Pacing!FairSpec`: the goroutine runs, and a connection ends once its context is
cancelled (`SF(Break /\ ~alive)`; strong, because a frame with more labels competes
with it). Clocks are not fair: `WaitEnds` has the premise that time goes on for ever,
and `CancelEnds` holds even if it stands still, that is, without any timer.

## 4. Proofs

All theorems hold for every set of writers or consumers and every value of the
bounds, buffer and batch sizes, from the constants' assumptions in the modules. What a
theorem assumes beyond them is in its ASSUME: `PowerFails`, `ClockSteps` and
`ReadsFail` say whether the machine may lose power, the clock be set back and a read fail.

*The store* (`LabelPersistProofs`). `DbInv` needs no restriction: the writer in the
mutex holds the next number, and the rows are numbered by the counter, each once
(`Numbered`). A power loss replaces table and counter by what was synced, so the
invariant says the same of that part. It gives `TypeCorrect`, with the mutual
exclusion of the mutex, and `NumbersAreUnique`: numbers are given out again after a
power loss, but the rows that had them are gone. `KeyInv` adds that the counter is
not below the last broadcast, and above it between commit and broadcast, which a power loss
breaks; it gives `BroadcastsAscend`. `AgeInv` adds that relay_seq and ingest_ts order
the rows alike, that what is left reaches up to the counter (`Aged`, of the table and
of the synced part), and that a cutoff is never ahead of the clock; it gives
`RetentionIsContiguous` and `PruneKeepsWindow`, with a clock that is not set back but
with power losses. `WindowIsKept` says the same of every step (`KeepsWindow`), and excludes
power losses, which take rows of any age. `FramesMatchRows` needs neither restriction: its
`FrameInv` follows a row
from the placeholder to the frame, and the part of the table that is synced.
`StoreImplementsLog` maps each step of the store to a step of
`RelayLog` or a stutter, one lemma for each kind of step (`CommitIsCommit`,
`AirIsAnnounce`, `BatchIsExpire`, `CrashIsRestart`, `StoreIsSilent`); the mapping is at the end of `LabelPersist`: the log's
rows are the relay_seqs of the committed rows, its unannounced event the row of
the writer between `CommitTx` and `Air`.

*The seam* (`SeamProofs`). `NoGap` alone is not inductive. `SeamInv` adds, for
each consumer, `Shape` (which locals are live at which point; the drainer is off
from phase 3 on), `Order` (everything on its way to the client is ascending, the
bounds of each part) and `Complete`: below its cursor the stream has delivered
every surviving row, a chunk leaves out nothing below its elements, and a stream
that tails the hub lacks only rows above everything it has — while subscribed,
only the one about to be announced (`Joined`). A cancelled stream may fall
through from phase 3 to phase 4 and push events past a gap into `out`; therefore
`Complete` claims completeness of `sent` only while the handler has not cancelled,
and of what the client received always. From `SeamInv` follow `StreamInOrder`,
`StreamHasNoGap`, `NothingLeaks` and `TypeCorrect`. `TooSlowMeansDropped` adds
that a stream whose handler is at work is either subscribed or was dropped, which
needs that reads do not fail; with failing reads run `readerror` refutes it.

*The clients over their connections* (`SubscribeProofs`). `SubInv` is `SeamInv` with
four parts for each client. `Resumes` and `Outdated` are the two invariants of the run.
`Evaluates` is about the handler between its queries: it asks for the position of a
returning client, the head it read is no more than the log, and no row survives
between the cursor asked for and the start it is about to give `StreamFrom`.
`Follows` is about the stream: until its first event, it begins at the client's
position or, after an `OutdatedCursor`, below it; in the latter case everything on its
way and in the table is above the position (`Newer`), so nothing comes twice. That a
step of the seam keeps this is the content of `Flow`: what comes nearer to the client
was on its way already, in the table, or the event being announced. Between two
queries the log only grows at its end and loses rows (`LogGrows`), which is why it
does no harm that head and floor are read apart. From `SubInv` follow
`NoGapOverConnections`, `OutdatedIsMeant`, `SubTypeCorrect` and `NeverTwice`. That the
maximum and the minimum of the rows exist for any log comes from the well-foundedness
of the naturals (`LeastOfNaturals`). `ReturningIsWelcome` is the positive side of run
`future`: if retention always leaves the newest row (`NewestSurvives`), no returning client is
told `FutureCursor`. It needs that the head read earlier in the evaluation, and not only
the present one, covers the position of the client. `EndpointIsSeam` says that every
step of the endpoint is one of `Seam` or none, which carries the theorems of `SeamProofs`
that are about actions over to it.

*The whole* (`RelayProofs`). Whatever the relay does, the store does one of its own steps or
stands still (`RelayHasStore`), so every theorem about `LabelPersist` holds in it.
`RelayIsEndpoint` is the same upwards: each step of the whole is a step of the endpoint on
the abstract log, or one it does not see; the lemmas of `StoreImplementsLog` give
the step of the log, and the variables of the streams move with it as `Relay` says. Hence
all theorems of `SubscribeProofs` and `SeamProofs` hold of the whole: `RelayDropsTheSlow`
takes one over by name. Two more need both sides. `NoYoungEventIsMissed` takes from the
store, by `WindowInv`, that a minted row that is gone is older than the window now (not only
when it was deleted, hence the clock that is not set back), and from the endpoint that
a client lacks only rows that are gone. `HolesAreOld` takes from the store that what is
left is contiguous, so that a client lacks nothing from the oldest row that is left up to
its position. No run checks that one: `MaxSeq` of `relay` is too small for a hole to have two
sides.

*The hub* (`RelayProofs`). `HubInv` says that nothing is left of the loop of `Broadcast` while
`Hub.mu` is free, and that what is listed is not closed; the loop visits only what is listed because nobody
else gets the mutex before it ends. It gives `NoChannelClosesTwice`, for any number of subscriptions
and writers. `HubKeepsTheLog` carries `ImplementsLog` and `BroadcastAscending` over: each step of the hub
is one of the store or none (`HubHasStore`).

*The subscriptions on the store* (`RelayProofs`). A step of `Ingest` is a step of the
store or none (`IngestHasStore`), and one of `Upstream` or none (`IngestIsUpstream`), so `DbInv`
and `UpInv` hold in it. Neither says which row holds which frame. `IngestInv` does: the frames of
`made` are those recorded, each of its rows is in the table or `Old`, none is above the
counter, and they are `Ordered`; the same for what a power loss leaves, since rows, cursor and
history are cut at one point (`Tallies`, twice). A commit keeps the order because the frame
in hand comes after frames that are recorded or refused (`UpInv`), whose rows are
below the new one (`DbInv`). `Old` goes by `peak`, the latest the clock ever showed, and
a cutoff is never ahead of that: so `CursorNeverLies` needs no assumption on the faults, the clock
that is set back included, and neither does `OrderIsKept`. `CursorIsStored` is
`CursorIsBacked` of `UpstreamProofs` carried from the frames a history remembers to the rows of the
table; with it the cursor is about what consumers can be sent.

*From the labeler to the client* (`RelayProofs`). In a behaviour of both specifications
a commit of a subscription is also the one that `Relay` mints (`OneWriterCommits`: the
mutex lets one writer commit), so rows made of frames are minted rows (`AllMinted`). Then
`CursorIsStored`, `KeepsUpstreamOrder` and `YoungIsNotMissed` chain: `EveryLabelReachesConsumers`
says that of each frame the stored cursor has passed and the policy kept there is a row that every
client has which has gone past it, and `EveryLabelArrivesInOrder` that a client that is past a row of
a frame has, of each frame before it, a row with no higher number. Both end where the promise
of the relay ends: at rows older than the window and at the client's first position, `Has`. They
assume, as `YoungIsNotMissed` does, that the power and the clock hold. No run checks these two: the
product of both sides is large, and each conjunct they rest on has its run.

*The upstreams* (`UpstreamProofs`). `CursorIsBacked` is not inductive: a cancelled
subscription still stores its cursor, over that of its successor. `UpInv` adds that
whatever a connection has behind it is backed too (`ConnectionIsBacked`), and so is
the frame in hand from the moment it is recorded or refused, and that a power loss
leaves a cursor backed by what it leaves. Together they say that a cursor never
claims more than the log holds, in whichever order cursors are stored.
It gives `NoFrameIsMissing`, which run `ingest` checks as part of `CursorIsStored`.
`SubscriptionsImplementAtLeastOnce` needs one fact more,
`CursorInv`: no cursor, stored or synced, is ahead of the labeler. Most steps of a
subscription are `Quiet`: the abstract reader at most stops. `OneFrameAfterCancel` rests on `LateInv`, which follows a
subscription after its cancellation: it can only finish the call it is in.
`PolicyIsInForce` needs that no context but the last one is alive.

*The slurper* (`SlurperProofs`). `SlInv` says that a live goroutine is the one in the
map (so that `Reconcile` and `Shutdown` reach it), that the root context is dead from
`Shutdown` on, and that no goroutine is at work once `Shutdown` has returned. It
gives `OneSubscriptionEach` and `StoreIsOutlived`: a reconcile that read its list
before the shutdown may still start a subscription after `wg.Wait`, on a dead
context, and that one leaves without touching the store. `OperatorHasTheWord` is
inductive with the types, and so is `NoPokeIsLost`: the only step that takes a poke
out of the channel makes the loop's reconcile due, and only its attempt to read
the list counts as having seen the change.

*The watcher* (`FirehoseProofs`). `FhInv` is the types with two parts: `AccountInv`
(whatever may become the cursor, `pos`, `pending` or the commit in hand, passes above the stored cursor
only commits that were tried or, on a blind connection, skipped by it) gives `CursorIsEarned`: the
cursor moves over nothing else. That is an action property because a state no longer tells who
skipped what: a connection that did read the cursor may not pass what another one has skipped, and
the cursor staged by one connection may not be stored by the next (`DialsStaged`), which
`ImplementsAtLeastOnce` does not see. `BatchInv` (where the stored, the staged
and the current position stand to each other, and that the batch counts what lies
between) gives `NoRepeatOnRedial` and `CrashRepeatsABatch`. `CrashesLoseNothing` is
the positive side of run `firehose_lost`: if no call fails and nobody stops the
process gracefully, broken connections and crashes lose no record.
`WatcherImplementsAtLeastOnce` adds `DealtInv`: only published commits were
tried, and a connection that starts at the head in spite of a stored cursor failed to
read it.

*The limiter* (`PacingProofs`). `PaceInv` is the types, with the equality of the
hour's window and of what passed in it, and the limit on both. It gives
`PaceTypeCorrect`, `NoPermitOfTheHourIsWasted` and `HourBudgetIsKept`: since the
previous hour weighs at least nothing, what the library estimates is at least what
passed. `BudgetIsAlwaysKept` is about any second, also one that begins in the
middle of a window. The labels of each of the last ticks are kept as history; `SecondInv`
says that there is a function with their sums (`SumsAre`), that what passed since the window
began is at most what the window counts, that what is older is at most what the window
before it counts (`Charged`), and that neither counts more than the budget; so two windows, which
is all a second can touch, make twice the budget. There is one such function only, by the
least tick at which two would differ, so the sum in the property is the one in the
invariant (`LastSecondIsTheSum`). `PatienceAlwaysGrows` rests on
`PatienceInv`: the delay is at least `InitialDelay` doubled as often as `dialed`, the
ages of the recent dials, has elements; a reset needs a connection as old as `ResetAfter`, and
then no dial but the one of that connection is recent. Ages are distinct, so a dial adds one
element and one doubling.

Only model-checked: the liveness properties (`Delivered`, `ConnectionEnds`,
`PersistReturns`, `NothingLost`, `Converges`, `ShutdownEnds`, `EveryCommitIsDealtWith`,
`WaitEnds`, `CancelEnds`), which TLAPS does not reach. The
properties of the three runs that end in a counterexample hold under the
premises of `CrashesLoseNothing`, `TooSlowMeansDropped` and `ReturningIsWelcome`.

## 5. Plan

`Upstream` composed with `Slurper`: more than one labeler, `Start` and `Stop` of
the former as the effect of `Applies` of the latter, so that the assumption each makes
about the other (one start after the other, the old context cancelled first) is
discharged by TLC and not only by reading both modules. Then the shutdown of the HTTP
server, whose hijacked connections nobody waits for, over `Seam`.

Not planned: CBOR encoding and its generated code, label verification,
configuration, metrics and health (no state that other parts read), the
end-to-end harness.
