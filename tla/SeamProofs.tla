----------------------------- MODULE SeamProofs -----------------------------
(***************************************************************************)
(* Proofs about Seam, for any number of consumers, any buffer size and any *)
(* bound on the log.                                                       *)
(*                                                                         *)
(* The invariant has three parts for each consumer.  Shape says which      *)
(* locals are live where, Order that everything on its way to the client   *)
(* is ascending and in which interval it lies, Complete what the stream    *)
(* may still lack: below the cursor nothing that survives in the table,    *)
(* and once it tails the hub nothing but the event being announced.        *)
(***************************************************************************)
EXTENDS Seam, FiniteSetTheorems, TLAPS

USE DEF Subscribes, Unsubscribes

Asc(s) == \A i, j \in 1 .. Len(s) : i < j => s[i] < s[j]

Backfill(c) == pc[c] \in {"head", "read", "push", "stop", "abort"}
Tailing(c) == pc[c] \in {"live", "deliver"}

Shape(c) ==
    /\ pc[c] = "idle" <=> handler[c] = "idle"
    /\ pc[c] = "idle" => /\ sent[c] = <<>> /\ live[c] = <<>>
                         /\ taken[c] = 0 /\ wrote[c] = 0
    /\ pc[c] \in {"idle", "end"} => drainer[c] = "off" /\ ~sub[c]
    /\ phase[c] = 3 => drainer[c] = "off"
    /\ pc[c] = "idle" => phase[c] = 1
    /\ Tailing(c) => phase[c] = 3
    /\ pc[c] # "push" => chunk[c] = {}
    /\ pc[c] = "deliver" <=> held[c] # 0

Ascending(c) == Asc(sent[c]) /\ Asc(live[c])

Bounds(c) ==
    /\ since[c] <= cursor[c]
    /\ cursor[c] <= lastSeq
    /\ \A x \in Ran(sent[c]) : since[c] < x /\ x <= lastSeq
    /\ \A x \in Ran(live[c]) : x <= bcast
    /\ \A e \in chunk[c] : cursor[c] < e /\ e <= lastSeq
    /\ held[c] <= bcast
    /\ Backfill(c) => \A x \in Ran(sent[c]) : x <= cursor[c]

TailOrder(c) ==
    /\ Tailing(c) => \A y \in Ran(sent[c]) : y <= cursor[c] \/ y <= bcast
    /\ Tailing(c) => \A x \in Ran(live[c]), y \in Ran(sent[c]) : x > cursor[c] => y < x
    /\ pc[c] = "deliver" =>
          /\ held[c] > cursor[c]
          /\ \A y \in Ran(sent[c]) : y < held[c]
          /\ \A x \in Ran(live[c]) : held[c] < x

Order(c) == Ascending(c) /\ Bounds(c) /\ TailOrder(c)

\* A row the tailing stream has neither delivered nor in hand is above all it
\* has, and is the one about to be announced unless the hub dropped it.
Joined(c) ==
    \A s \in rows :
        s > cursor[c] /\ s \notin Ran(sent[c]) /\ s # held[c] /\ s \notin Ran(live[c]) =>
            /\ \A x \in Ran(sent[c]) \cup Ran(live[c]) : x < s
            /\ held[c] < s
            /\ sub[c] => s = unsent

SentNoGap(c) ==
    \A s \in rows : s > since[c] /\ s \notin Ran(sent[c]) => \A x \in Ran(sent[c]) : x < s

ReceivedNoGap(c) ==
    \A s \in rows : s > since[c] /\ s \notin Received(c) => \A x \in Received(c) : x < s

Complete(c) ==
    /\ \A r \in rows : since[c] < r /\ r <= cursor[c] => r \in Ran(sent[c])
    /\ \A r \in rows, e \in chunk[c] : cursor[c] < r /\ r < e => r \in chunk[c]
    /\ ~Cancelled(c) /\ Tailing(c) => Joined(c)
    /\ ~Cancelled(c) => SentNoGap(c)
    /\ ReceivedNoGap(c)

Healthy(c) == Shape(c) /\ Order(c) /\ Complete(c)

\* The inductive invariant of the seam: well typed, and every consumer healthy.
SeamInv == SeamTypeOK /\ \A c \in Consumers : Healthy(c)

-----------------------------------------------------------------------------
(* Sequences as the channels use them *)

LEMMA RanAppend ==
    ASSUME NEW S, NEW s \in Seq(S), NEW e \in S
    PROVE  Ran(Append(s, e)) = Ran(s) \cup {e}
<1>1. /\ Len(s) \in Nat /\ Len(Append(s, e)) = Len(s) + 1
      /\ Append(s, e)[Len(s) + 1] = e
      /\ \A i \in 1 .. Len(s) : Append(s, e)[i] = s[i]
  OBVIOUS
<1>2. \A i \in 1 .. Len(s) + 1 : i \in 1 .. Len(s) \/ i = Len(s) + 1
  BY <1>1
<1>3. Len(s) + 1 \in 1 .. Len(s) + 1 /\ 1 .. Len(s) \subseteq 1 .. Len(s) + 1
  BY <1>1
<1> QED
  BY <1>1, <1>2, <1>3 DEF Ran

LEMMA RanTail ==
    ASSUME NEW S, NEW s \in Seq(S), s # <<>>
    PROVE  Ran(s) = {Head(s)} \cup Ran(Tail(s)) /\ Head(s) \in S
<1>1. Len(s) \in Nat \ {0} /\ Len(Tail(s)) = Len(s) - 1 /\ Head(s) = s[1]
  OBVIOUS
<1>2. \A i \in 1 .. Len(s) - 1 : Tail(s)[i] = s[i + 1]
  OBVIOUS
<1>3. ASSUME NEW x \in Ran(s), x # Head(s) PROVE x \in Ran(Tail(s))
  <2>1. PICK i \in 1 .. Len(s) : x = s[i]
    BY DEF Ran
  <2>2. i - 1 \in 1 .. Len(s) - 1 /\ Tail(s)[i - 1] = x
    BY <1>1, <1>2, <1>3, <2>1
  <2> QED
    BY <1>1, <2>2 DEF Ran
<1>4. ASSUME NEW x \in Ran(Tail(s)) PROVE x \in Ran(s)
  <2>1. PICK i \in 1 .. Len(s) - 1 : x = Tail(s)[i]
    BY <1>1 DEF Ran
  <2>2. i + 1 \in 1 .. Len(s) /\ s[i + 1] = x
    BY <1>1, <1>2, <2>1
  <2> QED
    BY <2>2 DEF Ran
<1>5. Head(s) \in Ran(s)
  BY <1>1 DEF Ran
<1>6. Head(s) \in S
  BY <1>1
<1> QED
  BY <1>3, <1>4, <1>5, <1>6

LEMMA AscAppend ==
    ASSUME NEW s \in Seq(Seqs), Asc(s), NEW e \in Seqs, \A x \in Ran(s) : x < e
    PROVE  Asc(Append(s, e))
<1>1. /\ Len(s) \in Nat /\ Len(Append(s, e)) = Len(s) + 1
      /\ Append(s, e)[Len(s) + 1] = e
      /\ \A i \in 1 .. Len(s) : Append(s, e)[i] = s[i]
  OBVIOUS
<1>2. \A i \in 1 .. Len(s) : s[i] < e
  BY DEF Ran
<1> QED
  BY <1>1, <1>2 DEF Asc

LEMMA AscTail ==
    ASSUME NEW s \in Seq(Seqs), Asc(s), s # <<>>
    PROVE  Asc(Tail(s)) /\ \A x \in Ran(Tail(s)) : Head(s) < x
<1>1. Len(s) \in Nat \ {0} /\ Len(Tail(s)) = Len(s) - 1 /\ Head(s) = s[1]
  OBVIOUS
<1>2. \A i \in 1 .. Len(s) - 1 : Tail(s)[i] = s[i + 1]
  OBVIOUS
<1>3. Asc(Tail(s))
  BY <1>1, <1>2 DEF Asc
<1>4. \A i \in 1 .. Len(s) - 1 : s[1] < s[i + 1]
  BY <1>1 DEF Asc
<1> QED
  BY <1>1, <1>2, <1>3, <1>4 DEF Ran

LEMMA UptoAppend ==
    ASSUME NEW S, NEW s \in Seq(S), NEW e \in S, NEW k \in Nat, k <= Len(s)
    PROVE  Upto(Append(s, e), k) = Upto(s, k)
<1>1. \A i \in 1 .. k : Append(s, e)[i] = s[i]
  OBVIOUS
<1> QED
  BY <1>1 DEF Upto

LEMMA UptoRan ==
    ASSUME NEW S, NEW s \in Seq(S), NEW k \in Nat, k <= Len(s)
    PROVE  Upto(s, k) \subseteq Ran(s)
  BY DEF Upto, Ran

LEMMA RanEmpty == Ran(<<>>) = {}
  BY DEF Ran

-----------------------------------------------------------------------------
(* What does not touch a consumer *)

\* The locals of consumer c, as one value.
Locals(c) == <<pc[c], phase[c], since[c], cursor[c], chunk[c], held[c], drainer[c],
               sub[c], live[c], sent[c], taken[c], wrote[c], handler[c]>>

LEMMA Untouched ==
    ASSUME NEW c \in Consumers, Healthy(c), UNCHANGED <<logVars, Locals(c)>>
    PROVE  Healthy(c)'
  BY DEF Healthy, Shape, Order, Ascending, Bounds, TailOrder, Complete, Joined, SentNoGap, ReceivedNoGap, Received,
         Cancelled, Backfill, Tailing, Locals, logVars

LEMMA SeamInitially == Init => SeamInv
<1> SUFFICES ASSUME Init PROVE SeamInv
  OBVIOUS
<1>1. SeamTypeOK
  BY MaxSeqAssumption, BufSizeAssumption DEF Init, LogInit, SeamTypeOK, StreamTypes, HubTypes, HandlerTypes, PCs, Capacity, LogTypeOK, Seqs
<1>2. ASSUME NEW c \in Consumers PROVE Healthy(c)
  <2>1. Received(c) = {}
    BY DEF Init, Received, Upto
  <2> QED
    BY <2>1, RanEmpty DEF Init, LogInit, Healthy, Shape, Order, Ascending, Bounds, TailOrder, Complete, Joined, SentNoGap,
         ReceivedNoGap, Cancelled, Backfill, Tailing, Asc
<1> QED
  BY <1>1, <1>2 DEF SeamInv

-----------------------------------------------------------------------------
(* Types *)

LEMMA LogTypeStep ==
    ASSUME LogTypeOK, [LogNext]_logVars
    PROVE  LogTypeOK'
<1> USE MaxSeqAssumption DEF LogTypeOK
<1>1. CASE Commit
  BY <1>1 DEF Commit
<1>2. CASE Announce
  BY <1>2 DEF Announce
<1>3. ASSUME NEW gone, Expire(gone) PROVE LogTypeOK'
  BY <1>3 DEF Expire
<1>4. CASE Restart
  BY <1>4 DEF Restart
<1>5. CASE UNCHANGED logVars
  BY <1>5 DEF logVars
<1> QED
  BY <1>1, <1>2, <1>3, <1>4, <1>5 DEF LogNext

LEMMA LogMoves ==
    ASSUME [Next]_vars
    PROVE  [LogNext]_logVars
<1>1. ASSUME NEW c \in Consumers, Stream(c) \/ Drainer(c) \/ Handler(c)
      PROVE  UNCHANGED logVars
  BY <1>1 DEF Stream, ReadHead, ReadChunk, Push, ReadFails, BackfillCancelled, FallThrough,
       LeaveBackfill, Return, StopDrain, AbortBackfill, Receive, Deliver, LeaveLive,
       Drainer, Drain, DrainExit, Handler, Take, WriteOK, WriteFails, TooSlow, Cleanup,
       CleanupDrains, Disconnect
<1>2. ASSUME NEW c \in Consumers, NEW s \in -1 .. lastSeq, StreamFrom(c, s)
      PROVE  UNCHANGED logVars
  BY <1>2 DEF StreamFrom
<1> QED
  BY <1>1, <1>2 DEF Next, Ingest, Broadcast, Prune, Crash, LogNext, vars

\* The functions keep their ranges.
LEMMA StreamTypesStep ==
    ASSUME SeamInv, [Next]_vars
    PROVE  StreamTypes'
<1> USE MaxSeqAssumption
<1>1. LogTypeOK /\ StreamTypes /\ HubTypes
  BY DEF SeamInv, SeamTypeOK
<1> USE <1>1 DEF PCs
<1>2. ASSUME UNCHANGED streamVars PROVE StreamTypes'
  BY <1>2 DEF streamVars, StreamTypes
<1>3. ASSUME NEW C \in SUBSET Consumers, Forget(C) PROVE StreamTypes'
  <2>1. /\ pc' \in [Consumers -> PCs]
        /\ phase' \in [Consumers -> 1 .. 3]
    BY <1>3 DEF Forget, StreamTypes
  <2>2. /\ since' \in [Consumers -> -1 .. MaxSeq]
        /\ cursor' \in [Consumers -> -1 .. MaxSeq]
    BY <1>3 DEF Forget, StreamTypes
  <2>3. /\ chunk' \in [Consumers -> SUBSET Seqs]
        /\ n' \in [Consumers -> Nat]
        /\ held' \in [Consumers -> 0 .. MaxSeq]
    BY <1>3 DEF Forget, StreamTypes
  <2> QED
    BY <2>1, <2>2, <2>3 DEF StreamTypes
<1>4. ASSUME NEW c \in Consumers, NEW s \in -1 .. lastSeq, StreamFrom(c, s)
      PROVE  StreamTypes'
  <2>1. s \in -1 .. MaxSeq
    BY DEF LogTypeOK
  <2> QED
    BY <1>4, <2>1 DEF StreamFrom, StreamTypes
<1>5. ASSUME NEW c \in Consumers, Return(c)
      PROVE  StreamTypes'
  BY <1>5 DEF Return, StreamTypes
<1>6. ASSUME NEW c \in Consumers, LeaveBackfill(c)
      PROVE  StreamTypes'
  BY <1>5, <1>6 DEF LeaveBackfill, StreamTypes
<1>7. ASSUME NEW c \in Consumers, ReadHead(c)
      PROVE  StreamTypes'
  <2>1. phase' \in [Consumers -> 1 .. 3]
    BY <1>7 DEF ReadHead, StreamTypes
  <2> QED
    BY <1>7, <2>1 DEF ReadHead, StreamTypes
<1>8. ASSUME NEW c \in Consumers, ReadChunk(c)
      PROVE  StreamTypes'
  <2>1. PICK R \in Chunks(cursor[c]) :
          /\ chunk' = [chunk EXCEPT ![c] = R]
          /\ IF R = {} THEN NextPhase(c)
                       ELSE pc' = [pc EXCEPT ![c] = "push"] /\ UNCHANGED phase
    BY <1>8 DEF ReadChunk
  <2>2. R \subseteq Seqs
    BY DEF Chunks, Later, LogTypeOK, Seqs
  <2>3. /\ pc' \in [Consumers -> PCs]
        /\ phase' \in [Consumers -> 1 .. 3]
    <3>1. phase[c] \in {1, 2, 3}
      BY DEF StreamTypes
    <3>2. CASE R # {}
      BY <2>1, <3>2 DEF StreamTypes
    <3>3. CASE R = {} /\ phase[c] = 1
      BY <2>1, <3>3 DEF NextPhase, StreamTypes
    <3>4. CASE R = {} /\ phase[c] = 2
      BY <2>1, <3>4 DEF NextPhase, StreamTypes
    <3>5. CASE R = {} /\ phase[c] = 3
      BY <2>1, <3>5 DEF NextPhase, StreamTypes
    <3> QED
      BY <3>1, <3>2, <3>3, <3>4, <3>5
  <2> QED
    BY <1>8, <2>1, <2>2, <2>3 DEF ReadChunk, StreamTypes
<1>9. ASSUME NEW c \in Consumers, Push(c)
      PROVE  StreamTypes'
  <2>1. PICK e \in chunk[c] :
          /\ cursor' = [cursor EXCEPT ![c] = e]
          /\ chunk' = [chunk EXCEPT ![c] = @ \ {e}]
          /\ pc' = [pc EXCEPT ![c] = IF chunk[c] # {e} THEN "push"
                                     ELSE IF phase[c] = 1 THEN "head" ELSE "read"]
    BY <1>9 DEF Push
  <2>2. e \in Seqs
    BY DEF StreamTypes
  <2>3. pc' \in [Consumers -> PCs]
    BY <2>1 DEF StreamTypes
  <2>4. chunk' \in [Consumers -> SUBSET Seqs]
    BY <2>1 DEF StreamTypes
  <2>5. cursor' \in [Consumers -> -1 .. MaxSeq]
    BY <2>1, <2>2 DEF StreamTypes, Seqs
  <2> QED
    BY <1>9, <2>3, <2>4, <2>5 DEF Push, StreamTypes
<1>10. ASSUME NEW c \in Consumers, ReadFails(c) \/ BackfillCancelled(c)
      PROVE  StreamTypes'
  BY <1>6, <1>10 DEF ReadFails, BackfillCancelled, FallThrough, StreamTypes
<1>11. ASSUME NEW c \in Consumers, StopDrain(c) \/ AbortBackfill(c) \/ LeaveLive(c)
      PROVE  StreamTypes'
  BY <1>5, <1>11 DEF StopDrain, AbortBackfill, LeaveLive, StreamTypes
<1>12. ASSUME NEW c \in Consumers, Receive(c)
      PROVE  StreamTypes'
  <2>1. Head(live[c]) \in 0 .. MaxSeq
    BY <1>12 DEF Receive, HubTypes, Seqs
  <2> QED
    BY <1>12, <2>1 DEF Receive, StreamTypes
<1>13. ASSUME NEW c \in Consumers, Deliver(c)
      PROVE  StreamTypes'
  BY <1>13 DEF Deliver, StreamTypes
<1> QED
  BY <1>2, <1>3, <1>4, <1>7, <1>8, <1>9, <1>10, <1>11, <1>12, <1>13
     DEF Next, Stream, Drainer, Handler, Ingest, Prune, Crash, Broadcast, Drain, DrainExit,
         Take, WriteOK, CleanupDrains, WriteFails, TooSlow, Cleanup, Disconnect,
         vars, seamVars

LEMMA HubTypesStep ==
    ASSUME SeamInv, [Next]_vars
    PROVE  HubTypes'
<1> USE MaxSeqAssumption
<1>1. LogTypeOK /\ HubTypes
  BY DEF SeamInv, SeamTypeOK
<1> USE <1>1
<1>2. ASSUME UNCHANGED <<drainer, hubVars>> PROVE HubTypes'
  BY <1>2 DEF hubVars, HubTypes
<1>3. CASE Broadcast
  <2>1. unsent \in Seqs
    BY <1>3 DEF Broadcast, Announce, LogTypeOK, Seqs
  <2>2. \A c \in Consumers : live[c] \in Seq(Seqs) /\ Append(live[c], unsent) \in Seq(Seqs)
    BY <2>1 DEF HubTypes
  <2>3. live' \in [Consumers -> Seq(Seqs)]
    BY <1>3, <2>2, Zenon DEF Broadcast, HubTypes
  <2>4. sub' \in [Consumers -> BOOLEAN] /\ dropped' \in [Consumers -> BOOLEAN]
    BY <1>3, Zenon DEF Broadcast
  <2> QED
    BY <1>3, <2>3, <2>4 DEF Broadcast, HubTypes
<1>4. ASSUME NEW C \in SUBSET Consumers, Forget(C) PROVE HubTypes'
  <2>1. \A c \in Consumers : live[c] \in Seq(Seqs) /\ <<>> \in Seq(Seqs)
    BY DEF HubTypes
  <2>2. live' \in [Consumers -> Seq(Seqs)]
    BY <1>4, <2>1, Zenon DEF Forget
  <2>3. drainer' \in [Consumers -> {"run", "off"}]
    BY <1>4 DEF Forget, HubTypes
  <2>4. sub' \in [Consumers -> BOOLEAN] /\ dropped' \in [Consumers -> BOOLEAN]
    BY <1>4, Zenon DEF Forget, HubTypes
  <2> QED
    BY <2>2, <2>3, <2>4 DEF HubTypes
<1>5. ASSUME NEW c \in Consumers, NEW s \in -1 .. lastSeq, StreamFrom(c, s)
      PROVE  HubTypes'
  BY <1>5 DEF StreamFrom, HubTypes
<1>6. ASSUME NEW c \in Consumers, Return(c) \/ Cleanup(c)
      PROVE  HubTypes'
  BY <1>6 DEF Return, Cleanup, HubTypes
<1>7. ASSUME NEW c \in Consumers, Receive(c) \/ Drain(c)
      PROVE  HubTypes'
  <2>1. Tail(live[c]) \in Seq(Seqs)
    BY <1>7 DEF Receive, Drain, HubTypes
  <2> QED
    BY <1>7, <2>1 DEF Receive, Drain, HubTypes
<1>8. ASSUME NEW c \in Consumers, DrainExit(c)
      PROVE  HubTypes'
  BY <1>8 DEF DrainExit, hubVars, HubTypes
<1>9. ASSUME NEW c \in Consumers, LeaveBackfill(c)
      PROVE  HubTypes'
  BY <1>2, <1>6, <1>9 DEF LeaveBackfill
<1>10. ASSUME NEW c \in Consumers,
              ReadFails(c) \/ BackfillCancelled(c) \/ StopDrain(c) \/ AbortBackfill(c) \/ LeaveLive(c)
       PROVE  HubTypes'
  BY <1>2, <1>6, <1>9, <1>10 DEF ReadFails, BackfillCancelled, FallThrough, StopDrain,
     AbortBackfill, LeaveLive
<1>11. ASSUME NEW c \in Consumers, ReadHead(c) \/ ReadChunk(c) \/ Push(c) \/ Deliver(c)
       PROVE  HubTypes'
  BY <1>2, <1>11 DEF ReadHead, ReadChunk, Push, Deliver
<1> QED
  BY <1>2, <1>3, <1>4, <1>5, <1>6, <1>7, <1>8, <1>10, <1>11
     DEF Next, Stream, Drainer, Handler, Ingest, Prune, Crash,
         Take, WriteOK, CleanupDrains, WriteFails, TooSlow, Disconnect, vars, seamVars

LEMMA HandlerTypesStep ==
    ASSUME SeamInv, [Next]_vars
    PROVE  HandlerTypes'
<1>1. StreamTypes /\ HandlerTypes /\ \A c \in Consumers : Shape(c)
  BY DEF SeamInv, SeamTypeOK, Healthy
<1> USE <1>1
<1>2. ASSUME UNCHANGED <<sent, handlerVars>> PROVE HandlerTypes'
  BY <1>2 DEF handlerVars, HandlerTypes
<1>3. ASSUME NEW C \in SUBSET Consumers, Forget(C) PROVE HandlerTypes'
  <2>1. \A c \in Consumers : sent[c] \in Seq(Seqs) /\ <<>> \in Seq(Seqs)
    BY DEF HandlerTypes
  <2>2. sent' \in [Consumers -> Seq(Seqs)]
    BY <1>3, <2>1, Zenon DEF Forget
  <2>3. taken' \in [Consumers -> Nat] /\ wrote' \in [Consumers -> Nat]
    BY <1>3 DEF Forget, HandlerTypes
  <2>4. handler' \in [Consumers -> {"idle", "take", "write", "cleanup"}]
    BY <1>3 DEF Forget, HandlerTypes
  <2> QED
    BY <2>2, <2>3, <2>4 DEF HandlerTypes
<1>4. ASSUME NEW c \in Consumers, NEW s, StreamFrom(c, s)
      PROVE  HandlerTypes'
  BY <1>4 DEF StreamFrom, HandlerTypes
<1>5. ASSUME NEW c \in Consumers, Push(c) \/ Deliver(c)
      PROVE  HandlerTypes'
  <2>1. PICK e : e \in Seqs /\ sent' = [sent EXCEPT ![c] = Append(@, e)]
    <3>1. CASE Push(c)
      BY <3>1 DEF Push, StreamTypes
    <3>2. CASE Deliver(c)
      <4>1. held[c] \in Seqs
        BY <3>2, MaxSeqAssumption DEF Deliver, StreamTypes, Shape, Seqs
      <4> QED
        BY <3>2, <4>1 DEF Deliver
    <3> QED
      BY <1>5, <3>1, <3>2
  <2>2. Append(sent[c], e) \in Seq(Seqs)
    BY <2>1 DEF HandlerTypes
  <2> QED
    BY <1>5, <2>1, <2>2 DEF Push, Deliver, handlerVars, HandlerTypes
<1>6. ASSUME NEW c \in Consumers, Take(c) \/ CleanupDrains(c)
      PROVE  HandlerTypes'
  <2>1. taken' = [taken EXCEPT ![c] = taken[c] + 1] /\ UNCHANGED <<sent, wrote>>
    BY <1>6 DEF Take, CleanupDrains
  <2>2. taken' \in [Consumers -> Nat]
    BY <2>1 DEF HandlerTypes
  <2>3. handler' \in [Consumers -> {"idle", "take", "write", "cleanup"}]
    BY <1>6 DEF Take, CleanupDrains, HandlerTypes
  <2> QED
    BY <2>1, <2>2, <2>3 DEF HandlerTypes
<1>7. ASSUME NEW c \in Consumers, WriteOK(c) \/ Cleanup(c)
      PROVE  HandlerTypes'
  BY <1>7 DEF WriteOK, Cleanup, HandlerTypes
<1>8. ASSUME NEW c \in Consumers, Return(c) \/ LeaveBackfill(c)
      PROVE  HandlerTypes'
  BY <1>2, <1>8 DEF Return, LeaveBackfill
<1>9. ASSUME NEW c \in Consumers,
             \/ ReadHead(c) \/ ReadChunk(c) \/ ReadFails(c) \/ BackfillCancelled(c) \/ StopDrain(c)
             \/ AbortBackfill(c) \/ Receive(c) \/ LeaveLive(c) \/ Drain(c) \/ DrainExit(c)
      PROVE  HandlerTypes'
  BY <1>2, <1>8, <1>9 DEF ReadHead, ReadChunk, ReadFails, BackfillCancelled, FallThrough,
     StopDrain, AbortBackfill, Receive, LeaveLive, Drain, DrainExit
<1> QED
  BY <1>2, <1>3, <1>4, <1>5, <1>6, <1>7, <1>9
     DEF Next, Stream, Drainer, Handler, Ingest, Prune, Crash, Broadcast,
         WriteFails, TooSlow, Disconnect, vars, seamVars

-----------------------------------------------------------------------------
(* A step of one consumer leaves the others alone *)

\* What a consumer can rely on at its own index.
At(c) ==
    /\ pc[c] \in PCs
    /\ phase[c] \in 1 .. 3
    /\ since[c] \in -1 .. MaxSeq
    /\ cursor[c] \in -1 .. MaxSeq
    /\ chunk[c] \subseteq Seqs
    /\ n[c] \in Nat
    /\ held[c] \in 0 .. MaxSeq
    /\ sub[c] \in BOOLEAN
    /\ live[c] \in Seq(Seqs)
    /\ sent[c] \in Seq(Seqs)
    /\ taken[c] \in Nat
    /\ wrote[c] \in Nat
    /\ Capacity(c)
    /\ Healthy(c)

LEMMA AtEach ==
    ASSUME SeamInv
    PROVE  LogTypeOK /\ \A c \in Consumers : At(c)
  BY DEF SeamInv, SeamTypeOK, StreamTypes, HubTypes, HandlerTypes, At

Num(c) ==
    /\ since[c] \in Int /\ cursor[c] \in Int /\ held[c] \in Nat
    /\ lastSeq \in Nat /\ bcast \in Nat /\ unsent \in Nat /\ bcast <= lastSeq
    /\ \A r \in rows : r \in Nat /\ 1 <= r /\ r <= lastSeq
    /\ \A x \in Ran(sent[c]) : x \in Nat /\ 1 <= x
    /\ \A x \in Ran(live[c]) : x \in Nat /\ 1 <= x
    /\ \A x \in chunk[c] : x \in Nat /\ 1 <= x
    /\ Received(c) \subseteq Ran(sent[c])

LEMMA Numbers ==
    ASSUME SeamInv, NEW c \in Consumers
    PROVE  Num(c)
<1>1. At(c) /\ LogTypeOK
  BY AtEach
<1>2. Ran(sent[c]) \subseteq Seqs /\ Ran(live[c]) \subseteq Seqs /\ chunk[c] \subseteq Seqs
  BY <1>1 DEF At, Ran
<1>3. Received(c) \subseteq Ran(sent[c])
  BY <1>1 DEF At, Received, Upto, Ran, Capacity
<1>4. /\ since[c] \in Int /\ cursor[c] \in Int /\ held[c] \in Nat
      /\ \A x \in Seqs : x \in Nat /\ 1 <= x
  BY <1>1, MaxSeqAssumption DEF At, Seqs
<1>5. /\ lastSeq \in Nat /\ bcast \in Nat /\ unsent \in Nat /\ bcast <= lastSeq
      /\ \A r \in rows : r \in Nat /\ 1 <= r /\ r <= lastSeq
  BY <1>1, MaxSeqAssumption DEF LogTypeOK
<1> QED
  BY <1>2, <1>3, <1>4, <1>5 DEF Num

LEMMA Others ==
    ASSUME SeamInv, NEW c \in Consumers,
           \/ Stream(c) \/ Drainer(c) \/ Handler(c)
           \/ \E s \in -1 .. lastSeq : StreamFrom(c, s)
    PROVE  \A d \in Consumers \ {c} : UNCHANGED Locals(d)
<1> USE DEF SeamInv, SeamTypeOK, StreamTypes, HubTypes, HandlerTypes, Locals
<1>1. CASE \E s \in -1 .. lastSeq : StreamFrom(c, s)
  BY <1>1 DEF StreamFrom
<1>2. ASSUME Return(c) PROVE \A d \in Consumers \ {c} : UNCHANGED Locals(d)
  BY <1>2 DEF Return, handlerVars
<1>3. ASSUME LeaveBackfill(c) PROVE \A d \in Consumers \ {c} : UNCHANGED Locals(d)
  BY <1>2, <1>3 DEF LeaveBackfill, hubVars, handlerVars
<1>4. CASE ReadHead(c)
  BY <1>4 DEF ReadHead, hubVars, handlerVars
<1>5. CASE ReadChunk(c)
  BY <1>5 DEF ReadChunk, NextPhase, hubVars, handlerVars
<1>6. CASE Push(c)
  BY <1>6 DEF Push, hubVars, handlerVars
<1>7. CASE ReadFails(c) \/ BackfillCancelled(c)
  BY <1>3, <1>7 DEF ReadFails, BackfillCancelled, FallThrough, hubVars, handlerVars
<1>8. CASE StopDrain(c) \/ AbortBackfill(c) \/ LeaveLive(c)
  BY <1>2, <1>8 DEF StopDrain, AbortBackfill, LeaveLive, hubVars, handlerVars
<1>9. CASE Receive(c)
  BY <1>9 DEF Receive, handlerVars
<1>10. CASE Deliver(c)
  BY <1>10 DEF Deliver, hubVars, handlerVars
<1>11. CASE Drain(c) \/ DrainExit(c)
  BY <1>11 DEF Drain, DrainExit, streamVars, hubVars, handlerVars
<1>12. CASE Take(c) \/ WriteOK(c) \/ CleanupDrains(c)
  BY <1>12 DEF Take, WriteOK, CleanupDrains, streamVars, hubVars
<1>13. CASE WriteFails(c) \/ TooSlow(c)
  BY <1>13 DEF WriteFails, TooSlow, Cleanup, streamVars
<1>14. CASE Disconnect(c)
  BY <1>14 DEF Disconnect, Forget
<1> QED
  BY <1>1, <1>4, <1>5, <1>6, <1>7, <1>8, <1>9, <1>10, <1>11, <1>12, <1>13, <1>14
     DEF Stream, Drainer, Handler

-----------------------------------------------------------------------------
(* One lemma per step: what it does to the consumer that takes it.            *)

LEMMA DoStreamFrom ==
    ASSUME SeamInv, NEW c \in Consumers, NEW s \in -1 .. lastSeq, StreamFrom(c, s)
    PROVE  Healthy(c)' /\ Capacity(c)'
<1>1. At(c) /\ Num(c) /\ LogTypeOK
  BY AtEach, Numbers
<1>2. /\ pc'[c] = "head" /\ handler'[c] = "take" /\ since'[c] = s /\ cursor'[c] = s
      /\ drainer'[c] = "run" /\ sub'[c] = TRUE
      /\ UNCHANGED <<logVars, phase[c], chunk[c], held[c], live[c], sent[c], taken[c], wrote[c]>>
  BY DEF StreamFrom, SeamInv, SeamTypeOK, StreamTypes, HubTypes, HandlerTypes
<1>3. handler[c] = "idle" /\ pc[c] = "idle" /\ sent[c] = <<>> /\ live[c] = <<>> /\ chunk[c] = {}
      /\ held[c] = 0 /\ taken[c] = 0 /\ wrote[c] = 0 /\ phase[c] = 1
  BY <1>1 DEF StreamFrom, At, Healthy, Shape
<1>4. Received(c)' = {} /\ Ran(sent[c]) = {} /\ Ran(live[c]) = {}
  BY <1>2, <1>3, RanEmpty DEF Received, Upto
<1>5. s \in Int /\ s <= lastSeq /\ bcast \in Nat
  BY <1>1, MaxSeqAssumption DEF LogTypeOK
<1>6. Shape(c)'
  BY <1>2, <1>3 DEF Shape, Tailing
<1>7. Order(c)'
  BY <1>1, <1>2, <1>3, <1>4, <1>5 DEF Order, Ascending, Bounds, TailOrder, Asc, Backfill, Tailing, logVars
<1>8. Complete(c)'
  <2>1. \A r \in rows : r \in Int
    BY <1>1 DEF LogTypeOK
  <2> QED
    BY <1>2, <1>3, <1>4, <1>5, <2>1 DEF Complete, Tailing, SentNoGap, ReceivedNoGap, logVars
<1>9. Capacity(c)'
  BY <1>1, <1>2 DEF At, Capacity
<1> QED
  BY <1>6, <1>7, <1>8, <1>9 DEF Healthy

\* Returning is safe wherever the drainer is gone: what was pushed has no gap.
LEMMA DoReturn ==
    ASSUME SeamInv, NEW c \in Consumers, Return(c), pc[c] # "idle", drainer[c] = "off"
    PROVE  Healthy(c)' /\ Capacity(c)'
<1>1. At(c) /\ Num(c) /\ LogTypeOK
  BY AtEach, Numbers
<1>2. /\ pc'[c] = "end" /\ sub'[c] = FALSE /\ chunk'[c] = {} /\ held'[c] = 0
      /\ UNCHANGED <<logVars, phase[c], since[c], cursor[c], drainer[c], live[c], sent[c], taken[c],
                     wrote[c], handler[c]>>
  BY DEF Return, handlerVars, SeamInv, SeamTypeOK, StreamTypes, HubTypes
<1>3. Shape(c)'
  BY <1>1, <1>2 DEF At, Healthy, Shape, Tailing
<1>4. Order(c)'
  BY <1>1, <1>2 DEF At, Healthy, Order, Ascending, Bounds, TailOrder, Backfill, Tailing, logVars, LogTypeOK
<1>5. Complete(c)'
  BY <1>1, <1>2 DEF At, Healthy, Complete, Tailing, Cancelled, SentNoGap, ReceivedNoGap, Received, logVars
<1>6. Capacity(c)'
  BY <1>1, <1>2 DEF At, Capacity
<1> QED
  BY <1>3, <1>4, <1>5, <1>6 DEF Healthy

LEMMA DoReadHead ==
    ASSUME SeamInv, NEW c \in Consumers, ReadHead(c)
    PROVE  Healthy(c)' /\ Capacity(c)'
<1>1. At(c) /\ Num(c) /\ LogTypeOK
  BY AtEach, Numbers
<1>2. /\ pc[c] = "head" /\ pc'[c] = "read" /\ phase'[c] \in {1, 2}
      /\ UNCHANGED <<logVars, since[c], cursor[c], chunk[c], held[c], drainer[c], sub[c], live[c],
                     sent[c], taken[c], wrote[c], handler[c]>>
  BY DEF ReadHead, hubVars, handlerVars, SeamInv, SeamTypeOK, StreamTypes
<1>3. Shape(c)'
  BY <1>1, <1>2 DEF At, Healthy, Shape, Tailing
<1>4. Order(c)'
  BY <1>1, <1>2 DEF At, Healthy, Order, Ascending, Bounds, TailOrder, Backfill, Tailing, logVars
<1>5. Complete(c)'
  BY <1>1, <1>2 DEF At, Healthy, Complete, Tailing, Cancelled, SentNoGap, ReceivedNoGap, Received, logVars
<1>6. Capacity(c)'
  BY <1>1, <1>2 DEF At, Capacity
<1> QED
  BY <1>3, <1>4, <1>5, <1>6 DEF Healthy

\* The query that yields nothing in phase 3 proves there is nothing to join.
LEMMA DoReadChunk ==
    ASSUME SeamInv, NEW c \in Consumers, ReadChunk(c)
    PROVE  Healthy(c)' /\ Capacity(c)'
<1>1. At(c) /\ Num(c) /\ LogTypeOK
  BY AtEach, Numbers
<1>2. PICK R \in Chunks(cursor[c]) :
          /\ chunk' = [chunk EXCEPT ![c] = R]
          /\ IF R = {} THEN NextPhase(c)
                       ELSE pc' = [pc EXCEPT ![c] = "push"] /\ UNCHANGED phase
  BY DEF ReadChunk
<1>3. /\ pc[c] = "read" /\ chunk'[c] = R
      /\ UNCHANGED <<logVars, since[c], cursor[c], held[c], drainer[c], sub[c], live[c],
                     sent[c], taken[c], wrote[c], handler[c]>>
  BY <1>2 DEF ReadChunk, hubVars, handlerVars, SeamInv, SeamTypeOK, StreamTypes
<1>4. /\ R \subseteq Later(cursor[c])
      /\ R = {} => Later(cursor[c]) = {}
      /\ \A r \in R, x \in Later(cursor[c]) \ R : r < x
  BY FS_EmptySet, BufSizeAssumption DEF Chunks
<1>5. \/ R # {} /\ pc'[c] = "push" /\ phase'[c] = phase[c]
      \/ R = {} /\ phase[c] = 1 /\ pc'[c] = "read" /\ phase'[c] = 2
      \/ R = {} /\ phase[c] = 2 /\ pc'[c] = "stop" /\ phase'[c] = 2
      \/ R = {} /\ phase[c] = 3 /\ pc'[c] = "live" /\ phase'[c] = 3
  <2>1. phase[c] \in {1, 2, 3} /\ pc \in [Consumers -> PCs] /\ phase \in [Consumers -> 1 .. 3]
    BY <1>1 DEF At, SeamInv, SeamTypeOK, StreamTypes
  <2>2. CASE R # {}
    BY <1>2, <2>1, <2>2
  <2>3. CASE R = {}
    BY <1>2, <2>1, <2>3 DEF NextPhase
  <2> QED
    BY <2>2, <2>3
<1>6. \A r \in R : cursor[c] < r /\ r <= lastSeq
  BY <1>1, <1>4 DEF Later, LogTypeOK
<1>7. Shape(c)'
  BY <1>1, <1>3, <1>5 DEF At, Healthy, Shape, Tailing
<1>8. Order(c)'
  <2>1. Ascending(c)'
    BY <1>1, <1>3 DEF At, Healthy, Order, Ascending
  <2>2. Bounds(c)'
    BY <1>1, <1>3, <1>5, <1>6 DEF At, Healthy, Order, Bounds, Backfill, logVars
  <2>3. TailOrder(c)'
    BY <1>1, <1>3, <1>5 DEF Num, At, Healthy, Order, Bounds, TailOrder, Backfill, Tailing, logVars
  <2> QED
    BY <2>1, <2>2, <2>3 DEF Order
<1>9. Complete(c)'
  <2>1. \A r \in rows, e \in R : cursor[c] < r /\ r < e => r \in R
    <3> SUFFICES ASSUME NEW r \in rows, NEW e \in R, cursor[c] < r, r < e, r \notin R
                 PROVE  FALSE
      OBVIOUS
    <3>1. r \in Later(cursor[c]) \ R
      BY DEF Later
    <3>2. e < r /\ e \in rows
      BY <1>4, <3>1 DEF Later
    <3> QED
      BY <1>1, <3>2 DEF Num
  <2>2. Tailing(c)' => Joined(c)'
    BY <1>3, <1>4, <1>5 DEF Tailing, Joined, Later, logVars
  <2> QED
    BY <1>1, <1>3, <2>1, <2>2 DEF At, Healthy, Complete, Cancelled, SentNoGap, ReceivedNoGap,
       Received, logVars
<1>10. Capacity(c)'
  BY <1>1, <1>3 DEF At, Capacity
<1> QED
  BY <1>7, <1>8, <1>9, <1>10 DEF Healthy

\* The row handed over next is the least that remains, so none is left behind.
LEMMA DoPush ==
    ASSUME SeamInv, NEW c \in Consumers, Push(c)
    PROVE  Healthy(c)' /\ Capacity(c)'
<1>1. At(c) /\ Num(c) /\ LogTypeOK
  BY AtEach, Numbers
<1>2. PICK e \in chunk[c] :
          /\ \A x \in chunk[c] : e <= x
          /\ sent' = [sent EXCEPT ![c] = Append(@, e)]
          /\ cursor' = [cursor EXCEPT ![c] = e]
          /\ chunk' = [chunk EXCEPT ![c] = @ \ {e}]
          /\ pc' = [pc EXCEPT ![c] = IF chunk[c] # {e} THEN "push"
                                     ELSE IF phase[c] = 1 THEN "head" ELSE "read"]
  BY DEF Push
<1>3. /\ pc[c] = "push" /\ sent'[c] = Append(sent[c], e) /\ cursor'[c] = e /\ chunk'[c] = chunk[c] \ {e}
      /\ pc'[c] \in {"push", "head", "read"}
      /\ pc'[c] # "push" => chunk'[c] = {}
      /\ UNCHANGED <<logVars, phase[c], since[c], held[c], drainer[c], sub[c], live[c], taken[c],
                     wrote[c], handler[c]>>
      /\ Room(c)
  BY <1>2 DEF Push, hubVars, handlerVars, SeamInv, SeamTypeOK, StreamTypes, HandlerTypes
<1>4. e \in Seqs /\ sent[c] \in Seq(Seqs) /\ Seqs \subseteq Int /\ e \in Int
  BY <1>1, MaxSeqAssumption DEF At, Seqs
<1>5. Ran(sent[c])' = Ran(sent[c]) \cup {e}
  BY <1>3, <1>4, RanAppend
<1>6. Len(sent'[c]) = Len(sent[c]) + 1 /\ Len(sent[c]) \in Nat
  BY <1>3, <1>4
<1>7. wrote[c] \in Nat /\ wrote[c] <= Len(sent[c])
  BY <1>1, <1>6 DEF At, Capacity
<1>8. Received(c)' = Received(c)
  BY <1>3, <1>4, <1>7, UptoAppend DEF Received
<1>9. /\ Order(c) /\ Complete(c) /\ Backfill(c)
      /\ \A x \in Ran(sent[c]) : x < e
      /\ cursor[c] < e
  BY <1>1, <1>3 DEF Num, At, Healthy, Order, Bounds, Backfill
<1>10. Shape(c)'
  BY <1>1, <1>3 DEF At, Healthy, Shape, Tailing
<1>11. Order(c)'
  <2>1. Asc(sent[c])'
    BY <1>3, <1>4, <1>9, AscAppend DEF Order, Ascending
  <2>2. Bounds(c)'
    BY <1>1, <1>2, <1>3, <1>4, <1>5, <1>9 DEF Num, Order, Bounds, Backfill, logVars
  <2> QED
    BY <1>3, <1>9, <2>1, <2>2 DEF Order, Ascending, TailOrder, Tailing
<1>12. Complete(c)'
  <2>1. \A r \in rows : since[c] < r /\ r <= e => r \in Ran(sent[c]) \cup {e}
    <3> SUFFICES ASSUME NEW r \in rows, since[c] < r, r <= e, r \notin Ran(sent[c])
                 PROVE  r = e
      OBVIOUS
    <3>1. r \in Nat /\ cursor[c] \in Int
      BY <1>1 DEF Num
    <3>2. cursor[c] < r
      BY <1>9, <3>1 DEF Complete
    <3>3. r < e => r \in chunk[c]
      BY <1>9, <3>2 DEF Complete
    <3> QED
      BY <1>2, <1>4, <3>1, <3>3
  <2>2. \A r \in rows, f \in chunk[c] \ {e} : e < r /\ r < f => r \in chunk[c] \ {e}
    BY <1>1, <1>2, <1>4, <1>9 DEF Num, Complete
  <2>3. SentNoGap(c)'
    BY <1>1, <1>3, <1>4, <1>5, <1>9, <2>1 DEF Num, SentNoGap, logVars
  <2>4. ReceivedNoGap(c)'
    BY <1>3, <1>8, <1>9 DEF Complete, ReceivedNoGap, logVars
  <2> QED
    BY <1>3, <1>5, <2>1, <2>2, <2>3, <2>4 DEF Complete, Tailing, logVars
<1>13. Capacity(c)'
  BY <1>1, <1>3, <1>6, BufSizeAssumption DEF At, Capacity, Room
<1> QED
  BY <1>10, <1>11, <1>12, <1>13 DEF Healthy

\* Where the stream may go without having delivered anything more.
LEMMA Moves ==
    ASSUME SeamInv, NEW c \in Consumers, pc[c] \notin {"idle", "deliver"}, Backfill(c)',
           chunk'[c] = {}, phase'[c] \in 1 .. 3, phase'[c] = 3 => drainer[c] = "off",
           UNCHANGED <<logVars, since[c], cursor[c], held[c], drainer[c], sub[c], live[c], sent[c],
                       taken[c], wrote[c], handler[c]>>,
           Backfill(c)
    PROVE  Healthy(c)' /\ Capacity(c)'
<1>1. At(c) /\ Num(c) /\ LogTypeOK
  BY AtEach, Numbers
<1>2. Shape(c)'
  BY <1>1 DEF At, Healthy, Shape, Tailing, Backfill
<1>3. Order(c)'
  BY <1>1 DEF At, Healthy, Order, Ascending, Bounds, TailOrder, Backfill, Tailing, logVars
<1>4. Complete(c)'
  BY <1>1 DEF At, Healthy, Complete, Backfill, Tailing, Cancelled, SentNoGap, ReceivedNoGap,
     Received, logVars
<1>5. Capacity(c)'
  BY <1>1 DEF At, Capacity
<1> QED
  BY <1>2, <1>3, <1>4, <1>5 DEF Healthy

LEMMA DoLeaveBackfill ==
    ASSUME SeamInv, NEW c \in Consumers, LeaveBackfill(c), pc[c] \in {"head", "read", "push"}
    PROVE  Healthy(c)' /\ Capacity(c)'
<1>1. At(c) /\ Num(c) /\ LogTypeOK
  BY AtEach, Numbers
<1>2. CASE phase[c] = 3
  BY <1>1, <1>2, DoReturn DEF LeaveBackfill, At, Healthy, Shape
<1>3. CASE phase[c] # 3
  <2>1. /\ pc'[c] = "abort" /\ chunk'[c] = {}
        /\ UNCHANGED <<logVars, phase[c], since[c], cursor[c], held[c], drainer[c], sub[c], live[c],
                       sent[c], taken[c], wrote[c], handler[c]>>
    BY <1>3 DEF LeaveBackfill, hubVars, handlerVars, SeamInv, SeamTypeOK, StreamTypes
  <2> QED
    BY <1>1, <1>3, <2>1, Moves DEF At, Backfill
<1> QED
  BY <1>2, <1>3

\* The cancelled stream may tail the hub past a gap, but what it pushes from
\* here on is never written to the client.
LEMMA DoFallThrough ==
    ASSUME SeamInv, NEW c \in Consumers, FallThrough(c), Cancelled(c),
           pc[c] \in {"head", "read", "push"}
    PROVE  Healthy(c)' /\ Capacity(c)'
<1>1. At(c) /\ Num(c) /\ LogTypeOK
  BY AtEach, Numbers
<1>2. /\ phase[c] = 3 /\ pc'[c] = "live" /\ chunk'[c] = {}
      /\ UNCHANGED <<logVars, phase[c], since[c], cursor[c], held[c], drainer[c], sub[c], live[c],
                     sent[c], taken[c], wrote[c], handler[c]>>
  BY DEF FallThrough, hubVars, handlerVars, SeamInv, SeamTypeOK, StreamTypes
<1>3. Shape(c)'
  BY <1>1, <1>2 DEF At, Healthy, Shape, Tailing
<1>4. Order(c)'
  <2>1. Ascending(c)' /\ Bounds(c)'
    BY <1>1, <1>2 DEF At, Healthy, Order, Ascending, Bounds, Backfill, logVars
  <2>2. TailOrder(c)'
    BY <1>1, <1>2 DEF Num, At, Healthy, Order, Bounds, TailOrder, Backfill, logVars
  <2> QED
    BY <2>1, <2>2 DEF Order
<1>5. Complete(c)'
  BY <1>1, <1>2 DEF At, Healthy, Complete, Cancelled, ReceivedNoGap, Received, logVars
<1>6. Capacity(c)'
  BY <1>1, <1>2 DEF At, Capacity
<1> QED
  BY <1>3, <1>4, <1>5, <1>6 DEF Healthy

LEMMA DoStopDrain ==
    ASSUME SeamInv, NEW c \in Consumers, StopDrain(c)
    PROVE  Healthy(c)' /\ Capacity(c)'
<1>1. At(c) /\ Num(c) /\ LogTypeOK
  BY AtEach, Numbers
<1>2. CASE Cancelled(c)
  BY <1>2, DoReturn DEF StopDrain
<1>3. CASE ~Cancelled(c)
  <2>1. /\ pc[c] = "stop" /\ pc'[c] = "read" /\ phase'[c] = 3 /\ drainer[c] = "off"
        /\ UNCHANGED <<logVars, since[c], cursor[c], chunk[c], held[c], drainer[c], sub[c], live[c],
                       sent[c], taken[c], wrote[c], handler[c]>>
    BY <1>3 DEF StopDrain, hubVars, handlerVars, SeamInv, SeamTypeOK, StreamTypes
  <2>2. chunk'[c] = {}
    BY <1>1, <2>1 DEF At, Healthy, Shape
  <2> QED
    BY <2>1, <2>2, Moves DEF Backfill
<1> QED
  BY <1>2, <1>3

\* What the live channel gives up is no longer needed: it was delivered by the
\* backfill, or is in hand.
LEMMA DoReceive ==
    ASSUME SeamInv, NEW c \in Consumers, Receive(c)
    PROVE  Healthy(c)' /\ Capacity(c)'
<1>1. At(c) /\ Num(c) /\ LogTypeOK
  BY AtEach, Numbers
<1>2. /\ pc[c] = "live" /\ live[c] # <<>> /\ live'[c] = Tail(live[c])
      /\ \/ Head(live[c]) <= cursor[c] /\ pc'[c] = pc[c] /\ held'[c] = held[c]
         \/ /\ ~(Head(live[c]) <= cursor[c])
            /\ pc'[c] = "deliver" /\ held'[c] = Head(live[c])
      /\ UNCHANGED <<logVars, phase[c], since[c], cursor[c], chunk[c], drainer[c], sub[c], sent[c],
                     taken[c], wrote[c], handler[c]>>
  BY DEF Receive, Duplicate, handlerVars, SeamInv, SeamTypeOK, StreamTypes, HubTypes
<1>3. live[c] \in Seq(Seqs) /\ Shape(c) /\ Order(c) /\ Complete(c) /\ Capacity(c)
  BY <1>1 DEF At, Healthy
<1>4. /\ Ran(live[c]) = {Head(live[c])} \cup Ran(live[c])'
      /\ Head(live[c]) \in Nat /\ 1 <= Head(live[c])
  <2>1. Ran(live[c]) = {Head(live[c])} \cup Ran(Tail(live[c]))
    BY <1>2, <1>3, RanTail
  <2> QED
    BY <1>1, <1>2, <2>1 DEF Num
<1>5. Asc(live[c])' /\ \A x \in Ran(live[c])' : Head(live[c]) < x
  BY <1>2, <1>3, AscTail DEF Order, Ascending
<1>6. Tailing(c) /\ Tailing(c)' /\ held[c] = 0
  BY <1>2, <1>3 DEF Tailing, Shape
<1>7. Shape(c)'
  BY <1>2, <1>3, <1>4, <1>6 DEF Shape, Tailing
<1>8. Order(c)'
  <2>1. Ascending(c)'
    BY <1>2, <1>3, <1>5 DEF Order, Ascending
  <2>2. Bounds(c)'
    BY <1>1, <1>2, <1>3, <1>4, <1>6 DEF Num, Order, Bounds, Backfill, Tailing, logVars
  <2>3. TailOrder(c)'
    BY <1>1, <1>2, <1>3, <1>4, <1>5, <1>6 DEF Num, Order, TailOrder, logVars
  <2> QED
    BY <2>1, <2>2, <2>3 DEF Order
<1>9. Complete(c)'
  <2>1. Joined(c) => Joined(c)'
    BY <1>1, <1>2, <1>4, <1>6 DEF Num, Joined, logVars
  <2> QED
    BY <1>2, <1>3, <1>6, <2>1 DEF Complete, Cancelled, SentNoGap, ReceivedNoGap, Received, logVars
<1>10. Capacity(c)'
  <2>1. Len(live'[c]) = Len(live[c]) - 1 /\ Len(live[c]) \in Nat
    BY <1>2, <1>3
  <2> QED
    BY <1>2, <1>3, <2>1, BufSizeAssumption DEF Capacity
<1> QED
  BY <1>7, <1>8, <1>9, <1>10 DEF Healthy

\* The event in hand is the next one: what lies between it and the backfill has
\* been delivered or is gone from the table.
LEMMA DoDeliver ==
    ASSUME SeamInv, NEW c \in Consumers, Deliver(c)
    PROVE  Healthy(c)' /\ Capacity(c)'
<1>1. At(c) /\ Num(c) /\ LogTypeOK
  BY AtEach, Numbers
<1> DEFINE e == held[c]
<1>2. /\ pc[c] = "deliver" /\ pc'[c] = "live" /\ sent'[c] = Append(sent[c], e) /\ held'[c] = 0
      /\ UNCHANGED <<logVars, phase[c], since[c], cursor[c], chunk[c], drainer[c], sub[c], live[c],
                     taken[c], wrote[c], handler[c]>>
      /\ Room(c)
  BY DEF Deliver, hubVars, handlerVars, SeamInv, SeamTypeOK, StreamTypes, HandlerTypes
<1>3. Shape(c) /\ Order(c) /\ Complete(c) /\ Capacity(c)
  BY <1>1 DEF At, Healthy
<1>4. e \in Seqs /\ sent[c] \in Seq(Seqs)
  BY <1>1, <1>2, <1>3, MaxSeqAssumption DEF At, Seqs, Shape
<1>5. Ran(sent[c])' = Ran(sent[c]) \cup {e}
  BY <1>2, <1>4, RanAppend
<1>6. Len(sent'[c]) = Len(sent[c]) + 1 /\ Len(sent[c]) \in Nat
  BY <1>2, <1>4
<1>7. wrote[c] \in Nat /\ taken[c] \in Nat /\ wrote[c] <= Len(sent[c])
  BY <1>1, <1>6 DEF At, Capacity
<1>8. Received(c)' = Received(c)
  BY <1>2, <1>4, <1>7, UptoAppend DEF Received
<1>9. /\ Tailing(c) /\ Tailing(c)' /\ e > cursor[c] /\ e <= bcast
      /\ \A y \in Ran(sent[c]) : y < e
      /\ \A x \in Ran(live[c]) : e < x
  BY <1>2, <1>3 DEF Tailing, Order, Bounds, TailOrder
<1>10. Shape(c)'
  BY <1>2, <1>3 DEF Shape, Tailing
<1>11. Order(c)'
  <2>1. Ascending(c)'
    BY <1>2, <1>3, <1>4, <1>9, AscAppend DEF Order, Ascending
  <2>2. Bounds(c)'
    BY <1>1, <1>2, <1>3, <1>5, <1>9 DEF Num, Order, Bounds, Backfill, logVars
  <2>3. TailOrder(c)'
    BY <1>1, <1>2, <1>3, <1>5, <1>9 DEF Num, Order, TailOrder, logVars
  <2> QED
    BY <2>1, <2>2, <2>3 DEF Order
<1>12. Complete(c)'
  <2>1. ASSUME ~Cancelled(c) PROVE Joined(c)'
    <3>1. Joined(c)
      BY <1>3, <1>9, <2>1 DEF Complete
    <3> QED
      BY <1>1, <1>2, <1>5, <1>9, <3>1 DEF Num, Joined, logVars
  <2>2. ASSUME ~Cancelled(c) PROVE SentNoGap(c)'
    <3>1. Joined(c) /\ SentNoGap(c)
      BY <1>3, <1>9, <2>2 DEF Complete
    <3> SUFFICES ASSUME NEW s \in rows, s > since[c], s \notin Ran(sent[c]), s # e PROVE e < s
      BY <1>2, <1>5, <3>1 DEF SentNoGap, logVars
    <3>2. s \in Nat /\ cursor[c] \in Int /\ s > cursor[c]
      BY <1>1, <1>3 DEF Num, Complete
    <3>3. CASE s \in Ran(live[c])
      BY <1>9, <3>3
    <3>4. CASE s \notin Ran(live[c])
      BY <3>1, <3>2, <3>4 DEF Joined
    <3> QED
      BY <3>3, <3>4
  <2>3. ReceivedNoGap(c)'
    BY <1>2, <1>3, <1>8 DEF Complete, ReceivedNoGap, logVars
  <2>4. chunk'[c] = {}
    BY <1>2, <1>3 DEF Shape
  <2> QED
    BY <1>2, <1>3, <1>5, <2>1, <2>2, <2>3, <2>4 DEF Complete, Cancelled, logVars
<1>13. Capacity(c)'
  BY <1>2, <1>3, <1>6, <1>7, BufSizeAssumption DEF Capacity, Room
<1> QED
  BY <1>10, <1>11, <1>12, <1>13 DEF Healthy

LEMMA DoLeaveLive ==
    ASSUME SeamInv, NEW c \in Consumers, LeaveLive(c)
    PROVE  Healthy(c)' /\ Capacity(c)'
<1>1. At(c)
  BY AtEach
<1>2. Return(c) /\ pc[c] \in {"live", "deliver"}
  BY DEF LeaveLive
<1> QED
  BY <1>1, <1>2, DoReturn DEF At, Healthy, Shape, Tailing

\* The drainer runs only before the stream relies on the live channel.
LEMMA DoDrain ==
    ASSUME SeamInv, NEW c \in Consumers, Drain(c)
    PROVE  Healthy(c)' /\ Capacity(c)'
<1>1. At(c) /\ Num(c) /\ LogTypeOK
  BY AtEach, Numbers
<1>2. /\ drainer[c] = "run" /\ live[c] # <<>> /\ live'[c] = Tail(live[c])
      /\ UNCHANGED <<logVars, pc[c], phase[c], since[c], cursor[c], chunk[c], held[c], drainer[c],
                     sub[c], sent[c], taken[c], wrote[c], handler[c]>>
  BY DEF Drain, streamVars, handlerVars, SeamInv, SeamTypeOK, StreamTypes, HubTypes
<1>3. live[c] \in Seq(Seqs) /\ Shape(c) /\ Order(c) /\ Complete(c) /\ Capacity(c)
  BY <1>1 DEF At, Healthy
<1>4. Ran(live[c])' \subseteq Ran(live[c])
  <2>1. Ran(live[c]) = {Head(live[c])} \cup Ran(Tail(live[c]))
    BY <1>2, <1>3, RanTail
  <2> QED
    BY <1>2, <2>1
<1>5. Asc(live[c])'
  BY <1>2, <1>3, AscTail DEF Order, Ascending
<1>6. ~Tailing(c) /\ pc[c] # "idle"
  BY <1>2, <1>3 DEF Tailing, Shape
<1>7. Shape(c)'
  BY <1>2, <1>3, <1>6 DEF Shape, Tailing
<1>8. Order(c)'
  BY <1>2, <1>3, <1>4, <1>5, <1>6 DEF Order, Ascending, Bounds, TailOrder, Backfill, Tailing, logVars
<1>9. Complete(c)'
  BY <1>2, <1>3, <1>6 DEF Complete, Tailing, Cancelled, SentNoGap, ReceivedNoGap, Received, logVars
<1>10. Capacity(c)'
  <2>1. Len(live'[c]) = Len(live[c]) - 1 /\ Len(live[c]) \in Nat
    BY <1>2, <1>3
  <2> QED
    BY <1>2, <1>3, <2>1, BufSizeAssumption DEF Capacity
<1> QED
  BY <1>7, <1>8, <1>9, <1>10 DEF Healthy

LEMMA DoDrainExit ==
    ASSUME SeamInv, NEW c \in Consumers, DrainExit(c)
    PROVE  Healthy(c)' /\ Capacity(c)'
<1>1. At(c) /\ LogTypeOK
  BY AtEach
<1>2. /\ drainer'[c] = "off"
      /\ UNCHANGED <<logVars, pc[c], phase[c], since[c], cursor[c], chunk[c], held[c],
                     sub[c], live[c], sent[c], taken[c], wrote[c], handler[c]>>
  BY DEF DrainExit, streamVars, hubVars, handlerVars, SeamInv, SeamTypeOK, HubTypes
<1>3. Shape(c) /\ Order(c) /\ Complete(c) /\ Capacity(c)
  BY <1>1 DEF At, Healthy
<1>4. Shape(c)'
  BY <1>2, <1>3 DEF Shape, Tailing
<1>5. Order(c)'
  BY <1>2, <1>3 DEF Order, Ascending, Bounds, TailOrder, Backfill, Tailing, logVars
<1>6. Complete(c)'
  BY <1>2, <1>3 DEF Complete, Joined, Tailing, Cancelled, SentNoGap, ReceivedNoGap, Received, logVars
<1>7. Capacity(c)'
  BY <1>2, <1>3 DEF Capacity
<1> QED
  BY <1>4, <1>5, <1>6, <1>7 DEF Healthy

\* The handler takes one more event out.
LEMMA DoTake ==
    ASSUME SeamInv, NEW c \in Consumers, Take(c) \/ CleanupDrains(c)
    PROVE  Healthy(c)' /\ Capacity(c)'
<1>1. At(c) /\ LogTypeOK
  BY AtEach
<1>2. /\ taken'[c] = taken[c] + 1 /\ ~OutEmpty(c)
      /\ \/ handler[c] = "take" /\ handler'[c] = "write"
         \/ handler[c] = "cleanup" /\ handler'[c] = "cleanup"
      /\ UNCHANGED <<logVars, pc[c], phase[c], since[c], cursor[c], chunk[c], held[c], drainer[c],
                     sub[c], live[c], sent[c], wrote[c]>>
  BY DEF Take, CleanupDrains, streamVars, hubVars, SeamInv, SeamTypeOK, HandlerTypes
<1>3. /\ Shape(c) /\ Order(c) /\ Complete(c) /\ Capacity(c)
      /\ taken[c] \in Nat /\ wrote[c] \in Nat /\ Len(sent[c]) \in Nat
  BY <1>1 DEF At, Healthy
<1>4. Shape(c)'
  BY <1>2, <1>3 DEF Shape, Tailing
<1>5. Order(c)'
  BY <1>2, <1>3 DEF Order, Ascending, Bounds, TailOrder, Backfill, Tailing, logVars
<1>6. Complete(c)'
  BY <1>2, <1>3 DEF Complete, Joined, Tailing, Cancelled, SentNoGap, ReceivedNoGap, Received, logVars
<1>7. Capacity(c)'
  BY <1>2, <1>3, BufSizeAssumption DEF Capacity, OutEmpty
<1> QED
  BY <1>4, <1>5, <1>6, <1>7 DEF Healthy

\* A write shows the client one more event of a stream without gaps.
LEMMA DoWriteOK ==
    ASSUME SeamInv, NEW c \in Consumers, WriteOK(c)
    PROVE  Healthy(c)' /\ Capacity(c)'
<1>1. At(c) /\ Num(c) /\ LogTypeOK
  BY AtEach, Numbers
<1>2. /\ handler[c] = "write" /\ wrote'[c] = taken[c] /\ handler'[c] = "take"
      /\ UNCHANGED <<logVars, pc[c], phase[c], since[c], cursor[c], chunk[c], held[c], drainer[c],
                     sub[c], live[c], sent[c], taken[c]>>
  BY DEF WriteOK, streamVars, hubVars, SeamInv, SeamTypeOK, HandlerTypes
<1>3. /\ Shape(c) /\ Order(c) /\ Complete(c) /\ Capacity(c)
      /\ taken[c] \in Nat /\ wrote[c] \in Nat /\ Len(sent[c]) \in Nat /\ sent[c] \in Seq(Seqs)
  BY <1>1 DEF At, Healthy
<1>4. Shape(c)'
  BY <1>2, <1>3 DEF Shape, Tailing
<1>5. Order(c)'
  BY <1>2, <1>3 DEF Order, Ascending, Bounds, TailOrder, Backfill, Tailing, logVars
<1>6. Complete(c)'
  <2>1. SentNoGap(c) /\ Asc(sent[c]) /\ taken[c] <= Len(sent[c])
    BY <1>2, <1>3 DEF Complete, Cancelled, Order, Ascending, Capacity
  <2>2. ReceivedNoGap(c)'
    <3> SUFFICES ASSUME NEW s \in rows, s > since[c], s \notin Upto(sent[c], taken[c]),
                        NEW x \in Upto(sent[c], taken[c])
                 PROVE  x < s
      BY <1>2 DEF ReceivedNoGap, Received, logVars
    <3>1. PICK j \in 1 .. taken[c] : x = sent[c][j]
      BY DEF Upto
    <3>2. x \in Ran(sent[c])
      BY <1>3, <2>1, <3>1 DEF Ran
    <3>3. CASE s \notin Ran(sent[c])
      BY <2>1, <3>2, <3>3 DEF SentNoGap
    <3>4. CASE s \in Ran(sent[c])
      <4>1. PICK i \in 1 .. Len(sent[c]) : s = sent[c][i]
        BY <3>4 DEF Ran
      <4>2. j < i
        BY <1>3, <3>1, <4>1 DEF Upto
      <4> QED
        BY <1>3, <2>1, <3>1, <4>1, <4>2 DEF Asc
    <3> QED
      BY <3>3, <3>4
  <2> QED
    BY <1>2, <1>3, <2>1, <2>2 DEF Complete, Joined, Tailing, Cancelled, SentNoGap, logVars
<1>7. Capacity(c)'
  BY <1>2, <1>3, BufSizeAssumption DEF Capacity
<1> QED
  BY <1>4, <1>5, <1>6, <1>7 DEF Healthy

LEMMA DoCleanup ==
    ASSUME SeamInv, NEW c \in Consumers, Cleanup(c), handler[c] # "idle"
    PROVE  Healthy(c)' /\ Capacity(c)'
<1>1. At(c) /\ LogTypeOK
  BY AtEach
<1>2. /\ handler'[c] = "cleanup" /\ sub'[c] = FALSE
      /\ UNCHANGED <<logVars, pc[c], phase[c], since[c], cursor[c], chunk[c], held[c], drainer[c],
                     live[c], sent[c], taken[c], wrote[c]>>
  BY DEF Cleanup, streamVars, SeamInv, SeamTypeOK, HubTypes, HandlerTypes
<1>3. Shape(c) /\ Order(c) /\ Complete(c) /\ Capacity(c)
  BY <1>1 DEF At, Healthy
<1>4. Shape(c)'
  BY <1>2, <1>3 DEF Shape, Tailing
<1>5. Order(c)'
  BY <1>2, <1>3 DEF Order, Ascending, Bounds, TailOrder, Backfill, Tailing, logVars
<1>6. Complete(c)'
  BY <1>2, <1>3 DEF Complete, Cancelled, ReceivedNoGap, Received, logVars
<1>7. Capacity(c)'
  BY <1>2, <1>3 DEF Capacity
<1> QED
  BY <1>4, <1>5, <1>6, <1>7 DEF Healthy

-----------------------------------------------------------------------------
(* Steps that concern every consumer *)

LEMMA DoForget ==
    ASSUME SeamInv, NEW C \in SUBSET Consumers, Forget(C), NEW c \in C, LogTypeOK'
    PROVE  Healthy(c)' /\ Capacity(c)'
<1>1. /\ pc'[c] = "idle" /\ phase'[c] = 1 /\ since'[c] = 0 /\ cursor'[c] = 0 /\ chunk'[c] = {}
      /\ held'[c] = 0 /\ drainer'[c] = "off" /\ sub'[c] = FALSE /\ live'[c] = <<>>
      /\ sent'[c] = <<>> /\ taken'[c] = 0 /\ wrote'[c] = 0 /\ handler'[c] = "idle"
  BY DEF Forget
<1>2. Ran(sent[c])' = {} /\ Ran(live[c])' = {} /\ Received(c)' = {}
  BY <1>1, RanEmpty DEF Received, Upto
<1>3. lastSeq' \in Nat /\ bcast' \in Nat /\ \A r \in rows' : r \in Nat /\ 1 <= r
  BY MaxSeqAssumption DEF LogTypeOK
<1>4. Shape(c)'
  BY <1>1 DEF Shape, Tailing
<1>5. Order(c)'
  BY <1>1, <1>2, <1>3 DEF Order, Ascending, Bounds, TailOrder, Asc, Backfill, Tailing
<1>6. Complete(c)'
  BY <1>1, <1>2, <1>3 DEF Complete, Tailing, SentNoGap, ReceivedNoGap
<1>7. Capacity(c)'
  BY <1>1, BufSizeAssumption DEF Capacity
<1> QED
  BY <1>4, <1>5, <1>6, <1>7 DEF Healthy

\* A consumer whose locals and log view stay is as healthy as before.
LEMMA Undisturbed ==
    ASSUME SeamInv, NEW c \in Consumers, UNCHANGED <<logVars, Locals(c)>>
    PROVE  Healthy(c)' /\ Capacity(c)'
<1>1. At(c)
  BY AtEach
<1>2. Capacity(c)'
  BY <1>1 DEF At, Capacity, Locals
<1> QED
  BY <1>1, <1>2, Untouched DEF At

\* The new row lies above everything, and a subscribed stream owes only that one.
LEMMA DoIngest ==
    ASSUME SeamInv, NEW c \in Consumers, Ingest
    PROVE  Healthy(c)' /\ Capacity(c)'
<1>1. At(c) /\ Num(c) /\ LogTypeOK
  BY AtEach, Numbers
<1>2. /\ unsent = 0 /\ lastSeq' = lastSeq + 1 /\ rows' = rows \cup {lastSeq + 1}
      /\ unsent' = lastSeq + 1 /\ bcast' = bcast /\ UNCHANGED Locals(c)
  BY DEF Ingest, Commit, Locals, seamVars, streamVars, hubVars, handlerVars
<1>3. Shape(c) /\ Order(c) /\ Complete(c) /\ Capacity(c)
  BY <1>1 DEF At, Healthy
<1>4. Shape(c)'
  BY <1>2, <1>3 DEF Shape, Tailing, Locals
<1>5. Order(c)'
  <2>1. Ascending(c)' /\ TailOrder(c)'
    BY <1>2, <1>3 DEF Order, Ascending, TailOrder, Tailing, Locals
  <2>2. Bounds(c)'
    BY <1>1, <1>2, <1>3 DEF Num, Order, Bounds, Backfill, Locals
  <2> QED
    BY <2>1, <2>2 DEF Order
<1>6. Complete(c)'
  <2>1. \A x \in Ran(sent[c]) \cup Ran(live[c]) \cup {held[c], cursor[c]} : x < lastSeq + 1
    BY <1>1, <1>3 DEF Num, Order, Bounds
  <2>2. \A x \in chunk[c] : x < lastSeq + 1
    BY <1>1, <1>3 DEF Num, Order, Bounds
  <2>3. /\ \A r \in rows' : since[c] < r /\ r <= cursor[c] => r \in Ran(sent[c])
        /\ \A r \in rows', e \in chunk[c] : cursor[c] < r /\ r < e => r \in chunk[c]
    BY <1>1, <1>2, <1>3, <2>1, <2>2 DEF Num, Complete
  <2>4. Joined(c) => Joined(c)'
    BY <1>1, <1>2, <2>1 DEF Num, Joined, Locals
  <2>5. SentNoGap(c) => SentNoGap(c)'
    BY <1>2, <2>1 DEF SentNoGap, Locals
  <2>6. ReceivedNoGap(c)'
    BY <1>1, <1>2, <1>3, <2>1 DEF Num, Complete, ReceivedNoGap, Received, Locals
  <2> QED
    BY <1>2, <1>3, <2>3, <2>4, <2>5, <2>6 DEF Complete, Tailing, Cancelled, Locals
<1>7. Capacity(c)'
  BY <1>2, <1>3 DEF Capacity, Locals
<1> QED
  BY <1>4, <1>5, <1>6, <1>7 DEF Healthy

\* Rows that go cannot make a gap.
LEMMA DoPrune ==
    ASSUME SeamInv, NEW c \in Consumers, Prune
    PROVE  Healthy(c)' /\ Capacity(c)'
<1>1. At(c)
  BY AtEach
<1>2. rows' \subseteq rows /\ UNCHANGED <<lastSeq, unsent, bcast, Locals(c)>>
  BY DEF Prune, Expire, Locals, seamVars, streamVars, hubVars, handlerVars
<1>3. Shape(c) /\ Order(c) /\ Complete(c) /\ Capacity(c)
  BY <1>1 DEF At, Healthy
<1>4. Shape(c)'
  BY <1>2, <1>3 DEF Shape, Tailing, Locals
<1>5. Order(c)'
  BY <1>2, <1>3 DEF Order, Ascending, Bounds, TailOrder, Backfill, Tailing, Locals
<1>6. Complete(c)'
  BY <1>2, <1>3 DEF Complete, Joined, Tailing, Cancelled, SentNoGap, ReceivedNoGap, Received, Locals
<1>7. Capacity(c)'
  BY <1>2, <1>3 DEF Capacity, Locals
<1> QED
  BY <1>4, <1>5, <1>6, <1>7 DEF Healthy

\* Broadcast gives the event to a subscriber with room and forgets the others.
LEMMA DoBroadcast ==
    ASSUME SeamInv, NEW c \in Consumers, Broadcast
    PROVE  Healthy(c)' /\ Capacity(c)'
<1>1. At(c) /\ Num(c) /\ LogTypeOK
  BY AtEach, Numbers
<1>2. /\ unsent # 0 /\ bcast' = unsent /\ unsent' = 0 /\ rows' = rows /\ lastSeq' = lastSeq
      /\ UNCHANGED <<pc[c], phase[c], since[c], cursor[c], chunk[c], held[c], drainer[c],
                     sent[c], taken[c], wrote[c], handler[c]>>
  BY DEF Broadcast, Announce, streamVars, handlerVars
<1>3. \/ sub[c] /\ Len(live[c]) < BufSize /\ sub'[c] /\ live'[c] = Append(live[c], unsent)
      \/ ~sub'[c] /\ live'[c] = live[c]
  BY Zenon DEF Broadcast
<1>4. /\ Shape(c) /\ Order(c) /\ Complete(c) /\ Capacity(c)
      /\ live[c] \in Seq(Seqs) /\ unsent \in Seqs /\ bcast < unsent /\ unsent <= lastSeq
  BY <1>1, <1>2 DEF At, Healthy, LogTypeOK, Seqs
<1>5. CASE ~sub'[c] /\ live'[c] = live[c]
  <2>1. Shape(c)'
    BY <1>2, <1>4, <1>5 DEF Shape, Tailing
  <2>2. Order(c)'
    <3>1. Ascending(c)'
      BY <1>2, <1>4, <1>5 DEF Order, Ascending
    <3>2. Bounds(c)'
      BY <1>1, <1>2, <1>4, <1>5 DEF Num, Order, Bounds, Backfill
    <3>3. TailOrder(c)'
      BY <1>1, <1>2, <1>4, <1>5 DEF Num, Order, TailOrder, Tailing
    <3> QED
      BY <3>1, <3>2, <3>3 DEF Order
  <2>3. Complete(c)'
    BY <1>2, <1>4, <1>5 DEF Complete, Joined, Tailing, Cancelled, SentNoGap, ReceivedNoGap, Received
  <2>4. Capacity(c)'
    BY <1>2, <1>4, <1>5 DEF Capacity
  <2> QED
    BY <2>1, <2>2, <2>3, <2>4 DEF Healthy
<1>6. CASE sub[c] /\ Len(live[c]) < BufSize /\ sub'[c] /\ live'[c] = Append(live[c], unsent)
  <2>1. Ran(live[c])' = Ran(live[c]) \cup {unsent}
    BY <1>4, <1>6, RanAppend
  <2>2. Len(live'[c]) = Len(live[c]) + 1 /\ Len(live[c]) \in Nat
    BY <1>4, <1>6
  <2>3. Shape(c)'
    BY <1>2, <1>4, <1>6 DEF Shape, Tailing
  <2>4. Order(c)'
    <3>1. Ascending(c)'
      <4>1. \A x \in Ran(live[c]) : x < unsent
        BY <1>1, <1>4 DEF Num, Order, Bounds
      <4> QED
        BY <1>2, <1>4, <1>6, <4>1, AscAppend DEF Order, Ascending
    <3>2. Bounds(c)'
      BY <1>1, <1>2, <1>4, <2>1 DEF Num, Order, Bounds, Backfill
    <3>3. TailOrder(c)'
      BY <1>1, <1>2, <1>4, <2>1 DEF Num, Order, Bounds, TailOrder, Tailing
    <3> QED
      BY <3>1, <3>2, <3>3 DEF Order
  <2>5. Complete(c)'
    <3>1. Joined(c) => Joined(c)'
      BY <1>2, <1>6, <2>1 DEF Joined
    <3> QED
      BY <1>2, <1>4, <3>1 DEF Complete, Tailing, Cancelled, SentNoGap, ReceivedNoGap, Received
  <2>6. Capacity(c)'
    BY <1>2, <1>4, <1>6, <2>2, BufSizeAssumption DEF Capacity
  <2> QED
    BY <2>3, <2>4, <2>5, <2>6 DEF Healthy
<1> QED
  BY <1>3, <1>5, <1>6

-----------------------------------------------------------------------------
(* The invariant *)

LEMMA ConsumerStep ==
    ASSUME SeamInv, NEW c \in Consumers,
           \/ Stream(c) \/ Drainer(c) \/ Handler(c)
           \/ \E s \in -1 .. lastSeq : StreamFrom(c, s),
           LogTypeOK'
    PROVE  Healthy(c)' /\ Capacity(c)'
<1>1. CASE \E s \in -1 .. lastSeq : StreamFrom(c, s)
  BY <1>1, DoStreamFrom
<1>2. CASE Stream(c)
  <2>1. CASE ReadFails(c)
    BY <2>1, DoLeaveBackfill DEF ReadFails
  <2>2. CASE BackfillCancelled(c)
    BY <2>2, DoLeaveBackfill, DoFallThrough DEF BackfillCancelled
  <2>3. CASE AbortBackfill(c)
    BY <2>3, DoReturn DEF AbortBackfill
  <2> QED
    BY <1>2, <2>1, <2>2, <2>3, DoReadHead, DoReadChunk, DoPush, DoStopDrain, DoReceive,
       DoDeliver, DoLeaveLive DEF Stream
<1>3. CASE Drainer(c)
  BY <1>3, DoDrain, DoDrainExit DEF Drainer
<1>4. CASE Handler(c)
  <2>1. CASE WriteFails(c) \/ TooSlow(c)
    BY <2>1, DoCleanup DEF WriteFails, TooSlow
  <2>2. CASE Disconnect(c)
    BY <2>2, DoForget DEF Disconnect
  <2> QED
    BY <1>4, <2>1, <2>2, DoTake, DoWriteOK DEF Handler
<1> QED
  BY <1>1, <1>2, <1>3, <1>4

LEMMA SeamStep ==
    ASSUME SeamInv, [Next]_vars
    PROVE  SeamInv'
<1>1. LogTypeOK' /\ StreamTypes' /\ HubTypes' /\ HandlerTypes'
  BY LogMoves, LogTypeStep, StreamTypesStep, HubTypesStep, HandlerTypesStep DEF SeamInv, SeamTypeOK
<1>2. ASSUME NEW d \in Consumers PROVE Healthy(d)' /\ Capacity(d)'
  <2>1. CASE Ingest \/ Broadcast \/ Prune
    BY <2>1, DoIngest, DoBroadcast, DoPrune
  <2>2. CASE Crash
    BY <1>1, <2>2, DoForget DEF Crash
  <2>3. ASSUME NEW c \in Consumers,
               \/ Stream(c) \/ Drainer(c) \/ Handler(c)
               \/ \E s \in -1 .. lastSeq : StreamFrom(c, s)
        PROVE  Healthy(d)' /\ Capacity(d)'
    <3>1. CASE c = d
      BY <1>1, <2>3, <3>1, ConsumerStep
    <3>2. CASE c # d
      <4>1. UNCHANGED logVars \/ d \notin Consumers
        BY <2>3 DEF Stream, ReadHead, ReadChunk, Push, ReadFails, BackfillCancelled, FallThrough,
           LeaveBackfill, Return, StopDrain, AbortBackfill, Receive, Deliver, LeaveLive,
           Drainer, Drain, DrainExit, Handler, Take, WriteOK, WriteFails, TooSlow, Cleanup,
           CleanupDrains, Disconnect, StreamFrom
      <4>2. UNCHANGED Locals(d)
        BY <2>3, <3>2, Others
      <4> QED
        BY <4>1, <4>2, Undisturbed
    <3> QED
      BY <3>1, <3>2
  <2>4. CASE UNCHANGED vars
    BY <2>4, Undisturbed DEF vars, seamVars, streamVars, hubVars, handlerVars, Locals
  <2> QED
    BY <2>1, <2>2, <2>3, <2>4 DEF Next
<1> QED
  BY <1>1, <1>2 DEF SeamInv, SeamTypeOK

\* The invariant of the seam, for every number of consumers and every buffer
\* size: all that StreamFrom, the hub and the write loop do preserves it.
THEOREM SeamIsHealthy == Spec => []SeamInv
<1>1. SeamInv /\ [Next]_vars => SeamInv'
  BY SeamStep
<1> QED
  BY SeamInitially, <1>1, PTL DEF Spec

\* The state is well typed and neither channel outgrows its capacity.
THEOREM TypeCorrect == Spec => []SeamTypeOK
<1>1. SeamInv => SeamTypeOK
  BY DEF SeamInv
<1> QED
  BY SeamIsHealthy, <1>1, PTL

\* A client receives strictly ascending events above its cursor, whatever the
\* stream takes from the database, the drainer discards and the hub delivers.
THEOREM StreamInOrder == Spec => []InOrder
<1>1. ASSUME SeamInv PROVE InOrder
  <2> SUFFICES ASSUME NEW c \in Consumers
               PROVE  /\ \A i \in 1 .. wrote[c] : sent[c][i] > since[c]
                      /\ \A i, j \in 1 .. wrote[c] : i < j => sent[c][i] < sent[c][j]
    BY DEF InOrder
  <2>1. At(c) /\ Num(c)
    BY <1>1, AtEach, Numbers
  <2>2. 1 .. wrote[c] \subseteq 1 .. Len(sent[c])
    BY <2>1 DEF At, Capacity
  <2>3. \A i \in 1 .. wrote[c] : sent[c][i] \in Ran(sent[c])
    BY <2>2 DEF Ran
  <2>4. Asc(sent[c]) /\ \A x \in Ran(sent[c]) : x \in Nat /\ since[c] < x
    BY <2>1 DEF At, Num, Healthy, Order, Ascending, Bounds
  <2> QED
    BY <2>1, <2>2, <2>3, <2>4 DEF Asc, Num
<1> QED
  BY SeamIsHealthy, <1>1, PTL

\* A client lacks nothing below the last event it has but what was pruned,
\* whatever the hub dropped, the database failed to read and the handler cancelled.
THEOREM StreamHasNoGap == Spec => []NoGap
<1>1. SeamInv => NoGap
  BY DEF SeamInv, Healthy, Complete, ReceivedNoGap, NoGap
<1> QED
  BY SeamIsHealthy, <1>1, PTL

\* A stream that closed out has no drainer and no subscription left.
THEOREM NothingLeaks == Spec => []NoLeak
<1>1. SeamInv => NoLeak
  BY DEF SeamInv, Healthy, Shape, NoLeak
<1> QED
  BY SeamIsHealthy, <1>1, PTL

-----------------------------------------------------------------------------
(* Why a stream ends, when the database does not fail *)

\* While the handler is at work only the hub can end the subscription.
Genuine(c) == handler[c] \in {"take", "write"} => pc[c] # "abort" /\ (~sub[c] => dropped[c])

LEMMA GenuineOthers ==
    ASSUME SeamInv, \A c \in Consumers : Genuine(c), NEW c \in Consumers, NEW d \in Consumers,
           c # d,
           \/ Stream(c) \/ Drainer(c) \/ Handler(c)
           \/ \E s \in -1 .. lastSeq : StreamFrom(c, s)
    PROVE  Genuine(d)'
<1>1. UNCHANGED Locals(d)
  BY Others
<1>2. dropped'[d] = dropped[d]
  BY DEF Stream, ReadHead, ReadChunk, Push, ReadFails, BackfillCancelled, FallThrough,
     LeaveBackfill, Return, StopDrain, AbortBackfill, Receive, Deliver, LeaveLive,
     Drainer, Drain, DrainExit, Handler, Take, WriteOK, WriteFails, TooSlow, Cleanup,
     CleanupDrains, Disconnect, Forget, StreamFrom, hubVars
<1> QED
  BY <1>1, <1>2 DEF Genuine, Locals

LEMMA GenuineStep ==
    ASSUME ReadsFail = FALSE, SeamInv, \A c \in Consumers : Genuine(c), [Next]_vars
    PROVE  \A c \in Consumers : Genuine(c)'
<1> SUFFICES ASSUME NEW d \in Consumers PROVE Genuine(d)'
  OBVIOUS
<1>1. At(d) /\ Genuine(d)
  BY AtEach
<1> USE DEF SeamInv, SeamTypeOK, StreamTypes, HubTypes, HandlerTypes
<1>2. CASE Ingest \/ Prune \/ UNCHANGED vars
  BY <1>1, <1>2 DEF Ingest, Prune, vars, seamVars, streamVars, hubVars, handlerVars, Genuine
<1>3. CASE Broadcast
  <2>1. pc'[d] = pc[d] /\ handler'[d] = handler[d]
    BY <1>3 DEF Broadcast, streamVars, handlerVars
  <2>2. ~sub'[d] => ~sub[d] \/ Len(live[d]) = BufSize
    <3>1. sub'[d] <=> sub[d] /\ Len(live[d]) < BufSize
      BY <1>3, Zenon DEF Broadcast
    <3>2. Len(live[d]) \in Nat /\ Len(live[d]) <= BufSize
      BY <1>1 DEF At, Capacity
    <3> QED
      BY <3>1, <3>2, BufSizeAssumption
  <2>3. dropped'[d] <=> dropped[d] \/ (sub[d] /\ Len(live[d]) = BufSize)
    BY <1>3, Zenon DEF Broadcast
  <2> QED
    BY <1>1, <2>1, <2>2, <2>3, Zenon DEF Genuine
<1>4. CASE Crash
  BY <1>4 DEF Crash, Forget, Genuine
<1>5. ASSUME NEW s \in -1 .. lastSeq, StreamFrom(d, s) PROVE Genuine(d)'
  BY <1>5 DEF StreamFrom, Genuine
<1>6. ASSUME Return(d), handler[d] \in {"take", "write"} => ~sub[d] /\ dropped[d]
      PROVE  Genuine(d)'
  BY <1>6 DEF Return, hubVars, handlerVars, Genuine
<1>7. CASE Stream(d)
  <2>1. CASE ReadHead(d) \/ Push(d) \/ Deliver(d)
    BY <1>1, <2>1 DEF ReadHead, Push, Deliver, hubVars, handlerVars, Genuine
  <2>2. CASE ReadChunk(d)
    <3>1. pc'[d] # "abort" /\ UNCHANGED <<hubVars, handlerVars>>
      <4>1. PICK R : IF R = {} THEN NextPhase(d)
                               ELSE pc' = [pc EXCEPT ![d] = "push"] /\ UNCHANGED phase
        BY <2>2 DEF ReadChunk
      <4>2. phase[d] \in {1, 2, 3} /\ pc \in [Consumers -> PCs]
        BY <1>1 DEF At
      <4>3. CASE R = {}
        <5>1. NextPhase(d)
          BY <4>1, <4>3
        <5>2. pc'[d] \in {"read", "stop", "live"}
          BY <4>2, <5>1 DEF NextPhase
        <5> QED
          BY <2>2, <5>2 DEF ReadChunk
      <4>4. CASE R # {}
        BY <2>2, <4>1, <4>2, <4>4 DEF ReadChunk
      <4> QED
        BY <2>2, <4>3, <4>4 DEF ReadChunk
    <3> QED
      BY <1>1, <3>1 DEF hubVars, handlerVars, Genuine
  <2>3. CASE BackfillCancelled(d)
    BY <2>3 DEF BackfillCancelled, LeaveBackfill, FallThrough, Return, Cancelled, hubVars,
       handlerVars, Genuine
  <2>4. CASE StopDrain(d)
    BY <1>1, <1>6, <2>4 DEF StopDrain, Cancelled, hubVars, handlerVars, Genuine
  <2>5. CASE AbortBackfill(d)
    BY <1>1, <1>6, <2>5 DEF AbortBackfill, Genuine
  <2>6. CASE Receive(d)
    BY <1>1, <2>6 DEF Receive, handlerVars, Genuine
  <2>7. CASE LeaveLive(d)
    BY <1>1, <1>6, <2>7 DEF LeaveLive, LiveClosed, Cancelled, Genuine
  <2> QED
    BY <1>7, <2>1, <2>2, <2>3, <2>4, <2>5, <2>6, <2>7 DEF Stream, ReadFails
<1>8. CASE Drainer(d)
  BY <1>1, <1>8 DEF Drainer, Drain, DrainExit, streamVars, hubVars, handlerVars, Genuine
<1>9. CASE Handler(d)
  BY <1>1, <1>9 DEF Handler, Take, WriteOK, WriteFails, TooSlow, Cleanup, CleanupDrains,
     Disconnect, Forget, streamVars, hubVars, Genuine
<1> QED
  BY <1>2, <1>3, <1>4, <1>5, <1>7, <1>8, <1>9, GenuineOthers DEF Next

\* As long as no read of the database fails, ConsumerTooSlow is only ever said to
\* a consumer the hub dropped.
THEOREM TooSlowMeansDropped ==
    ASSUME ReadsFail = FALSE
    PROVE  Spec => TooSlowIsGenuine
<1> DEFINE AllGenuine == \A c \in Consumers : Genuine(c)
<1>1. Init => AllGenuine
  BY DEF Init, Genuine
<1>2. SeamInv /\ AllGenuine /\ [Next]_vars => AllGenuine'
  BY GenuineStep
<1>3. SeamInv /\ AllGenuine => \A c \in Consumers : TooSlow(c) => dropped[c]
  BY DEF SeamInv, Healthy, Shape, TooSlow, Genuine
<1> HIDE DEF AllGenuine
<1> QED
  BY SeamIsHealthy, <1>1, <1>2, <1>3, PTL DEF Spec, TooSlowIsGenuine
=============================================================================
