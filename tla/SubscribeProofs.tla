-------------------------- MODULE SubscribeProofs ---------------------------
(***************************************************************************)
(* Proofs about Subscribe, for any number of clients, any buffer size and  *)
(* any bound on the log: over all the connections of a client, with drops, *)
(* outdated cursors and crashes of the relay between them, no event comes  *)
(* twice and none is missing but those the prune job deleted.              *)
(*                                                                         *)
(* Within one connection SeamInv says so.  What is added here is what      *)
(* holds from one connection to the next: Evaluates, about the value the   *)
(* handler is about to give StreamFrom, and Follows, about how far the     *)
(* client is in the stream it got.                                         *)
(***************************************************************************)
EXTENDS Subscribe, SeamProofs, WellFoundedInduction

\* The cursor under evaluation: a returning client asks for its position, the head
\* was at most what it is, and from where it will begin no row below is left out.
Evaluates(c) ==
    /\ req[c] # "none" /\ pos[c] # NoCursor => asked[c] = pos[c]
    /\ req[c] = "live" => asked[c] = NoCursor
    /\ req[c] \in {"status", "floor", "outdated"} => asked[c] # NoCursor
    /\ req[c] = "floor" => readHead[c] <= lastSeq
    /\ req[c] = "outdated" => asked[c] + 1 < lastSeq /\ \A r \in rows : asked[c] + 1 < r
    /\ req[c] = "stream" =>
          /\ start[c] <= lastSeq
          /\ asked[c] # NoCursor => \A r \in rows : asked[c] < r => start[c] < r
          /\ start[c] >= pos[c] \/ (pos[c] < lastSeq /\ \A r \in rows : pos[c] < r)

\* Nothing on its way to the client, or in the table, is at or below p.
Newer(c, p) ==
    /\ p < lastSeq
    /\ \A r \in rows : p < r
    /\ \A x \in Ran(sent[c]) \cup Ran(live[c]) \cup chunk[c] : p < x
    /\ held[c] # 0 => p < held[c]

\* The handler holds at most one event it has not written.
Counted(c) ==
    /\ handler[c] = "take" => taken[c] = wrote[c]
    /\ handler[c] = "write" => taken[c] = wrote[c] + 1

\* The client and its stream: before the first event the stream begins at the
\* client's position, or, below it, in a table that holds only newer rows.
Reads(c) ==
    /\ Received(c) \subseteq got[c]
    /\ \A r \in rows : origin[c] < r /\ r <= since[c] => r \in got[c]
    /\ wrote[c] > 0 => pos[c] = sent[c][wrote[c]]
    /\ wrote[c] = 0 => since[c] >= pos[c] \/ Newer(c, pos[c])

Follows(c) ==
    /\ pos[c] <= lastSeq
    /\ Counted(c)
    /\ handler[c] # "idle" => Reads(c)

\* OutdatedIsTrue and ResumesWithoutGap, for one client.
Outdated(c) == told[c] = "OutdatedCursor" => asked[c] + 1 \in 1 .. lastSeq \ rows

Resumes(c) == \A s \in rows : origin[c] < s /\ s <= pos[c] => s \in got[c]

\* The inductive invariant.
SubInv ==
    /\ SeamInv
    /\ SubTypeOK
    /\ \A c \in Consumers : Evaluates(c) /\ Follows(c) /\ Outdated(c) /\ Resumes(c)

\* The types of what belongs to one client.
ClientTypes(c) ==
    /\ req[c] \in {"none", "live", "status", "floor", "outdated", "stream"}
    /\ asked[c] \in -1 .. MaxSeq
    /\ readHead[c] \in 0 .. MaxSeq
    /\ start[c] \in -1 .. MaxSeq
    /\ pos[c] \in -1 .. MaxSeq
    /\ origin[c] \in -1 .. MaxSeq
    /\ got[c] \subseteq Seqs
    /\ req[c] # "none" => handler[c] = "idle"

LEMMA AtClient ==
    ASSUME SubInv, NEW c \in Consumers
    PROVE  /\ At(c) /\ Num(c) /\ LogTypeOK /\ ClientTypes(c) /\ SeamInv
           /\ Evaluates(c) /\ Follows(c) /\ Outdated(c) /\ Resumes(c)
<1>1. At(c) /\ Num(c) /\ LogTypeOK
  BY AtEach, Numbers DEF SubInv
<1>2. ClientTypes(c)
  BY DEF SubInv, SubTypeOK, ClientTypes, NoCursor
<1> QED
  BY <1>1, <1>2 DEF SubInv

LEMMA SubInitially == SubInit => SubInv
<1> SUFFICES ASSUME SubInit
             PROVE  SubInv
  OBVIOUS
<1>1. SeamInv
  BY SeamInitially DEF SubInit
<1>2. SubTypeOK
  BY <1>1, MaxSeqAssumption DEF SubInit, SubTypeOK, SeamInv, NoCursor, Seqs
<1>3. ASSUME NEW c \in Consumers
      PROVE  Evaluates(c) /\ Follows(c) /\ Outdated(c) /\ Resumes(c)
  BY MaxSeqAssumption DEF SubInit, Init, LogInit, Evaluates, Follows, Counted, Outdated, Resumes, NoCursor
<1> QED
  BY <1>1, <1>2, <1>3 DEF SubInv

-----------------------------------------------------------------------------
(* The log *)

\* Numbers only grow, and a new row has a new number.
LogGrows ==
    /\ lastSeq \in Nat /\ lastSeq' \in Nat /\ lastSeq <= lastSeq'
    /\ \A r \in rows' : r \in Nat /\ (r \in rows \/ lastSeq < r)

LEMMA LogOnlyGrows ==
    ASSUME LogTypeOK, [LogNext]_logVars
    PROVE  LogGrows
<1> USE MaxSeqAssumption DEF LogTypeOK, LogGrows
<1>1. CASE Commit
  BY <1>1 DEF Commit
<1>2. CASE Announce
  BY <1>2 DEF Announce
<1>3. ASSUME NEW gone, Expire(gone) PROVE LogGrows
  BY <1>3 DEF Expire
<1>4. CASE Restart
  BY <1>4 DEF Restart
<1>5. CASE UNCHANGED logVars
  BY <1>5 DEF logVars
<1> QED
  BY <1>1, <1>2, <1>3, <1>4, <1>5 DEF LogNext

\* A client whose evaluation stands still is not affected by the log.
LEMMA EvaluationStays ==
    ASSUME NEW c \in Consumers, ClientTypes(c), LogGrows, Evaluates(c), Outdated(c),
           UNCHANGED <<asked[c], readHead[c], start[c], pos[c], told[c]>>,
           req'[c] \in {req[c], "none"}
    PROVE  Evaluates(c)' /\ Outdated(c)'
<1>1. Evaluates(c)'
  BY DEF Evaluates, ClientTypes, LogGrows, NoCursor
<1>2. Outdated(c)'
  BY DEF Outdated, ClientTypes, LogGrows
<1> QED
  BY <1>1, <1>2

LEMMA PositionStays ==
    ASSUME NEW c \in Consumers, ClientTypes(c), LogGrows, pos[c] <= lastSeq, Resumes(c),
           UNCHANGED <<pos[c], origin[c], got[c]>>
    PROVE  pos'[c] <= lastSeq' /\ Resumes(c)'
  BY DEF Resumes, ClientTypes, LogGrows

-----------------------------------------------------------------------------
(* The head and the floor *)

LEMMA LeastOfNaturals ==
    ASSUME NEW S \in SUBSET Nat, S # {}
    PROVE  \E x \in S : \A y \in S : x <= y
<1>1. PICK x \in S : \A y \in S : ~ (<<y, x>> \in OpToRel(<, Nat))
  BY WFMin, NatLessThanWellFounded
<1>2. \A y \in S : ~ (y < x)
  BY <1>1 DEF OpToRel
<1> QED
  BY <1>2

LEMMA MinIsLeast ==
    ASSUME NEW S \in SUBSET Nat, S # {}
    PROVE  Min(S) \in S /\ \A y \in S : Min(S) <= y
  BY LeastOfNaturals DEF Min

LEMMA MaxIsGreatest ==
    ASSUME NEW m \in Nat, NEW S \in SUBSET (0 .. m), S # {}
    PROVE  Max(S) \in S /\ \A y \in S : y <= Max(S)
<1> DEFINE D == {d \in Nat : \E x \in S : d = m - x}
<1>1. \A x \in S : x \in Nat /\ x <= m /\ m - x \in Nat
  OBVIOUS
<1>2. \A x \in S : m - x \in D
  BY <1>1
<1>3. D \in SUBSET Nat /\ D # {}
  BY <1>2
<1>4. PICK d \in D : \A y \in D : d <= y
  BY <1>3, LeastOfNaturals
<1>5. PICK x \in S : d = m - x
  OBVIOUS
<1>6. ASSUME NEW y \in S PROVE x >= y
  <2>1. m - x <= m - y
    BY <1>2, <1>4, <1>5
  <2> QED
    BY <1>1, <2>1
<1>7. \E z \in S : \A y \in S : z >= y
  BY <1>6
<1>8. Max(S) \in S /\ \A y \in S : Max(S) >= y
  BY <1>7 DEF Max
<1> QED
  BY <1>1, <1>8

LEMMA HeadIsBound ==
    ASSUME LogTypeOK
    PROVE  HeadSeq \in 0 .. lastSeq
<1>1. lastSeq \in Nat /\ rows \in SUBSET (0 .. lastSeq)
  BY MaxSeqAssumption DEF LogTypeOK
<1>2. CASE rows = {}
  BY <1>1, <1>2 DEF HeadSeq
<1>3. CASE rows # {}
  BY <1>1, <1>3, MaxIsGreatest DEF HeadSeq
<1> QED
  BY <1>2, <1>3

LEMMA FloorIsBound ==
    ASSUME LogTypeOK
    PROVE  /\ FloorSeq \in 0 .. lastSeq
           /\ \A r \in rows : FloorSeq <= r
           /\ FloorSeq = 0 <=> rows = {}
<1>1. lastSeq \in Nat /\ rows \in SUBSET Nat /\ rows \subseteq 1 .. lastSeq
  BY MaxSeqAssumption DEF LogTypeOK
<1>2. CASE rows = {}
  BY <1>1, <1>2 DEF FloorSeq
<1>3. CASE rows # {}
  <2>1. FloorSeq \in rows /\ \A r \in rows : FloorSeq <= r
    BY <1>1, <1>3, MinIsLeast DEF FloorSeq
  <2> QED
    BY <1>1, <1>3, <2>1
<1> QED
  BY <1>2, <1>3

-----------------------------------------------------------------------------
(* What a step of Seam does to a stream: what is written stays, and whatever  *)
(* comes nearer to the client was already on its way, in the table, or about  *)
(* to be announced.                                                           *)

Flow(c) ==
    /\ since'[c] = since[c]
    /\ \A i \in 1 .. taken[c] : sent'[c][i] = sent[c][i]
    /\ Ran(sent[c])' \subseteq Ran(sent[c]) \cup chunk[c] \cup ({held[c]} \ {0})
    /\ Ran(live[c])' \subseteq Ran(live[c]) \cup ({unsent} \ {0})
    /\ chunk'[c] \subseteq chunk[c] \cup rows
    /\ held'[c] \in {0, held[c]} \cup Ran(live[c])

HandlerStands(c) == UNCHANGED <<handler[c], taken[c], wrote[c]>>

LEMMA FlowOfNothing ==
    ASSUME NEW c \in Consumers, UNCHANGED Locals(c)
    PROVE  Flow(c) /\ HandlerStands(c)
  BY DEF Flow, Locals, HandlerStands

\* Only the channel sent of c changes hands.
LEMMA FlowOfReturn ==
    ASSUME SeamInv, NEW c \in Consumers, Return(c) \/ LeaveBackfill(c)
    PROVE  Flow(c) /\ HandlerStands(c)
<1>1. /\ chunk'[c] = {} /\ held'[c] \in {0, held[c]}
      /\ UNCHANGED <<since[c], sent[c], live[c], handler[c], taken[c], wrote[c]>>
  BY DEF Return, LeaveBackfill, hubVars, handlerVars, SeamInv, SeamTypeOK, StreamTypes
<1> QED
  BY <1>1 DEF Flow, HandlerStands

LEMMA FlowOfAppend ==
    ASSUME SeamInv, NEW c \in Consumers, NEW e \in Seqs, sent'[c] = Append(sent[c], e)
    PROVE  /\ \A i \in 1 .. taken[c] : sent'[c][i] = sent[c][i]
           /\ Ran(sent[c])' = Ran(sent[c]) \cup {e}
<1>1. sent[c] \in Seq(Seqs) /\ taken[c] \in Nat /\ taken[c] <= Len(sent[c])
  BY AtEach DEF At, Capacity
<1>2. Ran(Append(sent[c], e)) = Ran(sent[c]) \cup {e}
  BY <1>1, RanAppend
<1>3. \A i \in 1 .. Len(sent[c]) : Append(sent[c], e)[i] = sent[c][i]
  BY <1>1
<1> QED
  BY <1>1, <1>2, <1>3 DEF Ran

LEMMA FlowOfStream ==
    ASSUME SeamInv, NEW c \in Consumers, Stream(c)
    PROVE  Flow(c) /\ HandlerStands(c)
<1>1. At(c) /\ Num(c) /\ LogTypeOK
  BY AtEach, Numbers
<1> USE DEF SeamInv, SeamTypeOK, StreamTypes, HubTypes, HandlerTypes
<1>2. CASE ReadHead(c)
  BY <1>2 DEF ReadHead, hubVars, handlerVars, Flow, HandlerStands
<1>3. CASE ReadChunk(c)
  <2>1. /\ chunk'[c] \in Chunks(cursor[c])
        /\ UNCHANGED <<since[c], sent[c], live[c], held[c], handler[c], taken[c], wrote[c]>>
    BY <1>3 DEF ReadChunk, hubVars, handlerVars
  <2>2. chunk'[c] \subseteq rows
    BY <2>1 DEF Chunks, Later
  <2> QED
    BY <2>1, <2>2 DEF Flow, HandlerStands
<1>4. CASE Push(c)
  <2>1. PICK e \in chunk[c] : /\ sent'[c] = Append(sent[c], e)
                              /\ chunk'[c] = chunk[c] \ {e}
    BY <1>4 DEF Push
  <2>2. UNCHANGED <<since[c], live[c], held[c], handler[c], taken[c], wrote[c]>>
    BY <1>4 DEF Push, hubVars, handlerVars
  <2>3. e \in Seqs
    BY <1>1, <2>1 DEF At
  <2>4. /\ \A i \in 1 .. taken[c] : sent'[c][i] = sent[c][i]
        /\ Ran(sent[c])' = Ran(sent[c]) \cup {e}
    BY <2>1, <2>3, FlowOfAppend
  <2> QED
    BY <2>1, <2>2, <2>4 DEF Flow, HandlerStands
<1>5. CASE ReadFails(c)
  BY <1>5, FlowOfReturn DEF ReadFails
<1>6. CASE BackfillCancelled(c)
  <2>1. CASE FallThrough(c)
    BY <2>1 DEF FallThrough, hubVars, handlerVars, Flow, HandlerStands
  <2> QED
    BY <1>6, <2>1, FlowOfReturn DEF BackfillCancelled
<1>7. CASE StopDrain(c)
  <2>1. CASE Cancelled(c)
    BY <1>7, <2>1, FlowOfReturn DEF StopDrain
  <2>2. CASE ~Cancelled(c)
    BY <1>7, <2>2 DEF StopDrain, hubVars, handlerVars, Flow, HandlerStands
  <2> QED
    BY <2>1, <2>2
<1>8. CASE AbortBackfill(c) \/ LeaveLive(c)
  BY <1>8, FlowOfReturn DEF AbortBackfill, LeaveLive
<1>9. CASE Receive(c)
  <2>1. /\ live[c] # <<>> /\ live'[c] = Tail(live[c]) /\ held'[c] \in {held[c], Head(live[c])}
        /\ UNCHANGED <<since[c], sent[c], chunk[c], handler[c], taken[c], wrote[c]>>
    BY <1>9 DEF Receive, handlerVars
  <2>2. live[c] \in Seq(Seqs)
    BY <1>1 DEF At
  <2>3. Ran(live[c]) = {Head(live[c])} \cup Ran(Tail(live[c]))
    BY <2>1, <2>2, RanTail
  <2>4. Ran(live[c])' = Ran(Tail(live[c]))
    BY <2>1 DEF Ran
  <2> QED
    BY <2>1, <2>3, <2>4 DEF Flow, HandlerStands
<1>10. CASE Deliver(c)
  <2>1. /\ sent'[c] = Append(sent[c], held[c]) /\ held'[c] = 0
        /\ UNCHANGED <<since[c], live[c], chunk[c], handler[c], taken[c], wrote[c]>>
    BY <1>10 DEF Deliver, hubVars, handlerVars
  <2>2. held[c] # 0 /\ held[c] \in 0 .. MaxSeq
    BY <1>1, <1>10 DEF Deliver, At, Healthy, Shape
  <2>3. held[c] \in Seqs
    BY <2>2, MaxSeqAssumption DEF Seqs
  <2>4. /\ \A i \in 1 .. taken[c] : sent'[c][i] = sent[c][i]
        /\ Ran(sent[c])' = Ran(sent[c]) \cup {held[c]}
    BY <2>1, <2>3, FlowOfAppend
  <2>5. held[c] \in {held[c]} \ {0}
    BY <2>2
  <2> QED
    BY <2>1, <2>4, <2>5 DEF Flow, HandlerStands
<1> QED
  BY <1>2, <1>3, <1>4, <1>5, <1>6, <1>7, <1>8, <1>9, <1>10 DEF Stream

LEMMA FlowOfDrainer ==
    ASSUME SeamInv, NEW c \in Consumers, Drainer(c)
    PROVE  Flow(c) /\ HandlerStands(c)
<1> USE DEF SeamInv, SeamTypeOK, HubTypes
<1>1. CASE Drain(c)
  <2>1. /\ live[c] # <<>> /\ live'[c] = Tail(live[c]) /\ live[c] \in Seq(Seqs)
        /\ UNCHANGED <<since[c], sent[c], chunk[c], held[c], handler[c], taken[c], wrote[c]>>
    BY <1>1 DEF Drain, streamVars, handlerVars
  <2>2. Ran(live[c]) = {Head(live[c])} \cup Ran(Tail(live[c]))
    BY <2>1, RanTail
  <2>3. Ran(live[c])' \subseteq Ran(live[c])
    BY <2>1, <2>2 DEF Ran
  <2> QED
    BY <2>1, <2>3 DEF Flow, HandlerStands
<1>2. CASE DrainExit(c)
  BY <1>2 DEF DrainExit, streamVars, hubVars, handlerVars, Flow, HandlerStands
<1> QED
  BY <1>1, <1>2 DEF Drainer

LEMMA FlowOfLog ==
    ASSUME SeamInv, NEW c \in Consumers, Ingest \/ Broadcast \/ Prune
    PROVE  Flow(c) /\ HandlerStands(c)
<1>1. CASE Ingest \/ Prune
  BY <1>1 DEF Ingest, Prune, seamVars, streamVars, hubVars, handlerVars, Flow, HandlerStands
<1>2. CASE Broadcast
  <2>1. /\ live'[c] \in {live[c], Append(live[c], unsent)} /\ unsent # 0
        /\ UNCHANGED <<since[c], sent[c], chunk[c], held[c], handler[c], taken[c], wrote[c]>>
    BY <1>2 DEF Broadcast, Announce, streamVars, handlerVars
  <2>2. live[c] \in Seq(Seqs) /\ unsent \in Seqs
    BY <2>1, AtEach, MaxSeqAssumption DEF At, LogTypeOK, Seqs
  <2>3. Ran(live[c])' \subseteq Ran(live[c]) \cup {unsent}
    <3>1. Ran(Append(live[c], unsent)) = Ran(live[c]) \cup {unsent}
      BY <2>2, RanAppend
    <3> QED
      BY <2>1, <3>1 DEF Ran
  <2> QED
    BY <2>1, <2>3 DEF Flow, HandlerStands
<1> QED
  BY <1>1, <1>2

\* What the handler does to the stream while it goes on.
LEMMA FlowOfHandler ==
    ASSUME SeamInv, NEW c \in Consumers,
           Take(c) \/ WriteOK(c) \/ WriteFails(c) \/ TooSlow(c) \/ CleanupDrains(c)
    PROVE  Flow(c)
<1> QED
  BY DEF Take, WriteOK, WriteFails, TooSlow, Cleanup, CleanupDrains, streamVars, hubVars, Flow

LEMMA NewerStays ==
    ASSUME NEW c \in Consumers, NEW p \in Int, LogTypeOK, Num(c), LogGrows, Flow(c), Newer(c, p)
    PROVE  Newer(c, p)'
<1>1. \A r \in rows' : p < r
  BY DEF Newer, LogGrows
<1>2. unsent # 0 => p < unsent
  BY DEF LogTypeOK, Newer
<1>3. \A x \in Ran(live[c])' : p < x
  BY <1>2 DEF Flow, Newer
<1>4. \A x \in Ran(sent[c])' : p < x
  BY DEF Flow, Newer
<1>5. \A x \in chunk'[c] : p < x
  BY DEF Flow, Newer
<1>6. held'[c] # 0 => p < held'[c]
  BY DEF Flow, Newer
<1>7. p < lastSeq'
  BY DEF LogGrows, Newer
<1> QED
  BY <1>1, <1>3, <1>4, <1>5, <1>6, <1>7 DEF Newer

-----------------------------------------------------------------------------
(* Clients that a step of Seam carries along *)

Client(c) == Evaluates(c) /\ Follows(c) /\ Outdated(c) /\ Resumes(c)

\* What is said of a client, as one value.
ClientLocals(c) == <<req[c], asked[c], readHead[c], start[c], told[c], pos[c], origin[c], got[c]>>

\* The log may grow and the stream move on: what the client has read stands.
LEMMA ReadsStay ==
    ASSUME SubInv, NEW c \in Consumers, LogGrows, Flow(c), Reads(c),
           UNCHANGED <<wrote[c], pos[c], origin[c], got[c]>>
    PROVE  Reads(c)'
<1>1. At(c) /\ Num(c) /\ LogTypeOK /\ ClientTypes(c)
  BY AtClient
<1>2. wrote[c] \in Nat /\ taken[c] \in Nat /\ wrote[c] <= taken[c]
  BY <1>1 DEF At, Capacity
<1>3. \A i \in 1 .. wrote[c] : sent'[c][i] = sent[c][i]
  BY <1>2 DEF Flow
<1>4. Received(c)' \subseteq got'[c]
  BY <1>3 DEF Reads, Received, Upto
<1>5. since[c] <= lastSeq /\ since[c] \in Int
  BY <1>1 DEF At, Healthy, Order, Bounds, Num
<1>6. \A r \in rows' : origin'[c] < r /\ r <= since'[c] => r \in got'[c]
  BY <1>5 DEF Flow, Reads, LogGrows
<1>7. wrote'[c] > 0 => pos'[c] = sent'[c][wrote'[c]]
  BY <1>2, <1>3 DEF Reads
<1>8. pos[c] \in Int
  BY <1>1 DEF ClientTypes
<1>9. Newer(c, pos[c]) => Newer(c, pos[c])'
  BY <1>1, <1>8, NewerStays
<1>10. wrote'[c] = 0 => since'[c] >= pos'[c] \/ Newer(c, pos[c])'
  BY <1>9 DEF Flow, Reads
<1> QED
  BY <1>4, <1>6, <1>7, <1>10 DEF Reads, Newer

\* A client whose handler stands.
LEMMA ClientStays ==
    ASSUME SubInv, NEW c \in Consumers, LogGrows, Flow(c), HandlerStands(c), UNCHANGED ClientLocals(c)
    PROVE  Client(c)'
<1>1. ClientTypes(c) /\ Evaluates(c) /\ Follows(c) /\ Outdated(c) /\ Resumes(c)
  BY AtClient
<1>2. Evaluates(c)' /\ Outdated(c)'
  BY <1>1, EvaluationStays DEF ClientLocals
<1>3. pos'[c] <= lastSeq' /\ Resumes(c)'
  BY <1>1, PositionStays DEF ClientLocals, Follows
<1>4. Counted(c)'
  BY <1>1 DEF Follows, Counted, HandlerStands
<1>5. handler'[c] # "idle" => Reads(c)'
  BY <1>1, ReadsStay DEF Follows, HandlerStands, ClientLocals
<1> QED
  BY <1>2, <1>3, <1>4, <1>5 DEF Client, Follows

\* A client that is disconnected keeps its position.
LEMMA ClientLeaves ==
    ASSUME SubInv, NEW c \in Consumers, LogGrows, handler'[c] = "idle", req'[c] \in {req[c], "none"},
           UNCHANGED <<asked[c], readHead[c], start[c], told[c], pos[c], origin[c], got[c]>>
    PROVE  Client(c)'
<1>1. ClientTypes(c) /\ Evaluates(c) /\ Follows(c) /\ Outdated(c) /\ Resumes(c)
  BY AtClient
<1>2. Evaluates(c)' /\ Outdated(c)'
  BY <1>1, EvaluationStays
<1>3. pos'[c] <= lastSeq' /\ Resumes(c)'
  BY <1>1, PositionStays DEF Follows
<1>4. Counted(c)'
  BY DEF Counted
<1> QED
  BY <1>2, <1>3, <1>4 DEF Client, Follows

\* An evaluation that goes on while Seam stands still.
LEMMA LogStands ==
    ASSUME LogTypeOK, UNCHANGED logVars
    PROVE  LogGrows
  BY MaxSeqAssumption DEF LogTypeOK, logVars, LogGrows

LEMMA FollowsStands ==
    ASSUME NEW c \in Consumers, Follows(c), Resumes(c), UNCHANGED vars,
           UNCHANGED <<pos[c], origin[c], got[c]>>
    PROVE  Follows(c)' /\ Resumes(c)'
  BY DEF Follows, Counted, Reads, Newer, Received, Resumes, vars, logVars, seamVars, streamVars,
         hubVars, handlerVars

-----------------------------------------------------------------------------
(* The evaluation of the cursor *)

LEMMA ConnectInv ==
    ASSUME SubInv, NEW c \in Consumers, Connect(c)
    PROVE  Client(c)'
<1>1. ClientTypes(c) /\ LogTypeOK /\ Follows(c) /\ Resumes(c)
  BY AtClient
<1>2. PICK k \in IF pos[c] = NoCursor THEN {NoCursor} \cup 0 .. MaxSeq ELSE {pos[c]} :
         asked'[c] = k /\ req'[c] = IF k = NoCursor THEN "live" ELSE "status"
  BY DEF Connect, SubInv, SubTypeOK
<1>3. told'[c] = "nothing" /\ pos' = pos /\ origin' = origin /\ got' = got /\ UNCHANGED vars
  BY DEF Connect, clientVars, SubInv, SubTypeOK
<1>4. Evaluates(c)' /\ Outdated(c)'
  BY <1>2, <1>3 DEF Evaluates, Outdated
<1> QED
  BY <1>1, <1>3, <1>4, FollowsStands DEF Client

LEMMA EvalLiveInv ==
    ASSUME SubInv, NEW c \in Consumers, EvalLive(c)
    PROVE  Client(c)'
<1>1. ClientTypes(c) /\ LogTypeOK /\ Evaluates(c) /\ Follows(c) /\ Outdated(c) /\ Resumes(c)
  BY AtClient
<1>2. /\ req[c] = "live" /\ req'[c] = "stream" /\ start'[c] = HeadSeq
      /\ UNCHANGED <<vars, asked, told, pos, origin, got>>
  BY DEF EvalLive, clientVars, SubInv, SubTypeOK
<1>3. asked[c] = NoCursor /\ pos[c] = NoCursor /\ HeadSeq \in 0 .. lastSeq /\ lastSeq \in Nat
  BY <1>1, <1>2, HeadIsBound, MaxSeqAssumption DEF Evaluates, LogTypeOK
<1>4. lastSeq' = lastSeq
  BY <1>2 DEF vars, logVars
<1>5. Evaluates(c)'
  BY <1>2, <1>3, <1>4 DEF Evaluates, NoCursor
<1>6. Outdated(c)'
  BY <1>1, <1>2 DEF Outdated, vars, logVars
<1> QED
  BY <1>1, <1>2, <1>5, <1>6, FollowsStands DEF Client

LEMMA EvalHeadInv ==
    ASSUME SubInv, NEW c \in Consumers, EvalHead(c)
    PROVE  Client(c)'
<1>1. ClientTypes(c) /\ LogTypeOK /\ Evaluates(c) /\ Follows(c) /\ Outdated(c) /\ Resumes(c)
  BY AtClient
<1>2. /\ req[c] = "status" /\ req'[c] = "floor" /\ readHead'[c] = HeadSeq
      /\ UNCHANGED <<vars, asked, told, pos, origin, got>>
  BY DEF EvalHead, clientVars, SubInv, SubTypeOK
<1>3. HeadSeq <= lastSeq /\ lastSeq' = lastSeq
  BY <1>1, <1>2, HeadIsBound DEF vars, logVars
<1>4. Evaluates(c)'
  BY <1>1, <1>2, <1>3 DEF Evaluates
<1>5. Outdated(c)'
  BY <1>1, <1>2 DEF Outdated, vars, logVars
<1> QED
  BY <1>1, <1>2, <1>4, <1>5, FollowsStands DEF Client

LEMMA EvalFloorInv ==
    ASSUME SubInv, NEW c \in Consumers, EvalFloor(c)
    PROVE  Client(c)'
<1>1. ClientTypes(c) /\ LogTypeOK /\ Evaluates(c) /\ Follows(c) /\ Outdated(c) /\ Resumes(c)
  BY AtClient
<1>2. req[c] = "floor" /\ UNCHANGED <<vars, asked, pos, origin, got>>
  BY DEF EvalFloor, clientVars
<1>3. UNCHANGED <<lastSeq, rows>>
  BY <1>2 DEF vars, logVars
<1>4. /\ FloorSeq \in 0 .. lastSeq /\ lastSeq \in Nat /\ rows \subseteq 1 .. lastSeq
      /\ \A r \in rows : FloorSeq <= r
  BY <1>1, FloorIsBound, MaxSeqAssumption DEF LogTypeOK
<1>5. Evaluates(c)' /\ Outdated(c)'
  <2>1. CASE /\ told' = [told EXCEPT ![c] = "FutureCursor"]
             /\ req' = [req EXCEPT ![c] = "none"]
    <3>1. told'[c] = "FutureCursor" /\ req'[c] = "none"
      BY <2>1 DEF SubInv, SubTypeOK
    <3> QED
      BY <3>1 DEF Evaluates, Outdated
  <2>2. CASE /\ CursorOutdated(c)
             /\ req' = [req EXCEPT ![c] = "outdated"]
             /\ UNCHANGED <<start, told>>
    <3>1. req'[c] = "outdated"
      BY <2>2 DEF SubInv, SubTypeOK
    <3>2. asked[c] + 1 < FloorSeq /\ asked[c] \in Int
      BY <1>1, <1>4, <2>2 DEF CursorOutdated, ClientTypes
    <3>3. asked[c] + 1 < lastSeq /\ \A r \in rows : asked[c] + 1 < r
      BY <1>4, <3>2
    <3> QED
      BY <1>1, <1>2, <1>3, <2>2, <3>1, <3>3 DEF Evaluates, Outdated
  <2>3. CASE /\ ~CursorFuture(c)
             /\ start' = [start EXCEPT ![c] = asked[c]]
             /\ req' = [req EXCEPT ![c] = "stream"]
             /\ UNCHANGED told
    <3>1. req'[c] = "stream" /\ start'[c] = asked[c]
      BY <2>3 DEF SubInv, SubTypeOK
    <3>2. asked[c] <= lastSeq
      BY <1>1, <1>2, <1>4, <2>3 DEF CursorFuture, Evaluates, ClientTypes
    <3>3. asked[c] >= pos[c]
      BY <1>1, <1>2 DEF Evaluates, ClientTypes, NoCursor
    <3> QED
      BY <1>1, <1>2, <1>3, <2>3, <3>1, <3>2, <3>3 DEF Evaluates, Outdated
  <2> QED
    BY <2>1, <2>2, <2>3 DEF EvalFloor
<1> QED
  BY <1>1, <1>2, <1>5, FollowsStands DEF Client

LEMMA EvalOutdatedInv ==
    ASSUME SubInv, NEW c \in Consumers, EvalOutdated(c)
    PROVE  Client(c)'
<1>1. ClientTypes(c) /\ LogTypeOK /\ Evaluates(c) /\ Follows(c) /\ Resumes(c)
  BY AtClient
<1>2. /\ req[c] = "outdated" /\ req'[c] = "stream" /\ start'[c] = FloorSeq - 1
      /\ UNCHANGED <<vars, asked, pos, origin, got>>
  BY DEF EvalOutdated, clientVars, SubInv, SubTypeOK
<1>3. UNCHANGED <<lastSeq, rows>>
  BY <1>2 DEF vars, logVars
<1>4. /\ FloorSeq \in 0 .. lastSeq /\ lastSeq \in Nat
      /\ \A r \in rows : r \in Nat /\ FloorSeq <= r
  BY <1>1, FloorIsBound, MaxSeqAssumption DEF LogTypeOK
<1>5. /\ asked[c] \in 0 .. MaxSeq /\ asked[c] + 1 < lastSeq
      /\ \A r \in rows : asked[c] + 1 < r
  BY <1>1, <1>2 DEF Evaluates, ClientTypes, NoCursor
<1>6. pos[c] < lastSeq /\ \A r \in rows : pos[c] < r
  BY <1>1, <1>2, <1>4, <1>5 DEF Evaluates, ClientTypes, NoCursor
<1>7. Evaluates(c)'
  BY <1>1, <1>2, <1>3, <1>4, <1>6 DEF Evaluates
<1>8. asked[c] + 1 \in 1 .. lastSeq \ rows
  BY <1>4, <1>5
<1>9. Outdated(c)'
  BY <1>2, <1>3, <1>8 DEF Outdated
<1> QED
  BY <1>1, <1>2, <1>7, <1>9, FollowsStands DEF Client

LEMMA EvalFailsInv ==
    ASSUME SubInv, NEW c \in Consumers, EvalFails(c)
    PROVE  Client(c)'
<1>1. ClientTypes(c) /\ LogTypeOK /\ Evaluates(c) /\ Follows(c) /\ Outdated(c) /\ Resumes(c)
  BY AtClient
<1>2. req'[c] = "none" /\ UNCHANGED <<vars, asked, readHead, start, told, pos, origin, got>>
  BY DEF EvalFails, evalVars, clientVars, SubInv, SubTypeOK
<1>3. LogGrows
  BY <1>1, <1>2, LogStands DEF vars
<1>4. Evaluates(c)' /\ Outdated(c)'
  BY <1>1, <1>2, <1>3, EvaluationStays
<1> QED
  BY <1>1, <1>2, <1>4, FollowsStands DEF Client

\* A stream begins where Evaluates says: nothing survives between the position
\* of the client and the start that it would not get.
LEMMA BeginStreamInv ==
    ASSUME SubInv, NEW c \in Consumers, BeginStream(c)
    PROVE  Client(c)'
<1>1. /\ At(c) /\ Num(c) /\ LogTypeOK /\ ClientTypes(c)
      /\ Evaluates(c) /\ Follows(c) /\ Outdated(c) /\ Resumes(c)
  BY AtClient
<1>2. /\ req[c] = "stream" /\ req'[c] = "none" /\ origin'[c] = Origin(c)
      /\ UNCHANGED <<logVars, asked[c], told[c], pos[c], got[c]>>
  BY DEF BeginStream, StreamFrom, evalVars, SubInv, SubTypeOK
<1>3. /\ handler'[c] = "take" /\ since'[c] = start[c] /\ handler[c] = "idle"
      /\ UNCHANGED <<chunk[c], held[c], live[c], sent[c], taken[c], wrote[c]>>
  BY DEF BeginStream, StreamFrom, SeamInv, SubInv, SeamTypeOK, StreamTypes, HubTypes, HandlerTypes
<1>4. /\ sent[c] = <<>> /\ live[c] = <<>> /\ chunk[c] = {} /\ held[c] = 0
      /\ taken[c] = 0 /\ wrote[c] = 0
  BY <1>1, <1>3 DEF At, Healthy, Shape
<1>5. Ran(sent[c])' = {} /\ Ran(live[c])' = {} /\ Received(c)' = {}
  BY <1>3, <1>4 DEF Ran, Received, Upto
<1>6. UNCHANGED <<lastSeq, rows>>
  BY <1>2 DEF logVars
<1>7. /\ asked[c] # NoCursor => \A r \in rows : asked[c] < r => start[c] < r
      /\ start[c] >= pos[c] \/ (pos[c] < lastSeq /\ \A r \in rows : pos[c] < r)
      /\ pos[c] # NoCursor => asked[c] = pos[c]
      /\ pos[c] \in Int /\ asked[c] \in Int /\ start[c] \in Int /\ \A r \in rows : r \in Nat
  BY <1>1, <1>2 DEF Evaluates, ClientTypes, Num
<1>8. \A r \in rows : origin'[c] < r /\ r <= start[c] => r \in got[c]
  <2>1. CASE pos[c] # NoCursor
    BY <1>1, <1>2, <1>7, <2>1 DEF Origin, Resumes
  <2>2. CASE pos[c] = NoCursor
    BY <1>2, <1>7, <2>2 DEF Origin
  <2> QED
    BY <2>1, <2>2
<1>9. Reads(c)'
  BY <1>2, <1>3, <1>4, <1>5, <1>6, <1>7, <1>8 DEF Reads, Newer
<1>10. Follows(c)'
  BY <1>1, <1>2, <1>3, <1>4, <1>6, <1>9 DEF Follows, Counted
<1>11. Resumes(c)'
  <2>1. CASE pos[c] # NoCursor
    BY <1>1, <1>2, <1>6, <2>1 DEF Origin, Resumes
  <2>2. CASE pos[c] = NoCursor
    BY <1>2, <1>6, <1>7, <2>2 DEF Resumes, NoCursor
  <2> QED
    BY <2>1, <2>2
<1>12. Evaluates(c)' /\ Outdated(c)'
  BY <1>1, <1>2, <1>6 DEF Evaluates, Outdated
<1> QED
  BY <1>10, <1>11, <1>12 DEF Client

-----------------------------------------------------------------------------
(* The write loop *)

\* The event the client reads is the next one; below it the stream has no gap.
LEMMA ClientReadsInv ==
    ASSUME SubInv, NEW c \in Consumers, ClientReads(c)
    PROVE  Client(c)'
<1>1. /\ At(c) /\ Num(c) /\ LogTypeOK /\ ClientTypes(c)
      /\ Evaluates(c) /\ Follows(c) /\ Outdated(c) /\ Resumes(c) /\ SeamInv
  BY AtClient
<1> DEFINE x == sent[c][taken[c]]
<1>2. /\ pos'[c] = x /\ got'[c] = got[c] \cup {x}
      /\ UNCHANGED <<req[c], asked[c], told[c], origin[c]>>
  BY DEF ClientReads, evalVars, SubInv, SubTypeOK
<1>3. /\ handler[c] = "write" /\ handler'[c] = "take" /\ wrote'[c] = taken[c]
      /\ UNCHANGED <<logVars, since[c], sent[c], taken[c]>>
  BY <1>1 DEF ClientReads, WriteOK, streamVars, SeamInv, SeamTypeOK, HandlerTypes
<1>4. UNCHANGED <<lastSeq, rows>>
  BY <1>3 DEF logVars
<1>5. Reads(c) /\ wrote[c] \in Nat /\ taken[c] = wrote[c] + 1 /\ taken[c] <= Len(sent[c])
  BY <1>1, <1>3 DEF Follows, Counted, At, Capacity
<1>6. x \in Ran(sent[c]) /\ x \in Nat /\ x <= lastSeq
  <2>1. taken[c] \in 1 .. Len(sent[c])
    BY <1>1, <1>5 DEF At
  <2>2. x \in Ran(sent[c])
    BY <2>1 DEF Ran
  <2> QED
    BY <1>1, <2>2 DEF At, Num, Healthy, Order, Bounds
<1>7. Received(c)' = Received(c) \cup {x}
  <2>1. Received(c) = {sent[c][i] : i \in 1 .. wrote[c]}
    BY DEF Received, Upto
  <2>2. Received(c)' = {sent[c][i] : i \in 1 .. wrote[c] + 1}
    BY <1>3, <1>5 DEF Received, Upto
  <2>3. 1 .. wrote[c] + 1 = 1 .. wrote[c] \cup {wrote[c] + 1}
    BY <1>5
  <2> QED
    BY <1>5, <2>1, <2>2, <2>3
<1>8. Reads(c)'
  <2>1. Received(c)' \subseteq got'[c]
    BY <1>2, <1>5, <1>7 DEF Reads
  <2>2. \A r \in rows' : origin'[c] < r /\ r <= since'[c] => r \in got'[c]
    BY <1>2, <1>3, <1>4, <1>5 DEF Reads
  <2>3. wrote'[c] > 0 /\ pos'[c] = sent'[c][wrote'[c]]
    BY <1>2, <1>3, <1>5
  <2> QED
    BY <2>1, <2>2, <2>3 DEF Reads
<1>9. Follows(c)'
  BY <1>2, <1>3, <1>4, <1>6, <1>8 DEF Follows, Counted
<1>10. Resumes(c)'
  <2>1. ReceivedNoGap(c)'
    BY <1>1, DoWriteOK DEF ClientReads, Healthy, Complete
  <2> SUFFICES ASSUME NEW s \in rows, origin[c] < s, s <= x
               PROVE  s \in got'[c]
    BY <1>2, <1>4 DEF Resumes
  <2>2. s \in Nat /\ since[c] \in Int
    BY <1>1 DEF Num
  <2>3. CASE s <= since[c]
    BY <1>2, <1>5, <2>3 DEF Reads
  <2>4. CASE since[c] < s
    <3>1. s \in Received(c)'
      BY <1>3, <1>4, <1>6, <1>7, <2>1, <2>2, <2>4 DEF ReceivedNoGap
    <3> QED
      BY <1>8, <3>1 DEF Reads
  <2> QED
    BY <2>2, <2>3, <2>4
<1>11. Evaluates(c)' /\ Outdated(c)'
  BY <1>1, <1>2, <1>3, <1>4 DEF Evaluates, Outdated, ClientTypes
<1> QED
  BY <1>9, <1>10, <1>11 DEF Client

LEMMA SubHandlerInv ==
    ASSUME SubInv, NEW c \in Consumers, SubHandler(c)
    PROVE  Client(c)'
<1>1. /\ At(c) /\ Num(c) /\ LogTypeOK /\ ClientTypes(c) /\ SeamInv
      /\ Evaluates(c) /\ Follows(c) /\ Outdated(c) /\ Resumes(c)
  BY AtClient
<1>2. CASE Disconnect(c) /\ UNCHANGED subscribeVars
  <2>1. handler'[c] = "idle" /\ UNCHANGED <<logVars, subscribeVars>>
    BY <1>2 DEF Disconnect, Forget
  <2> QED
    BY <1>1, <2>1, LogStands, ClientLeaves DEF subscribeVars, evalVars, clientVars
<1>3. CASE (Take(c) \/ WriteFails(c) \/ CleanupDrains(c)) /\ UNCHANGED subscribeVars
  <2>1. /\ UNCHANGED <<logVars, wrote>> /\ handler[c] # "idle"
        /\ UNCHANGED <<req, asked, readHead, start, told, pos, origin, got>>
    BY <1>3 DEF Take, WriteFails, Cleanup, CleanupDrains, subscribeVars, evalVars, clientVars
  <2>2. LogGrows
    BY <1>1, <2>1, LogStands
  <2>3. Reads(c)'
    BY <1>1, <1>3, <2>1, <2>2, FlowOfHandler, ReadsStay DEF Follows
  <2>4. Counted(c)'
    BY <1>1, <1>3 DEF Take, WriteFails, Cleanup, CleanupDrains, Follows, Counted, SeamInv,
       SeamTypeOK, HandlerTypes
  <2>5. Evaluates(c)' /\ Outdated(c)'
    BY <1>1, <2>1, <2>2, EvaluationStays
  <2>6. pos'[c] <= lastSeq' /\ Resumes(c)'
    BY <1>1, <2>1, <2>2, PositionStays DEF Follows
  <2> QED
    BY <2>3, <2>4, <2>5, <2>6 DEF Client, Follows
<1>4. CASE ClientTooSlow(c)
  <2>1. /\ UNCHANGED <<logVars, wrote, taken>> /\ handler[c] # "idle" /\ handler'[c] = "cleanup"
        /\ UNCHANGED <<req, asked, readHead, start, pos, origin, got>>
        /\ told'[c] = "ConsumerTooSlow"
    BY <1>1, <1>4 DEF ClientTooSlow, TooSlow, Cleanup, evalVars, clientVars, SubInv, SubTypeOK,
       SeamInv, SeamTypeOK, HandlerTypes
  <2>2. LogGrows
    BY <1>1, <2>1, LogStands
  <2>3. Reads(c)'
    BY <1>1, <1>4, <2>1, <2>2, FlowOfHandler, ReadsStay DEF ClientTooSlow, Follows
  <2>4. pos'[c] <= lastSeq' /\ Resumes(c)'
    BY <1>1, <2>1, <2>2, PositionStays DEF Follows
  <2>5. Evaluates(c)'
    BY <1>1, <2>1 DEF Evaluates, logVars
  <2> QED
    BY <2>1, <2>3, <2>4, <2>5 DEF Client, Follows, Counted, Outdated
<1> QED
  BY <1>2, <1>3, <1>4, ClientReadsInv DEF SubHandler

-----------------------------------------------------------------------------
(* Every step *)

\* Seam moves by its own steps: a stream begins within the log.
LEMMA SeamMoves ==
    ASSUME SubInv, [SubNext]_allVars
    PROVE  [Next]_vars
<1>1. ASSUME NEW c \in Consumers, Connect(c) \/ Eval(c) PROVE [Next]_vars
  <2>1. CASE BeginStream(c)
    <3>1. start[c] \in -1 .. lastSeq
      BY <2>1, AtClient DEF BeginStream, Evaluates, ClientTypes, Num
    <3> QED
      BY <2>1, <3>1 DEF BeginStream, Next
  <2> QED
    BY <1>1, <2>1 DEF Connect, Eval, EvalLive, EvalHead, EvalFloor, EvalOutdated, EvalFails
<1>2. ASSUME NEW c \in Consumers, SubHandler(c) PROVE Next
  BY <1>2 DEF SubHandler, ClientReads, ClientTooSlow, Handler, Next
<1> QED
  BY <1>1, <1>2 DEF SubNext, SubCrash, Next, allVars

\* A step of one client leaves the others alone.
LEMMA OtherClients ==
    ASSUME SubInv, NEW c \in Consumers, Connect(c) \/ Eval(c) \/ SubHandler(c),
           NEW d \in Consumers, c # d
    PROVE  UNCHANGED logVars /\ UNCHANGED Locals(d) /\ UNCHANGED ClientLocals(d)
<1> USE DEF ClientLocals, SubInv, SubTypeOK, evalVars, clientVars, subscribeVars
<1>1. CASE Connect(c) \/ EvalLive(c) \/ EvalHead(c) \/ EvalFloor(c) \/ EvalOutdated(c) \/ EvalFails(c)
  <2>1. UNCHANGED vars
    BY <1>1 DEF Connect, EvalLive, EvalHead, EvalFloor, EvalOutdated, EvalFails
  <2>2. UNCHANGED logVars /\ UNCHANGED Locals(d)
    BY <2>1 DEF vars, seamVars, streamVars, hubVars, handlerVars, Locals
  <2>3. UNCHANGED ClientLocals(d)
    BY <1>1 DEF Connect, EvalLive, EvalHead, EvalFloor, EvalOutdated, EvalFails
  <2> QED
    BY <2>2, <2>3
<1>2. CASE BeginStream(c)
  <2>1. start[c] \in -1 .. lastSeq
    BY <1>2, AtClient DEF BeginStream, Evaluates, ClientTypes, Num
  <2>2. UNCHANGED Locals(d)
    BY <1>2, <2>1, Others DEF BeginStream
  <2>3. UNCHANGED logVars
    BY <1>2 DEF BeginStream, StreamFrom
  <2>4. UNCHANGED ClientLocals(d)
    BY <1>2 DEF BeginStream
  <2> QED
    BY <2>2, <2>3, <2>4
<1>3. CASE SubHandler(c)
  <2>1. Handler(c)
    BY <1>3 DEF SubHandler, ClientReads, ClientTooSlow, Handler
  <2>2. UNCHANGED Locals(d)
    BY <2>1, Others
  <2>3. UNCHANGED logVars
    BY <2>1 DEF Handler, Take, WriteOK, WriteFails, TooSlow, Cleanup, CleanupDrains, Disconnect
  <2>4. UNCHANGED ClientLocals(d)
    BY <1>3 DEF SubHandler, ClientReads, ClientTooSlow
  <2> QED
    BY <2>2, <2>3, <2>4
<1> QED
  BY <1>1, <1>2, <1>3 DEF Eval

LEMMA ClientStep ==
    ASSUME SubInv, [SubNext]_allVars, LogGrows, NEW d \in Consumers
    PROVE  Client(d)'
<1>1. CASE (Ingest \/ Broadcast \/ Prune) /\ UNCHANGED subscribeVars
  BY <1>1, FlowOfLog, ClientStays DEF SubInv, subscribeVars, evalVars, clientVars, ClientLocals
<1>2. CASE SubCrash
  <2>1. /\ handler'[d] = "idle" /\ req'[d] = "none"
        /\ UNCHANGED <<asked[d], readHead[d], start[d], told[d], pos[d], origin[d], got[d]>>
    BY <1>2 DEF SubCrash, Crash, Forget, evalVars, clientVars
  <2> QED
    BY <2>1, ClientLeaves
<1>3. ASSUME NEW c \in Consumers, (Stream(c) \/ Drainer(c)) /\ UNCHANGED subscribeVars
      PROVE  Client(d)'
  <2>1. UNCHANGED ClientLocals(d)
    BY <1>3 DEF subscribeVars, evalVars, clientVars, ClientLocals
  <2>2. CASE c = d
    BY <1>3, <2>1, <2>2, FlowOfStream, FlowOfDrainer, ClientStays DEF SubInv
  <2>3. CASE c # d
    <3>1. UNCHANGED Locals(d)
      BY <1>3, <2>3, Others DEF SubInv
    <3> QED
      BY <2>1, <3>1, FlowOfNothing, ClientStays
  <2> QED
    BY <2>2, <2>3
<1>4. ASSUME NEW c \in Consumers, Connect(c) \/ Eval(c) \/ SubHandler(c)
      PROVE  Client(d)'
  <2>1. CASE c = d
    BY <1>4, <2>1, ConnectInv, EvalLiveInv, EvalHeadInv, EvalFloorInv, EvalOutdatedInv,
       EvalFailsInv, BeginStreamInv, SubHandlerInv DEF Eval
  <2>2. CASE c # d
    BY <1>4, <2>2, OtherClients, FlowOfNothing, ClientStays
  <2> QED
    BY <2>1, <2>2
<1>5. CASE UNCHANGED allVars
  <2>1. UNCHANGED Locals(d) /\ UNCHANGED ClientLocals(d)
    BY <1>5 DEF allVars, vars, seamVars, streamVars, hubVars, handlerVars, Locals, subscribeVars,
       evalVars, clientVars, ClientLocals
  <2> QED
    BY <2>1, FlowOfNothing, ClientStays
<1> QED
  BY <1>1, <1>2, <1>3, <1>4, <1>5 DEF SubNext

LEMMA SubTypesStep ==
    ASSUME SubInv, [SubNext]_allVars, SeamTypeOK'
    PROVE  SubTypeOK'
<1> USE MaxSeqAssumption DEF NoCursor
<1>1. SubTypeOK /\ LogTypeOK /\ lastSeq <= MaxSeq /\ lastSeq \in Nat /\ HeadSeq \in 0 .. MaxSeq
      /\ FloorSeq \in 0 .. MaxSeq /\ FloorSeq - 1 \in -1 .. MaxSeq
  <2>1. SubTypeOK /\ LogTypeOK
    BY DEF SubInv, SubTypeOK, SeamTypeOK
  <2> QED
    BY <2>1, HeadIsBound, FloorIsBound DEF LogTypeOK
<1>2. ASSUME UNCHANGED subscribeVars,
             \A c \in Consumers : handler'[c] = "idle" \/ handler[c] # "idle"
      PROVE  SubTypeOK'
  BY <1>1, <1>2 DEF SubTypeOK, subscribeVars, evalVars, clientVars
<1>3. CASE (Ingest \/ Broadcast \/ Prune) /\ UNCHANGED subscribeVars
  BY <1>2, <1>3 DEF Ingest, Broadcast, Prune, seamVars, handlerVars
<1>4. CASE SubCrash
  BY <1>1, <1>4 DEF SubCrash, Crash, Forget, SubTypeOK, evalVars, clientVars
<1>5. ASSUME NEW c \in Consumers, (Stream(c) \/ Drainer(c)) /\ UNCHANGED subscribeVars
      PROVE  SubTypeOK'
  <2>1. UNCHANGED handlerVars
    BY <1>5 DEF Stream, ReadHead, ReadChunk, Push, ReadFails, BackfillCancelled, FallThrough,
           LeaveBackfill, Return, StopDrain, AbortBackfill, Receive, Deliver, LeaveLive,
           Drainer, Drain, DrainExit
  <2> QED
    BY <1>2, <1>5, <2>1 DEF handlerVars
<1>6. ASSUME NEW c \in Consumers, Connect(c) PROVE SubTypeOK'
  <2>1. PICK k \in IF pos[c] = NoCursor THEN {NoCursor} \cup 0 .. MaxSeq ELSE {pos[c]} :
          /\ asked' = [asked EXCEPT ![c] = k]
          /\ req' = [req EXCEPT ![c] = IF k = NoCursor THEN "live" ELSE "status"]
    BY <1>6 DEF Connect
  <2>2. k \in -1 .. MaxSeq
    BY <1>1, <2>1 DEF SubTypeOK
  <2>3. handler[c] = "idle" /\ told' = [told EXCEPT ![c] = "nothing"]
        /\ UNCHANGED <<handler, readHead, start, pos, origin, got>>
    BY <1>6 DEF Connect, vars, seamVars, handlerVars, clientVars
  <2> QED
    BY <1>1, <2>1, <2>2, <2>3 DEF SubTypeOK
<1>7. ASSUME NEW c \in Consumers,
             EvalLive(c) \/ EvalHead(c) \/ EvalFloor(c) \/ EvalOutdated(c) \/ EvalFails(c)
      PROVE  SubTypeOK'
  <2>1. UNCHANGED <<handler, asked, pos, origin, got>>
    BY <1>7 DEF EvalLive, EvalHead, EvalFloor, EvalOutdated, EvalFails, vars, seamVars, handlerVars,
       evalVars, clientVars
  <2>2. req[c] # "none"
    BY <1>7 DEF EvalLive, EvalHead, EvalFloor, EvalOutdated, EvalFails
  <2>3. \E q \in {"none", "live", "status", "floor", "outdated", "stream"} : req' = [req EXCEPT ![c] = q]
    BY <1>7 DEF EvalLive, EvalHead, EvalFloor, EvalOutdated, EvalFails
  <2>4. readHead' = readHead \/ readHead' = [readHead EXCEPT ![c] = HeadSeq]
    BY <1>7 DEF EvalLive, EvalHead, EvalFloor, EvalOutdated, EvalFails, evalVars
  <2>5. start' = start \/ \E k \in {HeadSeq, asked[c], FloorSeq - 1} : start' = [start EXCEPT ![c] = k]
    BY <1>7 DEF EvalLive, EvalHead, EvalFloor, EvalOutdated, EvalFails, evalVars
  <2>6. told' = told \/ \E t \in {"FutureCursor", "OutdatedCursor"} : told' = [told EXCEPT ![c] = t]
    BY <1>7 DEF EvalLive, EvalHead, EvalFloor, EvalOutdated, EvalFails
  <2>7. start' \in [Consumers -> -1 .. MaxSeq]
    BY <1>1, <2>5 DEF SubTypeOK
  <2>8. readHead' \in [Consumers -> 0 .. MaxSeq]
    BY <1>1, <2>4 DEF SubTypeOK
  <2>9. req' \in [Consumers -> {"none", "live", "status", "floor", "outdated", "stream"}]
    BY <1>1, <2>3 DEF SubTypeOK
  <2>10. told' \in [Consumers -> {"nothing", "FutureCursor", "OutdatedCursor", "ConsumerTooSlow"}]
    BY <1>1, <2>6 DEF SubTypeOK
  <2>11. \A d \in Consumers : req'[d] # "none" => handler'[d] = "idle"
    BY <1>1, <2>1, <2>2, <2>3 DEF SubTypeOK
  <2> QED
    BY <1>1, <2>1, <2>7, <2>8, <2>9, <2>10, <2>11 DEF SubTypeOK
<1>8. ASSUME NEW c \in Consumers, BeginStream(c) PROVE SubTypeOK'
  <2>1. Origin(c) \in -1 .. MaxSeq
    BY <1>1 DEF SubTypeOK, Origin
  <2>2. /\ handler' = [handler EXCEPT ![c] = "take"] /\ req' = [req EXCEPT ![c] = "none"]
        /\ origin' = [origin EXCEPT ![c] = Origin(c)]
        /\ UNCHANGED <<asked, readHead, start, told, pos, got>>
    BY <1>8 DEF BeginStream, StreamFrom, evalVars
  <2> QED
    BY <1>1, <2>1, <2>2 DEF SubTypeOK
<1>9. ASSUME NEW c \in Consumers, SubHandler(c) PROVE SubTypeOK'
  <2>1. \A d \in Consumers : handler'[d] = "idle" \/ handler[d] # "idle"
    BY <1>9, AtClient DEF SubHandler, ClientReads, ClientTooSlow, Take, WriteOK, WriteFails, TooSlow,
       Cleanup, CleanupDrains, Disconnect, Forget, SubInv, SeamInv, SeamTypeOK, HandlerTypes
  <2>2. CASE ClientReads(c)
    <3>1. sent[c][taken[c]] \in Seqs
      <4>1. taken[c] \in 1 .. Len(sent[c]) /\ sent[c] \in Seq(Seqs)
        BY <2>2, AtClient DEF ClientReads, WriteOK, Follows, Counted, At, Capacity
      <4> QED
        BY <4>1
    <3>2. /\ pos' = [pos EXCEPT ![c] = sent[c][taken[c]]]
          /\ got' = [got EXCEPT ![c] = @ \cup {sent[c][taken[c]]}]
          /\ UNCHANGED <<req, asked, readHead, start, told, origin>>
      BY <2>2 DEF ClientReads, evalVars
    <3>3. pos' \in [Consumers -> -1 .. MaxSeq]
      BY <1>1, <3>1, <3>2 DEF SubTypeOK, Seqs
    <3>4. got' \in [Consumers -> SUBSET Seqs]
      BY <1>1, <3>1, <3>2 DEF SubTypeOK
    <3> QED
      BY <1>1, <2>1, <3>2, <3>3, <3>4 DEF SubTypeOK
  <2>3. CASE ClientTooSlow(c)
    BY <1>1, <2>1, <2>3 DEF ClientTooSlow, evalVars, clientVars, SubTypeOK
  <2> QED
    BY <1>2, <1>9, <2>1, <2>2, <2>3 DEF SubHandler
<1>10. CASE UNCHANGED allVars
  BY <1>2, <1>10 DEF allVars, vars, seamVars, handlerVars
<1> QED
  BY <1>3, <1>4, <1>5, <1>6, <1>7, <1>8, <1>9, <1>10 DEF SubNext, Eval

LEMMA SubStep ==
    ASSUME SubInv, [SubNext]_allVars
    PROVE  SubInv'
<1>1. [Next]_vars
  BY SeamMoves
<1>2. SeamInv'
  BY <1>1, SeamStep DEF SubInv
<1>3. LogGrows
  BY <1>1, LogMoves, LogOnlyGrows DEF SubInv, SeamInv, SeamTypeOK
<1>4. SubTypeOK'
  BY <1>2, SubTypesStep DEF SeamInv
<1>5. \A d \in Consumers : Client(d)'
  BY <1>3, ClientStep
<1> QED
  BY <1>2, <1>4, <1>5 DEF SubInv, Client

-----------------------------------------------------------------------------
(* The theorems *)

\* The invariant of the subscribe endpoint, for every number of clients: what the
\* evaluation of the cursor, the stream and the crash of the relay do preserves it.
THEOREM SubscribersAreHealthy == SubSpec => []SubInv
<1>1. SubInv /\ [SubNext]_allVars => SubInv'
  BY SubStep
<1> QED
  BY SubInitially, <1>1, PTL DEF SubSpec

\* Under the endpoint the streams are those of Seam: it calls StreamFrom with nothing
\* but what Seam allows, at or below the head.  So what is proved of Seam holds here.
THEOREM EndpointIsSeam == SubSpec => Spec
<1>1. SubInit => Init
  BY DEF SubInit
<1>2. SubInv /\ [SubNext]_allVars => [Next]_vars
  BY SeamMoves
<1> QED
  BY <1>1, <1>2, SubscribersAreHealthy, PTL DEF SubSpec, Spec

\* The state of the endpoint is well typed, and no cursor is evaluated for a client
\* whose stream runs.
THEOREM SubTypeCorrect == SubSpec => []SubTypeOK
<1>1. SubInv => SubTypeOK
  BY DEF SubInv
<1> QED
  BY SubscribersAreHealthy, <1>1, PTL

\* Whatever connections a client had, and however they ended, all it lacks below
\* its position was deleted by the prune job.
THEOREM NoGapOverConnections == SubSpec => []ResumesWithoutGap
<1>1. SubInv => ResumesWithoutGap
  BY DEF SubInv, Resumes, ResumesWithoutGap
<1> QED
  BY SubscribersAreHealthy, <1>1, PTL

\* A client told OutdatedCursor did lose the row after its cursor, although the
\* floor is read twice, with commits and prune batches in between.
THEOREM OutdatedIsMeant == SubSpec => []OutdatedIsTrue
<1>1. SubInv => OutdatedIsTrue
  BY DEF SubInv, Outdated, OutdatedIsTrue
<1> QED
  BY SubscribersAreHealthy, <1>1, PTL

\* The event a client reads is above all it read before.
LEMMA ReadIsNew ==
    ASSUME SubInv, NEW c \in Consumers, ClientReads(c)
    PROVE  pos'[c] > pos[c]
<1>1. At(c) /\ Num(c) /\ ClientTypes(c) /\ Follows(c)
  BY AtClient
<1>2. handler[c] = "write" /\ pos'[c] = sent[c][taken[c]]
  BY DEF ClientReads, WriteOK, SubInv, SubTypeOK
<1>3. Reads(c) /\ wrote[c] \in Nat /\ taken[c] = wrote[c] + 1 /\ taken[c] <= Len(sent[c])
      /\ Len(sent[c]) \in Nat
  BY <1>1, <1>2 DEF Follows, Counted, At, Capacity
<1>4. taken[c] \in 1 .. Len(sent[c]) /\ (wrote[c] > 0 => wrote[c] \in 1 .. Len(sent[c]))
  BY <1>3
<1>5. pos'[c] \in Ran(sent[c])
  BY <1>2, <1>4 DEF Ran
<1>6. pos'[c] \in Nat /\ since[c] < pos'[c] /\ since[c] \in Int /\ pos[c] \in Int
  BY <1>1, <1>5 DEF At, Num, Healthy, Order, Bounds, ClientTypes
<1>7. CASE wrote[c] > 0
  <2>1. sent[c][wrote[c]] < sent[c][taken[c]]
    BY <1>1, <1>3, <1>4, <1>7 DEF At, Healthy, Order, Ascending, Asc
  <2> QED
    BY <1>2, <1>3, <1>6, <1>7, <2>1 DEF Reads
<1>8. CASE wrote[c] = 0
  BY <1>3, <1>5, <1>6, <1>8 DEF Reads, Newer
<1> QED
  BY <1>3, <1>7, <1>8

\* No client is sent an event it has, on whatever connection it got it.
THEOREM NeverTwice == SubSpec => NeverAgain
<1>1. SubInv => \A c \in Consumers : ClientReads(c) => pos'[c] > pos[c]
  BY ReadIsNew
<1> QED
  BY SubscribersAreHealthy, <1>1, PTL DEF NeverAgain

-----------------------------------------------------------------------------
(* Returning clients and the head *)

\* The newest row is not pruned: as long as something is ingested within the window.
NewestSurvives == lastSeq > 0 => lastSeq \in rows

\* The head read for a returning client is not below its position.
HeadCovers == \A c \in Consumers :
    req[c] = "floor" /\ pos[c] # NoCursor => pos[c] <= readHead[c]

\* Then the head that is read is the last number given out.
LEMMA NewestIsHead ==
    ASSUME LogTypeOK, NewestSurvives
    PROVE  HeadSeq = lastSeq
<1>1. lastSeq \in Nat /\ rows \in SUBSET (0 .. lastSeq) /\ rows \subseteq 1 .. lastSeq
  BY MaxSeqAssumption DEF LogTypeOK
<1>2. CASE rows = {}
  BY <1>1, <1>2 DEF HeadSeq, NewestSurvives
<1>3. CASE rows # {}
  <2>1. Max(rows) \in rows /\ \A y \in rows : y <= Max(rows)
    BY <1>1, <1>3, MaxIsGreatest
  <2>2. Max(rows) \in 1 .. lastSeq
    BY <1>1, <2>1
  <2>3. lastSeq > 0
    BY <1>1, <2>2
  <2>4. lastSeq <= Max(rows)
    BY <2>1, <2>3 DEF NewestSurvives
  <2>5. Max(rows) = lastSeq
    BY <1>1, <2>2, <2>4
  <2> QED
    BY <1>3, <2>5 DEF HeadSeq
<1> QED
  BY <1>2, <1>3

\* An evaluation that is open stands still under every step but those of its own client.
LEMMA HeadCoversStep ==
    ASSUME SubInv, NewestSurvives, HeadCovers, [SubNext]_allVars
    PROVE  HeadCovers'
<1> SUFFICES ASSUME NEW c \in Consumers, req'[c] = "floor", pos'[c] # NoCursor
             PROVE  pos'[c] <= readHead'[c]
  BY DEF HeadCovers
<1>1. LogTypeOK /\ Follows(c) /\ ClientTypes(c)
  BY AtClient
<1>t. /\ req \in [Consumers -> {"none", "live", "status", "floor", "outdated", "stream"}]
      /\ DOMAIN pos = Consumers /\ DOMAIN readHead = Consumers
  BY DEF SubInv, SubTypeOK
<1>2. ASSUME NEW d \in Consumers, EvalHead(d) PROVE pos'[c] <= readHead'[c]
  <2>1. pos' = pos /\ readHead' = [readHead EXCEPT ![d] = HeadSeq] /\ req' = [req EXCEPT ![d] = "floor"]
    BY <1>2 DEF EvalHead, clientVars
  <2>2. CASE c = d
    <3>1. readHead'[c] = lastSeq
      BY <1>1, <1>t, <2>1, <2>2, NewestIsHead
    <3> QED
      BY <1>1, <2>1, <3>1 DEF Follows
  <2>3. CASE c # d
    BY <1>t, <2>1, <2>3 DEF HeadCovers
  <2> QED
    BY <2>2, <2>3
<1>3. ASSUME UNCHANGED <<readHead, pos>>, req[c] = "floor"
      PROVE  pos'[c] <= readHead'[c]
  BY <1>3 DEF HeadCovers
<1>4. CASE UNCHANGED subscribeVars
  BY <1>3, <1>4 DEF subscribeVars, evalVars, clientVars
<1>5. CASE SubCrash
  BY <1>5 DEF SubCrash
<1>6. ASSUME NEW d \in Consumers, Connect(d) PROVE pos'[c] <= readHead'[c]
  <2>1. UNCHANGED <<readHead, pos>> /\ \E x \in {"live", "status"} : req' = [req EXCEPT ![d] = x]
    BY <1>6 DEF Connect, clientVars
  <2>2. req[c] = "floor"
    BY <1>t, <2>1
  <2> QED
    BY <1>3, <2>1, <2>2
<1>7. ASSUME NEW d \in Consumers,
             EvalLive(d) \/ EvalFloor(d) \/ EvalOutdated(d) \/ EvalFails(d) \/ BeginStream(d)
      PROVE  pos'[c] <= readHead'[c]
  <2>1. /\ UNCHANGED <<readHead, pos>>
        /\ \E x \in {"none", "outdated", "stream"} : req' = [req EXCEPT ![d] = x]
    BY <1>7 DEF EvalLive, EvalFloor, EvalOutdated, EvalFails, BeginStream, evalVars, clientVars
  <2>2. req[c] = "floor"
    BY <1>t, <2>1
  <2> QED
    BY <1>3, <2>1, <2>2
<1>8. ASSUME NEW d \in Consumers, ClientReads(d) PROVE pos'[c] <= readHead'[c]
  <2>1. /\ req' = req /\ readHead' = readHead /\ pos' = [pos EXCEPT ![d] = sent[d][taken[d]]]
        /\ handler[d] = "write"
    BY <1>8 DEF ClientReads, WriteOK, evalVars
  <2>2. c # d
    BY <2>1 DEF SubInv, SubTypeOK
  <2> QED
    BY <1>t, <2>1, <2>2 DEF HeadCovers
<1>9. ASSUME NEW d \in Consumers, ClientTooSlow(d) PROVE pos'[c] <= readHead'[c]
  BY <1>3, <1>9 DEF ClientTooSlow, evalVars, clientVars
<1>10. CASE UNCHANGED allVars
  BY <1>4, <1>10 DEF allVars
<1> QED
  BY <1>2, <1>4, <1>5, <1>6, <1>7, <1>8, <1>9, <1>10 DEF SubNext, Eval, SubHandler

\* So the verdict falls only on a client that asks for what it never received.
LEMMA ToldFutureOnlyNew ==
    ASSUME SubInv, HeadCovers, SubNext, NEW c \in Consumers,
           told[c] # "FutureCursor", told'[c] = "FutureCursor"
    PROVE  pos[c] = NoCursor
<1>t. DOMAIN told = Consumers /\ ClientTypes(c) /\ Evaluates(c)
  BY AtClient DEF SubInv, SubTypeOK
<1>1. CASE UNCHANGED told
  BY <1>1
<1>2. ASSUME NEW d \in Consumers, Connect(d) \/ EvalOutdated(d) \/ ClientTooSlow(d)
      PROVE  pos[c] = NoCursor
  <2>1. \E x \in {"nothing", "OutdatedCursor", "ConsumerTooSlow"} : told' = [told EXCEPT ![d] = x]
    BY <1>2 DEF Connect, EvalOutdated, ClientTooSlow
  <2> QED
    BY <1>t, <2>1
<1>3. ASSUME NEW d \in Consumers, EvalFloor(d) PROVE pos[c] = NoCursor
  <2>1. CASE told' = told
    BY <2>1
  <2>2. CASE CursorFuture(d) /\ told' = [told EXCEPT ![d] = "FutureCursor"]
    <3>1. c = d
      BY <1>t, <2>2
    <3>2. req[c] = "floor" /\ asked[c] > readHead[c]
      BY <1>3, <2>2, <3>1 DEF EvalFloor, CursorFuture
    <3> QED
      BY <1>t, <3>2 DEF Evaluates, HeadCovers, ClientTypes
  <2> QED
    BY <1>3, <2>1, <2>2 DEF EvalFloor
<1>4. ASSUME NEW d \in Consumers,
             EvalLive(d) \/ EvalHead(d) \/ EvalFails(d) \/ BeginStream(d) \/ ClientReads(d)
      PROVE  UNCHANGED told
  BY <1>4 DEF EvalLive, EvalHead, EvalFails, BeginStream, ClientReads
<1>5. ASSUME UNCHANGED subscribeVars \/ SubCrash PROVE UNCHANGED told
  BY <1>5 DEF subscribeVars, SubCrash
<1> QED
  BY <1>1, <1>2, <1>3, <1>4, <1>5 DEF SubNext, Eval, SubHandler

\* While the newest row survives, a client that comes back with the last relay_seq it
\* received is never told FutureCursor, whatever was committed and pruned between the
\* query for the head and the verdict: only retention that empties the table leads to
\* what run future shows.
THEOREM ReturningIsWelcome == SubSpec /\ []NewestSurvives => ReturningIsNotFuture
<1>1. SubInit => HeadCovers
  BY DEF SubInit, HeadCovers
<1>2. SubInv /\ NewestSurvives /\ HeadCovers /\ [SubNext]_allVars => HeadCovers'
  BY HeadCoversStep
<1>3. SubInv /\ HeadCovers /\ [SubNext]_allVars =>
        [\A c \in Consumers :
          told[c] # "FutureCursor" /\ told'[c] = "FutureCursor" => pos[c] = NoCursor]_allVars
  BY ToldFutureOnlyNew
<1> QED
  BY <1>1, <1>2, <1>3, SubscribersAreHealthy, PTL DEF SubSpec, ReturningIsNotFuture
=============================================================================
