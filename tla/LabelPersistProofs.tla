------------------------- MODULE LabelPersistProofs -------------------------
(***************************************************************************)
(* Proofs about LabelPersist, for any set of writers and any bounds.       *)
(*                                                                         *)
(* DbInv carries everything: under the mutex one writer at a time has the  *)
(* next number in its row, the number is above all rows, and after the     *)
(* commit it is the highest one.  It needs no assumption on the faults: a  *)
(* power loss takes rows and numbers back together.  KeyInv adds what it   *)
(* may take back, that the number is above all that was broadcast.         *)
(***************************************************************************)
EXTENDS LabelPersist, TLAPS

Inside == {"stamped", "inserted", "encoded", "committed"}

\* Numbered by the counter that is stored with them, no number twice.
Numbered(R, high) ==
    /\ \A e \in R : e.seq \in 1 .. high
    /\ \A e, f \in R : e.seq = f.seq => e = f

DbInv ==
    /\ TypeOK
    /\ Numbered(events, seqHigh)
    /\ Numbered(synced.events, synced.seqHigh)
    /\ \A w \in Writers : InTx(w) => row[w].seq = seqHigh + 1 /\ seqHigh < MaxSeq
    /\ \A w \in Writers : wpc[w] = "committed" => row[w].seq = seqHigh

\* The initial state has the invariant.
LEMMA DbInit == Init => DbInv
  BY WriterAssumption, MaxSeqAssumption, TimeAssumption
  DEF Init, DbInv, Numbered, TypeOK, Row, NoRow, InTx

\* Every step keeps it, one that loses power included.
LEMMA DbStep == DbInv /\ [Next]_vars => DbInv'
<1> SUFFICES ASSUME DbInv, [Next]_vars
             PROVE  DbInv'
  OBVIOUS
<1> USE WriterAssumption, MaxSeqAssumption, TimeAssumption
<1> USE DEF DbInv, TypeOK, InTx, Row
<1>1. ASSUME NEW w \in Writers, Call(w)
      PROVE  DbInv'
  BY <1>1 DEF Call, dbVars, pruneVars
<1>2. ASSUME NEW w \in Writers, Lock(w)
      PROVE  DbInv'
  BY <1>2 DEF Lock, NoRow, dbVars, pruneVars
<1>3. ASSUME NEW w \in Writers, Insert(w)
      PROVE  DbInv'
  BY <1>3 DEF Insert, dbVars, pruneVars
<1>4. ASSUME NEW w \in Writers, Encode(w)
      PROVE  DbInv'
  BY <1>4 DEF Encode, dbVars, pruneVars
<1>5. ASSUME NEW w \in Writers, CommitTx(w)
      PROVE  DbInv'
  <2>1. Numbered(events, seqHigh)'
    BY <1>5 DEF CommitTx, Numbered
  <2> QED
    BY <1>5, <2>1 DEF CommitTx, pruneVars
<1>6. ASSUME NEW w \in Writers, Air(w)
      PROVE  DbInv'
  BY <1>6 DEF Air, Release, NoRow, dbVars, pruneVars
<1>7. ASSUME NEW w \in Writers, PersistFails(w)
      PROVE  DbInv'
  BY <1>7 DEF PersistFails, Release, NoRow, dbVars, pruneVars
<1>8. CASE PruneTick
  BY <1>8 DEF PruneTick, writerVars, dbVars
<1>9. CASE PruneBatch
  <2>1. Numbered(events, seqHigh)'
    BY <1>9 DEF PruneBatch, Numbered
  <2> QED
    BY <1>9, <2>1 DEF PruneBatch, writerVars
<1>10. CASE PruneFails
  BY <1>10 DEF PruneFails, writerVars, dbVars
<1>11. CASE ClockAdvances
  BY <1>11 DEF ClockAdvances, writerVars, dbVars, pruneVars
<1>12. CASE ClockStepsBack
  BY <1>12 DEF ClockStepsBack, writerVars, dbVars, pruneVars
<1>13. CASE Sync
  BY <1>13 DEF Sync, writerVars, dbVars, pruneVars
<1>14. CASE Crash
  BY <1>14 DEF Crash, Die, NoRow, dbVars
<1>15. CASE PowerLoss
  BY <1>15 DEF PowerLoss, Die, NoRow
<1>16. CASE UNCHANGED vars
  BY <1>16 DEF vars, writerVars, dbVars, pruneVars
<1> QED
  BY <1>1, <1>2, <1>3, <1>4, <1>5, <1>6, <1>7, <1>8, <1>9, <1>10, <1>11, <1>12,
     <1>13, <1>14, <1>15, <1>16 DEF Next, SteadyNext, Persist, PruneStep

LEMMA DbInvariant == Spec => []DbInv
<1> QED
  BY DbInit, DbStep, PTL DEF Spec

\* Types, and the mutual exclusion of the persist mutex: two writers are never
\* inside at once, whatever fails.
THEOREM TypeCorrect == Spec => []TypeOK
<1>1. DbInv => TypeOK
  BY DEF DbInv
<1> QED
  BY <1>1, DbInvariant, PTL

\* No two rows have one relay_seq, and none has a number AUTOINCREMENT has yet to
\* give out, although a power loss rewinds the counter and numbers are given out
\* again: the rows that had them are gone.
THEOREM NumbersAreUnique == Spec => []Numbered(events, seqHigh)
<1>1. DbInv => Numbered(events, seqHigh)
  BY DEF DbInv
<1> QED
  BY <1>1, DbInvariant, PTL

-----------------------------------------------------------------------------
(* The live stream.  What was announced is not taken back by a crash of the   *)
(* process, only by a power loss.                                             *)

KeyInv ==
    /\ DbInv
    /\ bcast <= seqHigh
    /\ \A w \in Writers : wpc[w] = "committed" => bcast < seqHigh

LEMMA KeyInit == Init => KeyInv
  BY DbInit DEF Init, KeyInv

LEMMA KeyStep == PowerFails = FALSE /\ KeyInv /\ [Next]_vars => KeyInv'
<1> SUFFICES ASSUME PowerFails = FALSE, KeyInv, [Next]_vars
             PROVE  bcast' <= seqHigh' /\ \A w \in Writers : wpc'[w] = "committed" => bcast' < seqHigh'
  BY DbStep DEF KeyInv
<1>0. /\ bcast \in Nat /\ seqHigh \in Nat /\ bcast <= seqHigh
      /\ wpc \in [Writers -> {"idle", "waiting", "stamped", "inserted", "encoded", "committed"}]
      /\ \A w \in Writers : wpc[w] = "committed" => bcast < seqHigh
  BY MaxSeqAssumption DEF KeyInv, DbInv, TypeOK
<1>1. ASSUME NEW w \in Writers, CommitTx(w)
      PROVE  bcast' = bcast /\ seqHigh' = seqHigh + 1
  BY <1>1 DEF CommitTx, KeyInv, DbInv, InTx
<1>2. ASSUME NEW w \in Writers, Air(w)
      PROVE  bcast' = seqHigh /\ seqHigh' = seqHigh /\ \A v \in Writers : wpc'[v] # "committed"
  BY <1>2 DEF Air, Release, dbVars, KeyInv, DbInv, TypeOK
<1>3. ASSUME UNCHANGED <<bcast, seqHigh>>, \A w \in Writers : wpc'[w] = "committed" => wpc[w] = "committed"
      PROVE  bcast' <= seqHigh' /\ \A w \in Writers : wpc'[w] = "committed" => bcast' < seqHigh'
  BY <1>0, <1>3
<1>4. ASSUME NEW w \in Writers, Call(w) \/ Lock(w) \/ Insert(w) \/ Encode(w) \/ PersistFails(w)
      PROVE  UNCHANGED <<bcast, seqHigh>> /\ \A v \in Writers : wpc'[v] = "committed" => wpc[v] = "committed"
  BY <1>0, <1>4 DEF Call, Lock, Insert, Encode, PersistFails, Release, dbVars
<1>5. CASE \/ PruneTick \/ PruneStep \/ ClockAdvances \/ ClockStepsBack \/ Sync \/ Crash
           \/ UNCHANGED vars
  BY <1>3, <1>5 DEF PruneTick, PruneStep, PruneBatch, PruneFails, ClockAdvances, ClockStepsBack,
                    Sync, Crash, Die, vars, writerVars, dbVars
<1>6. ~PowerLoss
  BY DEF PowerLoss
<1> QED
  BY <1>0, <1>1, <1>2, <1>3, <1>4, <1>5, <1>6 DEF Next, SteadyNext, Persist

LEMMA KeyInvariant ==
    ASSUME PowerFails = FALSE
    PROVE  Spec => []KeyInv
<1>1. KeyInv /\ [Next]_vars => KeyInv'
  BY KeyStep
<1> QED
  BY <1>1, KeyInit, PTL DEF Spec

\* relay_seq never rewinds and is never reused on the live stream, whatever the
\* writers, the prune job and crashes of the process do.
THEOREM BroadcastsAscend ==
    ASSUME PowerFails = FALSE
    PROVE  Spec => BroadcastAscending
<1>1. KeyInv => [\A w \in Writers : Air(w) => bcast' > bcast]_vars
  <2> SUFFICES ASSUME KeyInv, NEW w \in Writers, Air(w)
               PROVE  bcast' > bcast
    OBVIOUS
  <2> QED
    BY DEF Air, KeyInv, DbInv, TypeOK, Row
<1> QED
  BY <1>1, KeyInvariant, PTL DEF Spec, BroadcastAscending

-----------------------------------------------------------------------------
(* The placeholder is never committed.  This part holds with power losses and *)
(* clock steps too, and needs no more than the shape of a row.                *)

FrameInv ==
    /\ wpc \in [Writers -> {"idle", "waiting", "stamped", "inserted", "encoded", "committed"}]
    /\ row \in [Writers -> Row]
    /\ seqHigh \in Nat /\ now \in Nat /\ synced.seqHigh \in Nat
    /\ \A w \in Writers : wpc[w] = "encoded" => row[w].frame = row[w].seq
    /\ \A e \in synced.events : e.frame = e.seq
    /\ FrameCarriesSeq

LEMMA FrameInit == Init => FrameInv
  BY DEF Init, FrameInv, FrameCarriesSeq, Row, NoRow

LEMMA FrameStep == FrameInv /\ [Next]_vars => FrameInv'
<1> SUFFICES ASSUME FrameInv, [Next]_vars
             PROVE  FrameInv'
  OBVIOUS
<1> USE DEF FrameInv, FrameCarriesSeq, Row
<1>1. ASSUME NEW w \in Writers, Call(w) \/ Lock(w)
      PROVE  FrameInv'
  BY <1>1 DEF Call, Lock, NoRow, dbVars, pruneVars
<1>2. ASSUME NEW w \in Writers, Insert(w) \/ Encode(w)
      PROVE  FrameInv'
  BY <1>2 DEF Insert, Encode, dbVars, pruneVars
<1>3. ASSUME NEW w \in Writers, CommitTx(w)
      PROVE  FrameInv'
  BY <1>3 DEF CommitTx, pruneVars
<1>4. ASSUME NEW w \in Writers, Air(w) \/ PersistFails(w)
      PROVE  FrameInv'
  <2>1. /\ wpc' = [wpc EXCEPT ![w] = "idle"] /\ row' = [row EXCEPT ![w] = NoRow]
        /\ UNCHANGED <<events, seqHigh, now, synced>>
    BY <1>4 DEF Air, PersistFails, Release, dbVars
  <2>2. row' \in [Writers -> Row]
    BY <2>1 DEF NoRow
  <2> QED
    BY <2>1, <2>2
<1>5. CASE PruneTick \/ PruneFails
  BY <1>5 DEF PruneTick, PruneFails, writerVars, dbVars
<1>6. CASE PruneBatch
  BY <1>6 DEF PruneBatch, writerVars
<1>7. CASE ClockAdvances \/ ClockStepsBack
  BY <1>7 DEF ClockAdvances, ClockStepsBack, writerVars, dbVars, pruneVars
<1>8. CASE Sync
  BY <1>8 DEF Sync, writerVars, dbVars, pruneVars
<1>9. CASE Crash
  BY <1>9 DEF Crash, Die, NoRow, dbVars
<1>10. CASE PowerLoss
  BY <1>10 DEF PowerLoss, Die, NoRow
<1>11. CASE UNCHANGED vars
  BY <1>11 DEF vars, writerVars, dbVars, pruneVars
<1> QED
  BY <1>1, <1>2, <1>3, <1>4, <1>5, <1>6, <1>7, <1>8, <1>9, <1>10, <1>11
     DEF Next, SteadyNext, Persist, PruneStep

\* No row is ever visible with the placeholder or with the frame of another row,
\* after a power loss and under a clock that is set back included.
THEOREM FramesMatchRows == Spec => []FrameCarriesSeq
<1>1. FrameInv => FrameCarriesSeq
  BY DEF FrameInv
<1> QED
  BY FrameInit, FrameStep, <1>1, PTL DEF Spec

-----------------------------------------------------------------------------
(* With a clock that is never set back, ingest_ts follows relay_seq, so the   *)
(* prune job, which goes by ingest_ts, eats the log from its old end.         *)

\* Rows in the order of relay_seq are in the order of ingest_ts, and those that are
\* left reach up to the head.
Aged(R, high) ==
    /\ \A e, f \in R : e.seq < f.seq => e.ts <= f.ts
    /\ \A e \in R : e.ts <= now
    /\ \A e \in R : e.seq .. high \subseteq SeqsOf(R)

\* The inductive part about ages: what is stored, and what a power loss would leave,
\* is aged, and whatever is being inserted or expired respects that order.
AgeInv ==
    /\ Aged(events, seqHigh)
    /\ Aged(synced.events, synced.seqHigh)
    /\ \A w \in Writers : wpc[w] \in Inside => row[w].ts <= now
    /\ \A w \in Writers : InTx(w) \/ wpc[w] = "stamped" =>
          \A e \in events : e.ts <= row[w].ts
    /\ ppc = "batch" => cutoff <= now - Window

LEMMA AgeInit == Init => AgeInv
  BY WriterAssumption, MaxSeqAssumption, TimeAssumption
  DEF Init, AgeInv, Aged, InTx, Inside

\* Committing the next number extends the run of surviving rows.
LEMMA CommitContiguous ==
    ASSUME NEW w \in Writers, DbInv, AgeInv, CommitTx(w)
    PROVE  ContiguousRetention'
<1>1. row[w] \in Row /\ row[w].seq = seqHigh + 1 /\ seqHigh \in Nat /\ seqHigh' = seqHigh + 1
  BY MaxSeqAssumption DEF DbInv, TypeOK, CommitTx, InTx
<1>2. events' = events \cup {row[w]}
  BY DEF CommitTx
<1> SUFFICES ASSUME NEW e \in events', NEW s \in e.seq .. seqHigh'
             PROVE  \E f \in events' : s = f.seq
  BY DEF ContiguousRetention, SeqsOf
<1>3. CASE s = seqHigh + 1
  BY <1>1, <1>2, <1>3
<1>4. CASE s # seqHigh + 1
  <2>1. e \in events /\ e.seq \in Nat
    BY <1>1, <1>2, <1>4 DEF DbInv, TypeOK, Row
  <2>2. s \in e.seq .. seqHigh
    BY <1>1, <1>4, <2>1
  <2> QED
    BY <1>2, <2>1, <2>2 DEF AgeInv, Aged, SeqsOf
<1> QED
  BY <1>3, <1>4

\* A batch takes the oldest rows, and those have the lowest numbers.
LEMMA PruneContiguous ==
    ASSUME DbInv, AgeInv, PruneBatch
    PROVE  ContiguousRetention'
<1>1. PICK B \in Batches : events' = events \ B
  BY DEF PruneBatch
<1>2. seqHigh' = seqHigh
  BY DEF PruneBatch
<1> SUFFICES ASSUME NEW e \in events', NEW s \in e.seq .. seqHigh
             PROVE  \E f \in events' : s = f.seq
  BY <1>2 DEF ContiguousRetention, SeqsOf
<1>3. PICK f \in events : f.seq = s
  BY <1>1 DEF AgeInv, Aged, SeqsOf
<1>4. ASSUME f \in B PROVE FALSE
  <2>1. e \in events /\ e \notin B /\ f \in Expired /\ e \in Row /\ f \in Row
    BY <1>1, <1>4 DEF Batches, DbInv, TypeOK
  <2>2. e.seq < f.seq
    BY <1>3, <1>4, <2>1 DEF Row, DbInv, Numbered, TypeOK
  <2>3. e.ts <= f.ts
    BY <2>1, <2>2 DEF AgeInv, Aged
  <2>4. e \in Expired
    BY <2>1, <2>3 DEF Expired, Row, DbInv, TypeOK
  <2>5. Before(f, e)
    BY <1>4, <2>1, <2>4 DEF Batches
  <2> QED
    BY <2>1, <2>2, <2>3, <2>5 DEF Before, Row
<1> QED
  BY <1>1, <1>3, <1>4

LEMMA AgeStep ==
    ASSUME ClockSteps = FALSE, DbInv, AgeInv, [Next]_vars
    PROVE  AgeInv'
<1> USE WriterAssumption, MaxSeqAssumption, TimeAssumption
<1>t. /\ events \in SUBSET Row /\ synced.events \in SUBSET Row /\ now \in Nat /\ cutoff \in Int
      /\ row \in [Writers -> Row]
      /\ wpc \in [Writers -> {"idle", "waiting", "stamped", "inserted", "encoded", "committed"}]
  BY DEF DbInv, TypeOK
<1>1. ASSUME UNCHANGED <<events, seqHigh, now, synced, pruneVars>>,
             NEW w \in Writers,
             \A v \in Writers \ {w} : UNCHANGED <<wpc[v], row[v]>>,
             wpc'[w] \in Inside => row'[w].ts <= now,
             wpc'[w] \in {"stamped", "inserted", "encoded"} => \A e \in events : e.ts <= row'[w].ts
      PROVE  AgeInv'
  <2>1. Aged(events, seqHigh)' /\ Aged(synced.events, synced.seqHigh)'
    BY <1>1 DEF AgeInv, Aged
  <2>2. ASSUME NEW v \in Writers
        PROVE  /\ wpc'[v] \in Inside => row'[v].ts <= now'
               /\ InTx(v)' \/ wpc'[v] = "stamped" => \A e \in events' : e.ts <= row'[v].ts
    <3>1. CASE v = w
      BY <1>1, <3>1 DEF InTx
    <3>2. CASE v # w
      BY <1>1, <3>2 DEF AgeInv, InTx
    <3> QED
      BY <3>1, <3>2
  <2>3. ppc' = "batch" => cutoff' <= now' - Window
    BY <1>1 DEF AgeInv, pruneVars
  <2> QED
    BY <2>1, <2>2, <2>3 DEF AgeInv
<1>2. ASSUME NEW w \in Writers, Call(w) \/ Air(w) \/ PersistFails(w)
      PROVE  AgeInv'
  <2>1. /\ UNCHANGED <<events, seqHigh, now, synced, pruneVars>>
        /\ \A v \in Writers \ {w} : UNCHANGED <<wpc[v], row[v]>>
        /\ wpc'[w] \in {"waiting", "idle"}
    BY <1>t, <1>2 DEF Call, Air, PersistFails, Release, dbVars, pruneVars
  <2> QED
    BY <1>1, <2>1 DEF Inside
<1>3. ASSUME NEW w \in Writers, Lock(w)
      PROVE  AgeInv'
  <2>1. /\ UNCHANGED <<events, seqHigh, now, synced, pruneVars>>
        /\ \A v \in Writers \ {w} : UNCHANGED <<wpc[v], row[v]>>
        /\ row'[w].ts = now
    BY <1>t, <1>3 DEF Lock, NoRow, dbVars, pruneVars
  <2>2. \A e \in events : e.ts <= row'[w].ts
    BY <2>1 DEF AgeInv, Aged
  <2> QED
    BY <1>1, <1>t, <2>1, <2>2
<1>4. ASSUME NEW w \in Writers, Insert(w) \/ Encode(w)
      PROVE  AgeInv'
  <2>1. /\ UNCHANGED <<events, seqHigh, now, synced, pruneVars>>
        /\ \A v \in Writers \ {w} : UNCHANGED <<wpc[v], row[v]>>
        /\ row'[w].ts = row[w].ts /\ wpc[w] \in {"stamped", "inserted"}
    BY <1>t, <1>4 DEF Insert, Encode, dbVars, pruneVars, Row
  <2>2. row[w].ts <= now /\ \A e \in events : e.ts <= row[w].ts
    BY <2>1 DEF AgeInv, InTx, Inside
  <2> QED
    BY <1>1, <2>1, <2>2
<1>5. ASSUME NEW w \in Writers, CommitTx(w)
      PROVE  AgeInv'
  <2>1. ContiguousRetention'
    BY <1>5, CommitContiguous
  <2>2. /\ wpc[w] = "encoded" /\ wpc' = [wpc EXCEPT ![w] = "committed"] /\ events' = events \cup {row[w]}
        /\ UNCHANGED <<row, now, synced, ppc, cutoff>>
    BY <1>5 DEF CommitTx, pruneVars
  <2>3. /\ \A e \in events : e.seq < row[w].seq /\ e.ts <= row[w].ts /\ e \in Row
        /\ row[w].ts <= now /\ row[w] \in Row
    BY <1>t, <2>2 DEF DbInv, Numbered, AgeInv, InTx, Inside, TypeOK
  <2>4. \A e, f \in events' : e.seq < f.seq => e.ts <= f.ts
    <3> SUFFICES ASSUME NEW e \in events', NEW f \in events', e.seq < f.seq
                 PROVE  e.ts <= f.ts
      OBVIOUS
    <3>1. CASE e \in events /\ f \in events
      BY <3>1 DEF AgeInv, Aged
    <3>2. CASE e \in events /\ f = row[w]
      BY <2>3, <3>2
    <3>3. CASE e = row[w]
      <4>1. row[w].seq \in Nat /\ (f \in events => f.seq < row[w].seq /\ f.seq \in Nat)
        BY <2>3 DEF Row
      <4> QED
        BY <2>2, <3>3, <4>1
    <3> QED
      BY <2>2, <3>1, <3>2, <3>3
  <2>5. Aged(events, seqHigh)'
    <3>1. \A e \in events' : e.ts <= now'
      BY <2>2, <2>3 DEF AgeInv, Aged
    <3> QED
      BY <2>1, <2>4, <3>1 DEF Aged, ContiguousRetention
  <2>6. Aged(synced.events, synced.seqHigh)'
    BY <2>2 DEF AgeInv, Aged
  <2>7. ASSUME NEW v \in Writers
        PROVE  /\ wpc'[v] \in Inside => row'[v].ts <= now'
               /\ ~ (InTx(v)' \/ wpc'[v] = "stamped")
    <3>1. CASE v = w
      BY <1>t, <2>2, <2>3, <3>1 DEF InTx
    <3>2. CASE v # w
      BY <1>5, <2>2, <3>2 DEF CommitTx, DbInv, TypeOK, InTx, Inside
    <3> QED
      BY <3>1, <3>2
  <2> QED
    BY <2>2, <2>5, <2>6, <2>7 DEF AgeInv
<1>6. CASE PruneTick
  <2>1. UNCHANGED <<wpc, row, events, seqHigh, now, synced>> /\ cutoff' = now - Window
    BY <1>6 DEF PruneTick, writerVars, dbVars
  <2> QED
    BY <1>t, <2>1 DEF AgeInv, Aged, InTx
<1>7. CASE PruneBatch
  <2>1. ContiguousRetention'
    BY <1>7, PruneContiguous
  <2>2. UNCHANGED <<wpc, row, seqHigh, now, synced, cutoff>> /\ events' \subseteq events
        /\ ppc = "batch"
    BY <1>7 DEF PruneBatch, writerVars
  <2>3. Aged(events, seqHigh)'
    BY <2>1, <2>2 DEF AgeInv, Aged, ContiguousRetention
  <2>4. Aged(synced.events, synced.seqHigh)'
    BY <2>2 DEF AgeInv, Aged
  <2> QED
    BY <2>2, <2>3, <2>4 DEF AgeInv, InTx
<1>8. CASE PruneFails \/ UNCHANGED vars
  <2>1. UNCHANGED <<wpc, row, events, seqHigh, now, synced, cutoff>> /\ ppc' \in {"idle", ppc}
    BY <1>8 DEF PruneFails, vars, writerVars, dbVars, pruneVars
  <2> QED
    BY <2>1 DEF AgeInv, Aged, InTx
<1>9. CASE ClockAdvances
  <2>1. /\ UNCHANGED <<wpc, row, events, seqHigh, synced, ppc, cutoff>>
        /\ now' = now + 1
    BY <1>9 DEF ClockAdvances, writerVars, dbVars, pruneVars
  <2>2. Aged(events, seqHigh)' /\ Aged(synced.events, synced.seqHigh)'
    <3>1. now' \in Nat /\ now <= now'
      BY <1>t, <2>1
    <3>2. \A R \in SUBSET Row : \A e \in R : e.ts \in Nat
      BY DEF Row
    <3>3. /\ \A e \in events : e.ts <= now'
          /\ \A e \in synced.events : e.ts <= now'
      BY <1>t, <3>1, <3>2 DEF AgeInv, Aged
    <3> QED
      BY <2>1, <3>3 DEF AgeInv, Aged
  <2>3. \A w \in Writers : wpc[w] \in Inside => row[w].ts \in Nat
    BY <1>t DEF Row
  <2> QED
    BY <1>t, <2>1, <2>2, <2>3 DEF AgeInv, InTx
<1>10. CASE Sync
  <2>1. UNCHANGED <<wpc, row, events, seqHigh, now, ppc, cutoff>> /\ synced'.events = events
        /\ synced'.seqHigh = seqHigh
    BY <1>10 DEF Sync, writerVars, dbVars, pruneVars
  <2> QED
    BY <2>1 DEF AgeInv, Aged, InTx
<1>11. CASE Crash \/ PowerLoss
  <2>1. /\ UNCHANGED <<now, synced>> /\ ppc' = "idle" /\ wpc' = [w \in Writers |-> "idle"]
        /\ \/ UNCHANGED <<events, seqHigh>>
           \/ events' = synced.events /\ seqHigh' = synced.seqHigh
    BY <1>11 DEF Crash, PowerLoss, Die, dbVars
  <2>2. Aged(events, seqHigh)' /\ Aged(synced.events, synced.seqHigh)'
    BY <2>1 DEF AgeInv, Aged
  <2> QED
    BY <2>1, <2>2 DEF AgeInv, InTx, Inside
<1>12. ~ClockStepsBack
  BY DEF ClockStepsBack
<1> QED
  BY <1>2, <1>3, <1>4, <1>5, <1>6, <1>7, <1>8, <1>9, <1>10, <1>11, <1>12
     DEF Next, SteadyNext, Persist, PruneStep

LEMMA AgeInvariant ==
    ASSUME ClockSteps = FALSE
    PROVE  Spec => []AgeInv
<1>1. DbInv /\ AgeInv /\ [Next]_vars => AgeInv'
  BY AgeStep
<1> QED
  BY <1>1, AgeInit, DbInvariant, PTL DEF Spec

\* Every row from any surviving one up to the head is there to be played back, after
\* a power loss too: it takes the newest rows and leaves what was contiguous.
THEOREM RetentionIsContiguous ==
    ASSUME ClockSteps = FALSE
    PROVE  Spec => []ContiguousRetention
<1>1. AgeInv => ContiguousRetention
  BY DEF AgeInv, Aged, ContiguousRetention
<1> QED
  BY <1>1, AgeInvariant, PTL

\* What a batch of the prune job deletes is older than the window.
LEMMA BatchIsOld ==
    ASSUME DbInv, AgeInv, PruneBatch, NEW e \in events \ events'
    PROVE  e.ts < now - Window
<1>1. e \in Expired /\ ppc = "batch"
  BY DEF PruneBatch, Batches
<1> QED
  BY <1>1, TimeAssumption DEF Expired, AgeInv, DbInv, TypeOK, Row

\* Prune deletes nothing that is younger than the window when it is deleted, also in
\* a table that lost its newest rows and is filled again.
THEOREM PruneKeepsWindow ==
    ASSUME ClockSteps = FALSE
    PROVE  Spec => [][PruneBatch => \A e \in events \ events' : e.ts < now - Window]_vars
<1>1. DbInv /\ AgeInv => [PruneBatch => \A e \in events \ events' : e.ts < now - Window]_vars
  BY BatchIsOld
<1> QED
  BY <1>1, DbInvariant, AgeInvariant, PTL DEF Spec

\* Without power losses nothing else deletes a row.
THEOREM WindowIsKept ==
    ASSUME PowerFails = FALSE, ClockSteps = FALSE
    PROVE  Spec => KeepsWindow
<1>1. DbInv /\ AgeInv /\ [Next]_vars => [\A e \in events \ events' : e.ts < now - Window]_vars
  <2> SUFFICES ASSUME DbInv, AgeInv, [Next]_vars, NEW e \in events \ events'
               PROVE  e.ts < now - Window
    OBVIOUS
  <2>1. PruneBatch
    BY DEF Next, SteadyNext, Persist, PruneStep, vars, dbVars, Call, Lock, Insert, Encode, CommitTx, Air,
           PersistFails, PruneTick, PruneFails, ClockAdvances, ClockStepsBack, Sync,
           Crash, PowerLoss
  <2> QED
    BY <2>1, BatchIsOld
<1> QED
  BY <1>1, DbInvariant, AgeInvariant, PTL DEF Spec, KeepsWindow

-----------------------------------------------------------------------------
(* The detailed store implements the abstract log.                            *)

\* Unsent names the number of the writer between commit and broadcast.
LEMMA UnsentCommitted ==
    ASSUME KeyInv, NEW w \in Writers, wpc[w] = "committed"
    PROVE  Unsent = row[w].seq
<1>1. \A v \in Writers : wpc[v] = "committed" => v = w
  BY WriterAssumption DEF KeyInv, DbInv, TypeOK
<1> QED
  BY <1>1 DEF Unsent

LEMMA UnsentNone ==
    ASSUME \A w \in Writers : wpc[w] # "committed"
    PROVE  Unsent = 0
  BY DEF Unsent

LEMMA LogInitially == Init => Log!LogInit
  BY UnsentNone DEF Init, Log!LogInit, SeqsOf

LEMMA SeqsOfAdd == \A R, e : SeqsOf(R \cup {e}) = SeqsOf(R) \cup {e.seq}
  BY DEF SeqsOf

\* Committing a row is the abstract Commit.
LEMMA CommitIsCommit ==
    ASSUME KeyInv, KeyInv', NEW w \in Writers, CommitTx(w)
    PROVE  Log!Commit
<1>1. Unsent = 0
  <2>1. \A v \in Writers : wpc[v] # "committed"
    BY WriterAssumption DEF CommitTx, KeyInv, DbInv, TypeOK
  <2> QED
    BY <2>1, UnsentNone
<1>2. row[w].seq = seqHigh + 1 /\ seqHigh < MaxSeq
  BY DEF CommitTx, KeyInv, DbInv, InTx
<1>3. Unsent' = seqHigh + 1
  <2>1. wpc'[w] = "committed" /\ row' = row
    BY DEF CommitTx, KeyInv, DbInv, TypeOK
  <2>2. \A v \in Writers : wpc'[v] = "committed" => v = w
    BY <2>1, WriterAssumption DEF KeyInv, DbInv, TypeOK
  <2> QED
    BY <1>2, <2>1, <2>2 DEF Unsent
<1>4. SeqsOf(events)' = SeqsOf(events) \cup {seqHigh + 1}
  BY <1>2, SeqsOfAdd DEF CommitTx, SeqsOf
<1> QED
  BY <1>1, <1>2, <1>3, <1>4 DEF Log!Commit, CommitTx

\* Calling the broadcaster is the abstract Announce.
LEMMA AirIsAnnounce ==
    ASSUME KeyInv, NEW w \in Writers, Air(w)
    PROVE  Log!Announce
<1>1. Unsent = row[w].seq
  BY UnsentCommitted DEF Air
<1>2. row[w].seq # 0
  BY MaxSeqAssumption DEF Air, KeyInv, DbInv, TypeOK
<1>3. \A v \in Writers : wpc'[v] # "committed"
  BY WriterAssumption DEF Air, Release, KeyInv, DbInv, TypeOK
<1>4. Unsent' = 0
  BY <1>3 DEF Unsent
<1> QED
  BY <1>1, <1>2, <1>4 DEF Log!Announce, Air, dbVars, SeqsOf

\* What else a writer does, the tick of the prune job and the clock are not seen.
LEMMA StoreIsSilent ==
    ASSUME KeyInv,
           \/ \E w \in Writers : Call(w) \/ Lock(w) \/ Insert(w) \/ Encode(w) \/ PersistFails(w)
           \/ PruneTick \/ PruneFails \/ ClockAdvances \/ ClockStepsBack \/ Sync \/ UNCHANGED vars
    PROVE  UNCHANGED Log!logVars
<1>1. ASSUME NEW w \in Writers, Lock(w) \/ Insert(w) \/ Encode(w) \/ PersistFails(w)
      PROVE  UNCHANGED Log!logVars
  <2>1. UNCHANGED <<events, seqHigh, bcast>>
    BY <1>1 DEF Lock, Insert, Encode, PersistFails, dbVars
  <2>2. \A v \in Writers : wpc[v] # "committed" /\ wpc'[v] # "committed"
    BY <1>1, WriterAssumption DEF Lock, Insert, Encode, PersistFails, Release, KeyInv, DbInv, TypeOK
  <2> QED
    BY <2>1, <2>2 DEF Unsent, Log!logVars, SeqsOf
<1>2. ASSUME UNCHANGED <<row, events, seqHigh, bcast>>,
             \A w \in Writers : wpc'[w] = "committed" <=> wpc[w] = "committed"
      PROVE  UNCHANGED Log!logVars
  BY <1>2 DEF Unsent, Log!logVars, SeqsOf
<1>3. ASSUME NEW w \in Writers, Call(w)
      PROVE  UNCHANGED Log!logVars
  BY <1>2, <1>3 DEF Call, dbVars, KeyInv, DbInv, TypeOK
<1>4. CASE PruneTick \/ PruneFails \/ ClockAdvances \/ ClockStepsBack \/ Sync \/ UNCHANGED vars
  BY <1>2, <1>4 DEF PruneTick, PruneFails, ClockAdvances, ClockStepsBack, Sync, vars,
                    writerVars, dbVars
<1> QED
  BY <1>1, <1>3, <1>4

\* A batch of the prune job is an Expire, or empty.
LEMMA BatchIsExpire ==
    ASSUME PruneBatch
    PROVE  UNCHANGED Log!logVars \/ \E gone \in SUBSET SeqsOf(events) : Log!Expire(gone)
<1>1. UNCHANGED <<seqHigh, bcast, Unsent>>
  BY DEF PruneBatch, writerVars, Unsent
<1>2. SeqsOf(events)' \subseteq SeqsOf(events)
  BY DEF PruneBatch, SeqsOf
<1>3. CASE SeqsOf(events)' = SeqsOf(events)
  BY <1>1, <1>3 DEF Log!logVars
<1>4. CASE SeqsOf(events)' # SeqsOf(events)
  <2> DEFINE gone == SeqsOf(events) \ SeqsOf(events)'
  <2>1. gone \in SUBSET SeqsOf(events) /\ gone # {} /\ SeqsOf(events)' = SeqsOf(events) \ gone
    BY <1>2, <1>4
  <2>2. Log!Expire(gone)
    BY <1>1, <2>1 DEF Log!Expire
  <2> QED
    BY <2>1, <2>2
<1> QED
  BY <1>3, <1>4

\* A crash of the process loses the announcement and nothing else.
LEMMA CrashIsRestart ==
    ASSUME Crash
    PROVE  Log!Restart
<1>1. \A w \in Writers : wpc'[w] # "committed"
  BY DEF Crash, Die
<1>2. Unsent' = 0
  BY <1>1 DEF Unsent
<1> QED
  BY <1>2 DEF Crash, Die, dbVars, Log!Restart, SeqsOf

LEMMA LogStep ==
    ASSUME PowerFails = FALSE, KeyInv, KeyInv', [Next]_vars
    PROVE  [Log!LogNext]_(Log!logVars)
<1>1. ~PowerLoss
  BY DEF PowerLoss
<1> QED
  BY <1>1, CommitIsCommit, AirIsAnnounce, StoreIsSilent, BatchIsExpire, CrashIsRestart
     DEF Next, SteadyNext, Persist, PruneStep, Log!LogNext

\* LabelPersist, with its mutex, transactions, batches and crashes, is the log
\* that Seam and Subscribe are built on.
THEOREM StoreImplementsLog ==
    ASSUME PowerFails = FALSE
    PROVE  Spec => ImplementsLog
<1>1. KeyInv /\ KeyInv' /\ [Next]_vars => [Log!LogNext]_(Log!logVars)
  BY LogStep
<1> QED
  BY <1>1, LogInitially, KeyInvariant, PTL DEF Spec, ImplementsLog, Log!LogSpec
=============================================================================
