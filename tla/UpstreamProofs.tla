--------------------------- MODULE UpstreamProofs ---------------------------
(***************************************************************************)
(* Proofs about Upstream: at-least-once delivery across overlapping        *)
(* subscriptions, crashes and power losses, and what a cancelled           *)
(* subscription can still do, for any number of frames and subscriptions.  *)
(***************************************************************************)
EXTENDS Upstream, TLAPS

USE BoundAssumption, ContentAssumption, OverrideAssumption, SwitchAssumption DEF Ids

\* A late frame is the last one of its subscription, in the table and in what a
\* power loss leaves of it.
LateDone(R) ==
    /\ \A r \in R :
          /\ r.by <= started
          /\ r.late => ~live[r.by] /\ pc[r.by] \in {"recorded", "top", "none"}
    /\ \A r, s \in R : r.by = s.by /\ r.late /\ s.late => r.seq = s.seq

LateInv ==
    /\ LateDone(recorded)
    /\ LateDone(synced.recorded)
    /\ synced.recorded \subseteq recorded
    /\ \A i \in Ids : i > started => pc[i] = "none"

-----------------------------------------------------------------------------
(* At-least-once *)

LEMMA UpInit == Init => UpInv
  BY DEF Init, UpInv, UpTypeOK, CursorIsBacked, SyncedIsBacked,
         ConnectionIsBacked, Handled, Record

\* Every step keeps the cursor, and all that may become the cursor, backed.
LEMMA UpStep == UpInv /\ [Next]_vars => UpInv'
<1> SUFFICES ASSUME UpInv, [Next]_vars
             PROVE  UpInv'
  OBVIOUS
<1> USE DEF UpInv, Goto, Frame, subVars, dbVars
<1>1. ASSUME NEW o \in Overrides, Start(o)
      PROVE  UpInv'
  <2>1. UpTypeOK' /\ (base <= Len(up))'
    BY <1>1 DEF UpTypeOK, ConnectionIsBacked, Start
  <2>2. Handled' = Handled
    BY <1>1 DEF Handled, Start
  <2>3. CursorIsBacked'
    BY <1>1, <2>2 DEF UpTypeOK, CursorIsBacked, ConnectionIsBacked, Start
  <2>4. SyncedIsBacked'
    BY <1>1, <2>2 DEF UpTypeOK, SyncedIsBacked, Start
  <2>5. ASSUME NEW j \in Ids
        PROVE  ConnectionIsBacked(j)'
    BY <1>1, <2>2 DEF UpTypeOK, CursorIsBacked, ConnectionIsBacked, Start
  <2> QED
    BY <2>1, <2>3, <2>4, <2>5
<1>2. ASSUME NEW i \in Ids, ReadCursor(i)
      PROVE  UpInv'
  <2>1. UpTypeOK' /\ (base <= Len(up))'
    BY <1>2 DEF UpTypeOK, ConnectionIsBacked, ReadCursor
  <2>2. Handled' = Handled
    BY <1>2 DEF Handled, ReadCursor
  <2>3. CursorIsBacked'
    BY <1>2, <2>2 DEF UpTypeOK, CursorIsBacked, ConnectionIsBacked, ReadCursor
  <2>4. SyncedIsBacked'
    BY <1>2, <2>2 DEF UpTypeOK, SyncedIsBacked, ReadCursor
  <2>5. ASSUME NEW j \in Ids
        PROVE  ConnectionIsBacked(j)'
    BY <1>2, <2>2 DEF UpTypeOK, CursorIsBacked, ConnectionIsBacked, ReadCursor
  <2> QED
    BY <2>1, <2>3, <2>4, <2>5
<1>3. ASSUME NEW i \in Ids, Connect(i)
      PROVE  UpInv'
  <2>1. UpTypeOK' /\ (base <= Len(up))'
    BY <1>3 DEF UpTypeOK, ConnectionIsBacked, Connect
  <2>2. Handled' = Handled
    BY <1>3 DEF Handled, Connect
  <2>3. CursorIsBacked'
    BY <1>3, <2>2 DEF UpTypeOK, CursorIsBacked, ConnectionIsBacked, Connect
  <2>4. SyncedIsBacked'
    BY <1>3, <2>2 DEF UpTypeOK, SyncedIsBacked, Connect
  <2>5. ASSUME NEW j \in Ids
        PROVE  ConnectionIsBacked(j)'
    BY <1>3, <2>2 DEF UpTypeOK, CursorIsBacked, ConnectionIsBacked, Connect
  <2> QED
    BY <2>1, <2>3, <2>4, <2>5
<1>4. ASSUME NEW i \in Ids, Receive(i)
      PROVE  UpInv'
  <2>1. UpTypeOK' /\ (base <= Len(up))'
    BY <1>4 DEF UpTypeOK, ConnectionIsBacked, Receive
  <2>2. Handled' = Handled
    BY <1>4 DEF Handled, Receive
  <2>3. CursorIsBacked'
    BY <1>4, <2>2 DEF UpTypeOK, CursorIsBacked, ConnectionIsBacked, Receive
  <2>4. SyncedIsBacked'
    BY <1>4, <2>2 DEF UpTypeOK, SyncedIsBacked, Receive
  <2>5. ASSUME NEW j \in Ids
        PROVE  ConnectionIsBacked(j)'
    BY <1>4, <2>2 DEF UpTypeOK, CursorIsBacked, ConnectionIsBacked, Receive
  <2> QED
    BY <2>1, <2>3, <2>4, <2>5
<1>5. ASSUME NEW i \in Ids, BeginPersist(i)
      PROVE  UpInv'
  <2>1. UpTypeOK' /\ (base <= Len(up))'
    BY <1>5 DEF UpTypeOK, ConnectionIsBacked, BeginPersist
  <2>2. Handled' = Handled
    BY <1>5 DEF Handled, BeginPersist
  <2>3. CursorIsBacked'
    BY <1>5, <2>2 DEF UpTypeOK, CursorIsBacked, ConnectionIsBacked, BeginPersist
  <2>4. SyncedIsBacked'
    BY <1>5, <2>2 DEF UpTypeOK, SyncedIsBacked, BeginPersist
  <2>5. ASSUME NEW j \in Ids
        PROVE  ConnectionIsBacked(j)'
    BY <1>5, <2>2 DEF UpTypeOK, CursorIsBacked, ConnectionIsBacked, BeginPersist
  <2> QED
    BY <2>1, <2>3, <2>4, <2>5
<1>6. ASSUME NEW i \in Ids, BeginWrite(i)
      PROVE  UpInv'
  <2>1. UpTypeOK' /\ (base <= Len(up))'
    BY <1>6 DEF UpTypeOK, ConnectionIsBacked, BeginWrite
  <2>2. Handled' = Handled
    BY <1>6 DEF Handled, BeginWrite
  <2>3. CursorIsBacked'
    BY <1>6, <2>2 DEF UpTypeOK, CursorIsBacked, ConnectionIsBacked, BeginWrite
  <2>4. SyncedIsBacked'
    BY <1>6, <2>2 DEF UpTypeOK, SyncedIsBacked, BeginWrite
  <2>5. ASSUME NEW j \in Ids
        PROVE  ConnectionIsBacked(j)'
    BY <1>6, <2>2 DEF UpTypeOK, CursorIsBacked, ConnectionIsBacked, BeginWrite
  <2> QED
    BY <2>1, <2>3, <2>4, <2>5
<1>7. ASSUME NEW i \in Ids, WriteCursor(i)
      PROVE  UpInv'
  <2>1. UpTypeOK' /\ (base <= Len(up))'
    BY <1>7 DEF UpTypeOK, ConnectionIsBacked, WriteCursor
  <2>2. Handled' = Handled
    BY <1>7 DEF Handled, WriteCursor
  <2>a. base + 1 .. pos[i] + 1 \subseteq Handled
    <3>1. base + 1 .. pos[i] \subseteq Handled /\ pos[i] + 1 \in Handled
      BY <1>7 DEF ConnectionIsBacked, WriteCursor
    <3>2. base \in Nat /\ pos[i] \in Nat
      BY DEF UpTypeOK
    <3> QED
      BY <3>1, <3>2
  <2>3. CursorIsBacked'
    BY <1>7, <2>2, <2>a DEF CursorIsBacked, WriteCursor
  <2>4. SyncedIsBacked'
    BY <1>7, <2>2 DEF UpTypeOK, SyncedIsBacked, WriteCursor
  <2>5. ASSUME NEW j \in Ids
        PROVE  ConnectionIsBacked(j)'
    BY <1>7, <2>2, <2>a DEF UpTypeOK, ConnectionIsBacked, WriteCursor
  <2> QED
    BY <2>1, <2>3, <2>4, <2>5
<1>8. ASSUME NEW i \in Ids, Fail(i)
      PROVE  UpInv'
  <2>1. UpTypeOK' /\ (base <= Len(up))'
    BY <1>8 DEF UpTypeOK, ConnectionIsBacked, Fail
  <2>2. Handled' = Handled
    BY <1>8 DEF Handled, Fail
  <2>3. CursorIsBacked'
    BY <1>8, <2>2 DEF UpTypeOK, CursorIsBacked, ConnectionIsBacked, Fail
  <2>4. SyncedIsBacked'
    BY <1>8, <2>2 DEF UpTypeOK, SyncedIsBacked, Fail
  <2>5. ASSUME NEW j \in Ids
        PROVE  ConnectionIsBacked(j)'
    BY <1>8, <2>2 DEF UpTypeOK, CursorIsBacked, ConnectionIsBacked, Fail
  <2> QED
    BY <2>1, <2>3, <2>4, <2>5
<1>9. ASSUME NEW i \in Ids, Exit(i)
      PROVE  UpInv'
  <2>1. UpTypeOK' /\ (base <= Len(up))'
    BY <1>9 DEF UpTypeOK, ConnectionIsBacked, Exit
  <2>2. Handled' = Handled
    BY <1>9 DEF Handled, Exit
  <2>3. CursorIsBacked'
    BY <1>9, <2>2 DEF UpTypeOK, CursorIsBacked, ConnectionIsBacked, Exit
  <2>4. SyncedIsBacked'
    BY <1>9, <2>2 DEF UpTypeOK, SyncedIsBacked, Exit
  <2>5. ASSUME NEW j \in Ids
        PROVE  ConnectionIsBacked(j)'
    BY <1>9, <2>2 DEF UpTypeOK, CursorIsBacked, ConnectionIsBacked, Exit
  <2> QED
    BY <2>1, <2>3, <2>4, <2>5
<1>10. CASE Stop
  <2>1. UpTypeOK' /\ (base <= Len(up))'
    BY <1>10 DEF UpTypeOK, ConnectionIsBacked, Stop
  <2>2. Handled' = Handled
    BY <1>10 DEF Handled, Stop
  <2>3. CursorIsBacked'
    BY <1>10, <2>2 DEF UpTypeOK, CursorIsBacked, ConnectionIsBacked, Stop
  <2>4. SyncedIsBacked'
    BY <1>10, <2>2 DEF UpTypeOK, SyncedIsBacked, Stop
  <2>5. ASSUME NEW j \in Ids
        PROVE  ConnectionIsBacked(j)'
    BY <1>10, <2>2 DEF UpTypeOK, CursorIsBacked, ConnectionIsBacked, Stop
  <2> QED
    BY <2>1, <2>3, <2>4, <2>5
<1>11. CASE Publish
  <2>1. UpTypeOK' /\ (base <= Len(up))'
    BY <1>11 DEF UpTypeOK, ConnectionIsBacked, Publish
  <2>2. Handled' = Handled
    BY <1>11 DEF Handled, Publish
  <2>3. CursorIsBacked'
    BY <1>11, <2>2 DEF UpTypeOK, CursorIsBacked, ConnectionIsBacked, Publish
  <2>4. SyncedIsBacked'
    BY <1>11, <2>2 DEF UpTypeOK, SyncedIsBacked, Publish
  <2>5. ASSUME NEW j \in Ids
        PROVE  ConnectionIsBacked(j)'
    BY <1>11, <2>2 DEF UpTypeOK, CursorIsBacked, ConnectionIsBacked, Publish
  <2> QED
    BY <2>1, <2>3, <2>4, <2>5
<1>12. CASE Sync
  <2>1. UpTypeOK' /\ (base <= Len(up))'
    BY <1>12 DEF UpTypeOK, ConnectionIsBacked, Sync
  <2>2. Handled' = Handled
    BY <1>12 DEF Handled, Sync
  <2>3. CursorIsBacked'
    BY <1>12, <2>2 DEF UpTypeOK, CursorIsBacked, ConnectionIsBacked, Sync
  <2>4. SyncedIsBacked'
    BY <1>12, <2>2 DEF UpTypeOK, SyncedIsBacked, CursorIsBacked, Handled, Sync
  <2>5. ASSUME NEW j \in Ids
        PROVE  ConnectionIsBacked(j)'
    BY <1>12, <2>2 DEF UpTypeOK, CursorIsBacked, ConnectionIsBacked, Sync
  <2> QED
    BY <2>1, <2>3, <2>4, <2>5
<1>13. CASE Crash
  <2>1. UpTypeOK' /\ (base <= Len(up))'
    BY <1>13 DEF UpTypeOK, ConnectionIsBacked, Crash, Die
  <2>2. Handled' = Handled
    BY <1>13 DEF Handled, Crash, Die
  <2>3. CursorIsBacked'
    BY <1>13, <2>2 DEF UpTypeOK, CursorIsBacked, ConnectionIsBacked, Crash, Die
  <2>4. SyncedIsBacked'
    BY <1>13, <2>2 DEF UpTypeOK, SyncedIsBacked, Crash, Die
  <2>5. ASSUME NEW j \in Ids
        PROVE  ConnectionIsBacked(j)'
    BY <1>13, <2>2 DEF UpTypeOK, CursorIsBacked, ConnectionIsBacked, Crash, Die
  <2> QED
    BY <2>1, <2>3, <2>4, <2>5
<1>14. CASE PowerLoss
  <2>1. UpTypeOK' /\ (base <= Len(up))'
    BY <1>14 DEF UpTypeOK, ConnectionIsBacked, PowerLoss, Die
  <2>2. Handled' = {r.seq : r \in synced.recorded} \cup dropped
    BY <1>14 DEF Handled, PowerLoss, Die
  <2>3. CursorIsBacked'
    BY <1>14, <2>2 DEF UpTypeOK, CursorIsBacked, ConnectionIsBacked, SyncedIsBacked, PowerLoss, Die
  <2>4. SyncedIsBacked'
    BY <1>14, <2>2 DEF UpTypeOK, SyncedIsBacked, PowerLoss, Die
  <2>5. ASSUME NEW j \in Ids
        PROVE  ConnectionIsBacked(j)'
    BY <1>14, <2>2 DEF UpTypeOK, CursorIsBacked, ConnectionIsBacked, PowerLoss, Die
  <2> QED
    BY <2>1, <2>3, <2>4, <2>5
<1>15. ASSUME NEW i \in Ids, Persist(i)
      PROVE  UpInv'
  <2> DEFINE frame == [seq |-> Frame(i), labels |-> Kept(i), by |-> i, late |-> ~live[i]]
  <2>a. recorded' = recorded \cup {frame}
    BY <1>15 DEF Persist
  <2>b. Frame(i) \in 1 .. Len(up)
    BY <1>15 DEF UpTypeOK, ConnectionIsBacked, Persist
  <2>c. Kept(i) \subseteq {"signed", "unsigned"}
    <3>1. up[Frame(i)] \in Contents
      BY <2>b DEF UpTypeOK
    <3>2. Kept(i) \subseteq up[Frame(i)]
      BY DEF Kept
    <3> QED
      BY <3>1, <3>2
  <2>d. frame \in Record
    BY <2>b, <2>c DEF UpTypeOK, Record
  <2>1. UpTypeOK' /\ (base <= Len(up))'
    BY <1>15, <2>d DEF UpTypeOK, Persist
  <2>2. Handled' = Handled \cup {Frame(i)}
    <3>1. frame.seq = Frame(i)
      OBVIOUS
    <3> HIDE DEF frame
    <3> QED
      BY <1>15, <2>a, <3>1 DEF Handled, Persist
  <2>3. CursorIsBacked'
    BY <1>15, <2>2 DEF UpTypeOK, CursorIsBacked, ConnectionIsBacked, Persist
  <2>4. SyncedIsBacked'
    BY <1>15, <2>2 DEF UpTypeOK, SyncedIsBacked, Persist
  <2>5. ASSUME NEW j \in Ids
        PROVE  ConnectionIsBacked(j)'
    BY <1>15, <2>2 DEF UpTypeOK, CursorIsBacked, ConnectionIsBacked, Persist
  <2> QED
    BY <2>1, <2>3, <2>4, <2>5
<1>16. ASSUME NEW i \in Ids, BeginSkip(i)
      PROVE  UpInv'
  <2>a. Frame(i) \in 1 .. MaxUp
    BY <1>16 DEF UpTypeOK, ConnectionIsBacked, BeginSkip
  <2>1. UpTypeOK' /\ (base <= Len(up))'
    BY <1>16, <2>a DEF UpTypeOK, BeginSkip
  <2>2. Handled' = Handled \cup {Frame(i)}
    BY <1>16 DEF Handled, BeginSkip
  <2>3. CursorIsBacked'
    BY <1>16, <2>2 DEF UpTypeOK, CursorIsBacked, ConnectionIsBacked, BeginSkip
  <2>4. SyncedIsBacked'
    BY <1>16, <2>2 DEF UpTypeOK, SyncedIsBacked, BeginSkip
  <2>5. ASSUME NEW j \in Ids
        PROVE  ConnectionIsBacked(j)'
    BY <1>16, <2>2 DEF UpTypeOK, CursorIsBacked, ConnectionIsBacked, BeginSkip
  <2> QED
    BY <2>1, <2>3, <2>4, <2>5
<1>17. CASE UNCHANGED vars
  BY <1>17 DEF vars, UpTypeOK, CursorIsBacked, SyncedIsBacked, ConnectionIsBacked, Handled
<1> QED
  BY <1>1, <1>2, <1>3, <1>4, <1>5, <1>6, <1>7, <1>8, <1>9,
     <1>10, <1>11, <1>12, <1>13, <1>14, <1>15, <1>16, <1>17 DEF Next, Sub

LEMMA UpInvariant == Spec => []UpInv
<1> QED
  BY UpInit, UpStep, PTL DEF Spec

\* The subscriptions of a labeler are typed, and only the one started last has a
\* context that is still alive.
THEOREM UpTypeCorrect == Spec => []UpTypeOK
<1>1. UpInv => UpTypeOK
  BY DEF UpInv
<1> QED
  BY <1>1, UpInvariant, PTL

\* At-least-once: whatever subscriptions overlap, fail, crash or lose power, no
\* frame up to the stored cursor is missing.
THEOREM NoFrameIsMissing == Spec => []CursorIsBacked
<1>1. UpInv => CursorIsBacked
  BY DEF UpInv
<1> QED
  BY <1>1, UpInvariant, PTL
-----------------------------------------------------------------------------
(* What a cancelled subscription can still do *)

LEMMA LateInit == Init => LateInv
  BY DEF Init, LateInv, LateDone

\* A late frame is recorded from "commit", and its subscription, whose context
\* is dead, has no way back there.
LEMMA LateStep == UpInv /\ LateInv /\ [Next]_vars => LateInv'
<1> SUFFICES ASSUME UpInv, LateInv, [Next]_vars
             PROVE  LateInv'
  OBVIOUS
<1> USE DEF UpInv, UpTypeOK, LateInv, LateDone, Record, Goto, Alive, subVars, dbVars
<1>1. ASSUME NEW o \in Overrides, Start(o)
      PROVE  LateInv'
  <2>1. started' = started + 1 /\ started + 1 \in Ids
    BY <1>1 DEF Start
  <2>2. \A i \in Ids : i <= started => ~live'[i] /\ pc'[i] = pc[i]
    BY <1>1 DEF Start
  <2>3. \A i \in Ids : i > started + 1 => pc'[i] = pc[i]
    BY <1>1 DEF Start
  <2>4. \A R \in SUBSET Record : LateDone(R) /\ R' = R => LateDone(R)'
    BY <2>1, <2>2
  <2> QED
    BY <1>1, <2>1, <2>2, <2>3, <2>4 DEF Start
<1>2. CASE Stop
  BY <1>2 DEF Stop
<1>3. ASSUME NEW i \in Ids, ReadCursor(i)
      PROVE  LateInv'
  BY <1>3 DEF ReadCursor
<1>4. ASSUME NEW i \in Ids, Connect(i)
      PROVE  LateInv'
  BY <1>4 DEF Connect
<1>5. ASSUME NEW i \in Ids, Receive(i)
      PROVE  LateInv'
  BY <1>5 DEF Receive
<1>6. ASSUME NEW i \in Ids, BeginPersist(i)
      PROVE  LateInv'
  BY <1>6 DEF BeginPersist
<1>7. ASSUME NEW i \in Ids, BeginWrite(i)
      PROVE  LateInv'
  BY <1>7 DEF BeginWrite
<1>8. ASSUME NEW i \in Ids, BeginSkip(i)
      PROVE  LateInv'
  BY <1>8 DEF BeginSkip
<1>9. ASSUME NEW i \in Ids, WriteCursor(i)
      PROVE  LateInv'
  BY <1>9 DEF WriteCursor
<1>10. ASSUME NEW i \in Ids, Fail(i)
      PROVE  LateInv'
  BY <1>10 DEF Fail
<1>11. ASSUME NEW i \in Ids, Exit(i)
      PROVE  LateInv'
  BY <1>11 DEF Exit
<1>12. ASSUME NEW i \in Ids, Persist(i)
       PROVE  LateInv'
  <2> DEFINE frame == [seq |-> Frame(i), labels |-> Kept(i), by |-> i, late |-> ~live[i]]
  <2>1. frame.by = i /\ frame.late = ~live[i]
    OBVIOUS
  <2>2. recorded' = recorded \cup {frame} /\ pc[i] = "commit"
    BY <1>12 DEF Persist
  <2> HIDE DEF frame
  <2>3. \A r \in recorded : r.late => r.by # i
    BY <2>2
  <2>4. i <= started
    BY <2>2
  <2>5. \A r \in recorded :
           /\ r.by <= started
           /\ r.late => ~live[r.by] /\ pc'[r.by] \in {"recorded", "top", "none"}
    BY <1>12, <2>3 DEF Persist
  <2>6. LateDone(recorded)'
    <3>1. \A r, s \in recorded' : r.by = s.by /\ r.late /\ s.late => r.seq = s.seq
      BY <2>1, <2>2, <2>3
    <3>2. pc'[i] = "recorded" /\ live' = live /\ started' = started
      BY <1>12 DEF Persist
    <3>3. \A r \in recorded' :
             /\ r.by <= started'
             /\ r.late => ~live'[r.by] /\ pc'[r.by] \in {"recorded", "top", "none"}
      BY <2>1, <2>2, <2>4, <2>5, <3>2
    <3> QED
      BY <3>1, <3>3
  <2> QED
    BY <1>12, <2>2, <2>5, <2>6 DEF Persist
<1>13. CASE Publish
  BY <1>13 DEF Publish
<1>14. CASE Sync
  BY <1>14 DEF Sync
<1>15. CASE Crash
  BY <1>15 DEF Crash, Die
<1>16. CASE PowerLoss
  BY <1>16 DEF PowerLoss, Die
<1>17. CASE UNCHANGED vars
  BY <1>17 DEF vars
<1> QED
  BY <1>1, <1>2, <1>3, <1>4, <1>5, <1>6, <1>7, <1>8, <1>9,
     <1>10, <1>11, <1>12, <1>13, <1>14, <1>15, <1>16, <1>17 DEF Next, Sub

LEMMA LateInvariant == Spec => []LateInv
<1> QED
  BY LateInit, LateStep, UpInvariant, PTL DEF Spec

\* A subscription records at most one frame after its cancellation.
THEOREM OneFrameAfterCancel == Spec => []OneLateFrame
<1>1. LateInv => OneLateFrame
  BY DEF LateInv, LateDone, OneLateFrame
<1> QED
  BY <1>1, LateInvariant, PTL

\* While the policy of the running configuration requires signatures, only a
\* cancelled subscription records an unsigned label.
THEOREM PolicyIsInForce == Spec => PolicyInForce
<1>1. UpInv /\ LateInv /\ [Next]_vars =>
        [\A r \in recorded' \ recorded :
            "unsigned" \in r.labels /\ SigRequired(override[started]) => r.late]_vars
  <2> SUFFICES ASSUME UpInv, LateInv, [Next]_vars, NEW r \in recorded' \ recorded,
                      "unsigned" \in r.labels, SigRequired(override[started])
               PROVE  r.late
    OBVIOUS
  <2>1. PICK i \in Ids : Persist(i)
    <3>1. ASSUME PowerLoss PROVE FALSE
      BY <3>1 DEF PowerLoss, LateInv
    <3> QED
      BY <3>1 DEF Next, Sub, vars, subVars, dbVars, Start, Stop, ReadCursor, Connect, Receive,
         BeginPersist, BeginWrite, BeginSkip, WriteCursor, Fail, Exit, Publish, Sync,
         Crash, Die
  <2> QED
    <3>1. r = [seq |-> Frame(i), labels |-> Kept(i), by |-> i, late |-> ~live[i]]
      BY <2>1 DEF Persist
    <3>2. ~SigRequired(override[i])
      BY <3>1 DEF Kept
    <3>3. live[i] => i = started
      BY DEF UpInv, UpTypeOK
    <3> QED
      BY <3>1, <3>2, <3>3
<1> QED
  BY <1>1, UpInvariant, LateInvariant, PTL DEF Spec, PolicyInForce

-----------------------------------------------------------------------------
(* The subscriptions implement the at-least-once reader *)

LEMMA PromiseInit == Init => Promise!Init
<1> SUFFICES ASSUME Init
             PROVE  Promise!Init
  OBVIOUS
<1>1. Len(up) = 0 /\ 1 .. Len(up) = {}
  BY DEF Init
<1>2. Handled = {}
  BY DEF Init, Handled
<1>3. DialsBlank = FALSE
  BY DEF Init, DialsBlank
<1> QED
  BY <1>1, <1>2, <1>3 DEF Init, Promise!Init

\* A step that moves none of the reader's state, except that it may end blank
\* connections.
Quiet ==
    /\ up' = up /\ cursor' = cursor /\ base' = base
    /\ Handled' = Handled
    /\ DialsBlank' => DialsBlank

LEMMA QuietIsAllowed == Quiet => [Promise!Next]_(Promise!vars)
<1> SUFFICES ASSUME Quiet
             PROVE  [Promise!Next]_(Promise!vars)
  OBVIOUS
<1>1. CASE DialsBlank'
  <2>1. DialsBlank' = DialsBlank
    BY <1>1 DEF Quiet, DialsBlank
  <2> QED
    BY <2>1 DEF Quiet, Promise!vars
<1>2. CASE ~DialsBlank'
  <2>1. DialsBlank' = FALSE
    BY <1>2 DEF DialsBlank
  <2>2. Promise!Stop
    BY <2>1 DEF Quiet, Promise!Stop
  <2> QED
    BY <2>2 DEF Promise!Next
<1> QED
  BY <1>1, <1>2

\* Whatever the reader has in hand comes next for it.
LEMMA FrameComesNext ==
    ASSUME UpInv, NEW i \in Ids, pc[i] \in {"frame", "commit", "recorded", "write"}
    PROVE  Frame(i) \in 1 .. Len(up) /\ Promise!Backed(Frame(i) - 1)
<1>1. Frame(i) <= Len(up) /\ base + 1 .. pos[i] \subseteq Handled
  BY DEF UpInv, ConnectionIsBacked
<1>2. pos[i] \in Nat /\ Frame(i) = pos[i] + 1 /\ Len(up) \in Nat
  BY DEF UpInv, UpTypeOK, Frame
<1>3. pos[i] <= Len(up) /\ Frame(i) - 1 = pos[i]
  BY <1>1, <1>2
<1> QED
  BY <1>1, <1>2, <1>3 DEF Promise!Backed

\* No cursor is ahead of the labeler.
CursorInv == cursor <= Len(up) /\ synced.cursor <= Len(up)

LEMMA CursorInit == Init => CursorInv
  BY DEF Init, CursorInv

LEMMA CursorStep == UpInv /\ CursorInv /\ [Next]_vars => CursorInv'
<1> SUFFICES ASSUME UpInv, CursorInv, [Next]_vars
             PROVE  CursorInv'
  OBVIOUS
<1> USE DEF CursorInv, UpInv, UpTypeOK, dbVars, subVars
<1>1. ASSUME NEW i \in Ids, WriteCursor(i)
      PROVE  CursorInv'
  BY <1>1 DEF WriteCursor, ConnectionIsBacked
<1>2. CASE Publish
  BY <1>2 DEF Publish
<1>3. CASE Sync \/ Crash \/ PowerLoss \/ Stop
  BY <1>3 DEF Sync, Crash, PowerLoss, Die, Stop
<1>4. CASE UNCHANGED <<up, cursor, synced>>
  BY <1>4
<1> QED
  BY <1>1, <1>2, <1>3, <1>4 DEF Next, Sub, vars, Start, ReadCursor, Connect, Receive,
     BeginPersist, Persist, BeginWrite, BeginSkip, Fail, Exit

LEMMA CursorInvariant == Spec => []CursorInv
<1> QED
  BY CursorInit, CursorStep, UpInvariant, PTL DEF Spec

LEMMA PromiseStep == UpInv /\ LateInv /\ CursorInv /\ [Next]_vars => [Promise!Next]_(Promise!vars)
<1> SUFFICES ASSUME UpInv, LateInv, CursorInv, [Next]_vars
             PROVE  [Promise!Next]_(Promise!vars)
  OBVIOUS
<1>t. UpTypeOK
  BY DEF UpInv
<1> USE DEF subVars, dbVars, Goto
<1>1. ASSUME NEW o \in Overrides, Start(o)
      PROVE  Quiet
  BY <1>1, <1>t DEF Quiet, Start, Handled, DialsBlank, UpTypeOK
<1>2. ASSUME Stop \/ Sync \/ Crash
      PROVE  Quiet
  BY <1>2, <1>t DEF Quiet, Stop, Sync, Crash, Die, Handled, DialsBlank, UpTypeOK
<1>3. ASSUME NEW i \in Ids,
             Receive(i) \/ BeginPersist(i) \/ BeginWrite(i) \/ Fail(i) \/ Exit(i)
      PROVE  Quiet
  BY <1>3, <1>t DEF Quiet, Receive, BeginPersist, BeginWrite, Fail, Exit, Handled,
                    DialsBlank, UpTypeOK
<1>4. ASSUME NEW i \in Ids, ReadCursor(i)
      PROVE  [Promise!Next]_(Promise!vars)
  <2>1. CASE cursor = 0
    <3>1. DialsBlank' = TRUE
      BY <1>4, <1>t, <2>1 DEF ReadCursor, DialsBlank, UpTypeOK
    <3>2. Handled' = Handled
      BY <1>4 DEF ReadCursor, Handled
    <3>3. Promise!Look
      BY <1>4, <2>1, <3>1, <3>2 DEF ReadCursor, Promise!Look
    <3> QED
      BY <3>3 DEF Promise!Next
  <2>2. CASE cursor # 0
    <3>1. Quiet
      BY <1>4, <1>t, <2>2 DEF Quiet, ReadCursor, Handled, DialsBlank, UpTypeOK
    <3> QED
      BY <3>1, QuietIsAllowed
  <2> QED
    BY <2>1, <2>2
<1>5. ASSUME NEW i \in Ids, Connect(i)
      PROVE  [Promise!Next]_(Promise!vars)
  <2>1. CASE pos[i] = 0
    <3>1. DialsBlank
      BY <1>5, <2>1 DEF Connect, DialsBlank
    <3>2. Handled' = Handled
      BY <1>5 DEF Connect, Handled
    <3>3. DialsBlank' \in BOOLEAN
      BY DEF DialsBlank
    <3>4. base' = Len(up) /\ up' = up /\ cursor' = cursor
      BY <1>5, <2>1 DEF Connect
    <3>5. Promise!Start
      BY <3>1, <3>2, <3>3, <3>4 DEF Promise!Start
    <3> QED
      BY <3>5 DEF Promise!Next
  <2>2. CASE pos[i] # 0
    <3>1. Quiet
      BY <1>5, <1>t, <2>2 DEF Quiet, Connect, Handled, DialsBlank, UpTypeOK
    <3> QED
      BY <3>1, QuietIsAllowed
  <2> QED
    BY <2>1, <2>2
<1>6. ASSUME NEW i \in Ids, Persist(i) \/ BeginSkip(i)
      PROVE  [Promise!Next]_(Promise!vars)
  <2>1. Handled' = Handled \cup {Frame(i)}
    <3>1. CASE Persist(i)
      <4> DEFINE frame == [seq |-> Frame(i), labels |-> Kept(i), by |-> i, late |-> ~live[i]]
      <4>1. recorded' = recorded \cup {frame} /\ dropped' = dropped
        BY <3>1 DEF Persist
      <4>2. frame.seq = Frame(i)
        OBVIOUS
      <4> HIDE DEF frame
      <4> QED
        BY <4>1, <4>2 DEF Handled
    <3>2. CASE BeginSkip(i)
      BY <3>2 DEF BeginSkip, Handled
    <3> QED
      BY <1>6, <3>1, <3>2
  <2>2. Frame(i) \in 1 .. Len(up) /\ Promise!Backed(Frame(i) - 1)
    BY <1>6, FrameComesNext DEF Persist, BeginSkip
  <2>3. DialsBlank' = DialsBlank
    <3>1. \A j \in Ids : (pc'[j] = "dial") = (pc[j] = "dial") /\ pos'[j] = pos[j]
      BY <1>6, <1>t DEF Persist, BeginSkip, UpTypeOK
    <3> QED
      BY <3>1 DEF DialsBlank
  <2>4. Promise!Deal
    BY <1>6, <2>1, <2>2, <2>3 DEF Persist, BeginSkip, Promise!Deal
  <2> QED
    BY <2>4 DEF Promise!Next
<1>7. ASSUME NEW i \in Ids, WriteCursor(i)
      PROVE  [Promise!Next]_(Promise!vars)
  <2>1. Frame(i) \in 1 .. Len(up) /\ Promise!Backed(Frame(i) - 1)
    BY <1>7, FrameComesNext DEF WriteCursor
  <2>2. Frame(i) \in Handled
    BY <1>7 DEF WriteCursor, UpInv, ConnectionIsBacked
  <2>3. base \in Nat /\ Frame(i) \in Nat /\ Len(up) \in Nat
    BY <1>t, <2>1 DEF UpTypeOK
  <2>4. Promise!Backed(Frame(i))
    BY <2>1, <2>2, <2>3 DEF Promise!Backed
  <2>5. DialsBlank' = DialsBlank
    BY <1>7, <1>t DEF WriteCursor, DialsBlank, UpTypeOK
  <2>6. Handled' = Handled
    BY <1>7 DEF WriteCursor, Handled
  <2>7. Promise!Mark
    BY <1>7, <2>1, <2>4, <2>5, <2>6 DEF WriteCursor, Promise!Mark
  <2> QED
    BY <2>7 DEF Promise!Next
<1>8. ASSUME Publish
      PROVE  [Promise!Next]_(Promise!vars)
  <2>1. PICK labels \in Contents : up' = Append(up, labels)
    BY <1>8 DEF Publish
  <2>2. Len(up') = Len(up) + 1 /\ Len(up) \in Nat
    BY <1>t, <2>1 DEF UpTypeOK
  <2>3. 1 .. Len(up') = (1 .. Len(up)) \cup {Len(up) + 1}
    BY <2>2
  <2>4. DialsBlank' = DialsBlank /\ Handled' = Handled
    BY <1>8 DEF Publish, DialsBlank, Handled
  <2>5. Promise!Publish
    BY <1>8, <2>2, <2>3, <2>4 DEF Publish, Promise!Publish
  <2> QED
    BY <2>5 DEF Promise!Next
<1>9. ASSUME PowerLoss
      PROVE  [Promise!Next]_(Promise!vars)
  <2>1. Handled' = {r.seq : r \in synced.recorded} \cup dropped
    BY <1>9 DEF PowerLoss, Die, Handled
  <2>2. Handled' \subseteq Handled
    BY <2>1 DEF LateInv, Handled
  <2>3. base + 1 .. cursor' \subseteq Handled'
    BY <1>9, <2>1 DEF PowerLoss, UpInv, SyncedIsBacked
  <2>4. cursor' \in 0 .. Len(up)
    BY <1>9 DEF PowerLoss, UpInv, UpTypeOK, CursorInv
  <2>5. DialsBlank' = FALSE
    BY <1>9 DEF PowerLoss, Die, DialsBlank
  <2>6. Promise!Rewind
    BY <1>9, <2>2, <2>3, <2>4, <2>5 DEF PowerLoss, Die, Promise!Rewind
  <2> QED
    BY <2>6 DEF Promise!Next
<1>10. ASSUME UNCHANGED vars
       PROVE  Quiet
  BY <1>10 DEF vars, Quiet, Handled, DialsBlank
<1> QED
  BY <1>1, <1>2, <1>3, <1>4, <1>5, <1>6, <1>7, <1>8, <1>9, <1>10, QuietIsAllowed DEF Next, Sub

\* For any number of overlapping subscriptions, frames, crashes and power losses,
\* the subscriptions of a labeler implement the at-least-once reader.
THEOREM SubscriptionsImplementAtLeastOnce == Spec => ImplementsAtLeastOnce
<1> QED
  BY PromiseInit, PromiseStep, UpInvariant, LateInvariant, CursorInvariant, PTL
     DEF Spec, ImplementsAtLeastOnce, Promise!Spec
=============================================================================
