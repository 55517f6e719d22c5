--------------------------- MODULE FirehoseProofs ---------------------------
(***************************************************************************)
(* Proofs about Firehose, for any number of commits and of records in      *)
(* them, any batch size and any failures: what the stored cursor stands    *)
(* for, what a redial and a crash repeat, and that without failures        *)
(* nothing is missed.                                                      *)
(***************************************************************************)
EXTENDS Firehose, FiniteSetTheorems, TLAPS

USE BoundAssumption, ContentAssumption, FailureAssumption DEF This

Known == recorded \cup refused \cup lost

\* What was tried stays so, and published commits keep their records.
LEMMA TriedGrows ==
    ASSUME NEW n \in Int, Tried(n), up \in Seq(Contents), n \in 1 .. Len(up),
           Known \subseteq Known',
           up' = up \/ \E c \in Contents : up' = Append(up, c)
    PROVE  Tried(n)'
<1>1. Records(n)' = Records(n) /\ n <= Len(up')
  <2>1. up'[n] = up[n] /\ n <= Len(up')
    OBVIOUS
  <2> QED
    BY <2>1 DEF Records
<1> QED
  BY <1>1 DEF Tried, Known

LEMMA FhInit == Init => FhInv
<1> SUFFICES ASSUME Init
             PROVE  FhInv
  OBVIOUS
<1>1. FhTypeOK
  <2>1. up \in Seq(Contents) /\ Len(up) <= MaxCommits /\ {pos, pending, cursor, base} \subseteq 0 .. MaxCommits
    BY BoundAssumption DEF Init
  <2>2. blind \in BOOLEAN /\ alive \in BOOLEAN
    BY Zenon DEF Init
  <2> QED
    BY <2>1, <2>2 DEF Init, FhTypeOK
<1>2. AccountInv
  BY DEF Init, AccountInv, Backed, Storable, Handling
<1>3. Behind = {} /\ Cardinality({}) = 0
  BY FS_EmptySet DEF Init, Behind
<1>4. BatchInv
  BY <1>3 DEF Init, BatchInv, RedialRepeatsNothing
<1> QED
  BY <1>1, <1>2, <1>4 DEF FhInv

-----------------------------------------------------------------------------
(* Types *)

LEMMA RecordTypes ==
    ASSUME FhTypeOK, NEW n \in 1 .. Len(up)
    PROVE  Records(n) \subseteq (1 .. MaxCommits) \X Nat
<1>1. n \in 1 .. MaxCommits /\ up[n] \in Nat \cup {Broken}
  <2>1. up[n] \in Contents /\ Len(up) \in Nat /\ Len(up) <= MaxCommits
    BY DEF FhTypeOK
  <2>2. n \in 1 .. MaxCommits
    BY <2>1
  <2> QED
    BY <2>1, <2>2
<1> QED
  BY <1>1 DEF Records, Broken

LEMMA TypeStep == FhInv /\ [Next]_vars => FhTypeOK'
<1> SUFFICES ASSUME FhInv, [Next]_vars
             PROVE  FhTypeOK'
  OBVIOUS
<1>0. FhTypeOK /\ AccountInv
  BY DEF FhInv
<1> USE DEF connVars, histVars, sightVars, lagVars
<1>1. ASSUME ReadMeta \/ ReadMetaFails
      PROVE  FhTypeOK'
  <2>1. PICK from \in {0, cursor} : Dials(from)
    BY <1>1 DEF ReadMeta, ReadMetaFails
  <2>2. blind' \in BOOLEAN
    BY <2>1, Zenon DEF Dials
  <2>3. {pos', pending', cursor', base'} \subseteq 0 .. MaxCommits
    BY <1>0, <2>1 DEF Dials, FhTypeOK
  <2> QED
    BY <1>0, <2>1, <2>2, <2>3 DEF Dials, FhTypeOK
<1>2. ASSUME Connect
      PROVE  FhTypeOK'
  <2>1. unread' \subseteq 1 .. MaxCommits
    <3>1. cursor + 1 .. Len(up) \subseteq 1 .. MaxCommits
      BY <1>0 DEF FhTypeOK
    <3> QED
      BY <1>0, <1>2, <3>1 DEF Connect, FhTypeOK
  <2>2. pos' \in 0 .. MaxCommits /\ base' \in 0 .. MaxCommits
    BY <1>0, <1>2 DEF Connect, FhTypeOK
  <2> QED
    BY <1>0, <1>2, <2>1, <2>2 DEF Connect, FhTypeOK
<1>3. ASSUME DialFails \/ Disconnect \/ FlushOnExit \/ FlushOnExitFails \/ Exit
      PROVE  FhTypeOK'
  <2>1. {pos', pending', cursor', base'} \subseteq 0 .. MaxCommits
    BY <1>0, <1>3, BoundAssumption DEF DialFails, Disconnect, FlushOnExit, FlushOnExitFails, Exit, FhTypeOK
  <2> QED
    BY <1>0, <1>3, <2>1 DEF DialFails, Disconnect, FlushOnExit, FlushOnExitFails, Exit, FhTypeOK
<1>4. ASSUME Receive
      PROVE  FhTypeOK'
  <2>1. Records(This) \subseteq (1 .. MaxCommits) \X Nat /\ This \in 1 .. MaxCommits
    BY <1>0, <1>4, RecordTypes DEF Receive, FhTypeOK
  <2>2. refused' \subseteq (1 .. MaxCommits) \X Nat
    BY <1>0, <1>4, <2>1 DEF Receive, FhTypeOK
  <2>3. pos' \in 0 .. MaxCommits /\ nth' \in Nat
    BY <1>0, <1>4, <2>1 DEF Receive, FhTypeOK
  <2>4. pc' \in {"stream", "stage", "resolve"}
    BY <1>4 DEF Receive
  <2> QED
    BY <1>0, <1>4, <2>2, <2>3, <2>4 DEF Receive, FhTypeOK
<1>5. ASSUME Resolves \/ Upserts
      PROVE  FhTypeOK'
  BY <1>0, <1>5 DEF Resolves, Upserts, Passes, FhTypeOK
<1>6. ASSUME Refuses \/ Persists \/ GivesUp
      PROVE  FhTypeOK'
  <2>1. This \in 1 .. MaxCommits /\ nth \in Nat
    BY <1>0, <1>6 DEF Refuses, Persists, GivesUp, FhTypeOK, AccountInv, Handling
  <2>2. <<This, nth>> \in (1 .. MaxCommits) \X Nat
    BY <2>1
  <2>3. nth' \in Nat /\ pc' \in {"resolve", "stage"}
    BY <1>6, <2>1 DEF Refuses, Persists, GivesUp, NextRecord
  <2>4. \A h \in {recorded', refused', lost'} : h \subseteq (1 .. MaxCommits) \X Nat
    BY <1>0, <1>6, <2>2 DEF Refuses, Persists, GivesUp, FhTypeOK
  <2> QED
    BY <1>0, <1>6, <2>3, <2>4 DEF Refuses, Persists, GivesUp, FhTypeOK
<1>7. ASSUME Stage \/ Flush \/ FlushFails
      PROVE  FhTypeOK'
  <2>1. This \in 1 .. MaxCommits
    BY <1>0, <1>7 DEF Stage, Flush, FlushFails, FhTypeOK, AccountInv, Handling
  <2> QED
    <3>1. {pos', pending', cursor', base'} \subseteq 0 .. MaxCommits /\ count' \in Nat /\ nth' \in Nat
      BY <1>0, <1>7, <2>1 DEF Stage, Flush, FlushFails, FhTypeOK
    <3>2. staged' \subseteq 1 .. MaxCommits
      BY <1>0, <1>7, <2>1 DEF Stage, Flush, FlushFails, FhTypeOK
    <3>3. pc' \in {"stream", "flush"} /\ missed' \in {"no", "flush", "exit"}
      BY <1>0, <1>7 DEF Stage, Flush, FlushFails, FhTypeOK
    <3> QED
      BY <1>0, <1>7, <3>1, <3>2, <3>3 DEF Stage, Flush, FlushFails, FhTypeOK
<1>8. ASSUME Publish
      PROVE  FhTypeOK'
  BY <1>0, <1>8 DEF Publish, FhTypeOK
<1>9. ASSUME Cancel
      PROVE  FhTypeOK'
  BY <1>0, <1>9 DEF Cancel, FhTypeOK
<1>10. ASSUME Restart
       PROVE  FhTypeOK'
  <2>1. blind' \in BOOLEAN /\ alive' \in BOOLEAN
    BY <1>10, Zenon DEF Restart
  <2> QED
    BY <1>0, <1>10, <2>1 DEF Restart, FhTypeOK
<1>11. ASSUME UNCHANGED vars
       PROVE  FhTypeOK'
  BY <1>0, <1>11 DEF vars, FhTypeOK
<1> QED
  BY <1>1, <1>2, <1>3, <1>4, <1>5, <1>6, <1>7, <1>8, <1>9, <1>10, <1>11 DEF Next, Watcher

-----------------------------------------------------------------------------
(* What the cursor may pass *)

\* A step that leaves each bookmark where it was, sets it back, or puts it behind the
\* commit in hand once that was tried, keeps them what they stand for.
LEMMA BookmarkStep ==
    ASSUME FhTypeOK, AccountInv, base' = base, Known \subseteq Known',
           up' = up \/ \E c \in Contents : up' = Append(up, c),
           \A n \in unread : n \in unread' \/ Tried(n)',
           cursor' >= cursor,
           \/ cursor' \in {cursor, pending}
           \/ \E m \in 1 .. Len(up) : cursor' = m /\ m = This /\ Tried(m)',
           \A c \in {pending', pos'} :
              \/ c \in {0, cursor}
              \/ blind' = blind /\ c \in {pending, pos}
              \/ blind' = blind /\ \E m \in 1 .. Len(up) : c = m /\ m = This /\ Tried(m)'
    PROVE  Backed(cursor)' /\ Storable(pending)' /\ Storable(pos)'
<1>1. /\ Len(up) \in Nat /\ Len(up') \in Nat /\ Len(up) <= Len(up')
      /\ {base, cursor, pending, pos} \subseteq Nat
  BY DEF FhTypeOK
<1>2. ASSUME NEW n \in 1 .. Len(up), Tried(n)
      PROVE  Tried(n)'
  BY <1>2, TriedGrows DEF FhTypeOK
<1>3. ASSUME NEW n \in 1 .. Len(up), Accounted(n)
      PROVE  Accounted(n)'
  <2>1. n \in unread' \/ Tried(n)'
    BY <1>2, <1>3 DEF Accounted
  <2> QED
    BY <1>1, <2>1 DEF Accounted
<1>4. ASSUME NEW n \in 1 .. Len(up), blind' = blind, Passable(n)
      PROVE  Passable(n)'
  BY <1>2, <1>4 DEF Passable
<1>5. ASSUME NEW n \in 1 .. Len(up), Passable(n) \/ Tried(n)'
      PROVE  Accounted(n)'
  <2>1. Passable(n) => Accounted(n)
    BY <1>5 DEF Passable, Accounted
  <2>2. Tried(n)' => Accounted(n)'
    BY <1>1, <1>5 DEF Accounted
  <2> QED
    BY <1>3, <1>5, <2>1, <2>2
<1>6. \A n \in base + 1 .. cursor : n \in 1 .. Len(up) /\ Accounted(n)'
  <2>1. cursor <= Len(up) /\ \A n \in base + 1 .. cursor : Accounted(n)
    BY DEF AccountInv, Backed
  <2>2. \A n \in base + 1 .. cursor : n \in 1 .. Len(up)
    BY <1>1, <2>1
  <2> QED
    BY <1>3, <2>1, <2>2
<1>7. \A b \in {pending, pos} : b <= Len(up)
         /\ \A n \in base + 1 .. b : n \in 1 .. Len(up) /\ (n <= cursor \/ Passable(n))
  <2>1. \A b \in {pending, pos} : b <= Len(up) /\ \A n \in base + 1 .. b : n <= cursor \/ Passable(n)
    BY DEF AccountInv, Storable
  <2> QED
    BY <1>1, <2>1
<1>8. Backed(cursor)'
  <2>1. CASE cursor' = cursor
    BY <1>1, <1>6, <2>1 DEF AccountInv, Backed
  <2>2. CASE cursor' = pending
    <3>1. \A n \in base + 1 .. pending : Accounted(n)'
      <4>1. ASSUME NEW n \in base + 1 .. pending
            PROVE  Accounted(n)'
        <5>1. CASE n <= cursor
          <6>1. n \in base + 1 .. cursor
            BY <1>1, <4>1, <5>1
          <6> QED
            BY <1>6, <6>1
        <5>2. CASE Passable(n)
          BY <1>5, <1>7, <4>1, <5>2
        <5> QED
          BY <1>7, <4>1, <5>1, <5>2
      <4> QED
        BY <4>1
    <3> QED
      BY <1>1, <1>7, <2>2, <3>1 DEF Backed
  <2>3. CASE \E m \in 1 .. Len(up) : cursor' = m /\ m = This /\ Tried(m)'
    <3>1. PICK m \in 1 .. Len(up) : cursor' = m /\ m = This /\ Tried(m)'
      BY <2>3
    <3>2. \A n \in base + 1 .. m : n \in base + 1 .. pos \/ n = m
      BY <1>1, <3>1
    <3>3. \A n \in base + 1 .. pos : Accounted(n)'
      <4>1. ASSUME NEW n \in base + 1 .. pos
            PROVE  Accounted(n)'
        <5>1. CASE n <= cursor
          <6>1. n \in base + 1 .. cursor
            BY <1>1, <4>1, <5>1
          <6> QED
            BY <1>6, <6>1
        <5>2. CASE Passable(n)
          BY <1>5, <1>7, <4>1, <5>2
        <5> QED
          BY <1>7, <4>1, <5>1, <5>2
      <4> QED
        BY <4>1
    <3>4. Accounted(m)'
      BY <1>5, <3>1
    <3> QED
      BY <1>1, <3>1, <3>2, <3>3, <3>4 DEF Backed
  <2> QED
    BY <2>1, <2>2, <2>3
<1>9. ASSUME NEW c \in {pending', pos'}
      PROVE  c <= Len(up') /\ \A n \in base' + 1 .. c : n <= cursor' \/ Passable(n)'
  <2>0. cursor' \in Nat /\ cursor <= Len(up)
    BY <1>1 DEF AccountInv, Backed
  <2>1. CASE c \in {0, cursor}
    BY <1>1, <2>0, <2>1
  <2>2. CASE blind' = blind /\ c \in {pending, pos}
    <3>1. \A n \in base + 1 .. c : n <= cursor \/ Passable(n)'
      BY <1>4, <1>7, <2>2
    <3> QED
      BY <1>1, <1>7, <2>0, <2>2, <3>1
  <2>3. CASE blind' = blind /\ \E m \in 1 .. Len(up) : c = m /\ m = This /\ Tried(m)'
    <3>1. PICK m \in 1 .. Len(up) : c = m /\ m = This /\ Tried(m)'
      BY <2>3
    <3>2. \A n \in base + 1 .. pos : n <= cursor \/ Passable(n)'
      BY <1>4, <1>7, <2>3
    <3>3. Passable(m)'
      BY <3>1 DEF Passable
    <3>4. \A n \in base + 1 .. m : n \in base + 1 .. pos \/ n = m
      BY <1>1, <3>1
    <3> QED
      BY <1>1, <2>0, <3>1, <3>2, <3>3, <3>4
  <2> QED
    BY <2>1, <2>2, <2>3
<1> QED
  BY <1>8, <1>9 DEF Storable

\* A step that touches neither the bookmarks nor the histories.
LEMMA BookmarksRest ==
    ASSUME FhTypeOK, AccountInv,
           UNCHANGED <<pending, cursor, recorded, refused, lost, unread, blind, base>>, pos' \in {0, pos},
           up' = up \/ \E c \in Contents : up' = Append(up, c)
    PROVE  Backed(cursor)' /\ Storable(pending)' /\ Storable(pos)'
<1>1. Known \subseteq Known' /\ cursor' >= cursor
  BY DEF Known, FhTypeOK
<1> QED
  BY <1>1, BookmarkStep

\* The loop over the records: what it has passed was tried.
LEMMA LoopStep ==
    ASSUME FhTypeOK, AccountInv, pc \in {"resolve", "upsert", "persist"}, NextRecord,
           Known \subseteq Known', <<This, nth>> \in Known',
           UNCHANGED <<up, pos, pending, cursor, unread, blind, base>>
    PROVE  AccountInv'
<1>1. /\ This \in 1 .. Len(up) /\ up[This] \in Nat /\ nth \in 1 .. up[This]
      /\ \A k \in 1 .. nth - 1 : <<This, k>> \in Known
  <2>1. /\ This <= Len(up) /\ up[This] # Broken /\ nth \in 1 .. up[This]
        /\ \A k \in 1 .. nth - 1 : <<This, k>> \in Known
    BY DEF AccountInv, Handling, Known
  <2>2. This \in 1 .. Len(up)
    BY <2>1 DEF FhTypeOK
  <2>3. up[This] \in Contents
    BY <2>2 DEF FhTypeOK
  <2> QED
    BY <2>1, <2>2, <2>3
<1>2. Backed(cursor)' /\ Storable(pending)' /\ Storable(pos)'
  <2>1. cursor' >= cursor
    BY DEF FhTypeOK
  <2> QED
    BY <2>1, BookmarkStep
<1>3. \A k \in 1 .. nth : <<This, k>> \in Known'
  BY <1>1
<1>4. CASE nth < up[This]
  <2>1. pc' = "resolve" /\ nth' = nth + 1
    BY <1>4 DEF NextRecord
  <2>2. nth' \in 1 .. up'[This] /\ \A k \in 1 .. nth' - 1 : <<This, k>> \in Known'
    BY <1>1, <1>3, <1>4, <2>1
  <2> QED
    BY <1>1, <1>2, <2>1, <2>2 DEF AccountInv, Handling, Known
<1>5. CASE ~(nth < up[This])
  <2>1. pc' = "stage"
    BY <1>5 DEF NextRecord
  <2>2. nth = up[This]
    BY <1>1, <1>5
  <2>3. Records(This) = {<<This, k>> : k \in 1 .. up[This]}
    BY <1>1 DEF Records, Broken
  <2>4. Records(This) \subseteq Known'
    BY <1>3, <2>2, <2>3
  <2>5. Tried(This)'
    BY <1>1, <2>4 DEF Tried, Records, Known
  <2> QED
    BY <1>1, <1>2, <2>1, <2>5 DEF AccountInv, Handling
<1> QED
  BY <1>4, <1>5

LEMMA AccountStep == FhInv /\ [Next]_vars => AccountInv'
<1> SUFFICES ASSUME FhInv, [Next]_vars
             PROVE  AccountInv'
  OBVIOUS
<1>0. FhTypeOK /\ AccountInv /\ BatchInv
  BY DEF FhInv
<1> USE DEF connVars, histVars, sightVars, lagVars
<1>1. ASSUME ReadMeta \/ ReadMetaFails
      PROVE  AccountInv'
  <2>1. /\ pos' \in {0, cursor} /\ pending' = 0 /\ pc' = "dial" /\ blind' = (pos' # cursor)
        /\ UNCHANGED <<up, cursor, recorded, refused, lost, unread, base>>
    BY <1>1 DEF ReadMeta, ReadMetaFails, Dials
  <2>2. Known \subseteq Known' /\ cursor' >= cursor
    BY <1>0, <2>1 DEF Known, FhTypeOK
  <2>3. Backed(cursor)' /\ Storable(pending)' /\ Storable(pos)'
    BY <1>0, <2>1, <2>2, BookmarkStep
  <2>4. pos' = (IF blind' THEN 0 ELSE cursor') /\ (blind' => cursor' # 0)
    BY <2>1
  <2> QED
    BY <1>0, <2>1, <2>3, <2>4 DEF AccountInv, Handling
<1>2. ASSUME Connect
      PROVE  AccountInv'
  <2>1. /\ pc = "dial" /\ pc' = "stream" /\ pending = 0
        /\ pos = (IF blind THEN 0 ELSE cursor) /\ (blind => cursor # 0) /\ blind \in BOOLEAN
        /\ UNCHANGED <<up, pending, cursor, recorded, refused, lost, blind>>
    BY <1>0, <1>2 DEF Connect, AccountInv, FhTypeOK
  <2>2. Len(up) \in Nat /\ cursor \in Nat /\ base \in Nat /\ cursor <= Len(up)
    BY <1>0 DEF FhTypeOK, AccountInv, Backed
  <2>3. \A n : Tried(n)' <=> Tried(n)
    BY <2>1 DEF Tried, Records
  <2>4. CASE cursor = 0
    <3>1. base' = Len(up) /\ pos' = Len(up)
      BY <1>2, <2>1, <2>4 DEF Connect
    <3>2. Backed(cursor)' /\ Storable(pending)' /\ Storable(pos)'
      BY <2>1, <2>2, <2>4, <3>1 DEF Backed, Storable
    <3> QED
      BY <2>1, <2>2, <3>1, <3>2 DEF AccountInv, Handling
  <2>5. CASE cursor # 0 /\ ~blind
    <3>1. base' = base /\ pos' = pos /\ unread' = unread
      BY <1>2, <2>1, <2>2, <2>5 DEF Connect
    <3>2. Backed(cursor)' /\ Storable(pending)' /\ Storable(pos)'
      BY <1>0, <2>1, <3>1, BookmarksRest
    <3> QED
      BY <1>0, <2>1, <3>1, <3>2 DEF AccountInv, Handling
  <2>6. CASE blind
    <3>1. base' = base /\ pos' = Len(up) /\ unread' = unread \cup (cursor + 1 .. Len(up))
      BY <1>2, <2>1, <2>6 DEF Connect
    <3>2. \A n : Accounted(n) => Accounted(n)'
      BY <2>1, <2>3, <3>1 DEF Accounted
    <3>3. Backed(cursor)'
      BY <1>0, <2>1, <3>1, <3>2 DEF AccountInv, Backed
    <3>4. \A n \in base + 1 .. Len(up) : n <= cursor \/ Passable(n)'
      BY <2>1, <2>2, <2>6, <3>1 DEF Passable
    <3>5. Storable(pending)' /\ Storable(pos)'
      BY <2>1, <2>2, <3>1, <3>4 DEF Storable
    <3> QED
      BY <1>0, <2>1, <3>1, <3>3, <3>5 DEF AccountInv, Handling
  <2> QED
    BY <2>1, <2>4, <2>5, <2>6
<1>3. ASSUME DialFails \/ Disconnect \/ FlushOnExitFails \/ Exit
      PROVE  AccountInv'
  <2>1. /\ pos' \in {0, pos} /\ pc' \in {"top", "close", "gone"}
        /\ UNCHANGED <<up, pending, cursor, recorded, refused, lost, unread, blind, base>>
    BY <1>3 DEF DialFails, Disconnect, FlushOnExitFails, Exit
  <2>2. Backed(cursor)' /\ Storable(pending)' /\ Storable(pos)'
    BY <1>0, <2>1, BookmarksRest
  <2> QED
    BY <1>0, <2>1, <2>2 DEF AccountInv, Handling
<1>4. ASSUME FlushOnExit
      PROVE  AccountInv'
  <2>1. /\ pc = "close" /\ pc' = "top" /\ pos' = 0
        /\ cursor' = IF pending # 0 THEN pending ELSE cursor
        /\ UNCHANGED <<up, pending, recorded, refused, lost, unread, blind, base>>
    BY <1>4 DEF FlushOnExit, FlushContext
  <2>2. pending \in {0} \cup cursor + 1 .. pos /\ cursor \in Nat /\ pos \in Nat
    BY <1>0, <2>1 DEF BatchInv, FhTypeOK
  <2>3. cursor' >= cursor /\ Known \subseteq Known'
    BY <2>1, <2>2 DEF Known
  <2>4. Backed(cursor)' /\ Storable(pending)' /\ Storable(pos)'
    BY <1>0, <2>1, <2>3, BookmarkStep
  <2> QED
    BY <1>0, <2>1, <2>4 DEF AccountInv, Handling
<1>5. ASSUME Receive
      PROVE  AccountInv'
  <2>1. /\ This \in 1 .. Len(up) /\ up[This] \in Nat \cup {Broken} /\ pc = "stream"
        /\ UNCHANGED <<up, pending, cursor, recorded, lost, blind, base>>
    <3>1. This \in 1 .. Len(up)
      BY <1>0, <1>5 DEF Receive, FhTypeOK
    <3>2. up[This] \in Contents
      BY <1>0, <3>1 DEF FhTypeOK
    <3> QED
      BY <1>5, <3>1, <3>2 DEF Receive
  <2>2. CASE up[This] = Broken
    <3>1. /\ pos' = This /\ pc' = "stream"
          /\ refused' = refused \cup Records(This) /\ unread' = unread \ {This}
      BY <1>5, <2>1, <2>2 DEF Receive
    <3>2. PICK m \in 1 .. Len(up) : m = This
      BY <2>1
    <3>3. Tried(m)'
      BY <2>1, <3>1, <3>2 DEF Tried, Records
    <3>4. Known \subseteq Known' /\ cursor' >= cursor
      BY <1>0, <2>1, <3>1 DEF Known, FhTypeOK
    <3>5. \A n \in unread : n \in unread' \/ Tried(n)'
      BY <3>1, <3>2, <3>3
    <3>6. Backed(cursor)' /\ Storable(pending)' /\ Storable(pos)'
      BY <1>0, <2>1, <3>1, <3>2, <3>3, <3>4, <3>5, BookmarkStep
    <3> QED
      BY <1>0, <2>1, <3>1, <3>6 DEF AccountInv, Handling
  <2>3. CASE up[This] # Broken
    <3>1. /\ pos' = pos /\ refused' = refused /\ unread' = unread /\ up[This] \in Nat
          /\ IF up[This] = 0 THEN pc' = "stage" ELSE pc' = "resolve" /\ nth' = 1
      BY <1>5, <2>1, <2>3 DEF Receive
    <3>2. Backed(cursor)' /\ Storable(pending)' /\ Storable(pos)'
      BY <1>0, <2>1, <3>1, BookmarksRest
    <3>3. up[This] = 0 => Tried(This)'
      BY <2>1, <3>1 DEF Tried, Records, Broken
    <3>4. up[This] # 0 => up[This] \in Nat /\ 1 \in 1 .. up[This]
      BY <3>1
    <3>5. pc' \in {"stage", "resolve"} /\ This' = This
      BY <3>1
    <3>6. (base <= Len(up))' /\ (This <= Len(up) /\ up[This] # Broken)'
      BY <1>0, <2>1, <2>3, <3>1 DEF AccountInv
    <3>7. CASE up[This] = 0
      BY <3>1, <3>2, <3>3, <3>5, <3>6, <3>7 DEF AccountInv, Handling
    <3>8. CASE up[This] # 0
      BY <2>1, <3>1, <3>2, <3>4, <3>5, <3>6, <3>8 DEF AccountInv, Handling
    <3> QED
      BY <3>7, <3>8
  <2> QED
    BY <2>2, <2>3
<1>6. ASSUME Resolves \/ Upserts
      PROVE  AccountInv'
  <2>1. /\ UNCHANGED <<up, pos, nth, pending, cursor, recorded, refused, lost, unread, blind, base>>
        /\ pc \in {"resolve", "upsert"} /\ pc' \in {"upsert", "persist"}
    BY <1>6 DEF Resolves, Upserts, Passes
  <2>2. Backed(cursor)' /\ Storable(pending)' /\ Storable(pos)'
    BY <1>0, <2>1, BookmarksRest
  <2> QED
    BY <1>0, <2>1, <2>2 DEF AccountInv, Handling
<1>7. ASSUME Refuses \/ Persists \/ GivesUp
      PROVE  AccountInv'
  <2>1. /\ pc \in {"resolve", "upsert", "persist"} /\ NextRecord
        /\ Known \subseteq Known' /\ <<This, nth>> \in Known'
        /\ UNCHANGED <<up, pos, pending, cursor, unread, blind, base>>
    BY <1>7 DEF Refuses, Persists, GivesUp, Known
  <2> QED
    BY <1>0, <2>1, LoopStep
<1>8. ASSUME Stage \/ Flush \/ FlushFails
      PROVE  AccountInv'
  <2>1. This <= Len(up) /\ Tried(This) /\ up[This] # Broken
    BY <1>0, <1>8 DEF Stage, Flush, FlushFails, AccountInv, Handling
  <2>2. /\ UNCHANGED <<up, recorded, refused, lost, blind, base>>
        /\ pos' \in {pos, This} /\ cursor' \in {cursor, This} /\ pending' \in {0, pending, This}
        /\ pc' \in {"stream", "flush"} /\ (pc' = "flush" => pos' = pos)
        /\ unread' \in {unread, unread \ {This}}
    BY <1>8 DEF Stage, Flush, FlushFails
  <2>3. PICK m \in 1 .. Len(up) : m = This
    BY <1>0, <2>1 DEF FhTypeOK
  <2>4. Tried(m)'
    BY <2>1, <2>2, <2>3 DEF Tried, Records
  <2>5. cursor' >= cursor
    <3>1. cursor \in Nat /\ pos \in Nat /\ cursor <= pos
      BY <1>0, <1>8 DEF Stage, Flush, FlushFails, BatchInv, FhTypeOK
    <3> QED
      BY <2>2, <3>1
  <2>6. Known \subseteq Known' /\ \A n \in unread : n \in unread' \/ Tried(n)'
    BY <2>2, <2>3, <2>4 DEF Known
  <2>7. Backed(cursor)' /\ Storable(pending)' /\ Storable(pos)'
    BY <1>0, <2>2, <2>3, <2>4, <2>5, <2>6, BookmarkStep
  <2>8. pc' = "flush" => Tried(This)' /\ (This <= Len(up))' /\ (up[This] # Broken)'
    BY <2>1, <2>2 DEF Tried, Records
  <2> QED
    BY <1>0, <2>2, <2>7, <2>8 DEF AccountInv, Handling
<1>9. ASSUME Publish
      PROVE  AccountInv'
  <2>1. /\ \E c \in Contents : up' = Append(up, c)
        /\ UNCHANGED <<pc, pos, nth, pending, cursor, recorded, refused, lost, unread, blind, base>>
    BY <1>9 DEF Publish
  <2>2. Backed(cursor)' /\ Storable(pending)' /\ Storable(pos)'
    BY <1>0, <2>1, BookmarksRest
  <2>3. Len(up) \in Nat /\ Len(up') = Len(up) + 1 /\ base \in Nat /\ pos \in Nat
    BY <1>0, <2>1 DEF FhTypeOK
  <2>4. ASSUME This <= Len(up)
        PROVE  up'[This] = up[This] /\ This <= Len(up') /\ (Tried(This) => Tried(This)')
    <3>1. up'[This] = up[This]
      BY <1>0, <2>1, <2>3, <2>4 DEF FhTypeOK
    <3> QED
      BY <2>1, <2>3, <2>4, <3>1 DEF Tried, Records
  <2> QED
    BY <1>0, <2>1, <2>2, <2>3, <2>4 DEF AccountInv, Handling
<1>10. ASSUME Cancel \/ UNCHANGED vars
       PROVE  AccountInv'
  <2>1. UNCHANGED <<up, pc, pos, nth, pending, cursor, recorded, refused, lost, unread, blind, base>>
    BY <1>10 DEF Cancel, vars
  <2>2. Backed(cursor)' /\ Storable(pending)' /\ Storable(pos)'
    BY <1>0, <2>1, BookmarksRest
  <2>3. Tried(This) => Tried(This)'
    BY <2>1 DEF Tried, Records
  <2> QED
    BY <1>0, <2>1, <2>2, <2>3 DEF AccountInv, Handling
<1>11. ASSUME Restart
       PROVE  AccountInv'
  <2>1. /\ pos' = 0 /\ pending' = 0 /\ pc' = "top"
        /\ UNCHANGED <<up, cursor, recorded, refused, lost, unread, base>>
    BY <1>11 DEF Restart
  <2>2. Known \subseteq Known' /\ cursor' >= cursor
    BY <1>0, <2>1 DEF Known, FhTypeOK
  <2>3. Backed(cursor)' /\ Storable(pending)' /\ Storable(pos)'
    BY <1>0, <2>1, <2>2, BookmarkStep
  <2> QED
    BY <1>0, <2>1, <2>3 DEF AccountInv, Handling
<1> QED
  BY <1>1, <1>2, <1>3, <1>4, <1>5, <1>6, <1>7, <1>8, <1>9, <1>10, <1>11 DEF Next, Watcher

-----------------------------------------------------------------------------
(* Batches *)

LEMMA BehindIsFinite ==
    ASSUME FhTypeOK
    PROVE  IsFiniteSet(Behind) /\ Cardinality(Behind) \in Nat
<1>1. IsFiniteSet(1 .. MaxCommits)
  BY FS_Interval
<1>2. Behind \subseteq 1 .. MaxCommits
  BY DEF Behind, FhTypeOK
<1> QED
  BY <1>1, <1>2, FS_Subset, FS_CardinalityType

\* A later cursor leaves less behind.
LEMMA BehindShrinks ==
    ASSUME FhTypeOK, FhTypeOK', staged' \in {staged, {}}, cursor' >= cursor
    PROVE  Cardinality(Behind') <= Cardinality(Behind)
<1>1. cursor \in Nat /\ cursor' \in Nat /\ staged \subseteq Nat
  BY DEF FhTypeOK
<1>2. \A n \in staged : n > cursor' => n > cursor
  BY <1>1
<1>3. Behind' \subseteq Behind
  BY <1>2 DEF Behind
<1> QED
  BY <1>3, BehindIsFinite, FS_Subset

LEMMA BatchStep == FhInv /\ [Next]_vars => BatchInv'
<1> SUFFICES ASSUME FhInv, [Next]_vars
             PROVE  BatchInv'
  OBVIOUS
<1>0. FhTypeOK /\ FhTypeOK' /\ AccountInv /\ BatchInv
  BY TypeStep DEF FhInv
<1>a. /\ cursor \in Nat /\ pos \in Nat /\ pending \in Nat /\ count \in Nat /\ staged \subseteq Nat
      /\ Cardinality(Behind) \in Nat /\ Cardinality(Behind') \in Nat
  <2>1. Cardinality(Behind) \in Nat
    BY <1>0, BehindIsFinite
  <2>2. Cardinality(Behind') \in Nat
    <3>1. Behind' \subseteq 1 .. MaxCommits
      BY <1>0 DEF Behind, FhTypeOK
    <3>2. IsFiniteSet(1 .. MaxCommits)
      BY FS_Interval
    <3>3. IsFiniteSet(Behind')
      BY <3>1, <3>2, FS_Subset
    <3> QED
      BY <3>3, FS_CardinalityType
  <2>3. {cursor, pos, pending} \subseteq Nat /\ count \in Nat /\ staged \subseteq Nat
    BY <1>0 DEF FhTypeOK
  <2> QED
    BY <2>1, <2>2, <2>3
<1> USE DEF connVars, histVars, sightVars, lagVars
<1>1. ASSUME ReadMeta \/ ReadMetaFails \/ Restart
      PROVE  BatchInv'
  <2>1. /\ staged' = {} /\ pending' = 0 /\ count' = 0 /\ cursor' = cursor /\ missed' = "no"
        /\ pc' \in {"dial", "top"}
    BY <1>1 DEF ReadMeta, ReadMetaFails, Dials, Restart
  <2>2. Behind' = {} /\ Cardinality({}) = 0
    BY <2>1, FS_EmptySet DEF Behind
  <2> QED
    BY <2>1, <2>2 DEF BatchInv, RedialRepeatsNothing
<1>2. ASSUME Connect
      PROVE  BatchInv'
  <2>1. /\ pc = "dial" /\ pc' = "stream" /\ (pos # 0 => pos = cursor) /\ pending = 0 /\ staged = {}
        /\ cursor <= Len(up) /\ missed # "exit"
        /\ UNCHANGED <<pending, count, cursor, staged, missed>>
        /\ pos' = IF pos = 0 THEN Len(up) ELSE pos
    BY <1>0, <1>2 DEF Connect, AccountInv, BatchInv, Backed
  <2>2. cursor <= pos'
    BY <1>a, <2>1
  <2>3. Behind' = Behind
    BY <2>1 DEF Behind
  <2> QED
    BY <1>0, <2>1, <2>2, <2>3 DEF BatchInv, RedialRepeatsNothing
<1>3. ASSUME DialFails \/ Exit
      PROVE  BatchInv'
  <2>1. /\ pc' \in {"top", "gone"} /\ UNCHANGED <<pending, count, cursor, staged, missed>>
        /\ pc \in {"dial", "top"}
    BY <1>3 DEF DialFails, Exit
  <2>2. Behind' = Behind
    BY <2>1 DEF Behind
  <2>3. missed # "exit" => \A n \in staged : n <= cursor
    BY <1>0, <2>1 DEF BatchInv, RedialRepeatsNothing
  <2> QED
    BY <1>0, <2>1, <2>2, <2>3 DEF BatchInv, RedialRepeatsNothing
<1>4. ASSUME Disconnect \/ Resolves \/ Upserts \/ Refuses \/ Persists \/ GivesUp
      PROVE  BatchInv'
  <2>1. /\ pc \in {"stream", "resolve", "upsert", "persist"}
        /\ pc' \in {"close", "resolve", "upsert", "persist", "stage"}
        /\ UNCHANGED <<pos, pending, count, cursor, staged, missed>>
    BY <1>4 DEF Disconnect, Resolves, Upserts, Passes, Refuses, Persists, GivesUp, NextRecord
  <2>2. Behind' = Behind
    BY <2>1 DEF Behind
  <2> QED
    BY <1>0, <2>1, <2>2 DEF BatchInv, RedialRepeatsNothing
<1>5. ASSUME FlushOnExit
      PROVE  BatchInv'
  <2>1. /\ pc = "close" /\ pc' = "top"
        /\ cursor' = IF pending # 0 THEN pending ELSE cursor
        /\ UNCHANGED <<pending, count, staged, missed>>
    BY <1>5 DEF FlushOnExit, FlushContext
  <2>2. pending \in {0} \cup cursor + 1 .. pos /\ \A n \in staged : n <= cursor \/ n <= pending
    BY <1>0, <2>1 DEF BatchInv
  <2>3. cursor' >= cursor /\ \A n \in staged : n <= cursor'
    BY <1>a, <2>1, <2>2
  <2>4. Cardinality(Behind') <= Cardinality(Behind)
    BY <1>0, <2>1, <2>3, BehindShrinks
  <2>5. Cardinality(Behind') <= count
    BY <1>0, <1>a, <2>4 DEF BatchInv
  <2> QED
    BY <1>0, <2>1, <2>3, <2>5 DEF BatchInv, RedialRepeatsNothing
<1>6. ASSUME FlushOnExitFails
      PROVE  BatchInv'
  <2>1. /\ pc' = "top" /\ missed' = "exit"
        /\ UNCHANGED <<pending, count, cursor, staged>>
    BY <1>6 DEF FlushOnExitFails
  <2>2. Behind' = Behind
    BY <2>1 DEF Behind
  <2> QED
    BY <1>0, <2>1, <2>2 DEF BatchInv, RedialRepeatsNothing
<1>7. ASSUME Receive
      PROVE  BatchInv'
  <2>1. /\ pc = "stream" /\ pc' \in {"stream", "stage", "resolve"} /\ pos' \in {pos, pos + 1}
        /\ UNCHANGED <<pending, count, cursor, staged, missed>>
    BY <1>7 DEF Receive
  <2>2. Behind' = Behind
    BY <2>1 DEF Behind
  <2>3. cursor <= pos /\ pending \in {0} \cup cursor + 1 .. pos
    BY <1>0, <2>1 DEF BatchInv
  <2>4. cursor <= pos' /\ pending \in {0} \cup cursor + 1 .. pos'
    BY <1>a, <2>1, <2>3
  <2> QED
    BY <1>0, <2>1, <2>2, <2>4 DEF BatchInv, RedialRepeatsNothing
<1>8. ASSUME Stage
      PROVE  BatchInv'
  <2>1. /\ pc = "stage" /\ pending' = This /\ count' = count + 1 /\ staged' = staged \cup {This}
        /\ UNCHANGED <<cursor, missed>>
        /\ \/ pc' = "flush" /\ pos' = pos
           \/ count + 1 < FlushEvery /\ pc' = "stream" /\ pos' = This
    BY <1>0, <1>a, <1>8 DEF Stage, Due
  <2>2. /\ cursor <= pos /\ pending \in {0} \cup cursor + 1 .. pos /\ missed # "exit"
        /\ \A n \in staged : n <= cursor \/ n <= pending
    BY <1>0, <2>1 DEF BatchInv
  <2>3. \A n \in staged' : n <= cursor' \/ n <= pending'
    BY <1>a, <2>1, <2>2
  <2>4. Behind' \subseteq Behind \cup {This}
    BY <2>1 DEF Behind
  <2>5. Cardinality(Behind') <= Cardinality(Behind) + 1
    <3>1. IsFiniteSet(Behind) /\ IsFiniteSet(Behind \cup {This})
      BY <1>0, BehindIsFinite, FS_AddElement
    <3>2. Cardinality(Behind \cup {This}) <= Cardinality(Behind) + 1
      BY <1>a, <3>1, FS_AddElement
    <3>3. Cardinality(Behind') <= Cardinality(Behind \cup {This})
      BY <2>4, <3>1, FS_Subset
    <3>4. Cardinality(Behind \cup {This}) \in Nat
      BY <3>1, FS_CardinalityType
    <3> QED
      BY <1>a, <3>2, <3>3, <3>4
  <2>6. Cardinality(Behind') <= count'
    BY <1>0, <1>a, <2>1, <2>5 DEF BatchInv
  <2>7. /\ cursor' <= pos'
        /\ pending' \in cursor' + 1 .. (IF pc' = "flush" THEN pos' + 1 ELSE pos')
        /\ pc' = "flush" => pending' = pos' + 1
    BY <1>a, <2>1, <2>2
  <2> QED
    BY <1>0, <2>1, <2>2, <2>3, <2>6, <2>7 DEF BatchInv, RedialRepeatsNothing
<1>9. ASSUME Flush \/ FlushFails
      PROVE  BatchInv'
  <2>1. pc = "flush" /\ pc' = "stream" /\ pos' = pos + 1 /\ staged' = staged
    BY <1>9 DEF Flush, FlushFails
  <2>2. cursor <= pos /\ pending = pos + 1 /\ \A n \in staged : n <= cursor \/ n <= pending
    BY <1>0, <2>1 DEF BatchInv
  <2>3. CASE Flush
    <3>1. cursor' = pos + 1 /\ pending' = 0 /\ count' = 0 /\ missed' = "no"
      BY <2>3 DEF Flush
    <3>2. \A n \in staged' : n <= cursor'
      BY <1>a, <2>1, <2>2, <3>1
    <3>3. Behind' = {} /\ Cardinality({}) = 0
      <4>1. staged' \subseteq Nat /\ cursor' \in Nat
        BY <1>a, <2>1, <3>1
      <4>2. \A n \in staged' : ~(n > cursor')
        BY <3>2, <4>1
      <4> QED
        BY <4>2, FS_EmptySet DEF Behind
    <3> QED
      BY <1>a, <2>1, <3>1, <3>2, <3>3 DEF BatchInv, RedialRepeatsNothing
  <2>4. CASE FlushFails
    <3>1. missed' = "flush" /\ UNCHANGED <<pending, count, cursor>>
      BY <2>4 DEF FlushFails
    <3>2. Behind' = Behind
      BY <2>1, <3>1 DEF Behind
    <3>3. cursor' <= pos' /\ pending' \in cursor' + 1 .. pos'
      BY <1>a, <2>1, <2>2, <3>1
    <3> QED
      BY <1>0, <2>1, <2>2, <3>1, <3>2, <3>3 DEF BatchInv, RedialRepeatsNothing
  <2> QED
    BY <1>9, <2>3, <2>4
<1>10. ASSUME Publish \/ Cancel \/ UNCHANGED vars
       PROVE  BatchInv'
  <2>1. UNCHANGED <<pc, pos, pending, count, cursor, staged, missed>>
    BY <1>10 DEF Publish, Cancel, vars
  <2>2. Behind' = Behind
    BY <2>1 DEF Behind
  <2> QED
    BY <1>0, <2>1, <2>2 DEF BatchInv, RedialRepeatsNothing
<1> QED
  BY <1>1, <1>2, <1>3, <1>4, <1>5, <1>6, <1>7, <1>8, <1>9, <1>10 DEF Next, Watcher

-----------------------------------------------------------------------------
(* Theorems *)

\* FhInv is an invariant for every value of the constants.
THEOREM WatcherIsHealthy == Spec => []FhInv
<1>1. FhInv /\ [Next]_vars => FhInv'
  BY TypeStep, AccountStep, BatchStep DEF FhInv
<1> QED
  BY FhInit, <1>1, PTL DEF Spec

\* For any commits, batch size and failures, a connection that has read the stored
\* cursor moves it over commits only that the handler has been through, and one that
\* could not read it skips nothing but what lay before its start.
THEOREM CursorIsEarned == Spec => CursorPassesTheTried
<1> DEFINE Earned == \A n \in base + 1 .. cursor' : n > cursor => Passable(n)
<1>1. FhInv /\ [Next]_vars => [Earned]_vars
  <2> SUFFICES ASSUME FhInv, [Next]_vars
               PROVE  Earned
    OBVIOUS
  <2>0. cursor \in Nat /\ pos \in Nat /\ base \in Nat /\ AccountInv
    BY DEF FhInv, FhTypeOK
  <2> USE DEF connVars, histVars, sightVars, lagVars
  <2>1. CASE FlushOnExit
    <3>1. cursor' \in {cursor, pending}
      BY <2>1 DEF FlushOnExit
    <3>2. \A n \in base + 1 .. pending : n <= cursor \/ Passable(n)
      BY <2>0 DEF AccountInv, Storable
    <3> QED
      BY <2>0, <3>1, <3>2
  <2>2. CASE Flush
    <3>1. cursor' = pos + 1 /\ Tried(pos + 1)
      BY <2>0, <2>2 DEF Flush, AccountInv
    <3>2. \A n \in base + 1 .. pos : n <= cursor \/ Passable(n)
      BY <2>0 DEF AccountInv, Storable
    <3>3. \A n \in base + 1 .. pos + 1 : n \in base + 1 .. pos \/ n = pos + 1
      BY <2>0
    <3>4. Passable(pos + 1)
      BY <3>1 DEF Passable
    <3> QED
      BY <2>0, <3>1, <3>2, <3>3, <3>4
  <2>3. CASE cursor' = cursor
    BY <2>0, <2>3
  <2>4. \/ cursor' = cursor \/ FlushOnExit \/ Flush
    BY DEF Next, Watcher, vars, ReadMeta, ReadMetaFails, Dials, Connect, DialFails, Disconnect, FlushOnExitFails,
       Exit, Receive, Resolves, Upserts, Passes, Refuses, Persists, GivesUp, Stage, FlushFails,
       Publish, Cancel, Restart
  <2> QED
    BY <2>1, <2>2, <2>3, <2>4
<1> QED
  BY <1>1, WatcherIsHealthy, PTL DEF Spec, CursorPassesTheTried

\* A redial, and the start after a graceful shutdown, repeat nothing.
THEOREM NoRepeatOnRedial == Spec => []RedialRepeatsNothing
<1>1. FhInv => RedialRepeatsNothing
  BY DEF FhInv, BatchInv
<1> QED
  BY <1>1, WatcherIsHealthy, PTL

\* A crash repeats less than a batch.
THEOREM CrashRepeatsABatch == Spec => []ReplayIsBounded
<1>1. FhInv => ReplayIsBounded
  BY BehindIsFinite DEF FhInv, FhTypeOK, BatchInv, ReplayIsBounded
<1> QED
  BY <1>1, WatcherIsHealthy, PTL

\* Without failing calls and graceful shutdowns, whatever connections break and
\* processes crash, no record behind the cursor is missed.
THEOREM CrashesLoseNothing ==
    ASSUME Failures = {}, Signals = FALSE
    PROVE  Spec => []NothingMissed
<1> DEFINE Calm == alive = TRUE /\ lost = {} /\ unread = {} /\ blind = FALSE
<1>1. Init => Calm
  BY DEF Init
<1>2. FhInv /\ Calm /\ [Next]_vars => Calm'
  <2> SUFFICES ASSUME FhInv, Calm, [Next]_vars
               PROVE  Calm'
    OBVIOUS
  <2> USE DEF connVars, histVars, sightVars, lagVars
  <2>1. ASSUME ReadMeta \/ ReadMetaFails
        PROVE  Calm'
    BY <2>1 DEF ReadMeta, ReadMetaFails, Dials
  <2>2. ASSUME Connect
        PROVE  Calm'
    BY <2>2 DEF Connect
  <2>3. ASSUME GivesUp
        PROVE  Calm'
    BY <2>3 DEF GivesUp, MayFail
  <2>4. ASSUME DialFails \/ Disconnect \/ FlushOnExit \/ FlushOnExitFails \/ Exit
        PROVE  Calm'
    BY <2>4 DEF DialFails, Disconnect, FlushOnExit, FlushOnExitFails, Exit
  <2>5. ASSUME Receive \/ Resolves \/ Upserts \/ Refuses \/ Persists
        PROVE  Calm'
    BY <2>5 DEF Receive, Resolves, Upserts, Passes, Refuses, Persists, NextRecord
  <2>6. ASSUME Stage \/ Flush \/ FlushFails
        PROVE  Calm'
    BY <2>6 DEF Stage, Flush, FlushFails
  <2>7. ASSUME Publish \/ Cancel \/ Restart \/ UNCHANGED vars
        PROVE  Calm'
    BY <2>7 DEF Publish, Cancel, Restart, vars
  <2> QED
    BY <2>1, <2>2, <2>3, <2>4, <2>5, <2>6, <2>7 DEF Next, Watcher
<1>3. FhInv /\ Calm => NothingMissed
  BY DEF FhInv, AccountInv, Backed, Accounted, Tried, Settled, NothingMissed
<1> QED
  BY <1>1, <1>2, <1>3, WatcherIsHealthy, PTL DEF Spec

-----------------------------------------------------------------------------
(* The watcher implements the at-least-once reader *)

\* Only published commits were tried or skipped, and only a failed read of the cursor
\* makes a connection blind.
DealtInv ==
    /\ \A r \in Known : r[1] \in 1 .. Len(up)
    /\ unread \subseteq 1 .. Len(up)
    /\ blind => "meta" \in Failures

LEMMA RecordsAreOfTheirCommit ==
    ASSUME NEW n
    PROVE  \A r \in Records(n) : r[1] = n
  BY DEF Records

LEMMA DealtInit == Init => DealtInv
  BY DEF Init, DealtInv, Known

LEMMA DealtStep == FhInv /\ DealtInv /\ [Next]_vars => DealtInv'
<1> SUFFICES ASSUME FhInv, DealtInv, [Next]_vars
             PROVE  DealtInv'
  OBVIOUS
<1>0. FhTypeOK /\ AccountInv
  BY DEF FhInv
<1> USE DEF connVars, histVars, sightVars, lagVars
<1>1. CASE ReadMeta \/ ReadMetaFails
  BY <1>1 DEF ReadMeta, ReadMetaFails, Dials, DealtInv, Known
<1>2. CASE Connect
  <2>1. cursor + 1 .. Len(up) \subseteq 1 .. Len(up)
    BY <1>0 DEF FhTypeOK
  <2>2. unread' \subseteq 1 .. Len(up)
    BY <1>2, <2>1 DEF Connect, DealtInv
  <2> QED
    BY <1>2, <2>2 DEF Connect, DealtInv, Known
<1>3. CASE DialFails \/ Disconnect \/ FlushOnExit \/ FlushOnExitFails \/ Exit
  <2>1. UNCHANGED <<up, recorded, refused, lost>> /\ unread' \subseteq unread
    BY <1>3 DEF DialFails, Disconnect, FlushOnExit, FlushOnExitFails, Exit
  <2>2. blind' => blind
    BY <1>3, Zenon DEF DialFails, Disconnect, FlushOnExit, FlushOnExitFails, Exit
  <2> QED
    BY <2>1, <2>2 DEF DealtInv, Known
<1>4. CASE Receive
  <2>1. This \in 1 .. Len(up)
    BY <1>0, <1>4 DEF Receive, FhTypeOK
  <2>2. \A r \in refused' : r \in refused \/ r \in Records(This)
    BY <1>4 DEF Receive
  <2>3. \A r \in refused' : r[1] \in 1 .. Len(up)
    BY <2>1, <2>2, RecordsAreOfTheirCommit DEF DealtInv, Known
  <2>4. UNCHANGED <<up, recorded, lost, blind>> /\ unread' \subseteq unread
    BY <1>4 DEF Receive
  <2> QED
    BY <2>3, <2>4 DEF DealtInv, Known
<1>5. CASE Resolves \/ Upserts \/ Stage \/ Flush \/ FlushFails
  <2>1. UNCHANGED <<up, recorded, refused, lost>> /\ unread' \subseteq unread
    BY <1>5 DEF Resolves, Upserts, Passes, Stage, Flush, FlushFails
  <2>2. blind' => blind
    BY <1>5, Zenon DEF Resolves, Upserts, Passes, Stage, Flush, FlushFails
  <2> QED
    BY <2>1, <2>2 DEF DealtInv, Known
<1>6. CASE Refuses \/ Persists \/ GivesUp
  <2>1. This \in 1 .. Len(up)
    BY <1>0, <1>6 DEF Refuses, Persists, GivesUp, AccountInv, Handling, FhTypeOK
  <2>2. Known' = Known \cup {<<This, nth>>} /\ UNCHANGED <<up, unread, blind>>
    BY <1>6 DEF Refuses, Persists, GivesUp, Known
  <2> QED
    BY <2>1, <2>2 DEF DealtInv
<1>7. CASE Publish
  <2>1. PICK c \in Contents : up' = Append(up, c)
    BY <1>7 DEF Publish
  <2>2. Len(up') = Len(up) + 1 /\ Len(up) \in Nat
    BY <1>0, <2>1 DEF FhTypeOK
  <2>3. 1 .. Len(up) \subseteq 1 .. Len(up')
    BY <2>2
  <2> QED
    BY <1>7, <2>3 DEF Publish, DealtInv, Known
<1>8. CASE Cancel \/ Restart \/ UNCHANGED vars
  <2>1. UNCHANGED <<up, recorded, refused, lost>> /\ unread' \subseteq unread
    BY <1>8 DEF Cancel, Restart, vars
  <2>2. blind' => blind
    BY <1>8, Zenon DEF Cancel, Restart, vars
  <2> QED
    BY <2>1, <2>2 DEF DealtInv, Known
<1> QED
  BY <1>1, <1>2, <1>3, <1>4, <1>5, <1>6, <1>7, <1>8 DEF Next, Watcher

LEMMA DealtInvariant == Spec => []DealtInv
<1> QED
  BY DealtInit, DealtStep, WatcherIsHealthy, PTL DEF Spec

LEMMA PromiseInit == Init => Promise!Init
<1> SUFFICES ASSUME Init
             PROVE  Promise!Init
  OBVIOUS
<1>1. Len(up) = 0 /\ Matters = {} /\ Dealt = {}
  BY DEF Init, Matters, Dealt
<1>2. DialsBlank = FALSE
  BY DEF Init, DialsBlank
<1> QED
  BY <1>1, <1>2 DEF Init, Promise!Init

\* Backed here is Backed there.
LEMMA BackedMeansBacked ==
    ASSUME FhTypeOK, NEW b \in Nat, Backed(b)
    PROVE  Promise!Backed(b)
<1>1. b <= Len(up) /\ \A n \in base + 1 .. b : Accounted(n)
  BY DEF Backed
<1> QED
  BY <1>1 DEF Promise!Backed, Dealt

LEMMA StorableIsBacked ==
    ASSUME FhTypeOK, AccountInv, NEW b \in Nat, Storable(b)
    PROVE  Backed(b)
<1>1. cursor \in Nat /\ base \in Nat /\ Backed(cursor) /\ Len(up) \in Nat
  BY DEF FhTypeOK, AccountInv
<1>2. b <= Len(up) /\ \A n \in base + 1 .. b : n <= cursor \/ Passable(n)
  BY DEF Storable
<1>3. ASSUME NEW n \in base + 1 .. b
      PROVE  Accounted(n)
  <2>1. n \in base + 1 .. cursor => Accounted(n)
    BY <1>1 DEF Backed
  <2>2. Passable(n) => Accounted(n)
    BY <1>1, <1>2, <1>3 DEF Passable, Accounted
  <2>3. n <= cursor => n \in base + 1 .. cursor
    BY <1>1, <1>3
  <2> QED
    BY <1>2, <1>3, <2>1, <2>2, <2>3
<1> QED
  BY <1>2, <1>3 DEF Backed

\* What a step that tries nothing does with the skipped commits: nothing, or it
\* strikes one off that was tried.
SkippedRest == unread' = unread \/ \E m \in 1 .. Len(up) : Tried(m) /\ unread' = unread \ {m}

\* A step that tries nothing changes none of the sets.
LEMMA NothingTried ==
    ASSUME UNCHANGED <<up, recorded, refused, lost>>, SkippedRest
    PROVE  Matters' = Matters /\ Dealt' = Dealt
<1>1. \A n : Records(n)' = Records(n)
  BY DEF Records
<1>2. \A n : Tried(n)' <=> Tried(n)
  BY <1>1 DEF Tried
<1>3. \A n : Accounted(n)' <=> Accounted(n)
  BY <1>2 DEF Accounted, SkippedRest
<1>4. Matters' = Matters
  BY <1>1 DEF Matters
<1> QED
  BY <1>3, <1>4 DEF Dealt

\* A step that moves none of the reader's state, except that it may end a blank
\* connection.
Quiet ==
    /\ UNCHANGED <<up, cursor, base, recorded, refused, lost>>
    /\ SkippedRest
    /\ DialsBlank' => DialsBlank

LEMMA QuietIsAllowed == Quiet => [Promise!Next]_(Promise!vars)
<1> SUFFICES ASSUME Quiet
             PROVE  [Promise!Next]_(Promise!vars)
  OBVIOUS
<1>0. Matters' = Matters /\ Dealt' = Dealt
  BY NothingTried DEF Quiet
<1>1. CASE DialsBlank'
  <2>1. DialsBlank' = DialsBlank
    BY <1>1 DEF Quiet, DialsBlank
  <2> QED
    BY <1>0, <2>1 DEF Quiet, Promise!vars
<1>2. CASE ~DialsBlank'
  <2>1. DialsBlank' = FALSE
    BY <1>2 DEF DialsBlank
  <2>2. Promise!Stop
    BY <1>0, <2>1 DEF Quiet, Promise!Stop
  <2> QED
    BY <2>2 DEF Promise!Next
<1> QED
  BY <1>1, <1>2

\* A step that tries a record of the commit in hand deals with this commit or
\* with none.
LEMMA TryingDeals ==
    ASSUME FhTypeOK, AccountInv, NEW m \in 1 .. Len(up), m = This,
           UNCHANGED <<up, cursor, base>>, pc # "dial", pc' # "dial",
           Known \subseteq Known', \A r \in Known' : r \in Known \/ r[1] = m,
           unread' = unread \/ (unread' = unread \ {m} /\ Tried(m)')
    PROVE  [Promise!Next]_(Promise!vars)
<1>1. \A n : Records(n)' = Records(n)
  BY DEF Records
<1>2. Matters' = Matters
  BY <1>1 DEF Matters
<1>3. ASSUME NEW n \in Matters
      PROVE  /\ Accounted(n) => Accounted(n)'
             /\ n # m /\ Accounted(n)' => Accounted(n)
  <2>1. Tried(n) <=> n <= Len(up) /\ Records(n) \subseteq Known
    BY DEF Tried, Known
  <2>2. Tried(n)' <=> n <= Len(up) /\ Records(n) \subseteq Known'
    BY <1>1 DEF Tried, Known
  <2>3. (Tried(n) => Tried(n)') /\ (n # m /\ Tried(n)' => Tried(n))
    BY <2>1, <2>2, RecordsAreOfTheirCommit
  <2>4. n \in unread => n \in unread' \/ Tried(n)'
    OBVIOUS
  <2>5. n \in unread' => n \in unread
    OBVIOUS
  <2>6. Accounted(n)' <=> n <= Len(up) /\ (Tried(n)' \/ n \in unread')
    BY DEF Accounted
  <2>7. Accounted(n) <=> n <= Len(up) /\ (Tried(n) \/ n \in unread)
    BY DEF Accounted
  <2> QED
    BY <2>3, <2>4, <2>5, <2>6, <2>7
<1>4. DialsBlank' = DialsBlank
  BY DEF DialsBlank
<1>a. \A n : n \in Dealt' <=> n \in Matters /\ Accounted(n)'
  BY <1>2 DEF Dealt
<1>b. \A n : n \in Dealt <=> n \in Matters /\ Accounted(n)
  BY DEF Dealt
<1>5. CASE m \in Matters /\ Accounted(m)'
  <2>1. Dealt' = Dealt \cup {m}
    BY <1>3, <1>5, <1>a, <1>b
  <2>2. Promise!Backed(m - 1)
    <3>1. pos \in Nat /\ m - 1 = pos /\ Backed(pos)
      <4>1. pos \in Nat /\ m - 1 = pos
        BY DEF FhTypeOK
      <4>2. Storable(pos)
        BY DEF AccountInv
      <4> QED
        BY <4>1, <4>2, StorableIsBacked
    <3> QED
      BY <3>1, BackedMeansBacked
  <2>3. Promise!Deal
    BY <1>2, <1>4, <2>1, <2>2 DEF Promise!Deal
  <2> QED
    BY <2>3 DEF Promise!Next
<1>6. CASE ~(m \in Matters /\ Accounted(m)')
  <2>1. Dealt' = Dealt
    BY <1>3, <1>6, <1>a, <1>b
  <2> QED
    BY <1>2, <1>4, <2>1 DEF Promise!vars
<1> QED
  BY <1>5, <1>6

\* A step that stores a cursor that is backed, and not behind the old one.
LEMMA StoringMarks ==
    ASSUME FhTypeOK, UNCHANGED <<up, base, recorded, refused, lost, unread>>,
           pc # "dial", pc' # "dial",
           cursor' \in 1 .. Len(up), Promise!Backed(cursor'), cursor' >= cursor
    PROVE  [Promise!Next]_(Promise!vars)
<1>1. Matters' = Matters /\ Dealt' = Dealt /\ DialsBlank' = DialsBlank
  BY NothingTried DEF DialsBlank, SkippedRest
<1>2. Promise!Mark
  BY <1>1 DEF Promise!Mark
<1> QED
  BY <1>2 DEF Promise!Next

LEMMA PromiseStep == FhInv /\ DealtInv /\ [Next]_vars => [Promise!Next]_(Promise!vars)
<1> SUFFICES ASSUME FhInv, DealtInv, [Next]_vars
             PROVE  [Promise!Next]_(Promise!vars)
  OBVIOUS
<1>0. FhTypeOK /\ AccountInv /\ BatchInv
  BY DEF FhInv
<1> USE DEF connVars, histVars, sightVars, lagVars
<1>1. ASSUME ReadMeta \/ ReadMetaFails
      PROVE  [Promise!Next]_(Promise!vars)
  <2>1. /\ pos' \in {0, cursor} /\ pc' = "dial"
        /\ UNCHANGED <<up, cursor, base, recorded, refused, lost, unread>>
    BY <1>1 DEF ReadMeta, ReadMetaFails, Dials
  <2>2. CASE cursor = 0
    <3>1. DialsBlank' = TRUE
      BY <2>1, <2>2 DEF DialsBlank
    <3>2. Matters' = Matters /\ Dealt' = Dealt
      BY <2>1, NothingTried DEF SkippedRest
    <3>3. Promise!Look
      BY <2>1, <2>2, <3>1, <3>2 DEF Promise!Look
    <3> QED
      BY <3>3 DEF Promise!Next
  <2>3. CASE cursor # 0
    <3>1. Quiet
      BY <2>1, <2>3 DEF Quiet, DialsBlank, SkippedRest
    <3> QED
      BY <3>1, QuietIsAllowed
  <2> QED
    BY <2>2, <2>3
<1>2. ASSUME Connect
      PROVE  [Promise!Next]_(Promise!vars)
  <2>1. /\ pc = "dial" /\ pc' = "stream" /\ pos = (IF blind THEN 0 ELSE cursor)
        /\ (blind => cursor # 0) /\ blind \in BOOLEAN
        /\ UNCHANGED <<up, cursor, recorded, refused, lost>>
    BY <1>0, <1>2 DEF Connect, AccountInv, FhTypeOK
  <2>2. DialsBlank' = FALSE
    BY <2>1 DEF DialsBlank
  <2>3. CASE cursor = 0
    <3>1. base' = Len(up) /\ unread' = unread
      BY <1>2, <2>1, <2>3 DEF Connect
    <3>2. Matters' = Matters /\ Dealt' = Dealt /\ DialsBlank
      BY <2>1, <2>3, <3>1, NothingTried DEF DialsBlank, SkippedRest
    <3>3. Promise!Start
      BY <2>1, <2>2, <3>1, <3>2 DEF Promise!Start
    <3> QED
      BY <3>3 DEF Promise!Next
  <2>4. CASE cursor # 0 /\ ~blind
    <3>1. base' = base /\ unread' = unread
      BY <1>2, <2>1, <2>4 DEF Connect
    <3>2. Quiet
      BY <2>1, <2>2, <3>1 DEF Quiet, SkippedRest
    <3> QED
      BY <3>2, QuietIsAllowed
  <2>5. CASE blind
    <3>1. base' = base /\ unread' = unread \cup (cursor + 1 .. Len(up))
      BY <1>2, <2>1, <2>5 DEF Connect
    <3>2. \A n : Records(n)' = Records(n)
      BY <2>1 DEF Records
    <3>3. Matters' = Matters
      BY <2>1, <3>2 DEF Matters
    <3>4. ASSUME NEW n \in Matters
          PROVE  Accounted(n)' <=> Accounted(n) \/ n \in cursor + 1 .. Len(up)
      <4>1. Tried(n)' <=> Tried(n)
        BY <2>1, <3>2 DEF Tried
      <4>2. n \in 1 .. Len(up)
        BY <3>4 DEF Matters
      <4> QED
        BY <1>0, <2>1, <3>1, <4>1, <4>2 DEF Accounted, FhTypeOK
    <3>5. Dealt' = Dealt \cup ((cursor + 1 .. Len(up)) \cap Matters)
      BY <3>3, <3>4 DEF Dealt
    <3>6. "meta" \in Failures /\ DialsBlank = FALSE
      BY <2>1, <2>5 DEF DealtInv, DialsBlank
    <3>7. Promise!Forget
      BY <2>1, <2>2, <2>5, <3>1, <3>3, <3>5, <3>6 DEF Promise!Forget
    <3> QED
      BY <3>7 DEF Promise!Next
  <2> QED
    BY <2>1, <2>3, <2>4, <2>5
<1>3. ASSUME \/ DialFails \/ Disconnect \/ FlushOnExitFails \/ Exit
             \/ Resolves \/ Upserts \/ Stage \/ FlushFails
             \/ Cancel \/ Restart \/ UNCHANGED vars
      PROVE  [Promise!Next]_(Promise!vars)
  <2>1. /\ UNCHANGED <<up, cursor, base, recorded, refused, lost>>
        /\ DialsBlank' => DialsBlank
    BY <1>3 DEF DialsBlank, DialFails, Disconnect, FlushOnExitFails, Exit,
       Resolves, Upserts, Passes, Stage, FlushFails, Cancel, Restart, vars
  <2>2. CASE Stage
    <3>1. This <= Len(up) /\ Tried(This) /\ unread' = unread \ {This}
      BY <1>0, <2>2 DEF Stage, AccountInv, Handling
    <3>2. This \in 1 .. Len(up)
      BY <1>0, <3>1 DEF FhTypeOK
    <3>3. SkippedRest
      BY <3>1, <3>2 DEF SkippedRest
    <3> QED
      BY <2>1, <3>3, QuietIsAllowed DEF Quiet
  <2>3. CASE ~Stage
    <3>1. unread' = unread
      BY <1>3, <2>3 DEF DialFails, Disconnect, FlushOnExitFails, Exit,
         Resolves, Upserts, Passes, FlushFails, Cancel, Restart, vars
    <3> QED
      BY <2>1, <3>1, QuietIsAllowed DEF Quiet, SkippedRest
  <2> QED
    BY <2>2, <2>3
<1>4. ASSUME FlushOnExit
      PROVE  [Promise!Next]_(Promise!vars)
  <2>1. /\ pc = "close" /\ pc' = "top"
        /\ UNCHANGED <<up, base, recorded, refused, lost, unread>>
    BY <1>4 DEF FlushOnExit
  <2>2. CASE pending = 0
    <3>1. Quiet
      BY <1>4, <2>1, <2>2 DEF FlushOnExit, Quiet, DialsBlank, SkippedRest
    <3> QED
      BY <3>1, QuietIsAllowed
  <2>3. CASE pending # 0
    <3>1. cursor' = pending
      BY <1>4, <2>3 DEF FlushOnExit, FlushContext
    <3>2. pending \in cursor + 1 .. pos
      BY <1>0, <2>1, <2>3 DEF BatchInv
    <3>3. Backed(pending) /\ pending \in Nat /\ cursor \in Nat /\ pending <= Len(up) /\ Len(up) \in Nat
      BY <1>0, StorableIsBacked DEF AccountInv, Storable, FhTypeOK
    <3>4. Promise!Backed(pending)
      BY <1>0, <3>3, BackedMeansBacked
    <3>5. pending \in 1 .. Len(up) /\ pending >= cursor
      BY <3>2, <3>3
    <3> QED
      BY <1>0, <2>1, <3>1, <3>4, <3>5, StoringMarks
  <2> QED
    BY <2>2, <2>3
<1>5. ASSUME Receive
      PROVE  [Promise!Next]_(Promise!vars)
  <2>1. This \in 1 .. Len(up)
    BY <1>0, <1>5 DEF Receive, FhTypeOK
  <2>2. /\ UNCHANGED <<up, cursor, base, recorded, lost>>
        /\ pc = "stream" /\ pc' \in {"stream", "stage", "resolve"}
        /\ refused' \in {refused, refused \cup Records(This)}
        /\ unread' = unread \/ (unread' = unread \ {This} /\ refused' = refused \cup Records(This))
    BY <1>5 DEF Receive
  <2>m. PICK m \in 1 .. Len(up) : m = This
    BY <2>1
  <2>t. refused' = refused \cup Records(This) => Tried(m)'
    BY <2>1, <2>2, <2>m DEF Tried, Records
  <2>3. Known \subseteq Known' /\ \A r \in Known' : r \in Known \/ r[1] = This
    BY <2>2, RecordsAreOfTheirCommit DEF Known
  <2> QED
    BY <1>0, <2>1, <2>2, <2>3, <2>m, <2>t, TryingDeals
<1>6. ASSUME Refuses \/ Persists \/ GivesUp
      PROVE  [Promise!Next]_(Promise!vars)
  <2>1. This \in 1 .. Len(up)
    BY <1>0, <1>6 DEF Refuses, Persists, GivesUp, AccountInv, Handling, FhTypeOK
  <2>2. Known' = Known \cup {<<This, nth>>}
    BY <1>6 DEF Refuses, Persists, GivesUp, Known
  <2>3. UNCHANGED <<up, cursor, base, unread>> /\ pc # "dial" /\ pc' # "dial"
    BY <1>6 DEF Refuses, Persists, GivesUp, NextRecord
  <2> QED
    BY <1>0, <2>1, <2>2, <2>3, TryingDeals
<1>7. ASSUME Flush
      PROVE  [Promise!Next]_(Promise!vars)
  <2>1. /\ pc = "flush" /\ pc' = "stream" /\ cursor' = This
        /\ UNCHANGED <<up, base, recorded, refused, lost, unread>>
    BY <1>7 DEF Flush
  <2>2. This <= Len(up) /\ Accounted(This) /\ Backed(pos) /\ cursor <= pos
    BY <1>0, <2>1, StorableIsBacked DEF AccountInv, BatchInv, Handling, Accounted, FhTypeOK
  <2>3. This \in 1 .. Len(up) /\ This >= cursor /\ base \in Nat /\ pos \in Nat
    BY <1>0, <2>2 DEF FhTypeOK
  <2>4. Backed(This)
    <3>1. \A n \in base + 1 .. This : n \in base + 1 .. pos \/ n = This
      BY <2>3
    <3> QED
      BY <2>2, <3>1 DEF Backed
  <2>5. Promise!Backed(This)
    BY <1>0, <2>3, <2>4, BackedMeansBacked
  <2> QED
    BY <1>0, <2>1, <2>3, <2>5, StoringMarks
<1>8. ASSUME Publish
      PROVE  [Promise!Next]_(Promise!vars)
  <2>1. PICK c \in Contents : up' = Append(up, c)
    BY <1>8 DEF Publish
  <2>2. /\ Len(up') = Len(up) + 1 /\ Len(up) \in Nat
        /\ \A n \in 1 .. Len(up) : up'[n] = up[n]
    BY <1>0, <2>1 DEF FhTypeOK
  <2>3. \A n \in 1 .. Len(up) : Records(n)' = Records(n)
    BY <2>2 DEF Records
  <2>4. 1 .. Len(up') = (1 .. Len(up)) \cup {Len(up) + 1}
    BY <2>2
  <2>5. Matters' \in {Matters, Matters \cup {Len(up) + 1}}
    BY <2>3, <2>4 DEF Matters
  <2>6. UNCHANGED <<cursor, base, pc, pos, recorded, refused, lost, unread>>
    BY <1>8 DEF Publish
  <2>7. \A n \in 1 .. Len(up) : Accounted(n)' <=> Accounted(n)
    BY <2>2, <2>3, <2>6 DEF Accounted, Tried
  <2>8. ASSUME NEW n, n = Len(up) + 1, n \in Matters'
        PROVE  ~Accounted(n)'
    <3>1. n \notin 1 .. Len(up)
      BY <2>2, <2>8
    <3>2. \A r \in Records(n)' : r[1] = n
      BY DEF Records
    <3>3. \A r \in Records(n)' : r \notin Known
      BY <3>1, <3>2 DEF DealtInv
    <3>4. Records(n)' # {}
      BY <2>8 DEF Matters
    <3>5. n \notin unread
      BY <3>1 DEF DealtInv
    <3> QED
      BY <2>6, <3>3, <3>4, <3>5 DEF Accounted, Tried, Known
  <2>9. Dealt' = Dealt
    <3>1. \A n : n \in Matters' => n \in 1 .. Len(up) \/ n = Len(up) + 1
      BY <2>5 DEF Matters
    <3>2. \A n \in 1 .. Len(up) : n \in Matters' <=> n \in Matters
      BY <2>3, <2>4 DEF Matters
    <3>3. \A n : n \in Dealt' <=> n \in Matters' /\ Accounted(n)'
      BY DEF Dealt
    <3>4. \A n : n \in Dealt <=> n \in Matters /\ Accounted(n)
      BY DEF Dealt
    <3>5. \A n : n \in Matters => n \in 1 .. Len(up)
      BY DEF Matters
    <3> QED
      BY <2>7, <2>8, <3>1, <3>2, <3>3, <3>4, <3>5
  <2>10. DialsBlank' = DialsBlank
    BY <2>6 DEF DialsBlank
  <2>11. Promise!Publish
    BY <2>2, <2>5, <2>6, <2>9, <2>10 DEF Promise!Publish
  <2> QED
    BY <2>11 DEF Promise!Next
<1> QED
  BY <1>1, <1>2, <1>3, <1>4, <1>5, <1>6, <1>7, <1>8 DEF Next, Watcher

\* For any commits, batch size and failures, through redials, shutdowns and
\* crashes, the watcher implements the at-least-once reader.
THEOREM WatcherImplementsAtLeastOnce == Spec => ImplementsAtLeastOnce
<1> QED
  BY PromiseInit, PromiseStep, WatcherIsHealthy, DealtInvariant, PTL
     DEF Spec, ImplementsAtLeastOnce, Promise!Spec
=============================================================================
