---------------------------- MODULE PacingProofs ----------------------------
(***************************************************************************)
(* Proofs about Pacing, for any windows, budgets and delays: both budgets  *)
(* are kept, no refusal spends a permit of the larger one, and the backoff *)
(* doubles with every dial of the last while.                              *)
(***************************************************************************)
EXTENDS Pacing, FiniteSetTheorems, WellFoundedInduction, TLAPS

USE WindowAssumption, LimitAssumption, DelayAssumption DEF LimitConfig

\* The inductive invariant: what is charged to the hour passed, and fits in it.
PaceInv == PaceTypeOK /\ HourIsNotWasted /\ HourBudget

-----------------------------------------------------------------------------
(* The windows and the delays *)

\* What the window before still weighs is never negative.
LEMMA WeightIsNat ==
    ASSUME NEW size \in Nat \ {0}, NEW age \in 0 .. size - 1, NEW prev \in Nat
    PROVE  ((size - age) * prev) \div size \in Nat
<1>1. (size - age) * prev \in Nat
  OBVIOUS
<1>2. \A x \in Nat : x \div size \in Nat
  OBVIOUS
<1> QED
  BY <1>1, <1>2

\* A window that allows has room for one more.
LEMMA AllowsLeavesRoom == PaceTypeOK /\ HourAllows => hour.curr + 1 <= limits.hour
<1> SUFFICES ASSUME PaceTypeOK, HourAllows
             PROVE  hour.curr + 1 <= limits.hour
  OBVIOUS
<1> DEFINE weight == ((HourTicks - phase) * hour.prev) \div HourTicks
<1>1. weight \in Nat
  BY WeightIsNat DEF PaceTypeOK, Window
<1>2. hour.curr + weight < limits.hour
  BY DEF HourAllows, Estimate
<1>3. hour.curr \in Nat /\ limits.hour \in Nat
  BY DEF PaceTypeOK, Window
<1> HIDE DEF weight
<1> QED
  BY <1>1, <1>2, <1>3

\* Charging or moving a window leaves a window.
LEMMA WindowsStay == \A w \in Window : Spend(w) \in Window /\ Slide(w) \in Window
  BY DEF Window, Spend, Slide

\* The backoff stays between its bounds, and so does the sleep.
LEMMA SleepsInBounds ==
    PaceTypeOK /\ Sleeps => delay' \in InitialDelay .. MaxDelay /\ left' \in 0 .. MaxDelay
<1> SUFFICES ASSUME PaceTypeOK, Sleeps
             PROVE  delay' \in InitialDelay .. MaxDelay /\ left' \in 0 .. MaxDelay
  OBVIOUS
<1>1. delay' \in InitialDelay .. MaxDelay
  BY DEF PaceTypeOK, Sleeps, NextDelay, Lesser
<1>2. \A d \in Nat : Jitter(d) \subseteq Nat
  <2> SUFFICES ASSUME NEW d \in Nat PROVE Jitter(d) \subseteq Nat
    OBVIOUS
  <2>1. d \div JitterShare \in Int
    OBVIOUS
  <2> QED
    BY <2>1 DEF Jitter
<1>3. \A d, x \in Nat : Lesser(d + x, MaxDelay) \in 0 .. MaxDelay
  BY DEF Lesser
<1>4. delay' \in Nat
  BY <1>1
<1>5. left' \in 0 .. MaxDelay
  BY <1>2, <1>3, <1>4 DEF Sleeps
<1> QED
  BY <1>1, <1>5

-----------------------------------------------------------------------------
(* Naturals *)

\* A set of naturals has a least element.
LEMMA LeastOfNaturals ==
    ASSUME NEW S \in SUBSET Nat, S # {}
    PROVE  \E x \in S : \A y \in S : x <= y
<1>1. PICK x \in S : \A y \in S : ~ (<<y, x>> \in OpToRel(<, Nat))
  BY WFMin, NatLessThanWellFounded
<1>2. \A y \in S : ~ (y < x)
  BY <1>1 DEF OpToRel
<1> QED
  BY <1>2

\* What a quotient and a remainder are, and that there is only one.
LEMMA Division ==
    \A a \in Nat, s \in Nat \ {0} : /\ a = s * (a \div s) + (a % s)
                                    /\ (a % s) \in 0 .. s - 1
                                    /\ (a \div s) \in Nat
  OBVIOUS

LEMMA RemainderIsUnique ==
    ASSUME NEW s \in Nat \ {0}, NEW q1 \in Int, NEW q2 \in Int,
           NEW r1 \in 0 .. s - 1, NEW r2 \in 0 .. s - 1,
           s * q1 + r1 = s * q2 + r2
    PROVE  r1 = r2
<1> DEFINE d == q1 - q2
<1>1. d \in Int /\ s * d = r2 - r1
  OBVIOUS
<1>2. CASE d >= 1
  <2>1. s * d >= s
    BY <1>1, <1>2
  <2> QED
    BY <1>1, <2>1
<1>3. CASE d <= -1
  <2>1. s * d <= -s
    BY <1>1, <1>3
  <2> QED
    BY <1>1, <2>1
<1>4. CASE d = 0
  BY <1>1, <1>4
<1> QED
  BY <1>1, <1>2, <1>3, <1>4

\* Counting on by one.
LEMMA NextRemainder ==
    ASSUME NEW s \in Nat \ {0}, NEW a \in Nat
    PROVE  ((a + 1) % s) = IF (a % s) = s - 1 THEN 0 ELSE (a % s) + 1
<1> DEFINE q == a \div s
           r == a % s
           q1 == (a + 1) \div s
           r1 == (a + 1) % s
<1>1. a = s * q + r /\ r \in 0 .. s - 1 /\ q \in Nat
  BY Division
<1>2. a + 1 = s * q1 + r1 /\ r1 \in 0 .. s - 1 /\ q1 \in Nat
  <2> DEFINE b == a + 1
  <2>1. b \in Nat
    OBVIOUS
  <2> HIDE DEF b
  <2>2. b = s * (b \div s) + (b % s) /\ (b % s) \in 0 .. s - 1 /\ (b \div s) \in Nat
    BY <2>1, Division
  <2> QED
    BY <2>2 DEF b
<1> HIDE DEF q, r, q1, r1
<1>3. CASE r = s - 1
  <2>1. s * q1 + r1 = s * (q + 1) + 0
    BY <1>1, <1>2, <1>3
  <2>2. 0 \in 0 .. s - 1 /\ q + 1 \in Int /\ q1 \in Int
    BY <1>1, <1>2
  <2>3. r1 = 0
    BY <1>2, <2>1, <2>2, RemainderIsUnique
  <2> QED
    BY <1>3, <2>3 DEF r, r1
<1>4. CASE r # s - 1
  <2>1. s * q1 + r1 = s * q + (r + 1)
    BY <1>1, <1>2
  <2>2. r + 1 \in 0 .. s - 1 /\ q \in Int /\ q1 \in Int
    BY <1>1, <1>2, <1>4
  <2>3. r1 = r + 1
    BY <1>2, <2>1, <2>2, RemainderIsUnique
  <2> QED
    BY <1>4, <2>3 DEF r, r1
<1> QED
  BY <1>3, <1>4

\* A tick moves the place in the second on by one, across the hour too.
LEMMA NextPlace ==
    ASSUME NEW a \in 0 .. HourTicks - 1
    PROVE  (((a + 1) % HourTicks) % SecondTicks)
             = IF (a % SecondTicks) = SecondTicks - 1 THEN 0 ELSE (a % SecondTicks) + 1
<1>1. ((a + 1) % SecondTicks)
        = IF (a % SecondTicks) = SecondTicks - 1 THEN 0 ELSE (a % SecondTicks) + 1
  <2>1. a \in Nat /\ SecondTicks \in Nat \ {0}
    OBVIOUS
  <2> QED
    BY ONLY <2>1, NextRemainder
<1>2. CASE a = HourTicks - 1
  <2>1. a + 1 = HourTicks /\ ((a + 1) % HourTicks) = 0 /\ (0 % SecondTicks) = 0
    BY <1>2
  <2>2. ((a + 1) % SecondTicks) = 0
    BY <2>1
  <2> QED
    BY <1>1, <2>1, <2>2
<1>3. CASE a # HourTicks - 1
  <2>1. ((a + 1) % HourTicks) = a + 1
    BY <1>3
  <2> QED
    BY <1>1, <2>1
<1> QED
  BY <1>2, <1>3
-----------------------------------------------------------------------------
(* Type correctness *)

LEMMA TypeInit == Init => PaceTypeOK
  BY DEF Init, PaceTypeOK, Empty, Window

LEMMA TypeStep == PaceTypeOK /\ [Next]_vars => PaceTypeOK'
<1> SUFFICES ASSUME PaceTypeOK, [Next]_vars
             PROVE  PaceTypeOK'
  OBVIOUS
<1> USE DEF PaceTypeOK, clockVars, windowVars, redialVars, Goto
<1>1. CASE Pass
  BY <1>1, WindowsStay DEF Pass
<1>2. CASE Refuse
  <2>1. second' \in Window /\ hour' \in Window
    BY <1>2, WindowsStay DEF Refuse, Waste
  <2>2. CASE GivesUp
    BY <1>2, <2>1, <2>2, SleepsInBounds DEF Refuse, Sleeps
  <2>3. CASE ~GivesUp
    BY <1>2, <2>1, <2>3 DEF Refuse
  <2> QED
    BY <2>2, <2>3
<1>3. CASE Retry
  BY <1>3 DEF Retry
<1>4. CASE Abandon
  BY <1>4, SleepsInBounds DEF Abandon, Sleeps
<1>5. CASE Dial
  BY <1>5 DEF Dial
<1>6. CASE TakeLabel
  BY <1>6 DEF TakeLabel
<1>7. CASE Break
  BY <1>7, SleepsInBounds DEF Break, Sleeps
<1>8. CASE Wake
  BY <1>8 DEF Wake
<1>9. CASE Leave
  BY <1>9 DEF Leave
<1>10. CASE Cancel
  BY <1>10 DEF Cancel
<1>11. CASE Tick
  <2>1. phase' \in 0 .. HourTicks - 1
    BY <1>11 DEF Tick
  <2>2. second' \in Window /\ hour' \in Window
    BY <1>11, WindowsStay DEF Tick
  <2>3. lasted' \in 0 .. ResetAfter /\ left' \in 0 .. MaxDelay /\ passed' \in Nat
    BY <1>11 DEF Tick, Lesser
  <2>4. recent' \in [0 .. SecondTicks - 1 -> Nat]
    BY <1>11 DEF Tick
  <2>5. dialed' \subseteq 0 .. ResetAfter - 1
    BY <1>11 DEF Tick
  <2> QED
    BY <1>11, <2>1, <2>2, <2>3, <2>4, <2>5 DEF Tick
<1>12. CASE UNCHANGED vars
  BY <1>12 DEF vars
<1> QED
  BY <1>1, <1>2, <1>3, <1>4, <1>5, <1>6, <1>7, <1>8, <1>9, <1>10, <1>11, <1>12
     DEF Next, Limiter, Loop

\* The limiter and the redial loop are typed: the delay is between InitialMs and
\* MaxMs and no sleep is longer than MaxMs.
THEOREM PaceTypeCorrect == Spec => []PaceTypeOK
<1> QED
  BY TypeInit, TypeStep, PTL DEF Spec

-----------------------------------------------------------------------------
(* The larger budget *)

LEMMA PaceInit == Init => PaceInv
  BY TypeInit DEF Init, PaceInv, HourIsNotWasted, HourBudget, Empty

LEMMA PaceStep == PaceInv /\ [Next]_vars => PaceInv'
<1> SUFFICES ASSUME PaceInv, [Next]_vars
             PROVE  HourIsNotWasted' /\ HourBudget'
  BY TypeStep DEF PaceInv
<1>0. PaceTypeOK /\ hour.curr = passed /\ passed <= limits.hour
  BY DEF PaceInv, HourIsNotWasted, HourBudget
<1>t. hour \in Window /\ passed \in Nat /\ limits.hour \in Nat
  BY <1>0 DEF PaceTypeOK
<1> USE DEF HourIsNotWasted, HourBudget, clockVars, windowVars, redialVars
<1>1. CASE Pass
  <2>1. hour.curr + 1 <= limits.hour
    BY <1>0, <1>1, AllowsLeavesRoom DEF Pass, BothAllow
  <2>2. hour'.curr = hour.curr + 1
    BY <1>1, <1>t DEF Pass, Spend, Window
  <2> QED
    BY <1>0, <1>1, <1>t, <2>1, <2>2 DEF Pass
<1>2. CASE Refuse
  BY <1>0, <1>2 DEF Refuse, Waste
<1>3. CASE Tick
  <2>1. CASE phase' = 0
    BY <1>0, <1>t, <1>3, <2>1 DEF Tick, Slide
  <2>2. CASE phase' # 0
    BY <1>0, <1>3, <2>2 DEF Tick
  <2> QED
    BY <2>1, <2>2
<1>4. CASE Retry \/ Abandon \/ Dial \/ TakeLabel \/ Break \/ Wake \/ Leave \/ Cancel
  BY <1>0, <1>4 DEF Retry, Abandon, Dial, TakeLabel, Break, Wake, Leave, Cancel
<1>5. CASE UNCHANGED vars
  BY <1>0, <1>5 DEF vars
<1> QED
  BY <1>1, <1>2, <1>3, <1>4, <1>5 DEF Next, Limiter, Loop

LEMMA PaceInvariant == Spec => []PaceInv
<1> QED
  BY PaceInit, PaceStep, PTL DEF Spec

\* No permit of the hour is spent by a label that has to wait.
THEOREM NoPermitOfTheHourIsWasted == Spec => []HourIsNotWasted
<1>1. PaceInv => HourIsNotWasted
  BY DEF PaceInv
<1> QED
  BY <1>1, PaceInvariant, PTL

\* In an hour no more labels pass than the larger budget.
THEOREM HourBudgetIsKept == Spec => []HourBudget
<1>1. PaceInv => HourBudget
  BY DEF PaceInv
<1> QED
  BY <1>1, PaceInvariant, PTL

-----------------------------------------------------------------------------
(* The smaller budget *)

Ages == 0 .. SecondTicks - 1

\* f[age] labels are at most that old.
SumsAre(f) == \A age \in Ages : f[age] = recent[age] + (IF age = 0 THEN 0 ELSE f[age - 1])

\* The labels of the window are charged to it, the older ones to the window before.
Charged(f) ==
    /\ f[phase % SecondTicks] <= second.curr
    /\ f[SecondTicks - 1] - f[phase % SecondTicks] <= second.prev

SecondInv ==
    /\ second.curr <= limits.sec /\ second.prev <= limits.sec
    /\ \E f \in [Ages -> Nat] : SumsAre(f) /\ Charged(f)

\* The place in the second is one of its ticks.
LEMMA PlaceInSecond == PaceTypeOK => (phase % SecondTicks) \in Ages
<1> SUFFICES ASSUME PaceTypeOK PROVE (phase % SecondTicks) \in Ages
  OBVIOUS
<1>1. phase \in Nat /\ SecondTicks \in Nat \ {0}
  BY DEF PaceTypeOK
<1> QED
  BY <1>1, Division DEF Ages

\* The smaller window too has room for one more when it allows.
LEMMA SecondLeavesRoom == PaceTypeOK /\ SecondAllows => second.curr + 1 <= limits.sec
<1> SUFFICES ASSUME PaceTypeOK, SecondAllows
             PROVE  second.curr + 1 <= limits.sec
  OBVIOUS
<1> DEFINE place == phase % SecondTicks
           weight == ((SecondTicks - place) * second.prev) \div SecondTicks
<1>1. place \in 0 .. SecondTicks - 1
  BY PlaceInSecond DEF Ages
<1> HIDE DEF place
<1>2. second.prev \in Nat /\ second.curr \in Nat /\ limits.sec \in Nat
  BY DEF PaceTypeOK, Window
<1>3. weight \in Nat
  BY <1>1, <1>2, WeightIsNat
<1>4. second.curr + weight < limits.sec
  BY DEF SecondAllows, Estimate, place
<1> HIDE DEF weight
<1> QED
  BY <1>2, <1>3, <1>4

LEMMA SecondInit == Init => SecondInv
<1> SUFFICES ASSUME Init PROVE SecondInv
  OBVIOUS
<1> DEFINE zero == [age \in Ages |-> 0]
<1>1. zero \in [Ages -> Nat] /\ PaceTypeOK
  BY TypeInit
<1>2. SumsAre(zero)
  BY DEF Init, SumsAre, Ages
<1>3. (phase % SecondTicks) \in Ages /\ SecondTicks - 1 \in Ages
  BY <1>1, PlaceInSecond DEF Ages
<1>4. Charged(zero)
  BY <1>3 DEF Init, Charged, Empty
<1>5. second.curr <= limits.sec /\ second.prev <= limits.sec
  BY DEF Init, Empty
<1> QED
  BY <1>1, <1>2, <1>4, <1>5 DEF SecondInv

\* A label is younger by one window when the window moves on.
LEMMA SecondStep == PaceTypeOK /\ SecondInv /\ [Next]_vars => SecondInv'
<1> SUFFICES ASSUME PaceTypeOK, SecondInv, [Next]_vars
             PROVE  SecondInv'
  OBVIOUS
<1>0. PICK f \in [Ages -> Nat] : SumsAre(f) /\ Charged(f)
  BY DEF SecondInv
<1>t. /\ second \in Window /\ limits.sec \in Nat
      /\ second.curr \in Nat /\ second.prev \in Nat
      /\ second.curr <= limits.sec /\ second.prev <= limits.sec
      /\ phase \in 0 .. HourTicks - 1 /\ recent \in [Ages -> Nat]
  BY DEF SecondInv, PaceTypeOK, Window, Ages
<1>p. (phase % SecondTicks) \in Ages /\ SecondTicks - 1 \in Ages /\ 0 \in Ages
  BY PlaceInSecond DEF Ages
<1> USE DEF clockVars, windowVars, redialVars
<1>1. ASSUME UNCHANGED <<limits, phase, recent>>, second' \in {second, Spend(second)},
             second'.curr <= limits.sec
      PROVE  SecondInv'
  <2>1. second'.curr >= second.curr /\ second'.prev = second.prev
    BY <1>1, <1>t DEF Spend, Window
  <2>2. SumsAre(f)'
    BY <1>0, <1>1 DEF SumsAre
  <2>3. second'.curr \in Nat /\ f[phase % SecondTicks] \in Nat
    BY <1>1, <1>t, <1>p DEF Spend, Window
  <2>4. Charged(f)'
    BY <1>0, <1>1, <1>t, <2>1, <2>3 DEF Charged
  <2> QED
    BY <1>1, <1>t, <2>1, <2>2, <2>4 DEF SecondInv
<1>2. CASE Pass
  <2> DEFINE g == [age \in Ages |-> f[age] + 1]
  <2>1. g \in [Ages -> Nat]
    OBVIOUS
  <2>2. recent' = [recent EXCEPT ![0] = @ + 1] /\ phase' = phase /\ limits' = limits
    BY <1>2 DEF Pass
  <2>3. ASSUME NEW age \in Ages
        PROVE  g[age] = recent'[age] + (IF age = 0 THEN 0 ELSE g[age - 1])
    <3>1. f[age] = recent[age] + (IF age = 0 THEN 0 ELSE f[age - 1])
      BY <1>0 DEF SumsAre
    <3>2. CASE age = 0
      BY <1>t, <2>2, <3>1, <3>2
    <3>3. CASE age # 0
      <4>1. age - 1 \in Ages /\ recent'[age] = recent[age]
        BY <1>t, <2>2, <3>3 DEF Ages
      <4>2. f[age - 1] \in Nat /\ recent[age] \in Nat
        BY <1>t, <4>1
      <4> QED
        BY <3>1, <3>3, <4>1, <4>2
    <3> QED
      BY <3>2, <3>3
  <2>4. second'.curr = second.curr + 1 /\ second'.prev = second.prev
    BY <1>2, <1>t DEF Pass, Spend, Window
  <2>5. second'.curr <= limits.sec
    BY <1>2, <2>4, SecondLeavesRoom DEF Pass, BothAllow
  <2>6. f[phase % SecondTicks] \in Nat /\ f[SecondTicks - 1] \in Nat
    BY <1>p
  <2>7. Charged(g)'
    BY <1>0, <1>p, <1>t, <2>2, <2>4, <2>6 DEF Charged
  <2>8. SumsAre(g)'
    BY <2>3 DEF SumsAre
  <2> QED
    BY <1>t, <2>1, <2>2, <2>4, <2>5, <2>7, <2>8 DEF SecondInv
<1>3. CASE Refuse
  <2>1. CASE SecondAllows
    <3>1. second'.curr <= limits.sec /\ second' = Spend(second)
      BY <1>3, <1>t, <2>1, SecondLeavesRoom DEF Refuse, Waste, Spend, Window
    <3> QED
      BY <1>1, <1>3, <3>1 DEF Refuse
  <2>2. CASE ~SecondAllows
    BY <1>1, <1>3, <1>t, <2>2 DEF Refuse, Waste
  <2> QED
    BY <2>1, <2>2
<1>4. CASE Retry \/ Abandon \/ Dial \/ TakeLabel \/ Break \/ Wake \/ Leave \/ Cancel
  BY <1>1, <1>4, <1>t DEF Retry, Abandon, Dial, TakeLabel, Break, Wake, Leave, Cancel
<1>5. CASE UNCHANGED vars
  BY <1>1, <1>5, <1>t DEF vars
<1>6. CASE Tick
  <2> DEFINE g == [age \in Ages |-> IF age = 0 THEN 0 ELSE f[age - 1]]
             p == phase % SecondTicks
  <2>1. g \in [Ages -> Nat]
    BY DEF Ages
  <2>2. SumsAre(g)'
    <3> SUFFICES ASSUME NEW age \in Ages
                 PROVE  g[age] = recent'[age] + (IF age = 0 THEN 0 ELSE g[age - 1])
      BY DEF SumsAre
    <3>1. recent'[age] = IF age = 0 THEN 0 ELSE recent[age - 1]
      BY <1>6 DEF Tick, Ages
    <3>2. CASE age = 0
      BY <3>1, <3>2
    <3>3. CASE age # 0
      <4>1. age - 1 \in Ages
        BY <3>3 DEF Ages
      <4>2. f[age - 1] = recent[age - 1] + (IF age - 1 = 0 THEN 0 ELSE f[(age - 1) - 1])
        BY <1>0, <4>1 DEF SumsAre
      <4> QED
        BY <3>1, <3>3, <4>1, <4>2
    <3> QED
      BY <3>2, <3>3
  <2>3. (phase' % SecondTicks) = IF p = SecondTicks - 1 THEN 0 ELSE p + 1
    BY <1>6, <1>t, NextPlace DEF Tick
  <2>4. f[p] \in Nat /\ f[SecondTicks - 1] \in Nat /\ p \in 0 .. SecondTicks - 1
    BY <1>p DEF Ages
  <2>5. f[p] <= second.curr /\ f[SecondTicks - 1] - f[p] <= second.prev
    BY <1>0 DEF Charged
  <2>6. g[SecondTicks - 1] \in Nat /\ g[SecondTicks - 1] <= f[SecondTicks - 1]
    <3>1. f[SecondTicks - 1]
            = recent[SecondTicks - 1] + (IF SecondTicks - 1 = 0 THEN 0 ELSE f[(SecondTicks - 1) - 1])
      BY <1>0, <1>p DEF SumsAre
    <3>2. recent[SecondTicks - 1] \in Nat /\ g[SecondTicks - 1] \in Nat
      BY <1>p, <1>t, <2>1
    <3>3. g[SecondTicks - 1] = IF SecondTicks - 1 = 0 THEN 0 ELSE f[(SecondTicks - 1) - 1]
      BY <1>p
    <3> QED
      BY <3>1, <3>2, <3>3
  <2>7. limits' = limits
    BY <1>6 DEF Tick
  <2>8. CASE p = SecondTicks - 1
    <3>1. (phase' % SecondTicks) = 0
      BY <2>3, <2>8
    <3>2. second'.prev = second.curr /\ second'.curr = 0
      BY <1>6, <3>1 DEF Tick, Slide
    <3>3. g[0] = 0
      BY <1>p
    <3>4. Charged(g)'
      <4> HIDE DEF g, p
      <4> QED
        BY <1>t, <2>4, <2>5, <2>6, <2>8, <3>1, <3>2, <3>3 DEF Charged
    <3> QED
      BY <1>t, <2>1, <2>2, <2>7, <3>2, <3>4 DEF SecondInv
  <2>9. CASE p # SecondTicks - 1
    <3>1. (phase' % SecondTicks) = p + 1 /\ p + 1 # 0 /\ p + 1 \in Ages
      BY <2>3, <2>4, <2>9 DEF Ages
    <3>2. second' = second
      BY <1>6, <3>1 DEF Tick
    <3>3. g[p + 1] = f[p]
      <4> HIDE DEF p
      <4> QED
        BY <2>4, <3>1
    <3>4. Charged(g)'
      <4> HIDE DEF g, p
      <4> QED
        BY <1>t, <2>4, <2>5, <2>6, <3>1, <3>2, <3>3 DEF Charged
    <3> QED
      BY <1>t, <2>1, <2>2, <2>7, <3>2, <3>4 DEF SecondInv
  <2> QED
    BY <2>8, <2>9
<1> QED
  BY <1>2, <1>3, <1>4, <1>5, <1>6 DEF Next, Limiter, Loop

\* Only one function sums the labels up.
LEMMA SumsAreUnique ==
    ASSUME NEW f, SumsAre(f), NEW g, SumsAre(g)
    PROVE  \A age \in Ages : f[age] = g[age]
<1> DEFINE Differ == {age \in Ages : f[age] # g[age]}
<1> SUFFICES ASSUME Differ # {} PROVE FALSE
  OBVIOUS
<1>1. PICK age \in Differ : \A y \in Differ : age <= y
  <2>1. Differ \in SUBSET Nat
    BY DEF Ages
  <2> HIDE DEF Differ
  <2> QED
    BY <2>1, LeastOfNaturals
<1>2. age \in Ages /\ f[age] # g[age]
  OBVIOUS
<1>3. /\ f[age] = recent[age] + (IF age = 0 THEN 0 ELSE f[age - 1])
      /\ g[age] = recent[age] + (IF age = 0 THEN 0 ELSE g[age - 1])
  BY <1>2 DEF SumsAre
<1>4. age # 0
  BY <1>2, <1>3
<1>5. age - 1 \in Ages /\ ~ (age <= age - 1)
  BY <1>2, <1>4 DEF Ages
<1>6. f[age - 1] = g[age - 1]
  BY <1>1, <1>5
<1> QED
  BY <1>2, <1>3, <1>4, <1>6

\* So the recursive definition is any function that sums them up.
LEMMA LastSecondIsTheSum ==
    ASSUME NEW f \in [Ages -> Nat], SumsAre(f)
    PROVE  LastSecond = f[SecondTicks - 1]
<1> DEFINE IsSum(g) == g = [age \in 0 .. SecondTicks - 1 |->
                              recent[age] + (IF age = 0 THEN 0 ELSE g[age - 1])]
           sum == CHOOSE g : IsSum(g)
<1>1. IsSum(f)
  BY DEF SumsAre, Ages
<1>2. IsSum(sum)
  BY <1>1
<1>3. SumsAre(sum)
  <2> HIDE DEF sum
  <2> QED
    BY <1>2 DEF SumsAre, Ages
<1>4. sum[SecondTicks - 1] = f[SecondTicks - 1]
  <2> HIDE DEF sum
  <2>1. SecondTicks - 1 \in Ages
    BY DEF Ages
  <2> QED
    BY <1>3, <2>1, SumsAreUnique
<1> QED
  BY <1>4 DEF LastSecond

LEMMA SecondBudgetFollows == PaceTypeOK /\ SecondInv => SecondBudget
<1> SUFFICES ASSUME PaceTypeOK, SecondInv PROVE SecondBudget
  OBVIOUS
<1>1. PICK f \in [Ages -> Nat] : SumsAre(f) /\ Charged(f)
  BY DEF SecondInv
<1>2. LastSecond = f[SecondTicks - 1]
  BY <1>1, LastSecondIsTheSum
<1>3. f[SecondTicks - 1] \in Nat /\ f[phase % SecondTicks] \in Nat
  BY PlaceInSecond DEF Ages
<1>4. /\ f[phase % SecondTicks] <= second.curr
      /\ f[SecondTicks - 1] - f[phase % SecondTicks] <= second.prev
      /\ second.curr <= limits.sec /\ second.prev <= limits.sec
      /\ second.curr \in Nat /\ second.prev \in Nat /\ limits.sec \in Nat
  BY <1>1 DEF Charged, SecondInv, PaceTypeOK, Window
<1> QED
  BY <1>2, <1>3, <1>4 DEF SecondBudget

LEMMA BurstInvariant == Spec => []SecondInv
<1>1. PaceTypeOK /\ SecondInv /\ [Next]_vars => SecondInv'
  BY SecondStep
<1> QED
  BY SecondInit, <1>1, PaceTypeCorrect, PTL DEF Spec

\* However the labels of a subscription come, over however many connections: in an
\* hour no more pass than the larger budget, and in any second no more than twice
\* the smaller one, for a second overlaps two windows.
THEOREM BudgetIsAlwaysKept == Spec => []BudgetIsKept
<1>1. PaceTypeOK /\ SecondInv /\ HourBudget => BudgetIsKept
  BY SecondBudgetFollows DEF BudgetIsKept
<1> QED
  BY <1>1, BurstInvariant, HourBudgetIsKept, PaceTypeCorrect, PTL

-----------------------------------------------------------------------------
(* The backoff *)

\* h doubles the delay over the first m dials.
DoublesUpTo(m, h) ==
    \A n \in 1 .. m : h[n] = IF n = 1 THEN InitialDelay ELSE Lesser(2 * h[n - 1], MaxDelay)

\* There is such a function, by induction on the dials.
LEMMA DoublingExists ==
    \A m \in 1 .. ResetAfter : \E h \in [1 .. m -> 1 .. MaxDelay] : DoublesUpTo(m, h)
<1> DEFINE Has(m) == \E h \in [1 .. m -> 1 .. MaxDelay] : DoublesUpTo(m, h)
           Without == {m \in 1 .. ResetAfter : ~Has(m)}
<1> SUFFICES ASSUME Without # {} PROVE FALSE
  OBVIOUS
<1>1. PICK m \in Without : \A y \in Without : m <= y
  <2>1. Without \in SUBSET Nat
    OBVIOUS
  <2> HIDE DEF Without
  <2> QED
    BY <2>1, LeastOfNaturals
<1>2. m \in 1 .. ResetAfter /\ ~Has(m)
  OBVIOUS
<1>3. CASE m = 1
  <2> DEFINE h == [n \in 1 .. 1 |-> InitialDelay]
  <2>1. h \in [1 .. 1 -> 1 .. MaxDelay] /\ DoublesUpTo(1, h)
    BY DEF DoublesUpTo
  <2> QED
    BY <1>2, <1>3, <2>1
<1>4. CASE m # 1
  <2>1. m - 1 \in 1 .. ResetAfter /\ ~ (m <= m - 1)
    BY <1>2, <1>4
  <2>2. Has(m - 1)
    BY <1>1, <2>1
  <2>3. PICK g \in [1 .. m - 1 -> 1 .. MaxDelay] : DoublesUpTo(m - 1, g)
    BY <2>2
  <2> DEFINE h == [n \in 1 .. m |-> IF n = m THEN Lesser(2 * g[m - 1], MaxDelay) ELSE g[n]]
  <2>4. g[m - 1] \in 1 .. MaxDelay
    BY <2>1
  <2>5. Lesser(2 * g[m - 1], MaxDelay) \in 1 .. MaxDelay
    BY <2>4 DEF Lesser
  <2>6. \A n \in 1 .. m : n # m => n \in 1 .. m - 1
    BY <1>2
  <2>7. h \in [1 .. m -> 1 .. MaxDelay]
    BY <2>5, <2>6
  <2>8. ASSUME NEW n \in 1 .. m
        PROVE  h[n] = IF n = 1 THEN InitialDelay ELSE Lesser(2 * h[n - 1], MaxDelay)
    <3>1. CASE n = m
      <4>1. h[n - 1] = g[m - 1] /\ n # 1
        BY <1>2, <1>4, <3>1
      <4> QED
        BY <3>1, <4>1
    <3>2. CASE n # m
      <4>1. n \in 1 .. m - 1 /\ h[n] = g[n]
        BY <2>6, <3>2
      <4>2. n # 1 => h[n - 1] = g[n - 1]
        BY <1>2, <4>1
      <4> QED
        BY <2>3, <4>1, <4>2 DEF DoublesUpTo
    <3> QED
      BY <3>1, <3>2
  <2>9. DoublesUpTo(m, h)
    BY <2>8 DEF DoublesUpTo
  <2> QED
    BY <1>2, <2>7, <2>9
<1> QED
  BY <1>3, <1>4

\* The recursive definition is a function, and doubles.
LEMMA DoubledDoubles == DoublesUpTo(ResetAfter, Doubled)
<1> DEFINE IsDoubled(g) == g = [dials \in 1 .. ResetAfter |->
                IF dials = 1 THEN InitialDelay ELSE Lesser(2 * g[dials - 1], MaxDelay)]
<1>1. PICK h \in [1 .. ResetAfter -> 1 .. MaxDelay] : DoublesUpTo(ResetAfter, h)
  <2>1. ResetAfter \in 1 .. ResetAfter
    OBVIOUS
  <2> QED
    BY <2>1, DoublingExists
<1>2. IsDoubled(h)
  BY <1>1 DEF DoublesUpTo
<1>3. Doubled = CHOOSE g : IsDoubled(g)
  BY DEF Doubled
<1>4. IsDoubled(Doubled)
  BY <1>2, <1>3
<1> HIDE DEF Doubled
<1> QED
  BY <1>4 DEF DoublesUpTo

\* And only one.
LEMMA DoublingIsUnique ==
    ASSUME NEW g, NEW h, DoublesUpTo(ResetAfter, g), DoublesUpTo(ResetAfter, h)
    PROVE  \A n \in 1 .. ResetAfter : g[n] = h[n]
<1> DEFINE Differ == {n \in 1 .. ResetAfter : g[n] # h[n]}
<1> SUFFICES ASSUME Differ # {} PROVE FALSE
  OBVIOUS
<1>1. PICK n \in Differ : \A y \in Differ : n <= y
  <2>1. Differ \in SUBSET Nat
    OBVIOUS
  <2> HIDE DEF Differ
  <2> QED
    BY <2>1, LeastOfNaturals
<1>2. n \in 1 .. ResetAfter /\ g[n] # h[n]
  OBVIOUS
<1>3. /\ g[n] = IF n = 1 THEN InitialDelay ELSE Lesser(2 * g[n - 1], MaxDelay)
      /\ h[n] = IF n = 1 THEN InitialDelay ELSE Lesser(2 * h[n - 1], MaxDelay)
  BY <1>2 DEF DoublesUpTo
<1>4. n - 1 \in 1 .. ResetAfter /\ ~ (n <= n - 1)
  BY <1>2, <1>3
<1>5. g[n - 1] = h[n - 1]
  BY <1>1, <1>4
<1> QED
  BY <1>2, <1>3, <1>5

LEMMA DoubledInBounds == \A n \in 1 .. ResetAfter : Doubled[n] \in 1 .. MaxDelay
<1>1. PICK h \in [1 .. ResetAfter -> 1 .. MaxDelay] : DoublesUpTo(ResetAfter, h)
  <2>1. ResetAfter \in 1 .. ResetAfter
    OBVIOUS
  <2> QED
    BY <2>1, DoublingExists
<1> HIDE DEF Doubled
<1>2. \A n \in 1 .. ResetAfter : Doubled[n] = h[n]
  BY <1>1, DoubledDoubles, DoublingIsUnique
<1> QED
  BY <1>2

\* In the sleep and at the top of the loop every recent dial has doubled the
\* delay; while a connection lives all but its own dial have, and none of the
\* recent dials is younger than it.
PatienceInv ==
    /\ pc \in {"sleep", "top"} => \A n \in 1 .. Cardinality(dialed) : delay >= Doubled[n]
    /\ pc \in {"open", "wait", "pause"} =>
          /\ \A n \in 1 .. Cardinality(dialed) - 1 : delay >= Doubled[n]
          /\ \A age \in dialed : age >= lasted

\* No more dials than ticks.
LEMMA DialsAreFew ==
    ASSUME NEW S \in SUBSET (0 .. ResetAfter - 1)
    PROVE  IsFiniteSet(S) /\ Cardinality(S) \in 0 .. ResetAfter
<1>1. IsFiniteSet(0 .. ResetAfter - 1) /\ Cardinality(0 .. ResetAfter - 1) = ResetAfter
  BY FS_Interval
<1> DEFINE All == 0 .. ResetAfter - 1
<1>2. S \in SUBSET All /\ IsFiniteSet(All) /\ Cardinality(All) = ResetAfter
  BY <1>1
<1> HIDE DEF All
<1>3. IsFiniteSet(S) /\ Cardinality(S) <= ResetAfter
  BY <1>2, FS_Subset
<1> QED
  BY <1>3, FS_CardinalityType

\* Time forgets dials and invents none.
LEMMA TickForgets ==
    ASSUME NEW S \in SUBSET (0 .. ResetAfter - 1)
    PROVE  Cardinality({age + 1 : age \in S} \cap 0 .. ResetAfter - 1) <= Cardinality(S)
<1> DEFINE T == {age + 1 : age \in S} \cap 0 .. ResetAfter - 1
           back == [x \in T |-> x - 1]
<1>1. \A x \in T : x - 1 \in S /\ x \in Int
  OBVIOUS
<1>2. back \in Injection(T, S)
  BY <1>1 DEF Injection, IsInjective
<1>3. IsFiniteSet(S)
  BY DialsAreFew
<1> HIDE DEF T, back
<1>4. Cardinality(T) <= Cardinality(S)
  BY <1>2, <1>3, FS_Injection
<1> QED
  BY <1>4 DEF T

\* Going to sleep doubles the delay: a connection that lasted long enough to start
\* anew is older than all recent dials, and there are none.
LEMMA SleepsDoubled ==
    ASSUME PaceTypeOK, PatienceInv, pc \in {"open", "wait", "pause"}, Sleeps, dialed' = dialed
    PROVE  PatienceInv'
<1>1. pc' = "sleep" /\ delay' = NextDelay(delay, lasted)
  BY DEF Sleeps, Goto
<1> SUFFICES ASSUME NEW n \in 1 .. Cardinality(dialed)
             PROVE  delay' >= Doubled[n]
  BY <1>1 DEF PatienceInv
<1>2. dialed \in SUBSET (0 .. ResetAfter - 1) /\ lasted \in 0 .. ResetAfter
  BY DEF PaceTypeOK
<1>3. IsFiniteSet(dialed) /\ Cardinality(dialed) \in 0 .. ResetAfter
  BY <1>2, DialsAreFew
<1>4. lasted < ResetAfter
  <2> SUFFICES ASSUME lasted = ResetAfter PROVE FALSE
    BY <1>2
  <2>1. dialed = {}
    BY <1>2 DEF PatienceInv
  <2>2. Cardinality(dialed) = 0
    BY <2>1, FS_EmptySet
  <2> QED
    BY <2>2
<1>5. /\ n \in 1 .. ResetAfter
      /\ Doubled[n] = IF n = 1 THEN InitialDelay ELSE Lesser(2 * Doubled[n - 1], MaxDelay)
  BY <1>3, DoubledDoubles DEF DoublesUpTo
<1>6. delay \in {0} \cup InitialDelay .. MaxDelay
  BY DEF PaceTypeOK
<1>7. delay' = IF delay = 0 THEN InitialDelay ELSE Lesser(2 * delay, MaxDelay)
  BY <1>1, <1>2, <1>4 DEF NextDelay
<1>8. CASE n = 1
  BY <1>5, <1>6, <1>7, <1>8 DEF Lesser
<1>9. CASE n # 1
  <2>1. n - 1 \in 1 .. Cardinality(dialed) - 1 /\ n - 1 \in 1 .. ResetAfter
    BY <1>3, <1>5, <1>9
  <2>2. delay >= Doubled[n - 1]
    BY <2>1 DEF PatienceInv
  <2>3. Doubled[n - 1] \in 1 .. MaxDelay
    BY <2>1, DoubledInBounds
  <2> HIDE DEF Doubled
  <2> QED
    BY <1>5, <1>6, <1>7, <1>9, <2>2, <2>3 DEF Lesser
<1> QED
  BY <1>8, <1>9

LEMMA PatienceInit == Init => PatienceInv
<1> SUFFICES ASSUME Init PROVE PatienceInv
  OBVIOUS
<1>1. pc = "top" /\ Cardinality(dialed) = 0
  BY FS_EmptySet DEF Init
<1> QED
  BY <1>1 DEF PatienceInv

LEMMA PatienceStep == PaceTypeOK /\ PatienceInv /\ [Next]_vars => PatienceInv'
<1> SUFFICES ASSUME PaceTypeOK, PatienceInv, [Next]_vars
             PROVE  PatienceInv'
  OBVIOUS
<1>t. dialed \in SUBSET (0 .. ResetAfter - 1) /\ lasted \in 0 .. ResetAfter
  BY DEF PaceTypeOK
<1>c. IsFiniteSet(dialed) /\ Cardinality(dialed) \in 0 .. ResetAfter
  BY <1>t, DialsAreFew
<1> USE DEF clockVars, windowVars, redialVars, Goto
<1>1. CASE Pass
  BY <1>1 DEF Pass, PatienceInv
<1>2. CASE Refuse
  <2>1. CASE GivesUp
    BY <1>2, <2>1, SleepsDoubled DEF Refuse
  <2>2. CASE ~GivesUp
    BY <1>2, <2>2 DEF Refuse, PatienceInv
  <2> QED
    BY <2>1, <2>2
<1>3. CASE Retry \/ TakeLabel
  BY <1>3 DEF Retry, TakeLabel, PatienceInv
<1>4. CASE Abandon
  BY <1>4, SleepsDoubled DEF Abandon
<1>5. CASE Dial
  <2>1. pc = "top" /\ pc' = "open" /\ lasted' = 0 /\ delay' = delay /\ dialed' = dialed \cup {0}
    BY <1>5 DEF Dial
  <2>2. Cardinality(dialed') <= Cardinality(dialed) + 1 /\ Cardinality(dialed') \in Nat
    BY <1>c, <2>1, FS_AddElement
  <2>3. \A n \in 1 .. Cardinality(dialed') - 1 : n \in 1 .. Cardinality(dialed)
    BY <1>c, <2>2
  <2>4. \A n \in 1 .. Cardinality(dialed') - 1 : delay >= Doubled[n]
    BY <2>1, <2>3 DEF PatienceInv
  <2>5. \A age \in dialed' : age >= lasted'
    BY <1>t, <2>1
  <2> QED
    BY <2>1, <2>4, <2>5 DEF PatienceInv
<1>6. CASE Break
  BY <1>6, SleepsDoubled DEF Break
<1>7. CASE Wake \/ Leave \/ Cancel
  BY <1>7 DEF Wake, Leave, Cancel, PatienceInv
<1>8. CASE Tick
  <2>1. /\ pc' = pc /\ delay' = delay /\ lasted' = Lesser(lasted + 1, ResetAfter)
        /\ dialed' = {age + 1 : age \in dialed} \cap 0 .. ResetAfter - 1
    BY <1>8 DEF Tick
  <2>2. Cardinality(dialed') <= Cardinality(dialed)
    BY <1>t, <2>1, TickForgets
  <2>3. dialed' \in SUBSET (0 .. ResetAfter - 1)
    BY <2>1
  <2>4. Cardinality(dialed') \in Nat
    BY <2>3, DialsAreFew
  <2>5. /\ \A n \in 1 .. Cardinality(dialed') : n \in 1 .. Cardinality(dialed)
        /\ \A n \in 1 .. Cardinality(dialed') - 1 : n \in 1 .. Cardinality(dialed) - 1
    BY <1>c, <2>2, <2>4
  <2>6. pc \in {"open", "wait", "pause"} => \A age \in dialed' : age >= lasted'
    <3> SUFFICES ASSUME pc \in {"open", "wait", "pause"}, NEW age \in dialed
                 PROVE  age + 1 >= lasted'
      BY <2>1
    <3>1. age >= lasted /\ age \in Nat
      BY <1>t DEF PatienceInv
    <3> QED
      BY <1>t, <2>1, <3>1 DEF Lesser
  <2> QED
    BY <2>1, <2>5, <2>6 DEF PatienceInv
<1>9. CASE UNCHANGED vars
  BY <1>9 DEF vars, PatienceInv
<1> QED
  BY <1>1, <1>2, <1>3, <1>4, <1>5, <1>6, <1>7, <1>8, <1>9 DEF Next, Limiter, Loop

LEMMA PatienceFollows == PaceTypeOK /\ PatienceInv => PatienceGrows
<1> SUFFICES ASSUME PaceTypeOK, PatienceInv, pc = "sleep", dialed # {}
             PROVE  delay >= Doubled[Cardinality(dialed)]
  BY DEF PatienceGrows
<1>1. IsFiniteSet(dialed) /\ Cardinality(dialed) \in 0 .. ResetAfter
  BY DialsAreFew DEF PaceTypeOK
<1>2. Cardinality(dialed) # 0
  BY <1>1, FS_EmptySet
<1>3. Cardinality(dialed) \in 1 .. Cardinality(dialed)
  BY <1>1, <1>2
<1> QED
  BY <1>3 DEF PatienceInv

\* The delay doubles, up to MaxMs, with every dial of the last ResetAfter ticks,
\* whatever the upstream does between the dials.
THEOREM PatienceAlwaysGrows == Spec => []PatienceGrows
<1>1. PaceTypeOK /\ PatienceInv /\ [Next]_vars => PatienceInv'
  BY PatienceStep
<1>2. Spec => []PatienceInv
  BY PatienceInit, <1>1, PaceTypeCorrect, PTL DEF Spec
<1> QED
  BY <1>2, PatienceFollows, PaceTypeCorrect, PTL
=============================================================================
