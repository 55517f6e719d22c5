------------------------------- MODULE Pacing -------------------------------
(***************************************************************************)
(* How fast one subscription may go: the limiter of                        *)
(* internal/slurper/ratelimit.go, which every label of every frame has to  *)
(* pass, and the redial loop of subscription.go with internal/backoff.     *)
(* The limiter belongs to the subscription and survives its redials; the   *)
(* firehose watcher has the same loop without a limiter.                   *)
(*                                                                         *)
(* Time is counted in ticks and only relative to now: the phase within the *)
(* hour, the age of the connection, what is left of a sleep.  So nothing   *)
(* grows, and time is not bounded.                                         *)
(***************************************************************************)
EXTENDS Integers, FiniteSets

CONSTANTS
    SecondTicks,   \* ticks in the smaller window
    HourTicks,     \* ticks in the larger window
    MaxPerSec,     \* bound on upstream_rate_limit.per_sec
    MaxPerHour,    \* bound on upstream_rate_limit.per_hour
    InitialDelay,  \* backoff.InitialMs
    MaxDelay,      \* backoff.MaxMs
    ResetAfter,    \* backoff.ResetAfter
    JitterShare    \* a sleep is longer by less than one JitterShare-th, a tenth

ASSUME WindowAssumption ==
    /\ SecondTicks \in Nat \ {0} /\ HourTicks \in Nat \ {0}
    /\ HourTicks % SecondTicks = 0
ASSUME LimitAssumption == MaxPerSec \in Nat \ {0} /\ MaxPerHour \in Nat \ {0}
ASSUME DelayAssumption ==
    /\ InitialDelay \in Nat \ {0} /\ MaxDelay \in Nat /\ ResetAfter \in Nat \ {0}
    /\ InitialDelay <= MaxDelay /\ JitterShare \in Nat \ {0}

VARIABLES
    limits,   \* LimitConfig
    phase,    \* the time, in ticks since the hour began
    second,   \* the per-second window: events in it and in the one before
    hour,     \* the per-hour window
    pc,       \* where the goroutine stands
    alive,    \* is its context alive?
    lasted,   \* ticks since dialStart, up to ResetAfter
    delay,    \* backoffMs, 0 before the first redial
    left,     \* what is left of the sleep
    recent,   \* history: the labels that passed, by their age in ticks
    passed,   \* history: the labels that passed in this hour
    dialed    \* history: the ages of the dials of the last ResetAfter ticks

clockVars == <<phase, recent, dialed>>
windowVars == <<second, hour, passed>>
redialVars == <<lasted, delay, left>>
vars == <<limits, clockVars, windowVars, pc, alive, redialVars>>

Empty == [prev |-> 0, curr |-> 0]

\* What config.go lets through.
LimitConfig == [sec : 1 .. MaxPerSec, hour : 1 .. MaxPerHour]

Init ==
    /\ limits \in LimitConfig
    /\ phase = 0
    /\ second = Empty /\ hour = Empty
    /\ pc = "top"
    /\ alive = TRUE
    /\ lasted = 0 /\ delay = 0 /\ left = 0
    /\ recent = [age \in 0 .. SecondTicks - 1 |-> 0]
    /\ passed = 0
    /\ dialed = {}

Lesser(a, b) == IF a < b THEN a ELSE b

Goto(point) == pc' = point

-----------------------------------------------------------------------------
(* The windows of github.com/RussellLuo/slidingwindow *)

\* The events of a window, the one before weighed by how much it still overlaps.
Estimate(w, size, age) == w.curr + (((size - age) * w.prev) \div size)

SecondAllows == Estimate(second, SecondTicks, phase % SecondTicks) < limits.sec

HourAllows == Estimate(hour, HourTicks, phase) < limits.hour

Spend(w) == [w EXCEPT !.curr = @ + 1]

Slide(w) == [prev |-> w.curr, curr |-> 0]

-----------------------------------------------------------------------------
(* The backoff *)

\* Fault: a connection that was established at all starts the sequence anew.
NextWithoutThreshold(prev, ticks) ==
    IF prev = 0 \/ ticks >= 1 THEN InitialDelay ELSE Lesser(2 * prev, MaxDelay)

\* NextMs.
NextDelay(prev, ticks) ==
    IF prev = 0 \/ ticks >= ResetAfter THEN InitialDelay ELSE Lesser(2 * prev, MaxDelay)

\* rand.Intn of maxJitter.
Jitter(d) == {0} \cup 0 .. d \div JitterShare - 1

\* dial has returned, and run goes to sleep.
Sleeps ==
    /\ Goto("sleep")
    /\ delay' = NextDelay(delay, lasted)
    /\ \E jitter \in Jitter(delay') : left' = Lesser(delay' + jitter, MaxDelay)
    /\ UNCHANGED lasted

-----------------------------------------------------------------------------
(* Limiter.Wait *)

\* Fault: one window is enough.
EitherAllows == SecondAllows \/ HourAllows

BothAllow == SecondAllows /\ HourAllows

\* Both windows allow: the label passes, even if the context is cancelled.
Pass ==
    /\ pc = "wait"
    /\ BothAllow
    /\ second' = Spend(second) /\ hour' = Spend(hour)
    /\ recent' = [recent EXCEPT ![0] = @ + 1]
    /\ passed' = passed + 1
    /\ Goto("open")
    /\ UNCHANGED <<limits, phase, dialed, alive, redialVars>>

\* Fault: Wait does not look at its context.
WaitsOn == FALSE

\* ctx.Done() is ready.
GivesUp == ~alive

\* Fault: the windows are asked in the other order.
HourIsAskedFirst ==
    /\ second' = second
    /\ hour' = IF HourAllows THEN Spend(hour) ELSE hour

\* Fault: what is refused is counted too, up to the limit.
CountsRefused ==
    /\ second' = IF second.curr < limits.sec THEN Spend(second) ELSE second
    /\ hour' = hour

\* What a refusal costs: a permit of the second if only the hour refuses.
Waste ==
    /\ second' = IF SecondAllows THEN Spend(second) ELSE second
    /\ hour' = hour

\* Refused.  A context found cancelled ends Wait, and with it the connection.
Refuse ==
    /\ pc = "wait"
    /\ ~BothAllow
    /\ Waste
    /\ IF GivesUp THEN Sleeps ELSE Goto("pause") /\ UNCHANGED redialVars
    /\ UNCHANGED <<limits, clockVars, passed, alive>>

\* The 10 ms are over, before a cancellation or together with one.
Retry ==
    /\ pc = "pause"
    /\ Goto("wait")
    /\ UNCHANGED <<limits, clockVars, windowVars, alive, redialVars>>

\* The cancellation comes first.
Abandon ==
    /\ pc = "pause"
    /\ GivesUp
    /\ Sleeps
    /\ UNCHANGED <<limits, clockVars, windowVars, alive>>

-----------------------------------------------------------------------------
(* run *)

Dial ==
    /\ pc = "top"
    /\ alive
    /\ Goto("open")
    /\ lasted' = 0
    /\ dialed' = dialed \cup {0}
    /\ UNCHANGED <<limits, phase, recent, windowVars, alive, delay, left>>

\* The next label of a frame, or the first of the next frame.
TakeLabel ==
    /\ pc = "open"
    /\ Goto("wait")
    /\ UNCHANGED <<limits, clockVars, windowVars, alive, redialVars>>

\* The handshake fails, the connection ends, the store fails or the context is
\* cancelled.
Break ==
    /\ pc = "open"
    /\ Sleeps
    /\ UNCHANGED <<limits, clockVars, windowVars, alive>>

\* time.After fires.
Wake ==
    /\ pc = "sleep"
    /\ left = 0
    /\ Goto("top")
    /\ UNCHANGED <<limits, clockVars, windowVars, alive, redialVars>>

\* run returns: at the top of the loop, or out of the sleep.
Leave ==
    /\ pc \in {"top", "sleep"}
    /\ ~alive
    /\ Goto("gone")
    /\ UNCHANGED <<limits, clockVars, windowVars, alive, redialVars>>

-----------------------------------------------------------------------------
(* The environment *)

\* Reconcile or Shutdown.
Cancel ==
    /\ alive
    /\ alive' = FALSE
    /\ UNCHANGED <<limits, clockVars, windowVars, pc, redialVars>>

Tick ==
    /\ phase' = (phase + 1) % HourTicks
    /\ second' = IF phase' % SecondTicks = 0 THEN Slide(second) ELSE second
    /\ hour' = IF phase' = 0 THEN Slide(hour) ELSE hour
    /\ passed' = IF phase' = 0 THEN 0 ELSE passed
    /\ lasted' = Lesser(lasted + 1, ResetAfter)
    /\ left' = IF left > 0 THEN left - 1 ELSE 0
    /\ recent' = [age \in 0 .. SecondTicks - 1 |-> IF age = 0 THEN 0 ELSE recent[age - 1]]
    /\ dialed' = {age + 1 : age \in dialed} \cap 0 .. ResetAfter - 1
    /\ UNCHANGED <<limits, pc, alive, delay>>

Limiter == Pass \/ Refuse \/ Retry \/ Abandon

Loop == Dial \/ TakeLabel \/ Break \/ Wake \/ Leave

Next == Limiter \/ Loop \/ Cancel \/ Tick

Spec == Init /\ [][Next]_vars

\* The goroutine runs, and a frame ends once the cancellation has closed its
\* connection.  Nothing here makes the clock tick.
FairSpec ==
    /\ Spec
    /\ WF_vars(Limiter)
    /\ WF_vars(Dial) /\ WF_vars(Wake) /\ WF_vars(Leave)
    /\ SF_vars(Break /\ ~alive)

-----------------------------------------------------------------------------
(* Correctness *)

Window == [prev : Nat, curr : Nat]

PaceTypeOK ==
    /\ limits \in LimitConfig
    /\ phase \in 0 .. HourTicks - 1
    /\ second \in Window /\ hour \in Window
    /\ pc \in {"top", "open", "wait", "pause", "sleep", "gone"}
    /\ alive \in BOOLEAN
    /\ lasted \in 0 .. ResetAfter
    /\ delay \in {0} \cup InitialDelay .. MaxDelay
    /\ left \in 0 .. MaxDelay
    /\ recent \in [0 .. SecondTicks - 1 -> Nat]
    /\ passed \in Nat
    /\ dialed \subseteq 0 .. ResetAfter - 1

\* The labels of the last SecondTicks ticks, wherever they begin.
LastSecond == LET f[age \in 0 .. SecondTicks - 1] == recent[age] + (IF age = 0 THEN 0 ELSE f[age - 1])
              IN f[SecondTicks - 1]

HourBudget == passed <= limits.hour

SecondBudget == LastSecond <= 2 * limits.sec

\* AC7.1: in an hour, as the limiter's windows divide time, no more labels pass than
\* the larger budget, and in any second, even one that begins in the middle of a window,
\* no more than twice the smaller one, over all connections of the subscription.
BudgetIsKept == HourBudget /\ SecondBudget

\* The permits wasted by a refusal are those of the second ("the per-second token
\* is silently wasted"), never those of the hour: each of these let a label pass.
HourIsNotWasted == hour.curr = passed

\* InitialDelay doubled with every dial after the first, up to MaxDelay.
Doubled[dials \in 1 .. ResetAfter] ==
    IF dials = 1 THEN InitialDelay ELSE Lesser(2 * Doubled[dials - 1], MaxDelay)

\* However connections come and go, the delay doubles with every dial of the last
\* ResetAfter ticks: no upstream that accepts and drops is dialed in a hot loop.
PatienceGrows == pc = "sleep" /\ dialed # {} => delay >= Doubled[Cardinality(dialed)]

\* A label that waits passes or is given up, though its own polls waste permits,
\* as long as the clock ticks.
WaitEnds == []<><<Tick>>_vars => (pc = "wait" ~> pc \notin {"wait", "pause"})

\* A cancelled subscription ends wherever it stands, throttled or asleep, even if
\* no window moved on and no sleep ended any more: Shutdown waits for it.
CancelEnds == ~alive ~> pc = "gone"
=============================================================================
