---------------------------- MODULE RateLimiter ----------------------------
(***************************************************************************)
(* FixedWindowRateLimiter of src/src/sky_rate_limit.cc, with which         *)
(* sky_request_init (src/src/sky_module.cc:134) picks the requests that    *)
(* are not traced.  Each PHP process has a copy of its own, made by the    *)
(* fork, and calls it from one thread: config.m4:6-8 refuses a thread-safe *)
(* PHP.  validate reads the clock up to three times, and time goes on      *)
(* between its steps, for the process may be descheduled at any of them.   *)
(* The limiter is not among the files that config.m4 builds.               *)
(***************************************************************************)
EXTENDS Integers

CONSTANTS
    Rates,             \* values of skywalking.sample_n_per_3_secs
    Seconds,           \* the constructor's second argument, 3 by default
    TicksPerSecond,    \* resolution of steady_clock
    MaxTime,           \* bound on the clock
    MaxValidations,    \* bound on the calls
    MaxSpurious        \* bound on the failures of a weak compare-exchange

ASSUME RateLimiterAssumption ==
    /\ Rates \subseteq Int /\ Seconds \in Int
    /\ TicksPerSecond \in Nat \ {0}
    /\ {MaxTime, MaxValidations, MaxSpurious} \subseteq Nat

VARIABLES
    now,               \* steady_clock, 0 when the limiter is made
    rate, startTime, currentCount, resetLock,
    pc, begun, elapsed,   \* validate: its next step, its first reading, its `span'
    answer,            \* what the last call returned
    validations,       \* calls so far
    spurious,          \* history: spurious failures so far
    passed,            \* history: requests let through in the window of begun ...
    atEdge             \* ... and those let through at its very first instant

limiter == <<rate, startTime, currentCount, resetLock>>
validation == <<pc, begun, elapsed, answer, validations>>
limiterHistory == <<passed, atEdge, spurious>>
limiterVars == <<now, limiter, validation, limiterHistory>>

\* The constructor: a window has one second at least.
TimeWindow == IF Seconds < 1 THEN 1 ELSE Seconds
WindowLength == TimeWindow * TicksPerSecond

\* The windows as the clock has them.
Window(t) == t \div WindowLength

LimiterInit ==
    /\ rate \in Rates
    /\ now = 0 /\ startTime = 0
    /\ currentCount = 0 /\ resetLock = FALSE
    /\ pc = "idle" /\ begun = 0 /\ elapsed = 0 /\ answer = "none"
    /\ validations = 0 /\ spurious = 0 /\ passed = 0 /\ atEdge = 0

\* Bound: the clock stops at MaxTime.
Tick ==
    /\ now < MaxTime
    /\ now' = now + 1
    /\ UNCHANGED <<limiter, validation, limiterHistory>>

-----------------------------------------------------------------------------
\* A call that began at t ends with true.
LetThrough(t) ==
    LET edge == t > 0 /\ t % WindowLength = 0
    IN  /\ answer' = "true"
        /\ passed' = IF edge THEN passed ELSE passed + 1
        /\ atEdge' = IF edge THEN atEdge + 1 ELSE atEdge

\* validate is called.
Validate ==
    /\ pc = "idle" /\ validations < MaxValidations
    /\ validations' = validations + 1
    /\ begun' = now
    /\ elapsed' = now - startTime
    /\ pc' = IF rate < 1 THEN "unlimited"
             ELSE IF elapsed' > WindowLength THEN "exchange" ELSE "count"
    /\ IF Window(now) = Window(begun)
       THEN UNCHANGED <<passed, atEdge>>
       ELSE passed' = 0 /\ atEdge' = 0
    /\ UNCHANGED <<now, limiter, answer, spurious>>

\* Without a rate everything passes.
Unlimited ==
    /\ pc = "unlimited"
    /\ pc' = "idle"
    /\ LetThrough(begun)
    /\ UNCHANGED <<now, limiter, begun, elapsed, validations, spurious>>

\* resetLock.compare_exchange_weak(false, true)
ExchangeOk ==
    /\ pc = "exchange" /\ ~resetLock
    /\ resetLock' = TRUE
    /\ pc' = "check"
    /\ UNCHANGED <<now, rate, startTime, currentCount, begun, elapsed, answer, validations, limiterHistory>>

ExchangeFails ==
    /\ pc = "exchange"
    /\ resetLock \/ spurious < MaxSpurious
    /\ spurious' = IF resetLock THEN spurious ELSE spurious + 1
    /\ pc' = "count"
    /\ UNCHANGED <<now, limiter, begun, elapsed, answer, validations, passed, atEdge>>

\* The clock is read a second time.  If the window were not over after all, the
\* lock would never be given back; a steady clock in one thread spares it that.
CheckAgain ==
    /\ pc = "check"
    /\ pc' = IF now - startTime > WindowLength THEN "reset" ELSE "count"
    /\ UNCHANGED <<now, limiter, begun, elapsed, answer, validations, limiterHistory>>

\* Mutant of TimeSpan: the new window begins at the last full second.
FullSeconds == (elapsed \div TicksPerSecond) * TicksPerSecond

\* Whole windows that have passed at the first reading, in ticks.
TimeSpan ==
    LET seconds == elapsed \div TicksPerSecond
    IN  (seconds - (seconds % TimeWindow)) * TicksPerSecond

\* Mutant of Reset: the new window keeps the count.
ResetKeepsCount ==
    /\ pc = "reset"
    /\ startTime' = startTime + TimeSpan
    /\ elapsed' = now - startTime'
    /\ resetLock' = FALSE
    /\ pc' = "count"
    /\ UNCHANGED <<now, rate, currentCount, begun, answer, validations, limiterHistory>>

Reset ==
    /\ pc = "reset"
    /\ startTime' = startTime + TimeSpan
    /\ elapsed' = now - startTime'
    /\ currentCount' = 0
    /\ resetLock' = FALSE
    /\ pc' = "count"
    /\ UNCHANGED <<now, rate, begun, answer, validations, limiterHistory>>

\* ++currentCount > rate && span < timeWindow
Count ==
    /\ pc = "count"
    /\ currentCount' = currentCount + 1
    /\ pc' = "idle"
    /\ IF currentCount' > rate /\ elapsed < WindowLength
       THEN answer' = "false" /\ UNCHANGED <<passed, atEdge>>
       ELSE LetThrough(begun)
    /\ UNCHANGED <<now, rate, startTime, resetLock, begun, elapsed, validations, spurious>>

LimiterNext ==
    Tick \/ Validate \/ Unlimited \/ ExchangeOk \/ ExchangeFails \/ CheckAgain
         \/ Reset \/ Count

LimiterSpec == LimiterInit /\ [][LimiterNext]_limiterVars

-----------------------------------------------------------------------------
LimiterTypeOK ==
    /\ rate \in Rates
    /\ now \in 0..MaxTime /\ startTime \in 0..MaxTime
    /\ resetLock \in BOOLEAN
    /\ pc \in {"idle", "exchange", "check", "reset", "count", "unlimited"}
    /\ begun \in 0..MaxTime /\ elapsed \in 0..MaxTime
    /\ answer \in {"none", "true", "false"}
    /\ spurious \in 0..MaxSpurious
    /\ validations \in 0..MaxValidations /\ {currentCount, passed, atEdge} \subseteq 0..validations

\* Seen from outside, by the clock alone: between two multiples of the window
\* no more than rate requests are let through, one more for each spurious
\* failure, wherever the process was held up between the readings of the
\* clock and however many windows went by without a request
\* (sky_rate_limit.cc:36-62).  The multiple itself belongs to neither window:
\* there the age is neither more nor less than the window (lines 44, 57), and
\* every request passes.
LimitKept ==
    rate >= 1 => passed <= rate + spurious

\* A request is refused only when rate others were let through in its own
\* window before it: no count of an earlier window is held against it, after
\* any pause (sky_rate_limit.cc:48-53).
RefusedOnlyWhenUsedUp ==
    [][pc = "count" /\ pc' = "idle" /\ answer' = "false" => passed + atEdge >= rate]_limiterVars
=============================================================================
