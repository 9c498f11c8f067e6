------------------------------ MODULE Limiters ------------------------------
(***************************************************************************)
(* Zyrnix::RateLimiter, SamplingLimiter and CombinedLimiter                *)
(* (rate_limiter.cpp).  Tokens are counted in thousandths and time in      *)
(* fractions of a millisecond, of which the code sees the whole ones.      *)
(* A combined call is three atomic steps, and so is a reset of it.         *)
(***************************************************************************)
EXTENDS Integers, FiniteSets

CONSTANTS Callers,
          RefillRate,     \* messages_per_second
          BurstCapacity,  \* burst_capacity
          SampleRates,    \* the values of sample_rate
          Fraction,       \* ticks of the clock in a millisecond
          MaxTicks, MaxAsked, MaxResets   \* bounds

ASSUME RatesAssumption == RefillRate \in Nat /\ BurstCapacity \in Nat /\ SampleRates \subseteq Nat
ASSUME FractionAssumption == Fraction \in Nat \ {0}
ASSUME LimiterBoundsAssumption == {MaxTicks, MaxAsked, MaxResets} \subseteq Nat

VARIABLES sampleRate,   \* sample_rate_
          tokens, lastRefill, rateDropped,  \* of the rate limiter
          counter,      \* of the sampling limiter
          passed,       \* logged_count_
          now,
          asking,       \* per caller: the next step of should_log or reset
          asked, resets,
          gained,       \* thousandths added since the last reset, capped or not
          admitted,     \* by the rate limiter since its last reset
          resetAt,
          disturbed     \* a reset has overlapped another call

limiterVars == <<sampleRate, tokens, lastRefill, rateDropped, counter, passed, now, asking,
                 asked, resets, gained, admitted, resetAt, disturbed>>

MaxTokens == 1000 * (IF BurstCapacity > 0 THEN BurstCapacity ELSE RefillRate)
Samples == sampleRate > 1
Least(a, b) == IF a < b THEN a ELSE b

LimiterInit ==
    /\ sampleRate \in {IF r > 0 THEN r ELSE 1 : r \in SampleRates}
    /\ tokens = MaxTokens /\ lastRefill = 0 /\ rateDropped = 0 /\ counter = 0 /\ passed = 0
    /\ now = 0 /\ asking = [c \in Callers |-> "idle"] /\ asked = 0 /\ resets = 0
    /\ gained = 0 /\ admitted = 0 /\ resetAt = 0 /\ disturbed = FALSE

LimiterTick ==
    /\ now < MaxTicks /\ now' = now + 1
    /\ UNCHANGED <<sampleRate, tokens, lastRefill, rateDropped, counter, passed, asking, asked,
                   resets, gained, admitted, resetAt, disturbed>>

NextStep(c, from, to) == asking[c] = from /\ asking' = [asking EXCEPT ![c] = to]
Resetting == \E c \in Callers : asking[c] \in {"sampling reset", "count reset"}

\* SamplingLimiter::should_log; without sampling it does not even count.
Sample(c) ==
    /\ asked < MaxAsked /\ asked' = asked + 1
    /\ counter' = IF Samples THEN counter + 1 ELSE counter
    /\ NextStep(c, "idle", IF Samples /\ counter % sampleRate # 0 THEN "idle" ELSE "rate")
    /\ disturbed' = (disturbed \/ Resetting)
    /\ UNCHANGED <<sampleRate, tokens, lastRefill, rateDropped, passed, now, resets, gained,
                   admitted, resetAt>>

Milliseconds == (now - lastRefill) \div Fraction

Capped(n) == Least(n, MaxTokens)

FaultyRefilled ==    \* the clock is taken anew at every call
    /\ lastRefill' = now
    /\ gained' = gained + RefillRate * Milliseconds

\* refill_tokens; the fraction of a millisecond is lost, but not before a whole one is over.
Refilled ==
    IF Milliseconds > 0 THEN lastRefill' = now /\ gained' = gained + RefillRate * Milliseconds
    ELSE UNCHANGED <<lastRefill, gained>>

\* RateLimiter::try_log, under its mutex.
TryLog(c) ==
    LET filled == Capped(tokens + RefillRate * Milliseconds)
    IN  /\ IF MaxTokens = 0 THEN UNCHANGED <<lastRefill, gained>> ELSE Refilled
        /\ \/ /\ filled >= 1000 /\ NextStep(c, "rate", "count")
              /\ tokens' = filled - 1000 /\ admitted' = admitted + 1 /\ UNCHANGED rateDropped
           \/ /\ filled < 1000 /\ MaxTokens > 0 /\ NextStep(c, "rate", "idle")
              /\ tokens' = filled /\ rateDropped' = rateDropped + 1 /\ UNCHANGED admitted
           \/ /\ MaxTokens = 0 /\ NextStep(c, "rate", "count")
              /\ UNCHANGED <<tokens, admitted, rateDropped>>
        /\ UNCHANGED <<sampleRate, counter, passed, now, asked, resets, resetAt, disturbed>>

CountLogged(c) ==
    /\ NextStep(c, "count", "idle")
    /\ passed' = passed + 1
    /\ UNCHANGED <<sampleRate, tokens, lastRefill, rateDropped, counter, now, asked, resets,
                   gained, admitted, resetAt, disturbed>>

ResetRate(c) ==
    /\ resets < MaxResets /\ resets' = resets + 1
    /\ NextStep(c, "idle", "sampling reset")
    /\ tokens' = MaxTokens /\ rateDropped' = 0 /\ lastRefill' = now
    /\ gained' = 0 /\ admitted' = 0 /\ resetAt' = now
    /\ disturbed' = \E d \in Callers \ {c} : asking[d] # "idle"
    /\ UNCHANGED <<sampleRate, counter, passed, now, asked>>

ResetSampling(c) ==
    /\ NextStep(c, "sampling reset", "count reset") /\ counter' = 0
    /\ UNCHANGED <<sampleRate, tokens, lastRefill, rateDropped, passed, now, asked, resets,
                   gained, admitted, resetAt, disturbed>>

ResetCount(c) ==
    /\ NextStep(c, "count reset", "idle") /\ passed' = 0
    /\ asked' = IF disturbed THEN asked ELSE 0
    /\ UNCHANGED <<sampleRate, tokens, lastRefill, rateDropped, counter, now, resets,
                   gained, admitted, resetAt, disturbed>>

LimiterNext ==
    \/ LimiterTick
    \/ \E c \in Callers : \/ Sample(c) \/ TryLog(c) \/ CountLogged(c)
                          \/ ResetRate(c) \/ ResetSampling(c) \/ ResetCount(c)

LimiterSpec == LimiterInit /\ [][LimiterNext]_limiterVars

-----------------------------------------------------------------------------
(* Properties.                                                             *)

LimiterTypeOK ==
    /\ {sampleRate, lastRefill, rateDropped, counter, passed, now, asked, gained} \subseteq Nat
    /\ tokens \in 0..MaxTokens
    /\ asking \in [Callers -> {"idle", "rate", "count", "sampling reset", "count reset"}]

\* Over any time since a reset no more messages are admitted than the burst and
\* the rate allow, and the tokens left come on top: no interleaving of calls
\* spends a token twice and no time is counted twice.
RateBounded ==
    Fraction * (1000 * admitted + tokens) <= Fraction * MaxTokens + RefillRate * (now - resetAt)

\* However often it is asked, at least half of the rate is kept: what refilling
\* loses of the time is never more than what it counts.
HalfRateKept == 2 * Fraction * gained >= RefillRate * (lastRefill - resetAt)

SamplingDrops == IF Samples THEN counter - counter \div sampleRate ELSE 0

\* With nobody calling, get_stats accounts for every message: the outcomes add
\* up to the messages, or to one more within a sample, where the formula of
\* dropped_count counts the message that was let through as dropped.  Without
\* sampling the total stays zero, and the outcomes are those of all calls.
StatsAddUp ==
    (\A c \in Callers : asking[c] = "idle") /\ ~disturbed =>
        /\ passed + rateDropped + SamplingDrops =
               asked + (IF Samples /\ counter % sampleRate # 0 THEN 1 ELSE 0)
        /\ counter = IF Samples THEN asked ELSE 0

\* The rate is neither exceeded nor starved, and the statistics account for it.
LimiterInv == LimiterTypeOK /\ RateBounded /\ HalfRateKept /\ StatsAddUp
=============================================================================
