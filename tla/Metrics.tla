------------------------------- MODULE Metrics -------------------------------
(***************************************************************************)
(* Zyrnix::LogMetrics (log_metrics.cpp) and a health check of it: counters *)
(* and maxima that every thread updates without a lock, a reset that       *)
(* stores them one by one, and snapshots that load them one by one.        *)
(***************************************************************************)
EXTENDS HealthChecker, Sequences

CONSTANTS Threads,
          Counted,      \* the counters the program uses
          Peaks,        \* the maxima the program uses
          Amounts,      \* durations and queue depths
          MaxMetricCalls,   \* bound on the calls
          NoThread

Counters == {"logged", "dropped", "filtered", "flushes", "errors"}

\* The two fields of record_log_duration, record_flush_duration and
\* update_queue_depth: what is added to or stored, and its maximum.
Gauge(peak) == CASE peak = "maxLog" -> "logTime" [] peak = "maxFlush" -> "flushTime"
                 [] peak = "maxDepth" -> "depth"

ASSUME CountedAssumption == Counted \subseteq Counters
ASSUME PeaksAssumption == Peaks \subseteq {"maxLog", "maxFlush", "maxDepth"}
ASSUME AmountsAssumption == Amounts \subseteq Nat /\ MaxMetricCalls \in Nat
ASSUME NoThreadAssumption == NoThread \notin Threads

VARIABLES value,      \* the atomics
          metric,     \* per thread: the call in progress and its locals
          resetting,  \* who holds the mutex of reset, or NoThread
          begun,       \* calls begun
          peak,       \* the largest amount of each maximum since the last reset
          mixed       \* a reset has overlapped an update of a maximum

metricGhosts == <<peak, mixed>>
metricVars == <<value, metric, resetting, begun, metricGhosts>>

Fields == Counters \cup {"logTime", "flushTime", "maxLog", "maxFlush", "depth", "maxDepth"}

\* get_snapshot loads and reset stores in this order; of what the averages are
\* made of the snapshot loads "logged" and "flushes" a second time, for itself.
FieldOrder == <<"logged", "dropped", "filtered", "flushes", "errors", "logTime", "flushTime",
                "maxLog", "maxFlush", "depth", "maxDepth">>

Zero == [f \in Fields |-> 0]

\* floor is the status at the moment the snapshot loads "logged"; mixed says
\* that a reset has overlapped the snapshot.
NoMetricCall == [pc |-> "idle", peak |-> "none", amount |-> 0, seen |-> 0, next |-> 0,
                 snapshot |-> Zero, floor |-> "healthy", mixed |-> FALSE]

MetricInit ==
    /\ value = Zero
    /\ metric = [t \in Threads |-> NoMetricCall]
    /\ resetting = NoThread /\ begun = 0
    /\ peak = Zero /\ mixed = FALSE

Starts(t) == metric[t].pc = "idle" /\ begun < MaxMetricCalls /\ begun' = begun + 1
Larger(a, b) == IF a < b THEN b ELSE a

-----------------------------------------------------------------------------
(* Recording.                                                              *)

\* record_message_logged and its like.
RecordMessage(t, counter) ==
    /\ Starts(t)
    /\ value' = [value EXCEPT ![counter] = @ + 1]
    /\ UNCHANGED <<metric, resetting, metricGhosts>>

RecordAmount(t, p, n) ==
    /\ Starts(t)
    /\ value' = [value EXCEPT ![Gauge(p)] = IF p = "maxDepth" THEN n ELSE @ + n]
    /\ metric' = [metric EXCEPT ![t].pc = "load", ![t].peak = p, ![t].amount = n]
    /\ peak' = [peak EXCEPT ![p] = Larger(@, n)]
    /\ mixed' = (mixed \/ resetting # NoThread)
    /\ UNCHANGED resetting

\* The loop goes on while the amount is above the maximum last seen.
Seen(t) ==
    LET now == value[metric[t].peak]
    IN  metric' = [metric EXCEPT ![t] = IF metric[t].amount > now
                                        THEN [@ EXCEPT !.pc = "exchange", !.seen = now]
                                        ELSE NoMetricCall]

LoadPeak(t) ==
    /\ metric[t].pc = "load" /\ Seen(t)
    /\ UNCHANGED <<value, resetting, begun, metricGhosts>>

FaultyExchange(t) ==    \* a store in place of the exchange
    /\ metric[t].pc = "exchange"
    /\ value' = [value EXCEPT ![metric[t].peak] = metric[t].amount]
    /\ metric' = [metric EXCEPT ![t] = NoMetricCall]
    /\ UNCHANGED <<resetting, begun, metricGhosts>>

Exchange(t) ==
    /\ metric[t].pc = "exchange" /\ value[metric[t].peak] = metric[t].seen
    /\ value' = [value EXCEPT ![metric[t].peak] = metric[t].amount]
    /\ metric' = [metric EXCEPT ![t] = NoMetricCall]
    /\ UNCHANGED <<resetting, begun, metricGhosts>>

\* The weak exchange may also fail for no reason.
ExchangeFails(t) ==
    /\ metric[t].pc = "exchange" /\ Seen(t)
    /\ UNCHANGED <<value, resetting, begun, metricGhosts>>

-----------------------------------------------------------------------------
(* reset and get_snapshot.                                                 *)

Updating == \E t \in Threads : metric[t].pc \in {"load", "exchange"}

CanReset == resetting = NoThread

Reset(t) ==
    /\ Starts(t) /\ CanReset
    /\ resetting' = t
    /\ metric' = [u \in Threads |->
                     IF u = t THEN [NoMetricCall EXCEPT !.pc = "reset", !.next = 1]
                     ELSE [metric[u] EXCEPT !.mixed = TRUE]]
    /\ peak' = Zero /\ mixed' = (mixed \/ Updating)
    /\ UNCHANGED value

ResetField(t) ==
    /\ metric[t].pc = "reset"
    /\ LET i == metric[t].next
       IN  IF i <= Len(FieldOrder)
           THEN /\ value' = [value EXCEPT ![FieldOrder[i]] = 0]
                /\ metric' = [metric EXCEPT ![t].next = i + 1]
                /\ UNCHANGED resetting
           ELSE /\ metric' = [metric EXCEPT ![t] = NoMetricCall] /\ resetting' = NoThread
                /\ UNCHANGED value
    /\ UNCHANGED <<begun, metricGhosts>>

CheckCall(t) ==
    /\ Starts(t)
    /\ metric' = [metric EXCEPT ![t] = [NoMetricCall EXCEPT !.pc = "read", !.next = 1,
                                                            !.mixed = resetting # NoThread]]
    /\ UNCHANGED <<value, resetting, metricGhosts>>

ReadField(t) ==
    /\ metric[t].pc = "read" /\ metric[t].next <= Len(FieldOrder)
    /\ LET f == FieldOrder[metric[t].next]
       IN  metric' = [metric EXCEPT ![t].next = @ + 1, ![t].snapshot[f] = value[f],
                        ![t].floor = IF f = "logged" THEN DetermineStatus([value EXCEPT !.depth = 0])
                                     ELSE @]
    /\ UNCHANGED <<value, resetting, begun, metricGhosts>>

Status(t) == CheckMetrics(metric[t].snapshot)

\* The snapshot is complete; check_metrics returns its status.
CheckDone(t) == metric[t].pc = "read" /\ metric[t].next > Len(FieldOrder)

CheckReturn(t) ==
    /\ CheckDone(t)
    /\ metric' = [metric EXCEPT ![t] = NoMetricCall]
    /\ UNCHANGED <<value, resetting, begun, metricGhosts>>

-----------------------------------------------------------------------------
MetricStep(t) == LoadPeak(t) \/ Exchange(t) \/ ExchangeFails(t) \/ ResetField(t)
                 \/ ReadField(t) \/ CheckReturn(t)

MetricNext == \E t \in Threads :
    \/ MetricStep(t) \/ Reset(t) \/ CheckCall(t)
    \/ \E c \in Counted : RecordMessage(t, c)
    \/ \E p \in Peaks, n \in Amounts : RecordAmount(t, p, n)

MetricSpec == MetricInit /\ [][MetricNext]_metricVars

-----------------------------------------------------------------------------
(* Properties.                                                             *)

MetricTypeOK ==
    /\ value \in [Fields -> Nat] /\ peak \in [Fields -> Nat]
    /\ metric \in [Threads -> [pc : {"idle", "load", "exchange", "reset", "read"},
                               peak : Peaks \cup {"none"}, amount : Amounts \cup {0}, seen : Nat,
                               next : 0..(Len(FieldOrder) + 1), snapshot : [Fields -> Nat],
                               floor : Statuses, mixed : BOOLEAN]]
    /\ resetting \in Threads \cup {NoThread} /\ mixed \in BOOLEAN
    /\ begun \in 0..MaxMetricCalls
    /\ \A t \in Threads : resetting = t <=> metric[t].pc = "reset"

\* Once no update is under way a maximum is exactly the largest amount since
\* the last reset, whatever the order of loads and exchanges, unless a reset
\* has overlapped an update.
MaximaExact ==
    ~mixed /\ ~Updating /\ resetting = NoThread => \A p \in Peaks : value[p] = peak[p]

\* A check misses no alarm although it loads the fields one by one: unless a
\* reset overlaps it, its status is at least as bad as the one that drops,
\* errors and latency meant when it began to load.
NoMissedAlarm ==
    \A t \in Threads : CheckDone(t) /\ ~metric[t].mixed =>
        Rank(Status(t).status) >= Rank(metric[t].floor)

\* Maxima and checks are right although nothing but atomics protects them.
MetricInv == MetricTypeOK /\ MaximaExact /\ NoMissedAlarm
==============================================================================
