---------------------------- MODULE HealthChecker ----------------------------
(***************************************************************************)
(* Zyrnix::HealthChecker (log_health.cpp): the status that follows from a  *)
(* snapshot of a logger's metrics and the thresholds of a configuration.   *)
(* Rates are compared in percent, without division.                        *)
(***************************************************************************)
EXTENDS Integers

CONSTANTS DropHealthy, DropDegraded,        \* HealthCheckConfig, in percent
          ErrorHealthy, ErrorDegraded,
          LatencyHealthy, LatencyDegraded,  \* in microseconds
          UsageHealthy, UsageDegraded,      \* in percent
          QueueCapacity

ASSUME ThresholdsAssumption ==
    {DropHealthy, DropDegraded, ErrorHealthy, ErrorDegraded, LatencyHealthy,
     LatencyDegraded, UsageHealthy, UsageDegraded, QueueCapacity} \subseteq Nat

Statuses == {"healthy", "degraded", "unhealthy"}
Rank(status) == CASE status = "healthy" -> 0 [] status = "degraded" -> 1 [] OTHER -> 2

\* part / whole > percent / 100; a rate of nothing is 0.
Exceeds(part, whole, percent) == whole > 0 /\ 100 * part > percent * whole

\* determine_status for a snapshot s.
DetermineStatus(s) ==
    LET Beyond(drop, error, latency, usage) ==
            \/ Exceeds(s.dropped, s.logged + s.dropped, drop)
            \/ Exceeds(s.errors, s.logged, error)
            \/ s.maxLog > latency
            \/ Exceeds(s.depth, QueueCapacity, usage)
    IN  IF Beyond(DropDegraded, ErrorDegraded, LatencyDegraded, UsageDegraded) THEN "unhealthy"
        ELSE IF Beyond(DropHealthy, ErrorHealthy, LatencyHealthy, UsageHealthy) THEN "degraded"
        ELSE "healthy"

\* check_metrics: the two warnings, which the thresholds of the degraded state
\* set off, beside the status.
CheckMetrics(s) ==
    [status |-> DetermineStatus(s),
     queueFull |-> QueueCapacity > 0 /\ 100 * s.depth >= UsageDegraded * QueueCapacity,
     slow |-> s.maxLog >= LatencyDegraded]
==============================================================================
