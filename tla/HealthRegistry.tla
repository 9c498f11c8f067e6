--------------------------- MODULE HealthRegistry ---------------------------
(***************************************************************************)
(* Zyrnix::HealthRegistry (log_health.cpp): loggers registered under names *)
(* by weak pointers, by hand or by the factories of Logger, and the checks *)
(* of one or of all of them.  Every operation is one section under the     *)
(* registry's mutex, but for the factories, which test the flag of         *)
(* automatic registration first, and export_json, which checks all loggers *)
(* twice.  What MetricsRegistry has recorded of a logger is kept under its *)
(* name beside this registry, which never reads it.                        *)
(***************************************************************************)
EXTENDS HealthChecker

CONSTANTS Users,       \* threads
          LoggerNames,
          Loggers,     \* objects
          Nobody,
          MaxRecorded  \* bound on each counter of a logger

ASSUME NobodyAssumption == Nobody \notin Loggers
ASSUME MaxRecordedAssumption == MaxRecorded \in Nat

VARIABLES entries,     \* loggers_: name to logger, custom checker and error
          owned,       \* loggers that somebody has a shared_ptr to
          automatic,   \* auto_registration_enabled_
          callbacks,   \* some callback is registered
          recorded,    \* MetricsRegistry: the metrics of a name
          user         \* per thread: the factory or export it is in

registryVars == <<entries, owned, automatic, callbacks, recorded, user>>

NoEntry == [logger |-> Nobody, custom |-> FALSE, error |-> FALSE]
Entry(o, custom) == [NoEntry EXCEPT !.logger = o, !.custom = custom]
NewMetrics == [logged |-> 0, dropped |-> 0, errors |-> 0, maxLog |-> 0, depth |-> 0]
Outside == [pc |-> "out", name |-> "none", logger |-> Nobody, listed |-> {}, overall |-> "healthy"]

RegistryInit ==
    /\ entries = [n \in LoggerNames |-> NoEntry]
    /\ owned = {} /\ automatic = FALSE /\ callbacks = FALSE
    /\ recorded = [n \in LoggerNames |-> NewMetrics]
    /\ user = [u \in Users |-> Outside]

Registered(n) == entries[n].logger # Nobody

-----------------------------------------------------------------------------
(* Loggers come and go.  An object is a new one when nobody refers to it.  *)

Unused(o) == o \notin owned /\ \A n \in LoggerNames : entries[n].logger # o

\* create_stdout_logger and create_async, as far as the test of the flag.
Create(u, n, o) ==
    /\ user[u].pc = "out" /\ Unused(o)
    /\ owned' = owned \cup {o}
    /\ user' = [user EXCEPT ![u] = IF automatic
                                   THEN [Outside EXCEPT !.pc = "register", !.name = n, !.logger = o]
                                   ELSE Outside]
    /\ UNCHANGED <<entries, automatic, callbacks, recorded>>

AutoRegister(u) ==
    /\ user[u].pc = "register"
    /\ entries' = [entries EXCEPT ![user[u].name] = Entry(user[u].logger, FALSE)]
    /\ user' = [user EXCEPT ![u] = Outside]
    /\ UNCHANGED <<owned, automatic, callbacks, recorded>>

\* The last owner lets go; the registry's weak pointer expires.
Release(o) ==
    /\ o \in owned /\ \A u \in Users : user[u].logger # o
    /\ owned' = owned \ {o}
    /\ UNCHANGED <<entries, automatic, callbacks, recorded, user>>

-----------------------------------------------------------------------------
(* Registration.                                                           *)

\* Both register_logger: what was recorded under the name is forgotten.
Register(n, o, custom) ==
    /\ o \in owned
    /\ entries' = [entries EXCEPT ![n] = Entry(o, custom)]
    /\ UNCHANGED <<owned, automatic, callbacks, recorded, user>>

Unregister(n) ==
    /\ entries' = [entries EXCEPT ![n] = NoEntry]
    /\ UNCHANGED <<owned, automatic, callbacks, recorded, user>>

SetLoggerConfig(n) ==
    /\ Registered(n)
    /\ entries' = [entries EXCEPT ![n].custom = TRUE]
    /\ UNCHANGED <<owned, automatic, callbacks, recorded, user>>

RecordError(n) ==
    /\ Registered(n)
    /\ entries' = [entries EXCEPT ![n].error = TRUE]
    /\ UNCHANGED <<owned, automatic, callbacks, recorded, user>>

EnableAutoRegistration(on) ==
    /\ automatic' = on
    /\ UNCHANGED <<entries, owned, callbacks, recorded, user>>

\* register_state_change_callback and clear_state_change_callbacks.  Nothing
\* calls notify_state_change, which would call the callbacks.
SetCallbacks(some) ==
    /\ callbacks' = some
    /\ UNCHANGED <<entries, owned, automatic, recorded, user>>

\* MetricsRegistry's get_logger_metrics(n)->record_...
RecordMetric(n, counter) ==
    /\ recorded[n][counter] < MaxRecorded
    /\ recorded' = [recorded EXCEPT ![n][counter] = @ + 1]
    /\ UNCHANGED <<entries, owned, automatic, callbacks, user>>

-----------------------------------------------------------------------------
(* Checks.  A logger is checked with metrics made for the check, not with  *)
(* those of MetricsRegistry.                                               *)

LiveStatus == DetermineStatus(NewMetrics)

\* check_logger
StatusOf(n) ==
    IF Registered(n) /\ entries[n].logger \in owned THEN LiveStatus ELSE "unhealthy"

\* check_all leaves out a logger that has expired.
Checked == {n \in LoggerNames : entries[n].logger \in owned}
CheckAll == {[name |-> n, status |-> StatusOf(n)] : n \in Checked}

\* get_overall_status, and the overall status of check_all_aggregate.
Worst(results) ==
    IF \E r \in results : r.status = "unhealthy" THEN "unhealthy"
    ELSE IF \E r \in results : r.status = "degraded" THEN "degraded"
    ELSE "healthy"

ExportList(u) ==
    /\ user[u].pc = "out"
    /\ user' = [user EXCEPT ![u].pc = "listed", ![u].listed = CheckAll]
    /\ UNCHANGED <<entries, owned, automatic, callbacks, recorded>>

ExportOverall(u) ==
    /\ user[u].pc = "listed"
    /\ user' = [user EXCEPT ![u].pc = "exported", ![u].overall = Worst(CheckAll)]
    /\ UNCHANGED <<entries, owned, automatic, callbacks, recorded>>

ExportReturn(u) ==
    /\ user[u].pc = "exported"
    /\ user' = [user EXCEPT ![u] = Outside]
    /\ UNCHANGED <<entries, owned, automatic, callbacks, recorded>>

-----------------------------------------------------------------------------
RegistryNext ==
    \/ \E u \in Users :
          \/ AutoRegister(u) \/ ExportList(u) \/ ExportOverall(u) \/ ExportReturn(u)
          \/ \E n \in LoggerNames, o \in Loggers : Create(u, n, o)
    \/ \E o \in Loggers : Release(o)
    \/ \E n \in LoggerNames :
          \/ Unregister(n) \/ SetLoggerConfig(n) \/ RecordError(n)
          \/ \E counter \in {"logged", "dropped", "errors"} : RecordMetric(n, counter)
    \/ \E n \in LoggerNames, o \in Loggers, custom \in BOOLEAN : Register(n, o, custom)
    \/ \E b \in BOOLEAN : EnableAutoRegistration(b) \/ SetCallbacks(b)

RegistrySpec == RegistryInit /\ [][RegistryNext]_registryVars

-----------------------------------------------------------------------------
(* Properties.                                                             *)

\* docs/v1.1.1_FEATURES.md:331 answers a request with check_logger(name), and
\* lines 340-343 show the answer: the messages logged and dropped and the errors
\* of the logger.  The status of a live logger is that of its metrics.
TroubleReported ==
    \A n \in LoggerNames : entries[n].logger \in owned => StatusOf(n) = DetermineStatus(recorded[n])
=============================================================================
