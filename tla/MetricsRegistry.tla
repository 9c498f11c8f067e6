--------------------------- MODULE MetricsRegistry ---------------------------
(***************************************************************************)
(* Zyrnix::MetricsRegistry and SinkMetrics (log_metrics.cpp): the metrics  *)
(* of loggers and sinks by name, made at the first request, recorded by    *)
(* whoever holds them, exported and reset all together.  The registry's    *)
(* mutex guards its two maps and lasts as long as an export or a reset;    *)
(* recording goes on meanwhile.                                            *)
(*                                                                         *)
(* "count" stands for writes_ and messages_logged, "time" for the total    *)
(* that goes with it, "errors" for the other counters of one increment.    *)
(* Atomics take effect in the order of the program, as they do on x86.     *)
(***************************************************************************)
EXTENDS Naturals, Sequences, FiniteSets, SequencesExt

CONSTANTS Clients,
          MetricNames,
          Longest,         \* the longest duration
          MaxTableCalls    \* bound on the calls

ASSUME TableBoundsAssumption == Longest \in Nat /\ MaxTableCalls \in Nat

Kinds == {"logger", "sink"}
Formats == {"json", "prometheus"}

VARIABLES tables,      \* logger_metrics_ and sink_metrics_: the object of a name, 0 for none
          objects,     \* the metrics made: kind and counters
          client,      \* per client: where it is, the object it holds, loads and stores to do
          tableMutex,  \* who holds mutex_, {} or {client}
          since,       \* per object: counted since the last reset_all of it began
          tableCalls

tableVars == <<tables, objects, client, tableMutex, since, tableCalls>>

NewObject(kind) == [kind |-> kind, count |-> 0, bytes |-> 0, errors |-> 0, time |-> 0, reset |-> FALSE]
Waiting == [pc |-> "idle", object |-> 0, todo |-> <<>>, loaded |-> <<>>]

TablesInit ==
    /\ tables = [k \in Kinds |-> [n \in MetricNames |-> 0]]
    /\ objects = <<>> /\ since = <<>>
    /\ client = [c \in Clients |-> Waiting]
    /\ tableMutex = {} /\ tableCalls = 0

Unlocked == tableMutex = {}

TableCall(c) ==
    /\ client[c].pc = "idle"
    /\ tableCalls < MaxTableCalls /\ tableCalls' = tableCalls + 1

-----------------------------------------------------------------------------
(* Finding and recording.                                                  *)

Found(kind, name) == tables[kind][name]

\* get_logger_metrics and get_sink_metrics.
GetMetrics(c, kind, name) ==
    /\ TableCall(c) /\ Unlocked
    /\ IF Found(kind, name) # 0
       THEN /\ client' = [client EXCEPT ![c].object = Found(kind, name)]
            /\ UNCHANGED <<tables, objects, since>>
       ELSE /\ objects' = Append(objects, NewObject(kind)) /\ since' = Append(since, 0)
            /\ tables' = [tables EXCEPT ![kind][name] = Len(objects')]
            /\ client' = [client EXCEPT ![c].object = Len(objects')]
    /\ UNCHANGED tableMutex

Add(c, field, n) == objects' = [objects EXCEPT ![client[c].object][field] = @ + n]
Proceed(c, from, to) == client[c].pc = from /\ client' = [client EXCEPT ![c].pc = to]

\* A write or a message is recorded before its duration.
RecordWrite(c) ==
    /\ TableCall(c) /\ client[c].object # 0
    /\ Add(c, "count", 1)
    /\ since' = [since EXCEPT ![client[c].object] = @ + 1]
    /\ Proceed(c, "idle", IF objects[client[c].object].kind = "sink" THEN "bytes" ELSE "duration")
    /\ UNCHANGED <<tables, tableMutex>>

RecordBytes(c) ==
    /\ Proceed(c, "bytes", "duration") /\ Add(c, "bytes", 1)
    /\ UNCHANGED <<tables, tableMutex, since, tableCalls>>

RecordDuration(c, d) ==
    /\ Proceed(c, "duration", "idle") /\ Add(c, "time", d)
    /\ UNCHANGED <<tables, tableMutex, since, tableCalls>>

RecordMetricError(c) ==
    /\ TableCall(c) /\ client[c].object # 0
    /\ Add(c, "errors", 1)
    /\ UNCHANGED <<tables, client, tableMutex, since>>

-----------------------------------------------------------------------------
(* Exports and resets of all.                                              *)

FaultyAverageLoads == <<"count", "time">>
AverageLoads == <<"time", "count">>

\* What an export loads of an object, in the order of its text.
Loads(kind, format) ==
    CASE kind = "sink" /\ format = "json" -> <<"count", "bytes", "errors">> \o AverageLoads
      [] kind = "sink" /\ format = "prometheus" -> <<"count", "bytes">> \o AverageLoads
      [] kind = "logger" /\ format = "json" -> <<"count", "errors">> \o AverageLoads
      [] kind = "logger" /\ format = "prometheus" -> <<"count">> \o AverageLoads \o <<"errors">>

Listed(kind) == {tables[kind][n] : n \in MetricNames} \ {0}

\* One object listed after the other, the fields of each in order.
ForEach(os, fields) ==
    LET each == SetToSeq(os)
        width == Len(fields)
    IN  [i \in 1..Len(each) * width |->
            [object |-> each[((i - 1) \div width) + 1], field |-> fields[((i - 1) % width) + 1]]]

Export(c, format) ==
    /\ TableCall(c) /\ Unlocked /\ tableMutex' = {c}
    /\ client' = [client EXCEPT ![c].pc = "export", ![c].loaded = <<>>,
                     ![c].todo = ForEach(Listed("logger"), Loads("logger", format))
                                 \o ForEach(Listed("sink"), Loads("sink", format))]
    /\ UNCHANGED <<tables, objects, since>>

ExportLoad(c) ==
    /\ client[c].pc = "export" /\ client[c].todo # <<>>
    /\ LET next == Head(client[c].todo)
       IN  client' = [client EXCEPT
               ![c].todo = Tail(@),
               ![c].loaded = Append(@, [of |-> next, value |-> objects[next.object][next.field]])]
    /\ UNCHANGED <<tables, objects, tableMutex, since, tableCalls>>

\* The object held by the client has nothing to do with the export.
ExportDone(c) ==
    /\ client[c].pc = "export" /\ client[c].todo = <<>>
    /\ tableMutex' = {}
    /\ client' = [client EXCEPT ![c].pc = "idle", ![c].loaded = <<>>]
    /\ UNCHANGED <<tables, objects, since, tableCalls>>

\* The metrics of sinks have no reset.
ResetKinds == {"logger"}

ResetAll(c) ==
    /\ TableCall(c) /\ Unlocked /\ tableMutex' = {c}
    /\ client' = [client EXCEPT ![c].pc = "reset",
                     ![c].todo = ForEach(UNION {Listed(k) : k \in ResetKinds},
                                         <<"count", "errors", "time">>)]
    /\ since' = [o \in DOMAIN objects |-> IF objects[o].kind = "logger" THEN 0 ELSE since[o]]
    /\ objects' = [o \in DOMAIN objects |->
                      [objects[o] EXCEPT !.reset = @ \/ objects[o].kind = "logger"]]
    /\ UNCHANGED tables

ResetStore(c) ==
    /\ client[c].pc = "reset" /\ client[c].todo # <<>>
    /\ LET next == Head(client[c].todo)
       IN  objects' = [objects EXCEPT ![next.object][next.field] = 0]
    /\ client' = [client EXCEPT ![c].todo = Tail(@)]
    /\ UNCHANGED <<tables, tableMutex, since, tableCalls>>

ResetDone(c) ==
    /\ client[c].todo = <<>> /\ Proceed(c, "reset", "idle")
    /\ tableMutex' = {}
    /\ UNCHANGED <<tables, objects, since, tableCalls>>

-----------------------------------------------------------------------------
TablesNext == \E c \in Clients :
    \/ \E k \in Kinds, n \in MetricNames : GetMetrics(c, k, n)
    \/ RecordWrite(c) \/ RecordBytes(c) \/ RecordMetricError(c)
    \/ \E d \in 0..Longest : RecordDuration(c, d)
    \/ \E f \in Formats : Export(c, f)
    \/ ExportLoad(c) \/ ExportDone(c)
    \/ ResetAll(c) \/ ResetStore(c) \/ ResetDone(c)

TablesSpec == TablesInit /\ [][TablesNext]_tableVars

-----------------------------------------------------------------------------
(* Properties.                                                             *)

TablesTypeOK ==
    /\ tables \in [Kinds -> [MetricNames -> 0..Len(objects)]]
    /\ \A o \in DOMAIN objects :
           objects[o].kind \in Kinds /\ {objects[o][f] : f \in {"count", "bytes", "errors", "time"}} \subseteq Nat
    /\ \A c \in Clients : client[c].object \in 0..Len(objects)
    /\ \A c \in Clients : c \in tableMutex <=> client[c].pc \in {"export", "reset"}
    /\ Cardinality(tableMutex) <= 1 /\ DOMAIN since = DOMAIN objects

\* Whatever anybody records reaches the exports: the metrics that a client
\* holds are the ones the registry lists, and no two names share them.
RecordedIsListed ==
    /\ \A c \in Clients : client[c].object # 0 =>
           \E k \in Kinds : client[c].object \in Listed(k)
    /\ Cardinality(Listed("logger")) + Cardinality(Listed("sink")) = Len(objects)

\* An average in an export is never longer than the longest duration, although
\* its total and its count are loaded while others record, because the total is
\* loaded first and recorded last; a reset of the object ends that.
AverageBounded ==
    \A c \in Clients : \A i, j \in DOMAIN client[c].loaded :
        LET loaded == client[c].loaded
            total == loaded[i]
            count == loaded[j]
        IN  (/\ total.of.field = "time"
             /\ count.of = [object |-> total.of.object, field |-> "count"]
             /\ \A k \in j+1..Len(loaded) : loaded[k].of # count.of
             /\ [object |-> total.of.object, field |-> "count"] \notin ToSet(client[c].todo)
             /\ ~objects[total.of.object].reset) =>
                total.value <= Longest * count.value

\* Outside of a reset an object counts nothing from before the last one, and one
\* that was never reset, as that of a sink, counts everything.
CountsSince ==
    (\A c \in Clients : client[c].pc # "reset") =>
        \A o \in DOMAIN objects :
            /\ objects[o].count <= since[o]
            /\ ~objects[o].reset => objects[o].count = since[o]

\* Recorders, exports and resets that overlap leave the tables and averages sound.
TablesInv == TablesTypeOK /\ RecordedIsListed /\ AverageBounded /\ CountsSince
==============================================================================
