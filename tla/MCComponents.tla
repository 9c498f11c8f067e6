---------------------------- MODULE MCComponents ----------------------------
(* Components that do not interact, side by side; part says which one runs.  *)
EXTENDS RotatingFile, CompressedFile, LokiSink, ThreadPool, Limiters, ScopedContext, RegexCache,
        Admission, LevelControl, Metrics, MetricsRegistry, HealthRegistry, TLC

VARIABLE part

allVars == <<rotVars, zipVars, lokiVars, poolVars, limiterVars, contextVars,
             cacheVars, admissionVars, levelVars, metricVars, tableVars, registryVars>>
vars == <<part, allVars>>

Parts == {"rotating", "compressed", "loki", "pool", "limits", "context", "cache", "log", "levels",
          "metrics", "tables", "registry"}

\* The options of a component that does not run are not enumerated.
Init ==
    /\ part \in Parts
    /\ RotInit /\ ZipInit /\ LokiInit /\ PoolInit /\ LimiterInit /\ ContextInit /\ CacheInit
    /\ AdmissionInit /\ LevelInit /\ MetricInit /\ TablesInit /\ RegistryInit
    /\ part # "compressed" =>
          zipType = (CHOOSE t \in Types : TRUE) /\ level = (CHOOSE l \in StartLevels : TRUE) /\ ~zipAuto
    /\ part # "loki" => batchSize = (CHOOSE b \in BatchSizes : TRUE)
    /\ part # "limits" => sampleRate = 1
    /\ part # "levels" => capacity = (CHOOSE n \in Capacities : TRUE)
    /\ part # "log" => minLevel = (CHOOSE l \in RecordLevels : TRUE)

Next ==
    \/ part = "rotating" /\ RotNext
       /\ UNCHANGED <<part, zipVars, lokiVars, poolVars, limiterVars, contextVars,
                      cacheVars, admissionVars, levelVars, metricVars, tableVars, registryVars>>
    \/ part = "compressed" /\ ZipNext
       /\ UNCHANGED <<part, rotVars, lokiVars, poolVars, limiterVars, contextVars,
                      cacheVars, admissionVars, levelVars, metricVars, tableVars, registryVars>>
    \/ part = "loki" /\ LokiNext
       /\ UNCHANGED <<part, rotVars, zipVars, poolVars, limiterVars, contextVars,
                      cacheVars, admissionVars, levelVars, metricVars, tableVars, registryVars>>
    \/ part = "pool" /\ PoolNext
       /\ UNCHANGED <<part, rotVars, zipVars, lokiVars, limiterVars, contextVars,
                      cacheVars, admissionVars, levelVars, metricVars, tableVars, registryVars>>
    \/ part = "limits" /\ LimiterNext
       /\ UNCHANGED <<part, rotVars, zipVars, lokiVars, poolVars, contextVars,
                      cacheVars, admissionVars, levelVars, metricVars, tableVars, registryVars>>
    \/ part = "context" /\ ContextNext
       /\ UNCHANGED <<part, rotVars, zipVars, lokiVars, poolVars, limiterVars,
                      cacheVars, admissionVars, levelVars, metricVars, tableVars, registryVars>>
    \/ part = "cache" /\ CacheNext
       /\ UNCHANGED <<part, rotVars, zipVars, lokiVars, poolVars, limiterVars,
                      contextVars, admissionVars, levelVars, metricVars, tableVars, registryVars>>
    \/ part = "log" /\ AdmissionNext
       /\ UNCHANGED <<part, rotVars, zipVars, lokiVars, poolVars, limiterVars,
                      contextVars, cacheVars, levelVars, metricVars, tableVars, registryVars>>
    \/ part = "levels" /\ LevelNext
       /\ UNCHANGED <<part, rotVars, zipVars, lokiVars, poolVars, limiterVars, contextVars,
                      cacheVars, admissionVars, metricVars, tableVars, registryVars>>
    \/ part = "metrics" /\ MetricNext
       /\ UNCHANGED <<part, rotVars, zipVars, lokiVars, poolVars, limiterVars,
                      contextVars, cacheVars, admissionVars, levelVars, tableVars, registryVars>>
    \/ part = "tables" /\ TablesNext
       /\ UNCHANGED <<part, rotVars, zipVars, lokiVars, poolVars, limiterVars,
                      contextVars, cacheVars, admissionVars, levelVars, metricVars, registryVars>>
    \/ part = "registry" /\ RegistryNext
       /\ UNCHANGED <<part, rotVars, zipVars, lokiVars, poolVars, limiterVars,
                      contextVars, cacheVars, admissionVars, levelVars, metricVars, tableVars>>

Spec == Init /\ [][Next]_vars

AllTypes == {"none", "gzip", "zstd"}
LowAndHigh == {2, 9}

Text1 == {<<"a">>, <<"(">>, <<"a", "|", "b">>}
Text2 == {<<>>, <<"f">>, <<"b", "|", "f">>}
BadPattern == {<<"(">>}

SecretMessages == {{}, {"email"}, {"email", "token"}}
SomePatterns == {{}, {"email", "("}, {"token"}}
KnownPresets == {"email"}
FieldValues == {"", "u1"}

Regex(p, b) == [kind |-> "regex", pattern |-> p, invert |-> b]
Field(v) == [kind |-> "field", value |-> v]
Lambda(s) == [kind |-> "lambda", accepts |-> s]

SomeFilters ==
    {[kind |-> "level", min |-> 2], Field("u1"), Lambda({2}), Regex("token", TRUE),
     [kind |-> "regexField", pattern |-> "u1", invert |-> TRUE],
     [kind |-> "and", parts |-> <<>>], [kind |-> "or", parts |-> <<Field("u1"), Lambda({1})>>]}

\* The filters of README.md.
ReadmeFilters == {Regex("token", TRUE)}

ThreeCounters == {"logged", "dropped", "errors"}
TwoPeaks == {"maxLog", "maxDepth"}
=============================================================================
