----------------------------- MODULE RegexCache -----------------------------
(***************************************************************************)
(* Zyrnix::RegexFilterCache and the statistics of a RegexFilter            *)
(* (log_filter.cpp).  Every operation holds the cache's mutex, so that one *)
(* process makes them all.  Patterns and field names are sequences of      *)
(* characters, of which the separator of the cache's keys is one.          *)
(***************************************************************************)
EXTENDS Naturals, Sequences, FiniteSets, SequencesExt, Functions

CONSTANTS Characters, Patterns, FieldNames,
          Invalid,          \* the patterns that std::regex refuses
          MaxCacheCalls     \* bound on the calls

ASSUME TextAssumption ==
    {"|", "i", "v"} \subseteq Characters /\ Patterns \cup FieldNames \subseteq Seq(Characters)
ASSUME InvalidAssumption == Invalid \subseteq Patterns /\ MaxCacheCalls \in Nat

Requests == [pattern : Patterns, field : FieldNames, icase : BOOLEAN, invert : BOOLEAN,
             track : BOOLEAN]

VARIABLES made,         \* the filters constructed: as requested, with their statistics
          cache,        \* cache_, a function of keys to filters
          precompiled,  \* the filter precompiled under the one name used, or 0
          hits, cacheMisses,
          given,        \* what get_or_create has returned for which request
          threw, cleared,   \* constructions that failed, entries cleared away
          cacheCalls

cacheVars == <<made, cache, precompiled, hits, cacheMisses, given, threw, cleared, cacheCalls>>

CacheInit ==
    /\ made = <<>> /\ cache = <<>> /\ precompiled = 0 /\ hits = 0 /\ cacheMisses = 0
    /\ given = {} /\ threw = 0 /\ cleared = 0 /\ cacheCalls = 0

CacheCall == cacheCalls < MaxCacheCalls /\ cacheCalls' = cacheCalls + 1

Filter(r) == [asked |-> r, matches |-> 0, misses |-> 0]

FaultyMakeCacheKey(r) ==    \* without the inversion
    r.pattern \o <<"|">> \o r.field \o <<"|">> \o (IF r.icase THEN <<"i">> ELSE <<>>)

\* track_stats is no part of the key.
MakeCacheKey(r) ==
    r.pattern \o <<"|">> \o r.field \o <<"|">>
    \o (IF r.icase THEN <<"i">> ELSE <<>>) \o (IF r.invert THEN <<"v">> ELSE <<>>)

GetCached(r) ==
    /\ CacheCall
    /\ MakeCacheKey(r) \in DOMAIN cache
    /\ hits' = hits + 1
    /\ given' = given \cup {<<r, cache[MakeCacheKey(r)]>>}
    /\ UNCHANGED <<made, cache, precompiled, cacheMisses, threw, cleared>>

Missed(r) == cacheMisses + 1

\* A miss counts also if the constructor throws, and then nothing is kept.
CreateFilter(r) ==
    /\ CacheCall
    /\ MakeCacheKey(r) \notin DOMAIN cache
    /\ cacheMisses' = Missed(r)
    /\ \/ /\ r.pattern \in Invalid
          /\ threw' = threw + 1 /\ UNCHANGED <<made, cache, given>>
       \/ /\ r.pattern \notin Invalid
          /\ made' = Append(made, Filter(r))
          /\ cache' = [k \in DOMAIN cache \cup {MakeCacheKey(r)} |->
                          IF k = MakeCacheKey(r) THEN Len(made') ELSE cache[k]]
          /\ given' = given \cup {<<r, Len(made')>>} /\ UNCHANGED threw
    /\ UNCHANGED <<precompiled, hits, cleared>>

\* precompile takes no field; it replaces what the name stood for.
Precompile(r) ==
    /\ CacheCall /\ r.field = <<>> /\ r.pattern \notin Invalid
    /\ made' = Append(made, Filter(r)) /\ precompiled' = Len(made')
    /\ UNCHANGED <<cache, hits, cacheMisses, given, threw, cleared>>

ClearCache ==
    /\ CacheCall
    /\ cleared' = cleared + Cardinality(DOMAIN cache) /\ cache' = <<>>
    /\ UNCHANGED <<made, precompiled, hits, cacheMisses, given, threw>>

Tracks(f) == f.asked.track

\* RegexFilter::should_log as far as it changes something: update_stats.
UpdateStats(i, matched) ==
    /\ CacheCall /\ Tracks(made[i])
    /\ made' = [made EXCEPT ![i].matches = IF matched THEN @ + 1 ELSE @,
                            ![i].misses = IF matched THEN @ ELSE @ + 1]
    /\ UNCHANGED <<cache, precompiled, hits, cacheMisses, given, threw, cleared>>

ResetStats(i) ==
    /\ CacheCall
    /\ made' = [made EXCEPT ![i].matches = 0, ![i].misses = 0]
    /\ UNCHANGED <<cache, precompiled, hits, cacheMisses, given, threw, cleared>>

CacheNext ==
    \/ \E r \in Requests : GetCached(r) \/ CreateFilter(r) \/ Precompile(r)
    \/ ClearCache
    \/ \E i \in DOMAIN made : ResetStats(i) \/ \E matched \in BOOLEAN : UpdateStats(i, matched)

CacheSpec == CacheInit /\ [][CacheNext]_cacheVars

-----------------------------------------------------------------------------
(* Properties.                                                             *)

CacheTypeOK ==
    /\ \A i \in DOMAIN made :
           /\ made[i].asked \in Requests /\ {made[i].matches, made[i].misses} \subseteq Nat
           /\ ~made[i].asked.track => made[i].matches = 0 /\ made[i].misses = 0
    /\ Range(cache) \subseteq DOMAIN made /\ precompiled \in 0..Len(made)
    /\ {hits, cacheMisses, threw, cleared, cacheCalls} \subseteq Nat

Separated(r) == "|" \notin ToSet(r.field)

\* Whoever asks for a filter gets one of the pattern, the field and the options
\* asked for, whatever was asked for before, as long as no field name holds the
\* separator of the key; only the tracking of statistics may be another's.
CachedAsAsked ==
    (\A g \in given : Separated(g[1])) =>
        \A g \in given :
            LET asked == made[g[2]].asked
            IN  [asked EXCEPT !.track = g[1].track] = g[1]

\* The counters add up with what the cache holds: every miss is a filter that is
\* cached, was cleared away, or could not be constructed.
MissesAddUp == cacheMisses = Cardinality(DOMAIN cache) + cleared + threw

\* A cached filter is the one asked for, and the counters account for the cache.
CacheInv == CacheTypeOK /\ CachedAsAsked /\ MissesAddUp
=============================================================================
