---------------------------- MODULE LoggerSinks ----------------------------
(***************************************************************************)
(* The sink registry of Zyrnix::Logger (logger.hpp, logger.cpp): threads   *)
(* that log, add, remove and clear sinks and change the per-sink levels of *)
(* one logger, at the granularity of its two locks and of its atomics.     *)
(*                                                                         *)
(*   sinks_mtx_   std::shared_mutex over sink_entries_: writer / readers   *)
(*   mtx_         std::mutex over the rest of the logger: mtx              *)
(*                                                                         *)
(* A critical section that cannot block inside is one step; a section that *)
(* asks for a second lock, or whose accesses another thread can overlap,   *)
(* is cut there.  Positions in the list count from 1 (the code's from 0).  *)
(* The level and filter test of log() belongs to the admission of a        *)
(* message: the messages here are the admitted ones.                       *)
(***************************************************************************)
EXTENDS Integers, Sequences, FiniteSets

CONSTANTS Threads,    \* threads that call the logger
          Entries,    \* SinkEntry objects; one may be reused once it is dead
          Names,      \* names given to sinks
          Levels,     \* log levels
          MaxIndex,   \* largest index a caller passes
          Programs,   \* sets of operations; a program calls those of one
          NoThread, NoEntry, NoName

AllOps == {"add", "removeName", "removeIndex", "clear", "setLevel",
           "setLevelName", "clearLevels", "log"}

ASSUME ThreadsAssumption == IsFiniteSet(Threads) /\ NoThread \notin Threads
ASSUME EntriesAssumption == NoEntry \notin Entries
ASSUME NamesAssumption == NoName \notin Names
ASSUME LevelsAssumption == Levels \subseteq Nat
ASSUME MaxIndexAssumption == MaxIndex \in Nat
ASSUME ProgramsAssumption == Programs \subseteq SUBSET AllOps

VARIABLES entries,    \* sink_entries_
          name,       \* SinkEntry::name
          marked,     \* SinkEntry::marked_for_removal
          ref,        \* SinkEntry::ref_count
          overrides,  \* sink_level_overrides_, a std::map from index to level
          byName,     \* sink_level_overrides_by_name_
          writer,     \* who holds sinks_mtx_ exclusively
          readers,    \* who holds sinks_mtx_ shared
          mtx,        \* who holds mtx_
          call,       \* per thread: where it is, and the call's locals
          ops         \* the operations the program calls

objects == <<name, marked, ref>>
levels == <<overrides, byName>>
locks == <<writer, readers, mtx>>
vars == <<entries, objects, levels, locks, call, ops>>

NoLevel == -1
\* The loop of log() starts at the first entry.
NoCall == [pc |-> "idle", idx |-> 1, lvl |-> NoLevel, cur |-> NoEntry, nm |-> NoName]
NoOverrides == [i \in {} |-> NoLevel]

Listed == {entries[i] : i \in 1..Len(entries)}
Live == {e \in Listed : ~marked[e]}

\* sink_count()
SinkCount == Cardinality(Live)

At(t, label) == call[t].pc = label
Begin(t, op) == op \in ops /\ At(t, "idle")
Goto(t, label) == call' = [call EXCEPT ![t].pc = label]
Return(t) == call' = [call EXCEPT ![t] = NoCall]

\* Operators named Faulty... are mistakes the code does not make; substituted
\* for the definition that follows them they must break a property.
FaultyCanWrite == writer = NoThread

\* A shared_mutex is granted exclusively when nobody holds it, shared when
\* nobody holds it exclusively.
CanWrite == writer = NoThread /\ readers = {}
CanRead == writer = NoThread

Init ==
    /\ entries = << >>
    /\ name = [e \in Entries |-> NoName]
    /\ marked = [e \in Entries |-> FALSE]
    /\ ref = [e \in Entries |-> 0]
    /\ overrides = NoOverrides
    /\ byName = [n \in Names |-> NoLevel]
    /\ writer = NoThread /\ readers = {} /\ mtx = NoThread
    /\ call = [t \in Threads |-> NoCall]
    /\ ops \in Programs

-----------------------------------------------------------------------------
(* Adding and removing sinks.                                              *)

\* make_shared<SinkEntry>: an object nobody refers to any more may be reused.
Fresh(e) == e \notin Listed /\ \A t \in Threads : call[t].cur # e

AddSink(t, n, e) ==
    /\ Begin(t, "add") /\ CanWrite /\ Fresh(e)
    /\ entries' = Append(entries, e)
    /\ name' = [name EXCEPT ![e] = n]
    /\ marked' = [marked EXCEPT ![e] = FALSE]
    /\ ref' = [ref EXCEPT ![e] = 0]
    /\ UNCHANGED <<levels, locks, call>>

\* What erase(remove_if(...)) leaves of the list when the dead entries go:
\* the others, in their order.
Position(s, e) == CHOOSE i \in 1..Len(s) : s[i] = e
Survivors(s, dead) ==
    LET keep == {s[i] : i \in 1..Len(s)} \ dead
    IN  {r \in UNION {[1..n -> keep] : n \in 0..Len(s)} :
            /\ {r[i] : i \in DOMAIN r} = keep
            /\ \A i, j \in DOMAIN r : i < j => Position(s, r[i]) < Position(s, r[j])}

FaultyMark(t, e, n, wait) ==    \* the lock is kept across the wait
    /\ marked' = [marked EXCEPT ![e] = TRUE]
    /\ writer' = t
    /\ call' = [call EXCEPT ![t] = [NoCall EXCEPT !.pc = IF wait THEN "drain" ELSE "erase",
                                                  !.cur = e, !.nm = n]]
    /\ UNCHANGED <<entries, name, ref, levels, readers, mtx>>

\* The first critical section of remove_sink; wait is wait_for_completion.
Mark(t, e, n, wait) ==
    /\ marked' = [marked EXCEPT ![e] = TRUE]
    /\ call' = [call EXCEPT ![t] = [NoCall EXCEPT !.pc = IF wait THEN "drain" ELSE "erase",
                                                  !.cur = e, !.nm = n]]
    /\ UNCHANGED <<entries, name, ref, levels, locks>>

\* find_if: the first entry of that name that is not marked.
Matching(n) == {i \in 1..Len(entries) : name[entries[i]] = n /\ ~marked[entries[i]]}

RemoveByName(t, n, wait) ==
    /\ Begin(t, "removeName") /\ CanWrite
    /\ \E i \in Matching(n) :
          /\ \A j \in Matching(n) : i <= j
          /\ Mark(t, entries[i], n, wait)

\* remove_sink(index) marks what it finds, marked already or not.
RemoveByIndex(t, i, wait) ==
    /\ Begin(t, "removeIndex") /\ CanWrite
    /\ i <= Len(entries)
    /\ Mark(t, entries[i], NoName, wait)

\* wait_for_sink_drain: it returns when the count is zero or after five
\* seconds of polling, so it may return in any state.
Drained(t) ==
    /\ At(t, "drain") /\ Goto(t, "erase")
    /\ UNCHANGED <<entries, objects, levels, locks>>

FaultyEraseFirst(t) ==    \* the first marked entry, whoever marked it
    /\ At(t, "erase") /\ call[t].nm # NoName /\ CanWrite
    /\ entries' \in Survivors(entries, {entries[i] : i \in {i \in 1..Len(entries) :
                        marked[entries[i]] /\ \A j \in 1..(i - 1) : ~marked[entries[j]]}})
    /\ Return(t)
    /\ UNCHANGED <<objects, levels, locks>>

EraseByName(t) ==
    /\ At(t, "erase") /\ call[t].nm # NoName /\ CanWrite
    /\ entries' \in Survivors(entries, {e \in Entries : name[e] = call[t].nm /\ marked[e]})
    /\ Return(t)
    /\ UNCHANGED <<objects, levels, locks>>

\* cleanup_removed_sinks
EraseUnused(t) ==
    /\ At(t, "erase") /\ call[t].nm = NoName /\ CanWrite
    /\ entries' \in Survivors(entries, {e \in Entries : marked[e] /\ ref[e] = 0})
    /\ Return(t)
    /\ UNCHANGED <<objects, levels, locks>>

\* clear_sinks takes sinks_mtx_, keeps it while it marks, drains and clears
\* the list, and then asks for mtx_.
ClearMark(t) ==
    /\ Begin(t, "clear") /\ CanWrite
    /\ writer' = t
    /\ marked' = [e \in Entries |-> marked[e] \/ e \in Listed]
    /\ Goto(t, "clearList")
    /\ UNCHANGED <<entries, name, ref, levels, readers, mtx>>

ClearList(t) ==
    /\ At(t, "clearList")
    /\ entries' = << >>
    /\ Goto(t, "clearMaps")
    /\ UNCHANGED <<objects, levels, locks>>

ClearMaps(t) ==
    /\ At(t, "clearMaps") /\ mtx = NoThread
    /\ overrides' = NoOverrides
    /\ byName' = [n \in Names |-> NoLevel]
    /\ writer' = NoThread
    /\ Return(t)
    /\ UNCHANGED <<entries, objects, readers, mtx>>

-----------------------------------------------------------------------------
(* Per-sink levels.  The steps that change the map of overrides are cut    *)
(* before the change, because log() reads the map without mtx_.            *)

SetLevelLockMtx(t, i, l) ==
    /\ Begin(t, "setLevel") /\ mtx = NoThread
    /\ mtx' = t
    /\ call' = [call EXCEPT ![t] = [NoCall EXCEPT !.pc = "setShared", !.idx = i, !.lvl = l]]
    /\ UNCHANGED <<entries, objects, levels, writer, readers>>

SetLevelLockSinks(t) ==
    /\ At(t, "setShared") /\ CanRead
    /\ readers' = readers \cup {t}
    /\ Goto(t, "setWrite")
    /\ UNCHANGED <<entries, objects, levels, writer, mtx>>

SetLevelWrite(t) ==
    /\ At(t, "setWrite")
    /\ overrides' = IF call[t].idx <= Len(entries)
                    THEN [j \in DOMAIN overrides \cup {call[t].idx} |->
                             IF j = call[t].idx THEN call[t].lvl ELSE overrides[j]]
                    ELSE overrides
    /\ readers' = readers \ {t}
    /\ mtx' = NoThread
    /\ Return(t)
    /\ UNCHANGED <<entries, objects, byName, writer>>

SetLevelByName(t, n, l) ==
    /\ Begin(t, "setLevelName") /\ mtx = NoThread
    /\ byName' = [byName EXCEPT ![n] = l]
    /\ UNCHANGED <<entries, objects, overrides, locks, call>>

ClearLevelsLock(t) ==
    /\ Begin(t, "clearLevels") /\ mtx = NoThread
    /\ mtx' = t
    /\ Goto(t, "clearWrite")
    /\ UNCHANGED <<entries, objects, levels, writer, readers>>

ClearLevelsWrite(t) ==
    /\ At(t, "clearWrite")
    /\ overrides' = NoOverrides
    /\ byName' = [n \in Names |-> NoLevel]
    /\ mtx' = NoThread
    /\ Return(t)
    /\ UNCHANGED <<entries, objects, writer, readers>>

-----------------------------------------------------------------------------
(* Logging: admission under mtx_, then the loop over the entries under a   *)
(* shared sinks_mtx_.                                                      *)

LogCall(t, l) ==
    /\ Begin(t, "log")
    /\ call' = [call EXCEPT ![t] = [NoCall EXCEPT !.pc = "admit", !.lvl = l]]
    /\ UNCHANGED <<entries, objects, levels, locks>>

\* check_temporary_level_expiry and the block that tests should_log and
\* copies the redaction settings each take and release mtx_.
LogAdmit(t) ==
    /\ At(t, "admit") /\ mtx = NoThread
    /\ Goto(t, "lockShared")
    /\ UNCHANGED <<entries, objects, levels, locks>>

FaultyLogLockSinks(t) ==    \* the loop runs without the lock
    /\ At(t, "lockShared") /\ CanRead
    /\ Goto(t, "scan")
    /\ UNCHANGED <<entries, objects, levels, locks>>

LogLockSinks(t) ==
    /\ At(t, "lockShared") /\ CanRead
    /\ readers' = readers \cup {t}
    /\ Goto(t, "scan")
    /\ UNCHANGED <<entries, objects, levels, writer, mtx>>

Here(t) == entries[call[t].idx]
MoreEntries(t) == At(t, "scan") /\ call[t].idx <= Len(entries)
NextEntry(t) == call' = [call EXCEPT ![t].pc = "scan", ![t].idx = @ + 1, ![t].cur = NoEntry]

\* The level sink_level_overrides_.find(i) yields.  A find that overlaps a
\* change of the map is a data race: it may yield any level or none.
Found(i) ==
    IF \E u \in Threads : call[u].pc \in {"setWrite", "clearWrite"}
    THEN Levels \cup {NoLevel}
    ELSE {IF i \in DOMAIN overrides THEN overrides[i] ELSE NoLevel}

LogSkip(t) ==
    /\ MoreEntries(t)
    /\ marked[Here(t)] \/ \E o \in Found(call[t].idx) : call[t].lvl < o
    /\ NextEntry(t)
    /\ UNCHANGED <<entries, objects, levels, locks>>

LogSelect(t) ==
    /\ MoreEntries(t)
    /\ ~marked[Here(t)] /\ \E o \in Found(call[t].idx) : call[t].lvl >= o
    /\ call' = [call EXCEPT ![t].pc = "guard", ![t].cur = Here(t)]
    /\ UNCHANGED <<entries, objects, levels, locks>>

\* SinkGuard(entry), then its test before the write.
LogGuard(t) ==
    /\ At(t, "guard")
    /\ ref' = [ref EXCEPT ![call[t].cur] = @ + 1]
    /\ Goto(t, IF marked[call[t].cur] THEN "release" ELSE "write")
    /\ UNCHANGED <<entries, name, marked, levels, locks>>

FaultyLogRelease(t) ==    \* the count is not given back
    /\ call[t].pc \in {"write", "release"}
    /\ NextEntry(t)
    /\ UNCHANGED <<entries, objects, levels, locks>>

\* The end of sink->log(...) and ~SinkGuard.
LogRelease(t) ==
    /\ call[t].pc \in {"write", "release"}
    /\ ref' = [ref EXCEPT ![call[t].cur] = @ - 1]
    /\ NextEntry(t)
    /\ UNCHANGED <<entries, name, marked, levels, locks>>

LogReturn(t) ==
    /\ At(t, "scan") /\ call[t].idx > Len(entries)
    /\ readers' = readers \ {t}
    /\ Return(t)
    /\ UNCHANGED <<entries, objects, levels, writer, mtx>>

-----------------------------------------------------------------------------
\* The next step of the call thread t is in.
Step(t) ==
    \/ Drained(t) \/ EraseByName(t) \/ EraseUnused(t)
    \/ ClearList(t) \/ ClearMaps(t)
    \/ SetLevelLockSinks(t) \/ SetLevelWrite(t) \/ ClearLevelsWrite(t)
    \/ LogAdmit(t) \/ LogLockSinks(t)
    \/ LogSkip(t) \/ LogSelect(t) \/ LogGuard(t) \/ LogRelease(t) \/ LogReturn(t)

Next == UNCHANGED ops /\ \E t \in Threads :
    \/ Step(t)
    \/ \E n \in Names, e \in Entries : AddSink(t, n, e)
    \/ \E n \in Names, wait \in BOOLEAN : RemoveByName(t, n, wait)
    \/ \E i \in 1..MaxIndex, wait \in BOOLEAN : RemoveByIndex(t, i, wait)
    \/ ClearMark(t) \/ ClearLevelsLock(t)
    \/ \E i \in 1..MaxIndex, l \in Levels : SetLevelLockMtx(t, i, l)
    \/ \E n \in Names, l \in Levels : SetLevelByName(t, n, l)
    \/ \E l \in Levels : LogCall(t, l)

Spec == Init /\ [][Next]_vars

-----------------------------------------------------------------------------
(* Properties.                                                             *)

Locations == {"idle", "drain", "erase", "clearList", "clearMaps", "setShared", "setWrite",
              "clearWrite", "admit", "lockShared", "scan", "guard", "write", "release"}
Calls == [pc : Locations, idx : Nat \ {0}, lvl : Levels \cup {NoLevel},
          cur : Entries \cup {NoEntry}, nm : Names \cup {NoName}]

\* Every variable keeps its type.
TypeOK ==
    /\ entries \in Seq(Entries)
    /\ name \in [Entries -> Names \cup {NoName}]
    /\ marked \in [Entries -> BOOLEAN]
    /\ ref \in [Entries -> Int]
    /\ DOMAIN overrides \subseteq Nat \ {0}
    /\ overrides \in [DOMAIN overrides -> Levels \cup {NoLevel}]
    /\ byName \in [Names -> Levels \cup {NoLevel}]
    /\ writer \in Threads \cup {NoThread}
    /\ readers \subseteq Threads
    /\ mtx \in Threads \cup {NoThread}
    /\ call \in [Threads -> Calls]
    /\ ops \in Programs

\* What a thread holds is told by where it is; sinks_mtx_ is never held both
\* ways.
LockInv ==
    /\ writer # NoThread => readers = {}
    /\ \A t \in Threads :
          /\ t \in readers <=> call[t].pc \in {"setWrite", "scan", "guard", "write", "release"}
          /\ writer = t <=> call[t].pc \in {"clearList", "clearMaps"}
          /\ mtx = t <=> call[t].pc \in {"setShared", "setWrite", "clearWrite"}

\* No entry is listed twice, a removal in progress refers to an entry that is
\* still the marked one of that name, and no sink is live while the list is
\* being cleared.
RemovalInv ==
    /\ \A i, j \in 1..Len(entries) : entries[i] = entries[j] => i = j
    /\ \A t \in Threads : call[t].pc \in {"drain", "erase"} =>
          /\ call[t].cur \in Entries /\ marked[call[t].cur]
          /\ call[t].nm # NoName => name[call[t].cur] = call[t].nm
    /\ \A t \in Threads : At(t, "clearList") => Live = {}

\* While a thread of log() is between choosing an entry and dropping its
\* guard, that entry stays where the loop found it, in the list and not
\* marked, whatever other threads remove: no sink is written to after its
\* removal began, and the loop index stays valid.
ScanStable == \A t \in Threads : call[t].pc \in {"guard", "write", "release"} =>
    /\ call[t].idx \in 1..Len(entries)
    /\ entries[call[t].idx] = call[t].cur
    /\ ~marked[call[t].cur]

\* The reference count of an entry is the number of guards on it, and an
\* entry that is marked or out of the list has none: wait_for_sink_drain
\* finds the count at zero and never runs into its five seconds.
Guards(e) == {t \in Threads : call[t].pc \in {"write", "release"} /\ call[t].cur = e}
RefCountExact == \A e \in Entries :
    /\ ref[e] = Cardinality(Guards(e))
    /\ e \notin Live => ref[e] = 0

\* Positions, levels and calls keep their types, and the counts are exact.
CountsRight == TypeOK /\ RefCountExact

\* When remove_sink returns true, by name or by index, the entry it marked is
\* no longer in the list, however many other removals ran in between.
RemovedIsGone == [][\A t \in Threads : At(t, "erase") /\ At(t, "idle")' =>
                       call[t].cur \notin Listed']_vars

\* The erase of a removal never changes what sink_count reports: the sinks
\* it takes out of the list were already not counted, and nobody else's
\* sink goes with them.
EraseKeepsCount == [][\A t \in Threads : At(t, "erase") /\ At(t, "idle")' =>
                         SinkCount' = SinkCount]_vars

\* No two threads wait for each other's lock ("thread-safe by design",
\* README.md:29).  With two locks, two threads are the shortest cycle and the
\* only kind in which each holds one lock and waits for the other.
WaitsFor(t, u) ==
    \/ call[t].pc \in {"admit", "clearMaps"} /\ mtx = u
    \/ call[t].pc \in {"lockShared", "setShared"} /\ writer = u
    \/ At(t, "erase") /\ (writer = u \/ u \in readers)
NoLockCycle == \A t, u \in Threads : ~(WaitsFor(t, u) /\ WaitsFor(u, t))

\* The registry implements the abstract set of sinks: the unmarked entries
\* are the live sinks, the guarded calls of sink->log the writes in progress.
Abstract == INSTANCE SinkSet WITH
    Sinks <- Entries,
    live <- Live,
    writing <- {p \in Threads \X Entries : At(p[1], "write") /\ call[p[1]].cur = p[2]}
ImplementsSinkSet == Abstract!Spec
=============================================================================
