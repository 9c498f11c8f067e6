---------------------------- MODULE LevelControl ----------------------------
(***************************************************************************)
(* The level of Zyrnix::Logger (logger.cpp): permanent, dynamic and        *)
(* temporary changes, the history of changes and the test of log().        *)
(*                                                                         *)
(* mtx_ guards the temporary level and the history, but the level itself   *)
(* is an atomic that set_level and set_level_dynamic change without mtx_.  *)
(* A section under mtx_ that accesses the atomic twice is therefore two    *)
(* steps.  Time is what is left of the temporary period: 0 means that      *)
(* revert_time has been reached.  The callbacks run where a change is      *)
(* recorded; what they do is the caller's.                                 *)
(***************************************************************************)
EXTENDS Integers, Sequences

CONSTANTS Setters,       \* threads that log and change the level
          Levels,
          MaxDuration,   \* longest temporary period, in ticks
          Capacities,    \* the values given to max_history_entries_
          Ops,           \* the operations the program calls
          NoSetter

Trace == 0
AllOps == {"set", "dynamic", "temporary", "cancel", "log", "clearHistory", "capacity"}

ASSUME ThreadsAssumption == NoSetter \notin Setters
ASSUME LevelsAssumption == Levels \subseteq Nat /\ Trace \in Levels
ASSUME MaxDurationAssumption == MaxDuration \in Nat
ASSUME CapacitiesAssumption == Capacities \subseteq Nat /\ Capacities # {}
ASSUME OpsAssumption == Ops \subseteq AllOps

VARIABLES min_level,  \* min_level_
          temp,       \* temp_level_: active, original_level, and what is left of it
          history,    \* level_history_
          capacity,   \* max_history_entries_
          mtx,        \* who holds mtx_ between two steps
          step,       \* per thread: where it is, and the call's locals
          replaced,   \* the level the running temporary period took over from
          raced       \* an unlocked change has fallen where it does harm

audit == <<history, capacity>>
ghosts == <<replaced, raced>>
levelVars == <<min_level, temp, audit, mtx, step, ghosts>>

\* op is the operation, lvl its level and old the level read before it; first
\* tells the change that starts a temporary period from one that extends it,
\* late a call that began after the period was over.
NoStep == [pc |-> "idle", op |-> "none", lvl |-> Trace, old |-> Trace,
           first |-> FALSE, late |-> FALSE]

At(t, label) == step[t].pc = label
Begin(t, op) == op \in Ops /\ At(t, "idle")
Goto(t, label) == step' = [step EXCEPT ![t].pc = label]
Return(t) == step' = [step EXCEPT ![t] = NoStep]
Free == mtx = NoSetter

LevelInit ==
    /\ min_level = Trace
    /\ temp = [active |-> FALSE, original |-> Trace, left |-> 0]
    /\ history = << >> /\ capacity \in Capacities
    /\ mtx = NoSetter
    /\ step = [t \in Setters |-> NoStep]
    /\ replaced = Trace /\ raced = FALSE

\* Time passes.
Tick ==
    /\ temp.left > 0
    /\ temp' = [temp EXCEPT !.left = @ - 1]
    /\ UNCHANGED <<min_level, audit, mtx, step, ghosts>>

Expired == temp.active /\ temp.left = 0

-----------------------------------------------------------------------------
(* The history: the newest entries, as many as the capacity allows.        *)

FaultyNewest(s, n) == IF Len(s) <= n THEN s ELSE SubSeq(s, 1, n)
Newest(s, n) == IF Len(s) <= n THEN s ELSE SubSeq(s, Len(s) - n + 1, Len(s))

\* record_level_change by thread t.  A change made without mtx_ that is still
\* to be recorded is out of order from now on.
RecordChange(t, old, new) ==
    /\ history' = Newest(Append(history, [old |-> old, new |-> new]), capacity)
    /\ raced' = (raced \/ \E u \in Setters \ {t} : At(u, "record"))
    /\ UNCHANGED capacity

ClearHistory(t) ==
    /\ Begin(t, "clearHistory") /\ Free
    /\ history' = << >>
    /\ UNCHANGED <<min_level, temp, capacity, mtx, step, ghosts>>

SetCapacity(t, n) ==
    /\ Begin(t, "capacity") /\ Free
    /\ capacity' = n
    /\ history' = Newest(history, n)
    /\ UNCHANGED <<min_level, temp, mtx, step, ghosts>>

-----------------------------------------------------------------------------
(* Changes without mtx_.                                                   *)

\* set_level: a store that leaves no record.
SetLevel(t, l) ==
    /\ Begin(t, "set")
    /\ min_level' = l
    /\ raced' = TRUE
    /\ UNCHANGED <<temp, audit, mtx, step, replaced>>

\* set_level_dynamic and log begin with check_temporary_level_expiry.
DynamicCall(t, l) ==
    /\ Begin(t, "dynamic")
    /\ step' = [step EXCEPT ![t] = [NoStep EXCEPT !.pc = "check", !.op = "dynamic", !.lvl = l]]
    /\ UNCHANGED <<min_level, temp, audit, mtx, ghosts>>

\* The exchange does harm when a thread under mtx_ is between its two
\* accesses to the level, and when an earlier change is not recorded yet.
ExchangeLevel(t) ==
    /\ At(t, "exchange")
    /\ min_level' = step[t].lvl
    /\ IF min_level = step[t].lvl
       THEN Return(t) /\ UNCHANGED raced
       ELSE /\ step' = [step EXCEPT ![t].pc = "record", ![t].old = min_level]
            /\ raced' = (raced \/ \E u \in Setters :
                                      step[u].pc \in {"record", "revert", "tempExchange"})
    /\ UNCHANGED <<temp, audit, mtx, replaced>>

DynamicRecord(t) ==
    /\ At(t, "record") /\ Free
    /\ RecordChange(t, step[t].old, step[t].lvl)
    /\ Return(t)
    /\ UNCHANGED <<min_level, temp, mtx, replaced>>

-----------------------------------------------------------------------------
(* Temporary levels, under mtx_.                                           *)

\* The calls that began after the end of a period that is now extended or
\* followed by another one are no longer late.
FaultyTemporary(t, l, d) ==    \* an extension takes the level it finds for the original
    /\ Begin(t, "temporary") /\ Free
    /\ temp' = [active |-> TRUE, original |-> min_level, left |-> d]
    /\ mtx' = t
    /\ step' = [u \in Setters |->
                   IF u = t THEN [NoStep EXCEPT !.pc = "tempExchange", !.op = "temporary",
                                                !.lvl = l, !.first = ~temp.active]
                   ELSE [step[u] EXCEPT !.late = FALSE]]
    /\ UNCHANGED <<min_level, audit, ghosts>>

Temporary(t, l, d) ==
    /\ Begin(t, "temporary") /\ Free
    /\ temp' = [active |-> TRUE, left |-> d,
                original |-> IF temp.active THEN temp.original ELSE min_level]
    /\ mtx' = t
    /\ step' = [u \in Setters |->
                   IF u = t THEN [NoStep EXCEPT !.pc = "tempExchange", !.op = "temporary",
                                                !.lvl = l, !.first = ~temp.active]
                   ELSE [step[u] EXCEPT !.late = FALSE]]
    /\ UNCHANGED <<min_level, audit, ghosts>>

TemporaryExchange(t) ==
    /\ At(t, "tempExchange")
    /\ min_level' = step[t].lvl
    /\ replaced' = IF step[t].first THEN min_level ELSE replaced
    /\ RecordChange(t, min_level, step[t].lvl)
    /\ mtx' = NoSetter
    /\ Return(t)
    /\ UNCHANGED temp

\* Both ways to end a period load the level before they store the original.
BeginRevert(t) ==
    /\ mtx' = t
    /\ step' = [step EXCEPT ![t].pc = "revert", ![t].old = min_level]
    /\ UNCHANGED <<min_level, temp, audit, ghosts>>

Cancel(t) == Begin(t, "cancel") /\ Free /\ temp.active /\ BeginRevert(t)

\* Where the call goes on after the check, or after the period was ended.
Resume(t) == CASE step[t].op = "dynamic" -> "exchange"
               [] step[t].op = "log" -> "admit"
               [] OTHER -> "idle"

Check(t) ==
    /\ At(t, "check") /\ Free
    /\ IF Expired THEN BeginRevert(t)
       ELSE Goto(t, Resume(t)) /\ UNCHANGED <<min_level, temp, audit, mtx, ghosts>>

Revert(t) ==
    /\ At(t, "revert")
    /\ min_level' = temp.original
    /\ temp' = [temp EXCEPT !.active = FALSE]
    /\ RecordChange(t, step[t].old, temp.original)
    /\ mtx' = NoSetter
    /\ IF Resume(t) = "idle" THEN Return(t) ELSE Goto(t, Resume(t))
    /\ UNCHANGED replaced

-----------------------------------------------------------------------------
(* The level test of log().                                                *)

LogCall(t, l) ==
    /\ Begin(t, "log")
    /\ step' = [step EXCEPT ![t] = [NoStep EXCEPT !.pc = "check", !.op = "log", !.lvl = l,
                                                  !.late = Expired]]
    /\ UNCHANGED <<min_level, temp, audit, mtx, ghosts>>

LogAdmit(t) ==
    /\ At(t, "admit") /\ Free /\ step[t].lvl >= min_level
    /\ Goto(t, "deliver")
    /\ UNCHANGED <<min_level, temp, audit, mtx, ghosts>>

LogDrop(t) ==
    /\ At(t, "admit") /\ Free /\ step[t].lvl < min_level
    /\ Return(t)
    /\ UNCHANGED <<min_level, temp, audit, mtx, ghosts>>

\* The sinks get the message; LoggerSinks says how.
LogDeliver(t) ==
    /\ At(t, "deliver") /\ Return(t)
    /\ UNCHANGED <<min_level, temp, audit, mtx, ghosts>>

-----------------------------------------------------------------------------
Step(t) == Check(t) \/ Revert(t) \/ ExchangeLevel(t) \/ DynamicRecord(t) \/ TemporaryExchange(t)
           \/ LogAdmit(t) \/ LogDrop(t) \/ LogDeliver(t)

LevelNext ==
    \/ Tick
    \/ \E t \in Setters :
          \/ Step(t) \/ Cancel(t) \/ ClearHistory(t)
          \/ \E n \in Capacities : SetCapacity(t, n)
          \/ \E l \in Levels : SetLevel(t, l) \/ DynamicCall(t, l) \/ LogCall(t, l)
          \/ \E l \in Levels, d \in 0..MaxDuration : Temporary(t, l, d)

LevelSpec == LevelInit /\ [][LevelNext]_levelVars

-----------------------------------------------------------------------------
(* Properties.                                                             *)

Locations == {"idle", "check", "revert", "exchange", "record", "tempExchange", "admit", "deliver"}
Changes == [old : Levels, new : Levels]
TypeOK ==
    /\ min_level \in Levels
    /\ temp \in [active : BOOLEAN, original : Levels, left : 0..MaxDuration]
    /\ history \in Seq(Changes) /\ capacity \in Capacities /\ Len(history) <= capacity
    /\ mtx \in Setters \cup {NoSetter}
    /\ step \in [Setters -> [pc : Locations, op : {"none", "dynamic", "temporary", "log"},
                             lvl : Levels, old : Levels, first : BOOLEAN, late : BOOLEAN]]
    /\ replaced \in Levels /\ raced \in BOOLEAN

\* The history is a trail: each change starts where the one before it ended,
\* and the last one ended at the level in force, or at the level from which
\* the one change not yet recorded started.
Trail ==
    /\ \A i \in 1..(Len(history) - 1) : history[i].new = history[i + 1].old
    /\ history # << >> =>
          LET last == history[Len(history)].new
          IN  IF \E t \in Setters : At(t, "record")
              THEN \A t \in Setters : At(t, "record") => step[t].old = last
              ELSE min_level = last

\* It is one unless a change made without mtx_ fell between the two accesses
\* of a section under mtx_ or overtook another one before it was recorded.
TrailUnlessRaced == raced \/ Trail

\* The history is a trail within its capacity, beside the types.
HistoryKept == TypeOK /\ TrailUnlessRaced

\* When a temporary period ends the level is again the one that the first
\* change of the period replaced, however often the period was extended
\* ("Auto-revert to original level after timeout",
\* RELEASE_NOTES_v1.1.1-beta.2.md:127), unless an unlocked change did harm.
RevertRestores == temp.active /\ ~temp.active' /\ ~raced => min_level' = replaced

\* A message logged after the end of a temporary period is never admitted by
\* the level of that period: the check at the head of log() has ended it.
ExpiredLevelUnused == \A t \in Setters :
    At(t, "admit") /\ At(t, "deliver")' /\ step[t].late => ~temp.active

\* A temporary level is temporary: it gives way to the level it replaced, and
\* admits nothing after its time.
TemporaryLevelEnds == [][RevertRestores /\ ExpiredLevelUnused]_levelVars
=============================================================================
