-------------------------- MODULE LevelControlProofs --------------------------
(***************************************************************************)
(* Proofs about LevelControl, for any threads, levels, durations and       *)
(* capacities: the history is a trail and a temporary level ends as it     *)
(* should, unless an unlocked change fell where it does harm.              *)
(***************************************************************************)
EXTENDS LevelControl, SequenceTheorems, TLAPS

\* mtx_ is held over a step between the two accesses to the level.
Between(t) == step[t].pc \in {"revert", "tempExchange"}
Mutex == \A t \in Setters : mtx = t <=> Between(t)

\* The running period remembers the level its first change took over from.
Starts(t) == At(t, "tempExchange") /\ step[t].first
Period ==
    /\ \A t \in Setters : Between(t) => temp.active
    /\ ~raced /\ temp.active =>
          /\ \A t \in Setters : Starts(t) => temp.original = min_level
          /\ (\A t \in Setters : ~Starts(t)) => temp.original = replaced

\* A call that began after the end of a period finds it ended when it is past
\* the check.
LateCalls ==
    \A t \in Setters : step[t].late =>
        \/ ~temp.active
        \/ temp.left = 0 /\ step[t].pc \notin {"admit", "deliver"}

\* Without harm done one change at most is to be recorded, what was loaded is
\* still so, and the history ends where the next change will start.
Chain(h) == \A i \in 1..(Len(h) - 1) : h[i].new = h[i + 1].old
Joined ==
    /\ \A t, u \in Setters : At(t, "record") /\ At(u, "record") => t = u
    /\ \A t \in Setters : At(t, "record") => step[t].lvl = min_level
    /\ \A t \in Setters : At(t, "revert") => step[t].old = min_level
    /\ Chain(history)
    /\ history # << >> =>
          /\ \A t \in Setters : At(t, "record") => step[t].old = history[Len(history)].new
          /\ (\A t \in Setters : ~At(t, "record")) => min_level = history[Len(history)].new
TrailInv == raced \/ Joined

LevelInv == TypeOK /\ Mutex /\ Period /\ LateCalls /\ TrailInv

-----------------------------------------------------------------------------
(* Calls and histories.                                                    *)

Operations == {"none", "dynamic", "temporary", "log"}
Calls == [pc : Locations, op : Operations, lvl : Levels, old : Levels, first : BOOLEAN, late : BOOLEAN]
Periods == [active : BOOLEAN, original : Levels, left : 0..MaxDuration]

LEMMA CallFields ==
    ASSUME NEW c \in Calls
    PROVE  /\ c.pc \in Locations /\ c.op \in Operations /\ c.lvl \in Levels /\ c.old \in Levels
           /\ c.first \in BOOLEAN /\ c.late \in BOOLEAN
  BY DEF Calls

LEMMA NoCallFields ==
    /\ NoStep \in Calls /\ NoStep.pc = "idle" /\ NoStep.op = "none" /\ NoStep.lvl = Trace
    /\ NoStep.old = Trace /\ NoStep.first = FALSE /\ NoStep.late = FALSE
  BY LevelsAssumption DEF NoStep, Calls, Locations, Operations

LEMMA TypeParts ==
    ASSUME TypeOK
    PROVE  step \in [Setters -> Calls] /\ temp \in Periods
  BY DEF TypeOK, Calls, Periods, Operations

LEMMA PcOfCall ==
    ASSUME NEW c \in Calls, NEW l \in Locations, NEW d, d = [c EXCEPT !.pc = l]
    PROVE  d \in Calls /\ d.pc = l /\ d.op = c.op /\ d.lvl = c.lvl /\ d.old = c.old
           /\ d.first = c.first /\ d.late = c.late
  BY DEF Calls

LEMMA OldOfCall ==
    ASSUME NEW c \in Calls, NEW v \in Levels, NEW d, d = [c EXCEPT !.old = v]
    PROVE  d \in Calls /\ d.pc = c.pc /\ d.op = c.op /\ d.lvl = c.lvl /\ d.old = v
           /\ d.first = c.first /\ d.late = c.late
  BY DEF Calls

LEMMA OneCall ==
    ASSUME TypeOK, NEW t \in Setters, NEW c \in Calls, step' = [step EXCEPT ![t] = c]
    PROVE  step' \in [Setters -> Calls] /\ step'[t] = c /\ \A u \in Setters \ {t} : step'[u] = step[u]
  BY TypeParts

\* A call that goes on keeps its locals, and the other calls are as they were.
LEMMA Goes ==
    ASSUME TypeOK, NEW t \in Setters, NEW l \in Locations, Goto(t, l)
    PROVE  /\ step' \in [Setters -> Calls]
           /\ \A u \in Setters \ {t} : step'[u] = step[u]
           /\ step'[t].pc = l /\ step'[t].op = step[t].op /\ step'[t].lvl = step[t].lvl
           /\ step'[t].old = step[t].old /\ step'[t].first = step[t].first /\ step'[t].late = step[t].late
<1>1. PICK c : c = [step[t] EXCEPT !.pc = l]
  OBVIOUS
<1>2. step[t] \in Calls /\ step' = [step EXCEPT ![t] = c]
  BY <1>1, TypeParts DEF Goto
<1>3. c \in Calls /\ c.pc = l /\ c.op = step[t].op /\ c.lvl = step[t].lvl /\ c.old = step[t].old
      /\ c.first = step[t].first /\ c.late = step[t].late
  BY <1>1, <1>2, PcOfCall
<1>4. step' \in [Setters -> Calls] /\ step'[t] = c /\ \A u \in Setters \ {t} : step'[u] = step[u]
  BY <1>2, <1>3, OneCall
<1> QED
  BY <1>3, <1>4

\* As above, with what was loaded.
LEMMA Loads ==
    ASSUME TypeOK, NEW t \in Setters, NEW l \in Locations, NEW v \in Levels,
           step' = [step EXCEPT ![t].pc = l, ![t].old = v]
    PROVE  /\ step' \in [Setters -> Calls]
           /\ \A u \in Setters \ {t} : step'[u] = step[u]
           /\ step'[t].pc = l /\ step'[t].op = step[t].op /\ step'[t].lvl = step[t].lvl
           /\ step'[t].old = v /\ step'[t].first = step[t].first /\ step'[t].late = step[t].late
<1>1. PICK c : c = [step[t] EXCEPT !.pc = l]
  OBVIOUS
<1>2. PICK d : d = [c EXCEPT !.old = v]
  OBVIOUS
<1>3. step[t] \in Calls /\ step' = [step EXCEPT ![t] = d]
  BY <1>1, <1>2, TypeParts
<1>4. c \in Calls /\ c.pc = l /\ c.op = step[t].op /\ c.lvl = step[t].lvl
      /\ c.first = step[t].first /\ c.late = step[t].late
  BY <1>1, <1>3, PcOfCall
<1>5. d \in Calls /\ d.pc = c.pc /\ d.op = c.op /\ d.lvl = c.lvl /\ d.old = v
      /\ d.first = c.first /\ d.late = c.late
  BY <1>2, <1>4, OldOfCall
<1>6. step' \in [Setters -> Calls] /\ step'[t] = d /\ \A u \in Setters \ {t} : step'[u] = step[u]
  BY <1>3, <1>5, OneCall
<1> QED
  BY <1>4, <1>5, <1>6

LEMMA Ends ==
    ASSUME TypeOK, NEW t \in Setters, Return(t)
    PROVE  /\ step' \in [Setters -> Calls] /\ step'[t] = NoStep
           /\ \A u \in Setters \ {t} : step'[u] = step[u]
  BY TypeParts, NoCallFields DEF Return

\* The newest entries are the end of a history.
LEMMA NewestEntries ==
    ASSUME NEW S, NEW h \in Seq(S), NEW n \in Nat
    PROVE  /\ Newest(h, n) \in Seq(S) /\ Len(Newest(h, n)) <= n /\ Len(Newest(h, n)) <= Len(h)
           /\ \A i \in 1..Len(Newest(h, n)) : Newest(h, n)[i] = h[i + (Len(h) - Len(Newest(h, n)))]
           /\ Len(Newest(h, n)) = Len(h) \/ Len(Newest(h, n)) = n
<1>1. Len(h) \in Nat
  OBVIOUS
<1>2. CASE Len(h) <= n
  <2>1. Newest(h, n) = h
    BY <1>2 DEF Newest
  <2> QED
    BY <1>1, <1>2, <2>1
<1>3. CASE Len(h) > n
  <2>1. Newest(h, n) = SubSeq(h, Len(h) - n + 1, Len(h))
    BY <1>1, <1>3 DEF Newest
  <2>2. Len(h) - n + 1 \in Int /\ Len(h) \in Int /\ \A i \in Len(h) - n + 1..Len(h) : h[i] \in S
    BY <1>1, <1>3
  <2>3. /\ Newest(h, n) \in Seq(S)
        /\ Len(Newest(h, n)) = (IF Len(h) - n + 1 <= Len(h) THEN Len(h) - (Len(h) - n + 1) + 1 ELSE 0)
        /\ \A i \in 1..Len(h) - (Len(h) - n + 1) + 1 : Newest(h, n)[i] = h[Len(h) - n + 1 + i - 1]
    BY <2>1, <2>2, SubSeqProperties
  <2>4. Len(Newest(h, n)) = n
    BY <1>1, <1>3, <2>3
  <2>5. \A i \in 1..n : Newest(h, n)[i] = h[i + (Len(h) - n)]
    BY <1>1, <1>3, <2>3
  <2> QED
    BY <1>1, <1>3, <2>3, <2>4, <2>5
<1> QED
  BY <1>1, <1>2, <1>3

\* Trimming breaks no link of a chain and keeps its end.
LEMMA NewestChain ==
    ASSUME NEW h \in Seq(Changes), NEW n \in Nat, Chain(h)
    PROVE  /\ Chain(Newest(h, n))
           /\ Newest(h, n) # << >> => h # << >> /\ Newest(h, n)[Len(Newest(h, n))] = h[Len(h)]
<1> DEFINE k == Newest(h, n)
<1>1. k \in Seq(Changes) /\ Len(k) <= Len(h) /\ Len(k) \in Nat /\ Len(h) \in Nat
      /\ \A i \in 1..Len(k) : k[i] = h[i + (Len(h) - Len(k))]
  BY NewestEntries
<1> HIDE DEF k
<1>2. ASSUME NEW i \in 1..(Len(k) - 1) PROVE k[i].new = k[i + 1].old
  <2>1. i \in 1..Len(k) /\ i + 1 \in 1..Len(k) /\ i + (Len(h) - Len(k)) \in 1..(Len(h) - 1)
        /\ (i + 1) + (Len(h) - Len(k)) = (i + (Len(h) - Len(k))) + 1
    BY <1>1
  <2>2. k[i] = h[i + (Len(h) - Len(k))] /\ k[i + 1] = h[(i + (Len(h) - Len(k))) + 1]
    BY <1>1, <2>1
  <2> QED
    BY <2>1, <2>2 DEF Chain
<1>3. ASSUME k # << >> PROVE h # << >> /\ k[Len(k)] = h[Len(h)]
  <2>1. Len(k) \in 1..Len(k) /\ Len(k) + (Len(h) - Len(k)) = Len(h) /\ Len(h) # 0
    BY <1>1, <1>3
  <2> QED
    BY <1>1, <2>1
<1> QED
  BY <1>2, <1>3 DEF Chain, k

\* A change that starts at the end of a chain continues it.
LEMMA AppendChain ==
    ASSUME NEW h \in Seq(Changes), NEW old \in Levels, NEW new \in Levels, Chain(h),
           h # << >> => h[Len(h)].new = old
    PROVE  LET k == Append(h, [old |-> old, new |-> new])
           IN  /\ k \in Seq(Changes) /\ k # << >> /\ Chain(k) /\ k[Len(k)].new = new
<1> DEFINE c == [old |-> old, new |-> new]  k == Append(h, c)
<1>1. c \in Changes /\ c.old = old /\ c.new = new
  BY DEF Changes
<1> HIDE DEF c
<1>2. k \in Seq(Changes) /\ Len(k) = Len(h) + 1 /\ Len(h) \in Nat /\ k[Len(h) + 1] = c
      /\ \A i \in 1..Len(h) : k[i] = h[i]
  BY <1>1
<1> HIDE DEF k
<1>3. ASSUME NEW i \in 1..(Len(k) - 1) PROVE k[i].new = k[i + 1].old
  <2>1. CASE i + 1 <= Len(h)
    <3>1. i \in 1..(Len(h) - 1) /\ i \in 1..Len(h) /\ i + 1 \in 1..Len(h)
      BY <1>2, <2>1
    <3> QED
      BY <1>2, <3>1 DEF Chain
  <2>2. CASE i + 1 > Len(h)
    <3>1. i = Len(h) /\ Len(h) \in 1..Len(h) /\ h # << >>
      BY <1>2, <1>3, <2>2
    <3> QED
      BY <1>1, <1>2, <3>1
  <2> QED
    BY <1>2, <2>1, <2>2
<1>4. k # << >> /\ k[Len(k)].new = new
  BY <1>1, <1>2
<1>5. Chain(k)
  BY <1>3 DEF Chain
<1> QED
  BY <1>2, <1>4, <1>5 DEF k, c

-----------------------------------------------------------------------------
(* The invariant.                                                          *)

LEMMA NewTypes ==
    ASSUME min_level' \in Levels, temp' \in Periods, history' \in Seq(Changes), capacity' \in Capacities,
           Len(history') <= capacity', mtx' \in Setters \cup {NoSetter}, step' \in [Setters -> Calls],
           replaced' \in Levels, raced' \in BOOLEAN
    PROVE  TypeOK'
  BY DEF TypeOK, Periods, Calls, Operations

LEMMA OldTypes ==
    ASSUME TypeOK
    PROVE  /\ min_level \in Levels /\ temp \in Periods /\ history \in Seq(Changes) /\ capacity \in Capacities
           /\ capacity \in Nat /\ Len(history) <= capacity /\ mtx \in Setters \cup {NoSetter}
           /\ step \in [Setters -> Calls] /\ replaced \in Levels /\ raced \in BOOLEAN
  BY CapacitiesAssumption DEF TypeOK, Periods, Calls, Operations

LEMMA PeriodFields ==
    ASSUME NEW p \in Periods
    PROVE  p.active \in BOOLEAN /\ p.original \in Levels /\ p.left \in 0..MaxDuration
  BY DEF Periods

\* What a recorded change does to the history.
LEMMA Records ==
    ASSUME TypeOK, NEW t \in Setters, NEW old \in Levels, NEW new \in Levels, RecordChange(t, old, new)
    PROVE  /\ history' \in Seq(Changes) /\ Len(history') <= capacity' /\ capacity' = capacity
           /\ raced' \in BOOLEAN /\ (~raced' => ~raced /\ \A u \in Setters \ {t} : ~At(u, "record"))
           /\ Chain(history) /\ (history # << >> => history[Len(history)].new = old) =>
                 Chain(history') /\ (history' # << >> => history'[Len(history')].new = new)
<1>1. PICK k : k = Append(history, [old |-> old, new |-> new])
  OBVIOUS
<1>2. history' = Newest(k, capacity) /\ capacity' = capacity
      /\ raced' = (raced \/ \E u \in Setters \ {t} : At(u, "record"))
  BY <1>1 DEF RecordChange
<1>3. history \in Seq(Changes) /\ capacity \in Nat /\ raced \in BOOLEAN
  BY OldTypes
<1>4. k \in Seq(Changes)
  BY <1>1, <1>3 DEF Changes
<1>5. history' \in Seq(Changes) /\ Len(history') <= capacity'
  BY <1>2, <1>3, <1>4, NewestEntries
<1>6. ASSUME Chain(history), history # << >> => history[Len(history)].new = old
      PROVE  Chain(history') /\ (history' # << >> => history'[Len(history')].new = new)
  <2>1. Chain(k) /\ k[Len(k)].new = new
    BY <1>1, <1>3, <1>6, AppendChain
  <2>2. Chain(Newest(k, capacity))
        /\ (Newest(k, capacity) # << >> => Newest(k, capacity)[Len(Newest(k, capacity))] = k[Len(k)])
    BY <1>3, <1>4, <2>1, NewestChain
  <2> QED
    BY <1>2, <2>1, <2>2
<1>7. raced' \in BOOLEAN /\ (~raced' => ~raced /\ \A u \in Setters \ {t} : ~At(u, "record"))
  BY <1>2, <1>3
<1> QED
  BY <1>2, <1>5, <1>6, <1>7

LEMMA InitInv == LevelInit => LevelInv
<1> SUFFICES ASSUME LevelInit PROVE LevelInv
  OBVIOUS
<1>1. \A t \in Setters : step[t] = NoStep
  BY DEF LevelInit
<1>2. TypeOK
  <2>1. step \in [Setters -> Calls]
    BY NoCallFields DEF LevelInit
  <2>2. temp \in Periods
    BY LevelsAssumption, MaxDurationAssumption DEF LevelInit, Periods
  <2>3. \A S : << >> \in Seq(S)
    OBVIOUS
  <2>4. history \in Seq(Changes)
    BY <2>3 DEF LevelInit
  <2>5. capacity \in Nat /\ Len(history) = 0 /\ Len(history) <= capacity
    BY CapacitiesAssumption DEF LevelInit
  <2>6. /\ min_level \in Levels /\ capacity \in Capacities /\ mtx \in Setters \cup {NoSetter}
        /\ replaced \in Levels /\ raced \in BOOLEAN
    BY LevelsAssumption DEF LevelInit
  <2> QED
    BY <2>1, <2>2, <2>4, <2>5, <2>6 DEF TypeOK, Periods, Calls, Operations
<1>3. Mutex
  BY <1>1, NoCallFields, ThreadsAssumption DEF LevelInit, Mutex, Between
<1>4. Period
  BY <1>1, NoCallFields DEF LevelInit, Period, Between
<1>5. LateCalls
  BY <1>1, NoCallFields DEF LateCalls
<1>6. TrailInv
  BY <1>1, NoCallFields DEF LevelInit, TrailInv, Joined, Chain, At
<1> QED
  BY <1>2, <1>3, <1>4, <1>5, <1>6 DEF LevelInv

\* A step of one call alone that begins, ends or overtakes no change.
LEMMA PlainStep ==
    ASSUME LevelInv, NEW t \in Setters, UNCHANGED <<min_level, temp, history, capacity, mtx, replaced, raced>>,
           step' \in [Setters -> Calls], \A u \in Setters \ {t} : step'[u] = step[u],
           step[t].pc \notin {"record", "revert", "tempExchange"},
           step'[t].pc \notin {"record", "revert", "tempExchange"},
           step'[t].late => ~temp.active \/ (temp.left = 0 /\ step'[t].pc \notin {"admit", "deliver"})
    PROVE  LevelInv'
<1>1. TypeOK'
  BY OldTypes, NewTypes DEF LevelInv
<1>2. \A u \in Setters : /\ Between(u)' = Between(u) /\ Starts(u)' = Starts(u)
                         /\ At(u, "record")' = At(u, "record") /\ At(u, "revert")' = At(u, "revert")
                         /\ (At(u, "record") => step'[u] = step[u]) /\ (At(u, "revert") => step'[u] = step[u])
  BY DEF Between, Starts, At
<1>3. Mutex'
  BY <1>2 DEF LevelInv, Mutex
<1>4. Period'
  BY <1>2 DEF LevelInv, Period
<1>5. LateCalls'
  BY DEF LevelInv, LateCalls
<1>6. TrailInv'
  BY <1>2 DEF LevelInv, TrailInv, Joined
<1> QED
  BY <1>1, <1>3, <1>4, <1>5, <1>6 DEF LevelInv

\* A step that moves no call, changes no level and keeps what the history says.
LEMMA NoCallMoves ==
    ASSUME LevelInv, UNCHANGED <<min_level, mtx, step, replaced, raced>>,
           history' \in Seq(Changes), capacity' \in Capacities, Len(history') <= capacity',
           Chain(history) => Chain(history')
                             /\ (history' # << >> => history # << >> /\ history'[Len(history')] = history[Len(history)]),
           temp' \in Periods, temp'.active = temp.active, temp'.original = temp.original,
           temp.left = 0 => temp'.left = 0
    PROVE  LevelInv'
<1>1. TypeOK'
  BY OldTypes, NewTypes DEF LevelInv
<1>2. Mutex' /\ LateCalls'
  BY DEF LevelInv, Mutex, Between, LateCalls
<1>3. Period'
  BY DEF LevelInv, Period, Between, Starts, At
<1>4. TrailInv'
  BY DEF LevelInv, TrailInv, Joined, At
<1> QED
  BY <1>1, <1>2, <1>3, <1>4 DEF LevelInv

LEMMA QuietSteps ==
    ASSUME LevelInv,
           \/ Tick
           \/ \E t \in Setters : ClearHistory(t) \/ \E n \in Capacities : SetCapacity(t, n)
    PROVE  LevelInv'
<1>1. /\ temp \in Periods /\ history \in Seq(Changes) /\ capacity \in Capacities /\ capacity \in Nat
      /\ Len(history) <= capacity
  BY OldTypes DEF LevelInv
<1>2. CASE Tick
  <2>1. temp.left \in 0..MaxDuration /\ temp.left > 0 /\ temp' = [temp EXCEPT !.left = temp.left - 1]
    BY <1>1, <1>2, PeriodFields DEF Tick
  <2>2. temp.left - 1 \in 0..MaxDuration
    BY <2>1, MaxDurationAssumption
  <2>3. temp' \in Periods /\ temp'.active = temp.active /\ temp'.original = temp.original
    BY <1>1, <2>1, <2>2 DEF Periods
  <2>4. UNCHANGED <<min_level, mtx, step, replaced, raced, history, capacity>>
    BY <1>2 DEF Tick, audit, ghosts
  <2> QED
    BY <1>1, <2>1, <2>3, <2>4, NoCallMoves
<1>3. ASSUME NEW t \in Setters, ClearHistory(t) PROVE LevelInv'
  <2>1. UNCHANGED <<min_level, mtx, step, replaced, raced, temp, capacity>> /\ history' = << >>
    BY <1>3 DEF ClearHistory, ghosts
  <2>2. history' \in Seq(Changes) /\ Len(history') = 0 /\ Chain(history')
    BY <2>1 DEF Chain
  <2> QED
    BY <1>1, <2>1, <2>2, NoCallMoves
<1>4. ASSUME NEW t \in Setters, NEW n \in Capacities, SetCapacity(t, n) PROVE LevelInv'
  <2>1. UNCHANGED <<min_level, mtx, step, replaced, raced, temp>> /\ history' = Newest(history, n) /\ capacity' = n
    BY <1>4 DEF SetCapacity, ghosts
  <2>2. n \in Nat
    BY CapacitiesAssumption
  <2>3. history' \in Seq(Changes) /\ Len(history') <= n
    BY <1>1, <2>1, <2>2, NewestEntries
  <2>4. Chain(history) => Chain(history')
            /\ (history' # << >> => history # << >> /\ history'[Len(history')] = history[Len(history)])
    BY <1>1, <2>1, <2>2, NewestChain
  <2> QED
    BY <1>1, <2>1, <2>3, <2>4, NoCallMoves
<1> QED
  BY <1>2, <1>3, <1>4

LEMMA SetLevelStep ==
    ASSUME LevelInv, NEW t \in Setters, NEW l \in Levels, SetLevel(t, l)
    PROVE  LevelInv'
<1>1. UNCHANGED <<temp, history, capacity, mtx, step, replaced>> /\ raced' /\ raced' \in BOOLEAN /\ min_level' \in Levels
  BY DEF SetLevel, audit
<1>2. TypeOK'
  BY <1>1, OldTypes, NewTypes DEF LevelInv
<1>3. Mutex' /\ LateCalls' /\ TrailInv'
  BY <1>1 DEF LevelInv, Mutex, Between, LateCalls, TrailInv
<1>4. Period'
  BY <1>1 DEF LevelInv, Period, Between
<1> QED
  BY <1>2, <1>3, <1>4 DEF LevelInv

\* Calls begin, and log() goes on from its check to its end.
LEMMA PlainSteps ==
    ASSUME LevelInv, NEW t \in Setters,
           \/ \E l \in Levels : DynamicCall(t, l) \/ LogCall(t, l)
           \/ LogAdmit(t) \/ LogDrop(t) \/ LogDeliver(t)
    PROVE  LevelInv'
<1>1. TypeOK /\ LateCalls
  BY DEF LevelInv
<1>2. ASSUME NEW l \in Levels, DynamicCall(t, l) PROVE LevelInv'
  <2>1. PICK c : c = [NoStep EXCEPT !.pc = "check", !.op = "dynamic", !.lvl = l]
    OBVIOUS
  <2>2. c \in Calls /\ c.pc = "check" /\ ~c.late
    BY <2>1, LevelsAssumption DEF NoStep, Calls, Locations, Operations
  <2>3. step[t].pc = "idle" /\ step' = [step EXCEPT ![t] = c]
        /\ UNCHANGED <<min_level, temp, history, capacity, mtx, replaced, raced>>
    BY <1>2, <2>1 DEF DynamicCall, Begin, At, audit, ghosts
  <2> QED
    BY <1>1, <2>2, <2>3, OneCall, PlainStep
<1>3. ASSUME NEW l \in Levels, LogCall(t, l) PROVE LevelInv'
  <2>1. PICK c : c = [NoStep EXCEPT !.pc = "check", !.op = "log", !.lvl = l, !.late = Expired]
    OBVIOUS
  <2>2. Expired \in BOOLEAN
    BY DEF Expired
  <2>3. c \in Calls /\ c.pc = "check" /\ c.late = Expired
    BY <2>1, <2>2, LevelsAssumption DEF NoStep, Calls, Locations, Operations
  <2>4. step[t].pc = "idle" /\ step' = [step EXCEPT ![t] = c]
        /\ UNCHANGED <<min_level, temp, history, capacity, mtx, replaced, raced>>
    BY <1>3, <2>1 DEF LogCall, Begin, At, audit, ghosts
  <2>5. c.late => temp.left = 0 /\ c.pc \notin {"admit", "deliver"}
    BY <2>3 DEF Expired
  <2> QED
    BY <1>1, <2>3, <2>4, <2>5, OneCall, PlainStep
<1>4. CASE LogAdmit(t)
  <2>1. step[t].pc = "admit" /\ Goto(t, "deliver")
        /\ UNCHANGED <<min_level, temp, history, capacity, mtx, replaced, raced>>
    BY <1>4 DEF LogAdmit, At, audit, ghosts
  <2>2. step[t].late => ~temp.active
    BY <1>1, <2>1 DEF LateCalls
  <2> QED
    BY <1>1, <2>1, <2>2, Goes, PlainStep DEF Locations
<1>5. CASE LogDrop(t) \/ LogDeliver(t)
  <2>1. step[t].pc \in {"admit", "deliver"} /\ Return(t)
        /\ UNCHANGED <<min_level, temp, history, capacity, mtx, replaced, raced>>
    BY <1>5 DEF LogDrop, LogDeliver, At, audit, ghosts
  <2> QED
    BY <1>1, <2>1, Ends, NoCallFields, PlainStep
<1> QED
  BY <1>2, <1>3, <1>4, <1>5

LEMMA ExchangeStep ==
    ASSUME LevelInv, NEW t \in Setters, ExchangeLevel(t)
    PROVE  LevelInv'
<1>1. TypeOK /\ Mutex /\ Period /\ LateCalls /\ TrailInv
  BY DEF LevelInv
<1>2. step[t].pc = "exchange" /\ step[t] \in Calls /\ UNCHANGED <<temp, history, capacity, mtx, replaced>>
      /\ min_level' = step[t].lvl /\ min_level \in Levels /\ raced \in BOOLEAN
  BY <1>1, OldTypes DEF ExchangeLevel, At, audit
<1>3. CASE min_level = step[t].lvl
  <2>1. Return(t) /\ UNCHANGED <<min_level, raced>>
    BY <1>2, <1>3 DEF ExchangeLevel
  <2> QED
    BY <1>1, <1>2, <2>1, Ends, NoCallFields, PlainStep
<1>4. CASE min_level # step[t].lvl
  <2>1. step' = [step EXCEPT ![t].pc = "record", ![t].old = min_level]
        /\ raced' = (raced \/ \E u \in Setters : step[u].pc \in {"record", "revert", "tempExchange"})
    BY <1>4 DEF ExchangeLevel
  <2>2. /\ step' \in [Setters -> Calls] /\ \A u \in Setters \ {t} : step'[u] = step[u]
        /\ step'[t].pc = "record" /\ step'[t].lvl = step[t].lvl /\ step'[t].old = min_level
        /\ step'[t].late = step[t].late
    BY <1>1, <1>2, <2>1, Loads DEF Locations
  <2>3. TypeOK'
    BY <1>1, <1>2, <2>1, <2>2, OldTypes, NewTypes, CallFields
  <2>4. Mutex'
    BY <1>1, <1>2, <2>2 DEF Mutex, Between
  <2>5. LateCalls'
    BY <1>1, <1>2, <2>2 DEF LateCalls
  <2>6. CASE raced'
    <3>1. Period'
      BY <1>1, <1>2, <2>2, <2>6 DEF Period, Between
    <3> QED
      BY <2>3, <2>4, <2>5, <2>6, <3>1 DEF LevelInv, TrailInv
  <2>7. CASE ~raced'
    <3>1. ~raced /\ \A u \in Setters : step[u].pc \notin {"record", "revert", "tempExchange"}
      BY <2>1, <2>7
    <3>2. Period'
      BY <1>1, <1>2, <2>2, <3>1 DEF Period, Between, Starts, At
    <3>3. Joined
      BY <1>1, <3>1 DEF TrailInv
    <3>4. Joined'
      BY <1>2, <2>2, <3>1, <3>3 DEF Joined, At
    <3> QED
      BY <2>3, <2>4, <2>5, <3>2, <3>4 DEF LevelInv, TrailInv
  <2> QED
    BY <2>6, <2>7
<1> QED
  BY <1>3, <1>4

LEMMA DynamicRecordStep ==
    ASSUME LevelInv, NEW t \in Setters, DynamicRecord(t)
    PROVE  LevelInv'
<1>1. TypeOK /\ Mutex /\ Period /\ LateCalls /\ TrailInv
  BY DEF LevelInv
<1>2. step[t].pc = "record" /\ step[t].lvl \in Levels /\ step[t].old \in Levels /\ Return(t)
      /\ RecordChange(t, step[t].old, step[t].lvl) /\ UNCHANGED <<min_level, temp, mtx, replaced>>
  BY <1>1, OldTypes, CallFields DEF DynamicRecord, At
<1>3. step' \in [Setters -> Calls] /\ step'[t].pc = "idle" /\ ~step'[t].late
      /\ \A u \in Setters \ {t} : step'[u] = step[u]
  BY <1>1, <1>2, Ends, NoCallFields
<1>4. /\ history' \in Seq(Changes) /\ Len(history') <= capacity' /\ capacity' = capacity /\ raced' \in BOOLEAN
      /\ (~raced' => ~raced /\ \A u \in Setters \ {t} : ~At(u, "record"))
      /\ Chain(history) /\ (history # << >> => history[Len(history)].new = step[t].old) =>
            Chain(history') /\ (history' # << >> => history'[Len(history')].new = step[t].lvl)
  BY <1>1, <1>2, Records
<1>5. TypeOK'
  BY <1>1, <1>2, <1>3, <1>4, OldTypes, NewTypes
<1>6. Mutex' /\ LateCalls'
  BY <1>1, <1>2, <1>3 DEF Mutex, Between, LateCalls
<1>7. Period'
  BY <1>1, <1>2, <1>3, <1>4 DEF Period, Between, Starts, At
<1>8. ASSUME ~raced' PROVE Joined'
  <2>1. Joined /\ \A u \in Setters \ {t} : ~At(u, "record")
    BY <1>1, <1>4, <1>8 DEF TrailInv
  <2>2. step[t].lvl = min_level /\ (history # << >> => history[Len(history)].new = step[t].old)
    BY <1>2, <2>1 DEF Joined, At
  <2>3. Chain(history') /\ (history' # << >> => history'[Len(history')].new = min_level)
    BY <1>4, <2>1, <2>2 DEF Joined
  <2>4. \A u \in Setters : ~At(u, "record")'
    BY <1>3, <2>1 DEF At
  <2> QED
    BY <1>2, <1>3, <2>1, <2>3, <2>4 DEF Joined, At
<1> QED
  BY <1>5, <1>6, <1>7, <1>8 DEF LevelInv, TrailInv

LEMMA TemporaryStep ==
    ASSUME LevelInv, NEW t \in Setters, NEW l \in Levels, NEW d \in 0..MaxDuration, Temporary(t, l, d)
    PROVE  LevelInv'
<1>1. TypeOK /\ Mutex /\ Period /\ TrailInv
  BY DEF LevelInv
<1>2. temp \in Periods /\ step \in [Setters -> Calls] /\ min_level \in Levels
  BY <1>1, OldTypes
<1>3. PICK c : c = [NoStep EXCEPT !.pc = "tempExchange", !.op = "temporary", !.lvl = l, !.first = ~temp.active]
  OBVIOUS
<1>4. c \in Calls /\ c.pc = "tempExchange" /\ c.first = ~temp.active /\ ~c.late
  <2>1. (~temp.active) \in BOOLEAN
    BY <1>2, PeriodFields
  <2> QED
    BY <1>3, <2>1, LevelsAssumption DEF NoStep, Calls, Locations, Operations
<1>5. step' = [u \in Setters |-> IF u = t THEN c ELSE [step[u] EXCEPT !.late = FALSE]]
      /\ Free /\ mtx' = t /\ UNCHANGED <<min_level, history, capacity, replaced, raced>> /\ step[t].pc = "idle"
  BY <1>3 DEF Temporary, audit, ghosts, Begin, At
<1>6. ASSUME NEW u \in Setters \ {t}
      PROVE  step'[u] \in Calls /\ step'[u].pc = step[u].pc /\ step'[u].lvl = step[u].lvl
             /\ step'[u].old = step[u].old /\ step'[u].first = step[u].first /\ ~step'[u].late
  <2>1. step[u] \in Calls /\ step'[u] = [step[u] EXCEPT !.late = FALSE]
    BY <1>2, <1>5
  <2> QED
    BY <2>1 DEF Calls
<1>7. step' \in [Setters -> Calls] /\ step'[t] = c
  BY <1>4, <1>5, <1>6
<1>8. temp' \in Periods /\ temp'.active
      /\ temp'.original = IF temp.active THEN temp.original ELSE min_level
  <2>1. temp.original \in Levels
    BY <1>2, PeriodFields
  <2> QED
    BY <1>2, <2>1 DEF Temporary, Periods
<1>9. \A u \in Setters : ~Between(u)
  BY <1>1, <1>5, ThreadsAssumption DEF Mutex, Free
<1>10. TypeOK'
  BY <1>1, <1>5, <1>7, <1>8, OldTypes, NewTypes
<1>11. Mutex'
  BY <1>4, <1>5, <1>6, <1>7, <1>9 DEF Mutex, Between
<1>12. LateCalls'
  BY <1>4, <1>6, <1>7 DEF LateCalls
<1>13. Period'
  <2>1. \A u \in Setters \ {t} : ~Starts(u) /\ ~Starts(u)'
    BY <1>6, <1>9 DEF Starts, Between, At
  <2>2. Starts(t)' <=> ~temp.active
    BY <1>4, <1>7 DEF Starts, At
  <2>3. ~Starts(t)
    BY <1>5 DEF Starts, At
  <2> QED
    BY <1>1, <1>5, <1>8, <2>1, <2>2, <2>3 DEF Period
<1>14. ASSUME ~raced' PROVE Joined'
  <2>1. Joined
    BY <1>1, <1>5, <1>14 DEF TrailInv
  <2>2. \A u \in Setters : /\ At(u, "record")' <=> At(u, "record")
                           /\ ~At(u, "revert")'
                           /\ At(u, "record") => step'[u].lvl = step[u].lvl /\ step'[u].old = step[u].old
    BY <1>4, <1>5, <1>6, <1>7, <1>9 DEF At, Between
  <2> QED
    BY <1>5, <2>1, <2>2 DEF Joined
<1> QED
  BY <1>10, <1>11, <1>12, <1>13, <1>14 DEF LevelInv, TrailInv

LEMMA TemporaryExchangeStep ==
    ASSUME LevelInv, NEW t \in Setters, TemporaryExchange(t)
    PROVE  LevelInv'
<1>1. TypeOK /\ Mutex /\ Period /\ LateCalls /\ TrailInv
  BY DEF LevelInv
<1>2. step[t].pc = "tempExchange" /\ step[t].lvl \in Levels /\ min_level \in Levels /\ replaced \in Levels
      /\ Return(t) /\ min_level' = step[t].lvl /\ replaced' = (IF step[t].first THEN min_level ELSE replaced)
      /\ RecordChange(t, min_level, step[t].lvl) /\ mtx' = NoSetter /\ temp' = temp
  BY <1>1, OldTypes, CallFields DEF TemporaryExchange, At
<1>3. step' \in [Setters -> Calls] /\ step'[t].pc = "idle" /\ ~step'[t].late
      /\ \A u \in Setters \ {t} : step'[u] = step[u]
  BY <1>1, <1>2, Ends, NoCallFields
<1>4. /\ history' \in Seq(Changes) /\ Len(history') <= capacity' /\ capacity' = capacity /\ raced' \in BOOLEAN
      /\ (~raced' => ~raced /\ \A u \in Setters \ {t} : ~At(u, "record"))
      /\ Chain(history) /\ (history # << >> => history[Len(history)].new = min_level) =>
            Chain(history') /\ (history' # << >> => history'[Len(history')].new = step[t].lvl)
  BY <1>1, <1>2, Records
<1>5. mtx = t /\ \A u \in Setters \ {t} : ~Between(u)
  BY <1>1, <1>2 DEF Mutex, Between
<1>6. TypeOK'
  BY <1>1, <1>2, <1>3, <1>4, OldTypes, NewTypes
<1>7. Mutex' /\ LateCalls'
  BY <1>1, <1>2, <1>3, <1>5, ThreadsAssumption DEF Mutex, Between, LateCalls
<1>8. Period'
  <2>1. \A u \in Setters : ~Between(u)' /\ ~Starts(u)'
    BY <1>3, <1>5 DEF Between, Starts, At
  <2>2. \A u \in Setters \ {t} : ~Starts(u)
    BY <1>5 DEF Between, Starts, At
  <2>3. Starts(t) <=> step[t].first
    BY <1>2 DEF Starts, At
  <2>4. ~raced' /\ temp.active => temp.original = replaced'
    BY <1>1, <1>2, <1>4, <2>2, <2>3 DEF Period
  <2> QED
    BY <1>2, <2>1, <2>4 DEF Period
<1>9. ASSUME ~raced' PROVE Joined'
  <2>1. Joined /\ \A u \in Setters : ~At(u, "record")
    BY <1>1, <1>2, <1>4, <1>9 DEF TrailInv, At
  <2>2. Chain(history') /\ (history' # << >> => history'[Len(history')].new = min_level')
    BY <1>2, <1>4, <2>1 DEF Joined
  <2>3. \A u \in Setters : ~At(u, "record")' /\ ~At(u, "revert")'
    BY <1>3, <1>5, <2>1 DEF At, Between
  <2> QED
    BY <2>2, <2>3 DEF Joined
<1> QED
  BY <1>6, <1>7, <1>8, <1>9 DEF LevelInv, TrailInv

\* The first half of a cancel, and of a check that finds the period over.
LEMMA BeginRevertStep ==
    ASSUME LevelInv, NEW t \in Setters, BeginRevert(t), Free, temp.active, step[t].pc \in {"idle", "check"}
    PROVE  LevelInv'
<1>1. TypeOK /\ Mutex /\ Period /\ LateCalls /\ TrailInv
  BY DEF LevelInv
<1>2. mtx' = t /\ step' = [step EXCEPT ![t].pc = "revert", ![t].old = min_level] /\ min_level \in Levels
      /\ UNCHANGED <<min_level, temp, history, capacity, replaced, raced>>
  BY <1>1, OldTypes DEF BeginRevert, audit, ghosts
<1>3. /\ step' \in [Setters -> Calls] /\ \A u \in Setters \ {t} : step'[u] = step[u]
      /\ step'[t].pc = "revert" /\ step'[t].old = min_level /\ step'[t].late = step[t].late
  <2>1. "revert" \in Locations
    BY DEF Locations
  <2> QED
    BY <1>1, <1>2, <2>1, Loads
<1>4. \A u \in Setters : ~Between(u)
  BY <1>1, ThreadsAssumption DEF Mutex, Free
<1>5. TypeOK'
  BY <1>1, <1>2, <1>3, OldTypes, NewTypes
<1>6. Mutex' /\ LateCalls'
  BY <1>1, <1>2, <1>3, <1>4 DEF Mutex, Between, LateCalls
<1>7. Period'
  BY <1>1, <1>2, <1>3, <1>4 DEF Period, Between, Starts, At
<1>8. TrailInv'
  BY <1>1, <1>2, <1>3 DEF TrailInv, Joined, At
<1> QED
  BY <1>5, <1>6, <1>7, <1>8 DEF LevelInv

LEMMA RevertStep ==
    ASSUME LevelInv, NEW t \in Setters, Revert(t)
    PROVE  LevelInv'
<1>1. TypeOK /\ Mutex /\ Period /\ LateCalls /\ TrailInv
  BY DEF LevelInv
<1>2. step[t].pc = "revert" /\ step[t].old \in Levels /\ temp \in Periods /\ temp.original \in Levels
      /\ min_level' = temp.original /\ RecordChange(t, step[t].old, temp.original) /\ mtx' = NoSetter
      /\ temp' = [temp EXCEPT !.active = FALSE] /\ replaced' = replaced
  BY <1>1, OldTypes, CallFields, PeriodFields DEF Revert, At
<1>3. temp' \in Periods /\ ~temp'.active
  BY <1>2 DEF Periods
<1>4. step' \in [Setters -> Calls] /\ step'[t].pc \in {"idle", "exchange", "admit"}
      /\ \A u \in Setters \ {t} : step'[u] = step[u]
  <2>1. Resume(t) \in {"idle", "exchange", "admit"}
    BY DEF Resume
  <2>2. CASE Return(t)
    BY <1>1, <2>2, Ends, NoCallFields
  <2>3. CASE Goto(t, Resume(t))
    BY <1>1, <2>1, <2>3, Goes DEF Locations
  <2> QED
    BY <2>2, <2>3 DEF Revert
<1>5. /\ history' \in Seq(Changes) /\ Len(history') <= capacity' /\ capacity' = capacity /\ raced' \in BOOLEAN
      /\ (~raced' => ~raced /\ \A u \in Setters \ {t} : ~At(u, "record"))
      /\ Chain(history) /\ (history # << >> => history[Len(history)].new = step[t].old) =>
            Chain(history') /\ (history' # << >> => history'[Len(history')].new = temp.original)
  BY <1>1, <1>2, Records
<1>6. mtx = t /\ \A u \in Setters \ {t} : ~Between(u)
  BY <1>1, <1>2 DEF Mutex, Between
<1>7. TypeOK'
  BY <1>1, <1>2, <1>3, <1>4, <1>5, OldTypes, NewTypes
<1>8. \A u \in Setters : ~Between(u)'
  BY <1>4, <1>6 DEF Between
<1>9. Mutex' /\ Period' /\ LateCalls'
  BY <1>2, <1>3, <1>8, ThreadsAssumption DEF Mutex, Period, LateCalls
<1>10. ASSUME ~raced' PROVE Joined'
  <2>1. Joined /\ \A u \in Setters : ~At(u, "record")
    BY <1>1, <1>2, <1>5, <1>10 DEF TrailInv, At
  <2>2. step[t].old = min_level
    BY <1>2, <2>1 DEF Joined, At
  <2>3. Chain(history') /\ (history' # << >> => history'[Len(history')].new = min_level')
    BY <1>2, <1>5, <2>1, <2>2 DEF Joined
  <2>4. \A u \in Setters : ~At(u, "record")' /\ ~At(u, "revert")'
    BY <1>4, <1>8, <2>1 DEF At, Between
  <2> QED
    BY <2>3, <2>4 DEF Joined
<1> QED
  BY <1>7, <1>9, <1>10 DEF LevelInv, TrailInv

LEMMA CheckStep ==
    ASSUME LevelInv, NEW t \in Setters, Check(t)
    PROVE  LevelInv'
<1>1. TypeOK /\ LateCalls /\ step[t].pc = "check" /\ Free
  BY DEF LevelInv, Check, At
<1>2. CASE Expired
  BY <1>1, <1>2, BeginRevertStep DEF Check, Expired
<1>3. CASE ~Expired
  <2>1. Goto(t, Resume(t)) /\ UNCHANGED <<min_level, temp, history, capacity, mtx, replaced, raced>>
    BY <1>3 DEF Check, audit, ghosts
  <2>2. Resume(t) \in {"idle", "exchange", "admit"}
    BY DEF Resume
  <2>3. step[t].late => ~temp.active
    BY <1>1, <1>3 DEF LateCalls, Expired
  <2> QED
    BY <1>1, <2>1, <2>2, <2>3, Goes, PlainStep DEF Locations
<1> QED
  BY <1>2, <1>3

LEMMA LevelInvStep == LevelInv /\ [LevelNext]_levelVars => LevelInv'
<1> SUFFICES ASSUME LevelInv, [LevelNext]_levelVars PROVE LevelInv'
  OBVIOUS
<1>1. ASSUME NEW t \in Setters, Cancel(t) PROVE LevelInv'
  BY <1>1, BeginRevertStep DEF Cancel, Begin, At
<1>2. ASSUME NEW t \in Setters, Step(t) PROVE LevelInv'
  BY <1>2, CheckStep, RevertStep, ExchangeStep, DynamicRecordStep, TemporaryExchangeStep, PlainSteps DEF Step
<1>3. CASE UNCHANGED levelVars
  BY <1>3, NoCallMoves, OldTypes DEF levelVars, audit, ghosts, LevelInv
<1> QED
  BY <1>1, <1>2, <1>3, QuietSteps, SetLevelStep, PlainSteps, TemporaryStep DEF LevelNext

-----------------------------------------------------------------------------
(* The theorems.                                                           *)

LEMMA LevelAlways == LevelSpec => []LevelInv
  BY InitInv, LevelInvStep, PTL DEF LevelSpec

\* The level's variables keep their types, and the history never outgrows its
\* capacity.
THEOREM LevelTypeCorrect == LevelSpec => []TypeOK
<1>1. LevelInv => TypeOK
  BY DEF LevelInv
<1> QED
  BY <1>1, LevelAlways, PTL

\* The history is a trail of the changes that ends at the level in force, until
\* an unlocked change has fallen between two accesses under mtx_ or overtaken
\* another one.
THEOREM HistoryIsTrail == LevelSpec => []TrailUnlessRaced
<1>1. LevelInv => TrailUnlessRaced
  BY DEF LevelInv, TrailInv, Joined, Chain, TrailUnlessRaced, Trail
<1> QED
  BY <1>1, LevelAlways, PTL

\* The history keeps to its capacity and is such a trail.
THEOREM HistoryKeptAlways == LevelSpec => []HistoryKept
  BY LevelTypeCorrect, HistoryIsTrail, PTL DEF HistoryKept

\* The step that ends a period restores the level the period took over from,
\* and no call that began after the period is admitted while it is active.
THEOREM TemporaryEnds == LevelSpec => TemporaryLevelEnds
<1>1. LevelInv /\ [LevelNext]_levelVars => [RevertRestores /\ ExpiredLevelUnused]_levelVars
  <2> SUFFICES ASSUME LevelInv, LevelNext PROVE RevertRestores /\ ExpiredLevelUnused
    BY DEF levelVars
  <2>1. TypeOK /\ Mutex /\ Period /\ LateCalls
    BY DEF LevelInv
  <2>2. ASSUME temp.active, ~temp.active', ~raced PROVE min_level' = replaced
    <3>1. PICK t \in Setters : Revert(t)
      <4>1. CASE Tick
        BY <2>1, <2>2, <4>1 DEF Tick, TypeOK
      <4>2. ASSUME NEW u \in Setters, NEW l, NEW d, Temporary(u, l, d) PROVE FALSE
        BY <2>2, <4>2 DEF Temporary
      <4>3. ASSUME NEW u \in Setters, Step(u), ~Revert(u) PROVE FALSE
        BY <2>2, <4>3 DEF Step, Check, BeginRevert, ExchangeLevel, DynamicRecord, TemporaryExchange, LogAdmit, LogDrop, LogDeliver
      <4>4. ASSUME NEW u \in Setters, Cancel(u) \/ ClearHistory(u) PROVE FALSE
        BY <2>2, <4>4 DEF Cancel, BeginRevert, ClearHistory
      <4>5. ASSUME NEW u \in Setters, NEW l, SetLevel(u, l) \/ DynamicCall(u, l) \/ LogCall(u, l) PROVE FALSE
        BY <2>2, <4>5 DEF SetLevel, DynamicCall, LogCall
      <4>6. ASSUME NEW u \in Setters, NEW n, SetCapacity(u, n) PROVE FALSE
        BY <2>2, <4>6 DEF SetCapacity
      <4> QED
        BY <4>1, <4>2, <4>3, <4>4, <4>5, <4>6 DEF LevelNext
    <3>2. \A u \in Setters : ~Starts(u)
      BY <2>1, <3>1 DEF Revert, Mutex, Between, Starts, At
    <3> QED
      BY <2>1, <2>2, <3>1, <3>2 DEF Period, Revert
  <2>3. ASSUME NEW t \in Setters, At(t, "admit"), step[t].late PROVE ~temp.active
    BY <2>1, <2>3 DEF LateCalls, At
  <2> QED
    BY <2>2, <2>3 DEF RevertRestores, ExpiredLevelUnused
<1> QED
  BY <1>1, LevelAlways, PTL DEF LevelSpec, TemporaryLevelEnds
=============================================================================
