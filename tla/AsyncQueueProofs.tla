-------------------------- MODULE AsyncQueueProofs --------------------------
(***************************************************************************)
(* Proofs about AsyncQueue, for any threads, any number of records and any *)
(* number of shutdown calls: nothing is lost or reordered, what a shutdown *)
(* throws away is counted, few records come in late, and a push never      *)
(* leaves all consumers asleep.  And about ThreadPool, for any workers and *)
(* tasks: every task is somewhere, once, and no wakeup is lost except that *)
(* of the destructor, which is given without the mutex.  Both implement    *)
(* the abstract WorkQueue.                                                 *)
(***************************************************************************)
EXTENDS AsyncQueue, ThreadPool, FiniteSetTheorems, TLAPS

\* The records are numbered as they come in, so the queue holds the last ones.
Gone == inserted - Len(queue)

Numbered ==
    /\ Len(queue) <= inserted
    /\ \A i \in 1..Len(queue) : queue[i] = Gone + i
    /\ popped \cup discarded = 1..Gone
    /\ popped \cap discarded = {}

\* A shutdown that threw records away has returned: the call after it is
\* another one.
ReturnedOnce(t) == calls[t] >= 1 /\ (At(t, "idle") \/ calls[t] >= 2)

Counted ==
    /\ \A s \in Closers : ~At(s, "idle") => calls[s] >= 1
    /\ discarded # {} => \E t \in Closers : ReturnedOnce(t)
    /\ dropped <= Cardinality(discarded) /\ (dropped = 0 => discarded = {})
    /\ OneShutdown => dropped = Cardinality(discarded)

\* A producer that has passed the test of the flag may still insert a record;
\* a consumer that stopped has found the queue empty after the shutdown.
Passed == {p \in Producers : At(p, "pushInsert")}

Late ==
    /\ shutdown => cutoff <= inserted /\ inserted - cutoff + Cardinality(Passed) <= Cardinality(Producers)
    /\ \A c \in Consumers : At(c, "stopped") => shutdown /\ cutoff <= Gone

\* The mutex is held over a step by the consumer that is about to block, and
\* the queue stays empty until it does.
Mutex ==
    /\ \A c \in Consumers : mtx = c <=> At(c, "popBlock")
    /\ ~Free => queue = << >>

QueueInv == TypeOK /\ Numbered /\ Counted /\ Late

\* A record in the queue has a consumer awake, or a push about to notify one.
PushWakes ==
    queue # << >> /\ Consumers # {} =>
        (\E p \in Producers : At(p, "pushNotify")) \/ \E c \in Consumers : c \notin asleep


-----------------------------------------------------------------------------
(* Types.                                                                  *)

Locations == {"idle", "pushInsert", "pushNotify", "popBlock", "popWait", "stopped",
              "notify", "notifyWait", "readEmpty", "drainTest", "drainWait"}

\* A thread that goes somewhere leaves the others where they are.
LEMMA GotoMoves ==
    ASSUME TypeOK, NEW t \in Threads, NEW l \in Locations, Goto(t, l)
    PROVE  /\ pc' \in [Threads -> Locations]
           /\ pc'[t] = l /\ \A u \in Threads \ {t} : pc'[u] = pc[u]
  BY DEF TypeOK, Goto, Locations

LEMMA InitTypes == QueueInit => TypeOK
<1> SUFFICES ASSUME QueueInit PROVE TypeOK
  OBVIOUS
<1>1. \A S : << >> \in Seq(S)
  OBVIOUS
<1>2. {0, MaxRecords} \subseteq 0..MaxRecords /\ 0 \in 0..MaxShutdowns
  BY BoundsAssumption
<1> QED
  BY <1>1, <1>2 DEF QueueInit, TypeOK

LEMMA TypesStep == TypeOK /\ Numbered /\ [QueueNext]_queueVars => TypeOK'
<1> SUFFICES ASSUME TypeOK, Numbered, [QueueNext]_queueVars PROVE TypeOK'
  OBVIOUS
<1> USE BoundsAssumption
<1>1. ASSUME NEW p \in Producers, PushCheck(p) PROVE TypeOK'
  BY <1>1, GotoMoves DEF PushCheck, TypeOK, history, Threads, Locations
<1>2. ASSUME NEW p \in Producers, PushInsert(p) PROVE TypeOK'
  <2>1. pc' \in [Threads -> Locations]
    BY <1>2, GotoMoves DEF PushInsert, Threads, Locations
  <2>2. inserted' \in 1..MaxRecords
    BY <1>2 DEF PushInsert, TypeOK
  <2>3. queue' \in Seq(1..MaxRecords)
    BY <1>2, <2>2 DEF PushInsert, TypeOK
  <2> QED
    BY <1>2, <2>1, <2>2, <2>3 DEF PushInsert, TypeOK, Locations
<1>3. ASSUME NEW p \in Producers, PushNotify(p) PROVE TypeOK'
  <2>1. pc' \in [Threads -> Locations]
    BY <1>3, GotoMoves DEF PushNotify, Threads, Locations
  <2>2. asleep' \subseteq Consumers \cup Closers
    BY <1>3 DEF PushNotify, TypeOK
  <2> QED
    BY <1>3, <2>1, <2>2 DEF PushNotify, TypeOK, Locations, history
<1>4. ASSUME NEW c \in Consumers, PopTake(c) PROVE TypeOK'
  <2>1. pc' \in [Threads -> Locations]
    BY <1>4, GotoMoves DEF PopTake, Threads, Locations
  <2>2. queue' \in Seq(1..MaxRecords) /\ Head(queue) \in 1..MaxRecords
    BY <1>4 DEF PopTake, TypeOK
  <2>3. asleep' \subseteq Consumers \cup Closers
    BY <1>4 DEF PopTake, TypeOK
  <2> QED
    BY <1>4, <2>1, <2>2, <2>3 DEF PopTake, TypeOK, Locations
<1>5. ASSUME NEW c \in Consumers, PopClosed(c) PROVE TypeOK'
  BY <1>5, GotoMoves DEF PopClosed, TypeOK, history, Threads, Locations
<1>6. ASSUME NEW c \in Consumers, PopMustWait(c) PROVE TypeOK'
  BY <1>6, GotoMoves DEF PopMustWait, TypeOK, history, Threads, Locations
<1>7. ASSUME NEW c \in Consumers, PopBlock(c) PROVE TypeOK'
  BY <1>7, GotoMoves DEF PopBlock, TypeOK, history, Threads, Locations
<1>8. ASSUME NEW t \in Threads, SpuriousWakeup(t) PROVE TypeOK'
  BY <1>8 DEF SpuriousWakeup, TypeOK, history
<1>9. ASSUME NEW s \in Closers, ShutdownNotify(s) PROVE TypeOK'
  <2>1. pc' \in [Threads -> Locations]
    BY <1>9, GotoMoves DEF ShutdownNotify, Threads, Locations
  <2> QED
    BY <1>9, <2>1 DEF ShutdownNotify, TypeOK, history, Locations
<1>10. ASSUME NEW s \in Closers, ShutdownReturn(s) PROVE TypeOK'
  BY <1>10, GotoMoves DEF ShutdownReturn, TypeOK, history, Threads, Locations
<1>11. ASSUME NEW s \in Closers, DrainTest(s) PROVE TypeOK'
  <2>1. pc' \in [Threads -> Locations]
    BY <1>11, GotoMoves DEF DrainTest, Threads, Locations
  <2> QED
    BY <1>11, <2>1 DEF DrainTest, TypeOK, history, Locations
<1>12. ASSUME NEW s \in Closers, DrainTimeout(s) PROVE TypeOK'
  <2>1. pc' \in [Threads -> Locations]
    BY <1>12, GotoMoves DEF DrainTimeout, Threads, Locations
  <2>2. Len(queue) \in 0..MaxRecords /\ Queued \subseteq 1..MaxRecords
    BY DEF Queued, Numbered, TypeOK
  <2>3. \A S : << >> \in Seq(S)
    OBVIOUS
  <2> QED
    BY <1>12, <2>1, <2>2, <2>3 DEF DrainTimeout, TypeOK, Locations
<1>13. ASSUME NEW s \in Closers, NEW wait \in BOOLEAN, ShutdownStore(s, wait) PROVE TypeOK'
  <2>1. pc' \in [Threads -> Locations]
    BY <1>13, GotoMoves DEF ShutdownStore, Threads, Locations
  <2> QED
    BY <1>13, <2>1 DEF ShutdownStore, TypeOK, Locations
<1>14. CASE UNCHANGED queueVars
  BY <1>14 DEF queueVars, history, TypeOK
<1> QED
  BY <1>1, <1>2, <1>3, <1>4, <1>5, <1>6, <1>7, <1>8, <1>9, <1>10, <1>11, <1>12, <1>13, <1>14
     DEF QueueNext, ProducerStep, ConsumerStep, CloserStep

-----------------------------------------------------------------------------
(* Records keep their order and are nowhere twice.                         *)

\* What is in the queue are the numbers after those that are gone.
LEMMA QueuedNumbers ==
    ASSUME TypeOK, Numbered
    PROVE  /\ Gone \in 0..inserted /\ Queued = Gone + 1..inserted
           /\ IsFiniteSet(Queued) /\ Cardinality(Queued) = Len(queue)
<1>1. Gone \in 0..inserted /\ Len(queue) \in Nat /\ inserted \in Nat /\ inserted = Gone + Len(queue)
  BY DEF TypeOK, Numbered, Gone
<1>2. Queued \subseteq Gone + 1..inserted
  BY <1>1 DEF Queued, Numbered
<1>3. ASSUME NEW r \in Gone + 1..inserted PROVE r \in Queued
  <2>1. r - Gone \in 1..Len(queue) /\ Gone + (r - Gone) = r
    BY <1>1
  <2> QED
    BY <2>1 DEF Queued, Numbered
<1>4. Queued = Gone + 1..inserted
  BY <1>2, <1>3
<1>5. IsFiniteSet(Gone + 1..inserted)
      /\ Cardinality(Gone + 1..inserted) = IF Gone + 1 > inserted THEN 0 ELSE inserted - (Gone + 1) + 1
  <2>1. Gone + 1 \in Int /\ inserted \in Int
    BY <1>1
  <2> QED
    BY <2>1, FS_Interval
<1> QED
  BY <1>1, <1>4, <1>5

LEMMA NumberedStep == TypeOK /\ Numbered /\ [QueueNext]_queueVars => Numbered'
<1> SUFFICES ASSUME TypeOK, Numbered, [QueueNext]_queueVars PROVE Numbered'
  OBVIOUS
<1>1. inserted \in Nat /\ Len(queue) \in Nat /\ Gone \in 0..inserted /\ inserted = Gone + Len(queue)
  BY DEF TypeOK, Numbered, Gone
<1>2. ASSUME NEW p \in Producers, PushInsert(p) PROVE Numbered'
  <2>1. Len(queue') = Len(queue) + 1 /\ queue'[Len(queue) + 1] = inserted + 1
        /\ \A i \in 1..Len(queue) : queue'[i] = queue[i]
    BY <1>2 DEF PushInsert, TypeOK
  <2>2. Gone' = Gone
    BY <1>1, <1>2, <2>1 DEF PushInsert, Gone
  <2>3. \A i \in 1..Len(queue') : queue'[i] = Gone + i
    BY <1>1, <2>1 DEF Numbered
  <2> QED
    BY <1>1, <1>2, <2>1, <2>2, <2>3 DEF PushInsert, Numbered
<1>3. ASSUME NEW c \in Consumers, PopTake(c) PROVE Numbered'
  <2>1. Len(queue') = Len(queue) - 1 /\ Head(queue) = queue[1] /\ Len(queue) >= 1
        /\ \A i \in 1..Len(queue') : queue'[i] = queue[i + 1]
    BY <1>3 DEF PopTake, TypeOK
  <2>2. Gone' = Gone + 1 /\ Head(queue) = Gone + 1
    BY <1>1, <1>3, <2>1 DEF PopTake, Gone, Numbered
  <2>3. \A i \in 1..Len(queue') : queue'[i] = Gone' + i
    BY <1>1, <2>1, <2>2 DEF Numbered
  <2>4. popped' \cup discarded' = 1..Gone'
    BY <1>1, <1>3, <2>2 DEF Numbered, PopTake
  <2>5. popped' \cap discarded' = {}
    BY <1>1, <1>3, <2>2 DEF Numbered, PopTake
  <2> QED
    BY <1>1, <1>3, <2>1, <2>3, <2>4, <2>5 DEF Numbered, PopTake
<1>4. ASSUME NEW s \in Closers, DrainTimeout(s) PROVE Numbered'
  <2>1. Len(queue') = 0 /\ Gone' = inserted
    BY <1>1, <1>4 DEF DrainTimeout, Gone
  <2>2. popped' \cup discarded' = 1..inserted /\ popped' \cap discarded' = {}
    BY <1>1, <1>4, QueuedNumbers DEF DrainTimeout, Numbered
  <2> QED
    BY <1>1, <1>4, <2>1, <2>2 DEF DrainTimeout, Numbered
<1>5. ASSUME UNCHANGED <<queue, inserted, popped, discarded>> PROVE Numbered'
  BY <1>5 DEF Numbered, Gone
<1> HIDE DEF Numbered
<1>6. ASSUME NEW p \in Producers, PushCheck(p) \/ PushNotify(p) PROVE Numbered'
  BY <1>5, <1>6 DEF PushCheck, PushNotify, history
<1>7. ASSUME NEW c \in Consumers, PopClosed(c) \/ PopMustWait(c) \/ PopBlock(c) PROVE Numbered'
  BY <1>5, <1>7 DEF PopClosed, PopMustWait, PopBlock, history
<1>8. ASSUME NEW t \in Threads, SpuriousWakeup(t) PROVE Numbered'
  BY <1>5, <1>8 DEF SpuriousWakeup, history
<1>9. ASSUME NEW s \in Closers, ShutdownNotify(s) \/ ShutdownReturn(s) \/ DrainTest(s) PROVE Numbered'
  BY <1>5, <1>9 DEF ShutdownNotify, ShutdownReturn, DrainTest, history
<1>10. ASSUME NEW s \in Closers, NEW wait \in BOOLEAN, ShutdownStore(s, wait) PROVE Numbered'
  BY <1>5, <1>10 DEF ShutdownStore
<1>11. CASE UNCHANGED queueVars
  BY <1>5, <1>11 DEF queueVars, history
<1> QED
  BY <1>2, <1>3, <1>4, <1>6, <1>7, <1>8, <1>9, <1>10, <1>11
     DEF QueueNext, ProducerStep, ConsumerStep, CloserStep

-----------------------------------------------------------------------------
(* The drop count.                                                         *)

LEMMA CountedStep == TypeOK /\ Numbered /\ Counted /\ [QueueNext]_queueVars => Counted'
<1> SUFFICES ASSUME TypeOK, Numbered, Counted, [QueueNext]_queueVars PROVE Counted'
  OBVIOUS
<1>1. \A s \in Closers : s \in Threads /\ calls[s] \in Nat
  BY DEF TypeOK, Threads
<1>2. dropped \in Nat /\ IsFiniteSet(discarded) /\ Cardinality(discarded) \in Nat
  <2>1. 1 \in Int /\ MaxRecords \in Int /\ dropped \in Nat /\ discarded \in SUBSET (1..MaxRecords)
    BY BoundsAssumption DEF TypeOK
  <2>2. IsFiniteSet(1..MaxRecords)
    BY <2>1, FS_Interval
  <2>3. IsFiniteSet(discarded)
    BY <2>1, <2>2, FS_Subset
  <2> QED
    BY <2>1, <2>3, FS_CardinalityType
\* Whatever leaves the counters alone and moves no closer.
<1>3. ASSUME UNCHANGED <<calls, discarded, dropped>>, \A s \in Closers : pc'[s] = pc[s]
      PROVE  Counted'
  BY <1>3 DEF Counted, ReturnedOnce, OneShutdown, At
\* A closer that goes on within its call, or returns from it.
<1>4. ASSUME NEW s \in Closers, NEW l \in Locations, Goto(s, l), ~At(s, "idle"),
             UNCHANGED <<calls, discarded, dropped>>
      PROVE  Counted'
  <2>1. \A t \in Closers : t # s => pc'[t] = pc[t]
    BY <1>1, <1>4, GotoMoves
  <2>2. calls[s] >= 1
    BY <1>4 DEF Counted
  <2>3. \A t \in Closers : ReturnedOnce(t) => ReturnedOnce(t)'
    BY <1>4, <2>1 DEF ReturnedOnce, At
  <2>4. \A t \in Closers : ~At(t, "idle")' => calls'[t] >= 1
    BY <1>4, <2>1, <2>2 DEF Counted, At
  <2> QED
    BY <1>4, <2>3, <2>4 DEF Counted, OneShutdown
<1>5. ASSUME NEW p \in Producers, PushCheck(p) \/ ProducerStep(p) PROVE Counted'
  <2>1. UNCHANGED <<calls, discarded, dropped>> /\ \E l \in Locations : Goto(p, l)
    BY <1>5 DEF ProducerStep, PushCheck, PushInsert, PushNotify, history, Locations
  <2> QED
    BY <1>3, <2>1, GotoMoves, ThreadsAssumption DEF Threads
<1>6. ASSUME NEW c \in Consumers, ConsumerStep(c) PROVE Counted'
  <2>1. UNCHANGED <<calls, discarded, dropped>> /\ \E l \in Locations : Goto(c, l)
    BY <1>6 DEF ConsumerStep, PopTake, PopClosed, PopMustWait, PopBlock, history, Locations
  <2> QED
    BY <1>3, <2>1, GotoMoves, ThreadsAssumption DEF Threads
<1>7. ASSUME NEW t \in Threads, SpuriousWakeup(t) PROVE Counted'
  BY <1>3, <1>7 DEF SpuriousWakeup, history
<1>8. ASSUME NEW s \in Closers, ShutdownNotify(s) \/ ShutdownReturn(s) \/ DrainTest(s)
      PROVE  Counted'
  <2>1. UNCHANGED <<calls, discarded, dropped>> /\ ~At(s, "idle") /\ \E l \in Locations : Goto(s, l)
    BY <1>8 DEF ShutdownNotify, ShutdownReturn, DrainTest, history, Locations, At
  <2> QED
    BY <1>4, <2>1
\* The call that throws records away is the first that does, if it is the only one.
<1>9. ASSUME NEW s \in Closers, DrainTimeout(s) PROVE Counted'
  <2>1. CASE queue = << >>
    <3>1. Queued = {}
      BY <2>1 DEF Queued
    <3>2. UNCHANGED <<calls, discarded, dropped>> /\ ~At(s, "idle") /\ Goto(s, "idle")
      BY <1>9, <2>1, <3>1 DEF DrainTimeout, At
    <3> QED
      BY <1>4, <3>2 DEF Locations
  <2>2. CASE queue # << >>
    <3>1. dropped' = Len(queue) /\ Len(queue) \in Nat \ {0} /\ discarded' = discarded \cup Queued
          /\ UNCHANGED calls /\ Goto(s, "idle") /\ At(s, "drainWait")
      BY <1>9, <2>2 DEF DrainTimeout, TypeOK
    <3>2. IsFiniteSet(Queued) /\ Cardinality(Queued) = Len(queue)
      BY QueuedNumbers
    <3>3. IsFiniteSet(discarded') /\ Cardinality(discarded') >= Len(queue)
      <4>1. IsFiniteSet(discarded') /\ Cardinality(discarded') \in Nat
        BY <1>2, <3>1, <3>2, FS_Union, FS_CardinalityType
      <4> QED
        BY <3>1, <3>2, <4>1, FS_Subset
    <3>4. calls[s] >= 1 /\ \A t \in Closers : t # s => pc'[t] = pc[t]
      BY <1>1, <3>1, GotoMoves DEF Counted, At, Locations
    <3>5. pc'[s] = "idle"
      BY <1>1, <3>1, GotoMoves DEF Locations
    <3>6. ReturnedOnce(s)'
      BY <3>1, <3>4, <3>5 DEF ReturnedOnce, At
    <3>7. \A t \in Closers : ~At(t, "idle")' => calls'[t] >= 1
      BY <3>1, <3>4, <3>5 DEF Counted, At
    <3>8. ASSUME OneShutdown' PROVE dropped' = Cardinality(discarded')
      <4>1. \A t \in Closers : calls[t] <= 1 /\ (calls[t] >= 1 => t = s)
        BY <1>1, <3>1, <3>4, <3>8 DEF OneShutdown
      <4>2. discarded = {}
        BY <1>1, <3>1, <4>1 DEF Counted, ReturnedOnce, At
      <4> QED
        BY <3>1, <3>2, <4>2
    <3> QED
      BY <3>1, <3>3, <3>6, <3>7, <3>8 DEF Counted
  <2> QED
    BY <2>1, <2>2
<1>10. ASSUME NEW s \in Closers, NEW wait \in BOOLEAN, ShutdownStore(s, wait) PROVE Counted'
  <2>1. UNCHANGED <<discarded, dropped>> /\ At(s, "idle") /\ calls'[s] = calls[s] + 1
        /\ \A t \in Closers : t # s => calls'[t] = calls[t]
    BY <1>10 DEF ShutdownStore, TypeOK
  <2>2. \A t \in Closers : t # s => pc'[t] = pc[t]
    BY <1>10 DEF ShutdownStore, Goto, TypeOK, Threads
  <2>3. \A t \in Closers : ReturnedOnce(t) => ReturnedOnce(t)'
    BY <1>1, <2>1, <2>2 DEF ReturnedOnce, At
  <2>4. OneShutdown' => OneShutdown
    BY <1>1, <2>1 DEF OneShutdown
  <2>5. \A t \in Closers : ~At(t, "idle")' => calls'[t] >= 1
    BY <1>1, <2>1, <2>2 DEF Counted, At
  <2> QED
    BY <2>1, <2>3, <2>4, <2>5 DEF Counted
<1>11. CASE UNCHANGED queueVars
  BY <1>3, <1>11 DEF queueVars, history
<1> QED
  BY <1>5, <1>6, <1>7, <1>8, <1>9, <1>10, <1>11 DEF QueueNext, CloserStep

-----------------------------------------------------------------------------
(* Late records.                                                           *)

\* Goto changes the set of producers that have passed the test by its thread only.
LEMMA PassedFinite ==
    ASSUME TypeOK
    PROVE  IsFiniteSet(Passed) /\ Cardinality(Passed) \in Nat /\ Cardinality(Producers) \in Nat
           /\ Cardinality(Passed) <= Cardinality(Producers)
<1>1. Passed \in SUBSET Producers /\ IsFiniteSet(Producers)
  BY ThreadsAssumption DEF Passed
<1> QED
  BY <1>1, FS_Subset, FS_CardinalityType

LEMMA LateStep == TypeOK /\ Numbered /\ Late /\ [QueueNext]_queueVars => Late'
<1> SUFFICES ASSUME TypeOK, Numbered, Late, [QueueNext]_queueVars PROVE Late'
  OBVIOUS
<1>1. inserted \in Nat /\ cutoff \in Nat /\ Gone \in 0..inserted /\ shutdown \in BOOLEAN
  BY QueuedNumbers DEF TypeOK
<1>2. Producers \cap Consumers = {} /\ Producers \cap Closers = {} /\ Consumers \cap Closers = {}
      /\ Producers \subseteq Threads /\ Consumers \subseteq Threads /\ Closers \subseteq Threads
  BY ThreadsAssumption DEF Threads
\* Whatever leaves the flag, the counts and these producers and consumers alone.
<1>3. ASSUME UNCHANGED <<shutdown, cutoff, inserted, Passed>>, Gone' \in Nat, Gone' >= Gone,
             \A c \in Consumers : At(c, "stopped")' => At(c, "stopped")
      PROVE  Late'
  BY <1>1, <1>3 DEF Late
<1>4. ASSUME NEW p \in Producers, PushCheck(p) PROVE Late'
  <2>1. ~shutdown' /\ \A c \in Consumers : pc'[c] = pc[c]
    BY <1>2, <1>4, GotoMoves DEF PushCheck, Locations
  <2> QED
    BY <1>4, <2>1 DEF Late, At, PushCheck
<1>5. ASSUME NEW p \in Producers, PushInsert(p) PROVE Late'
  <2>1. inserted' = inserted + 1 /\ Gone' = Gone
    BY <1>1, <1>5 DEF PushInsert, Gone, TypeOK
  <2>2. \A t \in Threads \ {p} : pc'[t] = pc[t]
    BY <1>2, <1>5, GotoMoves DEF PushInsert, Locations
  <2>3. p \in Passed /\ Passed' = Passed \ {p}
    BY <1>2, <1>5, <2>2, GotoMoves DEF Passed, PushInsert, Locations, At
  <2>4. Cardinality(Passed') = Cardinality(Passed) - 1
    BY <2>3, PassedFinite, FS_RemoveElement
  <2>5. \A c \in Consumers : pc'[c] = pc[c]
    BY <1>2, <2>2
  <2> QED
    BY <1>1, <1>5, <2>1, <2>4, <2>5, PassedFinite DEF Late, PushInsert, At
<1>6. ASSUME NEW p \in Producers, PushNotify(p) PROVE Late'
  <2>1. \A t \in Threads \ {p} : pc'[t] = pc[t]
    BY <1>2, <1>6, GotoMoves DEF PushNotify, Locations
  <2>2. Passed' = Passed
    BY <1>2, <1>6, <2>1, GotoMoves DEF Passed, PushNotify, Locations, At
  <2>3. \A c \in Consumers : pc'[c] = pc[c]
    BY <1>2, <2>1
  <2> QED
    BY <1>1, <1>3, <1>6, <2>2, <2>3 DEF PushNotify, At, Gone, history
<1>7. ASSUME NEW c \in Consumers, ConsumerStep(c) PROVE Late'
  <2>1. \A l \in Locations : Goto(c, l) =>
            Passed' = Passed /\ pc'[c] = l /\ \A d \in Consumers \ {c} : pc'[d] = pc[d]
    BY <1>2, GotoMoves DEF Passed, At
  <2>2. CASE PopTake(c)
    <3>1. Len(queue') = Len(queue) - 1 /\ inserted' = inserted
      BY <2>2 DEF PopTake, TypeOK
    <3>2. Gone' \in Nat /\ Gone' >= Gone
      BY <1>1, <3>1 DEF Gone, TypeOK
    <3>3. Passed' = Passed /\ pc'[c] = "idle" /\ \A d \in Consumers \ {c} : pc'[d] = pc[d]
      BY <2>1, <2>2 DEF PopTake, Locations
    <3>4. \A d \in Consumers : At(d, "stopped")' => At(d, "stopped")
      BY <3>3 DEF At
    <3> QED
      BY <1>3, <2>2, <3>2, <3>3, <3>4 DEF PopTake
  <2>3. CASE PopClosed(c)
    <3>1. Gone = inserted
      BY <1>1, <2>3 DEF PopClosed, Gone, TypeOK
    <3>2. Passed' = Passed /\ \A d \in Consumers \ {c} : pc'[d] = pc[d]
      BY <2>1, <2>3 DEF PopClosed, Locations
    <3> QED
      BY <1>1, <2>3, <3>1, <3>2 DEF Late, PopClosed, history, At, Gone
  <2>4. CASE PopMustWait(c) \/ PopBlock(c)
    <3>1. Passed' = Passed /\ pc'[c] # "stopped" /\ \A d \in Consumers \ {c} : pc'[d] = pc[d]
      BY <2>1, <2>4 DEF PopMustWait, PopBlock, Locations
    <3> QED
      BY <1>1, <1>3, <2>4, <3>1 DEF PopMustWait, PopBlock, history, At, Gone
  <2> QED
    BY <1>7, <2>2, <2>3, <2>4 DEF ConsumerStep
<1>8. ASSUME NEW t \in Threads, SpuriousWakeup(t) PROVE Late'
  BY <1>1, <1>3, <1>8 DEF SpuriousWakeup, history, Passed, At, Gone
<1>9. ASSUME NEW s \in Closers, NEW l \in Locations, Goto(s, l)
      PROVE  Passed' = Passed /\ \A c \in Consumers : pc'[c] = pc[c]
  BY <1>2, <1>9, GotoMoves DEF Passed, At
<1>10. ASSUME NEW s \in Closers, ShutdownNotify(s) \/ ShutdownReturn(s) \/ DrainTest(s) PROVE Late'
  <2>1. Passed' = Passed /\ \A c \in Consumers : pc'[c] = pc[c]
    BY <1>9, <1>10 DEF ShutdownNotify, ShutdownReturn, DrainTest, Locations
  <2> QED
    BY <1>1, <1>3, <1>10, <2>1 DEF ShutdownNotify, ShutdownReturn, DrainTest, history, At, Gone
<1>11. ASSUME NEW s \in Closers, DrainTimeout(s) PROVE Late'
  <2>1. Passed' = Passed /\ \A c \in Consumers : pc'[c] = pc[c]
    BY <1>9, <1>11 DEF DrainTimeout, Locations
  <2>2. Gone' = inserted
    BY <1>1, <1>11 DEF DrainTimeout, Gone
  <2> QED
    BY <1>1, <1>3, <1>11, <2>1, <2>2 DEF DrainTimeout, At
<1>12. ASSUME NEW s \in Closers, NEW wait \in BOOLEAN, ShutdownStore(s, wait) PROVE Late'
  <2>1. Passed' = Passed /\ \A c \in Consumers : pc'[c] = pc[c]
    BY <1>9, <1>12 DEF ShutdownStore, Locations
  <2>2. shutdown' /\ inserted' = inserted /\ Gone' = Gone /\ cutoff' = IF shutdown THEN cutoff ELSE inserted
    BY <1>12 DEF ShutdownStore, Gone
  <2> QED
    BY <1>1, <2>1, <2>2, PassedFinite DEF Late, At
<1>13. CASE UNCHANGED queueVars
  BY <1>1, <1>3, <1>13 DEF queueVars, history, Passed, At, Gone
<1> QED
  BY <1>4, <1>5, <1>6, <1>7, <1>8, <1>10, <1>11, <1>12, <1>13 DEF QueueNext, ProducerStep, CloserStep

-----------------------------------------------------------------------------
(* Wakeups.                                                                *)

LEMMA MutexStep == TypeOK /\ Mutex /\ [QueueNext]_queueVars => Mutex'
<1> SUFFICES ASSUME TypeOK, Mutex, [QueueNext]_queueVars PROVE Mutex'
  OBVIOUS
<1>1. Producers \cap Consumers = {} /\ Producers \cap Closers = {} /\ Consumers \cap Closers = {}
      /\ Producers \subseteq Threads /\ Consumers \subseteq Threads /\ Closers \subseteq Threads
      /\ NoThread \notin Consumers
  BY ThreadsAssumption DEF Threads
<1>2. ASSUME mtx' = mtx, ~Free => queue' = queue, \A c \in Consumers : pc'[c] = pc[c] PROVE Mutex'
  BY <1>2 DEF Mutex, At, Free
<1>3. ASSUME NEW p \in Producers, PushCheck(p) \/ ProducerStep(p) PROVE Mutex'
  <2>1. mtx' = mtx /\ (~Free => queue' = queue) /\ \E l \in Locations : Goto(p, l)
    BY <1>3 DEF ProducerStep, PushCheck, PushInsert, PushNotify, Locations
  <2> QED
    BY <1>1, <1>2, <2>1, GotoMoves
<1>4. ASSUME NEW c \in Consumers, ConsumerStep(c) PROVE Mutex'
  <2>1. \A l \in Locations : Goto(c, l) => pc'[c] = l /\ \A d \in Consumers \ {c} : pc'[d] = pc[d]
    BY <1>1, GotoMoves
  <2>2. CASE PopTake(c) \/ PopClosed(c)
    <3>1. Free /\ mtx' = mtx /\ pc'[c] # "popBlock" /\ \A d \in Consumers \ {c} : pc'[d] = pc[d]
      BY <2>1, <2>2 DEF PopTake, PopClosed, Testing, Locations
    <3> QED
      BY <1>1, <3>1 DEF Mutex, At, Free
  <2>3. CASE PopMustWait(c)
    <3>1. Free /\ mtx' = c /\ pc'[c] = "popBlock" /\ queue' = << >>
          /\ \A d \in Consumers \ {c} : pc'[d] = pc[d]
      BY <2>1, <2>3 DEF PopMustWait, Testing, Locations
    <3> QED
      BY <1>1, <3>1 DEF Mutex, At, Free
  <2>4. CASE PopBlock(c)
    <3>1. mtx = c /\ mtx' = NoThread /\ pc'[c] # "popBlock" /\ \A d \in Consumers \ {c} : pc'[d] = pc[d]
      BY <2>1, <2>4 DEF PopBlock, Locations, Mutex
    <3> QED
      BY <1>1, <3>1 DEF Mutex, At, Free
  <2> QED
    BY <1>4, <2>2, <2>3, <2>4 DEF ConsumerStep
<1>5. ASSUME NEW t \in Threads, SpuriousWakeup(t) PROVE Mutex'
  BY <1>2, <1>5 DEF SpuriousWakeup
<1>6. ASSUME NEW s \in Closers, CloserStep(s) \/ \E wait \in BOOLEAN : ShutdownStore(s, wait) PROVE Mutex'
  <2>1. mtx' = mtx /\ (~Free => queue' = queue) /\ \E l \in Locations : Goto(s, l)
    BY <1>6 DEF CloserStep, ShutdownNotify, ShutdownReturn, DrainTest, DrainTimeout, ShutdownStore, Locations
  <2> QED
    BY <1>1, <1>2, <2>1, GotoMoves
<1>7. CASE UNCHANGED queueVars
  BY <1>2, <1>7 DEF queueVars
<1> QED
  BY <1>3, <1>4, <1>5, <1>6, <1>7 DEF QueueNext

LEMMA PushWakesStep == TypeOK /\ Mutex /\ PushWakes /\ [QueueNext]_queueVars => PushWakes'
<1> SUFFICES ASSUME TypeOK, Mutex, PushWakes, [QueueNext]_queueVars PROVE PushWakes'
  OBVIOUS
<1>1. Producers \cap Consumers = {} /\ Producers \cap Closers = {} /\ Consumers \cap Closers = {}
      /\ Producers \subseteq Threads /\ Consumers \subseteq Threads /\ Closers \subseteq Threads
  BY ThreadsAssumption DEF Threads
\* Whatever adds no record, puts no consumer to sleep and moves no producer.
<1>2. ASSUME queue' # << >> => queue # << >>, asleep' \cap Consumers \subseteq asleep,
             \A p \in Producers : pc'[p] = pc[p]
      PROVE  PushWakes'
  BY <1>2 DEF PushWakes, At
<1>3. ASSUME NEW p \in Producers, PushCheck(p) \/ ProducerStep(p) PROVE PushWakes'
  <2>1. CASE PushCheck(p)
    <3>1. pc[p] = "idle" /\ \A u \in Producers \ {p} : pc'[u] = pc[u]
      BY <1>1, <2>1, GotoMoves DEF PushCheck, Locations, At
    <3> QED
      BY <2>1, <3>1 DEF PushCheck, PushWakes, At
  <2>2. CASE PushInsert(p)
    <3>1. pc'[p] = "pushNotify"
      BY <1>1, <2>2, GotoMoves DEF PushInsert, Locations
    <3> QED
      BY <3>1 DEF PushWakes, At
  <2>3. CASE PushNotify(p)
    BY <2>3 DEF PushNotify, PushWakes
  <2> QED
    BY <1>3, <2>1, <2>2, <2>3 DEF ProducerStep
<1>4. ASSUME NEW c \in Consumers, ConsumerStep(c) PROVE PushWakes'
  <2>1. CASE PopBlock(c)
    <3>1. queue = << >>
      BY <2>1, ThreadsAssumption DEF PopBlock, Mutex, Free
    <3> QED
      BY <2>1, <3>1 DEF PopBlock, PushWakes, history
  <2>2. CASE ~PopBlock(c)
    <3>1. c \notin asleep' /\ c \notin asleep
      BY <1>4, <2>2 DEF ConsumerStep, PopTake, PopClosed, PopMustWait, Testing
    <3> QED
      BY <3>1 DEF PushWakes
  <2> QED
    BY <2>1, <2>2
<1>5. ASSUME NEW t \in Threads, SpuriousWakeup(t) PROVE PushWakes'
  BY <1>2, <1>5 DEF SpuriousWakeup
<1>6. ASSUME NEW s \in Closers, CloserStep(s) \/ \E wait \in BOOLEAN : ShutdownStore(s, wait)
      PROVE  PushWakes'
  <2>1. \E l \in Locations : Goto(s, l)
    BY <1>6 DEF CloserStep, ShutdownNotify, ShutdownReturn, DrainTest, DrainTimeout, ShutdownStore, Locations
  <2>2. (queue' # << >> => queue # << >>) /\ asleep' \cap Consumers \subseteq asleep
    BY <1>1, <1>6 DEF CloserStep, ShutdownNotify, ShutdownReturn, DrainTest, DrainTimeout, ShutdownStore
  <2> QED
    BY <1>1, <1>2, <2>1, <2>2, GotoMoves
<1>7. CASE UNCHANGED queueVars
  BY <1>2, <1>7 DEF queueVars
<1> QED
  BY <1>3, <1>4, <1>5, <1>6, <1>7 DEF QueueNext

-----------------------------------------------------------------------------
(* The theorems.                                                           *)

LEMMA InitInv == QueueInit => QueueInv /\ Mutex /\ PushWakes
<1> SUFFICES ASSUME QueueInit PROVE QueueInv /\ Mutex /\ PushWakes
  OBVIOUS
<1>1. Numbered /\ PushWakes
  BY DEF QueueInit, Numbered, Gone, PushWakes
<1>2. Mutex
  BY ThreadsAssumption DEF QueueInit, Mutex, At, Free, Threads
<1>3. Late
  BY DEF QueueInit, Late, At, Threads
<1>4. Counted
  BY FS_EmptySet DEF QueueInit, Counted, At, Threads
<1> QED
  BY <1>1, <1>2, <1>3, <1>4, InitTypes DEF QueueInv

LEMMA QueueInvStep == QueueInv /\ [QueueNext]_queueVars => QueueInv'
  BY TypesStep, NumberedStep, CountedStep, LateStep DEF QueueInv

LEMMA QueueAlways == QueueSpec => []QueueInv
  BY InitInv, QueueInvStep, PTL DEF QueueSpec

\* The variables keep their types: no record is numbered twice or beyond the
\* bound, and only consumers and closers sleep.
THEOREM QueueTypeCorrect == QueueSpec => []TypeOK
<1>1. QueueInv => TypeOK
  BY DEF QueueInv
<1> QED
  BY <1>1, QueueAlways, PTL

\* No record is lost, returned twice or overtaken, and the drop count says how
\* many a shutdown threw away.
THEOREM QueueKeepsRecords == QueueSpec => []NoLossInOrder
<1>1. QueueInv => NoLossInOrder
  <2> SUFFICES ASSUME QueueInv PROVE NoLossInOrder
    OBVIOUS
  <2>1. Gone \in 0..inserted /\ Queued = Gone + 1..inserted /\ inserted \in Nat
    BY QueuedNumbers DEF QueueInv, TypeOK
  <2>2. popped \cup discarded = 1..Gone /\ popped \cap discarded = {}
        /\ \A i \in 1..Len(queue) : queue[i] = Gone + i
    BY DEF QueueInv, Numbered
  <2>3. Len(queue) \in Nat
    BY DEF QueueInv, TypeOK
  <2> QED
    BY <2>1, <2>2, <2>3 DEF NoLossInOrder, QueueInv, Counted
<1> QED
  BY <1>1, QueueAlways, PTL

\* A shutdown lets one more record of each producer in, and the consumers stop
\* after all that came before it.
THEOREM QueueLateRecords == QueueSpec => []LateRecords
<1>1. QueueInv => LateRecords
  <2> SUFFICES ASSUME QueueInv PROVE LateRecords
    OBVIOUS
  <2>1. Gone \in 0..inserted /\ Queued = Gone + 1..inserted /\ inserted \in Nat /\ cutoff \in Nat
    BY QueuedNumbers DEF QueueInv, TypeOK
  <2>2. LateRecordsBounded
    BY <2>1, PassedFinite DEF LateRecordsBounded, QueueInv, Late
  <2>3. StoppedMeansDrained
    BY <2>1 DEF StoppedMeansDrained, QueueInv, Late
  <2> QED
    BY <2>2, <2>3 DEF LateRecords
<1> QED
  BY <1>1, QueueAlways, PTL

\* What a queue promises of its records, in every state.
THEOREM QueueCorrect == QueueSpec => []RecordsKept
  BY QueueTypeCorrect, QueueKeepsRecords, QueueLateRecords, PTL DEF RecordsKept

\* While a record is in the queue some consumer is awake, or a push is about to
\* notify one: between the pushes and the pops no wakeup is lost.
THEOREM QueuePushWakes == QueueSpec => []PushWakes
<1>1. TypeOK /\ Mutex /\ PushWakes /\ [QueueNext]_queueVars => Mutex' /\ PushWakes'
  BY MutexStep, PushWakesStep
<1> QED
  BY <1>1, InitInv, QueueTypeCorrect, PTL DEF QueueSpec

-----------------------------------------------------------------------------
(* The abstract queue.                                                     *)

\* The abstract queue's view of the flag and of the consumers that have stopped.
Arrived == IF shutdown THEN inserted - cutoff ELSE 0
Stopped == {c \in Consumers : At(c, "stopped")}
workView == <<inserted, Gone, popped, discarded, dropped, shutdown, Arrived, Stopped>>

\* Where only threads move that neither stop nor had stopped, the abstract queue
\* sees nothing.
LEMMA StoppedStay ==
    ASSUME TypeOK, NEW t \in Threads, NEW label \in Locations, Goto(t, label),
           label # "stopped", ~At(t, "stopped")
    PROVE  Stopped' = Stopped
<1>1. \A c \in Consumers : At(c, "stopped")' <=> At(c, "stopped")
  BY GotoMoves DEF At, Threads
<1> QED
  BY <1>1 DEF Stopped

\* A call of shutdown has set the flag.
ClosesShut == \A s \in Closers : ~At(s, "idle") => shutdown

LEMMA ShutStep == TypeOK /\ ClosesShut /\ [QueueNext]_queueVars => ClosesShut'
<1> SUFFICES ASSUME TypeOK, ClosesShut, [QueueNext]_queueVars, NEW s \in Closers, ~At(s, "idle")'
             PROVE  shutdown'
  BY DEF ClosesShut
<1>1. CASE \E t \in Closers, wait \in BOOLEAN : ShutdownStore(t, wait)
  BY <1>1 DEF ShutdownStore
<1>2. CASE ~\E t \in Closers, wait \in BOOLEAN : ShutdownStore(t, wait)
  <2>1. shutdown' = shutdown
    BY <1>2 DEF QueueNext, ProducerStep, ConsumerStep, CloserStep, PushCheck, PushInsert, PushNotify, PopTake,
                PopClosed, PopMustWait, PopBlock, SpuriousWakeup, ShutdownNotify, ShutdownReturn,
                DrainTest, DrainTimeout, queueVars
  <2>2. CASE At(s, "idle")
    <3>1. pc' = pc \/ \E t \in Threads, label \in Locations : t # s /\ Goto(t, label)
      BY <1>2, <2>2, ThreadsAssumption
      DEF QueueNext, ProducerStep, ConsumerStep, CloserStep, PushCheck, PushInsert, PushNotify, PopTake,
          PopClosed, PopMustWait, PopBlock, SpuriousWakeup, ShutdownNotify, ShutdownReturn,
          DrainTest, DrainTimeout, queueVars, Threads, Locations, At
    <3>2. s \in Threads
      BY DEF Threads
    <3>3. pc'[s] = pc[s]
      BY <3>1, <3>2, GotoMoves
    <3> QED
      BY <2>2, <3>3 DEF At
  <2>3. CASE ~At(s, "idle")
    BY <2>1, <2>3 DEF ClosesShut
  <2> QED
    BY <2>2, <2>3
<1> QED
  BY <1>1, <1>2

LEMMA ShutAlways == QueueSpec => []ClosesShut
<1>1. QueueInit => ClosesShut
  BY DEF QueueInit, ClosesShut, At, Threads
<1> QED
  BY <1>1, ShutStep, QueueTypeCorrect, PTL DEF QueueSpec

\* The queue keeps the promise of an abstract queue: records leave in order, each
\* to one pop or all at once to a shutdown that reports them; after the flag only
\* one record of each producer comes in; and a consumer leaves an empty queue.
THEOREM QueueRefinement == QueueSpec => ImplementsWorkQueue
<1>1. QueueInit => Work!Init
  <2> SUFFICES ASSUME QueueInit PROVE Work!Init
    OBVIOUS
  <2>1. inserted = 0 /\ Len(queue) = 0 /\ popped = {} /\ discarded = {} /\ dropped = 0 /\ ~shutdown
    BY DEF QueueInit
  <2>2. \A c \in Consumers : ~At(c, "stopped")
    BY DEF QueueInit, At, Threads
  <2>3. inserted - Len(queue) = 0 /\ (IF shutdown THEN inserted - cutoff ELSE 0) = 0
    BY <2>1
  <2>4. {c \in Consumers : At(c, "stopped")} = {}
    BY <2>2
  <2>5. shutdown = FALSE
    BY DEF QueueInit
  <2> QED
    BY <2>1, <2>3, <2>4, <2>5 DEF Work!Init
<1>2. QueueInv /\ QueueInv' /\ ClosesShut /\ [QueueNext]_queueVars => [Work!Next]_workView
  <2> SUFFICES ASSUME QueueInv, QueueInv', ClosesShut, [QueueNext]_queueVars PROVE [Work!Next]_workView
    OBVIOUS
  <2>0. /\ TypeOK /\ Numbered /\ Late /\ inserted \in Nat /\ Len(queue) \in Nat /\ Gone \in 0..inserted
        /\ inserted = Gone + Len(queue) /\ cutoff \in Nat
    BY DEF QueueInv, TypeOK, Numbered, Gone
  <2>1. ASSUME UNCHANGED <<inserted, queue, popped, discarded, dropped, shutdown, cutoff, Stopped>>
        PROVE  UNCHANGED workView
    BY <2>1 DEF workView, Gone, Arrived
  <2>2. ASSUME NEW t \in Threads, NEW label \in Locations, Goto(t, label), label # "stopped", ~At(t, "stopped")
        PROVE  UNCHANGED Stopped
    BY <2>0, <2>2, StoppedStay
  <2>3. ASSUME NEW p \in Producers, PushCheck(p) \/ PushNotify(p) PROVE UNCHANGED workView
    <3>1. UNCHANGED Stopped
      <4>1. p \in Threads /\ "idle" \in Locations /\ "pushInsert" \in Locations /\ ~At(p, "stopped")
        BY <2>3 DEF Threads, Locations, PushCheck, PushNotify, At
      <4>2. Goto(p, "idle") \/ Goto(p, "pushInsert")
        BY <2>3 DEF PushCheck, PushNotify
      <4> QED
        BY <2>2, <4>1, <4>2
    <3> QED
      BY <2>1, <2>3, <3>1 DEF PushCheck, PushNotify, history
  <2>4. ASSUME NEW p \in Producers, PushInsert(p) PROVE Work!Enter
    <3>1. UNCHANGED Stopped
      BY <2>2, <2>4 DEF PushInsert, At, Threads, Locations
    <3>2. inserted' = inserted + 1 /\ Len(queue') = Len(queue) + 1
          /\ UNCHANGED <<shutdown, dropped, popped, discarded, cutoff>>
      BY <2>4 DEF PushInsert, TypeOK, QueueInv
    <3>3. Gone' = Gone
      BY <2>0, <3>2 DEF Gone
    <3>4. shutdown => Arrived < Cardinality(Producers) /\ Arrived' = Arrived + 1
      <4>1. shutdown => cutoff <= inserted /\ inserted' - cutoff + Cardinality(Passed') <= Cardinality(Producers)
        BY <2>0, <3>2 DEF QueueInv, Late
      <4>2. Cardinality(Passed') \in Nat /\ Cardinality(Producers) \in Nat
        <5>1. Passed' \subseteq Producers
          BY DEF Passed
        <5> QED
          BY <5>1, ThreadsAssumption, FS_Subset, FS_CardinalityType
      <4> QED
        BY <2>0, <3>2, <4>1, <4>2 DEF Arrived
    <3>5. ~shutdown => Arrived = 0 /\ Arrived' = 0
      BY <3>2 DEF Arrived
    <3> QED
      BY <3>1, <3>2, <3>3, <3>4, <3>5 DEF Work!Enter, Gone, Arrived, Stopped
  <2>5. ASSUME NEW c \in Consumers, PopTake(c) PROVE Work!Take
    <3>1. UNCHANGED Stopped /\ c \notin Stopped
      BY <2>2, <2>5 DEF PopTake, Testing, At, Threads, Locations, Stopped
    <3>2. Len(queue') = Len(queue) - 1 /\ Head(queue) = queue[1] /\ Len(queue) >= 1
          /\ UNCHANGED <<inserted, shutdown, dropped, discarded, cutoff>>
      BY <2>5 DEF PopTake, TypeOK, QueueInv
    <3>3. Gone' = Gone + 1 /\ Head(queue) = Gone + 1 /\ Gone < inserted
      BY <2>0, <3>2 DEF Gone, Numbered
    <3>4. popped' = popped \cup {Gone'}
      BY <2>5, <3>3 DEF PopTake
    <3>5. UNCHANGED Arrived
      BY <3>2 DEF Arrived
    <3> QED
      BY <3>1, <3>2, <3>3, <3>4, <3>5 DEF Work!Take, Gone, Arrived, Stopped
  <2>6. ASSUME NEW c \in Consumers, PopClosed(c) PROVE Work!Leave(c)
    <3>1. Stopped' = Stopped \cup {c}
      <4>1. \A d \in Consumers : d # c => (At(d, "stopped")' <=> At(d, "stopped"))
        BY <2>0, <2>6, GotoMoves DEF PopClosed, Threads, At, Locations
      <4>2. At(c, "stopped")'
        BY <2>0, <2>6, GotoMoves DEF PopClosed, Threads, At, Locations
      <4> QED
        BY <4>1, <4>2 DEF Stopped
    <3>2. queue = << >> /\ shutdown
          /\ UNCHANGED <<inserted, queue, popped, discarded, dropped, shutdown, cutoff>>
      BY <2>6 DEF PopClosed, history
    <3>3. Gone = inserted /\ UNCHANGED <<Gone, Arrived>>
      BY <2>0, <3>2 DEF Gone, Arrived
    <3> QED
      BY <3>1, <3>2, <3>3 DEF Work!Leave, Gone, Arrived, Stopped
  <2>7. ASSUME NEW c \in Consumers, PopMustWait(c) \/ PopBlock(c) PROVE UNCHANGED workView
    <3>1. c \in Threads /\ {"popBlock", "popWait"} \subseteq Locations
      BY DEF Threads, Locations
    <3> QED
      BY <2>1, <2>2, <2>7, <3>1 DEF PopMustWait, PopBlock, history, At, Testing
  <2>8. ASSUME NEW t \in Threads, SpuriousWakeup(t) PROVE UNCHANGED workView
    BY <2>1, <2>8 DEF SpuriousWakeup, history, Stopped, At
  <2>9. ASSUME NEW s \in Closers, NEW wait \in BOOLEAN, ShutdownStore(s, wait)
        PROVE  Work!End
    <3>1. UNCHANGED Stopped
      BY <2>2, <2>9 DEF ShutdownStore, At, Threads, Locations
    <3>2. shutdown' /\ cutoff' = (IF shutdown THEN cutoff ELSE inserted)
          /\ UNCHANGED <<queue, dropped, inserted, popped, discarded>>
      BY <2>9 DEF ShutdownStore
    <3>3. UNCHANGED <<Gone, Arrived>>
      BY <2>0, <3>2 DEF Gone, Arrived, TypeOK
    <3>4. shutdown' = TRUE
      BY <2>9 DEF ShutdownStore
    <3> QED
      BY <3>1, <3>2, <3>3, <3>4 DEF Work!End, Gone, Arrived, Stopped
  <2>10. ASSUME NEW s \in Closers, ShutdownNotify(s) \/ ShutdownReturn(s) \/ DrainTest(s)
         PROVE  UNCHANGED workView
    <3>1. s \in Threads /\ {"readEmpty", "drainTest", "idle", "drainWait"} \subseteq Locations
      BY DEF Threads, Locations
    <3> QED
      BY <2>1, <2>2, <2>10, <3>1 DEF ShutdownNotify, ShutdownReturn, DrainTest, history, At
  <2>11. ASSUME NEW s \in Closers, DrainTimeout(s) PROVE [Work!Next]_workView
    <3>1. UNCHANGED Stopped
      BY <2>2, <2>11 DEF DrainTimeout, At, Threads, Locations
    <3>2. UNCHANGED <<shutdown, inserted, popped, cutoff>> /\ queue' = << >>
          /\ discarded' = discarded \cup Queued /\ dropped' = (IF queue = << >> THEN dropped ELSE Len(queue))
      BY <2>11 DEF DrainTimeout
    <3>3. CASE queue = << >>
      <4>1. Queued = {}
        BY <2>0, <3>3 DEF Queued
      <4> QED
        BY <2>1, <3>1, <3>2, <3>3, <4>1
    <3>4. CASE queue # << >>
      <4>1. Len(queue) > 0 /\ Gone' = inserted /\ Gone < inserted /\ dropped' = inserted - Gone
        BY <2>0, <3>2, <3>4 DEF Gone, TypeOK
      <4>2. Queued = Gone + 1..inserted
        BY <2>0, QueuedNumbers
      <4>3. shutdown
        BY <2>11 DEF ClosesShut, DrainTimeout, At
      <4>4. UNCHANGED Arrived
        BY <3>2 DEF Arrived
      <4>5. Work!ThrowAway
        BY <3>1, <3>2, <4>1, <4>2, <4>3, <4>4 DEF Work!ThrowAway, Gone, Arrived, Stopped
      <4> QED
        BY <4>5 DEF Work!Next
    <3> QED
      BY <3>3, <3>4
  <2>12. CASE UNCHANGED queueVars
    BY <2>1, <2>12 DEF queueVars, history, Stopped, At
  <2> QED
    BY <2>3, <2>4, <2>5, <2>6, <2>7, <2>8, <2>9, <2>10, <2>11, <2>12
    DEF QueueNext, ProducerStep, ConsumerStep, CloserStep, Work!Next
<1> QED
  BY <1>1, <1>2, QueueAlways, ShutAlways, PTL
  DEF QueueSpec, ImplementsWorkQueue, Work!Spec, workView, Gone, Arrived, Stopped

-----------------------------------------------------------------------------
(* ThreadPool: the invariant.                                              *)

\* One worker at most is between its test and its wait, where it has the mutex.
OneBlocks ==
    \A v, w \in Workers : poolPc[v] = "blocking" /\ poolPc[w] = "blocking" => v = w

PoolTypes ==
    /\ tasks \in Seq(1..enqueued) /\ ran \in Seq(1..enqueued)
    /\ task \in [Workers -> 0..enqueued] /\ enqueued \in Nat /\ owed \in Nat
    /\ poolPc \in [Workers -> {"loop", "test", "blocking", "waiting", "run", "exited"}]
    /\ destructor \in {"alive", "notify", "join", "gone"} /\ late \in SUBSET Workers
    /\ poolRunning = (destructor = "alive") /\ poolRunning \in BOOLEAN
    /\ \A w \in Workers : poolPc[w] = "run" => task[w] # 0

PoolInv == PoolTypes /\ OneBlocks

-----------------------------------------------------------------------------
(* Types and mutual exclusion.                                             *)

LEMMA SingleOrNone ==
    ASSUME NEW S, \A x, y \in S : x = y
    PROVE  Cardinality(S) <= 1
<1>1. CASE S = {}
  BY <1>1, FS_EmptySet
<1>2. CASE S # {}
  <2>1. PICK x \in S : S = {x}
    BY <1>2
  <2> QED
    BY <2>1, FS_Singleton
<1> QED
  BY <1>1, <1>2

LEMMA PoolInvTypes == PoolInv => PoolTypeOK
<1> SUFFICES ASSUME PoolInv PROVE PoolTypeOK
  OBVIOUS
<1>1. Cardinality({w \in Workers : poolPc[w] = "blocking"}) <= 1
  BY SingleOrNone DEF PoolInv, OneBlocks
<1> QED
  BY <1>1 DEF PoolInv, PoolTypes, PoolTypeOK

LEMMA PoolInitInv == PoolInit => PoolInv
<1> SUFFICES ASSUME PoolInit PROVE PoolInv
  OBVIOUS
<1>1. PoolTypes
  <2>1. \A S : <<>> \in Seq(S)
    OBVIOUS
  <2>2. tasks \in Seq(1..enqueued) /\ ran \in Seq(1..enqueued)
    BY <2>1 DEF PoolInit
  <2>3. task \in [Workers -> 0..enqueued] /\ enqueued \in Nat /\ owed \in Nat
    BY DEF PoolInit
  <2> QED
    BY <2>2, <2>3 DEF PoolInit, PoolTypes
<1>2. OneBlocks
  BY DEF PoolInit, OneBlocks
<1> QED
  BY <1>1, <1>2 DEF PoolInv

\* A number that was a task stays one when more are enqueued.
LEMMA MoreTasks ==
    ASSUME PoolTypes, enqueued' = enqueued + 1
    PROVE  /\ \A s : s \in Seq(1..enqueued) => s \in Seq(1..enqueued')
           /\ task \in [Workers -> 0..enqueued']
           /\ enqueued' \in 1..enqueued'
<1>1. enqueued \in Nat
  BY DEF PoolTypes
<1>2. 1..enqueued \subseteq 1..enqueued' /\ 0..enqueued \subseteq 0..enqueued'
  BY <1>1
<1> QED
  BY <1>1, <1>2 DEF PoolTypes

LEMMA PoolInvStep == PoolInv /\ [PoolNext]_poolVars => PoolInv'
<1> SUFFICES ASSUME PoolInv, [PoolNext]_poolVars PROVE PoolInv'
  OBVIOUS
<1> USE DEF PoolInv, PoolTypes, OneBlocks
<1>1. CASE Enqueue
  BY <1>1, MoreTasks DEF Enqueue
<1>2. CASE NotifyOne
  <2>1. ASSUME NEW w \in Workers, Moves(w, "waiting", "test") PROVE PoolInv'
    BY <1>2, <2>1 DEF NotifyOne, Moves
  <2>2. CASE UNCHANGED poolPc
    BY <1>2, <2>2 DEF NotifyOne
  <2> HIDE DEF PoolInv, PoolTypes, OneBlocks
  <2> QED
    BY <1>2, <2>1, <2>2 DEF NotifyOne
<1>3. CASE ClearRunning
  BY <1>3 DEF ClearRunning
<1>4. CASE NotifyAll
  BY <1>4 DEF NotifyAll
<1>5. CASE JoinAll
  BY <1>5 DEF JoinAll
<1>6. ASSUME NEW w \in Workers, WorkerStep(w) \/ WakeUp(w) PROVE PoolInv'
  <2>1. CASE LoopHead(w)
    BY <2>1 DEF LoopHead
  <2>2. CASE Test(w)
    <3>1. CASE tasks # <<>> /\ Moves(w, "test", "run") /\ Taken(w)
      <4>1. Head(tasks) \in 1..enqueued /\ Tail(tasks) \in Seq(1..enqueued)
        BY <3>1
      <4> QED
        BY <2>2, <3>1, <4>1 DEF Test, Moves, Taken
    <3>2. CASE Moves(w, "test", "exited") /\ UNCHANGED <<tasks, task>>
      BY <2>2, <3>2 DEF Test, Moves
    <3>3. CASE Moves(w, "test", "blocking") /\ UNCHANGED <<tasks, task>>
      BY <2>2, <3>3 DEF Test, Moves, PoolFree
    <3> HIDE DEF PoolInv, PoolTypes, OneBlocks
    <3> QED
      BY <2>2, <3>1, <3>2, <3>3 DEF Test
  <2>3. CASE Block(w)
    BY <2>3 DEF Block, Moves
  <2>4. CASE RunTask(w)
    <3>1. task[w] \in 1..enqueued
      BY <2>4 DEF RunTask, Moves
    <3> QED
      BY <2>4, <3>1 DEF RunTask, Moves
  <2>5. CASE WakeUp(w)
    BY <2>5 DEF WakeUp, Moves
  <2> QED
    BY <1>6, <2>1, <2>2, <2>3, <2>4, <2>5 DEF WorkerStep
<1>7. CASE UNCHANGED poolVars
  BY <1>7 DEF poolVars
<1> QED
  BY <1>1, <1>2, <1>3, <1>4, <1>5, <1>6, <1>7 DEF PoolNext

\* The pool's variables keep their types, and between a test and a wait is one
\* worker at most.
THEOREM PoolTypeCorrect == PoolSpec => []PoolTypeOK
  BY PoolInitInv, PoolInvStep, PoolInvTypes, PTL DEF PoolSpec

-----------------------------------------------------------------------------
(* Wakeups.                                                                *)

\* A worker that goes to sleep has seen an empty queue, which stays empty until
\* it sleeps; nobody leaves a pool that lives; whoever goes to sleep after the
\* destructor's notification was about to at that moment.
BlocksOnEmpty == \A w \in Workers : poolPc[w] = "blocking" => tasks = <<>>
AllStay == destructor = "alive" => \A w \in Workers : poolPc[w] # "exited"
LateSleepers ==
    destructor = "join" => \A w \in Workers : poolPc[w] \in {"blocking", "waiting"} => w \in late

WakeInv == PoolInv /\ BlocksOnEmpty /\ AllStay /\ LateSleepers /\ NoTaskForgotten

LEMMA WakeInitInv == PoolInit => WakeInv
  BY PoolInitInv
  DEF PoolInit, WakeInv, BlocksOnEmpty, AllStay, LateSleepers, NoTaskForgotten

LEMMA WakeInvStep ==
    ASSUME Workers # {}
    PROVE  WakeInv /\ [PoolNext]_poolVars => WakeInv'
<1> SUFFICES ASSUME WakeInv, [PoolNext]_poolVars
             PROVE  (BlocksOnEmpty /\ AllStay /\ LateSleepers /\ NoTaskForgotten)'
  BY PoolInvStep DEF WakeInv
<1>0. PoolTypes /\ PoolTypes'
  BY PoolInvStep DEF WakeInv, PoolInv
<1> USE DEF WakeInv, BlocksOnEmpty, AllStay, LateSleepers, NoTaskForgotten
<1>1. CASE Enqueue
  <2>1. owed' > 0
    BY <1>0, <1>1 DEF Enqueue, PoolTypes
  <2> QED
    BY <1>1, <2>1 DEF Enqueue, PoolFree
<1>2. CASE NotifyOne
  <2>1. CASE \E w \in Workers : poolPc[w] = "waiting" /\ Moves(w, "waiting", "test")
    <3>1. PICK w \in Workers : poolPc[w] = "waiting" /\ Moves(w, "waiting", "test")
      BY <2>1
    <3>2. poolPc'[w] = "test" /\ \A v \in Workers : v # w => poolPc'[v] = poolPc[v]
      BY <1>0, <3>1 DEF Moves, PoolTypes
    <3> QED
      BY <1>2, <3>1, <3>2 DEF NotifyOne
  <2>2. CASE UNCHANGED poolPc /\ \A w \in Workers : poolPc[w] # "waiting"
    BY <1>2, <2>2 DEF NotifyOne
  <2> QED
    BY <1>2, <2>1, <2>2 DEF NotifyOne, Moves
<1>3. CASE ClearRunning
  BY <1>3 DEF ClearRunning
<1>4. CASE NotifyAll
  BY <1>0, <1>4 DEF NotifyAll, PoolTypes
<1>5. CASE JoinAll
  BY <1>5 DEF JoinAll
<1>6. ASSUME NEW w \in Workers, WorkerStep(w) \/ WakeUp(w)
      PROVE  (BlocksOnEmpty /\ AllStay /\ LateSleepers /\ NoTaskForgotten)'
  <2>1. \A v \in Workers : v # w => poolPc'[v] = poolPc[v]
    <3>1. LoopHead(w) \/ Test(w) => \A v \in Workers : v # w => poolPc'[v] = poolPc[v]
      BY <1>0 DEF PoolTypes, LoopHead, Test, Moves
    <3>2. Block(w) \/ RunTask(w) \/ WakeUp(w) => \A v \in Workers : v # w => poolPc'[v] = poolPc[v]
      BY <1>0 DEF PoolTypes, Block, RunTask, WakeUp, Moves
    <3> QED
      BY <1>6, <3>1, <3>2 DEF WorkerStep
  <2>2. CASE LoopHead(w)
    BY <1>0, <2>1, <2>2 DEF LoopHead, PoolTypes
  <2>3. CASE Test(w)
    <3>1. poolPc'[w] \in {"run", "exited", "blocking"} /\ poolPc[w] = "test"
      BY <1>0, <2>3 DEF Test, Moves, PoolTypes
    <3>2. UNCHANGED <<poolRunning, owed, destructor, late>>
      BY <2>3 DEF Test
    <3>3. CASE poolPc'[w] = "run"
      BY <2>1, <2>3, <3>1, <3>2, <3>3 DEF Test, PoolFree
    <3>4. CASE poolPc'[w] # "run"
      <4>1. tasks = <<>> /\ tasks' = <<>> /\ (poolPc'[w] = "exited" => ~poolRunning)
        BY <1>0, <2>3, <3>4 DEF Test, Moves, PoolTypes
      <4>2. poolPc'[w] = "blocking" => destructor = "alive"
        BY <1>0, <2>3 DEF Test, Moves, PoolTypes
      <4> QED
        BY <1>0, <2>1, <3>1, <3>2, <4>1, <4>2 DEF PoolTypes
    <3> QED
      BY <3>3, <3>4
  <2>4. CASE Block(w)
    BY <1>0, <2>1, <2>4 DEF Block, Moves, PoolTypes
  <2>5. CASE RunTask(w)
    BY <1>0, <2>1, <2>5 DEF RunTask, Moves, PoolTypes
  <2>6. CASE WakeUp(w)
    BY <1>0, <2>1, <2>6 DEF WakeUp, Moves, PoolTypes
  <2> QED
    BY <1>6, <2>2, <2>3, <2>4, <2>5, <2>6 DEF WorkerStep
<1>7. CASE UNCHANGED poolVars
  BY <1>7 DEF poolVars
<1> QED
  BY <1>1, <1>2, <1>3, <1>4, <1>5, <1>6, <1>7 DEF PoolNext

\* No notification of a task is lost: a pool that lives, with workers in it,
\* does not sleep on a task, because the notification falls before a worker's
\* test or after its wait.
THEOREM NoTaskForgottenAlways ==
    ASSUME Workers # {}
    PROVE  PoolSpec => []NoTaskForgotten
<1>1. WakeInv => NoTaskForgotten
  BY DEF WakeInv
<1> QED
  BY <1>1, WakeInitInv, WakeInvStep, PTL DEF PoolSpec

\* Once the destructor has notified nobody waits, except workers that were
\* between test and wait at that moment.
THEOREM NobodyLeftWaitingAlways == PoolSpec => []NobodyLeftWaiting
<1>1. CASE Workers = {}
  <2>1. NobodyLeftWaiting
    BY <1>1 DEF NobodyLeftWaiting
  <2> QED
    BY <2>1, PTL
<1>2. CASE Workers # {}
  <2>1. WakeInv => NobodyLeftWaiting
    BY DEF WakeInv, LateSleepers, NobodyLeftWaiting
  <2>2. WakeInv /\ [PoolNext]_poolVars => WakeInv'
    BY <1>2, WakeInvStep
  <2> QED
    BY <2>1, <2>2, WakeInitInv, PTL DEF PoolSpec
<1> QED
  BY <1>1, <1>2

-----------------------------------------------------------------------------
(* Tasks.                                                                  *)

\* The steps that take no task, end none and enqueue none.
LEMMA TasksKept ==
    ASSUME TasksOnce, UNCHANGED <<tasks, enqueued, ran, task>>,
           \A w \in Workers : poolPc'[w] = "run" <=> poolPc[w] = "run"
    PROVE  TasksOnce'
<1>1. Taking' = Taking
  BY DEF Taking
<1> QED
  BY <1>1 DEF TasksOnce

LEMMA TasksAfterEnqueue ==
    ASSUME PoolTypes, TasksOnce, Enqueue
    PROVE  TasksOnce'
<1>1. enqueued \in Nat /\ tasks \in Seq(1..enqueued)
  BY DEF PoolTypes
<1>2. enqueued' = enqueued + 1 /\ tasks' = Append(tasks, enqueued + 1)
  BY DEF Enqueue
<1>3. Len(tasks') = Len(tasks) + 1 /\ DOMAIN tasks' = 1..Len(tasks) + 1
  BY <1>1, <1>2
<1>4. \A i \in DOMAIN tasks' : tasks'[i] = enqueued' - Len(tasks') + i
  <2> SUFFICES ASSUME NEW i \in DOMAIN tasks' PROVE tasks'[i] = enqueued' - Len(tasks') + i
    OBVIOUS
  <2>1. CASE i = Len(tasks) + 1
    BY <1>1, <1>2, <1>3, <2>1
  <2>2. CASE i \in DOMAIN tasks
    <3>1. tasks'[i] = tasks[i] /\ tasks[i] = enqueued - Len(tasks) + i
      BY <1>1, <1>2, <2>2 DEF TasksOnce
    <3> QED
      BY <1>1, <1>2, <1>3, <2>2, <3>1
  <2> QED
    BY <1>1, <1>3, <2>1, <2>2
<1>5. enqueued' - Len(tasks') = enqueued - Len(tasks)
  BY <1>1, <1>2, <1>3
<1>6. UNCHANGED <<poolPc, task, ran>> /\ Taking' = Taking
  BY DEF Enqueue, Taking
<1> QED
  BY <1>4, <1>5, <1>6 DEF TasksOnce

LEMMA TasksAfterTake ==
    ASSUME PoolTypes, TasksOnce, NEW w \in Workers, tasks # <<>>,
           Moves(w, "test", "run"), Taken(w), UNCHANGED <<enqueued, ran>>
    PROVE  TasksOnce'
<1> DEFINE started == enqueued - Len(tasks)
<1>1. enqueued \in Nat /\ tasks \in Seq(1..enqueued) /\ Len(tasks) > 0
  BY DEF PoolTypes
<1>2. tasks' = Tail(tasks) /\ Len(tasks') = Len(tasks) - 1 /\ DOMAIN tasks' = 1..Len(tasks) - 1
  BY <1>1 DEF Taken
<1>3. Head(tasks) = started + 1
  BY <1>1 DEF TasksOnce
<1>4. enqueued' - Len(tasks') = started + 1
  BY <1>1, <1>2
<1>5. \A i \in DOMAIN tasks' : tasks'[i] = enqueued' - Len(tasks') + i
  <2> SUFFICES ASSUME NEW i \in DOMAIN tasks' PROVE tasks'[i] = started + 1 + i
    BY <1>4
  <2>1. tasks'[i] = tasks[i + 1] /\ i + 1 \in DOMAIN tasks /\ i \in Nat
    BY <1>1, <1>2
  <2>2. tasks[i + 1] = enqueued - Len(tasks) + (i + 1)
    BY <2>1 DEF TasksOnce
  <2> QED
    BY <1>1, <2>1, <2>2
<1>6. /\ poolPc'[w] = "run" /\ poolPc[w] # "run" /\ task'[w] = started + 1
      /\ \A v \in Workers : v # w => poolPc'[v] = poolPc[v] /\ task'[v] = task[v]
  BY <1>3 DEF Moves, Taken, PoolTypes
<1>7. Taking' = Taking \cup {started + 1}
  BY <1>6 DEF Taking
<1>8. /\ started \in Int /\ started >= 0
      /\ \A n \in Taking \cup ToSet(ran) : n \in 1..started
      /\ 1..started + 1 = 1..started \cup {started + 1}
  <2>1. Len(tasks) <= enqueued
    <3>1. tasks[1] \in 1..enqueued
      BY <1>1
    <3>2. tasks[1] = enqueued - Len(tasks) + 1
      BY <1>1 DEF TasksOnce
    <3> QED
      BY <1>1, <3>1, <3>2
  <2> QED
    BY <1>1, <2>1 DEF TasksOnce
<1>9. started + 1 \notin Taking \cup ToSet(ran)
  BY <1>8
<1>10. \A u, v \in Workers : poolPc'[u] = "run" /\ poolPc'[v] = "run" /\ u # v => task'[u] # task'[v]
  <2>1. \A v \in Workers : v # w /\ poolPc'[v] = "run" => task'[v] \in Taking
    BY <1>6 DEF Taking
  <2> QED
    BY <1>6, <1>9, <2>1 DEF TasksOnce
<1>11. Taking' \cap ToSet(ran') = {} /\ Taking' \cup ToSet(ran') = 1..(enqueued' - Len(tasks'))
  BY <1>4, <1>7, <1>8, <1>9 DEF TasksOnce
<1> QED
  BY <1>5, <1>10, <1>11 DEF TasksOnce

LEMMA TasksAfterRun ==
    ASSUME PoolTypes, TasksOnce, NEW w \in Workers, RunTask(w)
    PROVE  TasksOnce'
<1>1. /\ UNCHANGED <<tasks, enqueued, task>> /\ ran' = Append(ran, task[w])
      /\ poolPc[w] = "run" /\ poolPc'[w] = "loop"
      /\ \A v \in Workers : v # w => poolPc'[v] = poolPc[v]
  BY DEF RunTask, Moves, PoolTypes
<1>2. ran \in Seq(1..enqueued) /\ task[w] \in Taking
  BY <1>1 DEF PoolTypes, Taking
<1>3. /\ DOMAIN ran' = 1..Len(ran) + 1 /\ DOMAIN ran = 1..Len(ran) /\ Len(ran) \in Nat
      /\ \A i \in DOMAIN ran : ran'[i] = ran[i]
      /\ ran'[Len(ran) + 1] = task[w]
  BY <1>1, <1>2
<1>4. ToSet(ran') = ToSet(ran) \cup {task[w]}
  <2>1. DOMAIN ran' = DOMAIN ran \cup {Len(ran) + 1}
    BY <1>3
  <2> QED
    BY <1>3, <2>1 DEF ToSet
<1>5. task[w] \notin ToSet(ran)
  BY <1>2 DEF TasksOnce
<1>6. \A i, j \in DOMAIN ran' : i # j => ran'[i] # ran'[j]
  <2>1. \A i \in DOMAIN ran : ran[i] \in ToSet(ran)
    BY DEF ToSet
  <2>2. \A i \in DOMAIN ran' : i \in DOMAIN ran \/ i = Len(ran) + 1
    BY <1>3
  <2> QED
    BY <1>3, <1>5, <2>1, <2>2 DEF TasksOnce
<1>7. Taking' = Taking \ {task[w]}
  <2>1. \A v \in Workers : v # w /\ poolPc[v] = "run" => task[v] # task[w]
    BY <1>1 DEF TasksOnce
  <2> QED
    BY <1>1, <2>1 DEF Taking
<1>8. Taking' \cap ToSet(ran') = {} /\ Taking' \cup ToSet(ran') = 1..(enqueued' - Len(tasks'))
  BY <1>1, <1>2, <1>4, <1>7 DEF TasksOnce
<1>9. \A u, v \in Workers : poolPc'[u] = "run" /\ poolPc'[v] = "run" /\ u # v => task'[u] # task'[v]
  BY <1>1 DEF TasksOnce
<1>10. \A i \in DOMAIN tasks' : tasks'[i] = enqueued' - Len(tasks') + i
  BY <1>1 DEF TasksOnce
<1> QED
  BY <1>6, <1>8, <1>9, <1>10 DEF TasksOnce

LEMMA TasksStep == PoolInv /\ TasksOnce /\ [PoolNext]_poolVars => TasksOnce'
<1> SUFFICES ASSUME PoolTypes, TasksOnce, [PoolNext]_poolVars PROVE TasksOnce'
  BY DEF PoolInv
<1>1. CASE NotifyOne \/ ClearRunning \/ NotifyAll \/ JoinAll
  <2>1. \A w \in Workers : poolPc'[w] = "run" <=> poolPc[w] = "run"
    BY <1>1 DEF NotifyOne, Moves, ClearRunning, NotifyAll, JoinAll, PoolTypes
  <2> QED
    BY <1>1, <2>1, TasksKept DEF NotifyOne, ClearRunning, NotifyAll, JoinAll
<1>2. ASSUME NEW w \in Workers, WorkerStep(w) \/ WakeUp(w) PROVE TasksOnce'
  <2>1. CASE Test(w) /\ tasks # <<>>
    BY <2>1, TasksAfterTake DEF Test
  <2>2. CASE LoopHead(w) \/ (Test(w) /\ tasks = <<>>) \/ Block(w) \/ WakeUp(w)
    <3>1. \A v \in Workers : poolPc'[v] = "run" <=> poolPc[v] = "run"
      BY <2>2 DEF LoopHead, Test, Block, WakeUp, Moves, PoolTypes
    <3> QED
      BY <2>2, <3>1, TasksKept DEF LoopHead, Test, Block, WakeUp
  <2> QED
    BY <1>2, <2>1, <2>2, TasksAfterRun DEF WorkerStep
<1>3. CASE UNCHANGED poolVars
  BY <1>3, TasksKept DEF poolVars
<1> QED
  BY <1>1, <1>2, <1>3, TasksAfterEnqueue DEF PoolNext

\* Each task is at one place: in the queue in the order of the calls, with one
\* worker, or run, once.
THEOREM TasksOnceAlways == PoolSpec => []TasksOnce
<1>1. PoolInit => TasksOnce
  BY DEF PoolInit, TasksOnce, Taking, ToSet
<1> QED
  BY <1>1, PoolInitInv, PoolInvStep, TasksStep, PTL DEF PoolSpec

\* What a pool with workers promises: types, tasks and wakeups.
THEOREM PoolSafeAlways ==
    ASSUME Workers # {}
    PROVE  PoolSpec => []PoolSafe
  BY PoolTypeCorrect, TasksOnceAlways, NoTaskForgottenAlways, NobodyLeftWaitingAlways, PTL
  DEF PoolSafe

-----------------------------------------------------------------------------
(* ThreadPool: the abstract queue.                                         *)

\* The abstract queue's view of the pool: who had a task, and who has left.
Handed == Taking \cup ToSet(ran)
Exited == {w \in Workers : poolPc[w] = "exited"}
poolView == <<enqueued, enqueued - Len(tasks), Handed, {}, 0, ~poolRunning, 0, Exited>>

\* The pool keeps the promise of an abstract queue: tasks are taken in order, each
\* by one worker, and none comes in after the end.
THEOREM PoolRefinement == PoolSpec => PoolImplementsWorkQueue
<1>1. PoolInit => PoolWork!Init
  <2> SUFFICES ASSUME PoolInit PROVE PoolWork!Init
    OBVIOUS
  <2>1. enqueued = 0 /\ enqueued - Len(tasks) = 0 /\ (~poolRunning) = FALSE
    <3>1. enqueued = 0 /\ tasks = << >>
      BY DEF PoolInit
    <3>2. Len(tasks) = 0
      BY <3>1
    <3>3. enqueued - Len(tasks) = 0
      <4>1. 0 - 0 = 0
        OBVIOUS
      <4> QED
        BY <3>1, <3>2, <4>1, Zenon
    <3>4. (~poolRunning) = FALSE
      BY DEF PoolInit
    <3> QED
      BY <3>1, <3>3, <3>4
  <2>2. {w \in Workers : poolPc[w] = "exited"} = {} /\ Taking \cup ToSet(ran) = {}
    BY DEF PoolInit, Taking, ToSet
  <2>3. /\ enqueued = 0 /\ enqueued - Len(tasks) = 0 /\ Handed = {} /\ (~poolRunning) = FALSE
        /\ Exited = {}
    BY <2>1, <2>2 DEF Handed, Exited
  <2> QED
    BY <2>3 DEF PoolWork!Init, Handed, Exited
<1>2. PoolInv /\ TasksOnce /\ TasksOnce' /\ [PoolNext]_poolVars => [PoolWork!Next]_poolView
  <2> SUFFICES ASSUME PoolInv, TasksOnce, TasksOnce', [PoolNext]_poolVars PROVE [PoolWork!Next]_poolView
    OBVIOUS
  <2>0. /\ enqueued \in Nat /\ tasks \in Seq(1..enqueued) /\ Len(tasks) \in Nat
        /\ poolRunning = (destructor = "alive")
        /\ poolPc \in [Workers -> {"loop", "test", "blocking", "waiting", "run", "exited"}]
    BY DEF PoolInv, PoolTypes
  \* The tasks taken are those that are not queued any more.
  <2>1. Handed = 1..(enqueued - Len(tasks)) /\ Handed' = 1..(enqueued' - Len(tasks'))
    BY DEF TasksOnce, Handed
  <2>2. ASSUME UNCHANGED <<enqueued, tasks, poolRunning, Exited>> PROVE UNCHANGED poolView
    BY <2>1, <2>2 DEF poolView
  <2>3. CASE Enqueue
    <3>0. enqueued' = enqueued + 1 /\ tasks' = Append(tasks, enqueued') /\ poolRunning
          /\ UNCHANGED <<poolRunning, poolPc>>
      BY <2>0, <2>3 DEF Enqueue
    <3>1. enqueued' = enqueued + 1 /\ Len(tasks') = Len(tasks) + 1 /\ poolRunning
          /\ UNCHANGED <<poolRunning, Exited>>
      <4>1. Len(tasks') = Len(tasks) + 1
        BY <2>0, <3>0
      <4>2. Exited' = Exited
        BY <3>0 DEF Exited
      <4> QED
        BY <3>0, <4>1, <4>2
    <3>2. enqueued' - Len(tasks') = enqueued - Len(tasks)
      BY <2>0, <3>1
    <3>3. UNCHANGED Handed
      BY <2>1, <3>2
    <3> QED
      BY <3>1, <3>2, <3>3 DEF PoolWork!Enter, PoolWork!Next, Handed, Exited
  <2>4. CASE NotifyOne
    <3>1. Exited' = Exited
      BY <2>0, <2>4 DEF NotifyOne, Moves, Exited
    <3> QED
      BY <2>2, <2>4, <3>1 DEF NotifyOne
  <2>5. CASE ClearRunning
    <3>1. ~poolRunning' = TRUE /\ UNCHANGED <<enqueued, tasks, Exited>>
      BY <2>5 DEF ClearRunning, Exited
    <3>2. UNCHANGED Handed
      BY <2>1, <3>1
    <3> QED
      BY <3>1, <3>2 DEF PoolWork!End, PoolWork!Next, Handed, Exited
  <2>6. CASE NotifyAll
    <3>1. Exited' = Exited
      BY <2>0, <2>6 DEF NotifyAll, Exited
    <3> QED
      BY <2>2, <2>6, <3>1 DEF NotifyAll
  <2>7. CASE JoinAll
    BY <2>2, <2>7 DEF JoinAll, Exited
  <2>8. ASSUME NEW w \in Workers, Moves(w, "test", "exited") \/ LoopHead(w), poolPc'[w] = "exited",
               ~poolRunning, UNCHANGED <<enqueued, tasks, poolRunning>>
        PROVE  PoolWork!Next
    <3>1. Exited' = Exited \cup {w}
      BY <2>0, <2>8 DEF Moves, LoopHead, Exited
    <3>2. UNCHANGED Handed
      BY <2>1, <2>8
    <3> QED
      BY <2>8, <3>1, <3>2 DEF PoolWork!Leave, PoolWork!Next, Handed, Exited
  <2>9. ASSUME NEW w \in Workers, LoopHead(w) PROVE [PoolWork!Next]_poolView
    <3>1. CASE ~poolRunning
      BY <2>0, <2>8, <2>9, <3>1 DEF LoopHead
    <3>2. CASE poolRunning
      <4>1. Exited' = Exited
        BY <2>0, <2>9, <3>2 DEF LoopHead, Exited
      <4> QED
        BY <2>2, <2>9, <4>1 DEF LoopHead
    <3> QED
      BY <3>1, <3>2
  <2>10. ASSUME NEW w \in Workers, Test(w) PROVE [PoolWork!Next]_poolView
    <3>0. UNCHANGED <<poolRunning, enqueued>>
      BY <2>10 DEF Test
    <3>1. CASE tasks # <<>> /\ Moves(w, "test", "run") /\ Taken(w)
      <4>1. Exited' = Exited /\ w \notin Exited
        BY <2>0, <3>1 DEF Moves, Exited
      <4>2. Len(tasks') = Len(tasks) - 1 /\ Len(tasks) > 0
        BY <2>0, <3>1 DEF Taken
      <4> DEFINE n == enqueued - Len(tasks)
      <4>3. n \in Int /\ n >= 0 /\ enqueued' - Len(tasks') = n + 1
        <5>1. tasks[1] \in 1..enqueued /\ tasks[1] = n + 1
          BY <2>0, <4>2 DEF TasksOnce
        <5> QED
          BY <2>0, <3>0, <4>2, <5>1
      <4>4. Handed = 1..n /\ Handed' = 1..n + 1
        BY <2>1, <4>3
      <4>5. Handed' = Handed \cup {n + 1}
        <5> HIDE DEF n
        <5> QED
          BY <4>3, <4>4
      <4>6. n < enqueued
        BY <2>0, <4>2
      <4> QED
        BY <3>0, <4>1, <4>3, <4>5, <4>6 DEF PoolWork!Take, PoolWork!Next, Handed, Exited
    <3>2. CASE ~poolRunning /\ Moves(w, "test", "exited") /\ UNCHANGED <<tasks, task>>
      <4>1. poolPc'[w] = "exited"
        BY <2>0, <3>2 DEF Moves
      <4> QED
        BY <2>8, <3>0, <3>2, <4>1
    <3>3. CASE Moves(w, "test", "blocking") /\ UNCHANGED <<tasks, task>>
      <4>1. Exited' = Exited
        BY <2>0, <3>3 DEF Moves, Exited
      <4> QED
        BY <2>2, <3>0, <3>3, <4>1
    <3> QED
      BY <2>10, <3>1, <3>2, <3>3 DEF Test
  <2>11. ASSUME NEW w \in Workers, Block(w) \/ RunTask(w) \/ WakeUp(w) PROVE UNCHANGED poolView
    <3>1. Exited' = Exited
      BY <2>0, <2>11 DEF Block, RunTask, WakeUp, Moves, Exited
    <3> QED
      BY <2>2, <2>11, <3>1 DEF Block, RunTask, WakeUp
  <2>12. CASE UNCHANGED poolVars
    BY <2>2, <2>12 DEF poolVars, Exited
  <2> QED
    BY <2>3, <2>4, <2>5, <2>6, <2>7, <2>9, <2>10, <2>11, <2>12 DEF PoolNext, WorkerStep
<1>3. PoolSpec => []PoolInv
  BY PoolInitInv, PoolInvStep, PTL DEF PoolSpec
<1> QED
  BY <1>1, <1>2, <1>3, TasksOnceAlways, PTL
  DEF PoolSpec, PoolImplementsWorkQueue, PoolWork!Spec, poolView, Handed, Exited
=============================================================================
