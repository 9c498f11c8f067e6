----------------------------- MODULE AsyncQueue -----------------------------
(***************************************************************************)
(* Zyrnix::AsyncQueue (async_queue.hpp, async_queue.cpp): an unbounded     *)
(* FIFO of log records between threads that push, threads that pop in a    *)
(* loop until pop returns false, and threads that shut the queue down (an  *)
(* explicit shutdown() and the destructor are two calls of it).            *)
(*                                                                         *)
(* A critical section of mtx_ is one step, except that a consumer keeps    *)
(* the mutex between finding its wait predicate false and blocking: the    *)
(* shutdown flag is an atomic stored without the mutex, so its store and   *)
(* the notification can fall in between.  Records are numbered in the      *)
(* order in which they enter the queue.                                    *)
(***************************************************************************)
EXTENDS Naturals, Sequences, FiniteSets

CONSTANTS Producers, Consumers, Closers,
          MaxRecords,     \* bound on the records pushed
          MaxShutdowns,   \* bound on the shutdown calls of a closer
          NoThread

ASSUME ThreadsAssumption ==
    /\ Producers \cap Consumers = {} /\ Producers \cap Closers = {}
    /\ Consumers \cap Closers = {}
    /\ NoThread \notin Producers \cup Consumers \cup Closers
    /\ IsFiniteSet(Producers)
ASSUME BoundsAssumption == MaxRecords \in Nat /\ MaxShutdowns \in Nat

VARIABLES queue,      \* queue_
          shutdown,   \* shutdown_
          dropped,    \* dropped_count_
          mtx,        \* who holds mtx_ between two steps
          asleep,     \* threads blocked on cv_ or drain_cv_ and not notified
          pc,         \* where each thread is
          calls,      \* shutdown calls each closer has made
          inserted,   \* records that have entered the queue
          popped,     \* the records pop has returned
          discarded,  \* the records shutdown has thrown away
          cutoff      \* records inserted when shutdown_ was first set

history == <<inserted, popped, discarded, cutoff>>
queueVars == <<queue, shutdown, dropped, mtx, asleep, pc, calls, history>>

Threads == Producers \cup Consumers \cup Closers
Queued == {queue[i] : i \in 1..Len(queue)}
At(t, label) == pc[t] = label
Goto(t, label) == pc' = [pc EXCEPT ![t] = label]
Free == mtx = NoThread

QueueInit ==
    /\ queue = << >> /\ shutdown = FALSE /\ dropped = 0
    /\ mtx = NoThread /\ asleep = {}
    /\ pc = [t \in Threads |-> "idle"]
    /\ calls = [s \in Closers |-> 0]
    /\ inserted = 0 /\ popped = {} /\ discarded = {} /\ cutoff = MaxRecords

-----------------------------------------------------------------------------
(* push: the flag is read before the mutex is taken.  A refused push       *)
(* changes nothing.                                                        *)

PushCheck(p) ==
    /\ At(p, "idle") /\ ~shutdown
    /\ Goto(p, "pushInsert")
    /\ UNCHANGED <<queue, shutdown, dropped, mtx, asleep, calls, history>>

PushInsert(p) ==
    /\ At(p, "pushInsert") /\ Free /\ inserted < MaxRecords
    /\ inserted' = inserted + 1
    /\ queue' = Append(queue, inserted')
    /\ Goto(p, "pushNotify")
    /\ UNCHANGED <<shutdown, dropped, mtx, asleep, calls, popped, discarded, cutoff>>

\* cv_.notify_one() wakes one of the consumers that are blocked, if any.
FaultyPushNotify(p) == At(p, "pushNotify") /\ Goto(p, "idle")
                       /\ UNCHANGED <<queue, shutdown, dropped, mtx, asleep, calls, history>>

PushNotify(p) ==
    /\ At(p, "pushNotify")
    /\ IF asleep \cap Consumers = {} THEN UNCHANGED asleep
       ELSE \E c \in asleep \cap Consumers : asleep' = asleep \ {c}
    /\ Goto(p, "idle")
    /\ UNCHANGED <<queue, shutdown, dropped, mtx, calls, history>>

-----------------------------------------------------------------------------
(* pop: a thread that starts the call or has been woken tests the          *)
(* predicate under the mutex.                                              *)

Testing(c) == pc[c] \in {"idle", "popWait"} /\ c \notin asleep /\ Free

PopTake(c) ==
    /\ Testing(c) /\ queue # << >>
    /\ popped' = popped \cup {Head(queue)}
    /\ queue' = Tail(queue)
    /\ asleep' = IF queue' = << >> THEN asleep \ Closers ELSE asleep
    /\ Goto(c, "idle")
    /\ UNCHANGED <<shutdown, dropped, mtx, calls, inserted, discarded, cutoff>>

\* pop returns false and the consumer's loop ends.
FaultyPopClosed(c) ==    \* a non-empty queue does not keep the loop going
    /\ Testing(c) /\ shutdown
    /\ Goto(c, "stopped")
    /\ UNCHANGED <<queue, shutdown, dropped, mtx, asleep, calls, history>>

PopClosed(c) ==
    /\ Testing(c) /\ queue = << >> /\ shutdown
    /\ Goto(c, "stopped")
    /\ UNCHANGED <<queue, shutdown, dropped, mtx, asleep, calls, history>>

PopMustWait(c) ==
    /\ Testing(c) /\ queue = << >> /\ ~shutdown
    /\ mtx' = c
    /\ Goto(c, "popBlock")
    /\ UNCHANGED <<queue, shutdown, dropped, asleep, calls, history>>

FaultyPopBlock(c) ==    \* the mutex is not released
    /\ At(c, "popBlock")
    /\ asleep' = asleep \cup {c}
    /\ Goto(c, "popWait")
    /\ UNCHANGED <<queue, shutdown, dropped, mtx, calls, history>>

PopBlock(c) ==
    /\ At(c, "popBlock")
    /\ mtx' = NoThread
    /\ asleep' = asleep \cup {c}
    /\ Goto(c, "popWait")
    /\ UNCHANGED <<queue, shutdown, dropped, calls, history>>

\* A condition variable may wake a thread that nobody notified.
SpuriousWakeup(t) ==
    /\ t \in asleep
    /\ asleep' = asleep \ {t}
    /\ UNCHANGED <<queue, shutdown, dropped, mtx, pc, calls, history>>

-----------------------------------------------------------------------------
(* shutdown(wait_for_drain)                                                *)

ShutdownStore(s, wait) ==
    /\ At(s, "idle") /\ calls[s] < MaxShutdowns
    /\ shutdown' = TRUE
    /\ cutoff' = IF shutdown THEN cutoff ELSE inserted
    /\ calls' = [calls EXCEPT ![s] = @ + 1]
    /\ Goto(s, IF wait THEN "notifyWait" ELSE "notify")
    /\ UNCHANGED <<queue, dropped, mtx, asleep, inserted, popped, discarded>>

ShutdownNotify(s) ==
    /\ pc[s] \in {"notify", "notifyWait"}
    /\ asleep' = asleep \ Consumers
    /\ Goto(s, IF At(s, "notify") THEN "readEmpty" ELSE "drainTest")
    /\ UNCHANGED <<queue, shutdown, dropped, mtx, calls, history>>

\* return empty()
ShutdownReturn(s) ==
    /\ At(s, "readEmpty") /\ Free
    /\ Goto(s, "idle")
    /\ UNCHANGED <<queue, shutdown, dropped, mtx, asleep, calls, history>>

\* The predicate of drain_cv_.wait_for, tested on entry and after a wakeup.
DrainTest(s) ==
    /\ pc[s] \in {"drainTest", "drainWait"} /\ s \notin asleep /\ Free
    /\ IF queue = << >> THEN Goto(s, "idle") /\ UNCHANGED asleep
                        ELSE Goto(s, "drainWait") /\ asleep' = asleep \cup {s}
    /\ UNCHANGED <<queue, shutdown, dropped, mtx, calls, history>>

\* The timeout may pass at any time during the wait; a queue that is empty
\* by then counts as drained.
FaultyDrainTimeout(s) ==    \* the count is taken after the queue was emptied
    /\ At(s, "drainWait") /\ Free
    /\ asleep' = asleep \ {s}
    /\ queue' = << >>
    /\ discarded' = discarded \cup Queued
    /\ dropped' = Len(queue')
    /\ Goto(s, "idle")
    /\ UNCHANGED <<shutdown, mtx, calls, inserted, popped, cutoff>>

DrainTimeout(s) ==
    /\ At(s, "drainWait") /\ Free
    /\ asleep' = asleep \ {s}
    /\ queue' = << >>
    /\ discarded' = discarded \cup Queued
    /\ dropped' = IF queue = << >> THEN dropped ELSE Len(queue)
    /\ Goto(s, "idle")
    /\ UNCHANGED <<shutdown, mtx, calls, inserted, popped, cutoff>>

-----------------------------------------------------------------------------
ProducerStep(p) == PushInsert(p) \/ PushNotify(p)
ConsumerStep(c) == PopTake(c) \/ PopClosed(c) \/ PopMustWait(c) \/ PopBlock(c)
CloserStep(s) == ShutdownNotify(s) \/ ShutdownReturn(s) \/ DrainTest(s) \/ DrainTimeout(s)

QueueNext ==
    \/ \E p \in Producers : PushCheck(p) \/ ProducerStep(p)
    \/ \E c \in Consumers : ConsumerStep(c)
    \/ \E t \in Threads : SpuriousWakeup(t)
    \/ \E s \in Closers : CloserStep(s) \/ \E wait \in BOOLEAN : ShutdownStore(s, wait)

QueueSpec == QueueInit /\ [][QueueNext]_queueVars

-----------------------------------------------------------------------------
(* Properties.                                                             *)

TypeOK ==
    /\ queue \in Seq(1..MaxRecords)
    /\ shutdown \in BOOLEAN
    /\ dropped \in 0..MaxRecords
    /\ mtx \in Consumers \cup {NoThread}
    /\ asleep \subseteq Consumers \cup Closers
    /\ pc \in [Threads -> {"idle", "pushInsert", "pushNotify", "popBlock", "popWait", "stopped",
                           "notify", "notifyWait", "readEmpty", "drainTest", "drainWait"}]
    /\ calls \in [Closers -> 0..MaxShutdowns]
    /\ inserted \in 0..MaxRecords
    /\ popped \subseteq 1..MaxRecords
    /\ discarded \subseteq 1..MaxRecords
    /\ cutoff \in 0..MaxRecords

\* shutdown has been called at most once.
OneShutdown == \A s, t \in Closers : calls[s] <= 1 /\ (calls[s] > 0 /\ calls[t] > 0 => s = t)

\* Every record that entered the queue is in it, was returned by one pop or
\* was thrown away by a shutdown, never two of these, and records leave in
\* the order in which they entered.  dropped_on_shutdown() counts those thrown
\* away; a second shutdown that times out as well counts its own alone.
NoLossInOrder ==
    /\ popped \cup discarded \cup Queued = 1..inserted
    /\ popped \cap discarded = {}
    /\ \A i \in 1..Len(queue) : \A r \in popped \cup discarded : r < queue[i]
    /\ \A i, j \in 1..Len(queue) : i < j => queue[i] < queue[j]
    /\ dropped <= Cardinality(discarded) /\ (dropped = 0 => discarded = {})
    /\ OneShutdown => dropped = Cardinality(discarded)

\* After the shutdown flag is set each producer gets at most one more record
\* in: the one whose push had already passed the test of the flag.
LateRecordsBounded == shutdown => inserted - cutoff <= Cardinality(Producers)

\* When the last consumer's loop has ended, every record that entered before
\* the shutdown has been popped or counted out by a shutdown that timed out:
\* what is left in the queue came in late.
StoppedMeansDrained ==
    (Consumers # {} /\ \A c \in Consumers : At(c, "stopped")) =>
        \A r \in Queued : r > cutoff

\* What comes in after the shutdown flag is at most one record of each producer,
\* and only such records outlive the consumers.
LateRecords == LateRecordsBounded /\ StoppedMeansDrained

\* Through pushes, pops and shutdowns no record is lost, doubled or overtaken, and
\* only the few that come in late are left behind.
RecordsKept == TypeOK /\ NoLossInOrder /\ LateRecords

\* Until a shutdown begins each record in the queue is popped: a wakeup is
\* never lost between producers and consumers.
RecordsConsumed == \A r \in 1..MaxRecords : r \in Queued ~> r \notin Queued \/ shutdown

\* A call of shutdown returns, drained or timed out.
ShutdownReturns == \A s \in Closers : ~At(s, "idle") ~> At(s, "idle")

\* The queue keeps the promise of an abstract one: each record goes to one pop,
\* oldest first; what a shutdown throws away goes at once and is reported; no
\* more records than there are producers come in after the flag; and a consumer
\* leaves only an empty queue.
Work == INSTANCE WorkQueue WITH
    Takers <- Consumers, Latecomers <- Cardinality(Producers), Drains <- TRUE,
    entered <- inserted, gone <- inserted - Len(queue),
    handed <- popped, thrown <- discarded, reported <- dropped,
    ended <- shutdown, late <- IF shutdown THEN inserted - cutoff ELSE 0,
    left <- {c \in Consumers : At(c, "stopped")}
ImplementsWorkQueue == Work!Spec
=============================================================================
