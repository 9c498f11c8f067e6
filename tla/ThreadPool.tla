----------------------------- MODULE ThreadPool -----------------------------
(***************************************************************************)
(* Zyrnix::ThreadPool (thread_pool.cpp): workers that take tasks from a    *)
(* queue, clients that enqueue them, and a destructor that clears a flag   *)
(* and notifies without the mutex.                                         *)
(*                                                                         *)
(* A worker holds the mutex from its test of the predicate to its wait, so *)
(* that enqueue, which needs the mutex, falls before or after both; the    *)
(* destructor may fall between them.                                       *)
(***************************************************************************)
EXTENDS Naturals, FiniteSets, Sequences, SequencesExt

CONSTANTS Workers,
          MaxTasks    \* bound on the tasks enqueued

ASSUME MaxTasksAssumption == MaxTasks \in Nat

VARIABLES tasks,      \* the queue of the numbered tasks
          poolRunning,
          poolPc,     \* where each worker is
          task,       \* what it has taken
          enqueued, ran,
          owed,       \* enqueue calls that have yet to notify
          destructor, \* "alive", "notify", "join", "gone"
          late        \* workers that were about to wait when the notification came

poolVars == <<tasks, poolRunning, poolPc, task, enqueued, ran, owed, destructor, late>>

PoolInit ==
    /\ tasks = <<>> /\ poolRunning = TRUE
    /\ poolPc = [w \in Workers |-> "loop"] /\ task = [w \in Workers |-> 0]
    /\ enqueued = 0 /\ ran = <<>> /\ owed = 0 /\ destructor = "alive" /\ late = {}

PoolFree == \A w \in Workers : poolPc[w] # "blocking"
Moves(w, from, to) == poolPc[w] = from /\ poolPc' = [poolPc EXCEPT ![w] = to]

\* An enqueue call is over before the destructor begins.
Enqueue ==
    /\ destructor = "alive" /\ PoolFree /\ enqueued < MaxTasks
    /\ enqueued' = enqueued + 1 /\ tasks' = Append(tasks, enqueued')
    /\ owed' = owed + 1
    /\ UNCHANGED <<poolRunning, poolPc, task, ran, destructor, late>>

NotifyOne ==
    /\ owed > 0 /\ owed' = owed - 1
    /\ IF \E w \in Workers : poolPc[w] = "waiting" THEN \E w \in Workers : Moves(w, "waiting", "test")
       ELSE UNCHANGED poolPc
    /\ UNCHANGED <<tasks, poolRunning, task, enqueued, ran, destructor, late>>

LoopHead(w) ==
    /\ poolPc[w] = "loop"
    /\ poolPc' = [poolPc EXCEPT ![w] = IF poolRunning THEN "test" ELSE "exited"]
    /\ UNCHANGED <<tasks, poolRunning, task, enqueued, ran, owed, destructor, late>>

FaultyTaken(w) ==    \* the front is read and not removed
    task' = [task EXCEPT ![w] = Head(tasks)] /\ UNCHANGED tasks
Taken(w) == task' = [task EXCEPT ![w] = Head(tasks)] /\ tasks' = Tail(tasks)

\* The predicate of the wait, under the mutex, and what follows if it holds.
Test(w) ==
    /\ PoolFree /\ UNCHANGED <<poolRunning, enqueued, ran, owed, destructor, late>>
    /\ \/ tasks # <<>> /\ Moves(w, "test", "run") /\ Taken(w)
       \/ tasks = <<>> /\ ~poolRunning /\ Moves(w, "test", "exited") /\ UNCHANGED <<tasks, task>>
       \/ tasks = <<>> /\ poolRunning /\ Moves(w, "test", "blocking") /\ UNCHANGED <<tasks, task>>

Block(w) ==
    /\ Moves(w, "blocking", "waiting")
    /\ UNCHANGED <<tasks, poolRunning, task, enqueued, ran, owed, destructor, late>>

\* A wait may end without a notification.
WakeUp(w) ==
    /\ Moves(w, "waiting", "test")
    /\ UNCHANGED <<tasks, poolRunning, task, enqueued, ran, owed, destructor, late>>

RunTask(w) ==
    /\ Moves(w, "run", "loop")
    /\ ran' = Append(ran, task[w])
    /\ UNCHANGED <<tasks, poolRunning, task, enqueued, owed, destructor, late>>

ClearRunning ==
    /\ destructor = "alive" /\ owed = 0
    /\ poolRunning' = FALSE /\ destructor' = "notify"
    /\ UNCHANGED <<tasks, poolPc, task, enqueued, ran, owed, late>>

NotifyAll ==
    /\ destructor = "notify" /\ destructor' = "join"
    /\ late' = {w \in Workers : poolPc[w] = "blocking"}
    /\ poolPc' = [w \in Workers |-> IF poolPc[w] = "waiting" THEN "test" ELSE poolPc[w]]
    /\ UNCHANGED <<tasks, poolRunning, task, enqueued, ran, owed>>

JoinAll ==
    /\ destructor = "join" /\ \A w \in Workers : poolPc[w] = "exited"
    /\ destructor' = "gone"
    /\ UNCHANGED <<tasks, poolRunning, poolPc, task, enqueued, ran, owed, late>>

WorkerStep(w) == LoopHead(w) \/ Test(w) \/ Block(w) \/ RunTask(w)

PoolNext ==
    \/ Enqueue \/ NotifyOne \/ ClearRunning \/ NotifyAll \/ JoinAll
    \/ \E w \in Workers : WorkerStep(w) \/ WakeUp(w)

PoolSpec == PoolInit /\ [][PoolNext]_poolVars

-----------------------------------------------------------------------------
(* Properties.                                                             *)

Taking == {task[w] : w \in {v \in Workers : poolPc[v] = "run"}}

PoolTypeOK ==
    /\ tasks \in Seq(1..enqueued) /\ ran \in Seq(1..enqueued)
    /\ task \in [Workers -> 0..enqueued] /\ {enqueued, owed} \subseteq Nat
    /\ poolPc \in [Workers -> {"loop", "test", "blocking", "waiting", "run", "exited"}]
    /\ Cardinality({w \in Workers : poolPc[w] = "blocking"}) <= 1
    /\ destructor \in {"alive", "notify", "join", "gone"} /\ late \subseteq Workers
    /\ poolRunning = (destructor = "alive")

\* Every task is at one place: it waits in the queue in the order of the calls,
\* one worker runs it, or it has run, once.
TasksOnce ==
    /\ \A i \in DOMAIN tasks : tasks[i] = enqueued - Len(tasks) + i
    /\ \A i, j \in DOMAIN ran : i # j => ran[i] # ran[j]
    /\ \A v, w \in Workers : poolPc[v] = "run" /\ poolPc[w] = "run" /\ v # w => task[v] # task[w]
    /\ Taking \cap ToSet(ran) = {}
    /\ Taking \cup ToSet(ran) = 1..(enqueued - Len(tasks))

\* No notification of a task is lost: as long as one is queued in a pool that
\* lives, a worker is awake or a call of enqueue is still going to wake one.
NoTaskForgotten ==
    tasks # <<>> /\ destructor = "alive" =>
        owed > 0 \/ \E w \in Workers : poolPc[w] \notin {"waiting", "exited"}

\* Once the destructor has notified nobody waits, so that it can join, except
\* workers that were between their test and their wait at that moment.
NobodyLeftWaiting ==
    destructor = "join" => \A w \in Workers : poolPc[w] = "waiting" => w \in late

\* The pool runs each task once and no notification is lost but the one that the
\* destructor gives without the mutex.
PoolSafe == PoolTypeOK /\ TasksOnce /\ NoTaskForgotten /\ NobodyLeftWaiting

\* The pool keeps it as well: each task goes to one worker, oldest first, and none
\* comes in after the end; but a worker may leave while tasks are queued.
PoolWork == INSTANCE WorkQueue WITH
    Takers <- Workers, Latecomers <- 0, Drains <- FALSE,
    entered <- enqueued, gone <- enqueued - Len(tasks),
    handed <- Taking \cup ToSet(ran), thrown <- {}, reported <- 0,
    ended <- ~poolRunning, late <- 0,
    left <- {w \in Workers : poolPc[w] = "exited"}
PoolImplementsWorkQueue == PoolWork!Spec
=============================================================================
