----------------------------- MODULE CloudSink -----------------------------
(***************************************************************************)
(* Zyrnix::CloudWatchSink and AzureMonitorSink (cloud_sinks.cpp): log()    *)
(* puts events into a bounded queue, a worker thread moves them into a     *)
(* batch and posts the batch, with retries, to an HTTP service.  The two   *)
(* classes differ in the event's text and in the answers they accept.      *)
(*                                                                         *)
(* Events are numbered as the queue accepts them.  queue_mutex_ is a       *)
(* variable because flush() sleeps while it holds it; log() and the        *)
(* worker's move are single critical sections.  The worker waits at most   *)
(* 100 ms, so it may wake at any time, with or without a notification.     *)
(***************************************************************************)
EXTENDS Integers, Sequences, SequencesExt

CONSTANTS Callers,
          Services,    \* of "cloudwatch", "azure"
          BatchSize,   \* config_.batch_size
          MaxQueue,    \* config_.max_queue_size
          MaxRetries,  \* config_.max_retries
          MaxLogged,   \* bound on the calls of log()
          NoCaller

ASSUME BatchAssumption == BatchSize \in Nat \ {0}
ASSUME QueueAssumption == MaxQueue \in Nat
ASSUME RetriesAssumption == MaxRetries \in Nat
ASSUME LoggedAssumption == MaxLogged \in Nat
ASSUME CallerAssumption == NoCaller \notin Callers
ASSUME ServicesAssumption == Services \subseteq {"cloudwatch", "azure"}

VARIABLES service,
          pending,    \* queue_
          holder,     \* the flush that sleeps with queue_mutex_, or NoCaller
          flushing,   \* per caller: in flush()
          running,    \* running_
          joined,     \* the destructor has joined the worker
          workerAt, batch, retryCount,    \* the worker and its locals
          due,        \* batch_timeout_ms have passed since last_send
          stats,      \* the counters; messages_failed_ is never counted up
          logged, accepted,         \* calls of log(), events put into the queue
          attempts,   \* posts of this batch, as far as one too many
          arrived     \* events the service has

caller == <<holder, flushing>>
life == <<running, joined>>
worker == <<workerAt, batch, retryCount>>
ghosts == <<logged, accepted, attempts, arrived>>
cloudVars == <<service, pending, caller, life, worker, due, stats, ghosts>>

CloudInit ==
    /\ service \in Services
    /\ pending = << >> /\ holder = NoCaller /\ flushing = [c \in Callers |-> FALSE]
    /\ running = TRUE /\ joined = FALSE
    /\ workerAt = "test" /\ batch = << >> /\ retryCount = 0 /\ due = FALSE
    /\ stats = [sent |-> 0, dropped |-> 0, batches |-> 0, retries |-> 0]
    /\ logged = 0 /\ accepted = 0 /\ attempts = 0 /\ arrived = {}

-----------------------------------------------------------------------------
(* The callers.  Who destroys the sink takes care that nobody uses it.     *)

LogDrop(c) ==
    /\ running /\ ~flushing[c] /\ holder = NoCaller /\ logged < MaxLogged
    /\ Len(pending) >= MaxQueue
    /\ stats' = [stats EXCEPT !.dropped = @ + 1]
    /\ logged' = logged + 1
    /\ UNCHANGED <<service, pending, caller, life, worker, due, accepted, attempts, arrived>>

LogQueue(c) ==
    /\ running /\ ~flushing[c] /\ holder = NoCaller /\ logged < MaxLogged
    /\ Len(pending) < MaxQueue
    /\ pending' = Append(pending, accepted + 1)
    /\ accepted' = accepted + 1 /\ logged' = logged + 1
    /\ UNCHANGED <<service, caller, life, worker, due, stats, attempts, arrived>>

FlushCall(c) ==
    /\ running /\ ~flushing[c]
    /\ flushing' = [flushing EXCEPT ![c] = TRUE]
    /\ UNCHANGED <<service, pending, holder, life, worker, due, stats, ghosts>>

FlushReturn(c) ==
    /\ flushing[c] /\ holder = NoCaller /\ pending = << >>
    /\ flushing' = [flushing EXCEPT ![c] = FALSE]
    /\ UNCHANGED <<service, pending, holder, life, worker, due, stats, ghosts>>

FlushSleep(c) ==
    /\ flushing[c] /\ holder = NoCaller /\ pending # << >>
    /\ holder' = c
    /\ UNCHANGED <<service, pending, flushing, life, worker, due, stats, ghosts>>

FaultyFlushAwake(c) ==    \* the mutex is kept until the queue is empty
    /\ holder = c /\ pending = << >>
    /\ holder' = NoCaller
    /\ UNCHANGED <<service, pending, flushing, life, worker, due, stats, ghosts>>

FlushAwake(c) ==
    /\ holder = c
    /\ holder' = NoCaller
    /\ UNCHANGED <<service, pending, flushing, life, worker, due, stats, ghosts>>

Destroy ==
    /\ running /\ \A c \in Callers : ~flushing[c]
    /\ running' = FALSE
    /\ UNCHANGED <<service, pending, caller, joined, worker, due, stats, ghosts>>

Join ==
    /\ ~running /\ ~joined /\ workerAt = "done"
    /\ joined' = TRUE
    /\ UNCHANGED <<service, pending, caller, running, worker, due, stats, ghosts>>

-----------------------------------------------------------------------------
(* worker_thread                                                           *)

\* while (running_)
WorkerTest ==
    /\ workerAt = "test"
    /\ workerAt' = IF running THEN "take" ELSE "last"
    /\ UNCHANGED <<service, pending, caller, life, batch, retryCount, due, stats, ghosts>>

Room == IF Len(pending) < BatchSize - Len(batch) THEN Len(pending) ELSE BatchSize - Len(batch)

Stopping == ~running /\ pending = << >>

WorkerStop ==
    /\ workerAt = "take" /\ holder = NoCaller
    /\ Stopping
    /\ workerAt' = "last"
    /\ UNCHANGED <<service, pending, caller, life, batch, retryCount, due, stats, ghosts>>

FaultyWorkerTake ==    \* the newest events first
    /\ workerAt = "take" /\ holder = NoCaller
    /\ ~Stopping
    /\ batch' = batch \o SubSeq(pending, Len(pending) - Room + 1, Len(pending))
    /\ pending' = SubSeq(pending, 1, Len(pending) - Room)
    /\ workerAt' = "decide"
    /\ UNCHANGED <<service, caller, life, retryCount, due, stats, ghosts>>

WorkerTake ==
    /\ workerAt = "take" /\ holder = NoCaller
    /\ ~Stopping
    /\ batch' = batch \o SubSeq(pending, 1, Room)
    /\ pending' = SubSeq(pending, Room + 1, Len(pending))
    /\ workerAt' = "decide"
    /\ UNCHANGED <<service, caller, life, retryCount, due, stats, ghosts>>

FaultyReady == Len(batch) >= BatchSize
Ready == batch # << >> /\ (Len(batch) >= BatchSize \/ due)

WorkerKeep ==
    /\ workerAt = "decide" /\ ~Ready
    /\ workerAt' = "test"
    /\ UNCHANGED <<service, pending, caller, life, batch, retryCount, due, stats, ghosts>>

\* last_send becomes the time of this decision, not that of the answer.
WorkerSend ==
    /\ workerAt = "decide" /\ Ready
    /\ workerAt' = "post" /\ retryCount' = 0 /\ attempts' = 0 /\ due' = FALSE
    /\ UNCHANGED <<service, pending, caller, life, batch, stats, logged, accepted, arrived>>

WorkerLast ==
    /\ workerAt = "last"
    /\ workerAt' = IF batch = << >> THEN "done" ELSE "post"
    /\ retryCount' = 0 /\ attempts' = 0
    /\ UNCHANGED <<service, pending, caller, life, batch, due, stats, logged, accepted, arrived>>

-----------------------------------------------------------------------------
(* send_batch.  The service gets the whole batch or nothing, Azure also a  *)
(* part of it, which it answers by 206; the answer may also be lost.       *)

Arrive(events) == arrived' = arrived \cup events
Parts == IF service = "azure" THEN SUBSET ToSet(batch) ELSE {{}, ToSet(batch)}
Post ==
    /\ attempts' = IF attempts > MaxRetries + 1 THEN attempts ELSE attempts + 1
    /\ UNCHANGED <<service, pending, caller, life, batch, due, stats, logged, accepted>>

PostAccepted ==
    /\ workerAt = "post" /\ Post
    /\ Arrive(ToSet(batch))
    /\ workerAt' = "account" /\ UNCHANGED retryCount

PostPartly ==
    /\ workerAt = "post" /\ Post
    /\ service = "azure" /\ \E part \in Parts : Arrive(part)
    /\ workerAt' = "account" /\ UNCHANGED retryCount

FaultyPostRejected ==    \* after the last retry the batch counts as sent
    /\ workerAt = "post" /\ Post
    /\ \E part \in Parts : Arrive(part)
    /\ IF retryCount < MaxRetries THEN workerAt' = "backoff" /\ retryCount' = retryCount + 1
       ELSE workerAt' = "account" /\ UNCHANGED retryCount

\* After the last retry the loop's condition still holds: retry_count stays
\* at max_retries, and the post is repeated without a delay.
PostRejected ==
    /\ workerAt = "post" /\ Post
    /\ \E part \in Parts : Arrive(part)
    /\ IF retryCount < MaxRetries THEN workerAt' = "backoff" /\ retryCount' = retryCount + 1
       ELSE UNCHANGED <<workerAt, retryCount>>

Backoff ==
    /\ workerAt = "backoff"
    /\ workerAt' = "post"
    /\ stats' = [stats EXCEPT !.retries = @ + 1]
    /\ UNCHANGED <<service, pending, caller, life, batch, retryCount, due, ghosts>>

\* The loop of send_batch ends only with success.  After the last batch
\* running is FALSE, and the worker ends.
Account ==
    /\ workerAt = "account"
    /\ stats' = [stats EXCEPT !.batches = @ + 1, !.sent = @ + Len(batch)]
    /\ batch' = << >>
    /\ workerAt' = "test"
    /\ UNCHANGED <<service, pending, caller, life, retryCount, due, ghosts>>

\* The clock.
Tick ==
    /\ ~due /\ due' = TRUE
    /\ UNCHANGED <<service, pending, caller, life, worker, stats, ghosts>>

-----------------------------------------------------------------------------
Worker == WorkerTest \/ WorkerStop \/ WorkerTake \/ WorkerKeep \/ WorkerSend \/ WorkerLast
          \/ PostAccepted \/ PostPartly \/ PostRejected \/ Backoff \/ Account

Call(c) == LogDrop(c) \/ LogQueue(c) \/ FlushCall(c)
FlushStep(c) == FlushReturn(c) \/ FlushSleep(c) \/ FlushAwake(c)

CloudNext == Worker \/ Destroy \/ Join \/ Tick \/ \E c \in Callers : Call(c) \/ FlushStep(c)

CloudSpec == CloudInit /\ [][CloudNext]_cloudVars

-----------------------------------------------------------------------------
(* Properties.                                                             *)

Events == 1..MaxLogged
CloudTypeOK ==
    /\ service \in Services
    /\ pending \in Seq(Events) /\ Len(pending) <= MaxQueue
    /\ holder \in Callers \cup {NoCaller} /\ flushing \in [Callers -> BOOLEAN]
    /\ running \in BOOLEAN /\ joined \in BOOLEAN /\ due \in BOOLEAN
    /\ workerAt \in {"test", "take", "decide", "post", "backoff", "account", "last", "done"}
    /\ batch \in Seq(Events) /\ Len(batch) <= BatchSize /\ retryCount \in 0..MaxRetries
    /\ stats \in [sent : Nat, dropped : Nat, batches : Nat, retries : Nat]
    /\ logged \in 0..MaxLogged /\ accepted \in Events \cup {0}
    /\ attempts \in 0..(MaxRetries + 2) /\ arrived \subseteq Events

\* At every moment each event that was logged is counted as dropped, counted
\* as sent, or in the batch or the queue, once and in the order of the log
\* calls.  So get_stats misses exactly the batch the worker holds.
EventsConserved ==
    /\ logged = accepted + stats.dropped
    /\ batch \o pending = [i \in 1..(accepted - stats.sent) |-> stats.sent + i]

\* The service has nothing that the worker has not taken into a batch, and a
\* CloudWatch service has all that is counted as sent: of a batch it has all or
\* nothing.  (A service that answers 206 has taken a part, and all of the batch
\* counts as sent.)
SentHasArrived ==
    /\ arrived \subseteq 1..(stats.sent + Len(batch))
    /\ service = "cloudwatch" => arrived \in {1..stats.sent, 1..(stats.sent + Len(batch))}

\* The sink neither loses nor doubles an event, within its bounds.
CloudInv == CloudTypeOK /\ EventsConserved /\ SentHasArrived

\* Events arrive at the service for the first time in the order in which they
\* were logged: no answer that is lost and no retry lets one overtake another,
\* but within a batch of which Azure has taken a part.
Overtakes(new, old) == new < old /\ ~(service = "azure" /\ old \in ToSet(batch))
ArrivesInOrder ==
    [][\A new \in arrived' \ arrived : \A old \in arrived : ~Overtakes(new, old)]_cloudVars

\* An event that the queue has accepted is sent unless the sink is destroyed:
\* a batch that is not full goes out when its time is over.
Delivered == \A n \in Events : accepted >= n ~> stats.sent >= n \/ ~running

\* flush() returns, although it sleeps while it holds the mutex the worker
\* needs.
FlushReturns == \A c \in Callers : flushing[c] ~> ~flushing[c]

\* The destructor returns: the worker comes to its end from wherever it is.
DestroyReturns == ~running ~> joined

\* Neither flush() nor the destructor waits for ever.
CallsReturn == FlushReturns /\ DestroyReturns

\* A batch is posted once and then retried max_retries times ("Retry attempts
\* on failure", cloud_sinks.hpp:27).
AttemptsBounded == attempts <= MaxRetries + 1

\* The sink delivers in batches: a batch that is being retried neither grows nor
\* shrinks and nothing is posted beside it or after it was counted as sent.  It
\* gives nothing up (lost is empty) and refuses only with a full queue.
InPost == workerAt \in {"post", "backoff", "account"} /\ attempts > 0
Promise == INSTANCE Delivery WITH
    Capacity <- MaxQueue, whole <- (service = "cloudwatch"),
    refused <- stats.dropped, settled <- stats.sent,
    front <- IF InPost THEN Len(batch) ELSE 0, reached <- arrived, lost <- {}
ImplementsDelivery == Promise!Spec
=============================================================================
