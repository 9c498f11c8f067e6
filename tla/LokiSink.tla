------------------------------ MODULE LokiSink ------------------------------
(***************************************************************************)
(* Zyrnix::LokiSink (loki_sink.cpp): messages are buffered and posted in   *)
(* batches under the sink's mutex, with three attempts.  An answer may be  *)
(* lost after the service has taken a batch.  Time is counted in units of  *)
(* the flush interval's resolution, messages are numbered.                 *)
(***************************************************************************)
EXTENDS Naturals, Sequences, SequencesExt

CONSTANTS BatchSizes,     \* the values of batch_size
          Intervals,      \* the values of flush_interval_ms; 0 for none
          MaxLines, MaxTime, MaxOptions   \* bounds

ASSUME LokiOptionsAssumption == BatchSizes \subseteq Nat /\ Intervals \subseteq Nat
ASSUME LokiBoundsAssumption == {MaxLines, MaxTime, MaxOptions} \subseteq Nat

MaxRetries == 3

VARIABLES lokiPc,     \* of the call that holds mutex_, "idle" without one
          lines,      \* buffer_
          batchSize, interval,  \* options_
          lastFlush, time,
          attempt,    \* of send_batch
          flushes, errors,      \* of the SinkMetrics
          received,   \* what the service has taken, in order
          dropped,    \* messages given up
          lineCount, optionSets,
          gaveUp      \* batches given up after the last attempt

lokiVars == <<lokiPc, lines, batchSize, interval, lastFlush, time, attempt, flushes, errors,
              received, dropped, lineCount, optionSets, gaveUp>>

LokiInit ==
    /\ lokiPc = "idle" /\ lines = <<>>
    /\ batchSize \in BatchSizes /\ interval = 0
    /\ lastFlush = 0 /\ time = 0 /\ attempt = 0 /\ flushes = 0 /\ errors = 0
    /\ received = <<>> /\ dropped = {} /\ lineCount = 0 /\ optionSets = 0 /\ gaveUp = 0

LokiTick ==
    /\ time < MaxTime /\ time' = time + 1
    /\ UNCHANGED <<lokiPc, lines, batchSize, interval, lastFlush, attempt, flushes, errors,
                   received, dropped, lineCount, optionSets, gaveUp>>

SetOptions(b, i) ==
    /\ lokiPc = "idle" /\ optionSets < MaxOptions /\ optionSets' = optionSets + 1
    /\ batchSize' = b /\ interval' = i
    /\ UNCHANGED <<lokiPc, lines, lastFlush, time, attempt, flushes, errors, received, dropped,
                   lineCount, gaveUp>>

Triggered(buffer) == Len(buffer) >= batchSize \/ (interval > 0 /\ time - lastFlush >= interval)

LokiLog ==
    /\ lokiPc = "idle" /\ lineCount < MaxLines /\ lineCount' = lineCount + 1
    /\ lines' = Append(lines, lineCount')
    /\ lokiPc' = IF Triggered(lines') THEN "send" ELSE "idle"
    /\ attempt' = 0
    /\ UNCHANGED <<batchSize, interval, lastFlush, time, flushes, errors, received, dropped,
                   optionSets, gaveUp>>

LokiFlush ==
    /\ lokiPc = "idle" /\ lines # <<>>
    /\ lokiPc' = "send" /\ attempt' = 0
    /\ UNCHANGED <<lines, batchSize, interval, lastFlush, time, flushes, errors, received,
                   dropped, lineCount, optionSets, gaveUp>>

FaultyReturns ==    \* the buffer is not cleared
    lokiPc' = "idle" /\ lastFlush' = time /\ UNCHANGED <<lines, attempt>>

\* The caller takes the time of the flush when send_batch has returned.
Returns == lokiPc' = "idle" /\ lastFlush' = time /\ lines' = <<>> /\ attempt' = attempt

\* CURLE_OK, which an answer with an HTTP error is as well: the batch is gone.
Posted ==
    /\ lokiPc = "send" /\ lines # <<>> /\ Returns
    /\ flushes' = flushes + 1
    /\ \/ received' = received \o lines /\ UNCHANGED dropped
       \/ dropped' = dropped \cup ToSet(lines) /\ UNCHANGED received
    /\ UNCHANGED <<batchSize, interval, time, errors, lineCount, optionSets, gaveUp>>

OneAttemptLess == attempt + 2 < MaxRetries
MoreAttempts == attempt + 1 < MaxRetries

PostFails ==
    /\ lokiPc = "send" /\ lines # <<>>
    /\ errors' = errors + 1
    /\ received' \in {received, received \o lines}
    /\ IF MoreAttempts
       THEN attempt' = attempt + 1 /\ UNCHANGED <<lokiPc, lastFlush, lines, dropped, gaveUp>>
       ELSE Returns /\ dropped' = dropped \cup ToSet(lines) /\ gaveUp' = gaveUp + 1
    /\ UNCHANGED <<batchSize, interval, time, flushes, lineCount, optionSets>>

\* curl_easy_init fails: no attempt, no error counted.
InitFails ==
    /\ lokiPc = "send" /\ lines # <<>> /\ Returns
    /\ dropped' = dropped \cup ToSet(lines)
    /\ UNCHANGED <<batchSize, interval, time, flushes, errors, received, lineCount, optionSets, gaveUp>>

SendBatch == Posted \/ PostFails \/ InitFails

LokiNext ==
    \/ LokiTick \/ LokiLog \/ LokiFlush \/ SendBatch
    \/ \E b \in BatchSizes, i \in Intervals : SetOptions(b, i)

LokiSpec == LokiInit /\ [][LokiNext]_lokiVars

-----------------------------------------------------------------------------
(* Properties.                                                             *)

LokiTypeOK ==
    /\ lokiPc \in {"idle", "send"} /\ lines \in Seq(1..lineCount)
    /\ {batchSize, interval, lastFlush, time, flushes, errors, lineCount, optionSets, gaveUp} \subseteq Nat
    /\ attempt \in 0..MaxRetries - 1
    /\ received \in Seq(1..lineCount) /\ dropped \subseteq 1..lineCount

\* No message is lost from sight: it waits in the buffer, the service has it, or
\* it was dropped; and one the service has is never waiting once its call returned.
LokiConserved ==
    /\ 1..lineCount = ToSet(lines) \cup ToSet(received) \cup dropped
    /\ lokiPc = "idle" => ToSet(lines) \cap (ToSet(received) \cup dropped) = {}

\* Between calls less than a batch waits, whatever the options were meanwhile
\* (and nothing at all if every batch_size is 0).
BufferBounded ==
    lokiPc = "idle" /\ lines # <<>> => \E b \in BatchSizes : Len(lines) < b

\* Every batch that was given up had its three attempts, and each counts as an error.
GivenUpAfterThree == errors >= MaxRetries * gaveUp + (IF lokiPc = "send" THEN attempt ELSE 0)

\* A message waits, has arrived or was given up after three attempts, and less
\* than a batch waits between calls.
LokiInv == LokiTypeOK /\ LokiConserved /\ BufferBounded /\ GivenUpAfterThree

\* The sink delivers in batches, each of them the whole buffer, in order: nothing
\* is posted again that was settled, and what is settled has arrived or counts as
\* dropped.  It refuses nothing.
LokiPromise == INSTANCE Delivery WITH
    Capacity <- 0, whole <- TRUE, accepted <- lineCount, refused <- 0,
    settled <- lineCount - Len(lines),
    front <- IF lokiPc = "send" /\ attempt > 0 THEN Len(lines) ELSE 0,
    reached <- ToSet(received), lost <- dropped
LokiImplementsDelivery == LokiPromise!Spec
=============================================================================
