--------------------------- MODULE CloudSinkProofs ---------------------------
(***************************************************************************)
(* Proofs about CloudSink, for any callers, sizes and numbers of retries:  *)
(* no event is lost or doubled, what is counted as sent has arrived, and   *)
(* no batch overtakes another one on the way to the service.  The sink     *)
(* implements the abstract Delivery.                                       *)
(***************************************************************************)
EXTENDS CloudSink, SequenceTheorems, TLAPS

\* Events are numbered as they are accepted: those counted as sent come first,
\* then the batch, then the queue.
Taken == stats.sent + Len(batch)

Lined ==
    /\ logged = accepted + stats.dropped /\ accepted = Taken + Len(pending)
    /\ \A i \in 1..Len(batch) : batch[i] = stats.sent + i
    /\ \A i \in 1..Len(pending) : pending[i] = Taken + i

\* Only while the batch is being sent may events arrive that are not counted.
Sending == workerAt \in {"post", "backoff", "account"}
Reached == IF Sending THEN Taken ELSE stats.sent

Arrivals ==
    /\ arrived \subseteq 1..Reached
    /\ service = "cloudwatch" => arrived \in {1..stats.sent, 1..Reached}
    /\ service = "cloudwatch" /\ workerAt = "account" => arrived = 1..Reached

SinkInv == CloudTypeOK /\ Lined /\ Arrivals

-----------------------------------------------------------------------------
(* Types.                                                                  *)

Stats == [sent : Nat, dropped : Nat, batches : Nat, retries : Nat]

LEMMA StatsCount ==
    ASSUME NEW s \in Stats, NEW n \in Nat
    PROVE  /\ s.sent \in Nat /\ s.dropped \in Nat
           /\ [s EXCEPT !.dropped = @ + 1] \in Stats /\ [s EXCEPT !.retries = @ + 1] \in Stats
           /\ [s EXCEPT !.batches = @ + 1, !.sent = @ + n] \in Stats
           /\ [s EXCEPT !.batches = @ + 1, !.sent = @ + n].sent = s.sent + n
           /\ [s EXCEPT !.batches = @ + 1, !.sent = @ + n].dropped = s.dropped
           /\ [s EXCEPT !.dropped = @ + 1].sent = s.sent
           /\ [s EXCEPT !.dropped = @ + 1].dropped = s.dropped + 1
           /\ [s EXCEPT !.retries = @ + 1].sent = s.sent
           /\ [s EXCEPT !.retries = @ + 1].dropped = s.dropped
<1>1. s.sent \in Nat /\ s.dropped \in Nat /\ s.batches \in Nat /\ s.retries \in Nat
  BY DEF Stats
<1>2. ASSUME NEW t, t = [s EXCEPT !.dropped = @ + 1]
      PROVE  t \in Stats /\ t.sent = s.sent /\ t.dropped = s.dropped + 1
  BY <1>1, <1>2 DEF Stats
<1>3. ASSUME NEW t, t = [s EXCEPT !.retries = @ + 1]
      PROVE  t \in Stats /\ t.sent = s.sent /\ t.dropped = s.dropped
  BY <1>1, <1>3 DEF Stats
<1>4. ASSUME NEW t, t = [s EXCEPT !.batches = @ + 1, !.sent = @ + n]
      PROVE  t \in Stats /\ t.sent = s.sent + n /\ t.dropped = s.dropped
  <2>1. t = [[s EXCEPT !.batches = @ + 1] EXCEPT !.sent = @ + n]
    BY <1>4 DEF Stats
  <2>2. ASSUME NEW u, u = [s EXCEPT !.batches = @ + 1]
        PROVE  u \in Stats /\ u.sent = s.sent /\ u.dropped = s.dropped
    BY <1>1, <2>2 DEF Stats
  <2>3. ASSUME NEW u \in Stats, t = [u EXCEPT !.sent = @ + n]
        PROVE  t \in Stats /\ t.sent = u.sent + n /\ t.dropped = u.dropped
    BY <2>3 DEF Stats
  <2> QED
    BY <2>1, <2>2, <2>3
<1> QED
  BY <1>1, <1>2, <1>3, <1>4

LEMMA InitInv == CloudInit => SinkInv
<1> SUFFICES ASSUME CloudInit PROVE SinkInv
  OBVIOUS
<1>1. \A S : << >> \in Seq(S)
  OBVIOUS
<1>2. Len(pending) = 0 /\ Len(batch) = 0 /\ stats.sent = 0 /\ stats.dropped = 0
  BY DEF CloudInit
<1>3. CloudTypeOK
  <2>1. stats \in Stats
    BY DEF CloudInit, Stats
  <2>2. attempts \in 0..(MaxRetries + 2) /\ retryCount \in 0..MaxRetries /\ logged \in 0..MaxLogged
    BY RetriesAssumption, LoggedAssumption DEF CloudInit
  <2>3. 0 <= MaxQueue /\ 0 <= BatchSize
    BY BatchAssumption, QueueAssumption
  <2> QED
    BY <1>1, <1>2, <2>1, <2>2, <2>3
       DEF CloudInit, CloudTypeOK, Stats
<1>4. Lined
  BY <1>2 DEF CloudInit, Lined, Taken
<1>5. Arrivals
  BY <1>2 DEF CloudInit, Arrivals, Reached, Sending
<1> QED
  BY <1>3, <1>4, <1>5 DEF SinkInv

\* The worker takes as many events as the batch has room for.
LEMMA TakesRoom ==
    ASSUME CloudTypeOK
    PROVE  Room \in Nat /\ Room <= Len(pending) /\ Len(batch) + Room <= BatchSize
  BY BatchAssumption DEF CloudTypeOK, Room

LEMMA WorkerTakeSeqs ==
    ASSUME CloudTypeOK, WorkerTake
    PROVE  /\ batch' \in Seq(Events) /\ pending' \in Seq(Events)
           /\ Len(batch') = Len(batch) + Room /\ Len(pending') = Len(pending) - Room
           /\ \A i \in 1..Len(batch') :
                 batch'[i] = IF i <= Len(batch) THEN batch[i] ELSE pending[i - Len(batch)]
           /\ \A i \in 1..Len(pending') : pending'[i] = pending[i + Room]
<1>1. Room \in Nat /\ Room <= Len(pending) /\ pending \in Seq(Events) /\ batch \in Seq(Events)
      /\ Len(pending) \in Nat /\ Len(batch) \in Nat
  BY TakesRoom DEF CloudTypeOK
<1> DEFINE front == SubSeq(pending, 1, Room)  back == SubSeq(pending, Room + 1, Len(pending))
<1>2. \A i \in 1..Len(pending) : pending[i] \in Events
  BY <1>1
<1>3. front \in Seq(Events) /\ Len(front) = Room /\ \A i \in 1..Room : front[i] = pending[i]
  <2>1. \A i \in 1..Room : pending[i] \in Events
    BY <1>1, <1>2
  <2>2. 1 \in Int /\ Room \in Int
    BY <1>1
  <2>3. front \in Seq(Events) /\ Len(front) = (IF 1 <= Room THEN Room - 1 + 1 ELSE 0)
        /\ \A i \in 1..Room - 1 + 1 : front[i] = pending[1 + i - 1]
    BY <2>1, <2>2, SubSeqProperties
  <2> QED
    BY <1>1, <2>3
<1>4. back \in Seq(Events) /\ Len(back) = Len(pending) - Room
      /\ \A i \in 1..Len(pending) - Room : back[i] = pending[i + Room]
  <2>1. \A i \in Room + 1..Len(pending) : pending[i] \in Events
    BY <1>1, <1>2
  <2>2. Room + 1 \in Int /\ Len(pending) \in Int
    BY <1>1
  <2>3. back \in Seq(Events)
        /\ Len(back) = (IF Room + 1 <= Len(pending) THEN Len(pending) - (Room + 1) + 1 ELSE 0)
        /\ \A i \in 1..Len(pending) - (Room + 1) + 1 : back[i] = pending[Room + 1 + i - 1]
    BY <2>1, <2>2, SubSeqProperties
  <2> QED
    BY <1>1, <2>3
<1>5. batch' = batch \o front /\ pending' = back
  BY DEF WorkerTake
<1>6. batch' \in Seq(Events) /\ Len(batch') = Len(batch) + Room
      /\ \A i \in 1..Len(batch) + Room :
            batch'[i] = IF i <= Len(batch) THEN batch[i] ELSE front[i - Len(batch)]
  BY <1>1, <1>3, <1>5, ConcatProperties
<1> HIDE DEF front, back
<1>7. ASSUME NEW i \in 1..Len(batch')
      PROVE  batch'[i] = IF i <= Len(batch) THEN batch[i] ELSE pending[i - Len(batch)]
  <2>1. i > Len(batch) => i - Len(batch) \in 1..Room
    BY <1>1, <1>6
  <2> QED
    BY <1>1, <1>3, <1>6, <2>1
<1> QED
  BY <1>4, <1>5, <1>6, <1>7

LEMMA TypesStep == CloudTypeOK /\ Lined /\ [CloudNext]_cloudVars => CloudTypeOK'
<1> SUFFICES ASSUME CloudTypeOK, Lined, [CloudNext]_cloudVars PROVE CloudTypeOK'
  OBVIOUS
<1> USE BatchAssumption, QueueAssumption, RetriesAssumption, LoggedAssumption
<1>1. stats \in Stats /\ stats.sent \in Nat /\ stats.dropped \in Nat /\ Len(batch) \in Nat
  <2>1. stats \in Stats /\ Len(batch) \in Nat
    BY DEF CloudTypeOK, Stats
  <2> QED
    BY <2>1, StatsCount
<1>2. ASSUME NEW c \in Callers, LogDrop(c) PROVE CloudTypeOK'
  <2>1. stats' \in Stats
    BY <1>1, <1>2, StatsCount DEF LogDrop
  <2>2. logged' \in 0..MaxLogged
    BY <1>2 DEF LogDrop, CloudTypeOK
  <2>3. UNCHANGED <<service, pending, caller, life, worker, due, accepted, attempts, arrived>>
    BY <1>2 DEF LogDrop
  <2> QED
    BY <2>1, <2>2, <2>3 DEF CloudTypeOK, Stats, caller, life, worker
<1>3. ASSUME NEW c \in Callers, LogQueue(c) PROVE CloudTypeOK'
  <2>1. accepted + 1 \in Events
    <3>1. accepted \in Nat /\ logged \in Nat
      BY DEF CloudTypeOK, Events
    <3>2. accepted <= logged /\ logged < MaxLogged
      BY <1>1, <1>3, <3>1 DEF LogQueue, Lined
    <3> QED
      BY <3>1, <3>2 DEF Events
  <2>2. pending' \in Seq(Events) /\ Len(pending') = Len(pending) + 1
    BY <1>3, <2>1 DEF LogQueue, CloudTypeOK
  <2>3. logged' \in 0..MaxLogged /\ accepted' \in Events /\ Len(pending') <= MaxQueue
    BY <1>3, <2>1, <2>2 DEF LogQueue, CloudTypeOK
  <2> QED
    BY <1>3, <2>2, <2>3 DEF LogQueue, CloudTypeOK, caller, life, worker
<1>4. ASSUME NEW c \in Callers, FlushCall(c) \/ FlushStep(c) PROVE CloudTypeOK'
  BY <1>4 DEF FlushCall, FlushStep, FlushReturn, FlushSleep, FlushAwake, CloudTypeOK, life, worker, ghosts
<1>5. CASE Destroy
  BY <1>5 DEF Destroy, CloudTypeOK, caller, worker, ghosts
<1>6. CASE Join
  BY <1>6 DEF Join, CloudTypeOK, caller, worker, ghosts
<1>7. CASE Tick
  BY <1>7 DEF Tick, CloudTypeOK, caller, life, worker, ghosts
<1>8. CASE WorkerTest \/ WorkerStop \/ WorkerKeep
  BY <1>8 DEF WorkerTest, WorkerStop, WorkerKeep, CloudTypeOK, caller, life, ghosts
<1>9. CASE WorkerTake
  <2>1. batch' \in Seq(Events) /\ Len(batch') <= BatchSize /\ pending' \in Seq(Events) /\ Len(pending') <= MaxQueue
    BY <1>9, TakesRoom, WorkerTakeSeqs DEF CloudTypeOK
  <2> QED
    BY <1>9, <2>1 DEF WorkerTake, CloudTypeOK, caller, life, ghosts
<1>10. CASE WorkerSend \/ WorkerLast
  <2>1. retryCount' \in 0..MaxRetries /\ attempts' \in 0..(MaxRetries + 2)
    BY <1>10 DEF WorkerSend, WorkerLast
  <2> QED
    BY <1>10, <2>1 DEF WorkerSend, WorkerLast, CloudTypeOK, caller, life
<1>11. CASE PostAccepted \/ PostPartly \/ PostRejected
  <2>1. ToSet(batch) \subseteq Events
    BY DEF ToSet, CloudTypeOK
  <2>2. arrived' \subseteq Events
    BY <1>11, <2>1 DEF PostAccepted, PostPartly, PostRejected, Arrive, Parts, CloudTypeOK
  <2>3. attempts' \in 0..(MaxRetries + 2) /\ retryCount' \in 0..MaxRetries
    BY <1>11 DEF PostAccepted, PostPartly, PostRejected, Post, CloudTypeOK
  <2>4. workerAt' \in {"account", "backoff", "post"}
        /\ UNCHANGED <<service, pending, caller, life, batch, due, stats, logged, accepted>>
    BY <1>11 DEF PostAccepted, PostPartly, PostRejected, Post
  <2> QED
    BY <2>2, <2>3, <2>4 DEF CloudTypeOK, caller, life
<1>12. CASE Backoff
  <2>1. stats' \in Stats
    BY <1>1, <1>12, StatsCount DEF Backoff
  <2> QED
    BY <1>12, <2>1 DEF Backoff, CloudTypeOK, Stats, caller, life, ghosts
<1>13. CASE Account
  <2>1. stats' \in Stats
    BY <1>1, <1>13, StatsCount DEF Account
  <2>2. \A S : << >> \in Seq(S)
    OBVIOUS
  <2>3. batch' = << >> /\ Len(batch') = 0 /\ workerAt' = "test"
        /\ UNCHANGED <<service, pending, caller, life, retryCount, due, ghosts>>
    BY <1>13 DEF Account
  <2> QED
    BY <2>1, <2>2, <2>3 DEF CloudTypeOK, Stats, caller, life, ghosts
<1>14. CASE UNCHANGED cloudVars
  BY <1>14 DEF cloudVars, CloudTypeOK, caller, life, worker, ghosts
<1> QED
  BY <1>2, <1>3, <1>4, <1>5, <1>6, <1>7, <1>8, <1>9, <1>10, <1>11, <1>12, <1>13, <1>14
     DEF CloudNext, Call, Worker

-----------------------------------------------------------------------------
(* Every event is in its place.                                            *)

LEMMA Numbers ==
    ASSUME CloudTypeOK
    PROVE  /\ stats \in Stats /\ stats.sent \in Nat /\ stats.dropped \in Nat
           /\ Len(batch) \in Nat /\ Len(pending) \in Nat /\ Taken \in Nat /\ Taken = stats.sent + Len(batch)
<1>1. stats \in Stats /\ Len(batch) \in Nat /\ Len(pending) \in Nat
  BY DEF CloudTypeOK, Stats
<1>2. stats.sent \in Nat /\ stats.dropped \in Nat
  BY <1>1, StatsCount
<1> QED
  BY <1>1, <1>2 DEF Taken

LEMMA LinedStep == CloudTypeOK /\ Lined /\ [CloudNext]_cloudVars => Lined'
<1> SUFFICES ASSUME CloudTypeOK, Lined, [CloudNext]_cloudVars PROVE Lined'
  OBVIOUS
<1>1. logged \in Nat /\ accepted \in Nat
  BY LoggedAssumption DEF CloudTypeOK, Events
<1>2. ASSUME UNCHANGED <<pending, batch, logged, accepted>>, stats'.sent = stats.sent,
             stats'.dropped = stats.dropped
      PROVE  Lined'
  BY <1>2 DEF Lined, Taken
<1>3. ASSUME NEW c \in Callers, LogDrop(c) PROVE Lined'
  <2>1. stats'.sent = stats.sent /\ stats'.dropped = stats.dropped + 1
    BY <1>3, Numbers, StatsCount DEF LogDrop
  <2>2. UNCHANGED <<pending, batch, accepted>> /\ logged' = logged + 1
    BY <1>3 DEF LogDrop, worker
  <2> QED
    BY <1>1, <2>1, <2>2, Numbers DEF Lined, Taken
<1>4. ASSUME NEW c \in Callers, LogQueue(c) PROVE Lined'
  <2>1. Len(pending') = Len(pending) + 1 /\ pending'[Len(pending) + 1] = accepted + 1
        /\ \A i \in 1..Len(pending) : pending'[i] = pending[i]
    BY <1>4 DEF LogQueue, CloudTypeOK
  <2>2. UNCHANGED <<batch, stats, Taken>> /\ logged' = logged + 1 /\ accepted' = accepted + 1
    BY <1>4 DEF LogQueue, worker, Taken
  <2>3. Taken \in Nat /\ Len(pending) \in Nat /\ stats.dropped \in Nat
    BY Numbers
  <2>4. accepted = Taken + Len(pending) /\ logged = accepted + stats.dropped
        /\ \A i \in 1..Len(pending) : pending[i] = Taken + i
    BY DEF Lined
  <2>5. ASSUME NEW i \in 1..Len(pending') PROVE pending'[i] = Taken + i
    <3>1. i \in 1..Len(pending) \/ i = Len(pending) + 1
      BY <2>1, <2>3
    <3>2. CASE i \in 1..Len(pending)
      BY <2>1, <2>4, <3>2
    <3>3. CASE i = Len(pending) + 1
      BY <2>1, <2>3, <2>4, <3>3
    <3> QED
      BY <3>1, <3>2, <3>3
  <2>6. accepted' = Taken' + Len(pending') /\ logged' = accepted' + stats'.dropped
    BY <1>1, <2>1, <2>2, <2>3, <2>4
  <2> QED
    BY <2>2, <2>5, <2>6 DEF Lined
<1>5. CASE WorkerTake
  <2>1. Room \in Nat /\ UNCHANGED <<stats, logged, accepted>>
    BY <1>5, TakesRoom DEF WorkerTake, ghosts
  <2>2. Taken' = Taken + Room
    <3>1. stats' = stats /\ Len(batch') = Len(batch) + Room
      BY <1>5, <2>1, WorkerTakeSeqs
    <3>2. stats.sent \in Nat /\ Len(batch) \in Nat
      BY Numbers
    <3> QED
      BY <2>1, <3>1, <3>2 DEF Taken
  <2>3. accepted' = Taken' + Len(pending')
    <3>1. accepted' = accepted /\ Len(pending') = Len(pending) - Room
      BY <1>5, <2>1, WorkerTakeSeqs
    <3>2. Taken \in Nat /\ Len(pending) \in Nat /\ accepted = Taken + Len(pending)
      BY Numbers DEF Lined
    <3> QED
      BY <2>1, <2>2, <3>1, <3>2
  <2>4. ASSUME NEW i \in 1..Len(batch') PROVE batch'[i] = stats.sent + i
    <3>1. CASE i <= Len(batch)
      <4>1. i \in 1..Len(batch)
        BY <3>1, Numbers
      <4> QED
        BY <1>5, <3>1, <4>1, WorkerTakeSeqs DEF Lined
    <3>2. CASE i > Len(batch)
      <4>1. i - Len(batch) \in 1..Len(pending) /\ i \in Nat
        BY <1>5, <2>1, <2>4, <3>2, WorkerTakeSeqs, Numbers, TakesRoom
      <4>2. batch'[i] = pending[i - Len(batch)]
        BY <1>5, <2>4, <3>2, <4>1, WorkerTakeSeqs, Numbers
      <4>3. pending[i - Len(batch)] = Taken + (i - Len(batch))
        BY <4>1 DEF Lined
      <4> QED
        BY <4>1, <4>2, <4>3, Numbers
    <3> QED
      BY <3>1, <3>2, Numbers
  <2>5. ASSUME NEW i \in 1..Len(pending') PROVE pending'[i] = Taken' + i
    <3>1. i + Room \in 1..Len(pending) /\ i \in Nat
      BY <1>5, <2>1, <2>5, WorkerTakeSeqs, Numbers, TakesRoom
    <3>2. pending'[i] = pending[i + Room] /\ pending[i + Room] = Taken + (i + Room)
      BY <1>5, <2>5, <3>1, WorkerTakeSeqs DEF Lined
    <3> QED
      BY <2>1, <2>2, <3>1, <3>2, Numbers
  <2> QED
    BY <2>1, <2>3, <2>4, <2>5 DEF Lined
<1>6. CASE Backoff
  <2>1. stats'.sent = stats.sent /\ stats'.dropped = stats.dropped
    BY <1>6, Numbers, StatsCount DEF Backoff
  <2> QED
    BY <1>2, <1>6, <2>1 DEF Backoff, ghosts
<1>7. CASE Account
  <2>1. stats'.sent = Taken /\ stats'.dropped = stats.dropped
    BY <1>7, Numbers, StatsCount DEF Account
  <2>2. Len(batch') = 0 /\ UNCHANGED <<pending, logged, accepted>>
    BY <1>7 DEF Account, ghosts
  <2>3. Taken' = Taken
    BY <2>1, <2>2, Numbers DEF Taken
  <2> QED
    BY <2>1, <2>2, <2>3 DEF Lined
<1>8. CASE UNCHANGED <<pending, batch, logged, accepted, stats>>
  BY <1>2, <1>8
<1>9. ASSUME NEW c \in Callers, FlushCall(c) \/ FlushStep(c) PROVE Lined'
  BY <1>8, <1>9 DEF FlushCall, FlushStep, FlushReturn, FlushSleep, FlushAwake, worker, ghosts
<1>10. CASE Destroy \/ Join \/ Tick
  BY <1>8, <1>10 DEF Destroy, Join, Tick, worker, ghosts
<1>11. CASE WorkerTest \/ WorkerStop \/ WorkerKeep \/ WorkerSend \/ WorkerLast
  BY <1>8, <1>11 DEF WorkerTest, WorkerStop, WorkerKeep, WorkerSend, WorkerLast, ghosts
<1>12. CASE PostAccepted \/ PostPartly \/ PostRejected
  BY <1>8, <1>12 DEF PostAccepted, PostPartly, PostRejected, Post
<1>13. CASE UNCHANGED cloudVars
  BY <1>8, <1>13 DEF cloudVars, worker, ghosts
<1> QED
  BY <1>3, <1>4, <1>5, <1>6, <1>7, <1>9, <1>10, <1>11, <1>12, <1>13 DEF CloudNext, Call, Worker

-----------------------------------------------------------------------------
(* What has arrived.                                                       *)

LEMMA BatchNumbers ==
    ASSUME CloudTypeOK, Lined
    PROVE  ToSet(batch) = stats.sent + 1..Taken
<1>1. DOMAIN batch = 1..Len(batch)
  BY DEF CloudTypeOK
<1>2. ToSet(batch) \subseteq stats.sent + 1..Taken
  BY <1>1, Numbers DEF ToSet, Lined
<1>3. ASSUME NEW e \in stats.sent + 1..Taken PROVE e \in ToSet(batch)
  <2>1. e - stats.sent \in 1..Len(batch) /\ stats.sent + (e - stats.sent) = e
    BY <1>3, Numbers
  <2> QED
    BY <1>1, <2>1 DEF ToSet, Lined
<1> QED
  BY <1>2, <1>3

\* What a post brings to the service.
LEMMA PostArrives ==
    ASSUME CloudTypeOK, Lined, Arrivals, workerAt = "post", NEW part \in Parts, Arrive(part)
    PROVE  /\ arrived' \subseteq 1..Taken
           /\ service = "cloudwatch" => arrived' \in {1..stats.sent, 1..Taken}
           /\ part = ToSet(batch) /\ service = "cloudwatch" => arrived' = 1..Taken
<1>1. ToSet(batch) = stats.sent + 1..Taken
  BY BatchNumbers
<1>2. arrived \subseteq 1..Taken /\ (service = "cloudwatch" => arrived \in {1..stats.sent, 1..Taken})
  BY DEF Arrivals, Reached, Sending
<1>3. part \subseteq ToSet(batch) /\ (service = "cloudwatch" => part \in {{}, ToSet(batch)})
  BY DEF Parts
<1>4. arrived' = arrived \cup part
  BY DEF Arrive
<1>5. stats.sent + 1..Taken \subseteq 1..Taken /\ 1..stats.sent \cup (stats.sent + 1..Taken) = 1..Taken
  BY Numbers
<1> QED
  BY <1>1, <1>2, <1>3, <1>4, <1>5

LEMMA ArrivalsStep == CloudTypeOK /\ Lined /\ Arrivals /\ [CloudNext]_cloudVars => Arrivals'
<1> SUFFICES ASSUME CloudTypeOK, Lined, Arrivals, [CloudNext]_cloudVars PROVE Arrivals'
  OBVIOUS
<1>1. stats.sent \in Nat /\ Taken \in Nat /\ stats.sent <= Taken
  BY Numbers
\* A step that adds nothing to the service and may begin the sending.
<1>2. ASSUME UNCHANGED <<service, arrived>>, stats'.sent = stats.sent, Reached' = Reached,
             workerAt' = "account" => workerAt = "account"
      PROVE  Arrivals'
  BY <1>2 DEF Arrivals
<1>3. ASSUME NEW c \in Callers, LogDrop(c) PROVE Arrivals'
  <2>1. stats'.sent = stats.sent
    BY <1>3, Numbers, StatsCount DEF LogDrop
  <2> QED
    BY <1>2, <1>3, <2>1 DEF LogDrop, Reached, Sending, Taken, worker
<1>4. CASE Backoff
  <2>1. stats'.sent = stats.sent
    BY <1>4, Numbers, StatsCount DEF Backoff
  <2> QED
    BY <1>2, <1>4, <2>1 DEF Backoff, Reached, Sending, Taken, ghosts
<1>5. CASE WorkerSend \/ WorkerLast
  <2>1. Reached = stats.sent /\ UNCHANGED <<service, arrived, stats, Taken>> /\ workerAt' # "account"
    BY <1>5 DEF WorkerSend, WorkerLast, Reached, Sending, Taken
  <2>2. Reached' \in {stats.sent, Taken}
    BY <2>1 DEF Reached
  <2>3. arrived' \subseteq 1..Reached'
    BY <1>1, <2>1, <2>2 DEF Arrivals
  <2> QED
    BY <2>1, <2>3 DEF Arrivals
<1>6. CASE PostAccepted \/ PostPartly \/ PostRejected
  <2>1. workerAt = "post" /\ UNCHANGED <<service, stats, Taken>> /\ Sending'
    BY <1>6 DEF PostAccepted, PostPartly, PostRejected, Post, Taken, Sending
  <2>2. PICK part \in Parts : Arrive(part) /\ (PostAccepted => part = ToSet(batch))
    BY <1>6 DEF PostAccepted, PostPartly, PostRejected, Parts
  <2>3. /\ arrived' \subseteq 1..Taken
        /\ service = "cloudwatch" => arrived' \in {1..stats.sent, 1..Taken}
        /\ part = ToSet(batch) /\ service = "cloudwatch" => arrived' = 1..Taken
    BY <2>1, <2>2, PostArrives
  <2>4. service = "cloudwatch" /\ workerAt' = "account" => PostAccepted
    BY <1>6, <2>1 DEF PostPartly, PostRejected
  <2> QED
    BY <2>1, <2>2, <2>3, <2>4 DEF Arrivals, Reached
<1>7. CASE Account
  <2>1. stats'.sent = Taken /\ Reached' = stats'.sent /\ Reached = Taken
    BY <1>7, Numbers, StatsCount DEF Account, Reached, Sending
  <2>2. UNCHANGED <<service, arrived>> /\ workerAt' # "account" /\ workerAt = "account"
    BY <1>7 DEF Account, ghosts
  <2> QED
    BY <2>1, <2>2 DEF Arrivals
<1>8. CASE WorkerTake
  BY <1>2, <1>8 DEF WorkerTake, ghosts, Reached, Sending
<1>9. ASSUME NEW c \in Callers, LogQueue(c) \/ FlushCall(c) \/ FlushStep(c) PROVE Arrivals'
  BY <1>2, <1>9 DEF LogQueue, FlushCall, FlushStep, FlushReturn, FlushSleep, FlushAwake, worker, ghosts,
                    Reached, Sending, Taken
<1>10. CASE Destroy \/ Join \/ Tick
  BY <1>2, <1>10 DEF Destroy, Join, Tick, worker, ghosts, Reached, Sending, Taken
<1>11. CASE WorkerTest \/ WorkerStop \/ WorkerKeep
  BY <1>2, <1>11 DEF WorkerTest, WorkerStop, WorkerKeep, ghosts, Reached, Sending, Taken
<1>12. CASE UNCHANGED cloudVars
  BY <1>2, <1>12 DEF cloudVars, worker, ghosts, Reached, Sending, Taken
<1> QED
  BY <1>3, <1>4, <1>5, <1>6, <1>7, <1>8, <1>9, <1>10, <1>11, <1>12 DEF CloudNext, Call, Worker

-----------------------------------------------------------------------------
(* The theorems.                                                           *)

LEMMA SinkAlways == CloudSpec => []SinkInv
<1>1. SinkInv /\ [CloudNext]_cloudVars => SinkInv'
  BY TypesStep, LinedStep, ArrivalsStep DEF SinkInv
<1> QED
  BY <1>1, InitInv, PTL DEF CloudSpec

\* Each event that was logged is counted as dropped or as sent, or is in the
\* batch or the queue, once and in its order; what is counted as sent has
\* arrived, and nothing that the worker has not taken.
THEOREM CloudSinkCorrect == CloudSpec => []CloudInv
<1>1. SinkInv => CloudInv
  <2> SUFFICES ASSUME SinkInv PROVE CloudInv
    OBVIOUS
  <2>1. CloudTypeOK /\ Lined /\ Arrivals
    BY DEF SinkInv
  <2> DEFINE waiting == [i \in 1..(accepted - stats.sent) |-> stats.sent + i]
  <2>2. accepted - stats.sent = Len(batch) + Len(pending)
    BY <2>1, Numbers DEF Lined
  <2>3. batch \o pending \in [1..(accepted - stats.sent) -> Events]
    <3>1. pending \in Seq(Events) /\ batch \in Seq(Events)
      BY <2>1 DEF CloudTypeOK
    <3>2. batch \o pending \in Seq(Events) /\ Len(batch \o pending) = Len(batch) + Len(pending)
      BY <3>1, ConcatProperties
    <3> QED
      BY <2>2, <3>2, LenProperties
  <2>4. ASSUME NEW i \in 1..(accepted - stats.sent) PROVE (batch \o pending)[i] = stats.sent + i
    <3>1. (batch \o pending)[i] = IF i <= Len(batch) THEN batch[i] ELSE pending[i - Len(batch)]
      BY <2>1, <2>2, ConcatProperties DEF CloudTypeOK
    <3>2. CASE i <= Len(batch)
      <4>1. i \in 1..Len(batch)
        BY <2>1, <2>2, <3>2, Numbers
      <4> QED
        BY <2>1, <3>1, <3>2, <4>1 DEF Lined
    <3>3. CASE i > Len(batch)
      <4>1. i - Len(batch) \in 1..Len(pending) /\ i \in Nat
        BY <2>1, <2>2, <3>3, Numbers
      <4>2. pending[i - Len(batch)] = Taken + (i - Len(batch))
        BY <2>1, <4>1 DEF Lined
      <4>3. (batch \o pending)[i] = pending[i - Len(batch)]
        BY <2>1, <3>1, <3>3, <4>1, Numbers
      <4> QED
        BY <2>1, <4>1, <4>2, <4>3, Numbers
    <3> QED
      BY <2>1, <2>2, <3>2, <3>3, Numbers
  <2>5. batch \o pending = waiting
    BY <2>3, <2>4
  <2>6. EventsConserved
    BY <2>1, <2>5 DEF EventsConserved, Lined
  <2>7. SentHasArrived
    <3>1. Reached \in {stats.sent, Taken} /\ Taken = stats.sent + Len(batch) /\ 1..Reached \subseteq 1..Taken
      BY <2>1, Numbers DEF Reached
    <3> QED
      BY <2>1, <3>1 DEF Arrivals, SentHasArrived
  <2> QED
    BY <2>1, <2>6, <2>7 DEF CloudInv
<1> QED
  BY <1>1, SinkAlways, PTL

\* Events reach the service in the order in which they were logged, except
\* within a batch of which Azure took a part.
THEOREM CloudSinkInOrder == CloudSpec => ArrivesInOrder
<1> DEFINE InOrder == \A new \in arrived' \ arrived : \A old \in arrived : ~Overtakes(new, old)
<1>1. SinkInv /\ [CloudNext]_cloudVars => [InOrder]_cloudVars
  <2> SUFFICES ASSUME SinkInv, [CloudNext]_cloudVars,
                      NEW new \in arrived' \ arrived, NEW old \in arrived, Overtakes(new, old)
               PROVE  FALSE
    OBVIOUS
  <2>1. PostAccepted \/ PostPartly \/ PostRejected
    BY DEF CloudNext, Worker, Call, FlushStep, LogDrop, LogQueue, FlushCall, FlushReturn, FlushSleep, FlushAwake,
           Destroy, Join, Tick, WorkerTest, WorkerStop, WorkerTake, WorkerKeep, WorkerSend, WorkerLast,
           Backoff, Account, cloudVars, ghosts
  <2>2. PICK part \in Parts : Arrive(part)
    BY <2>1 DEF PostAccepted, PostPartly, PostRejected, Parts
  <2>3. workerAt = "post" /\ new \in part /\ part \subseteq ToSet(batch)
    BY <2>1, <2>2 DEF PostAccepted, PostPartly, PostRejected, Arrive, Parts
  <2>4. ToSet(batch) = stats.sent + 1..Taken /\ stats.sent \in Nat /\ Taken \in Nat
    BY BatchNumbers, Numbers DEF SinkInv
  <2>5. old \in 1..Taken /\ new \in stats.sent + 1..Taken
    BY <2>3, <2>4 DEF SinkInv, Arrivals, Reached, Sending
  <2>6. old > stats.sent /\ old \in ToSet(batch)
    BY <2>4, <2>5 DEF Overtakes
  <2>7. service = "cloudwatch"
    BY <2>6, ServicesAssumption DEF Overtakes, SinkInv, CloudTypeOK
  <2>8. arrived = 1..Taken
    BY <2>3, <2>4, <2>6, <2>7 DEF SinkInv, Arrivals, Reached, Sending
  <2> QED
    BY <2>4, <2>5, <2>8
<1> QED
  BY <1>1, SinkAlways, PTL DEF CloudSpec, ArrivesInOrder

-----------------------------------------------------------------------------
(* The abstract delivery.                                                  *)

Outgoing == IF InPost THEN Len(batch) ELSE 0
Whole == service = "cloudwatch"
promiseView == <<Whole, accepted, stats.dropped, stats.sent, Outgoing, arrived, {}>>

\* What is posted is never an empty batch.
PostsSomething == Sending => Len(batch) > 0

LEMMA SomethingStep == CloudTypeOK /\ PostsSomething /\ [CloudNext]_cloudVars => PostsSomething'
<1> SUFFICES ASSUME CloudTypeOK, PostsSomething, [CloudNext]_cloudVars, Sending' PROVE Len(batch') > 0
  BY DEF PostsSomething
<1>1. Len(batch) \in Nat /\ (batch # << >> => Len(batch) > 0)
  BY DEF CloudTypeOK
<1>2. CASE WorkerSend \/ WorkerLast
  BY <1>1, <1>2 DEF WorkerSend, WorkerLast, Ready, Sending
<1>3. CASE UNCHANGED batch /\ Sending
  BY <1>3 DEF PostsSomething
<1>4. CASE WorkerTake \/ WorkerTest \/ WorkerStop \/ WorkerKeep \/ Account
  BY <1>4 DEF WorkerTake, WorkerTest, WorkerStop, WorkerKeep, Account, Sending
<1>5. CASE PostAccepted \/ PostPartly \/ PostRejected \/ Backoff
  BY <1>3, <1>5 DEF PostAccepted, PostPartly, PostRejected, Post, Backoff, Sending
<1>6. CASE UNCHANGED worker
  BY <1>3, <1>6 DEF worker, Sending
<1>7. ASSUME NEW c \in Callers, Call(c) \/ FlushStep(c) PROVE UNCHANGED worker
  BY <1>7 DEF Call, LogDrop, LogQueue, FlushCall, FlushStep, FlushReturn, FlushSleep, FlushAwake
<1>8. CASE Destroy \/ Join \/ Tick \/ UNCHANGED cloudVars
  BY <1>6, <1>8 DEF Destroy, Join, Tick, cloudVars
<1> QED
  BY <1>2, <1>4, <1>5, <1>6, <1>7, <1>8 DEF CloudNext, Worker

\* The batch as the abstract delivery sees it: next in line, and accepted.
LEMMA BatchInLine ==
    ASSUME SinkInv
    PROVE  /\ Len(batch) \in Nat /\ stats.sent \in Nat /\ stats.dropped \in Nat /\ accepted \in Nat
           /\ stats.sent + Len(batch) <= accepted /\ stats.sent + Len(batch) + Len(pending) = accepted
           /\ ToSet(batch) = Promise!Batch(Len(batch))
           /\ Len(batch) > 0 => Len(batch) \in 1..accepted /\ Promise!Chosen(Len(batch))
<1>1. /\ Len(batch) \in Nat /\ stats.sent \in Nat /\ stats.dropped \in Nat /\ Len(pending) \in Nat
      /\ Taken = stats.sent + Len(batch)
  BY Numbers DEF SinkInv
<1>2. accepted = Taken + Len(pending)
  BY DEF SinkInv, Lined
<1>3. ToSet(batch) = stats.sent + 1..stats.sent + Len(batch)
  BY <1>1, BatchNumbers DEF SinkInv
<1>4. Outgoing \in {0, Len(batch)}
  BY DEF Outgoing
<1> QED
  BY <1>1, <1>2, <1>3, <1>4 DEF Promise!Batch, Promise!Chosen, Outgoing

\* The sink keeps the promise of an abstract delivery: it settles whole batches in
\* the order of the log calls, posts no other one meanwhile, and none again that
\* is settled; it gives nothing up, and refuses only when the queue is full.
THEOREM CloudRefinement == CloudSpec => ImplementsDelivery
<1>1. CloudInit => Promise!Init
  <2> SUFFICES ASSUME CloudInit PROVE Promise!Init
    OBVIOUS
  <2>1. accepted = 0 /\ stats.dropped = 0 /\ stats.sent = 0 /\ arrived = {} /\ ~InPost
    BY DEF CloudInit, InPost
  <2>2. Whole \in BOOLEAN
    BY DEF Whole
  <2> QED
    BY <2>1, <2>2 DEF Promise!Init, Whole
<1>2. SinkInv /\ SinkInv' /\ PostsSomething /\ [CloudNext]_cloudVars => [Promise!Next]_promiseView
  <2> SUFFICES ASSUME SinkInv, SinkInv', PostsSomething, [CloudNext]_cloudVars PROVE [Promise!Next]_promiseView
    OBVIOUS
  <2>0. CloudTypeOK /\ Lined /\ Arrivals /\ attempts \in Nat
    BY RetriesAssumption DEF SinkInv, CloudTypeOK
  \* The steps the abstract delivery does not see.
  <2>1. ASSUME UNCHANGED <<service, accepted, arrived>>, stats'.sent = stats.sent,
               stats'.dropped = stats.dropped, Outgoing' = Outgoing
        PROVE  UNCHANGED promiseView
    BY <2>1 DEF promiseView, Whole
  <2>2. ASSUME UNCHANGED <<worker, attempts>> PROVE Outgoing' = Outgoing
    BY <2>2 DEF Outgoing, InPost, worker
  <2>3. ASSUME NEW c \in Callers, LogDrop(c) PROVE Promise!Next
    <3>1. stats'.sent = stats.sent /\ stats'.dropped = stats.dropped + 1
      BY <2>0, <2>3, Numbers, StatsCount DEF LogDrop
    <3>2. stats.sent + MaxQueue <= accepted
      <4>1. Len(pending) >= MaxQueue /\ Len(pending) \in Nat
        BY <2>0, <2>3, Numbers DEF LogDrop
      <4> QED
        BY <4>1, BatchInLine, QueueAssumption
    <3>3. UNCHANGED <<Whole, accepted, Outgoing, arrived>>
      BY <2>2, <2>3 DEF LogDrop, Whole
    <3> QED
      BY <3>1, <3>2, <3>3 DEF Promise!Refuse, Promise!Next, Whole, Outgoing
  <2>4. ASSUME NEW c \in Callers, LogQueue(c) PROVE Promise!Next
    <3>1. UNCHANGED <<Whole, stats, Outgoing, arrived>> /\ accepted' = accepted + 1
      BY <2>2, <2>4 DEF LogQueue, Whole
    <3> QED
      BY <3>1 DEF Promise!Accept, Promise!Next, Whole, Outgoing
  <2>5. CASE PostAccepted \/ PostPartly \/ PostRejected
    <3>0. workerAt = "post" /\ Post /\ workerAt' \in {"post", "backoff", "account"}
      BY <2>5 DEF PostAccepted, PostPartly, PostRejected
    <3>1. workerAt = "post" /\ UNCHANGED <<service, accepted, stats, batch>> /\ Sending' /\ Sending /\ attempts' > 0
      <4>1. attempts' > 0
        BY <2>0, <3>0, RetriesAssumption DEF Post
      <4> QED
        BY <3>0, <4>1 DEF Post, Sending
    <3>2. Outgoing' = Len(batch) /\ Len(batch) > 0
      BY <3>1 DEF Outgoing, InPost, Sending, PostsSomething
    <3>3. PICK part \in Parts : arrived' = arrived \cup part
      BY <2>5 DEF PostAccepted, PostPartly, PostRejected, Arrive, Parts
    <3>4. part \subseteq ToSet(batch) /\ (Whole => part \in {{}, ToSet(batch)})
      BY DEF Parts, Whole
    <3>5. Promise!Reaches(Len(batch))
      BY <3>3, <3>4, BatchInLine DEF Promise!Reaches, Whole
    <3>6. Promise!Post(Len(batch))
      BY <3>1, <3>2, <3>5, BatchInLine DEF Promise!Post, Outgoing, Whole
    <3> QED
      BY <3>2, <3>6, BatchInLine DEF Promise!Next
  <2>6. CASE Account
    <3>1. /\ stats'.sent = stats.sent + Len(batch) /\ stats'.dropped = stats.dropped
          /\ UNCHANGED <<service, accepted, arrived>> /\ workerAt = "account" /\ workerAt' = "test"
      BY <2>0, <2>6, Numbers, StatsCount DEF Account, ghosts
    <3>2. Outgoing' = 0 /\ Len(batch) > 0
      BY <3>1 DEF Outgoing, InPost, Sending, PostsSomething
    <3>3. Promise!Reaches(Len(batch))
      BY <3>1 DEF Promise!Reaches
    <3>4. Whole => Promise!Batch(Len(batch)) \subseteq arrived'
      <4>1. ToSet(batch) \subseteq 1..Taken
        BY <2>0, BatchNumbers, Numbers
      <4>2. Whole => arrived' = 1..Taken
        BY <2>0, <3>1 DEF Arrivals, Reached, Sending, Whole
      <4> QED
        BY <4>1, <4>2, BatchInLine
    <3>5. Promise!Settle(Len(batch))
      BY <3>1, <3>2, <3>3, <3>4, BatchInLine DEF Promise!Settle, Outgoing, Whole
    <3> QED
      BY <3>2, <3>5, BatchInLine DEF Promise!Next
  <2>7. CASE Backoff
    <3>1. stats'.sent = stats.sent /\ stats'.dropped = stats.dropped
      BY <2>0, <2>7, Numbers, StatsCount DEF Backoff
    <3>2. Outgoing' = Outgoing
      BY <2>7 DEF Backoff, ghosts, Outgoing, InPost
    <3> QED
      BY <2>1, <2>7, <3>1, <3>2 DEF Backoff, ghosts
  <2>8. CASE WorkerSend \/ WorkerLast
    <3>1. Outgoing = 0 /\ Outgoing' = 0
      BY <2>8 DEF WorkerSend, WorkerLast, Outgoing, InPost
    <3> QED
      BY <2>1, <2>8, <3>1 DEF WorkerSend, WorkerLast
  <2>9. CASE WorkerTest \/ WorkerStop \/ WorkerTake \/ WorkerKeep
    <3>1. Outgoing = 0 /\ Outgoing' = 0
      BY <2>9 DEF WorkerTest, WorkerStop, WorkerTake, WorkerKeep, Outgoing, InPost
    <3> QED
      BY <2>1, <2>9, <3>1 DEF WorkerTest, WorkerStop, WorkerTake, WorkerKeep, ghosts
  <2>10. ASSUME UNCHANGED <<service, stats, worker, ghosts>> PROVE UNCHANGED promiseView
    BY <2>1, <2>2, <2>10 DEF ghosts
  <2>11. ASSUME NEW c \in Callers, FlushCall(c) \/ FlushStep(c) PROVE UNCHANGED promiseView
    BY <2>10, <2>11 DEF FlushCall, FlushStep, FlushReturn, FlushSleep, FlushAwake
  <2>12. CASE Destroy \/ Join \/ Tick \/ UNCHANGED cloudVars
    BY <2>10, <2>12 DEF Destroy, Join, Tick, cloudVars
  <2> QED
    BY <2>3, <2>4, <2>5, <2>6, <2>7, <2>8, <2>9, <2>11, <2>12 DEF CloudNext, Worker, Call
<1>3. CloudInit => PostsSomething
  BY DEF CloudInit, PostsSomething, Sending
<1>4. SinkInv => CloudTypeOK
  BY DEF SinkInv
<1> QED
  BY <1>1, <1>2, <1>3, <1>4, SinkAlways, SomethingStep, PTL
  DEF CloudSpec, ImplementsDelivery, Promise!Spec, promiseView, Whole, Outgoing
=============================================================================
