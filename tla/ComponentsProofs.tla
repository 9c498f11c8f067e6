-------------------------- MODULE ComponentsProofs --------------------------
(***************************************************************************)
(* Proofs about the components that do not interact: the Loki sink, the    *)
(* limiters, the admission of messages, the cache of filters, the scopes   *)
(* of a context, the metrics and their registry.                           *)
(***************************************************************************)
EXTENDS LokiSink, Limiters, Admission, RegexCache, ScopedContext,
        Metrics, MetricsRegistry, SequenceTheorems, FiniteSetTheorems, TLAPS

-----------------------------------------------------------------------------
(* What sequences hold.                                                    *)

LEMMA Elements ==
    ASSUME NEW S, NEW s \in Seq(S)
    PROVE  /\ Len(s) \in Nat /\ ToSet(s) \subseteq S /\ (s = << >> => ToSet(s) = {})
           /\ \A x : x \in ToSet(s) <=> \E i \in 1..Len(s) : x = s[i]
<1>1. Len(s) \in Nat /\ DOMAIN s = 1..Len(s) /\ \A i \in 1..Len(s) : s[i] \in S
  BY LenProperties, ElementOfSeq
<1>2. \A x : x \in ToSet(s) <=> \E i \in 1..Len(s) : x = s[i]
  BY <1>1 DEF ToSet
<1>3. s = << >> => Len(s) = 0
  OBVIOUS
<1> QED
  BY <1>1, <1>2, <1>3

LEMMA ElementsOfAppend ==
    ASSUME NEW S, NEW s \in Seq(S), NEW x \in S
    PROVE  Append(s, x) \in Seq(S) /\ ToSet(Append(s, x)) = ToSet(s) \cup {x}
<1>1. /\ Append(s, x) \in Seq(S) /\ Len(Append(s, x)) = Len(s) + 1 /\ Len(s) \in Nat
      /\ \A i \in 1..Len(s) : Append(s, x)[i] = s[i]
      /\ Append(s, x)[Len(s) + 1] = x
  BY AppendProperties, LenProperties
<1>2. \A y : y \in ToSet(Append(s, x)) <=> \E i \in 1..(Len(s) + 1) : y = Append(s, x)[i]
  <2>1. \A y : y \in ToSet(Append(s, x)) <=> \E i \in 1..Len(Append(s, x)) : y = Append(s, x)[i]
    BY <1>1, Elements
  <2> QED
    BY <1>1, <2>1
<1>3. \A y : y \in ToSet(s) <=> \E i \in 1..Len(s) : y = s[i]
  BY Elements
<1>4. 1..(Len(s) + 1) = 1..Len(s) \cup {Len(s) + 1}
  BY <1>1
<1> QED
  BY <1>1, <1>2, <1>3, <1>4

LEMMA ElementsOfConcat ==
    ASSUME NEW S, NEW s \in Seq(S), NEW t \in Seq(S)
    PROVE  s \o t \in Seq(S) /\ ToSet(s \o t) = ToSet(s) \cup ToSet(t)
<1>1. /\ s \o t \in Seq(S) /\ Len(s \o t) = Len(s) + Len(t) /\ Len(s) \in Nat /\ Len(t) \in Nat
      /\ \A i \in 1..(Len(s) + Len(t)) : (s \o t)[i] = IF i <= Len(s) THEN s[i] ELSE t[i - Len(s)]
  BY ConcatProperties, LenProperties
<1>2. \A y : y \in ToSet(s \o t) <=> \E i \in 1..(Len(s) + Len(t)) : y = (s \o t)[i]
  BY <1>1, Elements
<1>3. (\A y : y \in ToSet(s) <=> \E i \in 1..Len(s) : y = s[i]) /\ (\A y : y \in ToSet(t) <=> \E i \in 1..Len(t) : y = t[i])
  BY Elements
<1>4. \A i \in 1..(Len(s) + Len(t)) : (s \o t)[i] \in ToSet(s) \cup ToSet(t)
  BY <1>1, <1>3
<1>5. \A i \in 1..Len(s) : s[i] \in ToSet(s \o t)
  BY <1>1, <1>2
<1>6. ASSUME NEW i \in 1..Len(t) PROVE t[i] \in ToSet(s \o t)
  <2>1. i + Len(s) \in 1..(Len(s) + Len(t)) /\ (s \o t)[i + Len(s)] = t[i]
    BY <1>1
  <2> QED
    BY <1>2, <2>1
<1> QED
  BY <1>1, <1>2, <1>3, <1>4, <1>5, <1>6

-----------------------------------------------------------------------------
(* LokiSink.                                                               *)

\* The batch size is one of those that were set.
LokiState ==
    /\ LokiTypeOK /\ LokiConserved /\ BufferBounded /\ GivenUpAfterThree
    /\ batchSize \in BatchSizes

LEMMA LokiInitial == LokiInit => LokiState
<1> SUFFICES ASSUME LokiInit PROVE LokiState
  OBVIOUS
<1>1. lines = << >> /\ received = << >> /\ lines \in Seq(1..lineCount) /\ received \in Seq(1..lineCount)
  BY DEF LokiInit
<1>2. ToSet(lines) = {} /\ ToSet(received) = {}
  BY <1>1, Elements
<1>3. LokiTypeOK
  BY <1>1, LokiOptionsAssumption DEF LokiInit, LokiTypeOK, MaxRetries
<1>4. LokiConserved /\ BufferBounded /\ GivenUpAfterThree
  BY <1>1, <1>2 DEF LokiInit, LokiConserved, BufferBounded, GivenUpAfterThree, MaxRetries
<1> QED
  BY <1>3, <1>4 DEF LokiState, LokiInit

LEMMA LokiQuiet ==
    ASSUME LokiState,
           LokiTick \/ (\E b \in BatchSizes, i \in Intervals : SetOptions(b, i)) \/ LokiFlush \/ UNCHANGED lokiVars
    PROVE  LokiState'
<1>1. CASE LokiTick
  <2>1. /\ time' = time + 1
        /\ UNCHANGED <<lokiPc, lines, batchSize, interval, lastFlush, attempt, flushes, errors,
                       received, dropped, lineCount, optionSets, gaveUp>>
    BY <1>1 DEF LokiTick
  <2>2. LokiTypeOK'
    BY <2>1 DEF LokiState, LokiTypeOK
  <2>3. LokiConserved' /\ BufferBounded' /\ GivenUpAfterThree'
    BY <2>1 DEF LokiState, LokiConserved, BufferBounded, GivenUpAfterThree
  <2> QED
    BY <2>1, <2>2, <2>3 DEF LokiState
<1>2. ASSUME NEW b \in BatchSizes, NEW i \in Intervals, SetOptions(b, i) PROVE LokiState'
  <2>1. /\ optionSets' = optionSets + 1 /\ batchSize' = b /\ interval' = i
        /\ UNCHANGED <<lokiPc, lines, lastFlush, time, attempt, flushes, errors, received, dropped,
                       lineCount, gaveUp>>
    BY <1>2 DEF SetOptions
  <2>2. LokiTypeOK'
    <3>1. b \in Nat /\ i \in Nat
      BY LokiOptionsAssumption
    <3>2. optionSets \in Nat
      BY DEF LokiState, LokiTypeOK
    <3>3. optionSets' \in Nat
      BY <2>1, <3>2
    <3>4. batchSize' \in Nat /\ interval' \in Nat
      BY <2>1, <3>1
    <3> QED
      BY <2>1, <3>3, <3>4 DEF LokiState, LokiTypeOK
  <2>3. LokiConserved' /\ BufferBounded' /\ GivenUpAfterThree'
    BY <2>1 DEF LokiState, LokiConserved, BufferBounded, GivenUpAfterThree
  <2> QED
    BY <2>1, <2>2, <2>3 DEF LokiState
<1>3. CASE LokiFlush
  <2>1. /\ lokiPc = "idle" /\ lokiPc' = "send" /\ attempt' = 0
        /\ UNCHANGED <<lines, batchSize, interval, lastFlush, time, flushes, errors, received,
                       dropped, lineCount, optionSets, gaveUp>>
    BY <1>3 DEF LokiFlush
  <2>2. LokiTypeOK'
    BY <2>1 DEF LokiState, LokiTypeOK, MaxRetries
  <2>3. LokiConserved' /\ BufferBounded'
    BY <2>1 DEF LokiState, LokiConserved, BufferBounded
  <2>4. GivenUpAfterThree'
    BY <2>1 DEF LokiState, LokiTypeOK, GivenUpAfterThree, MaxRetries
  <2> QED
    BY <2>1, <2>2, <2>3, <2>4 DEF LokiState
<1>4. CASE UNCHANGED lokiVars
  BY <1>4 DEF lokiVars, LokiState, LokiTypeOK, LokiConserved, BufferBounded, GivenUpAfterThree
<1> QED
  BY <1>1, <1>2, <1>3, <1>4

LEMMA LokiLogStep ==
    ASSUME LokiState, LokiLog
    PROVE  LokiState'
<1>1. /\ lokiPc = "idle" /\ lineCount' = lineCount + 1 /\ lines' = Append(lines, lineCount') /\ attempt' = 0
      /\ lokiPc' \in {"idle", "send"} /\ (lokiPc' = "idle" => ~Triggered(lines'))
      /\ UNCHANGED <<batchSize, interval, lastFlush, time, flushes, errors, received, dropped, optionSets, gaveUp>>
  BY DEF LokiLog
<1>2. /\ lineCount \in Nat /\ lines \in Seq(1..lineCount) /\ received \in Seq(1..lineCount)
      /\ dropped \subseteq 1..lineCount
  BY DEF LokiState, LokiTypeOK
<1>3. lines \in Seq(1..lineCount') /\ received' \in Seq(1..lineCount') /\ dropped' \subseteq 1..lineCount'
      /\ lineCount' \in 1..lineCount' /\ lineCount' \in Nat /\ 1..lineCount' = 1..lineCount \cup {lineCount'}
      /\ lineCount' \notin 1..lineCount
  <2>1. 1..lineCount \subseteq 1..lineCount' /\ lineCount' \in 1..lineCount' /\ lineCount' \in Nat
        /\ 1..lineCount' = 1..lineCount \cup {lineCount'} /\ lineCount' \notin 1..lineCount
    BY <1>1, <1>2
  <2> QED
    BY <1>1, <1>2, <2>1
<1>4. lines' \in Seq(1..lineCount') /\ ToSet(lines') = ToSet(lines) \cup {lineCount'}
  <2>1. PICK S : S = 1..lineCount'
    OBVIOUS
  <2>2. PICK x \in S : x = lineCount'
    BY <2>1, <1>3
  <2>3. Append(lines, x) \in Seq(S) /\ ToSet(Append(lines, x)) = ToSet(lines) \cup {x}
    BY <2>1, <1>3, ElementsOfAppend
  <2> QED
    BY <1>1, <2>1, <2>2, <2>3
<1>5. LokiTypeOK'
  BY <1>1, <1>3, <1>4 DEF LokiState, LokiTypeOK, MaxRetries
<1>6. ToSet(received) \subseteq 1..lineCount
  BY <1>2, Elements
<1>7. LokiConserved'
  BY <1>1, <1>2, <1>3, <1>4, <1>6 DEF LokiState, LokiConserved
<1>8. BufferBounded'
  <2> SUFFICES ASSUME lokiPc' = "idle" PROVE \E b \in BatchSizes : Len(lines') < b
    BY DEF BufferBounded
  <2>1. ~(Len(lines') >= batchSize) /\ batchSize \in BatchSizes
    BY <1>1 DEF Triggered, LokiState
  <2>2. Len(lines') \in Nat /\ batchSize \in Nat
    BY <1>4, <2>1, LokiOptionsAssumption, LenProperties
  <2> QED
    BY <2>1, <2>2
<1>9. GivenUpAfterThree'
  <2>1. errors \in Nat /\ gaveUp \in Nat /\ errors >= MaxRetries * gaveUp
    BY <1>1 DEF LokiState, LokiTypeOK, GivenUpAfterThree, MaxRetries
  <2> QED
    BY <1>1, <2>1 DEF GivenUpAfterThree, MaxRetries
<1> QED
  BY <1>1, <1>5, <1>7, <1>8, <1>9 DEF LokiState

LEMMA SendStep ==
    ASSUME LokiState, SendBatch
    PROVE  LokiState'
<1>1. /\ lineCount \in Nat /\ lines \in Seq(1..lineCount) /\ received \in Seq(1..lineCount)
      /\ dropped \subseteq 1..lineCount /\ attempt \in 0..2 /\ errors \in Nat /\ flushes \in Nat /\ gaveUp \in Nat
      /\ time \in Nat /\ errors >= 3 * gaveUp + attempt
      /\ 1..lineCount = ToSet(lines) \cup ToSet(received) \cup dropped
  <2>1. lokiPc = "send"
    BY DEF SendBatch, Posted, PostFails, InitFails
  <2> QED
    BY <2>1 DEF LokiState, LokiTypeOK, LokiConserved, GivenUpAfterThree, MaxRetries
<1>2. ToSet(lines) \subseteq 1..lineCount /\ received \o lines \in Seq(1..lineCount)
      /\ ToSet(received \o lines) = ToSet(received) \cup ToSet(lines)
  BY <1>1, Elements, ElementsOfConcat
<1>3. << >> \in Seq(1..lineCount) /\ ToSet(<< >>) = {}
  <2>1. << >> \in Seq(1..lineCount)
    OBVIOUS
  <2> QED
    BY <2>1, Elements
<1>4. CASE Posted
  <2>1. /\ lokiPc' = "idle" /\ lastFlush' = time /\ lines' = << >> /\ attempt' = attempt /\ flushes' = flushes + 1
        /\ UNCHANGED <<batchSize, interval, time, errors, lineCount, optionSets, gaveUp>>
    BY <1>4 DEF Posted, Returns
  <2>2. \/ received' = received \o lines /\ dropped' = dropped
        \/ dropped' = dropped \cup ToSet(lines) /\ received' = received
    BY <1>4 DEF Posted
  <2>3. /\ received' \in Seq(1..lineCount) /\ dropped' \subseteq 1..lineCount
        /\ 1..lineCount = ToSet(received') \cup dropped'
    BY <1>1, <1>2, <2>2
  <2>4. LokiTypeOK'
    BY <1>1, <1>3, <2>1, <2>3 DEF LokiState, LokiTypeOK, MaxRetries
  <2>5. LokiConserved' /\ BufferBounded' /\ GivenUpAfterThree'
    BY <1>1, <1>3, <2>1, <2>3 DEF LokiConserved, BufferBounded, GivenUpAfterThree, MaxRetries
  <2> QED
    BY <2>1, <2>4, <2>5 DEF LokiState
<1>5. CASE PostFails
  <2>1. /\ lokiPc = "send" /\ errors' = errors + 1 /\ received' \in {received, received \o lines}
        /\ UNCHANGED <<batchSize, interval, time, flushes, lineCount, optionSets>>
    BY <1>5 DEF PostFails
  <2>2. received' \in Seq(1..lineCount) /\ ToSet(received) \subseteq ToSet(received')
        /\ ToSet(received') \subseteq ToSet(received) \cup ToSet(lines)
    BY <1>1, <1>2, <2>1
  <2>3. CASE MoreAttempts
    <3>1. attempt' = attempt + 1 /\ attempt + 1 < 3 /\ UNCHANGED <<lokiPc, lastFlush, lines, dropped, gaveUp>>
      BY <1>5, <2>3 DEF PostFails, MoreAttempts, MaxRetries
    <3>2. LokiTypeOK'
      BY <1>1, <2>1, <2>2, <3>1 DEF LokiState, LokiTypeOK, MaxRetries
    <3>3. LokiConserved' /\ BufferBounded' /\ GivenUpAfterThree'
      BY <1>1, <1>2, <2>1, <2>2, <3>1 DEF LokiConserved, BufferBounded, GivenUpAfterThree, MaxRetries
    <3> QED
      BY <2>1, <3>2, <3>3 DEF LokiState
  <2>4. CASE ~MoreAttempts
    <3>1. /\ lokiPc' = "idle" /\ lastFlush' = time /\ lines' = << >> /\ attempt' = attempt
          /\ dropped' = dropped \cup ToSet(lines) /\ gaveUp' = gaveUp + 1
      BY <1>5, <2>4 DEF PostFails, Returns
    <3>2. attempt = 2
      BY <1>1, <2>4 DEF MoreAttempts, MaxRetries
    <3>3. LokiTypeOK'
      BY <1>1, <1>2, <1>3, <2>1, <2>2, <3>1 DEF LokiState, LokiTypeOK, MaxRetries
    <3>4. LokiConserved' /\ BufferBounded'
      BY <1>1, <1>2, <1>3, <2>1, <2>2, <3>1 DEF LokiConserved, BufferBounded
    <3>5. GivenUpAfterThree'
      BY <1>1, <2>1, <3>1, <3>2 DEF GivenUpAfterThree, MaxRetries
    <3> QED
      BY <2>1, <3>3, <3>4, <3>5 DEF LokiState
  <2> QED
    BY <2>3, <2>4
<1>6. CASE InitFails
  <2>1. /\ lokiPc' = "idle" /\ lastFlush' = time /\ lines' = << >> /\ attempt' = attempt
        /\ dropped' = dropped \cup ToSet(lines)
        /\ UNCHANGED <<batchSize, interval, time, flushes, errors, received, lineCount, optionSets, gaveUp>>
    BY <1>6 DEF InitFails, Returns
  <2>2. LokiTypeOK'
    BY <1>1, <1>2, <1>3, <2>1 DEF LokiState, LokiTypeOK, MaxRetries
  <2>3. LokiConserved' /\ BufferBounded' /\ GivenUpAfterThree'
    BY <1>1, <1>2, <1>3, <2>1 DEF LokiConserved, BufferBounded, GivenUpAfterThree, MaxRetries
  <2> QED
    BY <2>1, <2>2, <2>3 DEF LokiState
<1> QED
  BY <1>4, <1>5, <1>6 DEF SendBatch

\* Between calls every message of a LokiSink waits, has arrived or was dropped,
\* less than a batch waits, and what was given up had its three attempts.
THEOREM LokiConserves == LokiSpec => []LokiInv
<1>1. LokiState /\ [LokiNext]_lokiVars => LokiState'
  BY LokiQuiet, LokiLogStep, SendStep DEF LokiNext
<1>2. LokiState => LokiInv
  BY DEF LokiState, LokiInv
<1> QED
  BY LokiInitial, <1>1, <1>2, PTL DEF LokiSpec

-----------------------------------------------------------------------------
(* LokiSink: the abstract delivery.                                        *)

\* The buffer holds the last messages that were logged, in order.
LinesInOrder ==
    /\ Len(lines) <= lineCount
    /\ \A i \in 1..Len(lines) : lines[i] = lineCount - Len(lines) + i

LEMMA LinesInOrderStep == LokiState /\ LinesInOrder /\ [LokiNext]_lokiVars => LinesInOrder'
<1> SUFFICES ASSUME LokiState, LinesInOrder, [LokiNext]_lokiVars PROVE LinesInOrder'
  OBVIOUS
<1>1. lineCount \in Nat /\ lines \in Seq(1..lineCount) /\ Len(lines) \in Nat
  BY DEF LokiState, LokiTypeOK
<1>2. CASE LokiLog
  <2>1. lineCount' = lineCount + 1 /\ lines' = Append(lines, lineCount + 1)
    BY <1>2 DEF LokiLog
  <2>2. /\ Len(lines') = Len(lines) + 1 /\ lines'[Len(lines) + 1] = lineCount + 1
        /\ \A i \in 1..Len(lines) : lines'[i] = lines[i]
    BY <1>1, <2>1
  <2>3. Len(lines') <= lineCount' /\ lineCount' - Len(lines') = lineCount - Len(lines)
    BY <1>1, <2>1, <2>2 DEF LinesInOrder
  <2>4. ASSUME NEW i \in 1..Len(lines') PROVE lines'[i] = lineCount - Len(lines) + i
    <3>1. i \in 1..Len(lines) \/ i = Len(lines) + 1
      BY <1>1, <2>2
    <3>2. lineCount + 1 = lineCount - Len(lines) + (Len(lines) + 1)
      BY <1>1
    <3> QED
      BY <2>2, <3>1, <3>2 DEF LinesInOrder
  <2> QED
    BY <2>3, <2>4 DEF LinesInOrder
<1>3. CASE UNCHANGED <<lines, lineCount>>
  BY <1>3 DEF LinesInOrder
<1>4. CASE lines' = << >> /\ UNCHANGED lineCount
  <2>1. Len(lines') = 0
    BY <1>4
  <2> QED
    BY <1>1, <1>4, <2>1 DEF LinesInOrder
<1>5. CASE SendBatch
  BY <1>3, <1>4, <1>5 DEF SendBatch, Posted, PostFails, InitFails, Returns
<1>6. CASE LokiTick \/ LokiFlush \/ (\E b \in BatchSizes, i \in Intervals : SetOptions(b, i)) \/ UNCHANGED lokiVars
  BY <1>3, <1>6 DEF LokiTick, LokiFlush, SetOptions, lokiVars
<1> QED
  BY <1>2, <1>5, <1>6 DEF LokiNext

\* The abstract delivery's view of the buffer and of the attempts.
Given == lineCount - Len(lines)
LokiFront == IF lokiPc = "send" /\ attempt > 0 THEN Len(lines) ELSE 0
lokiView == <<TRUE, lineCount, 0, Given, LokiFront, ToSet(received), dropped>>

\* The buffer is the next batch.
LEMMA BufferInLine ==
    ASSUME LokiState, LinesInOrder
    PROVE  /\ lineCount \in Nat /\ Len(lines) \in Nat /\ Given \in Nat /\ Given + Len(lines) = lineCount
           /\ ToSet(lines) = LokiPromise!Batch(Len(lines))
           /\ lines # << >> => Len(lines) \in 1..lineCount /\ LokiPromise!Chosen(Len(lines))
<1>1. /\ lineCount \in Nat /\ lines \in Seq(1..lineCount) /\ Len(lines) \in Nat
      /\ (lines # << >> => Len(lines) > 0) /\ Len(lines) <= lineCount
  BY DEF LokiState, LokiTypeOK, LinesInOrder
<1>2. Given \in Nat /\ Given + Len(lines) = lineCount
  BY <1>1 DEF Given
<1>3. ToSet(lines) = Given + 1..Given + Len(lines)
  <2>1. \A x : x \in ToSet(lines) <=> \E i \in 1..Len(lines) : x = lines[i]
    BY <1>1, Elements
  <2>2. \A i \in 1..Len(lines) : lines[i] = Given + i
    BY DEF LinesInOrder, Given
  <2>3. ASSUME NEW x \in ToSet(lines) PROVE x \in Given + 1..Given + Len(lines)
    <3>1. PICK i \in 1..Len(lines) : x = Given + i
      BY <2>1, <2>2
    <3> QED
      BY <1>1, <1>2, <3>1
  <2>4. ASSUME NEW x \in Given + 1..Given + Len(lines) PROVE x \in ToSet(lines)
    <3>1. x - Given \in 1..Len(lines) /\ x = Given + (x - Given)
      BY <1>1, <1>2
    <3> QED
      BY <2>1, <2>2, <3>1
  <2> QED
    BY <2>3, <2>4
<1>4. LokiFront \in {0, Len(lines)}
  BY DEF LokiFront
<1> QED
  BY <1>1, <1>2, <1>3, <1>4 DEF LokiPromise!Batch, LokiPromise!Chosen, LokiFront, Given

\* What one attempt brings to the service: the whole buffer or nothing.
LEMMA BufferReaches ==
    ASSUME LokiState, LinesInOrder, received' \in {received, received \o lines}
    PROVE  LokiPromise!Reaches(Len(lines))
<1>1. lines \in Seq(1..lineCount) /\ received \in Seq(1..lineCount)
  BY DEF LokiState, LokiTypeOK
<1>2. ToSet(received \o lines) = ToSet(received) \cup ToSet(lines)
  BY <1>1, ElementsOfConcat
<1>3. PICK part \in {{}, ToSet(lines)} : ToSet(received') = ToSet(received) \cup part
  BY <1>2
<1>4. part \in SUBSET LokiPromise!Batch(Len(lines)) /\ part \in {{}, LokiPromise!Batch(Len(lines))}
  BY <1>3, BufferInLine
<1> QED
  BY <1>3, <1>4 DEF LokiPromise!Reaches

\* The sink keeps the promise of an abstract delivery: each batch is the whole
\* buffer, retried as it is, and gone when it is settled.
THEOREM LokiRefinement == LokiSpec => LokiImplementsDelivery
<1>1. LokiInit => LinesInOrder /\ LokiPromise!Init
  <2> SUFFICES ASSUME LokiInit PROVE LinesInOrder /\ LokiPromise!Init
    OBVIOUS
  <2>1. lineCount = 0 /\ lines = << >> /\ received = << >> /\ dropped = {} /\ attempt = 0
    BY DEF LokiInit
  <2>2. ToSet(received) = {}
    BY <2>1, LokiInitial, Elements DEF LokiState, LokiTypeOK
  <2>3. Len(lines) = 0
    BY <2>1
  <2>4. lineCount - Len(lines) = 0
    <3>1. 0 - 0 = 0
      OBVIOUS
    <3> QED
      BY <2>1, <2>3, <3>1, Zenon
  <2>5. ~(lokiPc = "send" /\ attempt > 0)
    BY <2>1
  <2>6. LinesInOrder
    BY <2>1, <2>3 DEF LinesInOrder
  <2> QED
    BY <2>1, <2>2, <2>4, <2>5, <2>6 DEF LokiPromise!Init
<1>2. LokiState /\ LokiState' /\ LinesInOrder /\ LinesInOrder' /\ [LokiNext]_lokiVars
      => [LokiPromise!Next]_lokiView
  <2> SUFFICES ASSUME LokiState, LokiState', LinesInOrder, LinesInOrder', [LokiNext]_lokiVars
               PROVE  [LokiPromise!Next]_lokiView
    OBVIOUS
  <2>0. lineCount \in Nat /\ Len(lines) \in Nat /\ Given + Len(lines) = lineCount /\ Given \in Nat
        /\ attempt \in Nat
    <3>1. attempt \in Nat
      BY DEF LokiState, LokiTypeOK, MaxRetries
    <3> QED
      BY <3>1, BufferInLine
  \* The steps the abstract delivery does not see.
  <2>1. ASSUME UNCHANGED <<lines, lineCount, received, dropped>>, LokiFront' = LokiFront
        PROVE  UNCHANGED lokiView
    BY <2>1 DEF lokiView, Given
  <2>2. CASE LokiLog
    <3>1. lineCount' = lineCount + 1 /\ UNCHANGED <<received, dropped>>
      BY <2>2 DEF LokiLog
    <3>2. LokiFront = 0 /\ LokiFront' = 0
      BY <2>2 DEF LokiLog, LokiFront
    <3>3. Given' = Given
      <4>1. Len(lines') = Len(lines) + 1
        BY <2>2 DEF LokiLog, LokiState, LokiTypeOK
      <4> QED
        BY <2>0, <3>1, <4>1 DEF Given
    <3> QED
      BY <3>1, <3>2, <3>3 DEF LokiPromise!Accept, LokiPromise!Next, Given, LokiFront
  \* The call that posts has returned: the batch is settled.
  <2>3. ASSUME lines # << >>, Returns, UNCHANGED lineCount, received' \in {received, received \o lines},
               \/ received' = received \o lines /\ UNCHANGED dropped
               \/ dropped' = dropped \cup ToSet(lines)
        PROVE  LokiPromise!Next
    <3>1. Given' = Given + Len(lines) /\ LokiFront' = 0
      <4>1. Len(lines') = 0 /\ lokiPc' = "idle"
        BY <2>3 DEF Returns
      <4> QED
        BY <2>0, <2>3, <4>1 DEF Given, LokiFront
    <3>2. LokiPromise!Chosen(Len(lines)) /\ LokiPromise!Reaches(Len(lines)) /\ Len(lines) \in 1..lineCount
      BY <2>3, BufferInLine, BufferReaches
    <3>3. \/ LokiPromise!Batch(Len(lines)) \subseteq ToSet(received') /\ UNCHANGED dropped
          \/ dropped' = dropped \cup LokiPromise!Batch(Len(lines))
      <4>1. received \in Seq(1..lineCount) /\ lines \in Seq(1..lineCount)
        BY DEF LokiState, LokiTypeOK
      <4>2. ToSet(lines) \subseteq ToSet(received \o lines)
        BY <4>1, ElementsOfConcat
      <4> QED
        BY <2>3, <4>2, BufferInLine
    <3>4. LokiPromise!Settle(Len(lines))
      BY <2>3, <3>1, <3>2, <3>3 DEF LokiPromise!Settle, Given, LokiFront
    <3> QED
      BY <3>2, <3>4 DEF LokiPromise!Next
  <2>4. CASE Posted
    BY <2>3, <2>4 DEF Posted
  <2>5. CASE InitFails
    BY <2>3, <2>5 DEF InitFails
  <2>6. CASE PostFails /\ ~MoreAttempts
    BY <2>3, <2>6 DEF PostFails
  <2>7. CASE PostFails /\ MoreAttempts
    <3>1. lines # << >> /\ UNCHANGED <<lines, lineCount, dropped, Given>>
          /\ received' \in {received, received \o lines}
      BY <2>7 DEF PostFails, Given
    <3>2. LokiFront' = Len(lines)
      <4>1. lokiPc' = "send" /\ attempt' = attempt + 1
        BY <2>7 DEF PostFails
      <4>2. attempt' > 0
        BY <2>0, <4>1
      <4> QED
        BY <3>1, <4>1, <4>2 DEF LokiFront
    <3>3. LokiPromise!Chosen(Len(lines)) /\ LokiPromise!Reaches(Len(lines)) /\ Len(lines) \in 1..lineCount
      BY <3>1, BufferInLine, BufferReaches
    <3>4. LokiPromise!Post(Len(lines))
      BY <3>1, <3>2, <3>3 DEF LokiPromise!Post, Given, LokiFront
    <3> QED
      BY <3>3, <3>4 DEF LokiPromise!Next
  <2>8. CASE LokiFlush
    <3>1. LokiFront = 0 /\ LokiFront' = 0
      BY <2>8 DEF LokiFlush, LokiFront
    <3> QED
      BY <2>1, <2>8, <3>1 DEF LokiFlush
  <2>9. CASE LokiTick \/ (\E b \in BatchSizes, i \in Intervals : SetOptions(b, i)) \/ UNCHANGED lokiVars
    BY <2>1, <2>9 DEF LokiTick, SetOptions, lokiVars, LokiFront
  <2> QED
    BY <2>2, <2>4, <2>5, <2>6, <2>7, <2>8, <2>9 DEF LokiNext, SendBatch
<1>3. LokiState /\ [LokiNext]_lokiVars => LokiState'
  BY LokiQuiet, LokiLogStep, SendStep DEF LokiNext
<1> QED
  BY <1>1, <1>2, <1>3, LokiInitial, LinesInOrderStep, PTL
  DEF LokiSpec, LokiImplementsDelivery, LokiPromise!Spec, lokiView, Given, LokiFront

-----------------------------------------------------------------------------
(* Limiters: arithmetic.                                                   *)

\* Quotient and remainder.
LEMMA DivMod ==
    ASSUME NEW m \in Nat \ {0}, NEW a \in Nat
    PROVE  a = m * (a \div m) + (a % m) /\ a % m \in 0..(m - 1) /\ a \div m \in Nat
<1>1. a = m * (a \div m) + (a % m) /\ a % m \in 0..(m - 1) /\ a \div m \in Int
  OBVIOUS
<1>2. a \div m >= 0
  <2> SUFFICES ASSUME a \div m <= -1 PROVE FALSE
    BY <1>1
  <2>1. m * (a \div m) <= m * (-1)
    BY <1>1
  <2> QED
    BY <1>1, <2>1
<1> QED
  BY <1>1, <1>2

\* Counting one further carries into the quotient once in m times.
LEMMA CountOn ==
    ASSUME NEW m \in Nat, m > 1, NEW a \in Nat
    PROVE  \/ (a + 1) \div m = a \div m /\ (a + 1) % m = (a % m) + 1 /\ (a % m) + 1 < m
           \/ (a + 1) \div m = (a \div m) + 1 /\ (a + 1) % m = 0 /\ (a % m) + 1 = m
<1>1. PICK q \in Nat, x \in 0..(m - 1) : q = a \div m /\ x = a % m /\ a = m * q + x
  BY DivMod
<1>2. PICK s \in Nat, y \in 0..(m - 1) : s = (a + 1) \div m /\ y = (a + 1) % m /\ a + 1 = m * s + y
  BY DivMod
<1>3. m * q + x + 1 = m * s + y
  BY <1>1, <1>2
<1>4. s >= q
  <2> SUFFICES ASSUME s + 1 <= q PROVE FALSE
    OBVIOUS
  <2>1. m * (s + 1) <= m * q /\ m * (s + 1) = m * s + m
    OBVIOUS
  <2> QED
    BY <1>3, <2>1
<1>5. s <= q + 1
  <2> SUFFICES ASSUME s >= q + 2 PROVE FALSE
    OBVIOUS
  <2>1. m * s >= m * (q + 2) /\ m * (q + 2) = m * q + m + m
    OBVIOUS
  <2> QED
    BY <1>3, <2>1
<1>6. CASE s = q
  BY <1>1, <1>2, <1>3, <1>6
<1>7. CASE s = q + 1
  <2>1. m * s = m * q + m
    BY <1>7
  <2> QED
    BY <1>1, <1>2, <1>3, <1>7, <2>1
<1> QED
  BY <1>4, <1>5, <1>6, <1>7

\* Refilling counts no time twice, and where it counts any at all less than half
\* of it is lost.
LEMMA WholeMilliseconds ==
    ASSUME NEW f \in Nat \ {0}, NEW e \in Nat, NEW rate \in Nat
    PROVE  /\ e \div f \in Nat /\ rate * (e \div f) \in Nat /\ f * (rate * (e \div f)) <= rate * e
           /\ e \div f > 0 => 2 * f * (rate * (e \div f)) >= rate * e
<1>1. PICK q \in Nat, x \in 0..(f - 1) : q = e \div f /\ x = e % f /\ e = f * q + x
  BY DivMod
<1>2. rate * e = rate * (f * q) + rate * x
  BY <1>1
<1>3. rate * q \in Nat /\ rate * x \in Nat /\ f * (rate * q) \in Nat /\ f * (rate * q) = rate * (f * q)
  BY <1>1
<1>4. f * (rate * q) <= rate * e
  BY <1>2, <1>3
<1>5. ASSUME q > 0 PROVE 2 * f * (rate * q) >= rate * e
  <2>1. f * q >= f
    BY <1>1, <1>5
  <2>2. f * q >= x /\ f * q \in Nat
    BY <1>1, <2>1
  <2>3. rate * (f * q) >= rate * x
    BY <1>1, <2>2
  <2>4. 2 * f * (rate * q) = f * (rate * q) + f * (rate * q)
    BY <1>1
  <2> QED
    BY <1>2, <1>3, <2>3, <2>4
<1> QED
  BY <1>1, <1>3, <1>4, <1>5

\* The bounds on the messages admitted and on the time lost, across a refill.
LEMMA RefillBounds ==
    ASSUME NEW f \in Nat \ {0}, NEW e \in Nat, NEW rate \in Nat, NEW spent \in Nat,
           NEW had \in Nat, NEW most \in Nat, NEW gain \in Nat,
           f * had <= f * most + rate * spent,
           2 * f * gain >= rate * spent
    PROVE  /\ f * (had + rate * (e \div f)) <= f * most + rate * (spent + e)
           /\ e \div f > 0 => 2 * f * (gain + rate * (e \div f)) >= rate * (spent + e)
<1>1. PICK p \in Nat : p = rate * (e \div f)
  BY WholeMilliseconds
<1>2. f * p <= rate * e /\ (e \div f > 0 => 2 * f * p >= rate * e)
  BY <1>1, WholeMilliseconds
<1>3. rate * (spent + e) = rate * spent + rate * e /\ rate * spent \in Nat /\ rate * e \in Nat
  OBVIOUS
<1>4. f * (had + p) = f * had + f * p /\ 2 * f * (gain + p) = 2 * f * gain + 2 * f * p
  OBVIOUS
<1>5. f * had \in Nat /\ f * p \in Nat /\ f * most \in Nat /\ 2 * f * gain \in Nat /\ 2 * f * p \in Nat
  OBVIOUS
<1>6. f * (had + p) <= f * most + rate * (spent + e)
  BY <1>2, <1>3, <1>4, <1>5
<1>7. e \div f > 0 => 2 * f * (gain + p) >= rate * (spent + e)
  BY <1>2, <1>3, <1>4, <1>5
<1> QED
  BY <1>1, <1>6, <1>7

-----------------------------------------------------------------------------
(* Limiters: the steps.                                                    *)

LimiterStates == {"idle", "rate", "count", "sampling reset", "count reset"}

\* The types, and the order of the times.
LimiterTypes ==
    /\ LimiterTypeOK
    /\ sampleRate # 0 /\ admitted \in Nat /\ resetAt \in Nat /\ resets \in Nat
    /\ resetAt <= lastRefill /\ lastRefill <= now

\* RateBounded as of the last refill.
RefillBounded ==
    Fraction * (1000 * admitted + tokens) <= Fraction * MaxTokens + RefillRate * (lastRefill - resetAt)

\* Messages that sampling has let pass and that are neither dropped nor counted yet.
InFlight == {c \in Callers : asking[c] \in {"rate", "count"}}

\* What sampling has dropped of the first n messages.
SampledOut(n) ==
    IF Samples THEN n - n \div sampleRate - (IF n % sampleRate # 0 THEN 1 ELSE 0) ELSE 0

\* While a reset is under way that nobody disturbs, all others are idle.
OnlyResetting(c, step) == asking[c] = step /\ \A d \in Callers : asking[d] # "idle" => d = c

StatsKept ==
    /\ IsFiniteSet(InFlight)
    /\ ~disturbed =>
          \/ /\ ~Resetting
             /\ passed + rateDropped + SampledOut(counter) + Cardinality(InFlight) = asked
             /\ counter = IF Samples THEN asked ELSE 0
          \/ rateDropped = 0 /\ \E c \in Callers : OnlyResetting(c, "sampling reset")
          \/ rateDropped = 0 /\ counter = 0 /\ \E c \in Callers : OnlyResetting(c, "count reset")

LimiterState == LimiterTypes /\ RefillBounded /\ HalfRateKept /\ StatsKept

LEMMA TokensAreNat == MaxTokens \in Nat
  BY RatesAssumption DEF MaxTokens

\* Sampling has dropped none of no messages.
LEMMA NothingSampledOut == ASSUME sampleRate \in Nat \ {0} PROVE SampledOut(0) = 0
<1>1. 0 = sampleRate * (0 \div sampleRate) + (0 % sampleRate) /\ 0 % sampleRate \in 0..(sampleRate - 1)
      /\ 0 \div sampleRate \in Nat
  BY DivMod
<1>2. sampleRate * (0 \div sampleRate) \in Nat
  BY <1>1
<1>3. 0 \div sampleRate = 0 /\ 0 % sampleRate = 0
  BY <1>1, <1>2
<1> QED
  BY <1>3 DEF SampledOut

LEMMA LimiterInitial == LimiterInit => LimiterState
<1> SUFFICES ASSUME LimiterInit PROVE LimiterState
  OBVIOUS
<1>1. /\ sampleRate \in Nat /\ sampleRate # 0 /\ tokens = MaxTokens /\ lastRefill = 0 /\ rateDropped = 0
      /\ counter = 0 /\ passed = 0 /\ now = 0 /\ asking = [c \in Callers |-> "idle"] /\ asked = 0
      /\ resets = 0 /\ gained = 0 /\ admitted = 0 /\ resetAt = 0
  BY RatesAssumption DEF LimiterInit
<1>2. LimiterTypes
  BY <1>1, TokensAreNat DEF LimiterTypes, LimiterTypeOK
<1>3. RefillBounded /\ HalfRateKept
  <2>1. RefillRate * (0 - 0) = 0 /\ 2 * Fraction * 0 = 0 /\ 1000 * 0 + MaxTokens = MaxTokens
    BY RatesAssumption, FractionAssumption, TokensAreNat
  <2>2. Fraction * MaxTokens \in Nat
    BY FractionAssumption, TokensAreNat
  <2> QED
    BY <1>1, <2>1, <2>2 DEF RefillBounded, HalfRateKept
<1>4. InFlight = {} /\ ~Resetting
  BY <1>1 DEF InFlight, Resetting
<1>5. SampledOut(0) = 0
  BY <1>1, NothingSampledOut
<1>6. StatsKept
  <2>1. IsFiniteSet(InFlight) /\ Cardinality(InFlight) = 0
    BY <1>4, FS_EmptySet
  <2>2. SampledOut(counter) = 0
    BY <1>1, <1>5
  <2>3. passed + rateDropped + SampledOut(counter) + Cardinality(InFlight) = asked
    BY <1>1, <2>1, <2>2
  <2>4. counter = IF Samples THEN asked ELSE 0
    BY <1>1
  <2> QED
    BY <1>4, <2>1, <2>3, <2>4 DEF StatsKept
<1> QED
  BY <1>2, <1>3, <1>6 DEF LimiterState

\* The callers in flight, as one of them takes a step.
LEMMA FlightStep ==
    ASSUME NEW c \in Callers, NEW from \in LimiterStates, NEW to \in LimiterStates,
           asking \in [Callers -> LimiterStates], IsFiniteSet(InFlight), NextStep(c, from, to)
    PROVE  /\ asking' \in [Callers -> LimiterStates] /\ IsFiniteSet(InFlight')
           /\ \A d \in Callers : asking'[d] = IF d = c THEN to ELSE asking[d]
           /\ Cardinality(InFlight) \in Nat
           /\ Cardinality(InFlight') = Cardinality(InFlight)
                 + (IF to \in {"rate", "count"} THEN 1 ELSE 0)
                 - (IF from \in {"rate", "count"} THEN 1 ELSE 0)
<1>1. asking' \in [Callers -> LimiterStates] /\ \A d \in Callers : asking'[d] = IF d = c THEN to ELSE asking[d]
  BY DEF NextStep
<1>2. c \in InFlight <=> from \in {"rate", "count"}
  BY DEF InFlight, NextStep
<1>3. InFlight' = IF to \in {"rate", "count"} THEN InFlight \cup {c} ELSE InFlight \ {c}
  BY <1>1 DEF InFlight
<1>4. Cardinality(InFlight) \in Nat
  BY FS_CardinalityType
<1>5. /\ IsFiniteSet(InFlight \cup {c}) /\ IsFiniteSet(InFlight \ {c})
      /\ Cardinality(InFlight \cup {c}) = IF c \in InFlight THEN Cardinality(InFlight) ELSE Cardinality(InFlight) + 1
      /\ Cardinality(InFlight \ {c}) = IF c \in InFlight THEN Cardinality(InFlight) - 1 ELSE Cardinality(InFlight)
  BY FS_AddElement, FS_RemoveElement
<1>6. CASE to \in {"rate", "count"}
  BY <1>1, <1>2, <1>3, <1>4, <1>5, <1>6
<1>7. CASE to \notin {"rate", "count"}
  BY <1>1, <1>2, <1>3, <1>4, <1>5, <1>7
<1> QED
  BY <1>6, <1>7

\* One message more is sampled out, unless it is the first of its sample.
LEMMA SampleStep ==
    ASSUME LimiterTypes, NEW n \in Nat, Samples
    PROVE  /\ SampledOut(n) \in Int
           /\ SampledOut(n + 1) = SampledOut(n) + (IF n % sampleRate # 0 THEN 1 ELSE 0)
<1>1. sampleRate \in Nat /\ sampleRate > 1 /\ sampleRate \in Nat \ {0}
  BY DEF LimiterTypes, LimiterTypeOK, Samples
<1>2. n \div sampleRate \in Nat /\ n % sampleRate \in 0..(sampleRate - 1)
  BY <1>1, DivMod
<1>3. \/ (n + 1) \div sampleRate = n \div sampleRate /\ (n + 1) % sampleRate = (n % sampleRate) + 1
      \/ (n + 1) \div sampleRate = (n \div sampleRate) + 1 /\ (n + 1) % sampleRate = 0
         /\ (n % sampleRate) + 1 = sampleRate
  BY <1>1, CountOn
<1>4. PICK q \in Nat, x \in Nat : q = n \div sampleRate /\ x = n % sampleRate
  BY <1>2
<1>5. SampledOut(n) = n - q - (IF x # 0 THEN 1 ELSE 0)
  BY <1>4 DEF SampledOut
<1>6. PICK s \in Nat, y \in Nat : s = (n + 1) \div sampleRate /\ y = (n + 1) % sampleRate
  BY <1>1, <1>3, <1>4
<1>7. SampledOut(n + 1) = n + 1 - s - (IF y # 0 THEN 1 ELSE 0)
  BY <1>6 DEF SampledOut
<1>8. (s = q /\ y = x + 1) \/ (s = q + 1 /\ y = 0 /\ x # 0)
  BY <1>1, <1>3, <1>4, <1>6
<1> QED
  BY <1>4, <1>5, <1>7, <1>8

LEMMA SampledAlike ==
    ASSUME UNCHANGED sampleRate
    PROVE  (Samples' <=> Samples) /\ SampledOut(counter)' = SampledOut(counter')
  BY DEF SampledOut, Samples

LEMMA RateUntouched ==
    ASSUME RefillBounded, HalfRateKept, UNCHANGED <<tokens, lastRefill, gained, admitted, resetAt>>
    PROVE  RefillBounded' /\ HalfRateKept'
  BY DEF RefillBounded, HalfRateKept, MaxTokens

LEMMA AskingTypes ==
    ASSUME LimiterState
    PROVE  /\ asking \in [Callers -> LimiterStates] /\ IsFiniteSet(InFlight) /\ Cardinality(InFlight) \in Nat
           /\ sampleRate \in Nat \ {0} /\ SampledOut(counter) \in Int
           /\ rateDropped \in Nat /\ passed \in Nat /\ counter \in Nat /\ asked \in Nat
<1>1. /\ asking \in [Callers -> LimiterStates] /\ IsFiniteSet(InFlight) /\ sampleRate \in Nat \ {0}
      /\ rateDropped \in Nat /\ passed \in Nat /\ counter \in Nat /\ asked \in Nat /\ LimiterTypes
  BY DEF LimiterState, LimiterTypes, LimiterTypeOK, StatsKept, LimiterStates
<1>2. Cardinality(InFlight) \in Nat
  BY <1>1, FS_CardinalityType
<1>3. SampledOut(counter) \in Int
  <2>1. CASE Samples
    BY <1>1, <2>1, SampleStep
  <2>2. CASE ~Samples
    BY <2>2 DEF SampledOut
  <2> QED
    BY <2>1, <2>2
<1> QED
  BY <1>1, <1>2, <1>3

LEMMA SampleKeeps ==
    ASSUME LimiterState, NEW c \in Callers, Sample(c)
    PROVE  LimiterState'
<1> DEFINE to == IF Samples /\ counter % sampleRate # 0 THEN "idle" ELSE "rate"
<1>1. /\ asked' = asked + 1 /\ counter' = (IF Samples THEN counter + 1 ELSE counter)
      /\ NextStep(c, "idle", to) /\ disturbed' = (disturbed \/ Resetting)
      /\ UNCHANGED <<sampleRate, tokens, lastRefill, rateDropped, passed, now, resets, gained,
                     admitted, resetAt>>
  BY DEF Sample
<1>2. /\ asking' \in [Callers -> LimiterStates] /\ IsFiniteSet(InFlight')
      /\ \A d \in Callers : asking'[d] = IF d = c THEN to ELSE asking[d]
      /\ Cardinality(InFlight') = Cardinality(InFlight) + (IF to = "rate" THEN 1 ELSE 0)
  <2>1. "idle" \in LimiterStates /\ to \in LimiterStates
    BY DEF LimiterStates
  <2>2. PICK t \in LimiterStates : t = to
    BY <2>1
  <2>3. NextStep(c, "idle", t)
    BY <1>1, <2>2
  <2>4. /\ asking' \in [Callers -> LimiterStates] /\ IsFiniteSet(InFlight')
        /\ \A d \in Callers : asking'[d] = IF d = c THEN t ELSE asking[d]
        /\ Cardinality(InFlight) \in Nat
        /\ Cardinality(InFlight') = Cardinality(InFlight) + (IF t \in {"rate", "count"} THEN 1 ELSE 0)
              - (IF "idle" \in {"rate", "count"} THEN 1 ELSE 0)
    BY <2>1, <2>3, AskingTypes, FlightStep
  <2> QED
    BY <2>2, <2>4
<1>3. LimiterTypes'
  <2>1. counter' \in Nat /\ asked' \in Nat
    BY <1>1, AskingTypes
  <2>2. MaxTokens' = MaxTokens
    BY DEF MaxTokens
  <2> QED
    BY <1>1, <1>2, <2>1, <2>2 DEF LimiterState, LimiterTypes, LimiterTypeOK, LimiterStates
<1>4. RefillBounded' /\ HalfRateKept'
  BY <1>1, RateUntouched DEF LimiterState
<1>5. ASSUME ~disturbed'
      PROVE  /\ ~Resetting'
             /\ (passed + rateDropped + SampledOut(counter) + Cardinality(InFlight) = asked)'
             /\ (counter = IF Samples THEN asked ELSE 0)'
  <2>1. /\ ~Resetting /\ passed + rateDropped + SampledOut(counter) + Cardinality(InFlight) = asked
        /\ counter = IF Samples THEN asked ELSE 0
    BY <1>1, <1>5 DEF LimiterState, StatsKept, Resetting, OnlyResetting
  <2>2. ~Resetting'
    BY <1>2, <2>1 DEF Resetting
  <2>3. SampledOut(counter') = SampledOut(counter) + (IF to = "rate" THEN 0 ELSE 1)
    <3>1. CASE Samples
      BY <1>1, <3>1, AskingTypes, SampleStep DEF LimiterState
    <3>2. CASE ~Samples
      BY <1>1, <3>2 DEF SampledOut
    <3> QED
      BY <3>1, <3>2
  <2>4. passed + rateDropped + SampledOut(counter') + Cardinality(InFlight') = asked + 1
    BY <1>2, <2>1, <2>3, AskingTypes
  <2>5. (passed + rateDropped + SampledOut(counter) + Cardinality(InFlight) = asked)'
    BY <1>1, <2>4, SampledAlike
  <2>6. (counter = IF Samples THEN asked ELSE 0)'
    BY <1>1, <2>1, SampledAlike
  <2> QED
    BY <2>2, <2>5, <2>6
<1> QED
  BY <1>2, <1>3, <1>4, <1>5 DEF LimiterState, StatsKept

\* The types survive a step that counts well.
LEMMA TypesKept ==
    ASSUME LimiterState, asking' \in [Callers -> LimiterStates], sampleRate' = sampleRate,
           {lastRefill', rateDropped', counter', passed', now', asked', gained', resets'} \subseteq Nat,
           tokens' \in 0..MaxTokens, admitted' \in Nat, resetAt' \in Nat,
           resetAt' <= lastRefill', lastRefill' <= now'
    PROVE  LimiterTypes'
<1>1. MaxTokens' = MaxTokens
  BY DEF MaxTokens
<1>2. sampleRate' \in Nat /\ sampleRate' # 0
  BY AskingTypes
<1>3. LimiterTypeOK'
  BY <1>1, <1>2 DEF LimiterTypeOK, LimiterStates
<1> QED
  BY <1>2, <1>3 DEF LimiterTypes

\* The counts that the types speak of.
LEMMA LimiterNats ==
    ASSUME LimiterState
    PROVE  /\ {lastRefill, now, gained, resets, admitted, resetAt, tokens, MaxTokens} \subseteq Nat
           /\ tokens <= MaxTokens /\ resetAt <= lastRefill /\ lastRefill <= now
<1>1. /\ {lastRefill, now, gained} \subseteq Nat /\ tokens \in 0..MaxTokens
      /\ resets \in Nat /\ admitted \in Nat /\ resetAt \in Nat /\ resetAt <= lastRefill /\ lastRefill <= now
  BY DEF LimiterState, LimiterTypes, LimiterTypeOK
<1>2. MaxTokens \in Nat
  BY TokensAreNat
<1> QED
  BY <1>1, <1>2

\* A call that is in flight says that no undisturbed reset is under way.
LEMMA NoReset ==
    ASSUME LimiterState, ~disturbed, NEW c \in Callers, asking[c] \in {"rate", "count"}
    PROVE  /\ ~Resetting /\ passed + rateDropped + SampledOut(counter) + Cardinality(InFlight) = asked
           /\ counter = IF Samples THEN asked ELSE 0
<1>1. \A d \in Callers : ~OnlyResetting(d, "sampling reset") /\ ~OnlyResetting(d, "count reset")
  BY DEF OnlyResetting
<1> QED
  BY <1>1 DEF LimiterState, StatsKept

\* A caller whose message is decided leaves, and the outcome is counted.
LEMMA StatsAfter ==
    ASSUME LimiterState, NEW c \in Callers, NEW from \in {"rate", "count"}, NEW to \in {"count", "idle"},
           NextStep(c, from, to), UNCHANGED <<sampleRate, counter, asked, disturbed>>,
           passed' \in Nat, rateDropped' \in Nat,
           passed' + rateDropped' = passed + rateDropped + (IF to = "idle" THEN 1 ELSE 0)
    PROVE  asking' \in [Callers -> LimiterStates] /\ StatsKept'
<1>1. from \in LimiterStates /\ to \in LimiterStates /\ asking[c] \in {"rate", "count"}
  BY DEF LimiterStates, NextStep
<1>2. /\ asking' \in [Callers -> LimiterStates] /\ IsFiniteSet(InFlight')
      /\ \A d \in Callers : asking'[d] = IF d = c THEN to ELSE asking[d]
      /\ Cardinality(InFlight') = Cardinality(InFlight) + (IF to \in {"rate", "count"} THEN 1 ELSE 0)
            - (IF from \in {"rate", "count"} THEN 1 ELSE 0)
  BY <1>1, AskingTypes, FlightStep
<1>3. Cardinality(InFlight') = Cardinality(InFlight) - (IF to = "idle" THEN 1 ELSE 0)
  BY <1>2, AskingTypes
<1>4. ASSUME ~disturbed'
      PROVE  /\ ~Resetting'
             /\ (passed + rateDropped + SampledOut(counter) + Cardinality(InFlight) = asked)'
             /\ (counter = IF Samples THEN asked ELSE 0)'
  <2>1. /\ ~Resetting /\ passed + rateDropped + SampledOut(counter) + Cardinality(InFlight) = asked
        /\ counter = IF Samples THEN asked ELSE 0
    BY <1>1, <1>4, NoReset
  <2>2. ~Resetting'
    BY <1>2, <2>1 DEF Resetting
  <2>3. passed' + rateDropped' + SampledOut(counter) + Cardinality(InFlight') = asked
    BY <1>3, <2>1, AskingTypes
  <2> QED
    BY <2>1, <2>2, <2>3, SampledAlike
<1> QED
  BY <1>2, <1>4 DEF StatsKept

LEMMA TryLogKeeps ==
    ASSUME LimiterState, NEW c \in Callers, TryLog(c)
    PROVE  LimiterState'
<1> DEFINE filled == Capped(tokens + RefillRate * Milliseconds)
           elapsed == now - lastRefill
<1>1. UNCHANGED <<sampleRate, counter, passed, now, asked, resets, resetAt, disturbed>>
  BY DEF TryLog
<1>2. /\ elapsed \in Nat /\ Milliseconds = elapsed \div Fraction /\ Milliseconds \in Nat
      /\ RefillRate * Milliseconds \in Nat
  <2>1. elapsed \in Nat /\ Milliseconds = elapsed \div Fraction
    BY LimiterNats DEF Milliseconds
  <2>2. PICK e \in Nat : e = elapsed
    BY <2>1
  <2>3. e \div Fraction \in Nat /\ RefillRate * (e \div Fraction) \in Nat
    BY WholeMilliseconds, RatesAssumption, FractionAssumption
  <2> QED
    BY <2>1, <2>2, <2>3
<1>3. /\ filled \in Nat /\ filled <= MaxTokens /\ filled <= tokens + RefillRate * Milliseconds
      /\ (Milliseconds = 0 => filled = tokens)
  <2>1. Milliseconds = 0 => RefillRate * Milliseconds = 0
    BY RatesAssumption
  <2> QED
    BY <1>2, <2>1, LimiterNats DEF Capped, Least
<1>4. /\ lastRefill' \in Nat /\ resetAt <= lastRefill' /\ lastRefill' <= now /\ gained' \in Nat
      /\ (MaxTokens # 0 => (Milliseconds > 0 => lastRefill' = now /\ gained' = gained + RefillRate * Milliseconds)
                           /\ (Milliseconds = 0 => lastRefill' = lastRefill /\ gained' = gained))
      /\ (MaxTokens = 0 => lastRefill' = lastRefill /\ gained' = gained)
  BY <1>2, LimiterNats DEF TryLog, Refilled
<1>5. \/ /\ MaxTokens # 0 /\ filled >= 1000 /\ NextStep(c, "rate", "count")
         /\ tokens' = filled - 1000 /\ admitted' = admitted + 1 /\ rateDropped' = rateDropped
      \/ /\ MaxTokens # 0 /\ NextStep(c, "rate", "idle")
         /\ tokens' = filled /\ rateDropped' = rateDropped + 1 /\ admitted' = admitted
      \/ /\ MaxTokens = 0 /\ NextStep(c, "rate", "count")
         /\ UNCHANGED <<tokens, admitted, rateDropped>>
  BY <1>3, LimiterNats DEF TryLog
<1>6. tokens' \in 0..MaxTokens /\ admitted' \in Nat /\ rateDropped' \in Nat
  BY <1>3, <1>5, LimiterNats, AskingTypes
<1>7. asking' \in [Callers -> LimiterStates] /\ StatsKept'
  BY <1>1, <1>5, <1>6, AskingTypes, StatsAfter
<1>8. LimiterTypes'
  BY <1>1, <1>4, <1>6, <1>7, LimiterNats, AskingTypes, TypesKept
<1>9. RefillBounded' /\ HalfRateKept'
  <2>1. CASE MaxTokens = 0
    BY <1>1, <1>4, <1>5, <2>1, RateUntouched DEF LimiterState
  <2>2. CASE MaxTokens # 0
    <3>1. 1000 * admitted' + tokens' = 1000 * admitted + filled
      BY <1>3, <1>5, <2>2, LimiterNats
    <3> DEFINE spent == lastRefill - resetAt
               had == 1000 * admitted + tokens
    <3>2. /\ spent \in Nat /\ had \in Nat /\ Fraction * had <= Fraction * MaxTokens + RefillRate * spent
          /\ 2 * Fraction * gained >= RefillRate * spent
      BY LimiterNats DEF LimiterState, RefillBounded, HalfRateKept
    <3>3. /\ Fraction * (had + RefillRate * Milliseconds) <= Fraction * MaxTokens + RefillRate * (spent + elapsed)
          /\ Milliseconds > 0
             => 2 * Fraction * (gained + RefillRate * Milliseconds) >= RefillRate * (spent + elapsed)
      <4>1. PICK e \in Nat, s \in Nat, h \in Nat : e = elapsed /\ s = spent /\ h = had
        BY <1>2, <3>2
      <4>2. gained \in Nat /\ MaxTokens \in Nat
        BY LimiterNats
      <4>3. Fraction * h <= Fraction * MaxTokens + RefillRate * s /\ 2 * Fraction * gained >= RefillRate * s
        BY <3>2, <4>1
      <4>4. /\ Fraction * (h + RefillRate * (e \div Fraction)) <= Fraction * MaxTokens + RefillRate * (s + e)
            /\ e \div Fraction > 0
               => 2 * Fraction * (gained + RefillRate * (e \div Fraction)) >= RefillRate * (s + e)
        BY <4>2, <4>3, RatesAssumption, FractionAssumption, RefillBounds
      <4> QED
        BY <1>2, <4>1, <4>4
    <3>4. MaxTokens' = MaxTokens
      BY DEF MaxTokens
    <3>5. CASE Milliseconds > 0
      <4>1. spent + elapsed = lastRefill' - resetAt' /\ 1000 * admitted + filled <= had + RefillRate * Milliseconds
        BY <1>1, <1>2, <1>3, <1>4, <2>2, <3>5, LimiterNats
      <4>2. Fraction * (1000 * admitted + filled) <= Fraction * (had + RefillRate * Milliseconds)
        <5>1. 1000 * admitted + filled \in Nat /\ had + RefillRate * Milliseconds \in Nat
          BY <1>2, <1>3, <3>2, LimiterNats
        <5> HIDE DEF filled, had, elapsed
        <5> QED
          BY <4>1, <5>1, FractionAssumption
      <4>3. /\ Fraction * (1000 * admitted' + tokens') <= Fraction * MaxTokens + RefillRate * (lastRefill' - resetAt')
            /\ 2 * Fraction * gained' >= RefillRate * (lastRefill' - resetAt')
        <5>1. PICK r : r = RefillRate * (spent + elapsed) /\ r = RefillRate * (lastRefill' - resetAt')
          BY <4>1
        <5>2. PICK f : f = Fraction * MaxTokens + r
          OBVIOUS
        <5>3. Fraction * (had + RefillRate * Milliseconds) <= f
          BY <3>3, <5>1, <5>2
        <5>4. Fraction * (1000 * admitted' + tokens') <= f
          <6>1. f \in Int /\ Fraction * (had + RefillRate * Milliseconds) \in Int
                /\ Fraction * (1000 * admitted + filled) \in Int
            BY <1>2, <1>3, <3>2, <5>1, <5>2, LimiterNats, FractionAssumption, RatesAssumption
          <6> HIDE DEF filled, had, elapsed, spent
          <6> QED
            BY <3>1, <4>2, <5>3, <6>1
        <5>5. 2 * Fraction * gained' >= r
          BY <1>4, <2>2, <3>3, <3>5, <5>1
        <5> QED
          BY <5>1, <5>2, <5>4, <5>5
      <4> QED
        BY <3>4, <4>3 DEF RefillBounded, HalfRateKept
    <3>6. CASE Milliseconds = 0
      BY <1>1, <1>3, <1>4, <2>2, <3>1, <3>2, <3>4, <3>6 DEF RefillBounded, HalfRateKept
    <3> QED
      BY <1>2, <3>5, <3>6
  <2> QED
    BY <2>1, <2>2
<1> QED
  BY <1>7, <1>8, <1>9 DEF LimiterState

LEMMA CountKeeps ==
    ASSUME LimiterState, NEW c \in Callers, CountLogged(c)
    PROVE  LimiterState'
<1>1. /\ NextStep(c, "count", "idle") /\ passed' = passed + 1
      /\ UNCHANGED <<sampleRate, tokens, lastRefill, rateDropped, counter, now, asked, resets,
                     gained, admitted, resetAt, disturbed>>
  BY DEF CountLogged
<1>2. asking' \in [Callers -> LimiterStates] /\ StatsKept'
  BY <1>1, AskingTypes, StatsAfter
<1>3. tokens \in 0..MaxTokens
  BY LimiterNats
<1>4. LimiterTypes'
  BY <1>1, <1>2, <1>3, LimiterNats, AskingTypes, TypesKept
<1> QED
  BY <1>1, <1>2, <1>4, RateUntouched DEF LimiterState

LEMMA ResetRateKeeps ==
    ASSUME LimiterState, NEW c \in Callers, ResetRate(c)
    PROVE  LimiterState'
<1>0. /\ NextStep(c, "idle", "sampling reset")
      /\ disturbed' = (\E d \in Callers \ {c} : asking[d] # "idle")
  BY DEF ResetRate
<1>1. /\ resets' = resets + 1 /\ tokens' = MaxTokens /\ rateDropped' = 0 /\ lastRefill' = now
      /\ gained' = 0 /\ admitted' = 0 /\ resetAt' = now
      /\ UNCHANGED <<sampleRate, counter, passed, now, asked>>
  BY DEF ResetRate
<1>2. /\ asking' \in [Callers -> LimiterStates] /\ IsFiniteSet(InFlight')
      /\ \A d \in Callers : asking'[d] = IF d = c THEN "sampling reset" ELSE asking[d]
  <2>1. "idle" \in LimiterStates /\ "sampling reset" \in LimiterStates
    BY DEF LimiterStates
  <2> QED
    BY <1>0, <2>1, AskingTypes, FlightStep
<1>3. LimiterTypes'
  <2>1. {lastRefill', rateDropped', counter', passed', now', asked', gained', resets'} \subseteq Nat
        /\ tokens' \in 0..MaxTokens /\ admitted' \in Nat /\ resetAt' \in Nat
        /\ resetAt' <= lastRefill' /\ lastRefill' <= now' /\ sampleRate' = sampleRate
    BY <1>1, LimiterNats, AskingTypes
  <2> QED
    BY <1>2, <2>1, TypesKept
<1>4. RefillBounded' /\ HalfRateKept'
  <2>1. lastRefill' - resetAt' = 0 /\ 1000 * admitted' + tokens' = MaxTokens
    BY <1>1, LimiterNats
  <2>2. RefillRate * 0 = 0 /\ 2 * Fraction * 0 = 0 /\ Fraction * MaxTokens \in Nat
    BY LimiterNats, RatesAssumption, FractionAssumption
  <2>3. MaxTokens' = MaxTokens
    BY DEF MaxTokens
  <2> QED
    BY <1>1, <2>1, <2>2, <2>3 DEF RefillBounded, HalfRateKept
<1>5. ~disturbed' => OnlyResetting(c, "sampling reset")'
  BY <1>0, <1>2 DEF OnlyResetting
<1> QED
  BY <1>1, <1>2, <1>3, <1>4, <1>5 DEF LimiterState, StatsKept

LEMMA ResetSamplingKeeps ==
    ASSUME LimiterState, NEW c \in Callers, ResetSampling(c)
    PROVE  LimiterState'
<1>0. NextStep(c, "sampling reset", "count reset")
  BY DEF ResetSampling
<1>1. /\ counter' = 0
      /\ UNCHANGED <<sampleRate, tokens, lastRefill, rateDropped, passed, now, asked, resets,
                     gained, admitted, resetAt, disturbed>>
  BY DEF ResetSampling
<1>2. /\ asking' \in [Callers -> LimiterStates] /\ IsFiniteSet(InFlight')
      /\ \A d \in Callers : asking'[d] = IF d = c THEN "count reset" ELSE asking[d]
  <2>1. "sampling reset" \in LimiterStates /\ "count reset" \in LimiterStates
    BY DEF LimiterStates
  <2> QED
    BY <1>0, <2>1, AskingTypes, FlightStep
<1>3. LimiterTypes'
  <2>1. tokens \in 0..MaxTokens
    BY LimiterNats
  <2>2. {lastRefill', rateDropped', counter', passed', now', asked', gained', resets'} \subseteq Nat
        /\ tokens' \in 0..MaxTokens /\ admitted' \in Nat /\ resetAt' \in Nat
        /\ resetAt' <= lastRefill' /\ lastRefill' <= now' /\ sampleRate' = sampleRate
    BY <1>1, <2>1, LimiterNats, AskingTypes
  <2> QED
    BY <1>2, <2>2, TypesKept
<1>4. ASSUME ~disturbed' PROVE rateDropped' = 0 /\ OnlyResetting(c, "count reset")'
  <2>1. asking[c] = "sampling reset" /\ asking[c] # "idle" /\ asking[c] # "count reset"
    BY <1>0 DEF NextStep
  <2>2. Resetting
    BY <2>1 DEF Resetting
  <2>3. PICK d \in Callers : rateDropped = 0
                             /\ (OnlyResetting(d, "sampling reset") \/ OnlyResetting(d, "count reset"))
    BY <1>1, <1>4, <2>2 DEF LimiterState, StatsKept
  <2>4. d = c
    BY <2>1, <2>3 DEF OnlyResetting
  <2> QED
    BY <1>1, <1>2, <2>3, <2>4 DEF OnlyResetting
<1> QED
  BY <1>1, <1>2, <1>3, <1>4, RateUntouched DEF LimiterState, StatsKept

LEMMA ResetCountKeeps ==
    ASSUME LimiterState, NEW c \in Callers, ResetCount(c)
    PROVE  LimiterState'
<1>0. NextStep(c, "count reset", "idle")
  BY DEF ResetCount
<1>1. /\ passed' = 0
      /\ asked' = (IF disturbed THEN asked ELSE 0)
      /\ UNCHANGED <<sampleRate, tokens, lastRefill, rateDropped, counter, now, resets,
                     gained, admitted, resetAt, disturbed>>
  BY DEF ResetCount
<1>2. /\ asking' \in [Callers -> LimiterStates] /\ IsFiniteSet(InFlight')
      /\ \A d \in Callers : asking'[d] = IF d = c THEN "idle" ELSE asking[d]
  <2>1. "idle" \in LimiterStates /\ "count reset" \in LimiterStates
    BY DEF LimiterStates
  <2> QED
    BY <1>0, <2>1, AskingTypes, FlightStep
<1>3. LimiterTypes'
  <2>1. tokens \in 0..MaxTokens
    BY LimiterNats
  <2>2. asked' \in Nat
    BY <1>1, AskingTypes
  <2>3. {lastRefill', rateDropped', counter', passed', now', asked', gained', resets'} \subseteq Nat
        /\ tokens' \in 0..MaxTokens /\ admitted' \in Nat /\ resetAt' \in Nat
        /\ resetAt' <= lastRefill' /\ lastRefill' <= now' /\ sampleRate' = sampleRate
    BY <1>1, <2>1, <2>2, LimiterNats, AskingTypes
  <2> QED
    BY <1>2, <2>3, TypesKept
<1>4. ASSUME ~disturbed'
      PROVE  /\ ~Resetting'
             /\ (passed + rateDropped + SampledOut(counter) + Cardinality(InFlight) = asked)'
             /\ (counter = IF Samples THEN asked ELSE 0)'
  <2>1. asking[c] = "count reset" /\ asking[c] # "idle" /\ asking[c] # "sampling reset"
    BY <1>0 DEF NextStep
  <2>2. Resetting
    BY <2>1 DEF Resetting
  <2>3. PICK d \in Callers :
            /\ rateDropped = 0
            /\ \/ OnlyResetting(d, "sampling reset")
               \/ counter = 0 /\ OnlyResetting(d, "count reset")
    BY <1>1, <1>4, <2>2 DEF LimiterState, StatsKept
  <2>4. d = c /\ counter = 0 /\ \A e \in Callers : e # c => asking[e] = "idle"
    BY <2>1, <2>3 DEF OnlyResetting
  <2>5. \A e \in Callers : asking'[e] = "idle"
    BY <1>2, <2>4
  <2>6. ~Resetting' /\ InFlight' = {}
    BY <2>5 DEF Resetting, InFlight
  <2>7. Cardinality(InFlight') = 0 /\ SampledOut(counter') = 0
    BY <1>1, <2>4, <2>6, FS_EmptySet, AskingTypes, NothingSampledOut
  <2>8. passed' = 0 /\ rateDropped' = 0 /\ asked' = 0 /\ counter' = 0
    BY <1>1, <1>4, <2>3, <2>4
  <2>9. SampledOut(counter)' = 0
    BY <1>1, <2>7, SampledAlike
  <2> QED
    BY <2>6, <2>7, <2>8, <2>9
<1> QED
  BY <1>1, <1>2, <1>3, <1>4, RateUntouched DEF LimiterState, StatsKept

\* However calls and resets interleave, the limiter admits no more than the burst
\* and the rate allow, refilling loses less than half of the rate, and between
\* calls the statistics account for every message.
THEOREM LimiterCorrect == LimiterSpec => []LimiterInv
<1>1. ASSUME LimiterState, [LimiterNext]_limiterVars PROVE LimiterState'
  <2>1. CASE UNCHANGED limiterVars
    <3>1. LimiterTypes'
      BY <1>1, <2>1 DEF limiterVars, LimiterState, LimiterTypes, LimiterTypeOK, MaxTokens
    <3>2. RefillBounded' /\ HalfRateKept'
      BY <1>1, <2>1, RateUntouched DEF limiterVars, LimiterState
    <3>3. StatsKept'
      BY <1>1, <2>1
         DEF limiterVars, LimiterState, StatsKept, InFlight, Resetting, SampledOut, Samples, OnlyResetting
    <3> QED
      BY <3>1, <3>2, <3>3 DEF LimiterState
  <2>2. CASE LimiterTick
    <3>1. /\ now' = now + 1
          /\ UNCHANGED <<sampleRate, tokens, lastRefill, rateDropped, counter, passed, asking, asked,
                         resets, gained, admitted, resetAt, disturbed>>
      BY <2>2 DEF LimiterTick
    <3>2. StatsKept'
      BY <1>1, <3>1 DEF LimiterState, StatsKept, InFlight, Resetting, SampledOut, Samples, OnlyResetting
    <3>3. LimiterTypes'
      <4>1. tokens \in 0..MaxTokens /\ now' \in Nat /\ lastRefill <= now'
        BY <1>1, <3>1, LimiterNats
      <4> QED
        BY <1>1, <3>1, <4>1, LimiterNats, AskingTypes, TypesKept
    <3> QED
      BY <1>1, <3>1, <3>2, <3>3, RateUntouched DEF LimiterState
  <2> QED
    BY <1>1, <2>1, <2>2, SampleKeeps, TryLogKeeps, CountKeeps, ResetRateKeeps, ResetSamplingKeeps,
       ResetCountKeeps DEF LimiterNext
<1>2. ASSUME LimiterState PROVE LimiterInv
  <2>1. RateBounded
    <3>1. RefillRate * (lastRefill - resetAt) <= RefillRate * (now - resetAt)
      <4>1. PICK a \in Nat, b \in Nat : a = lastRefill - resetAt /\ b = now - resetAt /\ a <= b
        BY <1>2, LimiterNats
      <4>2. RefillRate * a <= RefillRate * b
        BY <4>1, RatesAssumption
      <4> QED
        BY <4>1, <4>2
    <3>2. PICK x \in Int, y \in Int : x = RefillRate * (lastRefill - resetAt) /\ y = RefillRate * (now - resetAt)
      BY <1>2, LimiterNats, RatesAssumption
    <3>3. PICK z \in Int : z = Fraction * MaxTokens
      BY <1>2, LimiterNats, FractionAssumption
    <3>4. PICK w \in Int : w = Fraction * (1000 * admitted + tokens)
      BY <1>2, LimiterNats, FractionAssumption
    <3>5. w <= z + x
      BY <1>2, <3>2, <3>3, <3>4 DEF LimiterState, RefillBounded
    <3>6. w <= z + y
      BY <3>1, <3>2, <3>5
    <3> QED
      BY <3>2, <3>3, <3>4, <3>6 DEF RateBounded
  <2>2. StatsAddUp
    <3> SUFFICES ASSUME \A c \in Callers : asking[c] = "idle", ~disturbed
                 PROVE  /\ passed + rateDropped + SamplingDrops =
                              asked + (IF Samples /\ counter % sampleRate # 0 THEN 1 ELSE 0)
                        /\ counter = IF Samples THEN asked ELSE 0
      BY DEF StatsAddUp
    <3>1. InFlight = {} /\ \A c \in Callers : ~OnlyResetting(c, "sampling reset") /\ ~OnlyResetting(c, "count reset")
      BY DEF InFlight, OnlyResetting
    <3>2. Cardinality(InFlight) = 0
      BY <3>1, FS_EmptySet
    <3>3. passed + rateDropped + SampledOut(counter) = asked /\ counter = IF Samples THEN asked ELSE 0
      <4>1. /\ passed + rateDropped + SampledOut(counter) + Cardinality(InFlight) = asked
            /\ counter = IF Samples THEN asked ELSE 0
        BY <1>2, <3>1 DEF LimiterState, StatsKept
      <4> QED
        BY <1>2, <3>2, <4>1, AskingTypes
    <3>4. SamplingDrops = SampledOut(counter) + (IF Samples /\ counter % sampleRate # 0 THEN 1 ELSE 0)
      <4>1. CASE Samples
        <5>1. PICK q \in Nat : q = counter \div sampleRate
          BY <1>2, AskingTypes, DivMod
        <5>2. SamplingDrops = counter - q
          BY <4>1, <5>1 DEF SamplingDrops
        <5>3. SampledOut(counter) = counter - q - (IF counter % sampleRate # 0 THEN 1 ELSE 0)
          BY <4>1, <5>1 DEF SampledOut
        <5> QED
          BY <1>2, <4>1, <5>2, <5>3, AskingTypes
      <4>2. CASE ~Samples
        BY <4>2 DEF SamplingDrops, SampledOut
      <4> QED
        BY <4>1, <4>2
    <3> QED
      BY <1>2, <3>3, <3>4, AskingTypes
  <2> QED
    BY <1>2, <2>1, <2>2 DEF LimiterInv, LimiterState, LimiterTypes
<1> QED
  BY LimiterInitial, <1>1, <1>2, PTL DEF LimiterSpec

-----------------------------------------------------------------------------
(* Admission.                                                              *)

\* A call that is on its way has copied the settings in force at its decision.
AdmissionState ==
    /\ AdmissionTypeOK /\ SecretsStayIn
    /\ call # NoCall => call.settings = call.asked

LEMMA AdmissionInitial == AdmissionInit => AdmissionState
<1> SUFFICES ASSUME AdmissionInit PROVE AdmissionState
  OBVIOUS
<1>1. filters = << >> /\ filters \in Seq(Filters) /\ Len(filters) = 0
  BY DEF AdmissionInit
<1> QED
  BY <1>1, AdmissionBoundsAssumption
     DEF AdmissionInit, AdmissionState, AdmissionTypeOK, SecretsStayIn, NoCall, NoRedaction, AcceptAll

\* A change of the filters or settings touches no call and nothing delivered.
LEMMA ChangeStep ==
    ASSUME AdmissionState, Change, filters' \in Seq(Filters), Len(filters') <= MaxFilters,
           filterFunc' \in Filters \cup {AcceptAll}, DOMAIN redaction' = DOMAIN redaction
    PROVE  AdmissionState'
  BY DEF AdmissionState, AdmissionTypeOK, SecretsStayIn, Change, NoCall, NoRedaction, AcceptAll

LEMMA DecideStep ==
    ASSUME AdmissionState, NEW l \in RecordLevels, NEW m \in Messages, NEW c \in Contexts, Decide(l, m, c)
    PROVE  AdmissionState'
<1>1. /\ records' = records + 1
      /\ UNCHANGED <<minLevel, filters, filterFunc, redaction, delivered, changes>>
      /\ \/ call' = NoCall
         \/ call' = [pc |-> "deliver", message |-> m, settings |-> redaction,
                     asked |-> redaction, filters |-> filters, level |-> l, context |-> c]
  BY DEF Decide
<1>2. (call' = NoCall \/ call'.message \in Messages) /\ (call' # NoCall => call'.settings = call'.asked)
  BY <1>1
<1> QED
  BY <1>1, <1>2 DEF AdmissionState, AdmissionTypeOK, SecretsStayIn, NoCall, NoRedaction, AcceptAll

LEMMA DeliverStep ==
    ASSUME AdmissionState, Deliver
    PROVE  AdmissionState'
<1>1. /\ call # NoCall /\ call' = NoCall
      /\ UNCHANGED <<minLevel, filters, filterFunc, redaction, changes, records>>
      /\ call.settings = call.asked /\ call.message \in Messages
  BY DEF Deliver, AdmissionState, AdmissionTypeOK
<1>2. ASSUME NEW d \in delivered', d \notin delivered
      PROVE  d.of = call /\ d.text = SentText(d.cloud, call.message, call.asked)
  BY <1>1, <1>2 DEF Deliver
<1>3. \A d \in delivered' : d.text \subseteq d.of.message
  BY <1>2 DEF SentText, AdmissionState, AdmissionTypeOK
<1>4. ASSUME NEW d \in delivered', d.cloud \/ ~d.of.asked.cloudOnly
      PROVE  /\ d.text \cap d.of.asked.substrings = {}
             /\ d.text \cap (d.of.asked.regexes \ {"("}) = {}
             /\ d.text \cap d.of.asked.presets \cap Presets = {}
  <2>1. CASE d \in delivered
    BY <1>4, <2>1 DEF AdmissionState, SecretsStayIn
  <2>2. CASE d \notin delivered
    <3>1. d.of = call /\ d.text = call.message \ Hidden(call.asked)
      BY <1>2, <1>4, <2>2 DEF SentText
    <3> QED
      BY <3>1 DEF Hidden
  <2> QED
    BY <2>1, <2>2
<1> QED
  BY <1>1, <1>3, <1>4 DEF AdmissionState, AdmissionTypeOK, SecretsStayIn, NoCall, NoRedaction, AcceptAll

\* No fragment that the settings in force at the decision hide reaches a sink
\* they are meant for, however they change before the delivery.
THEOREM SecretsStay == AdmissionSpec => []AdmissionInv
<1>1. ASSUME AdmissionState, [AdmissionNext]_admissionVars PROVE AdmissionState'
  <2>1. CASE UNCHANGED admissionVars
    BY <1>1, <2>1
       DEF admissionVars, AdmissionState, AdmissionTypeOK, SecretsStayIn, NoCall, NoRedaction, AcceptAll
  <2>2. ASSUME NEW f \in Filters, AddFilter(f) PROVE AdmissionState'
    <3>1. /\ Change /\ Len(filters) < MaxFilters /\ filters' = Append(filters, f) /\ UNCHANGED <<filterFunc, redaction>>
          /\ filters \in Seq(Filters) /\ filterFunc \in Filters \cup {AcceptAll}
      BY <1>1, <2>2 DEF AddFilter, AdmissionState, AdmissionTypeOK
    <3>2. filters' \in Seq(Filters) /\ Len(filters') = Len(filters) + 1 /\ Len(filters) \in Nat
      BY <3>1, AppendProperties, LenProperties
    <3>3. Len(filters') <= MaxFilters
      BY <3>1, <3>2, AdmissionBoundsAssumption
    <3> QED
      BY <1>1, <3>1, <3>2, <3>3, ChangeStep
  <2>3. ASSUME NEW f \in Filters, SetFilterFunc(f) PROVE AdmissionState'
    BY <1>1, <2>3, ChangeStep DEF SetFilterFunc, AdmissionState, AdmissionTypeOK
  <2>4. CASE ClearFilters
    <3>1. Change /\ filters' = << >> /\ filterFunc' = AcceptAll /\ UNCHANGED redaction
      BY <2>4 DEF ClearFilters
    <3>2. << >> \in Seq(Filters) /\ Len(<< >>) <= MaxFilters
      BY AdmissionBoundsAssumption
    <3> QED
      BY <1>1, <3>1, <3>2, ChangeStep
  <2>5. ASSUME NEW s, NEW p, SetRedactPatterns(s, p) PROVE AdmissionState'
    BY <1>1, <2>5, ChangeStep DEF SetRedactPatterns, AdmissionState, AdmissionTypeOK
  <2>6. ASSUME NEW b \in BOOLEAN, SetRedactApplyToCloudOnly(b) PROVE AdmissionState'
    BY <1>1, <2>6, ChangeStep DEF SetRedactApplyToCloudOnly, AdmissionState, AdmissionTypeOK
  <2> QED
    BY <1>1, <2>1, <2>2, <2>3, <2>4, <2>5, <2>6, DecideStep, DeliverStep DEF AdmissionNext
<1>2. AdmissionState => AdmissionInv
  BY DEF AdmissionState, AdmissionInv
<1> QED
  BY AdmissionInitial, <1>1, <1>2, PTL DEF AdmissionSpec

-----------------------------------------------------------------------------
(* RegexCache: the keys.                                                   *)

\* What a text looks like that has x between u and v.
Parted(text, u, x, v) ==
    /\ Len(text) = Len(u) + 1 + Len(v) /\ Len(u) \in Nat /\ Len(v) \in Nat
    /\ \A i \in 1..Len(u) : text[i] = u[i]
    /\ text[Len(u) + 1] = x
    /\ \A i \in 1..Len(v) : text[Len(u) + 1 + i] = v[i]

LEMMA PartedText ==
    ASSUME NEW S, NEW x \in S, NEW u \in Seq(S), NEW v \in Seq(S)
    PROVE  Parted((u \o <<x>>) \o v, u, x, v)
<1>1. <<x>> \in Seq(S) /\ Len(<<x>>) = 1 /\ <<x>>[1] = x
  OBVIOUS
<1>2. /\ u \o <<x>> \in Seq(S) /\ Len(u \o <<x>>) = Len(u) + 1 /\ Len(u) \in Nat /\ Len(v) \in Nat
      /\ \A i \in 1..(Len(u) + 1) : (u \o <<x>>)[i] = IF i <= Len(u) THEN u[i] ELSE <<x>>[i - Len(u)]
  BY <1>1, ConcatProperties, LenProperties
<1>3. /\ Len((u \o <<x>>) \o v) = Len(u) + 1 + Len(v)
      /\ \A i \in 1..(Len(u) + 1 + Len(v)) :
            ((u \o <<x>>) \o v)[i] = IF i <= Len(u) + 1 THEN (u \o <<x>>)[i] ELSE v[i - (Len(u) + 1)]
  BY <1>2, ConcatProperties
<1>4. \A i \in 1..Len(u) : ((u \o <<x>>) \o v)[i] = u[i]
  BY <1>2, <1>3
<1>5. ((u \o <<x>>) \o v)[Len(u) + 1] = x
  BY <1>1, <1>2, <1>3
<1>6. ASSUME NEW i \in 1..Len(v) PROVE ((u \o <<x>>) \o v)[Len(u) + 1 + i] = v[i]
  <2>1. Len(u) + 1 + i \in 1..(Len(u) + 1 + Len(v)) /\ ~(Len(u) + 1 + i <= Len(u) + 1)
        /\ (Len(u) + 1 + i) - (Len(u) + 1) = i
    BY <1>2
  <2> QED
    BY <1>3, <2>1
<1> QED
  BY <1>2, <1>3, <1>4, <1>5, <1>6 DEF Parted

LEMMA NoLaterSeparator ==
    ASSUME NEW S, NEW x \in S, NEW u \in Seq(S), NEW v \in Seq(S), NEW w \in Seq(S), NEW y \in Seq(S),
           NEW text, Parted(text, u, x, v), Parted(text, w, x, y), x \notin ToSet(v)
    PROVE  Len(w) <= Len(u)
<1>1. /\ Len(u) + 1 + Len(v) = Len(w) + 1 + Len(y) /\ {Len(u), Len(v), Len(w), Len(y)} \subseteq Nat
      /\ text[Len(w) + 1] = x /\ \A i \in 1..Len(v) : text[Len(u) + 1 + i] = v[i]
  BY DEF Parted
<1>2. \A i \in 1..Len(v) : v[i] # x
  BY Elements
<1> SUFFICES ASSUME Len(u) < Len(w) PROVE FALSE
  BY <1>1
<1>3. Len(w) - Len(u) \in 1..Len(v) /\ Len(u) + 1 + (Len(w) - Len(u)) = Len(w) + 1
  BY <1>1
<1> QED
  BY <1>1, <1>2, <1>3

\* What stands before and behind the last separator of a text can be told.
LEMMA LastSeparator ==
    ASSUME NEW S, NEW x \in S, NEW p \in Seq(S), NEW q \in Seq(S), NEW r \in Seq(S), NEW t \in Seq(S),
           x \notin ToSet(q), x \notin ToSet(t),
           (p \o <<x>>) \o q = (r \o <<x>>) \o t
    PROVE  p = r /\ q = t
<1>1. PICK text : text = (p \o <<x>>) \o q
  OBVIOUS
<1>2. Parted(text, p, x, q)
  BY <1>1, PartedText
<1>3. Parted(text, r, x, t)
  <2>1. text = (r \o <<x>>) \o t
    BY <1>1
  <2> QED
    BY <2>1, PartedText
<1>4. Len(p) <= Len(r) /\ Len(r) <= Len(p)
  BY <1>2, <1>3, NoLaterSeparator
<1>5. Len(p) = Len(r) /\ Len(q) = Len(t)
  BY <1>2, <1>3, <1>4 DEF Parted
<1>6. (\A i \in 1..Len(p) : p[i] = r[i]) /\ \A i \in 1..Len(q) : q[i] = t[i]
  BY <1>2, <1>3, <1>5 DEF Parted
<1> QED
  BY <1>5, <1>6, SeqEqual

\* The options at the end of a key.
Flags(icase, invert) == (IF icase THEN <<"i">> ELSE << >>) \o (IF invert THEN <<"v">> ELSE << >>)

LEMMA PairConcat == ASSUME NEW S, NEW x \in S, NEW y \in S PROVE <<x>> \o <<y>> = <<x, y>>
<1>1. /\ <<x>> \in Seq(S) /\ <<y>> \in Seq(S) /\ <<x, y>> \in Seq(S)
      /\ Len(<<x>>) = 1 /\ Len(<<y>>) = 1 /\ Len(<<x, y>>) = 2
      /\ <<x>>[1] = x /\ <<y>>[1] = y /\ <<x, y>>[1] = x /\ <<x, y>>[2] = y
  OBVIOUS
<1>2. /\ <<x>> \o <<y>> \in Seq(S) /\ Len(<<x>> \o <<y>>) = 2
      /\ (<<x>> \o <<y>>)[1] = x /\ (<<x>> \o <<y>>)[2] = y
  BY <1>1, ConcatProperties
<1>3. \A i \in 1..2 : (<<x>> \o <<y>>)[i] = <<x, y>>[i]
  BY <1>1, <1>2
<1> QED
  BY <1>1, <1>2, <1>3, SeqEqual

LEMMA FlagsAre ==
    /\ Flags(TRUE, TRUE) = <<"i", "v">> /\ Flags(TRUE, FALSE) = <<"i">>
    /\ Flags(FALSE, TRUE) = <<"v">> /\ Flags(FALSE, FALSE) = << >>
<1>1. <<"i">> \in Seq(Characters) /\ <<"v">> \in Seq(Characters) /\ << >> \in Seq(Characters)
  BY TextAssumption
<1>2. <<"i">> \o <<"v">> = <<"i", "v">>
  BY TextAssumption, PairConcat
<1> QED
  BY <1>1, <1>2, ConcatEmptySeq DEF Flags

LEMMA FlagsTell ==
    ASSUME NEW a \in BOOLEAN, NEW b \in BOOLEAN, NEW c \in BOOLEAN, NEW d \in BOOLEAN,
           Flags(a, b) = Flags(c, d)
    PROVE  a = c /\ b = d
<1>1. /\ Flags(TRUE, TRUE) # Flags(TRUE, FALSE) /\ Flags(TRUE, TRUE) # Flags(FALSE, TRUE)
      /\ Flags(TRUE, TRUE) # Flags(FALSE, FALSE) /\ Flags(TRUE, FALSE) # Flags(FALSE, TRUE)
      /\ Flags(TRUE, FALSE) # Flags(FALSE, FALSE) /\ Flags(FALSE, TRUE) # Flags(FALSE, FALSE)
  <2>1. Len(<<"i", "v">>) = 2 /\ Len(<<"i">>) = 1 /\ Len(<<"v">>) = 1 /\ Len(<< >>) = 0
    OBVIOUS
  <2>2. <<"i">> # <<"v">>
    OBVIOUS
  <2>3. /\ <<"i", "v">> # <<"i">> /\ <<"i", "v">> # <<"v">> /\ <<"i", "v">> # << >>
        /\ <<"i">> # << >> /\ <<"v">> # << >>
    BY <2>1
  <2> QED
    BY <2>2, <2>3, FlagsAre
<1>2. (a = TRUE \/ a = FALSE) /\ (b = TRUE \/ b = FALSE) /\ (c = TRUE \/ c = FALSE) /\ (d = TRUE \/ d = FALSE)
  OBVIOUS
<1> QED
  BY <1>1, <1>2

LEMMA FlagsType ==
    ASSUME NEW a \in BOOLEAN, NEW b \in BOOLEAN
    PROVE  Flags(a, b) \in Seq(Characters) /\ "|" \notin ToSet(Flags(a, b))
<1>1. ASSUME NEW s \in Seq(Characters), \A i \in 1..Len(s) : s[i] # "|" PROVE "|" \notin ToSet(s)
  BY <1>1, Elements
<1>2. /\ <<"i", "v">> \in Seq(Characters) /\ <<"i">> \in Seq(Characters) /\ <<"v">> \in Seq(Characters)
      /\ << >> \in Seq(Characters)
  BY TextAssumption
<1>4. /\ \A i \in 1..Len(<<"i", "v">>) : <<"i", "v">>[i] # "|"
      /\ \A i \in 1..Len(<<"i">>) : <<"i">>[i] # "|"
      /\ \A i \in 1..Len(<<"v">>) : <<"v">>[i] # "|"
      /\ \A i \in 1..Len(<< >>) : << >>[i] # "|"
  OBVIOUS
<1>3. (a = TRUE \/ a = FALSE) /\ (b = TRUE \/ b = FALSE)
  OBVIOUS
<1> QED
  BY <1>1, <1>2, <1>3, <1>4, FlagsAre

\* A key, taken apart.
LEMMA KeyParts ==
    ASSUME NEW r \in Requests
    PROVE  /\ MakeCacheKey(r) = (((r.pattern \o <<"|">>) \o r.field) \o <<"|">>) \o Flags(r.icase, r.invert)
           /\ r.pattern \in Seq(Characters) /\ r.field \in Seq(Characters)
           /\ (r.pattern \o <<"|">>) \o r.field \in Seq(Characters)
           /\ r.icase \in BOOLEAN /\ r.invert \in BOOLEAN
<1>1. r.pattern \in Seq(Characters) /\ r.field \in Seq(Characters) /\ r.icase \in BOOLEAN /\ r.invert \in BOOLEAN
  BY TextAssumption DEF Requests
<1> DEFINE bar == <<"|">>
           start == (r.pattern \o bar) \o r.field
           i == IF r.icase THEN <<"i">> ELSE << >>
           v == IF r.invert THEN <<"v">> ELSE << >>
<1>2. i \in Seq(Characters) /\ v \in Seq(Characters) /\ bar \in Seq(Characters)
  BY TextAssumption
<1> HIDE DEF bar
<1>3. r.pattern \o bar \in Seq(Characters)
  BY <1>1, <1>2, ConcatProperties
<1>4. start \in Seq(Characters)
  BY <1>1, <1>3, ConcatProperties
<1>5. start \o bar \in Seq(Characters)
  BY <1>2, <1>4, ConcatProperties
<1>6. ((start \o bar) \o i) \o v = (start \o bar) \o (i \o v)
  <2> HIDE DEF start, i, v
  <2>1. PICK x \in Seq(Characters), y \in Seq(Characters), z \in Seq(Characters) :
            x = start \o bar /\ y = i /\ z = v
    BY <1>2, <1>5
  <2>2. (x \o y) \o z = x \o (y \o z)
    BY ConcatAssociative
  <2> QED
    BY <2>1, <2>2
<1>7. MakeCacheKey(r) = ((start \o bar) \o i) \o v /\ Flags(r.icase, r.invert) = i \o v
  BY DEF MakeCacheKey, Flags, bar
<1> HIDE DEF i, v
<1>8. MakeCacheKey(r) = (start \o bar) \o Flags(r.icase, r.invert)
  BY <1>6, <1>7
<1> QED
  BY <1>1, <1>4, <1>8 DEF bar

\* The last separator of a key.
LEMMA LastBar ==
    ASSUME NEW p \in Seq(Characters), NEW q \in Seq(Characters), NEW r \in Seq(Characters),
           NEW t \in Seq(Characters), "|" \notin ToSet(q), "|" \notin ToSet(t),
           (p \o <<"|">>) \o q = (r \o <<"|">>) \o t
    PROVE  p = r /\ q = t
<1>1. PICK x \in Characters : x = "|"
  BY TextAssumption
<1>2. x \notin ToSet(q) /\ x \notin ToSet(t) /\ (p \o <<x>>) \o q = (r \o <<x>>) \o t
  BY <1>1
<1> QED
  BY <1>2, LastSeparator

\* Requests whose field names hold no separator have different keys, unless they
\* differ in the tracking of statistics only.
LEMMA KeysTell ==
    ASSUME NEW a \in Requests, NEW b \in Requests, Separated(a), Separated(b),
           MakeCacheKey(a) = MakeCacheKey(b)
    PROVE  a.pattern = b.pattern /\ a.field = b.field /\ a.icase = b.icase /\ a.invert = b.invert
<1>1. "|" \notin ToSet(a.field) /\ "|" \notin ToSet(b.field)
  BY DEF Separated
<1>2. PICK p \in Seq(Characters), q \in Seq(Characters), f \in Seq(Characters), g \in Seq(Characters) :
         /\ p = (a.pattern \o <<"|">>) \o a.field /\ q = (b.pattern \o <<"|">>) \o b.field
         /\ f = Flags(a.icase, a.invert) /\ g = Flags(b.icase, b.invert)
         /\ "|" \notin ToSet(f) /\ "|" \notin ToSet(g)
  BY KeyParts, FlagsType
<1>3. (p \o <<"|">>) \o f = (q \o <<"|">>) \o g
  BY <1>2, KeyParts
<1>4. p = q /\ f = g
  <2>1. "|" \notin ToSet(f) /\ "|" \notin ToSet(g)
    BY <1>2
  <2> QED
    BY <1>3, <2>1, LastBar
<1>5. a.pattern = b.pattern /\ a.field = b.field
  <2>1. PICK s \in Seq(Characters), t \in Seq(Characters), v \in Seq(Characters), w \in Seq(Characters) :
           s = a.pattern /\ t = a.field /\ v = b.pattern /\ w = b.field
    BY KeyParts
  <2>2. (s \o <<"|">>) \o t = (v \o <<"|">>) \o w /\ "|" \notin ToSet(t) /\ "|" \notin ToSet(w)
    BY <1>1, <1>2, <1>4, <2>1
  <2>3. s = v /\ t = w
    BY <2>2, LastBar
  <2> QED
    BY <2>1, <2>3
<1> QED
  BY <1>2, <1>4, <1>5, KeyParts, FlagsTell

-----------------------------------------------------------------------------
(* RegexCache: the steps.                                                  *)

MadeFilters == [asked : Requests, matches : Nat, misses : Nat]

\* What is cached under a key was given to the caller that asked for it first,
\* with the key of what that one asked for.
CacheState ==
    /\ made \in Seq(MadeFilters)
    /\ \A i \in DOMAIN made : ~made[i].asked.track => made[i].matches = 0 /\ made[i].misses = 0
    /\ precompiled \in 0..Len(made)
    /\ {hits, cacheMisses, threw, cleared, cacheCalls} \subseteq Nat
    /\ \A g \in given : g[1] \in Requests /\ g[2] \in DOMAIN made
    /\ \A k \in DOMAIN cache : /\ cache[k] \in DOMAIN made
                               /\ <<made[cache[k]].asked, cache[k]>> \in given
                               /\ MakeCacheKey(made[cache[k]].asked) = k
    /\ CachedAsAsked
    /\ IsFiniteSet(DOMAIN cache) /\ MissesAddUp

LEMMA CacheInitial == CacheInit => CacheState
<1> SUFFICES ASSUME CacheInit PROVE CacheState
  OBVIOUS
<1>1. /\ made = << >> /\ cache = << >> /\ precompiled = 0 /\ hits = 0 /\ cacheMisses = 0
      /\ given = {} /\ threw = 0 /\ cleared = 0 /\ cacheCalls = 0
  BY DEF CacheInit
<1>2. made \in Seq(MadeFilters) /\ DOMAIN made = {} /\ DOMAIN cache = {} /\ Len(made) = 0
  BY <1>1
<1>3. IsFiniteSet(DOMAIN cache) /\ Cardinality(DOMAIN cache) = 0
  BY <1>2, FS_EmptySet
<1> QED
  BY <1>1, <1>2, <1>3 DEF CacheState, CachedAsAsked, MissesAddUp

\* The request of a filter that stands for another one, but for its tracking.
StandsFor(found, request) == [found EXCEPT !.track = request.track] = request

LEMMA AlikeStandsFor ==
    ASSUME NEW a \in Requests, NEW b \in Requests,
           a.pattern = b.pattern, a.field = b.field, a.icase = b.icase, a.invert = b.invert
    PROVE  StandsFor(a, b)
  BY DEF StandsFor, Requests

\* Filters that keep what they were asked for keep what was given.
LEMMA GivenKept ==
    ASSUME CacheState, \A i \in DOMAIN made : i \in DOMAIN made' /\ made'[i].asked = made[i].asked,
           given' = given
    PROVE  (\A g \in given' : g[1] \in Requests /\ g[2] \in DOMAIN made') /\ CachedAsAsked'
  BY DEF CacheState, CachedAsAsked, Separated

\* So do the entries of the cache.
LEMMA CacheKept ==
    ASSUME CacheState, \A i \in DOMAIN made : i \in DOMAIN made' /\ made'[i].asked = made[i].asked,
           cache' = cache, given \subseteq given'
    PROVE  \A k \in DOMAIN cache' : /\ cache'[k] \in DOMAIN made'
                                    /\ <<made'[cache'[k]].asked, cache'[k]>> \in given'
                                    /\ MakeCacheKey(made'[cache'[k]].asked) = k
  BY DEF CacheState

LEMMA GetCachedStep ==
    ASSUME CacheState, NEW r \in Requests, GetCached(r)
    PROVE  CacheState'
<1> DEFINE k == MakeCacheKey(r)
           i == cache[k]
<1>1. /\ k \in DOMAIN cache /\ hits' = hits + 1 /\ given' = given \cup {<<r, i>>} /\ cacheCalls' = cacheCalls + 1
      /\ UNCHANGED <<made, cache, precompiled, cacheMisses, threw, cleared>>
  BY DEF GetCached, CacheCall
<1>2. /\ i \in DOMAIN made /\ <<made[i].asked, i>> \in given /\ MakeCacheKey(made[i].asked) = k
      /\ made[i].asked \in Requests
  <2>1. i \in DOMAIN made /\ <<made[i].asked, i>> \in given /\ MakeCacheKey(made[i].asked) = k
    BY <1>1 DEF CacheState
  <2>2. made[i].asked \in Requests
    BY <2>1 DEF CacheState
  <2> QED
    BY <2>1, <2>2
<1>3. ASSUME \A g \in given' : Separated(g[1]) PROVE \A g \in given' : StandsFor(made[g[2]].asked, g[1])
  <2>1. \A g \in given : StandsFor(made[g[2]].asked, g[1])
    BY <1>1, <1>3 DEF CacheState, CachedAsAsked, StandsFor
  <2>2. Separated(r) /\ Separated(made[i].asked)
    <3>1. <<r, i>> \in given' /\ <<made[i].asked, i>> \in given'
      BY <1>1, <1>2
    <3> QED
      BY <1>3, <3>1
  <2>3. StandsFor(made[i].asked, r)
    BY <1>2, <2>2, KeysTell, AlikeStandsFor
  <2> QED
    BY <1>1, <2>1, <2>3
<1>4. CachedAsAsked'
  BY <1>1, <1>3 DEF CachedAsAsked, StandsFor, Separated
<1>5. \A g \in given' : g[1] \in Requests /\ g[2] \in DOMAIN made'
  BY <1>1, <1>2 DEF CacheState
<1>6. /\ made' \in Seq(MadeFilters) /\ precompiled' \in 0..Len(made')
      /\ {hits', cacheMisses', threw', cleared', cacheCalls'} \subseteq Nat
      /\ IsFiniteSet(DOMAIN cache') /\ MissesAddUp'
      /\ \A j \in DOMAIN made' : ~made'[j].asked.track => made'[j].matches = 0 /\ made'[j].misses = 0
  BY <1>1 DEF CacheState, MissesAddUp
<1>7. \A c \in DOMAIN cache' : /\ cache'[c] \in DOMAIN made'
                               /\ <<made'[cache'[c]].asked, cache'[c]>> \in given'
                               /\ MakeCacheKey(made'[cache'[c]].asked) = c
  BY <1>1, CacheKept
<1> QED
  BY <1>4, <1>5, <1>6, <1>7 DEF CacheState

\* A filter made: one more at the end.
LEMMA FilterMade ==
    ASSUME CacheState, NEW r \in Requests, made' = Append(made, Filter(r))
    PROVE  /\ made' \in Seq(MadeFilters) /\ Len(made) \in Nat /\ Len(made') = Len(made) + 1
           /\ Len(made') \in DOMAIN made' /\ made'[Len(made')].asked = r
           /\ \A i \in DOMAIN made : i \in DOMAIN made' /\ made'[i].asked = made[i].asked
           /\ \A i \in DOMAIN made' : ~made'[i].asked.track => made'[i].matches = 0 /\ made'[i].misses = 0
           /\ precompiled \in 0..Len(made')
<1>1. Filter(r) \in MadeFilters /\ Filter(r).asked = r /\ Filter(r).matches = 0 /\ Filter(r).misses = 0
  BY DEF Filter, MadeFilters
<1>2. made \in Seq(MadeFilters) /\ Len(made) \in Nat /\ DOMAIN made = 1..Len(made) /\ precompiled \in 0..Len(made)
      /\ \A i \in DOMAIN made : ~made[i].asked.track => made[i].matches = 0 /\ made[i].misses = 0
  BY LenProperties DEF CacheState
<1>3. /\ made' \in Seq(MadeFilters) /\ Len(made') = Len(made) + 1
      /\ \A i \in 1..Len(made) : made'[i] = made[i]
      /\ made'[Len(made) + 1] = Filter(r)
  BY <1>1, <1>2, AppendProperties
<1>4. DOMAIN made' = 1..Len(made') /\ Len(made') \in DOMAIN made' /\ made'[Len(made')].asked = r
  BY <1>1, <1>2, <1>3, LenProperties
<1>5. \A i \in DOMAIN made' : i \in DOMAIN made \/ i = Len(made')
  BY <1>2, <1>3, <1>4
<1>6. \A i \in DOMAIN made' : ~made'[i].asked.track => made'[i].matches = 0 /\ made'[i].misses = 0
  BY <1>1, <1>2, <1>3, <1>5
<1>7. \A i \in DOMAIN made : i \in DOMAIN made' /\ made'[i].asked = made[i].asked
  BY <1>2, <1>3, <1>4
<1> QED
  BY <1>2, <1>3, <1>4, <1>6, <1>7

LEMMA CreateFilterStep ==
    ASSUME CacheState, NEW r \in Requests, CreateFilter(r)
    PROVE  CacheState'
<1> DEFINE k == MakeCacheKey(r)
<1>1. /\ k \notin DOMAIN cache /\ cacheMisses' = cacheMisses + 1 /\ cacheCalls' = cacheCalls + 1
      /\ UNCHANGED <<precompiled, hits, cleared>>
  BY DEF CreateFilter, CacheCall, Missed
<1>2. /\ {hits, cacheMisses, threw, cleared, cacheCalls} \subseteq Nat /\ Cardinality(DOMAIN cache) \in Nat
      /\ IsFiniteSet(DOMAIN cache) /\ cacheMisses = Cardinality(DOMAIN cache) + cleared + threw
  BY FS_CardinalityType DEF CacheState, MissesAddUp
<1>3. CASE threw' = threw + 1 /\ UNCHANGED <<made, cache, given>>
  <2>1. /\ {hits', cacheMisses', threw', cleared', cacheCalls'} \subseteq Nat /\ MissesAddUp'
    BY <1>1, <1>2, <1>3 DEF MissesAddUp
  <2>2. (\A g \in given' : g[1] \in Requests /\ g[2] \in DOMAIN made') /\ CachedAsAsked'
    BY <1>3, GivenKept
  <2> QED
    BY <1>1, <1>3, <2>1, <2>2 DEF CacheState
<1>4. CASE ~(threw' = threw + 1 /\ UNCHANGED <<made, cache, given>>)
  <2>1. /\ made' = Append(made, Filter(r)) /\ threw' = threw
        /\ cache' = [c \in DOMAIN cache \cup {k} |-> IF c = k THEN Len(made') ELSE cache[c]]
        /\ given' = given \cup {<<r, Len(made')>>}
    BY <1>4 DEF CreateFilter
  <2>2. /\ made' \in Seq(MadeFilters) /\ Len(made') \in DOMAIN made' /\ made'[Len(made')].asked = r
        /\ \A i \in DOMAIN made : i \in DOMAIN made' /\ made'[i].asked = made[i].asked
        /\ \A i \in DOMAIN made' : ~made'[i].asked.track => made'[i].matches = 0 /\ made'[i].misses = 0
        /\ precompiled \in 0..Len(made')
    BY <2>1, FilterMade
  <2>3. /\ DOMAIN cache' = DOMAIN cache \cup {k} /\ IsFiniteSet(DOMAIN cache')
        /\ Cardinality(DOMAIN cache') = Cardinality(DOMAIN cache) + 1
    BY <1>1, <1>2, <2>1, FS_AddElement
  <2>4. {hits', cacheMisses', threw', cleared', cacheCalls'} \subseteq Nat /\ MissesAddUp'
    <3>1. threw' = threw
      BY <2>1
    <3>2. PICK n \in Nat, m \in Nat :
             n = Cardinality(DOMAIN cache) /\ m = Cardinality(DOMAIN cache') /\ m = n + 1
      BY <1>2, <2>3
    <3>3. {hits', cacheMisses', threw', cleared', cacheCalls'} \subseteq Nat /\ cacheMisses' = m + cleared' + threw'
      BY <1>1, <1>2, <3>1, <3>2
    <3> QED
      BY <3>2, <3>3 DEF MissesAddUp
  <2>5. ASSUME NEW c \in DOMAIN cache'
        PROVE  /\ cache'[c] \in DOMAIN made' /\ <<made'[cache'[c]].asked, cache'[c]>> \in given'
               /\ MakeCacheKey(made'[cache'[c]].asked) = c
    <3>1. CASE c = k
      BY <2>1, <2>2, <3>1
    <3>2. CASE c # k
      <4>1. c \in DOMAIN cache /\ cache'[c] = cache[c]
        BY <2>1, <3>2
      <4>2. /\ cache[c] \in DOMAIN made /\ <<made[cache[c]].asked, cache[c]>> \in given
            /\ MakeCacheKey(made[cache[c]].asked) = c
        BY <4>1 DEF CacheState
      <4> QED
        BY <2>1, <2>2, <4>1, <4>2
    <3> QED
      BY <3>1, <3>2
  <2>6. \A g \in given' : g[1] \in Requests /\ g[2] \in DOMAIN made'
    BY <2>1, <2>2 DEF CacheState
  <2>7. ASSUME \A g \in given' : Separated(g[1]) PROVE \A g \in given' : StandsFor(made'[g[2]].asked, g[1])
    <3>1. \A g \in given : StandsFor(made[g[2]].asked, g[1]) /\ g[2] \in DOMAIN made
      BY <2>1, <2>7 DEF CacheState, CachedAsAsked, StandsFor
    <3>2. StandsFor(r, r)
      BY AlikeStandsFor
    <3> QED
      BY <2>1, <2>2, <3>1, <3>2
  <2>8. CachedAsAsked'
    BY <2>7 DEF CachedAsAsked, StandsFor, Separated
  <2> QED
    BY <1>1, <2>2, <2>3, <2>4, <2>5, <2>6, <2>8 DEF CacheState
<1> QED
  BY <1>3, <1>4

LEMMA PrecompileStep ==
    ASSUME CacheState, NEW r \in Requests, Precompile(r)
    PROVE  CacheState'
<1>1. /\ made' = Append(made, Filter(r)) /\ precompiled' = Len(made') /\ cacheCalls' = cacheCalls + 1
      /\ UNCHANGED <<cache, hits, cacheMisses, given, threw, cleared>>
  BY DEF Precompile, CacheCall
<1>2. /\ made' \in Seq(MadeFilters) /\ Len(made) \in Nat /\ Len(made') = Len(made) + 1
      /\ \A i \in DOMAIN made : i \in DOMAIN made' /\ made'[i].asked = made[i].asked
      /\ \A i \in DOMAIN made' : ~made'[i].asked.track => made'[i].matches = 0 /\ made'[i].misses = 0
  BY <1>1, FilterMade
<1>3. /\ precompiled' \in 0..Len(made') /\ {hits', cacheMisses', threw', cleared', cacheCalls'} \subseteq Nat
      /\ IsFiniteSet(DOMAIN cache') /\ MissesAddUp'
  <2>1. precompiled' \in 0..Len(made')
    BY <1>1, <1>2
  <2>2. {hits', cacheMisses', threw', cleared', cacheCalls'} \subseteq Nat
    BY <1>1 DEF CacheState
  <2>3. IsFiniteSet(DOMAIN cache') /\ MissesAddUp'
    BY <1>1 DEF CacheState, MissesAddUp
  <2> QED
    BY <2>1, <2>2, <2>3
<1>4. (\A g \in given' : g[1] \in Requests /\ g[2] \in DOMAIN made') /\ CachedAsAsked'
  BY <1>1, <1>2, GivenKept
<1>5. \A k \in DOMAIN cache' : /\ cache'[k] \in DOMAIN made'
                               /\ <<made'[cache'[k]].asked, cache'[k]>> \in given'
                               /\ MakeCacheKey(made'[cache'[k]].asked) = k
  BY <1>1, <1>2, CacheKept
<1> QED
  BY <1>2, <1>3, <1>4, <1>5 DEF CacheState

LEMMA ClearCacheStep ==
    ASSUME CacheState, ClearCache
    PROVE  CacheState'
<1>1. /\ cleared' = cleared + Cardinality(DOMAIN cache) /\ cache' = << >> /\ cacheCalls' = cacheCalls + 1
      /\ UNCHANGED <<made, precompiled, hits, cacheMisses, given, threw>>
  BY DEF ClearCache, CacheCall
<1>2. DOMAIN cache' = {} /\ IsFiniteSet(DOMAIN cache') /\ Cardinality(DOMAIN cache') = 0
  <2>1. DOMAIN cache' = {}
    BY <1>1
  <2> QED
    BY <2>1, FS_EmptySet
<1>3. PICK n \in Nat : n = Cardinality(DOMAIN cache)
  BY FS_CardinalityType DEF CacheState
<1>4. {hits', cacheMisses', threw', cleared', cacheCalls'} \subseteq Nat /\ MissesAddUp'
  <2>1. /\ {hits, cacheMisses, threw, cleared, cacheCalls} \subseteq Nat /\ cacheMisses = n + cleared + threw
        /\ cleared' = cleared + n
    BY <1>1, <1>3 DEF CacheState, MissesAddUp
  <2>2. hits' = hits /\ cacheMisses' = cacheMisses /\ threw' = threw /\ cacheCalls' = cacheCalls + 1
    BY <1>1
  <2>3. {hits', cacheMisses', threw', cleared', cacheCalls'} \subseteq Nat /\ cacheMisses' = 0 + cleared' + threw'
    BY <2>1, <2>2
  <2> QED
    BY <1>2, <2>3 DEF MissesAddUp
<1>5. (\A g \in given' : g[1] \in Requests /\ g[2] \in DOMAIN made') /\ CachedAsAsked'
  BY <1>1, GivenKept
<1> QED
  BY <1>1, <1>2, <1>4, <1>5 DEF CacheState

LEMMA CountedFilter ==
    ASSUME NEW f \in MadeFilters
    PROVE  /\ [f EXCEPT !.matches = f.matches + 1, !.misses = f.misses] \in MadeFilters
           /\ [f EXCEPT !.matches = f.matches, !.misses = f.misses + 1] \in MadeFilters
           /\ [f EXCEPT !.matches = f.matches + 1, !.misses = f.misses].asked = f.asked
           /\ [f EXCEPT !.matches = f.matches, !.misses = f.misses + 1].asked = f.asked
<1>1. f.matches + 1 \in Nat /\ f.misses + 1 \in Nat /\ f.matches \in Nat /\ f.misses \in Nat
  BY DEF MadeFilters
<1> QED
  BY <1>1 DEF MadeFilters

LEMMA StatsStep ==
    ASSUME CacheState, NEW i \in DOMAIN made,
           ResetStats(i) \/ \E matched \in BOOLEAN : UpdateStats(i, matched)
    PROVE  CacheState'
<1>1. made \in Seq(MadeFilters) /\ DOMAIN made = 1..Len(made) /\ made[i] \in MadeFilters /\ i \in 1..Len(made)
  <2>1. made \in Seq(MadeFilters)
    BY DEF CacheState
  <2> QED
    BY <2>1, LenProperties
<1>2. PICK f \in MadeFilters :
         /\ made' = [made EXCEPT ![i] = f] /\ f.asked = made[i].asked
         /\ ~f.asked.track => f.matches = 0 /\ f.misses = 0
  <2>1. CASE ResetStats(i)
    <3>1. PICK f : f = [made[i] EXCEPT !.matches = 0, !.misses = 0]
      OBVIOUS
    <3>2. made' = [made EXCEPT ![i] = f]
      BY <1>1, <2>1, <3>1 DEF ResetStats
    <3>3. f \in MadeFilters /\ f.asked = made[i].asked /\ f.matches = 0 /\ f.misses = 0
      BY <1>1, <3>1 DEF MadeFilters
    <3> QED
      BY <3>2, <3>3
  <2>2. ASSUME NEW matched \in BOOLEAN, UpdateStats(i, matched)
        PROVE  \E f \in MadeFilters : /\ made' = [made EXCEPT ![i] = f] /\ f.asked = made[i].asked
                                      /\ ~f.asked.track => f.matches = 0 /\ f.misses = 0
    <3>1. PICK f : f = [made[i] EXCEPT !.matches = IF matched THEN @ + 1 ELSE @,
                                       !.misses = IF matched THEN @ ELSE @ + 1]
      OBVIOUS
    <3>2. made' = [made EXCEPT ![i] = f] /\ made[i].asked.track
      BY <1>1, <2>2, <3>1 DEF UpdateStats, Tracks
    <3>3. f \in MadeFilters /\ f.asked = made[i].asked
      <4>1. CASE matched
        BY <1>1, <3>1, <4>1, CountedFilter
      <4>2. CASE ~matched
        BY <1>1, <3>1, <4>2, CountedFilter
      <4> QED
        BY <4>1, <4>2
    <3> QED
      BY <3>2, <3>3
  <2> QED
    BY <2>1, <2>2
<1>3. /\ made' \in Seq(MadeFilters) /\ Len(made') = Len(made) /\ DOMAIN made' = DOMAIN made
      /\ \A j \in DOMAIN made : made'[j] = IF j = i THEN f ELSE made[j]
  BY <1>1, <1>2, ExceptSeq, LenProperties
<1>4. /\ cacheCalls' = cacheCalls + 1
      /\ UNCHANGED <<cache, precompiled, hits, cacheMisses, given, threw, cleared>>
  BY DEF ResetStats, UpdateStats, CacheCall
<1>5. /\ \A j \in DOMAIN made : j \in DOMAIN made' /\ made'[j].asked = made[j].asked
      /\ \A j \in DOMAIN made' : ~made'[j].asked.track => made'[j].matches = 0 /\ made'[j].misses = 0
  BY <1>2, <1>3 DEF CacheState
<1>6. /\ precompiled' \in 0..Len(made') /\ {hits', cacheMisses', threw', cleared', cacheCalls'} \subseteq Nat
      /\ IsFiniteSet(DOMAIN cache') /\ MissesAddUp'
  <2>1. precompiled' \in 0..Len(made')
    BY <1>3, <1>4 DEF CacheState
  <2>2. {hits', cacheMisses', threw', cleared', cacheCalls'} \subseteq Nat
    BY <1>4 DEF CacheState
  <2>3. IsFiniteSet(DOMAIN cache') /\ MissesAddUp'
    BY <1>4 DEF CacheState, MissesAddUp
  <2> QED
    BY <2>1, <2>2, <2>3
<1>7. (\A g \in given' : g[1] \in Requests /\ g[2] \in DOMAIN made') /\ CachedAsAsked'
  BY <1>4, <1>5, GivenKept
<1>8. \A k \in DOMAIN cache' : /\ cache'[k] \in DOMAIN made'
                               /\ <<made'[cache'[k]].asked, cache'[k]>> \in given'
                               /\ MakeCacheKey(made'[cache'[k]].asked) = k
  BY <1>4, <1>5, CacheKept
<1> QED
  BY <1>3, <1>5, <1>6, <1>7, <1>8 DEF CacheState

\* For every set of requests: a cached filter is one of the pattern, field and
\* options asked for unless a field name holds the separator of the keys, and
\* every miss is accounted for.
THEOREM CacheCorrect == CacheSpec => []CacheInv
<1>1. ASSUME CacheState, [CacheNext]_cacheVars PROVE CacheState'
  <2>1. CASE UNCHANGED cacheVars
    BY <1>1, <2>1 DEF cacheVars, CacheState, CachedAsAsked, Separated, MissesAddUp
  <2> QED
    BY <1>1, <2>1, GetCachedStep, CreateFilterStep, PrecompileStep, ClearCacheStep, StatsStep DEF CacheNext
<1>2. ASSUME CacheState PROVE CacheInv
  <2>1. ASSUME NEW i \in DOMAIN made PROVE made[i].asked \in Requests /\ {made[i].matches, made[i].misses} \subseteq Nat
    <3>1. made[i] \in MadeFilters
      BY <1>2, LenProperties DEF CacheState
    <3> QED
      BY <3>1 DEF MadeFilters
  <2>2. Range(cache) \subseteq DOMAIN made
    BY <1>2 DEF CacheState, Range
  <2> QED
    BY <1>2, <2>1, <2>2 DEF CacheState, CacheInv, CacheTypeOK
<1> QED
  BY CacheInitial, <1>1, <1>2, PTL DEF CacheSpec

-----------------------------------------------------------------------------
(* ScopedContext: lists of keys.                                           *)

\* A set of numbers has a least one.
LEMMA LeastNumber == ASSUME NEW T, T \subseteq Nat, T # {} PROVE Min(T) \in T
<1>1. PICK x \in T : \A y \in T : ~(<<y, x>> \in OpToRel(<, Nat))
  BY NatLessThanWellFounded, WFMin
<1>2. OpToRel(<, Nat) = {ss \in Nat \X Nat : ss[1] < ss[2]}
  BY DEF OpToRel
<1>3. \A y \in T : ~(<<y, x>> \in {ss \in Nat \X Nat : ss[1] < ss[2]})
  BY <1>1, <1>2
<1>4. ASSUME NEW y \in T PROVE x <= y
  <2>1. <<y, x>> \in Nat \X Nat /\ <<y, x>>[1] = y /\ <<y, x>>[2] = x
    OBVIOUS
  <2>2. ~(y < x)
    BY <1>3, <2>1
  <2> QED
    BY <2>2
<1> QED
  BY <1>4 DEF Min

LEMMA RangeIsToSet == ASSUME NEW S, NEW s \in Seq(S) PROVE ToSet(s) = Range(s)
  BY LenProperties DEF Range, ToSet

\* What RemoveFirst leaves: all but, perhaps, the element removed.
LEMMA RemoveFirstKeeps ==
    ASSUME NEW S, NEW s \in Seq(S), NEW e
    PROVE  /\ RemoveFirst(s, e) \in Seq(S)
           /\ Range(RemoveFirst(s, e)) \subseteq Range(s)
           /\ Range(s) \ {e} \subseteq Range(RemoveFirst(s, e))
<1>1. Len(s) \in Nat /\ DOMAIN s = 1..Len(s) /\ \A i \in 1..Len(s) : s[i] \in S
  BY LenProperties, ElementOfSeq
<1>2. CASE ~\E i \in 1..Len(s) : s[i] = e
  <2>1. RemoveFirst(s, e) = s
    BY <1>2 DEF RemoveFirst
  <2> QED
    BY <2>1
<1>3. CASE \E i \in 1..Len(s) : s[i] = e
  <2> DEFINE I == {i \in 1..Len(s) : s[i] = e}
  <2>1. Min(I) \in I
    <3>1. I \subseteq Nat /\ I # {}
      BY <1>1, <1>3
    <3> HIDE DEF I
    <3> QED
      BY <3>1, LeastNumber
  <2>2. PICK n \in 1..Len(s) : n = Min(I) /\ s[n] = e
    BY <2>1
  <2>3. SelectInSeq(s, LAMBDA v : v = e) = Min(I)
    BY <1>3 DEF SelectInSeq
  <2>4. RemoveFirst(s, e) = SubSeq(s, 1, n - 1) \o SubSeq(s, n + 1, Len(s))
    BY <1>3, <2>2, <2>3 DEF RemoveFirst, RemoveAt
  <2> DEFINE a == SubSeq(s, 1, n - 1)
             b == SubSeq(s, n + 1, Len(s))
  <2>5. /\ a \in Seq(S) /\ Len(a) = n - 1 /\ \A i \in 1..(n - 1) : a[i] = s[i]
        /\ b \in Seq(S) /\ Len(b) = Len(s) - n /\ \A i \in 1..(Len(s) - n) : b[i] = s[n + i]
    <3>1. /\ a \in Seq(S) /\ Len(a) = IF 1 <= n - 1 THEN (n - 1) - 1 + 1 ELSE 0
          /\ \A i \in 1..((n - 1) - 1 + 1) : a[i] = s[1 + i - 1]
      <4>1. 1 \in Int /\ n - 1 \in Int /\ \A i \in 1..(n - 1) : s[i] \in S
        BY <1>1
      <4> QED
        BY <4>1, SubSeqProperties
    <3>2. /\ b \in Seq(S) /\ Len(b) = IF n + 1 <= Len(s) THEN Len(s) - (n + 1) + 1 ELSE 0
          /\ \A i \in 1..(Len(s) - (n + 1) + 1) : b[i] = s[n + 1 + i - 1]
      <4>1. n + 1 \in Int /\ Len(s) \in Int /\ \A i \in (n + 1)..Len(s) : s[i] \in S
        BY <1>1
      <4> QED
        BY <4>1, SubSeqProperties
    <3>3. Len(a) = n - 1 /\ Len(b) = Len(s) - n
      <4>1. Len(a) = IF 1 <= n - 1 THEN (n - 1) - 1 + 1 ELSE 0
        BY <3>1
      <4>2. Len(b) = IF n + 1 <= Len(s) THEN Len(s) - (n + 1) + 1 ELSE 0
        BY <3>2
      <4>3. Len(s) \in Nat /\ n \in Nat /\ 1 <= n /\ n <= Len(s)
        BY <1>1, <2>2
      <4> DEFINE p == Len(a)
                 q == Len(b)
                 l == Len(s)
      <4> HIDE DEF p, q, l
      <4>4. p = (IF 1 <= n - 1 THEN (n - 1) - 1 + 1 ELSE 0)
        BY <4>1 DEF p
      <4>5. q = (IF n + 1 <= l THEN l - (n + 1) + 1 ELSE 0)
        BY <4>2 DEF q, l
      <4>6. l \in Nat /\ n \in Nat /\ 1 <= n /\ n <= l
        BY <4>3 DEF l
      <4>7. p = n - 1
        BY <4>4, <4>6
      <4>8. q = l - n
        BY <4>5, <4>6
      <4> QED
        BY <4>7, <4>8 DEF p, q, l
    <3>4. ASSUME NEW i \in 1..(n - 1) PROVE a[i] = s[i]
      <4>1. i \in 1..((n - 1) - 1 + 1) /\ 1 + i - 1 = i
        BY <1>1
      <4> QED
        BY <3>1, <4>1
    <3>5. ASSUME NEW i \in 1..(Len(s) - n) PROVE b[i] = s[n + i]
      <4>1. i \in 1..(Len(s) - (n + 1) + 1) /\ n + 1 + i - 1 = n + i
        BY <1>1
      <4> QED
        BY <3>2, <4>1
    <3> QED
      BY <3>1, <3>2, <3>3, <3>4, <3>5
  <2>6. Range(a \o b) = Range(a) \cup Range(b) /\ a \o b \in Seq(S)
    <3>1. PICK t \in Seq(S), u \in Seq(S) : t = a /\ u = b
      BY <2>5
    <3>2. t \o u \in Seq(S) /\ ToSet(t \o u) = ToSet(t) \cup ToSet(u)
      BY ElementsOfConcat
    <3>3. ToSet(t) = Range(t) /\ ToSet(u) = Range(u) /\ ToSet(t \o u) = Range(t \o u)
      BY <3>2, RangeIsToSet
    <3> QED
      BY <3>1, <3>2, <3>3
  <2>7. Range(a) = {s[i] : i \in 1..(n - 1)} /\ Range(b) = {s[n + i] : i \in 1..(Len(s) - n)}
    <3>1. DOMAIN a = 1..(n - 1) /\ DOMAIN b = 1..(Len(s) - n)
      <4> HIDE DEF a, b
      <4> QED
        BY <2>5, LenProperties
    <3>2. (\A i \in 1..(n - 1) : a[i] = s[i]) /\ (\A i \in 1..(Len(s) - n) : b[i] = s[n + i])
      BY <2>5
    <3> HIDE DEF a, b
    <3>3. Range(a) = {s[i] : i \in 1..(n - 1)}
      BY <3>1, <3>2 DEF Range
    <3>4. Range(b) = {s[n + i] : i \in 1..(Len(s) - n)}
      BY <3>1, <3>2 DEF Range
    <3> QED
      BY <3>3, <3>4
  <2>8. \A i \in 1..Len(s) : i \in 1..(n - 1) \/ i = n \/ (i - n \in 1..(Len(s) - n) /\ n + (i - n) = i)
    BY <1>1
  <2>9. Range(s) \ {e} \subseteq Range(a) \cup Range(b)
    <3> SUFFICES ASSUME NEW i \in 1..Len(s), s[i] # e PROVE s[i] \in Range(a) \cup Range(b)
      BY <1>1 DEF Range
    <3>1. i # n
      BY <2>2
    <3>2. i \in 1..(n - 1) \/ (i - n \in 1..(Len(s) - n) /\ n + (i - n) = i)
      BY <2>8, <3>1
    <3> QED
      BY <2>7, <3>2
  <2>10. Range(a) \cup Range(b) \subseteq Range(s)
    <3>1. \A i \in 1..(n - 1) : i \in 1..Len(s)
      BY <1>1
    <3>2. \A i \in 1..(Len(s) - n) : n + i \in 1..Len(s)
      BY <1>1
    <3> QED
      BY <1>1, <2>7, <3>1, <3>2 DEF Range
  <2> QED
    BY <2>4, <2>6, <2>9, <2>10
<1> QED
  BY <1>2, <1>3

\* A function on the first n numbers is a sequence.
LEMMA FunctionSeq ==
    ASSUME NEW S, NEW n \in Nat, NEW f \in [1..n -> S]
    PROVE  f \in Seq(S) /\ Len(f) = n
<1>1. f \in Seq(S)
  BY SeqDef
<1>2. DOMAIN f = 1..n /\ Len(f) \in Nat /\ DOMAIN f = 1..Len(f)
  BY <1>1, LenProperties
<1> QED
  BY <1>1, <1>2

-----------------------------------------------------------------------------
(* ScopedContext: nothing leaks from a scope, and an undisturbed one gives  *)
(* the keys back, those that it did not set with their values.              *)

ScopeRecords == [added : Seq(Keys), found : SomeContexts, set : SUBSET Keys, alone : BOOLEAN]

\* What holds of the scopes ss while the context has the keys of C and D are
\* those set directly: a scope that is alone knows where each key comes from,
\* and no key is on two lists within it.
ScopesKnow(ss, C) ==
    \A i \in 1..Len(ss) : ss[i].alone =>
        /\ \A k \in Keys : k \in C <=> \/ k \in DOMAIN ss[i].found
                                       \/ \E j \in i..Len(ss) : k \in Range(ss[j].added)
        /\ \A j \in i..Len(ss) : \A k \in Range(ss[j].added) :
               /\ k \notin DOMAIN ss[i].found
               /\ \A m \in i..Len(ss) : m # j => k \notin Range(ss[m].added)

\* The keys that such a scope found and nobody set again have their values in c.
ValuesKnown(ss, c) ==
    \A i \in 1..Len(ss) : ss[i].alone =>
        \A k \in DOMAIN ss[i].found \ ss[i].set : c[k] = ss[i].found[k]

KeysKnown(ss, C, D) ==
    \A k \in C : k \in D \/ \E i \in 1..Len(ss) : k \in Range(ss[i].added)

ScopeInv ==
    /\ DOMAIN context \subseteq Keys /\ \A k \in DOMAIN context : context[k] \in Values
    /\ context = [k \in DOMAIN context |-> context[k]]
    /\ direct \subseteq DOMAIN context /\ contextCalls \in Nat
    /\ scopes \in Seq(ScopeRecords)
    /\ KeysKnown(scopes, DOMAIN context, direct)
    /\ ScopesKnow(scopes, DOMAIN context)
    /\ ValuesKnown(scopes, context)

LEMMA ContextDomains ==
    /\ \A c \in SomeContexts : DOMAIN c \subseteq Keys
    /\ \A c : /\ DOMAIN c \subseteq Keys /\ \A k \in DOMAIN c : c[k] \in Values
             /\ c = [k \in DOMAIN c |-> c[k]]
             => c \in SomeContexts
<1>1. \A c \in SomeContexts : DOMAIN c \subseteq Keys
  BY DEF SomeContexts
<1>2. ASSUME NEW c, DOMAIN c \subseteq Keys, \A k \in DOMAIN c : c[k] \in Values,
             c = [k \in DOMAIN c |-> c[k]]
      PROVE  c \in SomeContexts
  <2>1. c \in [DOMAIN c -> Values]
    BY <1>2
  <2> QED
    BY <1>2, <2>1 DEF SomeContexts
<1> QED
  BY <1>1, <1>2

LEMMA ScopeFields ==
    ASSUME NEW ss \in Seq(ScopeRecords)
    PROVE  /\ Len(ss) \in Nat /\ DOMAIN ss = 1..Len(ss)
           /\ \A i \in 1..Len(ss) : /\ ss[i] \in ScopeRecords /\ ss[i].added \in Seq(Keys)
                                    /\ DOMAIN ss[i].found \subseteq Keys
                                    /\ ss[i].found \in SomeContexts /\ ss[i].set \subseteq Keys
                                    /\ ss[i].alone \in BOOLEAN
                                    /\ Range(ss[i].added) \subseteq Keys
<1>1. Len(ss) \in Nat /\ DOMAIN ss = 1..Len(ss) /\ \A i \in 1..Len(ss) : ss[i] \in ScopeRecords
  BY LenProperties, ElementOfSeq
<1>2. ASSUME NEW i \in 1..Len(ss)
      PROVE  /\ ss[i].added \in Seq(Keys) /\ DOMAIN ss[i].found \subseteq Keys
             /\ ss[i].found \in SomeContexts /\ ss[i].set \subseteq Keys
             /\ ss[i].alone \in BOOLEAN
  <2>1. ss[i] \in ScopeRecords
    BY <1>1
  <2>2. /\ ss[i].added \in Seq(Keys) /\ ss[i].found \in SomeContexts
        /\ ss[i].set \subseteq Keys /\ ss[i].alone \in BOOLEAN
    BY <2>1 DEF ScopeRecords
  <2> QED
    BY <2>2, ContextDomains
<1>3. ASSUME NEW t \in Seq(Keys) PROVE Range(t) \subseteq Keys
  BY LenProperties, ElementOfSeq DEF Range
<1> QED
  BY <1>1, <1>2, <1>3

LEMMA ScopeInvTypes == ScopeInv => ContextTypeOK /\ NoKeyLeaks
<1> SUFFICES ASSUME ScopeInv PROVE ContextTypeOK /\ NoKeyLeaks
  OBVIOUS
<1>1. /\ DOMAIN scopes = 1..Len(scopes)
      /\ \A i \in 1..Len(scopes) : /\ Range(scopes[i].added) \subseteq Keys
                                   /\ scopes[i].found \in SomeContexts
                                   /\ scopes[i].set \subseteq Keys /\ scopes[i].alone \in BOOLEAN
  BY ScopeFields DEF ScopeInv
<1>2. ContextTypeOK
  <2>1. context \in SomeContexts
    BY ContextDomains DEF ScopeInv
  <2> QED
    BY <1>1, <2>1 DEF ScopeInv, ContextTypeOK
<1>3. NoKeyLeaks
  BY <1>1 DEF ScopeInv, KeysKnown, NoKeyLeaks
<1> QED
  BY <1>2, <1>3

LEMMA ContextInitial == ContextInit => ScopeInv
<1> SUFFICES ASSUME ContextInit PROVE ScopeInv
  OBVIOUS
<1>1. DOMAIN context = {} /\ scopes = <<>> /\ Len(scopes) = 0
  BY EmptySeq DEF ContextInit, NoContext
<1>4. context = [k \in DOMAIN context |-> context[k]]
  BY DEF ContextInit, NoContext
<1>2. scopes \in Seq(ScopeRecords)
  BY <1>1, EmptySeq
<1>3. 1..Len(scopes) = {}
  BY <1>1
<1> QED
  BY <1>1, <1>2, <1>3, <1>4 DEF ContextInit, ScopeInv, KeysKnown, ScopesKnow, ValuesKnown

\* Touching the scopes changes no list.
LEMMA TouchedScopes ==
    ASSUME NEW ss \in Seq(ScopeRecords)
    PROVE  /\ Touched(ss) \in Seq(ScopeRecords) /\ Len(Touched(ss)) = Len(ss)
           /\ DOMAIN Touched(ss) = 1..Len(ss)
           /\ \A i \in 1..Len(ss) : /\ Touched(ss)[i] = [ss[i] EXCEPT !.alone = FALSE]
                                    /\ Touched(ss)[i] \in ScopeRecords
                                    /\ Touched(ss)[i].added = ss[i].added
                                    /\ Touched(ss)[i].alone = FALSE
<1>1. Len(ss) \in Nat /\ DOMAIN ss = 1..Len(ss) /\ \A i \in 1..Len(ss) : ss[i] \in ScopeRecords
  BY ScopeFields
<1>2. ASSUME NEW r \in ScopeRecords
      PROVE  /\ [r EXCEPT !.alone = FALSE] \in ScopeRecords
             /\ [r EXCEPT !.alone = FALSE].added = r.added
             /\ [r EXCEPT !.alone = FALSE].alone = FALSE
  BY DEF ScopeRecords
<1>3. /\ Touched(ss) \in [1..Len(ss) -> ScopeRecords]
      /\ \A i \in 1..Len(ss) : Touched(ss)[i] = [ss[i] EXCEPT !.alone = FALSE]
  BY <1>1, <1>2 DEF Touched
<1>4. Touched(ss) \in Seq(ScopeRecords) /\ Len(Touched(ss)) = Len(ss)
  BY <1>1, <1>3, FunctionSeq
<1>5. DOMAIN Touched(ss) = 1..Len(ss)
  BY <1>3
<1>6. ASSUME NEW i \in 1..Len(ss)
      PROVE  /\ Touched(ss)[i] = [ss[i] EXCEPT !.alone = FALSE]
             /\ Touched(ss)[i] \in ScopeRecords
             /\ Touched(ss)[i].added = ss[i].added
             /\ Touched(ss)[i].alone = FALSE
  <2>1. ss[i] \in ScopeRecords
    BY <1>1
  <2>2. Touched(ss)[i] = [ss[i] EXCEPT !.alone = FALSE]
    BY <1>3
  <2> QED
    BY <1>2, <2>1, <2>2
<1> HIDE DEF Touched
<1> QED
  BY <1>4, <1>5, <1>6

LEMMA ContextKeeps ==
    /\ \A c, k, v : DOMAIN With(c, k, v) = DOMAIN c \cup {k}
    /\ \A c, k, v : \A x \in DOMAIN c \cup {k} : With(c, k, v)[x] = IF x = k THEN v ELSE c[x]
    /\ \A c, k, v : With(c, k, v) = [x \in DOMAIN With(c, k, v) |-> With(c, k, v)[x]]
    /\ \A c, ks : DOMAIN Without(c, ks) = DOMAIN c \ ks
    /\ \A c, ks : Without(c, ks) = [x \in DOMAIN Without(c, ks) |-> Without(c, ks)[x]]
    /\ \A c, ks : \A x \in DOMAIN c \ ks : Without(c, ks)[x] = c[x]
BY DEF With, Without

\* A direct call, which leaves no scope alone.
LEMMA DirectKeeps ==
    ASSUME ScopeInv,
           scopes' \in Seq(ScopeRecords), Len(scopes') = Len(scopes),
           \A i \in 1..Len(scopes) : ~scopes'[i].alone,
           contextCalls' \in Nat,
           DOMAIN context' \subseteq Keys, \A k \in DOMAIN context' : context'[k] \in Values,
           context' = [k \in DOMAIN context' |-> context'[k]],
           direct' \subseteq DOMAIN context',
           KeysKnown(scopes', DOMAIN context', direct')
    PROVE  ScopeInv'
BY DEF ScopeInv, ScopesKnow, ValuesKnown

LEMMA ContextSetKeeps ==
    ASSUME ScopeInv, NEW k \in Keys, NEW v \in Values, ContextSet(k, v)
    PROVE  ScopeInv' /\ Len(scopes') = Len(scopes)
<1>1. /\ context' = With(context, k, v) /\ direct' = direct \cup {k}
      /\ scopes' = Touched(scopes) /\ contextCalls' = contextCalls + 1
  BY DEF ContextSet, ContextCall
<1>2. /\ scopes' \in Seq(ScopeRecords) /\ Len(scopes') = Len(scopes)
      /\ \A i \in 1..Len(scopes) : scopes'[i].added = scopes[i].added /\ scopes'[i].alone = FALSE
  BY <1>1, TouchedScopes DEF ScopeInv
<1>3. DOMAIN context' = DOMAIN context \cup {k}
  BY <1>1, ContextKeeps
<1>4. \A x \in DOMAIN context' : context'[x] \in Values
  BY <1>1, <1>3, ContextKeeps DEF ScopeInv
<1>5. KeysKnown(scopes', DOMAIN context', direct')
  BY <1>1, <1>2, <1>3 DEF ScopeInv, KeysKnown
<1> QED
  <2>1. contextCalls' \in Nat
    BY <1>1 DEF ScopeInv
  <2>2. DOMAIN context' \subseteq Keys /\ direct' \subseteq DOMAIN context'
    BY <1>1, <1>3 DEF ScopeInv
  <2>3. context' = [x \in DOMAIN context' |-> context'[x]]
    BY <1>1, ContextKeeps
  <2> QED
    BY <1>2, <1>4, <1>5, <2>1, <2>2, <2>3, DirectKeeps

LEMMA ContextRemoveKeeps ==
    ASSUME ScopeInv, NEW k \in Keys, ContextRemove(k)
    PROVE  ScopeInv' /\ Len(scopes') = Len(scopes)
<1>1. /\ context' = Without(context, {k}) /\ direct' = direct \ {k}
      /\ scopes' = Touched(scopes) /\ contextCalls' = contextCalls + 1
  BY DEF ContextRemove, ContextCall
<1>2. /\ scopes' \in Seq(ScopeRecords) /\ Len(scopes') = Len(scopes)
      /\ \A i \in 1..Len(scopes) : scopes'[i].added = scopes[i].added /\ scopes'[i].alone = FALSE
  BY <1>1, TouchedScopes DEF ScopeInv
<1>3. DOMAIN context' = DOMAIN context \ {k}
  BY <1>1, ContextKeeps
<1>4. \A x \in DOMAIN context' : context'[x] \in Values
  BY <1>1, <1>3, ContextKeeps DEF ScopeInv
<1>5. KeysKnown(scopes', DOMAIN context', direct')
  BY <1>1, <1>2, <1>3 DEF ScopeInv, KeysKnown
<1> QED
  <2>1. contextCalls' \in Nat
    BY <1>1 DEF ScopeInv
  <2>2. DOMAIN context' \subseteq Keys /\ direct' \subseteq DOMAIN context'
    BY <1>1, <1>3 DEF ScopeInv
  <2>3. context' = [x \in DOMAIN context' |-> context'[x]]
    <3>1. context' = [x \in DOMAIN context \ {k} |-> context[x]]
      BY <1>1 DEF Without
    <3> QED
      BY <3>1, Zenon
  <2> QED
    BY <1>2, <1>4, <1>5, <2>1, <2>2, <2>3, DirectKeeps

LEMMA ContextClearKeeps ==
    ASSUME ScopeInv, ContextClear
    PROVE  ScopeInv' /\ Len(scopes') = Len(scopes)
<1>1. /\ context' = NoContext /\ direct' = {}
      /\ scopes' = Touched(scopes) /\ contextCalls' = contextCalls + 1
  BY DEF ContextClear, ContextCall
<1>2. /\ scopes' \in Seq(ScopeRecords) /\ Len(scopes') = Len(scopes)
      /\ \A i \in 1..Len(scopes) : scopes'[i].alone = FALSE
  BY <1>1, TouchedScopes DEF ScopeInv
<1>3. DOMAIN context' = {} /\ context' = [k \in DOMAIN context' |-> context'[k]]
  BY <1>1 DEF NoContext
<1>4. KeysKnown(scopes', DOMAIN context', direct')
  BY <1>3 DEF KeysKnown
<1> QED
  <2>1. contextCalls' \in Nat
    BY <1>1 DEF ScopeInv
  <2> QED
    BY <1>1, <1>2, <1>3, <1>4, <2>1, DirectKeeps

LEMMA ScopeRemoveKeeps ==
    ASSUME ScopeInv, NEW i \in 1..Len(scopes), NEW k \in Keys, ScopeRemove(i, k)
    PROVE  ScopeInv' /\ Len(scopes') = Len(scopes)
<1>1. /\ context' = Without(context, {k}) /\ direct' = direct \ {k}
      /\ contextCalls' = contextCalls + 1
      /\ scopes' = [Touched(scopes) EXCEPT ![i].added = RemoveFirst(@, k)]
  BY DEF ScopeRemove, ContextCall
<1> DEFINE ts == Touched(scopes)
           less == RemoveFirst(ts[i].added, k)
           r == [ts[i] EXCEPT !.added = less]
<1>2. /\ ts \in Seq(ScopeRecords) /\ Len(ts) = Len(scopes)
      /\ \A m \in 1..Len(scopes) : ts[m].added = scopes[m].added /\ ts[m].alone = FALSE
  BY TouchedScopes DEF ScopeInv
<1> HIDE DEF ts
<1>3. ts[i] \in ScopeRecords /\ ts[i].added \in Seq(Keys) /\ ts[i].alone = FALSE
  BY <1>2, ScopeFields
<1>4. less \in Seq(Keys) /\ Range(ts[i].added) \ {k} \subseteq Range(less)
  BY <1>3, RemoveFirstKeeps
<1> HIDE DEF less
<1>5. r \in ScopeRecords /\ r.added = less /\ r.alone = FALSE
  BY <1>3, <1>4 DEF ScopeRecords
<1>6. scopes' = [ts EXCEPT ![i] = r]
  BY <1>1 DEF ts, less
<1> HIDE DEF r
<1>7. /\ scopes' \in Seq(ScopeRecords) /\ Len(scopes') = Len(ts)
      /\ \A m \in 1..Len(ts) : scopes'[m] = IF m = i THEN r ELSE ts[m]
  BY <1>2, <1>5, <1>6, ExceptSeq
<1>8. \A m \in 1..Len(scopes) : ~scopes'[m].alone /\ Range(scopes[m].added) \ {k} \subseteq Range(scopes'[m].added)
  BY <1>2, <1>4, <1>5, <1>7
<1>9. DOMAIN context' = DOMAIN context \ {k}
  BY <1>1, ContextKeeps
<1>10. \A x \in DOMAIN context' : context'[x] \in Values
  BY <1>1, <1>9, ContextKeeps DEF ScopeInv
<1>11. KeysKnown(scopes', DOMAIN context', direct')
  <2> SUFFICES ASSUME NEW x \in DOMAIN context \ {k}, x \notin direct
               PROVE  \E m \in 1..Len(scopes) : x \in Range(scopes'[m].added)
    BY <1>1, <1>2, <1>7, <1>9 DEF KeysKnown
  <2>1. PICK m \in 1..Len(scopes) : x \in Range(scopes[m].added)
    BY DEF ScopeInv, KeysKnown
  <2> QED
    BY <1>8, <2>1
<1> QED
  <2>1. contextCalls' \in Nat
    BY <1>1 DEF ScopeInv
  <2>2. DOMAIN context' \subseteq Keys /\ direct' \subseteq DOMAIN context'
    BY <1>1, <1>9 DEF ScopeInv
  <2>3. context' = [x \in DOMAIN context' |-> context'[x]]
    <3>1. context' = [x \in DOMAIN context \ {k} |-> context[x]]
      BY <1>1 DEF Without
    <3> QED
      BY <3>1, Zenon
  <2> QED
    BY <1>2, <1>7, <1>8, <1>10, <1>11, <2>1, <2>2, <2>3, DirectKeeps

LEMMA EnterScopeKeeps ==
    ASSUME ScopeInv, EnterScope
    PROVE  ScopeInv' /\ Len(scopes') = Len(scopes) + 1
<1> DEFINE r == [added |-> <<>>, found |-> context, set |-> {}, alone |-> TRUE]
           n == Len(scopes)
<1>1. scopes' = Append(scopes, r) /\ contextCalls' = contextCalls + 1 /\ UNCHANGED <<context, direct>>
  BY DEF EnterScope, ContextCall
<1>2. r \in ScopeRecords /\ r.found = context /\ Range(r.added) = {} /\ r.alone = TRUE
  <2>1. <<>> \in Seq(Keys) /\ Range(<<>>) = {}
    BY EmptySeq DEF Range
  <2>2. context \in SomeContexts
    BY ContextDomains DEF ScopeInv
  <2> QED
    BY <2>1, <2>2 DEF ScopeRecords
<1>3. n \in Nat
  BY LenProperties DEF ScopeInv
<1> HIDE DEF r
<1>4. /\ scopes' \in Seq(ScopeRecords) /\ Len(scopes') = n + 1 /\ scopes'[n + 1] = r
      /\ \A m \in 1..n : scopes'[m] = scopes[m]
  BY <1>1, <1>2, AppendProperties DEF ScopeInv
<1> HIDE DEF n
<1>5. Len(scopes) = n
  BY DEF n
<1>6. KeysKnown(scopes', DOMAIN context, direct)
  BY <1>3, <1>4, <1>5 DEF ScopeInv, KeysKnown
<1>7. ASSUME NEW i \in 1..(n + 1), scopes'[i].alone
      PROVE  /\ \A k \in Keys : k \in DOMAIN context <=> \/ k \in DOMAIN scopes'[i].found
                                                         \/ \E j \in i..(n + 1) : k \in Range(scopes'[j].added)
             /\ \A j \in i..(n + 1) : \A k \in Range(scopes'[j].added) :
                    /\ k \notin DOMAIN scopes'[i].found
                    /\ \A m \in i..(n + 1) : m # j => k \notin Range(scopes'[m].added)
  <2>1. CASE i = n + 1
    <3>1. \A j \in i..(n + 1) : j = n + 1
      BY <1>3, <2>1
    <3>2. i \in i..(n + 1)
      BY <1>3, <2>1
    <3> QED
      BY <1>2, <1>4, <2>1, <3>1, <3>2
  <2>2. CASE i # n + 1
    <3>1. i \in 1..n /\ \A j \in i..(n + 1) : (j \in i..n /\ j \in 1..n) \/ j = n + 1
      BY <1>3, <2>2
    <3>2. \A j \in i..n : j \in i..(n + 1) /\ j \in 1..n
      BY <1>3, <3>1
    <3>3. scopes'[i] = scopes[i] /\ scopes[i].alone
      BY <1>4, <1>7, <3>1
    <3>4. /\ \A k \in Keys : k \in DOMAIN context <=> \/ k \in DOMAIN scopes[i].found
                                                      \/ \E j \in i..n : k \in Range(scopes[j].added)
          /\ \A j \in i..n : \A k \in Range(scopes[j].added) :
                 /\ k \notin DOMAIN scopes[i].found
                 /\ \A m \in i..n : m # j => k \notin Range(scopes[m].added)
      BY <1>5, <3>1, <3>3 DEF ScopeInv, ScopesKnow
    <3>5. \A j \in i..n : scopes'[j] = scopes[j]
      BY <1>4, <3>2
    <3>6. scopes'[n + 1] = r /\ Range(r.added) = {}
      BY <1>2, <1>4
    <3> QED
      BY <3>1, <3>2, <3>3, <3>4, <3>5, <3>6
  <2> QED
    BY <2>1, <2>2
<1>8. ScopesKnow(scopes', DOMAIN context)
  BY <1>4, <1>7 DEF ScopesKnow
<1>9. contextCalls' \in Nat
  BY <1>1 DEF ScopeInv
<1>10. ValuesKnown(scopes', context)
  <2> SUFFICES ASSUME NEW i \in 1..(n + 1), scopes'[i].alone,
                      NEW k \in DOMAIN scopes'[i].found \ scopes'[i].set
               PROVE  context[k] = scopes'[i].found[k]
    BY <1>4 DEF ValuesKnown
  <2>1. CASE i = n + 1
    BY <1>2, <1>4, <2>1
  <2>2. CASE i # n + 1
    <3>1. i \in 1..n
      BY <1>3, <2>2
    <3> QED
      BY <1>4, <1>5, <3>1 DEF ScopeInv, ValuesKnown
  <2> QED
    BY <2>1, <2>2
<1> QED
  BY <1>1, <1>4, <1>5, <1>6, <1>8, <1>9, <1>10 DEF ScopeInv

\* A call on scope i: the scopes within it are no longer alone; a key that is
\* new to the context goes on its list, and nothing else is noted.
LEMMA ScopeSetScopes ==
    ASSUME ScopeInv, NEW i \in 1..Len(scopes), NEW k \in Keys, NEW v \in Values, ScopeSet(i, k, v)
    PROVE  /\ scopes' \in Seq(ScopeRecords) /\ Len(scopes') = Len(scopes)
           /\ \A m \in 1..Len(scopes) :
                  /\ scopes'[m].alone => scopes[m].alone /\ m <= i
                  /\ scopes'[m].found = scopes[m].found
                  /\ scopes'[m].alone => scopes'[m].set = scopes[m].set \cup {k}
                  /\ Range(scopes'[m].added) = Range(scopes[m].added)
                                                 \cup (IF m = i /\ k \notin DOMAIN context THEN {k} ELSE {})
<1> DEFINE n == Len(scopes)
           new == IF k \in DOMAIN context THEN scopes[i].added ELSE Append(scopes[i].added, k)
           r == [scopes[i] EXCEPT !.set = @ \cup {k}, !.added = new]
           f == [j \in 1..n |-> CASE j < i -> [scopes[j] EXCEPT !.set = @ \cup {k}]
                                  [] j = i -> r
                                  [] j > i -> [scopes[j] EXCEPT !.alone = FALSE]]
<1>1. /\ n \in Nat /\ DOMAIN scopes = 1..n
      /\ \A m \in 1..n : scopes[m] \in ScopeRecords
      /\ scopes[i].added \in Seq(Keys)
  BY ScopeFields DEF ScopeInv
<1>2. scopes' = f
  BY <1>1 DEF ScopeSet, Added
<1>3. new \in Seq(Keys) /\ Range(new) = Range(scopes[i].added) \cup (IF k \notin DOMAIN context THEN {k} ELSE {})
  <2>1. CASE k \in DOMAIN context
    BY <1>1, <2>1
  <2>2. CASE k \notin DOMAIN context
    <3>1. PICK t \in Seq(Keys) : t = scopes[i].added
      BY <1>1
    <3>2. Append(t, k) \in Seq(Keys)
      BY AppendProperties
    <3>3. ToSet(Append(t, k)) = ToSet(t) \cup {k}
      BY ElementsOfAppend
    <3>4. ToSet(t) = Range(t) /\ ToSet(Append(t, k)) = Range(Append(t, k))
      BY <3>2, RangeIsToSet
    <3> QED
      BY <2>2, <3>1, <3>2, <3>3, <3>4
  <2> QED
    BY <2>1, <2>2
<1> HIDE DEF new
<1>4. /\ r \in ScopeRecords /\ r.added = new /\ r.found = scopes[i].found
      /\ r.alone = scopes[i].alone /\ r.set = scopes[i].set \cup {k}
  <2>1. scopes[i] \in ScopeRecords
    BY <1>1
  <2> QED
    BY <1>3, <2>1 DEF ScopeRecords
<1>5. ASSUME NEW s \in ScopeRecords
      PROVE  /\ [s EXCEPT !.alone = FALSE] \in ScopeRecords
             /\ [s EXCEPT !.alone = FALSE].added = s.added
             /\ [s EXCEPT !.alone = FALSE].found = s.found
             /\ [s EXCEPT !.alone = FALSE].alone = FALSE
             /\ [s EXCEPT !.set = @ \cup {k}] \in ScopeRecords
             /\ [s EXCEPT !.set = @ \cup {k}].added = s.added
             /\ [s EXCEPT !.set = @ \cup {k}].found = s.found
             /\ [s EXCEPT !.set = @ \cup {k}].alone = s.alone
             /\ [s EXCEPT !.set = @ \cup {k}].set = s.set \cup {k}
  BY DEF ScopeRecords
<1> HIDE DEF r
<1>6. ASSUME NEW m \in 1..n
      PROVE  \/ m < i /\ f[m] = [scopes[m] EXCEPT !.set = @ \cup {k}]
             \/ m = i /\ f[m] = r
             \/ m > i /\ f[m] = [scopes[m] EXCEPT !.alone = FALSE]
  BY <1>1
<1>7. ASSUME NEW m \in 1..n PROVE f[m] \in ScopeRecords
  BY <1>1, <1>4, <1>5, <1>6
<1>8. f \in [1..n -> ScopeRecords]
  BY <1>7
<1>9. f \in Seq(ScopeRecords) /\ Len(f) = n
  BY <1>1, <1>8, FunctionSeq
<1> HIDE DEF f
<1>10. ASSUME NEW m \in 1..n
       PROVE  /\ f[m].alone => scopes[m].alone /\ m <= i
              /\ f[m].found = scopes[m].found
              /\ f[m].alone => f[m].set = scopes[m].set \cup {k}
              /\ Range(f[m].added) = Range(scopes[m].added)
                                        \cup (IF m = i /\ k \notin DOMAIN context THEN {k} ELSE {})
  <2>1. CASE m < i /\ f[m] = [scopes[m] EXCEPT !.set = @ \cup {k}]
    <3>1. m # i /\ scopes[m] \in ScopeRecords
      BY <1>1, <2>1
    <3> QED
      BY <1>5, <2>1, <3>1
  <2>2. CASE m = i /\ f[m] = r
    BY <1>3, <1>4, <2>2
  <2>3. CASE m > i /\ f[m] = [scopes[m] EXCEPT !.alone = FALSE]
    <3>1. m # i /\ scopes[m] \in ScopeRecords
      BY <1>1, <2>3
    <3> QED
      BY <1>5, <2>3, <3>1
  <2> QED
    BY <1>6, <2>1, <2>2, <2>3
<1> QED
  BY <1>2, <1>9, <1>10

LEMMA ScopeSetKeeps ==
    ASSUME ScopeInv, NEW i \in 1..Len(scopes), NEW k \in Keys, NEW v \in Values, ScopeSet(i, k, v)
    PROVE  ScopeInv' /\ Len(scopes') = Len(scopes)
<1> DEFINE n == Len(scopes)
           C == DOMAIN context
           Holds(m) == Range(scopes[m].added)
           Holds2(m) == Range(scopes'[m].added)
<1>1. context' = With(context, k, v) /\ direct' = direct /\ contextCalls' = contextCalls + 1
  BY DEF ScopeSet, ContextCall
<1>2. /\ scopes' \in Seq(ScopeRecords) /\ Len(scopes') = n
      /\ \A m \in 1..n : /\ scopes'[m].alone => scopes[m].alone /\ m <= i
                         /\ scopes'[m].found = scopes[m].found
                         /\ scopes'[m].alone => scopes'[m].set = scopes[m].set \cup {k}
                         /\ Holds2(m) = Holds(m) \cup (IF m = i /\ k \notin C THEN {k} ELSE {})
  BY ScopeSetScopes
<1>3. DOMAIN context' = C \cup {k}
  BY <1>1, ContextKeeps
<1>4. \A x \in DOMAIN context' : context'[x] \in Values
  BY <1>1, <1>3, ContextKeeps DEF ScopeInv
<1>5. n \in Nat
  BY LenProperties DEF ScopeInv
<1>6. /\ \A x \in C : x \in direct \/ \E m \in 1..n : x \in Holds(m)
      /\ \A m \in 1..n : scopes[m].alone =>
            /\ \A x \in Keys : x \in C <=> x \in DOMAIN scopes[m].found \/ \E j \in m..n : x \in Holds(j)
            /\ \A j \in m..n : \A x \in Holds(j) :
                   x \notin DOMAIN scopes[m].found /\ \A o \in m..n : o # j => x \notin Holds(o)
  BY DEF ScopeInv, KeysKnown, ScopesKnow
<1> HIDE DEF n, C, Holds, Holds2
<1>7. KeysKnown(scopes', DOMAIN context', direct')
  <2> SUFFICES ASSUME NEW x \in C \cup {k}, x \notin direct PROVE \E m \in 1..n : x \in Holds2(m)
    BY <1>1, <1>2, <1>3 DEF KeysKnown, Holds2
  <2>1. CASE x \in C
    BY <1>2, <1>6, <2>1
  <2>2. CASE x = k /\ k \notin C
    BY <1>2, <2>2 DEF n
  <2> QED
    BY <2>1, <2>2
<1>8. ASSUME NEW m \in 1..n, scopes'[m].alone
      PROVE  /\ \A x \in Keys : x \in C \cup {k} <=> x \in DOMAIN scopes'[m].found \/ \E j \in m..n : x \in Holds2(j)
             /\ \A j \in m..n : \A x \in Holds2(j) :
                    x \notin DOMAIN scopes'[m].found /\ \A o \in m..n : o # j => x \notin Holds2(o)
  <2>1. scopes[m].alone /\ m <= i /\ scopes'[m].found = scopes[m].found
    BY <1>2, <1>8
  <2>2. i \in m..n /\ \A j \in m..n : j \in 1..n
    BY <1>5, <2>1 DEF n
  <2>3. /\ \A x \in Keys : x \in C <=> x \in DOMAIN scopes[m].found \/ \E j \in m..n : x \in Holds(j)
        /\ \A j \in m..n : \A x \in Holds(j) :
               x \notin DOMAIN scopes[m].found /\ \A o \in m..n : o # j => x \notin Holds(o)
    BY <1>6, <2>1
  <2>4. CASE k \in C
    <3>1. C \cup {k} = C /\ \A j \in m..n : Holds2(j) = Holds(j)
      BY <1>2, <2>2, <2>4
    <3> QED
      BY <2>1, <2>3, <3>1
  <2>5. CASE k \notin C
    <3>1. \A j \in m..n : Holds2(j) = Holds(j) \cup (IF j = i THEN {k} ELSE {})
      BY <1>2, <2>2, <2>5
    <3>2. k \notin DOMAIN scopes[m].found /\ \A j \in m..n : k \notin Holds(j)
      BY <2>3, <2>5
    <3>3. \A j \in m..n : \A x : x \in Holds2(j) <=> x \in Holds(j) \/ (x = k /\ j = i)
      BY <3>1
    <3>4. \A x \in Keys : x \in C \cup {k} <=> x \in DOMAIN scopes[m].found \/ \E j \in m..n : x \in Holds2(j)
      BY <2>2, <2>3, <3>3
    <3>5. ASSUME NEW j \in m..n, NEW x \in Holds2(j)
          PROVE  x \notin DOMAIN scopes[m].found /\ \A o \in m..n : o # j => x \notin Holds2(o)
      <4>1. CASE x \in Holds(j)
        BY <2>3, <3>2, <3>3, <4>1
      <4>2. CASE x = k /\ j = i
        BY <3>2, <3>3, <4>2
      <4> QED
        BY <3>3, <4>1, <4>2
    <3> QED
      BY <2>1, <3>4, <3>5
  <2> QED
    BY <2>4, <2>5
<1>9. ScopesKnow(scopes', DOMAIN context')
  <2> SUFFICES ASSUME NEW m \in 1..n, scopes'[m].alone
               PROVE  /\ \A x \in Keys : x \in C \cup {k} <=>
                             \/ x \in DOMAIN scopes'[m].found
                             \/ \E j \in m..n : x \in Range(scopes'[j].added)
                      /\ \A j \in m..n : \A x \in Range(scopes'[j].added) :
                             /\ x \notin DOMAIN scopes'[m].found
                             /\ \A o \in m..n : o # j => x \notin Range(scopes'[o].added)
    BY <1>2, <1>3 DEF ScopesKnow
  <2>1. \A j : Range(scopes'[j].added) = Holds2(j)
    BY DEF Holds2
  <2> QED
    BY <1>8, <2>1
<1>10. ValuesKnown(scopes', context')
  <2> SUFFICES ASSUME NEW m \in 1..n, scopes'[m].alone,
                      NEW x \in DOMAIN scopes'[m].found \ scopes'[m].set
               PROVE  context'[x] = scopes'[m].found[x]
    BY <1>2 DEF ValuesKnown
  <2>1. /\ scopes[m].alone /\ m <= i /\ scopes'[m].found = scopes[m].found
        /\ scopes'[m].set = scopes[m].set \cup {k}
    BY <1>2
  <2>2. x # k /\ x \in DOMAIN scopes[m].found \ scopes[m].set
    BY <2>1
  <2>3. context[x] = scopes[m].found[x]
    BY <2>1, <2>2 DEF ScopeInv, ValuesKnown, n
  <2>4. x \in C
    <3>1. DOMAIN scopes[m].found \subseteq Keys
      BY ScopeFields DEF ScopeInv, n
    <3> QED
      BY <1>6, <2>1, <2>2, <3>1
  <2>5. context'[x] = context[x]
    BY <1>1, <2>2, <2>4, ContextKeeps DEF C
  <2> QED
    BY <2>1, <2>3, <2>5
<1> QED
  <2>1. contextCalls' \in Nat
    BY <1>1 DEF ScopeInv
  <2>2. DOMAIN context' \subseteq Keys /\ direct' \subseteq DOMAIN context'
    BY <1>1, <1>3 DEF ScopeInv, C
  <2>3. context' = [x \in DOMAIN context' |-> context'[x]]
    BY <1>1, ContextKeeps
  <2> QED
    BY <1>2, <1>4, <1>7, <1>9, <1>10, <2>1, <2>2, <2>3 DEF ScopeInv, n

\* The end of a scope; one that was alone leaves the keys it has found.
LEMMA LeaveScopeKeeps ==
    ASSUME ScopeInv, LeaveScope
    PROVE  ScopeInv' /\ ScopeRestored
<1> DEFINE n == Len(scopes)
           C == DOMAIN context
           Holds(m) == Range(scopes[m].added)
           gone == Range(scopes[n].added)
<1>1. n \in Nat /\ n >= 1 /\ Last(scopes) = scopes[n]
  <2>1. n \in Nat /\ n # 0
    BY LenProperties, EmptySeq DEF ScopeInv, LeaveScope
  <2> QED
    BY <2>1 DEF Last
<1>2. /\ context' = Without(context, gone) /\ direct' = direct \ gone
      /\ contextCalls' = contextCalls + 1 /\ scopes' = SubSeq(scopes, 1, n - 1)
  BY <1>1 DEF LeaveScope, ContextCall, Leaving, Front
<1>3. /\ scopes' \in Seq(ScopeRecords) /\ Len(scopes') = n - 1
      /\ \A m \in 1..(n - 1) : scopes'[m] = scopes[m]
  <2>1. \A m \in 1..(n - 1) : scopes[m] \in ScopeRecords
    BY <1>1, ScopeFields DEF ScopeInv
  <2>2. /\ SubSeq(scopes, 1, n - 1) \in Seq(ScopeRecords)
        /\ Len(SubSeq(scopes, 1, n - 1)) = IF 1 <= n - 1 THEN (n - 1) - 1 + 1 ELSE 0
        /\ \A m \in 1..((n - 1) - 1 + 1) : SubSeq(scopes, 1, n - 1)[m] = scopes[1 + m - 1]
    <3>1. 1 \in Int /\ n - 1 \in Int
      BY <1>1
    <3> HIDE DEF n
    <3> QED
      BY <2>1, <3>1, SubSeqProperties
  <2> HIDE DEF n
  <2>3. (IF 1 <= n - 1 THEN (n - 1) - 1 + 1 ELSE 0) = n - 1
    BY <1>1
  <2>4. \A m \in 1..(n - 1) : m \in 1..((n - 1) - 1 + 1) /\ 1 + m - 1 = m
    BY <1>1
  <2> QED
    BY <1>2, <2>2, <2>3, <2>4
<1>4. DOMAIN context' = C \ gone
  BY <1>2, ContextKeeps
<1>5. \A x \in DOMAIN context' : context'[x] \in Values
  BY <1>2, <1>4, ContextKeeps DEF ScopeInv
<1>6. /\ \A x \in C : x \in direct \/ \E m \in 1..n : x \in Holds(m)
      /\ \A m \in 1..n : scopes[m].alone =>
            /\ \A x \in Keys : x \in C <=> x \in DOMAIN scopes[m].found \/ \E j \in m..n : x \in Holds(j)
            /\ \A j \in m..n : \A x \in Holds(j) :
                   x \notin DOMAIN scopes[m].found /\ \A o \in m..n : o # j => x \notin Holds(o)
  BY DEF ScopeInv, KeysKnown, ScopesKnow
<1>7. /\ C \subseteq Keys /\ DOMAIN scopes[n].found \subseteq Keys /\ gone = Holds(n)
  <2>1. n \in 1..n
    BY <1>1
  <2> QED
    BY <2>1, ScopeFields DEF ScopeInv
<1> HIDE DEF n, C, Holds, gone
<1>8. n \in 1..n /\ \A j \in 1..n : j # n => j \in 1..(n - 1)
  BY <1>1
<1>9. \A j \in 1..(n - 1) : j \in 1..n
  BY <1>1
<1>10. KeysKnown(scopes', DOMAIN context', direct')
  <2> SUFFICES ASSUME NEW x \in C \ gone, x \notin direct \ gone PROVE \E m \in 1..(n - 1) : x \in Holds(m)
    BY <1>2, <1>3, <1>4 DEF KeysKnown, Holds
  <2>1. PICK m \in 1..n : x \in Holds(m)
    BY <1>6
  <2> QED
    BY <1>7, <1>8, <2>1
<1>11. ASSUME NEW m \in 1..(n - 1), scopes[m].alone
       PROVE  /\ \A x \in Keys : x \in C \ gone <=> x \in DOMAIN scopes[m].found \/ \E j \in m..(n - 1) : x \in Holds(j)
              /\ \A j \in m..(n - 1) : \A x \in Holds(j) :
                     x \notin DOMAIN scopes[m].found /\ \A o \in m..(n - 1) : o # j => x \notin Holds(o)
  <2>1. /\ \A x \in Keys : x \in C <=> x \in DOMAIN scopes[m].found \/ \E j \in m..n : x \in Holds(j)
        /\ \A j \in m..n : \A x \in Holds(j) :
               x \notin DOMAIN scopes[m].found /\ \A o \in m..n : o # j => x \notin Holds(o)
    BY <1>6, <1>9, <1>11
  <2>2. n \in m..n /\ \A j \in m..(n - 1) : j \in m..n /\ j # n
    BY <1>1
  <2>3. \A j \in m..n : j # n => j \in m..(n - 1)
    BY <1>1
  <2>4. \A x \in Keys : x \in C \ gone <=> x \in DOMAIN scopes[m].found \/ \E j \in m..(n - 1) : x \in Holds(j)
    BY <1>7, <2>1, <2>2, <2>3
  <2> QED
    BY <2>1, <2>2, <2>4
<1>12. ScopesKnow(scopes', DOMAIN context')
  <2>1. \A m \in 1..(n - 1) : \A j \in m..(n - 1) : j \in 1..(n - 1)
    BY <1>1
  <2>2. \A j \in 1..(n - 1) : scopes'[j] = scopes[j]
    BY <1>3
  <2>3. Len(scopes') = n - 1
    BY <1>3
  <2> SUFFICES ASSUME NEW m \in 1..(n - 1), scopes[m].alone
               PROVE  /\ \A x \in Keys : x \in DOMAIN context' <=>
                             \/ x \in DOMAIN scopes[m].found
                             \/ \E j \in m..(n - 1) : x \in Range(scopes'[j].added)
                      /\ \A j \in m..(n - 1) : \A x \in Range(scopes'[j].added) :
                             /\ x \notin DOMAIN scopes[m].found
                             /\ \A o \in m..(n - 1) : o # j => x \notin Range(scopes'[o].added)
    BY <2>2, <2>3 DEF ScopesKnow
  <2>4. \A j \in m..(n - 1) : Range(scopes'[j].added) = Holds(j)
    BY <2>1, <2>2 DEF Holds
  <2> QED
    BY <1>4, <1>11, <2>4
<1>13. DOMAIN scopes[n].found = DOMAIN context' \/ ~scopes[n].alone
  <2> SUFFICES ASSUME scopes[n].alone PROVE C \ gone = DOMAIN scopes[n].found
    BY <1>4
  <2>1. \A j \in n..n : j = n
    BY <1>1
  <2>2. n \in n..n
    BY <1>1
  <2>3. /\ \A x \in Keys : x \in C <=> x \in DOMAIN scopes[n].found \/ \E j \in n..n : x \in Holds(j)
        /\ \A j \in n..n : \A x \in Holds(j) : x \notin DOMAIN scopes[n].found
    BY <1>6, <1>8
  <2>4. /\ \A x \in Keys : x \in C <=> x \in DOMAIN scopes[n].found \/ x \in gone
        /\ \A x \in gone : x \notin DOMAIN scopes[n].found
    BY <1>7, <2>1, <2>2, <2>3
  <2> QED
    BY <1>7, <2>4
<1>14. ASSUME NEW m \in 1..n, scopes[m].alone, NEW x \in DOMAIN scopes[m].found \ scopes[m].set
       PROVE  context'[x] = scopes[m].found[x]
  <2>1. context[x] = scopes[m].found[x]
    BY <1>14 DEF ScopeInv, ValuesKnown, n
  <2>2. n \in m..n
    BY <1>1
  <2>3. x \notin gone
    BY <1>6, <1>7, <1>14, <2>2
  <2>4. x \in C
    <3>1. DOMAIN scopes[m].found \subseteq Keys
      BY ScopeFields DEF ScopeInv, n
    <3> QED
      BY <1>6, <1>14, <3>1
  <2> QED
    BY <1>2, <2>1, <2>3, <2>4, ContextKeeps DEF C
<1>15. ScopeRestored
  BY <1>1, <1>8, <1>13, <1>14 DEF ScopeRestored, ScopeEnds
<1>16. ValuesKnown(scopes', context')
  BY <1>3, <1>9, <1>14 DEF ValuesKnown
<1> QED
  <2>1. contextCalls' \in Nat
    BY <1>2 DEF ScopeInv
  <2>2. DOMAIN context' \subseteq Keys /\ direct' \subseteq DOMAIN context'
    BY <1>2, <1>4 DEF ScopeInv, C
  <2>3. context' = [x \in DOMAIN context' |-> context'[x]]
    BY <1>2, ContextKeeps
  <2> QED
    BY <1>3, <1>5, <1>10, <1>12, <1>15, <1>16, <2>1, <2>2, <2>3 DEF ScopeInv

LEMMA ContextStep == ASSUME ScopeInv, ContextNext PROVE ScopeInv' /\ ScopeRestored
<1>1. DOMAIN scopes = 1..Len(scopes) /\ Len(scopes) \in Nat
  BY LenProperties DEF ScopeInv
<1>2. ASSUME ScopeInv' /\ (Len(scopes') = Len(scopes) \/ Len(scopes') = Len(scopes) + 1)
      PROVE  ScopeInv' /\ ScopeRestored
  BY <1>1, <1>2 DEF ScopeRestored, ScopeEnds
<1>3. ASSUME NEW k \in Keys, ContextRemove(k) PROVE ScopeInv' /\ ScopeRestored
  BY <1>2, <1>3, ContextRemoveKeeps
<1>4. ASSUME NEW k \in Keys, NEW v \in Values, ContextSet(k, v) PROVE ScopeInv' /\ ScopeRestored
  BY <1>2, <1>4, ContextSetKeeps
<1>5. ASSUME ContextClear PROVE ScopeInv' /\ ScopeRestored
  BY <1>2, <1>5, ContextClearKeeps
<1>6. ASSUME EnterScope PROVE ScopeInv' /\ ScopeRestored
  BY <1>2, <1>6, EnterScopeKeeps
<1>7. ASSUME NEW i \in 1..Len(scopes), NEW k \in Keys, ScopeRemove(i, k) PROVE ScopeInv' /\ ScopeRestored
  BY <1>2, <1>7, ScopeRemoveKeeps
<1>8. ASSUME NEW i \in 1..Len(scopes), NEW k \in Keys, NEW v \in Values, ScopeSet(i, k, v)
      PROVE  ScopeInv' /\ ScopeRestored
  BY <1>2, <1>8, ScopeSetKeeps
<1>9. ASSUME LeaveScope PROVE ScopeInv' /\ ScopeRestored
  BY <1>9, LeaveScopeKeeps
<1> QED
  BY <1>1, <1>3, <1>4, <1>5, <1>6, <1>7, <1>8, <1>9 DEF ContextNext

\* No key outlives the scope that added it, in whatever order scopes and direct
\* calls work on the context, and a scope that was left alone ends with the keys
\* that it found, and with the values of those that nobody in it set again: for any keys and values and any number of scopes and calls.
THEOREM ScopesLeaveNothing == ContextSpec => ScopesClean
<1>1. ASSUME ScopeInv, [ContextNext]_contextVars PROVE ScopeInv'
  <2>1. CASE UNCHANGED contextVars
    BY <1>1, <2>1 DEF contextVars, ScopeInv, KeysKnown, ScopesKnow, ValuesKnown
  <2>2. CASE ContextNext
    BY <1>1, <2>2, ContextStep
  <2> QED
    BY <1>1, <2>1, <2>2
<1>2. ASSUME ScopeInv, ScopeInv', [ContextNext]_contextVars
      PROVE  [ContextTypeOK' /\ NoKeyLeaks' /\ ScopeRestored]_contextVars
  <2>1. ContextTypeOK' /\ NoKeyLeaks'
    BY <1>2, ScopeInvTypes, PTL
  <2>2. CASE UNCHANGED contextVars
    BY <2>2
  <2>3. CASE ContextNext
    BY <1>2, <2>1, <2>3, ContextStep
  <2> QED
    BY <1>2, <2>2, <2>3
<1> QED
  BY ContextInitial, <1>1, <1>2, PTL DEF ContextSpec, ScopesClean

-----------------------------------------------------------------------------
(* Metrics: maxima and checks with nothing but atomics.                     *)

MetricCalls == [pc : {"idle", "load", "exchange", "reset", "read"},
                peak : Peaks \cup {"none"}, amount : Amounts \cup {0}, seen : Nat,
                next : 0..12, snapshot : [Fields -> Nat],
                floor : Statuses, mixed : BOOLEAN]

\* The snapshot of t as it would be if the rest was loaded now, without the depth.
LoadedNow(t) ==
    LET s == metric[t].snapshot
        n == metric[t].next
    IN  [logged  |-> s["logged"],
         dropped |-> IF n > 2 THEN s["dropped"] ELSE value["dropped"],
         errors  |-> IF n > 5 THEN s["errors"] ELSE value["errors"],
         maxLog  |-> IF n > 8 THEN s["maxLog"] ELSE value["maxLog"],
         depth   |-> 0]

Updates(t) == metric[t].pc \in {"load", "exchange"}

\* The thread t has still to store the largest amount of p.
Owes(t, p) == Updates(t) /\ metric[t].peak = p /\ metric[t].amount = peak[p]

UpdatesRight ==
    \A t \in Threads : Updates(t) =>
        /\ metric[t].peak \in Peaks
        /\ metric[t].pc = "exchange" => metric[t].amount > metric[t].seen
        /\ ~mixed => metric[t].amount <= peak[metric[t].peak]

MaximaOwed ==
    ~mixed /\ resetting = NoThread =>
        \A p \in Peaks : value[p] <= peak[p] /\ (value[p] = peak[p] \/ \E t \in Threads : Owes(t, p))

ResetSoFar ==
    ~mixed => \A t \in Threads : metric[t].pc = "reset" =>
        /\ ~Updating /\ peak = Zero
        /\ \A i \in 1..11 : i < metric[t].next /\ FieldOrder[i] \in Peaks => value[FieldOrder[i]] = 0

ChecksSoFar ==
    \A t \in Threads : metric[t].pc = "read" /\ ~metric[t].mixed =>
        resetting = NoThread /\ Rank(DetermineStatus(LoadedNow(t))) >= Rank(metric[t].floor)

MetricTypes ==
    /\ value \in [Fields -> Nat] /\ peak \in [Fields -> Nat]
    /\ metric \in [Threads -> MetricCalls]
    /\ resetting \in Threads \cup {NoThread} /\ mixed \in BOOLEAN
    /\ begun \in 0..MaxMetricCalls
    /\ \A t \in Threads : resetting = t <=> metric[t].pc = "reset"

MetricState == MetricTypes /\ UpdatesRight /\ MaximaOwed /\ ResetSoFar /\ ChecksSoFar

LEMMA FieldsInOrder ==
    /\ Len(FieldOrder) = 11
    /\ FieldOrder[1] = "logged" /\ FieldOrder[2] = "dropped" /\ FieldOrder[3] = "filtered"
    /\ FieldOrder[4] = "flushes" /\ FieldOrder[5] = "errors" /\ FieldOrder[6] = "logTime"
    /\ FieldOrder[7] = "flushTime" /\ FieldOrder[8] = "maxLog" /\ FieldOrder[9] = "maxFlush"
    /\ FieldOrder[10] = "depth" /\ FieldOrder[11] = "maxDepth"
BY DEF FieldOrder

LEMMA PeakFields ==
    /\ \A p \in Peaks : /\ p \in {"maxLog", "maxFlush", "maxDepth"} /\ p \in Fields
                        /\ Gauge(p) \in {"logTime", "flushTime", "depth"} /\ Gauge(p) \in Fields
    /\ \A p \in Peaks : \E i \in 1..11 : FieldOrder[i] = p
    /\ \A i \in 1..11 : FieldOrder[i] \in Fields
    /\ Counted \subseteq Fields /\ Counted \cap Peaks = {} /\ "none" \notin Peaks
<1>1. \A p \in Peaks : /\ p \in {"maxLog", "maxFlush", "maxDepth"} /\ p \in Fields
                       /\ Gauge(p) \in {"logTime", "flushTime", "depth"} /\ Gauge(p) \in Fields
  BY PeaksAssumption DEF Gauge, Fields
<1>2. \A p \in Peaks : \E i \in 1..11 : FieldOrder[i] = p
  BY PeaksAssumption, FieldsInOrder
<1>3. \A i \in 1..11 : i \in {1, 2, 3, 4, 5, 6, 7, 8, 9, 10, 11}
  OBVIOUS
<1>4. \A i \in {1, 2, 3, 4, 5, 6, 7, 8, 9, 10, 11} : FieldOrder[i] \in Fields
  BY FieldsInOrder DEF Fields, Counters
<1>5. Counted \subseteq Fields /\ Counted \cap Peaks = {} /\ "none" \notin Peaks
  BY PeaksAssumption, CountedAssumption DEF Fields, Counters
<1> QED
  BY <1>1, <1>2, <1>3, <1>4, <1>5

\* More of one part makes no rate smaller.
LEMMA ExceedsMore ==
    ASSUME NEW d \in Nat, NEW e \in Nat, d <= e, NEW w \in Nat, NEW q \in Nat
    PROVE  /\ Exceeds(d, w, q) => Exceeds(e, w, q)
           /\ Exceeds(d, w + d, q) => Exceeds(e, w + e, q)
<1>1. Exceeds(d, w, q) => Exceeds(e, w, q)
  <2>1. q * w \in Nat
    OBVIOUS
  <2> DEFINE m == q * w
  <2> HIDE DEF m
  <2>2. m \in Nat /\ (100 * d > m => 100 * e > m)
    BY <2>1 DEF m
  <2> QED
    BY <2>2 DEF Exceeds, m
<1>2. ASSUME Exceeds(d, w + d, q) PROVE Exceeds(e, w + e, q)
  <2>1. w + d > 0 /\ 100 * d > q * (w + d)
    BY <1>2 DEF Exceeds
  <2>2. q * (w + d) = q * w + q * d /\ q * (w + e) = q * w + q * e
    OBVIOUS
  <2>3. q * w \in Nat
    OBVIOUS
  <2>4. q < 100
    <3>1. q >= 100 => q * d >= 100 * d
      OBVIOUS
    <3>2. 100 * d \in Nat /\ q * d \in Nat
      OBVIOUS
    <3> DEFINE a == q * w
               b == q * d
               c == 100 * d
    <3> HIDE DEF a, b, c
    <3>3. a \in Nat /\ b \in Nat /\ c \in Nat /\ c > a + b /\ (q >= 100 => b >= c)
      BY <2>1, <2>2, <2>3, <3>1, <3>2 DEF a, b, c
    <3> QED
      BY <3>3
  <2>5. PICK x \in Nat : e = d + x
    <3>1. e - d \in Nat /\ e = d + (e - d)
      OBVIOUS
    <3> QED
      BY <3>1
  <2>6. 100 * e = 100 * d + 100 * x /\ q * e = q * d + q * x
    BY <2>5
  <2>7. 100 * x >= q * x
    BY <2>4
  <2>8. 100 * e > q * w + q * e
    <3>1. 100 * d \in Nat /\ q * d \in Nat /\ 100 * x \in Nat /\ q * x \in Nat
      OBVIOUS
    <3> DEFINE a == q * w
               b == q * d
               c == 100 * d
               y == 100 * x
               z == q * x
               u == 100 * e
               v == q * e
    <3>2. /\ a \in Nat /\ b \in Nat /\ c \in Nat /\ y \in Nat /\ z \in Nat
          /\ c > a + b /\ y >= z /\ u = c + y /\ v = b + z
      BY <2>1, <2>2, <2>3, <2>6, <2>7, <3>1
    <3> HIDE DEF a, b, c, y, z, u, v
    <3>3. u > a + v
      BY <3>2
    <3> QED
      BY <3>3 DEF a, u, v
  <2>9. w + e > 0
    BY <2>1
  <2> QED
    BY <2>2, <2>8, <2>9 DEF Exceeds
<1> QED
  BY <1>1, <1>2

\* More drops, errors or latency make no status better.
LEMMA NoBetterStatus ==
    ASSUME NEW s, NEW r, s.logged = r.logged, s.logged \in Nat,
           s.dropped \in Nat, r.dropped \in Nat, s.dropped <= r.dropped,
           s.errors \in Nat, r.errors \in Nat, s.errors <= r.errors,
           s.maxLog \in Nat, r.maxLog \in Nat, s.maxLog <= r.maxLog,
           s.depth \in Nat, r.depth \in Nat, s.depth <= r.depth
    PROVE  Rank(DetermineStatus(s)) <= Rank(DetermineStatus(r))
<1> DEFINE Bad(a, drop, error, latency, usage) ==
               \/ Exceeds(a.dropped, a.logged + a.dropped, drop)
               \/ Exceeds(a.errors, a.logged, error)
               \/ a.maxLog > latency
               \/ Exceeds(a.depth, QueueCapacity, usage)
           Worse(a) == Bad(a, DropDegraded, ErrorDegraded, LatencyDegraded, UsageDegraded)
           Bads(a) == Bad(a, DropHealthy, ErrorHealthy, LatencyHealthy, UsageHealthy)
<1>1. ASSUME NEW drop \in Nat, NEW error \in Nat, NEW latency \in Nat, NEW usage \in Nat,
             Bad(s, drop, error, latency, usage)
      PROVE  Bad(r, drop, error, latency, usage)
  <2>1. Exceeds(s.dropped, s.logged + s.dropped, drop) => Exceeds(r.dropped, r.logged + r.dropped, drop)
    BY ExceedsMore
  <2>2. Exceeds(s.errors, s.logged, error) => Exceeds(r.errors, r.logged, error)
    BY ExceedsMore
  <2>3. s.maxLog > latency => r.maxLog > latency
    OBVIOUS
  <2>4. Exceeds(s.depth, QueueCapacity, usage) => Exceeds(r.depth, QueueCapacity, usage)
    BY ThresholdsAssumption, ExceedsMore
  <2> HIDE DEF Exceeds
  <2> QED
    BY <1>1, <2>1, <2>2, <2>3, <2>4
<1> HIDE DEF Bad
<1>2. (Worse(s) => Worse(r)) /\ (Bads(s) => Bads(r))
  BY <1>1, ThresholdsAssumption
<1>3. ASSUME NEW a
      PROVE  /\ Worse(a) => DetermineStatus(a) = "unhealthy"
             /\ ~Worse(a) /\ Bads(a) => DetermineStatus(a) = "degraded"
             /\ ~Worse(a) /\ ~Bads(a) => DetermineStatus(a) = "healthy"
  <2> HIDE DEF Exceeds
  <2> QED
    BY DEF DetermineStatus, Bad, Worse, Bads
<1>4. Rank("healthy") = 0 /\ Rank("degraded") = 1 /\ Rank("unhealthy") = 2
  BY DEF Rank
<1> HIDE DEF Worse, Bads
<1>5. CASE Worse(r)
  <2>1. DetermineStatus(r) = "unhealthy"
    BY <1>3, <1>5
  <2>2. Rank(DetermineStatus(s)) \in {0, 1, 2}
    BY <1>3, <1>4
  <2> QED
    BY <1>4, <2>1, <2>2
<1>6. CASE ~Worse(r) /\ Bads(r)
  <2>1. Rank(DetermineStatus(r)) = 1
    BY <1>3, <1>4, <1>6
  <2>2. Rank(DetermineStatus(s)) \in {0, 1}
    BY <1>2, <1>3, <1>4, <1>6
  <2> QED
    BY <2>1, <2>2
<1>7. CASE ~Worse(r) /\ ~Bads(r)
  <2>1. Rank(DetermineStatus(r)) = 0 /\ Rank(DetermineStatus(s)) = 0
    BY <1>2, <1>3, <1>4, <1>7
  <2> QED
    BY <2>1
<1> QED
  BY <1>5, <1>6, <1>7

LEMMA MetricFields ==
    ASSUME MetricTypes, NEW t \in Threads
    PROVE  /\ metric[t] \in MetricCalls
           /\ metric[t].pc \in {"idle", "load", "exchange", "reset", "read"}
           /\ metric[t].peak \in Peaks \cup {"none"} /\ metric[t].amount \in Nat
           /\ metric[t].seen \in Nat /\ metric[t].next \in 0..12
           /\ metric[t].snapshot \in [Fields -> Nat] /\ metric[t].floor \in Statuses
           /\ metric[t].mixed \in BOOLEAN
<1>1. metric[t] \in MetricCalls
  BY DEF MetricTypes
<1>2. ASSUME NEW r \in MetricCalls
      PROVE  /\ r.pc \in {"idle", "load", "exchange", "reset", "read"}
             /\ r.peak \in Peaks \cup {"none"} /\ r.amount \in Amounts \cup {0}
             /\ r.seen \in Nat /\ r.next \in 0..12 /\ r.snapshot \in [Fields -> Nat]
             /\ r.floor \in Statuses /\ r.mixed \in BOOLEAN
  BY DEF MetricCalls
<1>3. metric[t].amount \in Nat
  <2>1. metric[t].amount \in Amounts \cup {0}
    BY <1>1, <1>2
  <2>2. \A a \in Amounts \cup {0} : a \in Nat
    BY AmountsAssumption
  <2> QED
    BY <2>1, <2>2, Zenon
<1> QED
  BY <1>1, <1>2, <1>3

LEMMA ZeroType == Zero \in [Fields -> Nat] /\ \A f \in Fields : Zero[f] = 0
BY DEF Zero

LEMMA IdleCall ==
    /\ NoMetricCall \in MetricCalls /\ NoMetricCall.pc = "idle" /\ NoMetricCall.next = 0
    /\ NoMetricCall.floor = "healthy" /\ NoMetricCall.snapshot = Zero
<1>1. "healthy" \in Statuses
  BY DEF Statuses
<1> HIDE DEF Zero
<1> QED
  BY <1>1, ZeroType DEF NoMetricCall, MetricCalls

LEMMA CheckFields == {"logged", "dropped", "errors", "maxLog", "depth"} \subseteq Fields
BY DEF Fields, Counters

\* While nothing is reset a check that is under way sees no better status.
LEMMA NowKept ==
    ASSUME MetricTypes, MetricTypes', NEW t \in Threads,
           metric'[t].next = metric[t].next, metric'[t].snapshot = metric[t].snapshot,
           \A f \in {"dropped", "errors", "maxLog"} : value[f] <= value'[f]
    PROVE  Rank(DetermineStatus(LoadedNow(t))) <= Rank(DetermineStatus(LoadedNow(t)'))
<1> DEFINE s == metric[t].snapshot
           n == metric[t].next
           a == LoadedNow(t)
           b == LoadedNow(t)'
<1>1. /\ s["logged"] \in Nat /\ s["dropped"] \in Nat /\ s["errors"] \in Nat /\ s["maxLog"] \in Nat
      /\ \A f \in {"dropped", "errors", "maxLog"} : value[f] \in Nat /\ value'[f] \in Nat
  BY MetricFields, CheckFields DEF MetricTypes
<1>2. /\ a.logged = s["logged"] /\ b.logged = s["logged"] /\ a.depth = 0 /\ b.depth = 0
      /\ a.dropped = (IF n > 2 THEN s["dropped"] ELSE value["dropped"])
      /\ b.dropped = (IF n > 2 THEN s["dropped"] ELSE value'["dropped"])
      /\ a.errors = (IF n > 5 THEN s["errors"] ELSE value["errors"])
      /\ b.errors = (IF n > 5 THEN s["errors"] ELSE value'["errors"])
      /\ a.maxLog = (IF n > 8 THEN s["maxLog"] ELSE value["maxLog"])
      /\ b.maxLog = (IF n > 8 THEN s["maxLog"] ELSE value'["maxLog"])
  BY DEF LoadedNow
<1> HIDE DEF a, b, s, n
<1>3. /\ a.dropped \in Nat /\ b.dropped \in Nat /\ a.dropped <= b.dropped
      /\ a.errors \in Nat /\ b.errors \in Nat /\ a.errors <= b.errors
      /\ a.maxLog \in Nat /\ b.maxLog \in Nat /\ a.maxLog <= b.maxLog
      /\ a.logged \in Nat /\ a.logged = b.logged
      /\ a.depth \in Nat /\ b.depth \in Nat /\ a.depth <= b.depth
  BY <1>1, <1>2
<1>4. Rank(DetermineStatus(a)) <= Rank(DetermineStatus(b))
  BY <1>3, NoBetterStatus
<1> QED
  BY <1>4 DEF a, b

LEMMA RankType == \A a : Rank(DetermineStatus(a)) \in 0..2
<1>1. \A a : DetermineStatus(a) \in {"healthy", "degraded", "unhealthy"}
  BY DEF DetermineStatus
<1> QED
  BY <1>1 DEF Rank

LEMMA RankOfStatus == \A s \in Statuses : Rank(s) \in 0..2
BY DEF Rank, Statuses

LEMMA ChecksKept ==
    ASSUME MetricTypes, MetricTypes', ChecksSoFar, resetting' = resetting,
           \A f \in {"dropped", "errors", "maxLog"} : value[f] <= value'[f],
           \A t \in Threads : metric'[t].pc = "read" => metric'[t] = metric[t]
    PROVE  ChecksSoFar'
<1> SUFFICES ASSUME NEW t \in Threads, metric'[t].pc = "read", ~metric'[t].mixed
             PROVE  /\ resetting' = NoThread
                    /\ Rank(DetermineStatus(LoadedNow(t)')) >= Rank(metric'[t].floor)
  BY DEF ChecksSoFar
<1>1. metric'[t] = metric[t]
  OBVIOUS
<1>2. resetting = NoThread /\ Rank(DetermineStatus(LoadedNow(t))) >= Rank(metric[t].floor)
  BY <1>1 DEF ChecksSoFar
<1>3. Rank(DetermineStatus(LoadedNow(t))) <= Rank(DetermineStatus(LoadedNow(t)'))
  BY <1>1, NowKept
<1>4. PICK x \in 0..2, y \in 0..2, z \in 0..2 :
          /\ x = Rank(DetermineStatus(LoadedNow(t))) /\ y = Rank(DetermineStatus(LoadedNow(t)'))
          /\ z = Rank(metric[t].floor)
  BY RankType, RankOfStatus, MetricFields
<1> QED
  BY <1>1, <1>2, <1>3, <1>4

\* Calls that touch neither maxima nor a reset.
LEMMA UpdatesKept ==
    ASSUME UpdatesRight, MaximaOwed, ResetSoFar,
           peak' = peak, mixed' = mixed, resetting' = resetting,
           \A p \in Peaks : value'[p] = value[p],
           \A u \in Threads : \/ metric'[u] = metric[u]
                              \/ metric[u].pc \in {"idle", "read"} /\ metric'[u].pc \in {"idle", "read"}
    PROVE  UpdatesRight' /\ MaximaOwed' /\ ResetSoFar'
<1>1. \A u \in Threads : Updates(u)' => Updates(u) /\ metric'[u] = metric[u]
  BY DEF Updates
<1>2. \A u \in Threads : Updates(u) => Updates(u)' /\ metric'[u] = metric[u]
  BY DEF Updates
<1>3. \A u \in Threads : metric'[u].pc = "reset" => metric'[u] = metric[u]
  OBVIOUS
<1>4. UpdatesRight'
  BY <1>1 DEF UpdatesRight
<1>5. MaximaOwed'
  BY <1>2 DEF MaximaOwed, Owes
<1>6. Updating' = Updating
  BY <1>1, <1>2 DEF Updating, Updates
<1>7. ResetSoFar'
  BY <1>3, <1>6, FieldsInOrder DEF ResetSoFar
<1> QED
  BY <1>4, <1>5, <1>7

LEMMA MetricInitial == MetricInit => MetricState
<1> SUFFICES ASSUME MetricInit PROVE MetricState
  OBVIOUS
<1>1. \A t \in Threads : metric[t] = NoMetricCall /\ metric[t].pc = "idle"
  BY IdleCall DEF MetricInit
<1>2. MetricTypes
  <2>1. metric \in [Threads -> MetricCalls]
    BY IdleCall DEF MetricInit
  <2>2. begun \in 0..MaxMetricCalls
    BY AmountsAssumption DEF MetricInit
  <2> QED
    BY <1>1, <2>1, <2>2, ZeroType, NoThreadAssumption DEF MetricInit, MetricTypes
<1>3. UpdatesRight /\ ResetSoFar /\ ChecksSoFar
  BY <1>1 DEF UpdatesRight, ResetSoFar, ChecksSoFar, Updates
<1>4. MaximaOwed
  <2>1. \A p \in Peaks : value[p] = 0 /\ peak[p] = 0
    BY PeakFields, ZeroType DEF MetricInit
  <2> QED
    BY <2>1 DEF MaximaOwed
<1> QED
  BY <1>2, <1>3, <1>4 DEF MetricState

LEMMA RecordMessageKeeps ==
    ASSUME MetricState, NEW t \in Threads, NEW c \in Counted, RecordMessage(t, c)
    PROVE  MetricState'
<1>1. /\ value' = [value EXCEPT ![c] = @ + 1] /\ begun' = begun + 1 /\ begun < MaxMetricCalls
      /\ UNCHANGED <<metric, resetting, peak, mixed>>
  BY DEF RecordMessage, Starts, metricGhosts
<1>2. c \in Fields /\ c \notin Peaks
  BY PeakFields
<1>3. value' \in [Fields -> Nat] /\ \A f \in Fields : value'[f] = IF f = c THEN value[f] + 1 ELSE value[f]
  BY <1>1, <1>2 DEF MetricState, MetricTypes
<1>4. begun' \in 0..MaxMetricCalls
  BY <1>1, AmountsAssumption DEF MetricState, MetricTypes
<1>5. MetricTypes'
  BY <1>1, <1>3, <1>4 DEF MetricState, MetricTypes
<1>6. \A f \in Fields : value[f] <= value'[f]
  BY <1>3 DEF MetricState, MetricTypes
<1>7. ChecksSoFar'
  BY <1>1, <1>5, <1>6, CheckFields, ChecksKept DEF MetricState
<1>8. \A p \in Peaks : value'[p] = value[p]
  BY <1>2, <1>3, PeakFields
<1>9. UpdatesRight' /\ MaximaOwed' /\ ResetSoFar'
  BY <1>1, <1>8, UpdatesKept DEF MetricState
<1> QED
  BY <1>5, <1>7, <1>9 DEF MetricState

LEMMA RecordAmountKeeps ==
    ASSUME MetricState, NEW t \in Threads, NEW p \in Peaks, NEW n \in Amounts, RecordAmount(t, p, n)
    PROVE  MetricState'
<1> DEFINE g == Gauge(p)
           r == [metric[t] EXCEPT !.pc = "load", !.peak = p, !.amount = n]
<1>1. /\ metric[t].pc = "idle" /\ begun < MaxMetricCalls /\ begun' = begun + 1
      /\ value' = [value EXCEPT ![g] = IF p = "maxDepth" THEN n ELSE @ + n]
      /\ metric' = [metric EXCEPT ![t].pc = "load", ![t].peak = p, ![t].amount = n]
      /\ peak' = [peak EXCEPT ![p] = Larger(@, n)]
      /\ mixed' = (mixed \/ resetting # NoThread) /\ resetting' = resetting
  BY DEF RecordAmount, Starts
<1>2. /\ g \in Fields /\ g \notin Peaks /\ g \in {"logTime", "flushTime", "depth"} /\ p \in Fields
      /\ n \in Nat
  BY PeakFields, PeaksAssumption, AmountsAssumption
<1> HIDE DEF g
<1>3. value' \in [Fields -> Nat] /\ \A f \in Fields : f # g => value'[f] = value[f]
  BY <1>1, <1>2 DEF MetricState, MetricTypes
<1>4. /\ r \in MetricCalls /\ r.pc = "load" /\ r.peak = p /\ r.amount = n
  <2>1. metric[t] \in MetricCalls
    BY DEF MetricState, MetricTypes
  <2> QED
    BY <2>1 DEF MetricCalls
<1>5. /\ metric' \in [Threads -> MetricCalls] /\ metric'[t] = r
      /\ \A u \in Threads \ {t} : metric'[u] = metric[u]
  <2>1. metric' = [metric EXCEPT ![t] = r]
    BY <1>1 DEF MetricState, MetricTypes
  <2> HIDE DEF r
  <2> QED
    BY <1>4, <2>1 DEF MetricState, MetricTypes
<1> HIDE DEF r
<1>6. /\ peak' \in [Fields -> Nat] /\ \A q \in Fields \ {p} : peak'[q] = peak[q]
      /\ peak'[p] = IF peak[p] < n THEN n ELSE peak[p]
  BY <1>1, <1>2 DEF MetricState, MetricTypes, Larger
<1>7. \A q \in Peaks : q \in Fields /\ peak[q] \in Nat /\ peak'[q] \in Nat /\ value[q] \in Nat
                       /\ value'[q] = value[q] /\ peak[q] <= peak'[q]
  <2>1. \A q \in Peaks : q \in Fields /\ q # g
    BY <1>2, PeakFields
  <2>2. \A q \in Peaks : peak[q] \in Nat /\ peak'[q] \in Nat /\ value[q] \in Nat /\ value'[q] = value[q]
    BY <1>3, <1>6, <2>1 DEF MetricState, MetricTypes
  <2> QED
    BY <1>2, <1>6, <2>1, <2>2
<1>8. MetricTypes'
  <2>1. begun' \in 0..MaxMetricCalls
    BY <1>1, AmountsAssumption DEF MetricState, MetricTypes
  <2>2. \A u \in Threads : resetting' = u <=> metric'[u].pc = "reset"
    BY <1>1, <1>4, <1>5 DEF MetricState, MetricTypes
  <2>3. mixed' \in BOOLEAN
    BY <1>1 DEF MetricState, MetricTypes
  <2> QED
    BY <1>1, <1>3, <1>5, <1>6, <2>1, <2>2, <2>3 DEF MetricState, MetricTypes
<1>9. ChecksSoFar'
  <2>1. \A f \in {"dropped", "errors", "maxLog"} : f \in Fields /\ f # g
    BY <1>2, CheckFields
  <2>2. \A f \in {"dropped", "errors", "maxLog"} : value[f] <= value'[f]
    BY <1>3, <2>1 DEF MetricState, MetricTypes
  <2>3. \A u \in Threads : metric'[u].pc = "read" => metric'[u] = metric[u]
    BY <1>4, <1>5
  <2> QED
    BY <1>1, <1>8, <2>2, <2>3, ChecksKept DEF MetricState
<1>10. \A u \in Threads \ {t} : (Updates(u)' <=> Updates(u)) /\ metric'[u] = metric[u]
  BY <1>5 DEF Updates
<1>11. ~Updates(t) /\ Updates(t)'
  BY <1>1, <1>4, <1>5 DEF Updates
<1>12. UpdatesRight'
  <2> SUFFICES ASSUME NEW u \in Threads, Updates(u)'
               PROVE  /\ metric'[u].peak \in Peaks
                      /\ metric'[u].pc = "exchange" => metric'[u].amount > metric'[u].seen
                      /\ ~mixed' => metric'[u].amount <= peak'[metric'[u].peak]
    BY DEF UpdatesRight
  <2>1. CASE u = t
    <3>1. n <= peak'[p]
      BY <1>2, <1>6, <1>7
    <3> QED
      BY <1>4, <1>5, <2>1, <3>1
  <2>2. CASE u # t
    <3>1. /\ metric'[u] = metric[u] /\ metric[u].peak \in Peaks
          /\ metric[u].pc = "exchange" => metric[u].amount > metric[u].seen
          /\ ~mixed => metric[u].amount <= peak[metric[u].peak]
      BY <1>10, <2>2 DEF MetricState, UpdatesRight
    <3>2. metric[u].amount \in Nat
      BY MetricFields DEF MetricState
    <3>3. ~mixed' => ~mixed
      BY <1>1
    <3>4. PICK q \in Peaks : q = metric[u].peak
      BY <3>1
    <3>5. metric[u].amount <= peak[q] => metric[u].amount <= peak'[q]
      BY <1>7, <3>2
    <3> QED
      BY <3>1, <3>3, <3>4, <3>5
  <2> QED
    BY <2>1, <2>2
<1>13. MaximaOwed'
  <2> SUFFICES ASSUME ~mixed', resetting' = NoThread, NEW q \in Peaks
               PROVE  /\ value'[q] <= peak'[q]
                      /\ value'[q] = peak'[q] \/ \E u \in Threads : Owes(u, q)'
    BY DEF MaximaOwed
  <2>1. ~mixed /\ resetting = NoThread
    BY <1>1
  <2>2. value[q] <= peak[q] /\ (value[q] = peak[q] \/ \E u \in Threads : Owes(u, q))
    BY <2>1 DEF MetricState, MaximaOwed
  <2>3. value'[q] <= peak'[q]
    BY <1>7, <2>2
  <2>4. CASE peak'[q] = peak[q]
    <3>1. ASSUME NEW u \in Threads, Owes(u, q) PROVE Owes(u, q)'
      <4>1. u # t /\ metric'[u] = metric[u] /\ Updates(u)'
        BY <1>10, <1>11, <3>1 DEF Owes
      <4> QED
        BY <2>4, <3>1, <4>1 DEF Owes
    <3> QED
      BY <1>7, <2>2, <2>3, <2>4, <3>1
  <2>5. CASE peak'[q] # peak[q]
    <3>1. q = p /\ peak'[p] = n
      BY <1>6, <1>7, <2>5
    <3>2. Owes(t, q)'
      BY <1>4, <1>5, <1>11, <3>1 DEF Owes
    <3> QED
      BY <2>3, <3>2
  <2> QED
    BY <2>4, <2>5
<1>14. ResetSoFar'
  <2> SUFFICES ASSUME ~mixed', NEW u \in Threads, metric'[u].pc = "reset" PROVE FALSE
    BY DEF ResetSoFar
  <2>1. resetting' = u /\ resetting = NoThread
    BY <1>1, <1>8 DEF MetricTypes
  <2> QED
    BY <1>1, <2>1, NoThreadAssumption
<1> QED
  BY <1>8, <1>9, <1>12, <1>13, <1>14 DEF MetricState

\* A load of the maximum, after which the update goes on or has nothing to do.
LEMMA SeenKeeps ==
    ASSUME MetricState, NEW t \in Threads, Updates(t), Seen(t),
           UNCHANGED <<value, resetting, begun, metricGhosts>>
    PROVE  MetricState'
<1> DEFINE q == metric[t].peak
           held == value[q]
           on == [metric[t] EXCEPT !.pc = "exchange", !.seen = held]
           r == IF metric[t].amount > held THEN on ELSE NoMetricCall
<1>1. /\ metric' = [metric EXCEPT ![t] = r]
      /\ UNCHANGED <<value, resetting, begun, peak, mixed>>
  BY DEF Seen, metricGhosts
<1>2. /\ metric[t] \in MetricCalls /\ metric[t].pc \in {"load", "exchange"} /\ q \in Peaks
      /\ metric[t].amount \in Nat /\ held \in Nat
      /\ ~mixed => metric[t].amount <= peak[q]
  <2>1. metric[t] \in MetricCalls /\ metric[t].amount \in Nat
    BY MetricFields DEF MetricState
  <2>2. metric[t].pc \in {"load", "exchange"} /\ q \in Peaks /\ (~mixed => metric[t].amount <= peak[q])
    BY DEF MetricState, UpdatesRight, Updates
  <2>3. held \in Nat
    BY <2>2, PeakFields DEF MetricState, MetricTypes
  <2> QED
    BY <2>1, <2>2, <2>3
<1>3. /\ on \in MetricCalls /\ on.pc = "exchange" /\ on.seen = held
      /\ on.amount = metric[t].amount /\ on.peak = q
  <2> HIDE DEF held
  <2> QED
    BY <1>2 DEF MetricCalls
<1> HIDE DEF on
<1>4. r \in MetricCalls /\ (r = on \/ r.pc = "idle")
  BY <1>3, IdleCall
<1>5. /\ metric' \in [Threads -> MetricCalls] /\ metric'[t] = r
      /\ \A u \in Threads \ {t} : metric'[u] = metric[u]
  <2> HIDE DEF r
  <2> QED
    BY <1>1, <1>4 DEF MetricState, MetricTypes
<1>6. metric'[t].pc \in {"exchange", "idle"}
  <2> HIDE DEF r
  <2> QED
    BY <1>3, <1>4, <1>5
<1>7. MetricTypes'
  <2>1. \A u \in Threads : resetting' = u <=> metric'[u].pc = "reset"
    BY <1>1, <1>2, <1>5, <1>6 DEF MetricState, MetricTypes
  <2> QED
    BY <1>1, <1>5, <2>1 DEF MetricState, MetricTypes
<1>8. ChecksSoFar'
  <2>1. \A f \in {"dropped", "errors", "maxLog"} : value[f] <= value'[f]
    BY <1>1, CheckFields DEF MetricState, MetricTypes
  <2>2. \A u \in Threads : metric'[u].pc = "read" => metric'[u] = metric[u]
    BY <1>5, <1>6
  <2> QED
    BY <1>1, <1>7, <2>1, <2>2, ChecksKept DEF MetricState
<1>9. \A u \in Threads \ {t} : (Updates(u)' <=> Updates(u)) /\ metric'[u] = metric[u]
  BY <1>5 DEF Updates
<1>10. CASE metric[t].amount > held
  <2>1. metric'[t] = on /\ Updates(t)'
    BY <1>3, <1>5, <1>10 DEF Updates
  <2>2. UpdatesRight'
    <3> SUFFICES ASSUME NEW u \in Threads, Updates(u)'
                 PROVE  /\ metric'[u].peak \in Peaks
                        /\ metric'[u].pc = "exchange" => metric'[u].amount > metric'[u].seen
                        /\ ~mixed' => metric'[u].amount <= peak'[metric'[u].peak]
      BY DEF UpdatesRight
    <3>1. CASE u = t
      BY <1>1, <1>2, <1>3, <1>10, <2>1, <3>1
    <3>2. CASE u # t
      BY <1>1, <1>9, <3>2 DEF MetricState, UpdatesRight
    <3> QED
      BY <3>1, <3>2
  <2>3. ASSUME NEW p \in Peaks, NEW u \in Threads, Owes(u, p) PROVE Owes(u, p)'
    BY <1>1, <1>3, <1>9, <2>1, <2>3 DEF Owes
  <2>4. MaximaOwed'
    BY <1>1, <2>3 DEF MetricState, MaximaOwed
  <2>5. ResetSoFar'
    <3>1. \A u \in Threads : metric'[u].pc = "reset" => metric'[u] = metric[u] /\ Updating
      BY <1>2, <1>5, <1>6 DEF Updating
    <3> QED
      BY <1>1, <3>1 DEF MetricState, ResetSoFar
  <2> QED
    BY <1>7, <1>8, <2>2, <2>4, <2>5 DEF MetricState
<1>11. CASE ~(metric[t].amount > held)
  <2>1. ~Updates(t)'
    BY <1>5, <1>11, IdleCall DEF Updates
  <2>2. UpdatesRight'
    BY <1>1, <1>9, <2>1 DEF MetricState, UpdatesRight
  <2>3. MaximaOwed'
    <3> SUFFICES ASSUME ~mixed, resetting = NoThread, NEW p \in Peaks
                 PROVE  /\ value[p] <= peak[p]
                        /\ value[p] = peak[p] \/ \E u \in Threads : Owes(u, p)'
      BY <1>1 DEF MaximaOwed
    <3>1. value[p] <= peak[p] /\ (value[p] = peak[p] \/ \E u \in Threads : Owes(u, p))
      BY DEF MetricState, MaximaOwed
    <3>2. CASE Owes(t, p)
      <4>1. q = p /\ metric[t].amount = peak[p]
        BY <3>2 DEF Owes
      <4>2. value[p] = peak[p]
        BY <1>2, <1>11, <3>1, <4>1
      <4> QED
        BY <3>1, <4>2
    <3>3. ASSUME NEW u \in Threads \ {t}, Owes(u, p) PROVE Owes(u, p)'
      BY <1>1, <1>9, <3>3 DEF Owes
    <3> QED
      BY <3>1, <3>2, <3>3
  <2>4. ResetSoFar'
    <3>1. \A u \in Threads : metric'[u].pc = "reset" => metric'[u] = metric[u] /\ Updating
      BY <1>2, <1>5, <1>6 DEF Updating
    <3> QED
      BY <1>1, <3>1 DEF MetricState, ResetSoFar
  <2> QED
    BY <1>7, <1>8, <2>2, <2>3, <2>4 DEF MetricState
<1> QED
  BY <1>10, <1>11

\* An exchange succeeds only on the maximum seen, so it never makes it smaller.
LEMMA ExchangeKeeps ==
    ASSUME MetricState, NEW t \in Threads, Exchange(t)
    PROVE  MetricState'
<1> DEFINE q == metric[t].peak
           n == metric[t].amount
<1>1. /\ metric[t].pc = "exchange" /\ value[q] = metric[t].seen
      /\ value' = [value EXCEPT ![q] = n]
      /\ metric' = [metric EXCEPT ![t] = NoMetricCall]
      /\ UNCHANGED <<resetting, begun, peak, mixed>>
  BY DEF Exchange, metricGhosts
<1>2. /\ q \in Peaks /\ n \in Nat /\ value[q] \in Nat /\ value[q] < n
      /\ ~mixed => n <= peak[q]
  <2>1. q \in Peaks /\ n > metric[t].seen /\ (~mixed => n <= peak[q])
    BY <1>1 DEF MetricState, UpdatesRight, Updates
  <2>2. n \in Nat /\ metric[t].seen \in Nat
    BY MetricFields DEF MetricState
  <2> QED
    BY <1>1, <2>1, <2>2
<1>3. q \in Fields
  BY <1>2, PeakFields
<1>4. value' \in [Fields -> Nat] /\ value'[q] = n /\ \A f \in Fields : f # q => value'[f] = value[f]
  BY <1>1, <1>2, <1>3 DEF MetricState, MetricTypes
<1>5. /\ metric' \in [Threads -> MetricCalls] /\ metric'[t] = NoMetricCall
      /\ \A u \in Threads \ {t} : metric'[u] = metric[u]
  BY <1>1, IdleCall DEF MetricState, MetricTypes
<1>6. metric'[t].pc = "idle" /\ Updates(t) /\ ~Updates(t)'
  BY <1>1, <1>5, IdleCall DEF Updates
<1>7. \A u \in Threads \ {t} : (Updates(u)' <=> Updates(u)) /\ metric'[u] = metric[u]
  BY <1>5 DEF Updates
<1>8. MetricTypes'
  <2>1. \A u \in Threads : resetting' = u <=> metric'[u].pc = "reset"
    BY <1>1, <1>5, <1>6 DEF MetricState, MetricTypes
  <2> QED
    BY <1>1, <1>4, <1>5, <2>1 DEF MetricState, MetricTypes
<1>9. ChecksSoFar'
  <2>1. \A f \in Fields : value[f] <= value'[f]
    <3>1. \A f \in Fields : value[f] \in Nat
      BY DEF MetricState, MetricTypes
    <3> QED
      BY <1>2, <1>4, <3>1
  <2>2. \A u \in Threads : metric'[u].pc = "read" => metric'[u] = metric[u]
    BY <1>5, <1>6
  <2> QED
    BY <1>1, <1>8, <2>1, <2>2, CheckFields, ChecksKept DEF MetricState
<1>10. UpdatesRight'
  BY <1>1, <1>6, <1>7 DEF MetricState, UpdatesRight
<1>11. MaximaOwed'
  <2> SUFFICES ASSUME ~mixed, resetting = NoThread, NEW p \in Peaks
               PROVE  /\ value'[p] <= peak[p]
                      /\ value'[p] = peak[p] \/ \E u \in Threads : Owes(u, p)'
    BY <1>1 DEF MaximaOwed
  <2>1. value[p] <= peak[p] /\ (value[p] = peak[p] \/ \E u \in Threads : Owes(u, p))
    BY DEF MetricState, MaximaOwed
  <2>2. ASSUME NEW u \in Threads \ {t}, Owes(u, p) PROVE Owes(u, p)'
    BY <1>1, <1>7, <2>2 DEF Owes
  <2>3. CASE p # q
    <3>1. value'[p] = value[p] /\ ~Owes(t, p)
      BY <1>4, <2>3, PeakFields DEF Owes
    <3> QED
      BY <2>1, <2>2, <3>1
  <2>4. CASE p = q
    <3>1. value'[p] <= peak[p] /\ value[p] # peak[p]
      <4>1. peak[q] \in Nat
        BY <1>3 DEF MetricState, MetricTypes
      <4> QED
        BY <1>2, <1>4, <2>4, <4>1
    <3>2. Owes(t, p) => value'[p] = peak[p]
      BY <1>4, <2>4 DEF Owes
    <3> QED
      BY <2>1, <2>2, <3>1, <3>2
  <2> QED
    BY <2>3, <2>4
<1>12. ResetSoFar'
  <2> SUFFICES ASSUME ~mixed, NEW u \in Threads, metric'[u].pc = "reset" PROVE FALSE
    BY <1>1 DEF ResetSoFar
  <2>1. metric[u].pc = "reset"
    BY <1>5, <1>6
  <2>2. ~Updating
    BY <2>1 DEF MetricState, ResetSoFar
  <2> QED
    BY <1>6, <2>2 DEF Updating, Updates
<1> QED
  BY <1>8, <1>9, <1>10, <1>11, <1>12 DEF MetricState

\* A reset spoils the checks under way, and what is known of the maxima if an
\* update is under way.
LEMMA ResetKeeps ==
    ASSUME MetricState, NEW t \in Threads, Reset(t)
    PROVE  MetricState'
<1> DEFINE r == [NoMetricCall EXCEPT !.pc = "reset", !.next = 1]
           Spoilt(u) == [metric[u] EXCEPT !.mixed = TRUE]
<1>1. /\ metric[t].pc = "idle" /\ resetting = NoThread /\ begun < MaxMetricCalls /\ begun' = begun + 1
      /\ resetting' = t /\ value' = value
      /\ metric' = [u \in Threads |-> IF u = t THEN r ELSE Spoilt(u)]
      /\ peak' = Zero /\ mixed' = (mixed \/ Updating)
  BY DEF Reset, Starts, CanReset
<1>2. r \in MetricCalls /\ r.pc = "reset" /\ r.next = 1
  <2>1. ASSUME NEW c \in MetricCalls, NEW k \in 0..12
        PROVE  LET d == [c EXCEPT !.pc = "reset", !.next = k]
               IN  d \in MetricCalls /\ d.pc = "reset" /\ d.next = k
    BY DEF MetricCalls
  <2>2. 1 \in 0..12
    OBVIOUS
  <2> QED
    BY <2>1, <2>2, IdleCall
<1>3. ASSUME NEW u \in Threads
      PROVE  /\ Spoilt(u) \in MetricCalls /\ Spoilt(u).mixed = TRUE
             /\ Spoilt(u).pc = metric[u].pc /\ Spoilt(u).peak = metric[u].peak
             /\ Spoilt(u).amount = metric[u].amount /\ Spoilt(u).seen = metric[u].seen
  <2>1. metric[u] \in MetricCalls
    BY DEF MetricState, MetricTypes
  <2> QED
    BY <2>1 DEF MetricCalls
<1> HIDE DEF r, Spoilt
<1>4. /\ metric' \in [Threads -> MetricCalls] /\ metric'[t] = r
      /\ \A u \in Threads \ {t} : metric'[u] = Spoilt(u)
  BY <1>1, <1>2, <1>3
<1>5. MetricTypes'
  <2>1. \A u \in Threads : resetting' = u <=> metric'[u].pc = "reset"
    <3>1. \A u \in Threads : metric[u].pc # "reset"
      BY <1>1, NoThreadAssumption DEF MetricState, MetricTypes
    <3> QED
      BY <1>1, <1>2, <1>3, <1>4, <3>1
  <2>2. begun' \in 0..MaxMetricCalls
    BY <1>1, AmountsAssumption DEF MetricState, MetricTypes
  <2>3. mixed' \in BOOLEAN
    BY <1>1 DEF Updating
  <2> QED
    BY <1>1, <1>4, <2>1, <2>2, <2>3, ZeroType DEF MetricState, MetricTypes
<1>6. ~Updates(t) /\ ~Updates(t)' /\ \A u \in Threads \ {t} : Updates(u)' <=> Updates(u)
  BY <1>1, <1>2, <1>3, <1>4 DEF Updates
<1>7. ~mixed' => ~mixed /\ ~Updating
  BY <1>1
<1>8. UpdatesRight'
  <2> SUFFICES ASSUME NEW u \in Threads \ {t}, Updates(u)
               PROVE  /\ metric'[u].peak \in Peaks
                      /\ metric'[u].pc = "exchange" => metric'[u].amount > metric'[u].seen
                      /\ ~mixed' => FALSE
    BY <1>6 DEF UpdatesRight
  <2>1. Updating
    BY DEF Updating, Updates
  <2>2. metric[u].peak \in Peaks /\ (metric[u].pc = "exchange" => metric[u].amount > metric[u].seen)
    BY DEF MetricState, UpdatesRight
  <2> QED
    BY <1>3, <1>4, <1>7, <2>1, <2>2
<1>9. MaximaOwed'
  BY <1>1, NoThreadAssumption DEF MaximaOwed
<1>10. ResetSoFar'
  <2> SUFFICES ASSUME ~mixed', NEW u \in Threads, metric'[u].pc = "reset"
               PROVE  /\ ~Updating' /\ peak' = Zero
                      /\ \A i \in 1..11 : ~(i < metric'[u].next)
    BY DEF ResetSoFar
  <2>1. u = t
    BY <1>1, <1>5 DEF MetricTypes
  <2>2. ~Updating'
    BY <1>6, <1>7 DEF Updating, Updates
  <2>3. \A i \in 1..11 : ~(i < 1)
    OBVIOUS
  <2> QED
    BY <1>1, <1>2, <1>4, <2>1, <2>2, <2>3
<1>11. ChecksSoFar'
  BY <1>2, <1>3, <1>4 DEF ChecksSoFar
<1> QED
  BY <1>5, <1>8, <1>9, <1>10, <1>11 DEF MetricState

\* A store of the reset; after the last one every maximum is zero, unless an
\* update has come between.
LEMMA ResetFieldKeeps ==
    ASSUME MetricState, NEW t \in Threads, ResetField(t)
    PROVE  MetricState'
<1> DEFINE i == metric[t].next
<1>1. /\ metric[t].pc = "reset" /\ resetting = t /\ i \in 0..12
      /\ UNCHANGED <<begun, peak, mixed>>
  BY MetricFields DEF ResetField, metricGhosts, MetricState, MetricTypes
<1>2. \A u \in Threads : metric[u].pc = "read" => metric[u].mixed
  BY <1>1, NoThreadAssumption DEF MetricState, ChecksSoFar
<1>3. CASE i <= 11
  <2> DEFINE r == [metric[t] EXCEPT !.next = i + 1]
             g == FieldOrder[i]
  <2>1. /\ value' = [value EXCEPT ![g] = 0] /\ metric' = [metric EXCEPT ![t].next = i + 1]
        /\ resetting' = resetting
    BY <1>3, FieldsInOrder DEF ResetField
  <2>2. r \in MetricCalls /\ r.pc = "reset" /\ r.next = i + 1
    <3>1. metric[t] \in MetricCalls
      BY DEF MetricState, MetricTypes
    <3>2. i + 1 \in 0..12
      BY <1>1, <1>3
    <3> HIDE DEF i
    <3> QED
      BY <1>1, <3>1, <3>2 DEF MetricCalls
  <2>3. metric' = [metric EXCEPT ![t] = r]
    BY <2>1 DEF MetricState, MetricTypes
  <2> HIDE DEF r, g
  <2>4. /\ metric' \in [Threads -> MetricCalls] /\ metric'[t] = r
        /\ \A u \in Threads \ {t} : metric'[u] = metric[u]
    BY <2>2, <2>3 DEF MetricState, MetricTypes
  <2>5. value' \in [Fields -> Nat] /\ \A f \in Fields : value'[f] = IF f = g THEN 0 ELSE value[f]
    BY <2>1 DEF MetricState, MetricTypes
  <2>6. \A u \in Threads : metric'[u].pc = metric[u].pc /\ (u # t => metric'[u] = metric[u])
    BY <1>1, <2>2, <2>4
  <2>7. MetricTypes'
    BY <1>1, <2>1, <2>4, <2>5, <2>6 DEF MetricState, MetricTypes
  <2>8. \A u \in Threads : (Updates(u)' <=> Updates(u)) /\ (Updates(u) => u # t)
    BY <1>1, <2>6 DEF Updates
  <2>9. UpdatesRight'
    BY <1>1, <2>6, <2>8 DEF MetricState, UpdatesRight
  <2>10. MaximaOwed'
    BY <1>1, <2>1, NoThreadAssumption DEF MaximaOwed
  <2>11. Updating' = Updating
    BY <2>6 DEF Updating
  <2>12. ResetSoFar'
    <3> SUFFICES ASSUME ~mixed, NEW u \in Threads, metric'[u].pc = "reset"
                 PROVE  /\ ~Updating /\ peak = Zero
                        /\ \A j \in 1..11 : j < metric'[u].next /\ FieldOrder[j] \in Peaks =>
                                                value'[FieldOrder[j]] = 0
      BY <1>1, <2>11 DEF ResetSoFar, FieldOrder
    <3>1. u = t /\ metric'[u].next = i + 1
      BY <1>1, <2>1, <2>2, <2>4, <2>7 DEF MetricTypes
    <3>2. /\ ~Updating /\ peak = Zero
          /\ \A j \in 1..11 : j < i /\ FieldOrder[j] \in Peaks => value[FieldOrder[j]] = 0
      BY <1>1 DEF MetricState, ResetSoFar
    <3>3. ASSUME NEW j \in 1..11, j < i + 1, FieldOrder[j] \in Peaks PROVE value'[FieldOrder[j]] = 0
      <4>1. FieldOrder[j] \in Fields
        BY PeakFields
      <4>2. j < i \/ j = i
        BY <1>1, <3>3
      <4>3. j = i => FieldOrder[j] = g
        BY DEF g
      <4> QED
        BY <2>5, <3>2, <3>3, <4>1, <4>2, <4>3
    <3> QED
      BY <3>1, <3>2, <3>3
  <2>13. ChecksSoFar'
    <3>1. \A u \in Threads : metric'[u].pc = "read" => metric'[u].mixed
      BY <1>1, <1>2, <2>6
    <3> QED
      BY <3>1 DEF ChecksSoFar
  <2> QED
    BY <2>7, <2>9, <2>10, <2>12, <2>13 DEF MetricState
<1>4. CASE ~(i <= 11)
  <2>1. /\ metric' = [metric EXCEPT ![t] = NoMetricCall] /\ resetting' = NoThread /\ value' = value
    BY <1>4, FieldsInOrder DEF ResetField
  <2>2. /\ metric' \in [Threads -> MetricCalls] /\ metric'[t] = NoMetricCall
        /\ \A u \in Threads \ {t} : metric'[u] = metric[u]
    BY <2>1, IdleCall DEF MetricState, MetricTypes
  <2>3. \A u \in Threads : metric'[u].pc # "reset"
    BY <1>1, <2>2, IdleCall DEF MetricState, MetricTypes
  <2>4. MetricTypes'
    BY <1>1, <2>1, <2>2, <2>3, NoThreadAssumption DEF MetricState, MetricTypes
  <2>5. \A u \in Threads : (Updates(u)' <=> Updates(u)) /\ (Updates(u)' => metric'[u] = metric[u])
    BY <1>1, <2>2, IdleCall DEF Updates
  <2>6. UpdatesRight'
    BY <1>1, <2>5 DEF MetricState, UpdatesRight
  <2>7. ResetSoFar'
    BY <2>3 DEF ResetSoFar
  <2>8. MaximaOwed'
    <3> SUFFICES ASSUME ~mixed, NEW p \in Peaks PROVE value[p] = 0 /\ peak[p] = 0
      BY <1>1, <2>1 DEF MaximaOwed
    <3>1. /\ peak = Zero
          /\ \A j \in 1..11 : j < i /\ FieldOrder[j] \in Peaks => value[FieldOrder[j]] = 0
      BY <1>1 DEF MetricState, ResetSoFar
    <3>2. PICK j \in 1..11 : FieldOrder[j] = p
      BY PeakFields
    <3>3. j < i
      BY <1>1, <1>4
    <3> QED
      BY <3>1, <3>2, <3>3, PeakFields, ZeroType
  <2>9. ChecksSoFar'
    <3>1. \A u \in Threads : metric'[u].pc = "read" => metric'[u].mixed
      BY <1>2, <2>2, IdleCall
    <3> QED
      BY <3>1 DEF ChecksSoFar
  <2> QED
    BY <2>4, <2>6, <2>7, <2>8, <2>9 DEF MetricState
<1> QED
  BY <1>3, <1>4

LEMMA CheckCallKeeps ==
    ASSUME MetricState, NEW t \in Threads, CheckCall(t)
    PROVE  MetricState'
<1> DEFINE r == [NoMetricCall EXCEPT !.pc = "read", !.next = 1, !.mixed = resetting # NoThread]
<1>1. /\ metric[t].pc = "idle" /\ begun < MaxMetricCalls /\ begun' = begun + 1
      /\ metric' = [metric EXCEPT ![t] = r]
      /\ UNCHANGED <<value, resetting, peak, mixed>>
  BY DEF CheckCall, Starts, metricGhosts
<1>2. /\ r \in MetricCalls /\ r.pc = "read" /\ r.floor = "healthy"
      /\ (~r.mixed => resetting = NoThread)
  <2>1. ASSUME NEW c \in MetricCalls, NEW k \in 0..12, NEW m \in BOOLEAN
        PROVE  LET d == [c EXCEPT !.pc = "read", !.next = k, !.mixed = m]
               IN  d \in MetricCalls /\ d.pc = "read" /\ d.floor = c.floor /\ d.mixed = m
    BY DEF MetricCalls
  <2>2. CASE resetting # NoThread
    <3>1. (resetting # NoThread) = TRUE
      BY <2>2
    <3>2. r = [NoMetricCall EXCEPT !.pc = "read", !.next = 1, !.mixed = TRUE]
      BY <3>1
    <3>3. 1 \in 0..12 /\ TRUE \in BOOLEAN
      OBVIOUS
    <3>4. PICK c \in MetricCalls : c = NoMetricCall /\ c.floor = "healthy"
      BY IdleCall
    <3> HIDE DEF r
    <3>5. r = [c EXCEPT !.pc = "read", !.next = 1, !.mixed = TRUE]
      BY <3>2, <3>4
    <3>6. r \in MetricCalls /\ r.pc = "read" /\ r.floor = c.floor /\ r.mixed = TRUE
      BY <2>1, <3>3, <3>5
    <3> QED
      BY <2>2, <3>4, <3>6
  <2>3. CASE ~(resetting # NoThread)
    <3>1. (resetting # NoThread) = FALSE
      BY <2>3
    <3>2. r = [NoMetricCall EXCEPT !.pc = "read", !.next = 1, !.mixed = FALSE]
      BY <3>1
    <3>3. 1 \in 0..12 /\ FALSE \in BOOLEAN
      OBVIOUS
    <3>4. PICK c \in MetricCalls : c = NoMetricCall /\ c.floor = "healthy"
      BY IdleCall
    <3> HIDE DEF r
    <3>5. r = [c EXCEPT !.pc = "read", !.next = 1, !.mixed = FALSE]
      BY <3>2, <3>4
    <3>6. r \in MetricCalls /\ r.pc = "read" /\ r.floor = c.floor /\ r.mixed = FALSE
      BY <2>1, <3>3, <3>5
    <3> QED
      BY <2>3, <3>4, <3>6
  <2> QED
    BY <2>2, <2>3
<1> HIDE DEF r
<1>3. /\ metric' \in [Threads -> MetricCalls] /\ metric'[t] = r
      /\ \A u \in Threads \ {t} : metric'[u] = metric[u]
  BY <1>1, <1>2 DEF MetricState, MetricTypes
<1>4. MetricTypes'
  <2>1. begun' \in 0..MaxMetricCalls
    BY <1>1, AmountsAssumption DEF MetricState, MetricTypes
  <2>2. \A u \in Threads : resetting' = u <=> metric'[u].pc = "reset"
    BY <1>1, <1>2, <1>3 DEF MetricState, MetricTypes
  <2> QED
    BY <1>1, <1>3, <2>1, <2>2 DEF MetricState, MetricTypes
<1>5. UpdatesRight' /\ MaximaOwed' /\ ResetSoFar'
  <2>1. \A u \in Threads : \/ metric'[u] = metric[u]
                           \/ metric[u].pc \in {"idle", "read"} /\ metric'[u].pc \in {"idle", "read"}
    BY <1>1, <1>2, <1>3
  <2> QED
    BY <1>1, <2>1, UpdatesKept DEF MetricState
<1>6. ChecksSoFar'
  <2> SUFFICES ASSUME NEW u \in Threads, metric'[u].pc = "read", ~metric'[u].mixed
               PROVE  /\ resetting' = NoThread
                      /\ Rank(DetermineStatus(LoadedNow(u)')) >= Rank(metric'[u].floor)
    BY DEF ChecksSoFar
  <2>1. CASE u = t
    <3>1. resetting' = NoThread /\ metric'[u].floor = "healthy"
      BY <1>1, <1>2, <1>3, <2>1
    <3>2. Rank("healthy") = 0 /\ Rank(DetermineStatus(LoadedNow(u)')) \in 0..2
      BY RankType DEF Rank
    <3> QED
      BY <3>1, <3>2
  <2>2. CASE u # t
    <3>1. metric'[u] = metric[u] /\ LoadedNow(u)' = LoadedNow(u)
      BY <1>1, <1>3, <2>2 DEF LoadedNow
    <3> QED
      BY <1>1, <3>1 DEF MetricState, ChecksSoFar
  <2> QED
    BY <2>1, <2>2
<1> QED
  BY <1>4, <1>5, <1>6 DEF MetricState

\* A snapshot begins with the first field.
ReadsBegun == \A t \in Threads : metric[t].pc = "read" => metric[t].next >= 1

LEMMA StatusType == \A a : DetermineStatus(a) \in Statuses
BY DEF DetermineStatus, Statuses

\* The load of the next field leaves what would be seen now as it is; that of
\* the first one takes the status itself.
LEMMA ReadFieldKeeps ==
    ASSUME MetricState, ReadsBegun, NEW t \in Threads, ReadField(t)
    PROVE  MetricState' /\ metric'[t].next >= 1 /\ \A u \in Threads \ {t} : metric'[u] = metric[u]
<1> DEFINE i == metric[t].next
           g == FieldOrder[i]
           s == metric[t].snapshot
           floor == IF g = "logged" THEN DetermineStatus([value EXCEPT !.depth = 0])
                    ELSE metric[t].floor
           taken == [s EXCEPT ![g] = value[g]]
           r == [metric[t] EXCEPT !.next = i + 1, !.snapshot = taken, !.floor = floor]
<1>1. /\ metric[t].pc = "read" /\ i <= 11 /\ UNCHANGED <<value, resetting, begun, peak, mixed>>
      /\ metric' = [metric EXCEPT ![t].next = @ + 1, ![t].snapshot[g] = value[g],
                        ![t].floor = IF g = "logged" THEN DetermineStatus([value EXCEPT !.depth = 0])
                                     ELSE @]
  BY FieldsInOrder DEF ReadField, metricGhosts
<1>2. /\ metric[t] \in MetricCalls /\ i \in 1..11 /\ s \in [Fields -> Nat]
      /\ metric[t].floor \in Statuses /\ metric[t].mixed \in BOOLEAN
  BY <1>1, MetricFields DEF MetricState, ReadsBegun
<1>3. metric' = [metric EXCEPT ![t] = r]
  <2>1. metric \in [Threads -> MetricCalls]
    BY DEF MetricState, MetricTypes
  <2> HIDE DEF g
  <2> QED
    BY <1>1, <1>2, <2>1 DEF MetricCalls
<1>4. g \in Fields /\ value[g] \in Nat
  BY <1>2, PeakFields DEF MetricState, MetricTypes
<1>5. taken \in [Fields -> Nat] /\ taken[g] = value[g] /\ \A f \in Fields : f # g => taken[f] = s[f]
  <2> HIDE DEF g, s
  <2> QED
    BY <1>2, <1>4
<1>6. floor \in Statuses
  BY <1>2, StatusType
<1>7. i + 1 \in 0..12
  BY <1>2
<1> HIDE DEF taken, floor, g
<1>8. /\ r \in MetricCalls /\ r.pc = "read" /\ r.next = i + 1 /\ r.snapshot = taken
      /\ r.floor = floor /\ r.mixed = metric[t].mixed
  <2> HIDE DEF i
  <2> QED
    BY <1>1, <1>2, <1>5, <1>6, <1>7 DEF MetricCalls
<1> HIDE DEF r
<1>9. /\ metric' \in [Threads -> MetricCalls] /\ metric'[t] = r
      /\ \A u \in Threads \ {t} : metric'[u] = metric[u]
  BY <1>3, <1>8 DEF MetricState, MetricTypes
<1>10. MetricTypes'
  <2>1. \A u \in Threads : resetting' = u <=> metric'[u].pc = "reset"
    BY <1>1, <1>8, <1>9 DEF MetricState, MetricTypes
  <2> QED
    BY <1>1, <1>9, <2>1 DEF MetricState, MetricTypes
<1>11. UpdatesRight' /\ MaximaOwed' /\ ResetSoFar'
  <2>1. \A u \in Threads : \/ metric'[u] = metric[u]
                           \/ metric[u].pc \in {"idle", "read"} /\ metric'[u].pc \in {"idle", "read"}
    BY <1>1, <1>8, <1>9
  <2> QED
    BY <1>1, <2>1, UpdatesKept DEF MetricState
<1>12. ASSUME ~metric[t].mixed
       PROVE  Rank(DetermineStatus(LoadedNow(t)')) >= Rank(floor)
  <2> DEFINE a == LoadedNow(t)
             b == LoadedNow(t)'
  <2>1. /\ b.logged = taken["logged"] /\ b.depth = 0
        /\ b.dropped = (IF i + 1 > 2 THEN taken["dropped"] ELSE value["dropped"])
        /\ b.errors = (IF i + 1 > 5 THEN taken["errors"] ELSE value["errors"])
        /\ b.maxLog = (IF i + 1 > 8 THEN taken["maxLog"] ELSE value["maxLog"])
    <3>1. metric'[t].next = i + 1 /\ metric'[t].snapshot = taken /\ value' = value
      BY <1>1, <1>8, <1>9
    <3> HIDE DEF i
    <3> QED
      BY <3>1 DEF LoadedNow
  <2>2. /\ a.logged = s["logged"] /\ a.depth = 0
        /\ a.dropped = (IF i > 2 THEN s["dropped"] ELSE value["dropped"])
        /\ a.errors = (IF i > 5 THEN s["errors"] ELSE value["errors"])
        /\ a.maxLog = (IF i > 8 THEN s["maxLog"] ELSE value["maxLog"])
    BY DEF LoadedNow
  <2>3. /\ (i = 1 <=> g = "logged") /\ (i = 2 <=> g = "dropped")
        /\ (i = 5 <=> g = "errors") /\ (i = 8 <=> g = "maxLog")
    <3>1. i \in {1, 2, 3, 4, 5, 6, 7, 8, 9, 10, 11}
      BY <1>2
    <3> HIDE DEF i
    <3> QED
      BY <3>1, FieldsInOrder DEF g
  <2>4. \A f \in {"logged", "dropped", "errors", "maxLog"} : s[f] \in Nat /\ value[f] \in Nat /\ taken[f] \in Nat
    BY <1>2, <1>5, CheckFields DEF MetricState, MetricTypes
  <2>5. \A f \in {"logged", "dropped", "errors", "maxLog"} : taken[f] = IF f = g THEN value[f] ELSE s[f]
    BY <1>5, CheckFields
  <2> HIDE DEF a, b, s, i
  <2>6. CASE i = 1
    <3> DEFINE v == [value EXCEPT !.depth = 0]
    <3>1. floor = DetermineStatus(v)
      BY <2>3, <2>6 DEF floor
    <3>2. /\ v.logged = value["logged"] /\ v.dropped = value["dropped"] /\ v.errors = value["errors"]
          /\ v.maxLog = value["maxLog"] /\ v.depth = 0
      BY CheckFields DEF MetricState, MetricTypes
    <3>3. /\ b.logged = value["logged"] /\ b.dropped = value["dropped"] /\ b.errors = value["errors"]
          /\ b.maxLog = value["maxLog"] /\ b.depth = 0
      BY <2>1, <2>3, <2>5, <2>6
    <3> HIDE DEF v
    <3>4. Rank(DetermineStatus(v)) <= Rank(DetermineStatus(b))
      BY <2>4, <3>2, <3>3, NoBetterStatus
    <3>5. Rank(DetermineStatus(v)) \in 0..2 /\ Rank(DetermineStatus(b)) \in 0..2
      BY RankType
    <3> QED
      BY <3>1, <3>4, <3>5 DEF b
  <2>7. CASE i # 1
    <3>1. floor = metric[t].floor
      BY <2>3, <2>7 DEF floor
    <3>2. Rank(DetermineStatus(a)) >= Rank(metric[t].floor)
      BY <1>1, <1>12 DEF MetricState, ChecksSoFar, a
    <3>3. b.logged = a.logged
      BY <2>1, <2>2, <2>3, <2>5, <2>7
    <3>4. b.dropped = a.dropped
      BY <1>2, <2>1, <2>2, <2>3, <2>5, <2>7 DEF i
    <3>5. b.errors = a.errors
      BY <1>2, <2>1, <2>2, <2>3, <2>5 DEF i
    <3>6. b.maxLog = a.maxLog
      BY <1>2, <2>1, <2>2, <2>3, <2>5 DEF i
    <3>7. /\ a.logged \in Nat /\ a.dropped \in Nat /\ a.errors \in Nat /\ a.maxLog \in Nat
          /\ a.depth = 0 /\ b.depth = 0
      BY <2>1, <2>2, <2>4
    <3>8. Rank(DetermineStatus(a)) <= Rank(DetermineStatus(b))
      BY <3>3, <3>4, <3>5, <3>6, <3>7, NoBetterStatus
    <3>9. PICK x \in 0..2, y \in 0..2, z \in 0..2 :
              /\ x = Rank(DetermineStatus(a)) /\ y = Rank(DetermineStatus(b))
              /\ z = Rank(metric[t].floor)
      BY <1>2, RankType, RankOfStatus
    <3>10. Rank(DetermineStatus(b)) >= Rank(floor)
      BY <3>1, <3>2, <3>8, <3>9
    <3> QED
      BY <3>10 DEF b
  <2> QED
    BY <2>6, <2>7
<1>13. ChecksSoFar'
  <2> SUFFICES ASSUME NEW u \in Threads, metric'[u].pc = "read", ~metric'[u].mixed
               PROVE  /\ resetting' = NoThread
                      /\ Rank(DetermineStatus(LoadedNow(u)')) >= Rank(metric'[u].floor)
    BY DEF ChecksSoFar
  <2>1. CASE u = t
    BY <1>1, <1>8, <1>9, <1>12, <2>1 DEF MetricState, ChecksSoFar
  <2>2. CASE u # t
    <3>1. metric'[u] = metric[u] /\ LoadedNow(u)' = LoadedNow(u)
      BY <1>1, <1>9, <2>2 DEF LoadedNow
    <3> QED
      BY <1>1, <3>1 DEF MetricState, ChecksSoFar
  <2> QED
    BY <2>1, <2>2
<1> QED
  BY <1>2, <1>8, <1>9, <1>10, <1>11, <1>13 DEF MetricState

LEMMA CheckReturnKeeps ==
    ASSUME MetricState, NEW t \in Threads, CheckReturn(t)
    PROVE  MetricState'
<1>1. /\ metric[t].pc = "read" /\ metric' = [metric EXCEPT ![t] = NoMetricCall]
      /\ UNCHANGED <<value, resetting, begun, peak, mixed>>
  BY DEF CheckReturn, CheckDone, metricGhosts
<1>2. /\ metric' \in [Threads -> MetricCalls] /\ metric'[t] = NoMetricCall
      /\ \A u \in Threads \ {t} : metric'[u] = metric[u]
  BY <1>1, IdleCall DEF MetricState, MetricTypes
<1>3. metric'[t].pc = "idle"
  BY <1>2, IdleCall
<1>4. MetricTypes'
  <2>1. \A u \in Threads : resetting' = u <=> metric'[u].pc = "reset"
    BY <1>1, <1>2, <1>3 DEF MetricState, MetricTypes
  <2> QED
    BY <1>1, <1>2, <2>1 DEF MetricState, MetricTypes
<1>5. UpdatesRight' /\ MaximaOwed' /\ ResetSoFar'
  <2>1. \A u \in Threads : \/ metric'[u] = metric[u]
                           \/ metric[u].pc \in {"idle", "read"} /\ metric'[u].pc \in {"idle", "read"}
    BY <1>1, <1>2, <1>3
  <2> QED
    BY <1>1, <2>1, UpdatesKept DEF MetricState
<1>6. ChecksSoFar'
  <2>1. \A f \in {"dropped", "errors", "maxLog"} : value[f] <= value'[f]
    BY <1>1, CheckFields DEF MetricState, MetricTypes
  <2>2. \A u \in Threads : metric'[u].pc = "read" => metric'[u] = metric[u]
    BY <1>2, <1>3
  <2> QED
    BY <1>1, <1>4, <2>1, <2>2, ChecksKept DEF MetricState
<1> QED
  BY <1>4, <1>5, <1>6 DEF MetricState

\* Whatever thread steps, a check that is under way has a field to begin with.
LEMMA ReadsBegunKept ==
    ASSUME MetricState, ReadsBegun, MetricNext
    PROVE  ReadsBegun'
<1> SUFFICES ASSUME NEW t \in Threads, metric'[t].pc = "read" PROVE metric'[t].next >= 1
  BY DEF ReadsBegun
<1>1. metric \in [Threads -> MetricCalls] /\ \A u \in Threads : metric[u].next \in 0..12
  BY MetricFields DEF MetricState, MetricTypes
<1>2. CASE metric'[t] = metric[t]
  BY <1>2 DEF ReadsBegun
<1>3. ASSUME NEW u \in Threads, LoadPeak(u) \/ ExchangeFails(u), metric'[t] # metric[t] PROVE FALSE
  <2>1. Seen(u)
    BY <1>3 DEF LoadPeak, ExchangeFails
  <2>2. PICK n : metric' = [metric EXCEPT ![u] = IF metric[u].amount > n
                                                THEN [@ EXCEPT !.pc = "exchange", !.seen = n]
                                                ELSE NoMetricCall]
    BY <2>1 DEF Seen
  <2>3. metric'[u].pc \in {"exchange", "idle"} /\ \A w \in Threads \ {u} : metric'[w] = metric[w]
    <3>1. metric[u] \in MetricCalls
      BY <1>1
    <3>2. [metric[u] EXCEPT !.pc = "exchange", !.seen = n].pc = "exchange"
      BY <3>1 DEF MetricCalls
    <3> QED
      BY <1>1, <2>2, <3>2, IdleCall
  <2> QED
    BY <1>3, <2>3
<1>4. ASSUME NEW u \in Threads, Exchange(u) \/ CheckReturn(u), metric'[t] # metric[t] PROVE FALSE
  <2>1. metric' = [metric EXCEPT ![u] = NoMetricCall]
    BY <1>4 DEF Exchange, CheckReturn
  <2> QED
    BY <1>1, <1>4, <2>1, IdleCall
<1>5. ASSUME NEW u \in Threads, ResetField(u), metric'[t] # metric[t] PROVE FALSE
  <2>1. \/ metric' = [metric EXCEPT ![u].next = metric[u].next + 1] /\ metric[u].pc = "reset"
        \/ metric' = [metric EXCEPT ![u] = NoMetricCall]
    BY <1>5 DEF ResetField
  <2>2. \A w \in Threads \ {u} : metric'[w] = metric[w]
    BY <1>1, <2>1
  <2>3. metric'[u].pc \in {"reset", "idle"}
    <3>1. metric[u] \in MetricCalls
      BY <1>1
    <3>2. metric[u].pc = "reset" => [metric[u] EXCEPT !.next = metric[u].next + 1].pc = "reset"
      BY <3>1 DEF MetricCalls
    <3> QED
      BY <1>1, <2>1, <3>2, IdleCall
  <2> QED
    BY <1>5, <2>2, <2>3
<1>6. ASSUME NEW u \in Threads, ReadField(u) PROVE metric'[t].next >= 1
  BY <1>6, ReadFieldKeeps DEF ReadsBegun
<1>7. ASSUME NEW u \in Threads, Reset(u) PROVE metric'[t].next >= 1
  <2>1. metric' = [w \in Threads |-> IF w = u THEN [NoMetricCall EXCEPT !.pc = "reset", !.next = 1]
                                     ELSE [metric[w] EXCEPT !.mixed = TRUE]]
    BY <1>7 DEF Reset
  <2>2. t # u
    <3>1. NoMetricCall \in MetricCalls
      BY IdleCall
    <3>2. [NoMetricCall EXCEPT !.pc = "reset", !.next = 1].pc = "reset"
      BY <3>1 DEF MetricCalls
    <3> QED
      BY <2>1, <3>2
  <2>3. metric[t] \in MetricCalls /\ metric'[t] = [metric[t] EXCEPT !.mixed = TRUE]
    BY <1>1, <2>1, <2>2
  <2>4. metric'[t].pc = metric[t].pc /\ metric'[t].next = metric[t].next
    BY <2>3 DEF MetricCalls
  <2> QED
    BY <2>4 DEF ReadsBegun
<1>8. ASSUME NEW u \in Threads, CheckCall(u), metric'[t] # metric[t] PROVE metric'[t].next >= 1
  <2>1. metric' = [metric EXCEPT ![u] = [NoMetricCall EXCEPT !.pc = "read", !.next = 1,
                                                            !.mixed = resetting # NoThread]]
    BY <1>8 DEF CheckCall
  <2>2. t = u
    BY <1>1, <1>8, <2>1
  <2>3. NoMetricCall \in MetricCalls
    BY IdleCall
  <2>4. ASSUME NEW c \in MetricCalls, NEW m PROVE [c EXCEPT !.pc = "read", !.next = 1, !.mixed = m].next = 1
    BY DEF MetricCalls
  <2>5. metric'[t].next = 1
    BY <1>1, <2>1, <2>2, <2>3, <2>4
  <2> QED
    BY <2>5
<1>9. ASSUME NEW u \in Threads, NEW c \in Counted, RecordMessage(u, c) PROVE metric'[t] = metric[t]
  BY <1>9 DEF RecordMessage
<1>10. ASSUME NEW u \in Threads, NEW p \in Peaks, NEW n \in Amounts, RecordAmount(u, p, n),
              metric'[t] # metric[t]
       PROVE  FALSE
  <2>1. metric' = [metric EXCEPT ![u].pc = "load", ![u].peak = p, ![u].amount = n]
    BY <1>10 DEF RecordAmount
  <2>2. metric[u] \in MetricCalls
    BY <1>1
  <2>3. metric' = [metric EXCEPT ![u] = [@ EXCEPT !.pc = "load", !.peak = p, !.amount = n]]
    BY <1>1, <2>1
  <2>4. [metric[u] EXCEPT !.pc = "load", !.peak = p, !.amount = n].pc = "load"
    BY <2>2 DEF MetricCalls
  <2> QED
    BY <1>1, <1>10, <2>3, <2>4
<1> QED
  BY <1>2, <1>3, <1>4, <1>5, <1>6, <1>7, <1>8, <1>9, <1>10 DEF MetricNext, MetricStep

LEMMA MetricStepKeeps == ASSUME MetricState, ReadsBegun, MetricNext PROVE MetricState'
<1>1. ASSUME NEW t \in Threads, LoadPeak(t) PROVE MetricState'
  BY <1>1, SeenKeeps DEF LoadPeak, Updates
<1>2. ASSUME NEW t \in Threads, ExchangeFails(t) PROVE MetricState'
  BY <1>2, SeenKeeps DEF ExchangeFails, Updates
<1>3. ASSUME NEW t \in Threads, Exchange(t) PROVE MetricState'
  BY <1>3, ExchangeKeeps
<1>4. ASSUME NEW t \in Threads, ResetField(t) PROVE MetricState'
  BY <1>4, ResetFieldKeeps
<1>5. ASSUME NEW t \in Threads, ReadField(t) PROVE MetricState'
  BY <1>5, ReadFieldKeeps
<1>6. ASSUME NEW t \in Threads, CheckReturn(t) PROVE MetricState'
  BY <1>6, CheckReturnKeeps
<1>7. ASSUME NEW t \in Threads, Reset(t) PROVE MetricState'
  BY <1>7, ResetKeeps
<1>8. ASSUME NEW t \in Threads, CheckCall(t) PROVE MetricState'
  BY <1>8, CheckCallKeeps
<1>9. ASSUME NEW t \in Threads, NEW c \in Counted, RecordMessage(t, c) PROVE MetricState'
  BY <1>9, RecordMessageKeeps
<1>10. ASSUME NEW t \in Threads, NEW p \in Peaks, NEW n \in Amounts, RecordAmount(t, p, n)
       PROVE  MetricState'
  BY <1>10, RecordAmountKeeps
<1> QED
  BY <1>1, <1>2, <1>3, <1>4, <1>5, <1>6, <1>7, <1>8, <1>9, <1>10 DEF MetricNext, MetricStep

\* A complete snapshot differs from what would be seen now in the depth at most.
LEMMA MetricStateGives == MetricState => MetricInv
<1> SUFFICES ASSUME MetricState PROVE MetricInv
  OBVIOUS
<1>1. MetricTypeOK
  <2>1. 0..(Len(FieldOrder) + 1) = 0..12
    BY FieldsInOrder
  <2> QED
    BY <2>1 DEF MetricState, MetricTypes, MetricCalls, MetricTypeOK
<1>2. MaximaExact
  <2> SUFFICES ASSUME ~mixed, ~Updating, resetting = NoThread, NEW p \in Peaks PROVE value[p] = peak[p]
    BY DEF MaximaExact
  <2>1. \A t \in Threads : ~Owes(t, p)
    BY DEF Updating, Owes, Updates
  <2> QED
    BY <2>1 DEF MetricState, MaximaOwed
<1>3. NoMissedAlarm
  <2> SUFFICES ASSUME NEW t \in Threads, CheckDone(t), ~metric[t].mixed
               PROVE  Rank(Status(t).status) >= Rank(metric[t].floor)
    BY DEF NoMissedAlarm
  <2> DEFINE s == metric[t].snapshot
             a == LoadedNow(t)
  <2>1. metric[t].pc = "read" /\ metric[t].next = 12
    BY MetricFields, FieldsInOrder DEF CheckDone, MetricState
  <2>2. /\ a.logged = s["logged"] /\ a.dropped = s["dropped"] /\ a.errors = s["errors"]
        /\ a.maxLog = s["maxLog"] /\ a.depth = 0
    BY <2>1 DEF LoadedNow
  <2>3. \A f \in {"logged", "dropped", "errors", "maxLog", "depth"} : s[f] \in Nat
    BY MetricFields, CheckFields DEF MetricState
  <2>4. Rank(DetermineStatus(a)) >= Rank(metric[t].floor)
    BY <2>1 DEF MetricState, ChecksSoFar
  <2>5. Status(t).status = DetermineStatus(s)
    BY DEF Status, CheckMetrics
  <2>6. metric[t].floor \in Statuses
    BY MetricFields DEF MetricState
  <2> HIDE DEF a, s
  <2>7. Rank(DetermineStatus(a)) <= Rank(DetermineStatus(s))
    BY <2>2, <2>3, NoBetterStatus
  <2>8. PICK x \in 0..2, y \in 0..2, z \in 0..2 :
            /\ x = Rank(DetermineStatus(a)) /\ y = Rank(DetermineStatus(s))
            /\ z = Rank(metric[t].floor)
    BY <2>6, RankType, RankOfStatus
  <2> QED
    BY <2>4, <2>5, <2>7, <2>8
<1> QED
  BY <1>1, <1>2, <1>3 DEF MetricInv

\* Nothing but atomics protects the metrics, and still a maximum is exact as soon
\* as no update is under way, and a check that loads the fields one by one misses
\* no alarm, unless a reset comes between: for any threads, amounts and thresholds.
THEOREM MetricsCorrect == MetricSpec => []MetricInv
<1>1. MetricInit => ReadsBegun
  BY IdleCall DEF MetricInit, ReadsBegun
<1>2. MetricState /\ ReadsBegun /\ [MetricNext]_metricVars => MetricState' /\ ReadsBegun'
  <2> SUFFICES ASSUME MetricState, ReadsBegun, [MetricNext]_metricVars
               PROVE  MetricState' /\ ReadsBegun'
    OBVIOUS
  <2>1. CASE UNCHANGED metricVars
    <3>1. UNCHANGED <<value, metric, resetting, begun, peak, mixed>>
      BY <2>1 DEF metricVars, metricGhosts
    <3>2. MetricTypes' /\ ReadsBegun'
      BY <3>1 DEF MetricState, MetricTypes, ReadsBegun
    <3>3. UpdatesRight' /\ MaximaOwed' /\ ResetSoFar'
      BY <3>1, UpdatesKept DEF MetricState
    <3>4. \A f \in {"dropped", "errors", "maxLog"} : value[f] <= value'[f]
      BY <3>1, CheckFields DEF MetricState, MetricTypes
    <3>5. ChecksSoFar'
      BY <3>1, <3>2, <3>4, ChecksKept DEF MetricState
    <3> QED
      BY <3>2, <3>3, <3>5 DEF MetricState
  <2>2. CASE MetricNext
    BY <2>2, MetricStepKeeps, ReadsBegunKept
  <2> QED
    BY <2>1, <2>2
<1> QED
  BY MetricInitial, MetricStateGives, <1>1, <1>2, PTL DEF MetricSpec

-----------------------------------------------------------------------------
(* The registry of metrics.                                                *)

CounterNames == {"count", "bytes", "errors", "time"}
Load == [object : Nat, field : CounterNames]
ObjectRec == [kind : Kinds, count : Nat, bytes : Nat, errors : Nat, time : Nat, reset : BOOLEAN]
ClientRec == [pc : {"idle", "bytes", "duration", "export", "reset"}, object : Nat,
              todo : Seq(Load), loaded : Seq([of : Load, value : Nat])]
CountOf(o) == [object |-> o, field |-> "count"]

\* A total that is still to be loaded is followed by the count that goes with it.
CountFollows(loads) ==
    \A i \in 1..Len(loads) : loads[i].field = "time" =>
        \E j \in (i + 1)..Len(loads) : loads[j] = CountOf(loads[i].object)

\* Where the counters of m objects with n each stand in the list of all.
LEMMA Grid ==
    ASSUME NEW n \in {3, 4, 5}, NEW m \in Nat
    PROVE  /\ m * n \in Nat
           /\ \A i \in 1..m * n :
                 /\ (i - 1) \div n + 1 \in 1..m /\ ((i - 1) % n) + 1 \in 1..n
                 /\ ((i - 1) % n) + 1 < n =>
                       /\ i + 1 \in 1..m * n
                       /\ (i \div n) = ((i - 1) \div n) /\ (i % n) = ((i - 1) % n) + 1
           /\ \A p \in 1..m, q \in 1..n : \E i \in 1..m * n :
                 (i - 1) \div n = p - 1 /\ (i - 1) % n = q - 1
<1>1. CASE n = 3
  <2>1. \A i \in 1..m * 3 :
            /\ (i - 1) \div 3 + 1 \in 1..m
            /\ ((i - 1) % 3) + 1 \in 1..3
    OBVIOUS
  <2>2. \A i \in 1..m * 3 : ((i - 1) % 3) + 1 < 3 =>
            /\ i + 1 \in 1..m * 3
            /\ (i \div 3) = ((i - 1) \div 3)
            /\ (i % 3) = ((i - 1) % 3) + 1
    OBVIOUS
  <2>3. \A p \in 1..m, q \in 1..3 :
            /\ (p - 1) * 3 + q \in 1..m * 3
            /\ ((p - 1) * 3 + q - 1) \div 3 = p - 1
            /\ ((p - 1) * 3 + q - 1) % 3 = q - 1
    OBVIOUS
  <2>4. m * 3 \in Nat
    OBVIOUS
  <2>5. \A p \in 1..m, q \in 1..3 : \E i \in 1..m * 3 :
            (i - 1) \div 3 = p - 1 /\ (i - 1) % 3 = q - 1
    <3> SUFFICES ASSUME NEW p \in 1..m, NEW q \in 1..3
                 PROVE  \E i \in 1..m * 3 : (i - 1) \div 3 = p - 1 /\ (i - 1) % 3 = q - 1
      OBVIOUS
    <3> WITNESS (p - 1) * 3 + q \in 1..m * 3
    <3> QED
      BY <2>3
  <2> QED
    BY <1>1, <2>1, <2>2, <2>4, <2>5
<1>2. CASE n = 4
  <2>1. \A i \in 1..m * 4 :
            /\ (i - 1) \div 4 + 1 \in 1..m
            /\ ((i - 1) % 4) + 1 \in 1..4
    OBVIOUS
  <2>2. \A i \in 1..m * 4 : ((i - 1) % 4) + 1 < 4 =>
            /\ i + 1 \in 1..m * 4
            /\ (i \div 4) = ((i - 1) \div 4)
            /\ (i % 4) = ((i - 1) % 4) + 1
    OBVIOUS
  <2>3. \A p \in 1..m, q \in 1..4 :
            /\ (p - 1) * 4 + q \in 1..m * 4
            /\ ((p - 1) * 4 + q - 1) \div 4 = p - 1
            /\ ((p - 1) * 4 + q - 1) % 4 = q - 1
    OBVIOUS
  <2>4. m * 4 \in Nat
    OBVIOUS
  <2>5. \A p \in 1..m, q \in 1..4 : \E i \in 1..m * 4 :
            (i - 1) \div 4 = p - 1 /\ (i - 1) % 4 = q - 1
    <3> SUFFICES ASSUME NEW p \in 1..m, NEW q \in 1..4
                 PROVE  \E i \in 1..m * 4 : (i - 1) \div 4 = p - 1 /\ (i - 1) % 4 = q - 1
      OBVIOUS
    <3> WITNESS (p - 1) * 4 + q \in 1..m * 4
    <3> QED
      BY <2>3
  <2> QED
    BY <1>2, <2>1, <2>2, <2>4, <2>5
<1>3. CASE n = 5
  <2>1. \A i \in 1..m * 5 :
            /\ (i - 1) \div 5 + 1 \in 1..m
            /\ ((i - 1) % 5) + 1 \in 1..5
    OBVIOUS
  <2>2. \A i \in 1..m * 5 : ((i - 1) % 5) + 1 < 5 =>
            /\ i + 1 \in 1..m * 5
            /\ (i \div 5) = ((i - 1) \div 5)
            /\ (i % 5) = ((i - 1) % 5) + 1
    OBVIOUS
  <2>3. \A p \in 1..m, q \in 1..5 :
            /\ (p - 1) * 5 + q \in 1..m * 5
            /\ ((p - 1) * 5 + q - 1) \div 5 = p - 1
            /\ ((p - 1) * 5 + q - 1) % 5 = q - 1
    OBVIOUS
  <2>4. m * 5 \in Nat
    OBVIOUS
  <2>5. \A p \in 1..m, q \in 1..5 : \E i \in 1..m * 5 :
            (i - 1) \div 5 = p - 1 /\ (i - 1) % 5 = q - 1
    <3> SUFFICES ASSUME NEW p \in 1..m, NEW q \in 1..5
                 PROVE  \E i \in 1..m * 5 : (i - 1) \div 5 = p - 1 /\ (i - 1) % 5 = q - 1
      OBVIOUS
    <3> WITNESS (p - 1) * 5 + q \in 1..m * 5
    <3> QED
      BY <2>3
  <2> QED
    BY <1>3, <2>1, <2>2, <2>4, <2>5
<1> QED
  BY <1>1, <1>2, <1>3

\* A sequence of a finite set has its elements and no others.
LEMMA SetAsSeq ==
    ASSUME NEW S, IsFiniteSet(S)
    PROVE  /\ Len(SetToSeq(S)) \in Nat /\ SetToSeq(S) \in [1..Len(SetToSeq(S)) -> S]
           /\ \A x \in S : \E i \in 1..Len(SetToSeq(S)) : SetToSeq(S)[i] = x
<1> DEFINE n == Cardinality(S)
<1>1. n \in Nat /\ Bijection(1..n, S) # {}
  BY FS_CardinalityType DEF ExistsBijection
<1>2. PICK f : f \in Bijection(1..n, S)
  BY <1>1
<1>3. f \in [1..n -> S] /\ IsInjective(f)
  BY <1>2 DEF Bijection, Injection
<1>4. SetToSeq(S) \in [1..n -> S] /\ IsInjective(SetToSeq(S))
  BY <1>3 DEF SetToSeq
<1>5. SetToSeq(S) \in Injection(1..n, S)
  BY <1>4 DEF Injection
<1>6. IsFiniteSet(1..n) /\ Cardinality(1..n) = n
  BY <1>1, FS_Interval
<1>7. SetToSeq(S) \in Surjection(1..n, S)
  BY <1>5, <1>6, FS_Injection
<1>8. \A x \in S : \E i \in 1..n : SetToSeq(S)[i] = x
  BY <1>7 DEF Surjection
<1>9. Len(SetToSeq(S)) = n
  BY <1>1, <1>4
<1> QED
  BY <1>1, <1>4, <1>8, <1>9

\* A function on an interval from one is a sequence.
LEMMA FunctionAsSeq ==
    ASSUME NEW S, NEW n \in Nat, NEW f \in [1..n -> S]
    PROVE  f \in Seq(S) /\ Len(f) = n
  OBVIOUS

\* What is listed for each object, in the order of its counters.
LEMMA ForEachLists ==
    ASSUME NEW os \in SUBSET Nat, IsFiniteSet(os),
           NEW fields \in Seq(CounterNames), Len(fields) \in {3, 4, 5}
    PROVE  /\ ForEach(os, fields) \in Seq(Load)
           /\ \A i \in 1..Len(ForEach(os, fields)) : ForEach(os, fields)[i].object \in os
           /\ \A o \in os, q \in 1..Len(fields) : \E i \in 1..Len(ForEach(os, fields)) :
                  ForEach(os, fields)[i] = [object |-> o, field |-> fields[q]]
           /\ (\A q \in 1..Len(fields) : fields[q] = "time" =>
                   q < Len(fields) /\ fields[q + 1] = "count") => CountFollows(ForEach(os, fields))
<1> DEFINE each == SetToSeq(os)
           n == Len(fields)
           m == Len(each)
           all == ForEach(os, fields)
<1>1. m \in Nat /\ each \in [1..m -> os] /\ \A x \in os : \E i \in 1..m : each[i] = x
  BY SetAsSeq
<1>2. \A q \in 1..n : fields[q] \in CounterNames
  OBVIOUS
<1>3. /\ m * n \in Nat
      /\ \A i \in 1..m * n : 
            /\ ((i - 1) \div n) + 1 \in 1..m /\ ((i - 1) % n) + 1 \in 1..n
            /\ ((i - 1) % n) + 1 < n =>
                  /\ i + 1 \in 1..m * n
                  /\ (i \div n) = ((i - 1) \div n) /\ (i % n) = ((i - 1) % n) + 1
      /\ \A p \in 1..m, q \in 1..n : \E i \in 1..m * n :
             (i - 1) \div n = p - 1 /\ (i - 1) % n = q - 1
  BY <1>1, Grid
<1>4. all = [i \in 1..m * n |-> [object |-> each[((i - 1) \div n) + 1],
                                 field |-> fields[((i - 1) % n) + 1]]]
  BY DEF ForEach
<1> HIDE DEF each, n, m, all
<1>5. /\ all \in Seq(Load) /\ Len(all) = m * n
      /\ \A i \in 1..m * n : all[i].object \in os
                             /\ all[i] = [object |-> each[((i - 1) \div n) + 1],
                                          field |-> fields[((i - 1) % n) + 1]]
  <2>1. \A i \in 1..m * n : all[i] \in Load /\ all[i].object \in os
    BY <1>1, <1>2, <1>3, <1>4 DEF Load
  <2>2. all \in [1..m * n -> Load]
    BY <1>4, <2>1
  <2>4. all \in Seq(Load) /\ Len(all) = m * n
    BY <1>3, <2>2, FunctionAsSeq
  <2> QED
    BY <1>4, <2>1, <2>4
<1>6. \A o \in os, q \in 1..n : \E i \in 1..m * n : all[i] = [object |-> o, field |-> fields[q]]
  <2> SUFFICES ASSUME NEW o \in os, NEW q \in 1..n
               PROVE  \E i \in 1..m * n : all[i] = [object |-> o, field |-> fields[q]]
    OBVIOUS
  <2>1. PICK p \in 1..m : each[p] = o
    BY <1>1
  <2>2. PICK i \in 1..m * n : (i - 1) \div n = p - 1 /\ (i - 1) % n = q - 1
    BY <1>3
  <2>3. n \in Nat
    BY DEF n
  <2>4. ((i - 1) \div n) + 1 = p /\ ((i - 1) % n) + 1 = q
    BY <1>1, <2>2, <2>3
  <2> QED
    BY <1>5, <2>1, <2>4
<1>7. ASSUME \A q \in 1..n : fields[q] = "time" => q < n /\ fields[q + 1] = "count"
      PROVE  CountFollows(all)
  <2> SUFFICES ASSUME NEW i \in 1..m * n, all[i].field = "time"
               PROVE  \E j \in (i + 1)..(m * n) : all[j] = CountOf(all[i].object)
    BY <1>5 DEF CountFollows
  <2>1. fields[((i - 1) % n) + 1] = "time" /\ all[i].object = each[((i - 1) \div n) + 1]
    BY <1>5
  <2>2. ((i - 1) % n) + 1 < n /\ fields[((i - 1) % n) + 2] = "count"
    <3>1. ((i - 1) % n) + 1 \in 1..n /\ n \in Nat
      BY <1>3 DEF n
    <3>2. ((i - 1) % n) + 1 + 1 = ((i - 1) % n) + 2
      BY <3>1
    <3> QED
      BY <1>7, <2>1, <3>1, <3>2
  <2>3. i + 1 \in 1..m * n /\ (i \div n) = ((i - 1) \div n) /\ (i % n) = ((i - 1) % n) + 1
    BY <1>3, <2>2
  <2>4. (i + 1) - 1 = i
    BY <1>3
  <2>8. ((i - 1) % n) + 1 + 1 = ((i - 1) % n) + 2
    <3>1. ((i - 1) % n) + 1 \in 1..n /\ n \in Nat
      BY <1>3 DEF n
    <3> QED
      BY <3>1
  <2>5. all[i + 1] = [object |-> each[(i \div n) + 1], field |-> fields[(i % n) + 1]]
    BY <1>5, <2>3, <2>4
  <2>6. all[i + 1] = CountOf(all[i].object)
    BY <2>1, <2>2, <2>3, <2>5, <2>8 DEF CountOf
  <2>7. i + 1 \in (i + 1)..(m * n)
    BY <1>3, <2>3
  <2> QED
    BY <2>6, <2>7
<1>8. 1..Len(all) = 1..m * n
  BY <1>5
<1>9. /\ \A i \in 1..Len(all) : all[i].object \in os
      /\ \A o \in os, q \in 1..n : \E i \in 1..Len(all) : all[i] = [object |-> o, field |-> fields[q]]
  BY <1>5, <1>6, <1>8
<1> QED
  BY <1>5, <1>7, <1>9 DEF n, all

\* Two lists of counters put together, for the lengths an export uses.
LEMMA ThreeAndTwo ==
    ASSUME NEW a, NEW b, NEW c, NEW d, NEW e
    PROVE  <<a, b, c>> \o <<d, e>> = <<a, b, c, d, e>>
<1> DEFINE s == <<a, b, c>> \o <<d, e>>
           t == <<a, b, c, d, e>>
           S == {a, b, c, d, e}
<1>1. s \in Seq(S) /\ t \in Seq(S) /\ Len(s) = 5 /\ Len(t) = 5
  OBVIOUS
<1>2. s[1] = a /\ s[2] = b /\ s[3] = c
  OBVIOUS
<1>3. s[4] = d /\ s[5] = e
  OBVIOUS
<1>4. t[1] = a /\ t[2] = b /\ t[3] = c /\ t[4] = d /\ t[5] = e
  OBVIOUS
<1>5. \A i \in 1..5 : i = 1 \/ i = 2 \/ i = 3 \/ i = 4 \/ i = 5
  OBVIOUS
<1>6. \A i \in 1..Len(s) : s[i] = t[i]
  BY <1>1, <1>2, <1>3, <1>4, <1>5
<1> QED
  BY <1>1, <1>6, SeqEqual

LEMMA TwoAndTwo ==
    ASSUME NEW a, NEW b, NEW c, NEW d
    PROVE  <<a, b>> \o <<c, d>> = <<a, b, c, d>>
<1> DEFINE s == <<a, b>> \o <<c, d>>
           t == <<a, b, c, d>>
           S == {a, b, c, d}
<1>1. s \in Seq(S) /\ t \in Seq(S) /\ Len(s) = 4 /\ Len(t) = 4
  OBVIOUS
<1>2. s[1] = a /\ s[2] = b
  OBVIOUS
<1>3. s[3] = c /\ s[4] = d
  OBVIOUS
<1>4. t[1] = a /\ t[2] = b /\ t[3] = c /\ t[4] = d
  OBVIOUS
<1>5. \A i \in 1..4 : i = 1 \/ i = 2 \/ i = 3 \/ i = 4
  OBVIOUS
<1>6. \A i \in 1..Len(s) : s[i] = t[i]
  BY <1>1, <1>2, <1>3, <1>4, <1>5
<1> QED
  BY <1>1, <1>6, SeqEqual

LEMMA OneAndTwo ==
    ASSUME NEW a, NEW b, NEW c
    PROVE  <<a>> \o <<b, c>> = <<a, b, c>>
<1> DEFINE s == <<a>> \o <<b, c>>
           t == <<a, b, c>>
           S == {a, b, c}
<1>1. s \in Seq(S) /\ t \in Seq(S) /\ Len(s) = 3 /\ Len(t) = 3
  OBVIOUS
<1>2. s[1] = a
  OBVIOUS
<1>3. s[2] = b /\ s[3] = c
  OBVIOUS
<1>4. t[1] = a /\ t[2] = b /\ t[3] = c
  OBVIOUS
<1>5. \A i \in 1..3 : i = 1 \/ i = 2 \/ i = 3
  OBVIOUS
<1>6. \A i \in 1..Len(s) : s[i] = t[i]
  BY <1>1, <1>2, <1>3, <1>4, <1>5
<1> QED
  BY <1>1, <1>6, SeqEqual

LEMMA ThreeAndOne ==
    ASSUME NEW a, NEW b, NEW c, NEW d
    PROVE  <<a, b, c>> \o <<d>> = <<a, b, c, d>>
<1> DEFINE s == <<a, b, c>> \o <<d>>
           t == <<a, b, c, d>>
           S == {a, b, c, d}
<1>1. s \in Seq(S) /\ t \in Seq(S) /\ Len(s) = 4 /\ Len(t) = 4
  OBVIOUS
<1>2. s[1] = a /\ s[2] = b /\ s[3] = c
  OBVIOUS
<1>3. s[4] = d
  OBVIOUS
<1>4. t[1] = a /\ t[2] = b /\ t[3] = c /\ t[4] = d
  OBVIOUS
<1>5. \A i \in 1..4 : i = 1 \/ i = 2 \/ i = 3 \/ i = 4
  OBVIOUS
<1>6. \A i \in 1..Len(s) : s[i] = t[i]
  BY <1>1, <1>2, <1>3, <1>4, <1>5
<1> QED
  BY <1>1, <1>6, SeqEqual

\* What a list of four holds.
LEMMA Fields4 ==
    ASSUME NEW a \in CounterNames, NEW b \in CounterNames, NEW c \in CounterNames, NEW d \in CounterNames,
           NEW s, s = <<a, b, c, d>>
    PROVE  /\ s \in Seq(CounterNames) /\ Len(s) = 4 /\ 1..Len(s) = {1, 2, 3, 4}
           /\ s[1] = a /\ s[2] = b /\ s[3] = c /\ s[4] = d
  OBVIOUS

\* What a list of five holds.
LEMMA Fields5 ==
    ASSUME NEW a \in CounterNames, NEW b \in CounterNames, NEW c \in CounterNames,
           NEW d \in CounterNames, NEW e \in CounterNames,
           NEW s, s = <<a, b, c, d, e>>
    PROVE  /\ s \in Seq(CounterNames) /\ Len(s) = 5 /\ 1..Len(s) = {1, 2, 3, 4, 5}
           /\ s[1] = a /\ s[2] = b /\ s[3] = c /\ s[4] = d /\ s[5] = e
  OBVIOUS

\* In what an export loads of an object, the count follows the total.
LEMMA LoadLists ==
    ASSUME NEW k \in Kinds, NEW f \in Formats
    PROVE  /\ Loads(k, f) \in Seq(CounterNames) /\ Len(Loads(k, f)) \in {3, 4, 5}
           /\ \A q \in 1..Len(Loads(k, f)) : Loads(k, f)[q] = "time" =>
                  q < Len(Loads(k, f)) /\ Loads(k, f)[q + 1] = "count"
<1>0. "count" \in CounterNames /\ "bytes" \in CounterNames /\ "errors" \in CounterNames /\ "time" \in CounterNames
  BY DEF CounterNames
<1>1. CASE k = "sink" /\ f = "json"
  <2>1. Loads(k, f) = <<"count", "bytes", "errors", "time", "count">>
    BY <1>1, ThreeAndTwo DEF Loads, AverageLoads
  <2> QED
    BY <1>0, <2>1, Fields5
<1>2. CASE k = "sink" /\ f = "prometheus"
  <2>1. Loads(k, f) = <<"count", "bytes", "time", "count">>
    BY <1>2, TwoAndTwo DEF Loads, AverageLoads
  <2> QED
    BY <1>0, <2>1, Fields4
<1>3. CASE k = "logger" /\ f = "json"
  <2>1. Loads(k, f) = <<"count", "errors", "time", "count">>
    BY <1>3, TwoAndTwo DEF Loads, AverageLoads
  <2> QED
    BY <1>0, <2>1, Fields4
<1>4. CASE k = "logger" /\ f = "prometheus"
  <2>2. Loads(k, f) = (<<"count">> \o <<"time", "count">>) \o <<"errors">>
    BY <1>4 DEF Loads, AverageLoads
  <2>1. Loads(k, f) = <<"count", "time", "count", "errors">>
    <3>1. <<"count">> \o <<"time", "count">> = <<"count", "time", "count">>
      BY OneAndTwo
    <3>2. <<"count", "time", "count">> \o <<"errors">> = <<"count", "time", "count", "errors">>
      BY ThreeAndOne
    <3> QED
      BY <2>2, <3>1, <3>2
  <2> QED
    BY <1>0, <2>1, Fields4
<1> QED
  BY <1>1, <1>2, <1>3, <1>4 DEF Kinds, Formats

\* In two lists put together each total still has its count behind it.
LEMMA BothFollow ==
    ASSUME NEW a \in Seq(Load), NEW b \in Seq(Load), CountFollows(a), CountFollows(b)
    PROVE  CountFollows(a \o b)
<1>1. /\ Len(a \o b) = Len(a) + Len(b) /\ Len(a) \in Nat /\ Len(b) \in Nat
      /\ \A i \in 1..Len(a) : (a \o b)[i] = a[i]
      /\ \A i \in Len(a) + 1..Len(a) + Len(b) : (a \o b)[i] = b[i - Len(a)]
  OBVIOUS
<1> DEFINE s == a \o b
<1> HIDE DEF s
<1> SUFFICES ASSUME NEW i \in 1..Len(s), s[i].field = "time"
             PROVE  \E j \in (i + 1)..Len(s) : s[j] = CountOf(s[i].object)
  BY DEF CountFollows, s
<1>2. CASE i \in 1..Len(a)
  <2>1. s[i] = a[i]
    BY <1>1, <1>2 DEF s
  <2>2. PICK j \in (i + 1)..Len(a) : a[j] = CountOf(a[i].object)
    BY <1>2, <2>1 DEF CountFollows
  <2>3. j \in (i + 1)..Len(s) /\ s[j] = a[j]
    BY <1>1, <1>2, <2>2 DEF s
  <2> QED
    BY <2>1, <2>2, <2>3
<1>3. CASE i \in Len(a) + 1..Len(a) + Len(b)
  <2>1. s[i] = b[i - Len(a)] /\ i - Len(a) \in 1..Len(b)
    BY <1>1, <1>3 DEF s
  <2>2. PICK j \in (i - Len(a) + 1)..Len(b) : b[j] = CountOf(b[i - Len(a)].object)
    BY <2>1 DEF CountFollows
  <2>3. j + Len(a) \in (i + 1)..Len(s) /\ j + Len(a) \in Len(a) + 1..Len(a) + Len(b)
        /\ (j + Len(a)) - Len(a) = j
    BY <1>1, <1>3, <2>1, <2>2 DEF s
  <2>4. s[j + Len(a)] = b[j]
    BY <1>1, <2>3 DEF s
  <2> QED
    BY <2>1, <2>2, <2>3, <2>4
<1> QED
  BY <1>1, <1>2, <1>3 DEF s

-----------------------------------------------------------------------------

Locked(c) == client[c].pc \in {"export", "reset"}
IsObject(o) == o \in 1..Len(objects)

\* Types; one client at most holds the mutex.
TablesTypes ==
    /\ tables \in [Kinds -> [MetricNames -> 0..Len(objects)]]
    /\ objects \in Seq(ObjectRec) /\ since \in Seq(Nat) /\ Len(since) = Len(objects)
    /\ client \in [Clients -> ClientRec]
    /\ tableMutex = {} \/ \E c \in Clients : tableMutex = {c}

\* What a client holds and does, and the mutex.
ClientsKept == \A c \in Clients :
    /\ client[c].object <= Len(objects)
    /\ c \in tableMutex <=> Locked(c)
    /\ client[c].pc \in {"bytes", "duration"} => client[c].object # 0
    /\ ~Locked(c) => client[c].todo = <<>>
    /\ client[c].pc # "export" => client[c].loaded = <<>>
    /\ \A i \in 1..Len(client[c].todo) :
           /\ IsObject(client[c].todo[i].object)
           /\ client[c].pc = "reset" => objects[client[c].todo[i].object].reset

\* The registry lists all objects made.
AllListed == \A k \in Kinds : Listed(k) = {o \in 1..Len(objects) : objects[o].kind = k}

\* A reset has still to store the count of o.
Unstored(o) == \E c \in Clients :
    client[c].pc = "reset" /\ \E i \in 1..Len(client[c].todo) : client[c].todo[i] = CountOf(o)

\* Counts are exact until a reset; one under way has still to store those too high.
CountsKept == \A o \in 1..Len(objects) :
    /\ ~objects[o].reset => objects[o].count = since[o]
    /\ objects[o].count <= since[o] \/ Unstored(o)

\* The most that n durations sum to.
Worth(n) == Longest * n

\* Who has counted and not yet added its duration.
Owing(o) == {c \in Clients : client[c].pc \in {"bytes", "duration"} /\ client[c].object = o}

\* Those who have counted and not added a duration can still add the longest each.
DurationsOwed == \A o \in 1..Len(objects) :
    /\ IsFiniteSet(Owing(o))
    /\ ~objects[o].reset => objects[o].time + Worth(Cardinality(Owing(o))) <= Worth(objects[o].count)

\* A total that was loaded is at most what the count allows now and when it is loaded later.
TotalKept(todo, loaded, i) ==
    LET o == loaded[i].of.object
    IN  /\ IsObject(o)
        /\ \/ \E j \in 1..Len(todo) : todo[j] = CountOf(o)
           \/ \E j \in (i + 1)..Len(loaded) : loaded[j].of = CountOf(o)
        /\ ~objects[o].reset =>
              /\ loaded[i].value <= Worth(objects[o].count)
              /\ \A j \in (i + 1)..Len(loaded) :
                     loaded[j].of = CountOf(o) => loaded[i].value <= Worth(loaded[j].value)

TotalsKept == \A c \in Clients : client[c].pc = "export" =>
    /\ CountFollows(client[c].todo)
    /\ \A i \in 1..Len(client[c].loaded) : client[c].loaded[i].of.field = "time" =>
           TotalKept(client[c].todo, client[c].loaded, i)

TablesState == TablesTypes /\ ClientsKept /\ AllListed /\ CountsKept /\ DurationsOwed /\ TotalsKept

\* The worth of a count grows by the longest duration with every count.
LEMMA Worths ==
    /\ \A n \in Nat : Worth(n) \in Nat /\ Worth(n + 1) = Worth(n) + Longest
    /\ Worth(0) = 0
    /\ \A m, n \in Nat : m <= n => Worth(m) <= Worth(n)
<1>1. Longest \in Nat
  BY TableBoundsAssumption
<1>2. \A n \in Nat : Worth(n) \in Nat /\ Worth(n + 1) = Worth(n) + Longest
  BY <1>1 DEF Worth
<1>3. \A m, n \in Nat : m <= n => Worth(m) <= Worth(n)
  <2> SUFFICES ASSUME NEW m \in Nat, NEW n \in Nat, m <= n PROVE Worth(m) <= Worth(n)
    OBVIOUS
  <2>1. PICK d \in Nat : n = m + d
    <3>1. n - m \in Nat /\ n = m + (n - m)
      OBVIOUS
    <3> QED
      BY <3>1
  <2>2. Worth(n) = Worth(m) + Longest * d /\ Longest * d \in Nat /\ Worth(m) \in Nat
    BY <1>1, <2>1 DEF Worth
  <2> QED
    BY <2>2
<1>4. Worth(0) = 0
  BY <1>1 DEF Worth
<1> QED
  BY <1>2, <1>3, <1>4

\* The registry starts empty.
LEMMA TablesInitState == TablesInit => TablesState
<1> SUFFICES ASSUME TablesInit PROVE TablesState
  OBVIOUS
<1> USE DEF TablesInit
<1>0. Len(objects) = 0 /\ 1..Len(objects) = {} /\ objects \in Seq(ObjectRec) /\ since \in Seq(Nat) /\ Len(since) = 0
  OBVIOUS
<1>1. TablesTypes
  BY <1>0 DEF TablesTypes, ClientRec, Waiting
<1>2. ClientsKept
  BY <1>0 DEF ClientsKept, Waiting, Locked
<1>3. AllListed
  BY <1>0 DEF AllListed, Listed
<1>4. CountsKept /\ DurationsOwed
  BY <1>0 DEF CountsKept, DurationsOwed
<1>5. TotalsKept
  BY DEF TotalsKept, Waiting
<1> QED
  BY <1>1, <1>2, <1>3, <1>4, <1>5 DEF TablesState

-----------------------------------------------------------------------------
(* What the parts of the invariant need of a step.                         *)

\* Storing one counter of one object.
LEMMA SetField ==
    ASSUME objects \in Seq(ObjectRec), NEW o \in 1..Len(objects), NEW f \in CounterNames, NEW v \in Nat,
           objects' = [objects EXCEPT ![o][f] = v]
    PROVE  /\ objects' \in Seq(ObjectRec) /\ Len(objects') = Len(objects)
           /\ \A p \in 1..Len(objects) :
                 /\ p # o => objects'[p] = objects[p]
                 /\ objects'[p].kind = objects[p].kind /\ objects'[p].reset = objects[p].reset
                 /\ \A g \in CounterNames : objects'[p][g] = IF p = o /\ g = f THEN v ELSE objects[p][g]
<1>1. Len(objects) \in Nat /\ DOMAIN objects = 1..Len(objects)
      /\ \A p \in 1..Len(objects) : objects[p] \in ObjectRec
  OBVIOUS
<1>2. f \in {"count", "bytes", "errors", "time"}
  BY DEF CounterNames
<1> DEFINE r == objects[o]
           new == [r EXCEPT ![f] = v]
<1>3. r \in ObjectRec
  BY <1>1
<1>4. /\ new \in ObjectRec /\ new.kind = r.kind /\ new.reset = r.reset
      /\ \A g \in CounterNames : new[g] = IF g = f THEN v ELSE r[g]
  <2> HIDE DEF r
  <2> QED
    BY <1>2, <1>3 DEF ObjectRec, CounterNames
<1>5. objects' = [objects EXCEPT ![o] = new]
  OBVIOUS
<1> HIDE DEF new
<1>6. \A p \in 1..Len(objects) : objects'[p] = IF p = o THEN new ELSE objects[p]
  BY <1>1, <1>5
<1>7. objects' \in Seq(ObjectRec) /\ Len(objects') = Len(objects)
  <2>1. DOMAIN objects' = 1..Len(objects)
    BY <1>1, <1>5
  <2>2. \A p \in 1..Len(objects) : objects'[p] \in ObjectRec
    BY <1>1, <1>4, <1>6
  <2>3. objects' \in [1..Len(objects) -> ObjectRec]
    BY <1>5, <2>1, <2>2
  <2> QED
    BY <1>1, <2>3, FunctionAsSeq
<1>8. ASSUME NEW p \in 1..Len(objects)
      PROVE  /\ p # o => objects'[p] = objects[p]
             /\ objects'[p].kind = objects[p].kind /\ objects'[p].reset = objects[p].reset
             /\ \A g \in CounterNames : objects'[p][g] = IF p = o /\ g = f THEN v ELSE objects[p][g]
  <2>1. CASE p = o
    BY <1>4, <1>6, <2>1
  <2>2. CASE p # o
    BY <1>6, <2>2
  <2> QED
    BY <2>1, <2>2
<1> QED
  BY <1>7, <1>8

\* Counters are numbers.
LEMMA FieldsKept ==
    ASSUME objects \in Seq(ObjectRec), NEW o \in 1..Len(objects), NEW f \in CounterNames
    PROVE  objects[o][f] \in Nat
<1>1. objects[o] \in ObjectRec
  OBVIOUS
<1> QED
  BY <1>1 DEF ObjectRec, CounterNames

\* Each of the next parts survives a step that leaves what it reads.
LEMMA ListedFrame ==
    ASSUME AllListed, UNCHANGED tables, Len(objects') = Len(objects),
           \A o \in 1..Len(objects) : objects'[o].kind = objects[o].kind
    PROVE  AllListed'
  BY DEF AllListed, Listed

LEMMA CountsFrame ==
    ASSUME CountsKept, UNCHANGED since, Len(objects') = Len(objects),
           \A o \in 1..Len(objects) :
               objects'[o].count = objects[o].count /\ objects'[o].reset = objects[o].reset,
           \A d \in Clients : client[d].pc = "reset" =>
               client'[d].pc = "reset" /\ client'[d].todo = client[d].todo
    PROVE  CountsKept'
<1>1. \A o : Unstored(o) => Unstored(o)'
  BY DEF Unstored, CountOf
<1> QED
  BY <1>1 DEF CountsKept

LEMMA DurationsFrame ==
    ASSUME DurationsOwed, Len(objects') = Len(objects),
           \A o \in 1..Len(objects) : ~objects'[o].reset =>
               /\ ~objects[o].reset
               /\ objects'[o].time = objects[o].time /\ objects'[o].count = objects[o].count,
           \A d \in Clients :
               /\ client'[d].pc \in {"bytes", "duration"} <=> client[d].pc \in {"bytes", "duration"}
               /\ client[d].pc \in {"bytes", "duration"} => client'[d].object = client[d].object
    PROVE  DurationsOwed'
<1>1. \A o : Owing(o)' = Owing(o)
  BY DEF Owing
<1> QED
  BY <1>1 DEF DurationsOwed, Worth

\* Without an export under way no total has been loaded.
LEMMA TotalsNone ==
    ASSUME \A d \in Clients : client'[d].pc # "export"
    PROVE  TotalsKept'
  BY DEF TotalsKept

\* While nothing is reset, more counts and more objects leave the averages alone.
LEMMA TotalsGrow ==
    ASSUME TablesTypes, TablesTypes', TotalsKept, Len(objects) <= Len(objects'),
           \A o \in 1..Len(objects) :
               objects'[o].reset = objects[o].reset /\ objects[o].count <= objects'[o].count,
           \A d \in Clients : client'[d].pc = "export" =>
               /\ client[d].pc = "export"
               /\ client'[d].todo = client[d].todo /\ client'[d].loaded = client[d].loaded
    PROVE  TotalsKept'
<1> SUFFICES ASSUME NEW d \in Clients, client'[d].pc = "export"
             PROVE  /\ CountFollows(client'[d].todo)
                    /\ \A i \in 1..Len(client'[d].loaded) : client'[d].loaded[i].of.field = "time" =>
                           TotalKept(client[d].todo, client[d].loaded, i)'
  BY DEF TotalsKept, TotalKept, IsObject, CountOf, CountFollows
<1>1. client[d].pc = "export" /\ client'[d].todo = client[d].todo /\ client'[d].loaded = client[d].loaded
  OBVIOUS
<1> DEFINE loaded == client[d].loaded
           todo == client[d].todo
<1>2. CountFollows(todo) /\ \A i \in 1..Len(loaded) : loaded[i].of.field = "time" =>
          TotalKept(todo, loaded, i)
  BY <1>1 DEF TotalsKept
<1>3. ASSUME NEW i \in 1..Len(loaded), loaded[i].of.field = "time"
      PROVE  TotalKept(todo, loaded, i)'
  <2> DEFINE o == loaded[i].of.object
  <2>1. TotalKept(todo, loaded, i)
    BY <1>2, <1>3
  <2>2. todo' = todo /\ loaded' = loaded /\ Len(objects) \in Nat /\ Len(objects') \in Nat
    BY <1>1 DEF TablesTypes
  <2>3. IsObject(o) /\ IsObject(o)'
    <3>1. o \in 1..Len(objects) /\ o' = o
      BY <2>1, <2>2 DEF TotalKept, IsObject
    <3>2. o \in 1..Len(objects')
      <4> HIDE DEF o
      <4> QED
        BY <2>2, <3>1
    <3> QED
      BY <3>1, <3>2 DEF IsObject
  <2>4. objects[o].count \in Nat /\ objects'[o].count \in Nat /\ loaded[i].value \in Nat
    <3>1. objects[o] \in ObjectRec /\ objects'[o] \in ObjectRec /\ client[d] \in ClientRec
      BY <2>3 DEF TablesTypes, IsObject
    <3>2. loaded \in Seq([of : Load, value : Nat])
      BY <3>1 DEF ClientRec
    <3>3. loaded[i] \in [of : Load, value : Nat]
      BY <3>2, ElementOfSeq
    <3> QED
      BY <3>1, <3>3 DEF ObjectRec
  <2>5. Worth(objects[o].count) <= Worth(objects'[o].count)
        /\ Worth(objects[o].count) \in Nat /\ Worth(objects'[o].count) \in Nat
    BY <2>3, <2>4, Worths DEF IsObject
  <2>7. objects'[o].reset = objects[o].reset
    BY <2>3 DEF IsObject
  <2>6. ~objects'[o].reset => loaded[i].value <= Worth(objects'[o].count)
    <3>1. ~objects[o].reset => loaded[i].value <= Worth(objects[o].count)
      BY <2>1 DEF TotalKept
    <3>2. ASSUME ~objects'[o].reset PROVE loaded[i].value <= Worth(objects'[o].count)
      <4>1. loaded[i].value <= Worth(objects[o].count)
        BY <2>7, <3>1, <3>2
      <4> HIDE DEF o, loaded
      <4> QED
        BY <2>4, <2>5, <4>1
    <3> QED
      BY <3>2
  <2> QED
    BY <2>1, <2>2, <2>3, <2>6, <2>7 DEF TotalKept, IsObject, CountOf, Worth
<1> QED
  BY <1>1, <1>2, <1>3 DEF CountFollows, CountOf

-----------------------------------------------------------------------------
(* Steps.                                                                  *)

\* What a client is.
LEMMA ClientKept ==
    ASSUME TablesTypes, NEW c \in Clients
    PROVE  /\ client[c] \in ClientRec
           /\ client[c].object \in Nat /\ client[c].todo \in Seq(Load)
           /\ client[c].loaded \in Seq([of : Load, value : Nat])
           /\ Len(objects) \in Nat
<1>1. client[c] \in ClientRec /\ Len(objects) \in Nat
  BY DEF TablesTypes
<1> QED
  BY <1>1 DEF ClientRec

\* One client changes.
LEMMA ClientSet ==
    ASSUME TablesTypes, NEW c \in Clients, NEW r \in ClientRec, client' = [client EXCEPT ![c] = r]
    PROVE  /\ client' \in [Clients -> ClientRec]
           /\ client'[c] = r /\ \A d \in Clients : d # c => client'[d] = client[d]
  BY DEF TablesTypes

\* A client takes an object.
LEMMA HoldsObject ==
    ASSUME TablesTypes, NEW c \in Clients, NEW o \in Nat,
           client' = [client EXCEPT ![c].object = o]
    PROVE  /\ \A d \in Clients : d # c => client'[d] = client[d]
           /\ client'[c].object = o /\ client'[c].pc = client[c].pc
           /\ client'[c].todo = client[c].todo /\ client'[c].loaded = client[c].loaded
           /\ client' \in [Clients -> ClientRec]
<1> DEFINE r == [client[c] EXCEPT !.object = o]
<1>1. r \in ClientRec /\ r.object = o /\ r.pc = client[c].pc
      /\ r.todo = client[c].todo /\ r.loaded = client[c].loaded
  BY ClientKept DEF ClientRec
<1>2. client' = [client EXCEPT ![c] = r]
  OBVIOUS
<1> HIDE DEF r
<1> QED
  BY <1>1, <1>2, ClientSet

\* Looking up an object, or making it, keeps the invariant.
LEMMA GetMetricsStep ==
    ASSUME TablesState, NEW c \in Clients, NEW k \in Kinds, NEW n \in MetricNames, GetMetrics(c, k, n)
    PROVE  TablesState'
<1>0. TablesTypes /\ ClientsKept /\ AllListed /\ CountsKept /\ DurationsOwed /\ TotalsKept
  BY DEF TablesState
<1>1. client[c] \in ClientRec /\ client[c].pc = "idle" /\ Len(objects) \in Nat
      /\ tables[k][n] \in 0..Len(objects) /\ UNCHANGED tableMutex
  BY <1>0, ClientKept DEF GetMetrics, TableCall, TablesTypes
<1>2. CASE Found(k, n) # 0
  <2>1. /\ client' = [client EXCEPT ![c].object = Found(k, n)]
        /\ UNCHANGED <<tables, objects, since>> /\ Found(k, n) \in 1..Len(objects)
    BY <1>1, <1>2 DEF GetMetrics, Found
  <2>2. /\ \A d \in Clients : d # c => client'[d] = client[d]
        /\ client'[c].object = Found(k, n) /\ client'[c].pc = "idle"
        /\ client'[c].todo = client[c].todo /\ client'[c].loaded = client[c].loaded
        /\ client' \in [Clients -> ClientRec]
    <3>1. Found(k, n) \in Nat
      BY <1>1, <2>1
    <3> HIDE DEF Found
    <3> QED
      BY <1>0, <1>1, <2>1, <3>1, HoldsObject
  <2>3. TablesTypes'
    BY <1>0, <1>1, <2>1, <2>2 DEF TablesTypes
  <2>4. \A d \in Clients : /\ client'[d].pc = client[d].pc /\ client'[d].todo = client[d].todo
                           /\ client'[d].loaded = client[d].loaded
                           /\ client[d].pc # "idle" => client'[d].object = client[d].object
    BY <1>1, <2>2
  <2>5. ClientsKept'
    BY <1>0, <1>1, <2>1, <2>2, <2>4 DEF ClientsKept, Locked, IsObject
  <2>6. AllListed'
    BY <1>0, <2>1, ListedFrame
  <2>7. CountsKept'
    BY <1>0, <2>1, <2>4, CountsFrame
  <2>8. DurationsOwed'
    BY <1>0, <2>1, <2>4, DurationsFrame
  <2>9. TotalsKept'
    <3>1. \A o \in 1..Len(objects) : objects[o].count \in Nat
      BY <1>0, FieldsKept DEF TablesTypes, CounterNames
    <3>2. \A o \in 1..Len(objects) : objects'[o].reset = objects[o].reset /\ objects[o].count <= objects'[o].count
      BY <2>1, <3>1
    <3>3. Len(objects) <= Len(objects')
      BY <1>1, <2>1
    <3> QED
      BY <1>0, <2>3, <2>4, <3>2, <3>3, TotalsGrow
  <2> QED
    BY <2>3, <2>5, <2>6, <2>7, <2>8, <2>9 DEF TablesState
<1>3. CASE Found(k, n) = 0
  <2> DEFINE new == Len(objects) + 1
  <2>0. /\ objects' = Append(objects, NewObject(k)) /\ since' = Append(since, 0)
        /\ tables' = [tables EXCEPT ![k][n] = Len(objects')]
        /\ client' = [client EXCEPT ![c].object = Len(objects')]
    BY <1>3 DEF GetMetrics
  <2>1. /\ objects' \in Seq(ObjectRec) /\ since' \in Seq(Nat)
        /\ Len(objects') = new /\ Len(since') = new
        /\ \A o \in 1..Len(objects) : objects'[o] = objects[o] /\ since'[o] = since[o]
        /\ objects'[new] = NewObject(k) /\ since'[new] = 0
    <3>1. NewObject(k) \in ObjectRec
      BY DEF NewObject, ObjectRec
    <3> QED
      BY <1>0, <2>0, <3>1 DEF TablesTypes
  <2>2. /\ \A d \in Clients : d # c => client'[d] = client[d]
        /\ client'[c].object = new /\ client'[c].pc = "idle"
        /\ client'[c].todo = client[c].todo /\ client'[c].loaded = client[c].loaded
        /\ client' \in [Clients -> ClientRec]
    <3>1. client' = [client EXCEPT ![c].object = new] /\ new \in Nat
      BY <1>1, <2>0, <2>1
    <3> HIDE DEF new
    <3> QED
      BY <1>0, <1>1, <3>1, HoldsObject
  <2>3. /\ tables' \in [Kinds -> [MetricNames -> 0..new]] /\ tables[k][n] = 0
        /\ tables'[k][n] = new
        /\ \A j \in Kinds, m \in MetricNames : j # k \/ m # n => tables'[j][m] = tables[j][m]
    BY <1>0, <1>1, <1>3, <2>0, <2>1 DEF TablesTypes, Found
  <2>4. TablesTypes'
    BY <1>0, <1>1, <2>1, <2>2, <2>3 DEF TablesTypes
  <2>5. \A d \in Clients : /\ client'[d].pc = client[d].pc /\ client'[d].todo = client[d].todo
                           /\ client'[d].loaded = client[d].loaded
                           /\ client[d].pc # "idle" => client'[d].object = client[d].object
    BY <1>1, <2>2
  <2>6. 1..new = 1..Len(objects) \cup {new} /\ new \in Nat /\ new # 0 /\ new \notin 1..Len(objects)
    BY <1>1
  <2>7. ClientsKept'
    <3> SUFFICES ASSUME NEW d \in Clients
                 PROVE  /\ client'[d].object <= new
                        /\ d \in tableMutex <=> client'[d].pc \in {"export", "reset"}
                        /\ client'[d].pc \in {"bytes", "duration"} => client'[d].object # 0
                        /\ client'[d].pc \notin {"export", "reset"} => client'[d].todo = <<>>
                        /\ client'[d].pc # "export" => client'[d].loaded = <<>>
                        /\ \A i \in 1..Len(client'[d].todo) :
                               /\ client'[d].todo[i].object \in 1..new
                               /\ client'[d].pc = "reset" => objects'[client'[d].todo[i].object].reset
      BY <1>1, <2>1 DEF ClientsKept, Locked, IsObject
    <3>1. client[d].object \in Nat
      BY <1>0, ClientKept
    <3>2. client'[d].object <= new /\ (client'[d].pc \in {"bytes", "duration"} => client'[d].object # 0)
      BY <1>0, <1>1, <2>2, <2>5, <2>6, <3>1 DEF ClientsKept
    <3>3. /\ d \in tableMutex <=> client'[d].pc \in {"export", "reset"}
          /\ client'[d].pc \notin {"export", "reset"} => client'[d].todo = <<>>
          /\ client'[d].pc # "export" => client'[d].loaded = <<>>
      BY <1>0, <2>5 DEF ClientsKept, Locked
    <3>4. ASSUME NEW i \in 1..Len(client'[d].todo)
          PROVE  /\ client'[d].todo[i].object \in 1..new
                 /\ client'[d].pc = "reset" => objects'[client'[d].todo[i].object].reset
      <4>1. i \in 1..Len(client[d].todo) /\ client'[d].todo = client[d].todo /\ client'[d].pc = client[d].pc
        BY <2>5
      <4>2. /\ client[d].todo[i].object \in 1..Len(objects)
            /\ client[d].pc = "reset" => objects[client[d].todo[i].object].reset
        BY <1>0, <4>1 DEF ClientsKept, IsObject
      <4> QED
        BY <2>1, <2>6, <4>1, <4>2
    <3> QED
      BY <3>2, <3>3, <3>4
  <2>8. AllListed'
    <3> SUFFICES ASSUME NEW j \in Kinds
                 PROVE  Listed(j)' = {o \in 1..new : objects'[o].kind = j}
      BY <2>1 DEF AllListed
    <3>1. Listed(j) = {o \in 1..Len(objects) : objects[o].kind = j}
      BY <1>0 DEF AllListed
    <3>2. Listed(j)' = IF j = k THEN Listed(j) \cup {new} ELSE Listed(j)
      BY <2>3, <2>6 DEF Listed
    <3>3. objects'[new].kind = k
      BY <2>1 DEF NewObject
    <3> QED
      BY <2>1, <2>6, <3>1, <3>2, <3>3
  <2>9. CountsKept'
    <3>1. \A o : Unstored(o) => Unstored(o)'
      BY <2>5 DEF Unstored, CountOf
    <3>2. objects'[new].count = 0 /\ since'[new] = 0
      BY <2>1 DEF NewObject
    <3> QED
      BY <1>0, <2>1, <2>6, <3>1, <3>2 DEF CountsKept
  <2>10. DurationsOwed'
    <3>1. \A o : Owing(o)' = Owing(o)
      BY <1>1, <2>2, <2>5 DEF Owing
    <3>2. Owing(new) = {}
      BY <1>0, <1>1, <2>6 DEF ClientsKept, Owing
    <3>3. objects'[new].count = 0 /\ objects'[new].time = 0
      BY <2>1 DEF NewObject
    <3>4. IsFiniteSet(Owing(new)) /\ Cardinality(Owing(new)) = 0 /\ Worth(0) = 0
      BY <3>2, FS_EmptySet, Worths
    <3> QED
      BY <1>0, <2>1, <2>6, <3>1, <3>3, <3>4 DEF DurationsOwed, Worth
  <2>11. TotalsKept'
    <3>1. \A o \in 1..Len(objects) : objects[o].count \in Nat
      BY <1>0, FieldsKept DEF TablesTypes, CounterNames
    <3>2. \A o \in 1..Len(objects) : objects'[o].reset = objects[o].reset /\ objects[o].count <= objects'[o].count
      BY <2>1, <3>1
    <3>3. Len(objects) <= Len(objects')
      BY <1>1, <2>1
    <3> QED
      BY <1>0, <2>4, <2>5, <3>2, <3>3, TotalsGrow
  <2> QED
    BY <2>4, <2>7, <2>8, <2>9, <2>10, <2>11 DEF TablesState
<1> QED
  BY <1>2, <1>3

\* A client goes on to its next step.
LEMMA ClientMoves ==
    ASSUME TablesTypes, NEW c \in Clients,
           NEW p \in {"idle", "bytes", "duration", "export", "reset"},
           client' = [client EXCEPT ![c].pc = p]
    PROVE  /\ \A d \in Clients : d # c => client'[d] = client[d]
           /\ client'[c].pc = p /\ client'[c].object = client[c].object
           /\ client'[c].todo = client[c].todo /\ client'[c].loaded = client[c].loaded
           /\ client' \in [Clients -> ClientRec]
<1> DEFINE r == [client[c] EXCEPT !.pc = p]
<1>1. r \in ClientRec /\ r.object = client[c].object /\ r.pc = p
      /\ r.todo = client[c].todo /\ r.loaded = client[c].loaded
  BY ClientKept DEF ClientRec
<1>2. client' = [client EXCEPT ![c] = r]
  OBVIOUS
<1> HIDE DEF r
<1> QED
  BY <1>1, <1>2, ClientSet

\* A recorder that adds to a counter of the object it holds.
LEMMA Recorded ==
    ASSUME TablesState, NEW c \in Clients, NEW f \in CounterNames, NEW n \in Nat, Add(c, f, n),
           client[c].object # 0
    PROVE  LET o == client[c].object
           IN  /\ o \in 1..Len(objects)
               /\ objects' \in Seq(ObjectRec) /\ Len(objects') = Len(objects)
               /\ \A p \in 1..Len(objects) :
                     /\ p # o => objects'[p] = objects[p]
                     /\ objects'[p].kind = objects[p].kind /\ objects'[p].reset = objects[p].reset
                     /\ \A g \in CounterNames : objects[p][g] \in Nat /\ objects'[p][g] =
                           IF p = o /\ g = f THEN objects[p][g] + n ELSE objects[p][g]
<1> DEFINE o == client[c].object
<1>1. o \in 1..Len(objects) /\ objects \in Seq(ObjectRec)
  BY ClientKept DEF TablesState, ClientsKept, TablesTypes
<1> DEFINE v == objects[o][f] + n
<1>2. objects' = [objects EXCEPT ![o][f] = v]
  BY DEF Add
<1>3. \A p \in 1..Len(objects) : \A g \in CounterNames : objects[p][g] \in Nat
  BY <1>1, FieldsKept
<1>4. v \in Nat
  BY <1>1, <1>3
<1> HIDE DEF o, v
<1>5. /\ objects' \in Seq(ObjectRec) /\ Len(objects') = Len(objects)
      /\ \A p \in 1..Len(objects) :
            /\ p # o => objects'[p] = objects[p]
            /\ objects'[p].kind = objects[p].kind /\ objects'[p].reset = objects[p].reset
            /\ \A g \in CounterNames : objects'[p][g] = IF p = o /\ g = f THEN v ELSE objects[p][g]
  BY <1>1, <1>2, <1>4, SetField
<1> QED
  BY <1>1, <1>3, <1>5 DEF o, v

\* What recording leaves alone.
LEMMA RecordFrame ==
    ASSUME TablesState, NEW c \in Clients, ~Locked(c), ~Locked(c)',
           UNCHANGED <<tables, tableMutex>>, client' \in [Clients -> ClientRec],
           \A d \in Clients : d # c => client'[d] = client[d],
           client'[c].object = client[c].object,
           client'[c].todo = client[c].todo, client'[c].loaded = client[c].loaded,
           client'[c].pc \in {"bytes", "duration"} => client[c].object # 0,
           objects' \in Seq(ObjectRec), Len(objects') = Len(objects),
           since' \in Seq(Nat), Len(since') = Len(since),
           \A p \in 1..Len(objects) :
               /\ objects'[p].kind = objects[p].kind /\ objects'[p].reset = objects[p].reset
               /\ objects[p].count <= objects'[p].count
    PROVE  TablesTypes' /\ ClientsKept' /\ AllListed' /\ TotalsKept'
<1>0. TablesTypes /\ ClientsKept /\ AllListed /\ TotalsKept
  BY DEF TablesState
<1>1. TablesTypes'
  BY <1>0 DEF TablesTypes
<1>2. ClientsKept'
  <2> SUFFICES ASSUME NEW d \in Clients
               PROVE  /\ client'[d].object <= Len(objects)
                      /\ d \in tableMutex <=> client'[d].pc \in {"export", "reset"}
                      /\ client'[d].pc \in {"bytes", "duration"} => client'[d].object # 0
                      /\ client'[d].pc \notin {"export", "reset"} => client'[d].todo = <<>>
                      /\ client'[d].pc # "export" => client'[d].loaded = <<>>
                      /\ \A i \in 1..Len(client'[d].todo) :
                             /\ client'[d].todo[i].object \in 1..Len(objects)
                             /\ client'[d].pc = "reset" => objects'[client'[d].todo[i].object].reset
    BY DEF ClientsKept, Locked, IsObject
  <2>1. CASE d = c
    <3>1. client'[c].todo = <<>> /\ client'[c].pc \notin {"export", "reset"} /\ client'[c].loaded = <<>>
      BY <1>0 DEF ClientsKept, Locked
    <3>2. 1..Len(client'[c].todo) = {}
      BY <3>1
    <3>3. client'[c].object <= Len(objects) /\ c \notin tableMutex
      BY <1>0 DEF ClientsKept, Locked
    <3> QED
      BY <2>1, <3>1, <3>2, <3>3
  <2>2. CASE d # c
    <3>1. client'[d] = client[d]
      BY <2>2
    <3>2. ASSUME NEW i \in 1..Len(client[d].todo)
          PROVE  /\ client[d].todo[i].object \in 1..Len(objects)
                 /\ client[d].pc = "reset" => objects'[client[d].todo[i].object].reset
      BY <1>0 DEF ClientsKept, IsObject
    <3>3. /\ client[d].object <= Len(objects)
          /\ d \in tableMutex <=> client[d].pc \in {"export", "reset"}
          /\ client[d].pc \in {"bytes", "duration"} => client[d].object # 0
          /\ client[d].pc \notin {"export", "reset"} => client[d].todo = <<>>
          /\ client[d].pc # "export" => client[d].loaded = <<>>
      BY <1>0 DEF ClientsKept, Locked
    <3> QED
      BY <3>1, <3>2, <3>3
  <2> QED
    BY <2>1, <2>2
<1>3. AllListed'
  BY <1>0, ListedFrame
<1>4. TotalsKept'
  <2>1. \A d \in Clients : client'[d].pc = "export" => client'[d] = client[d]
    BY DEF Locked
  <2>2. Len(objects) <= Len(objects')
    BY <1>0 DEF TablesTypes
  <2> QED
    BY <1>0, <1>1, <2>1, <2>2, TotalsGrow
<1> QED
  BY <1>1, <1>2, <1>3, <1>4

\* Counting a record keeps it: the duration is owed from here.
LEMMA RecordWriteStep ==
    ASSUME TablesState, NEW c \in Clients, RecordWrite(c)
    PROVE  TablesState'
<1> DEFINE o == client[c].object
           p == IF objects[o].kind = "sink" THEN "bytes" ELSE "duration"
<1>0. TablesTypes /\ CountsKept /\ DurationsOwed
  BY DEF TablesState
<1>1. /\ client[c].pc = "idle" /\ o # 0 /\ Add(c, "count", 1)
      /\ client' = [client EXCEPT ![c].pc = p] /\ since' = [since EXCEPT ![o] = @ + 1]
      /\ UNCHANGED <<tables, tableMutex>>
  BY DEF RecordWrite, Proceed
<1>2. p \in {"bytes", "duration"}
  OBVIOUS
<1> HIDE DEF p
<1>3. /\ \A d \in Clients : d # c => client'[d] = client[d]
      /\ client'[c].pc = p /\ client'[c].object = o
      /\ client'[c].todo = client[c].todo /\ client'[c].loaded = client[c].loaded
      /\ client' \in [Clients -> ClientRec]
  BY <1>0, <1>1, <1>2, ClientMoves
<1>4. /\ o \in 1..Len(objects)
      /\ objects' \in Seq(ObjectRec) /\ Len(objects') = Len(objects)
      /\ \A q \in 1..Len(objects) :
            /\ q # o => objects'[q] = objects[q]
            /\ objects'[q].kind = objects[q].kind /\ objects'[q].reset = objects[q].reset
            /\ objects[q].count \in Nat
            /\ objects'[q].time = objects[q].time /\ objects[q].time \in Nat
            /\ objects'[q].count = IF q = o THEN objects[q].count + 1 ELSE objects[q].count
  <2>1. "count" \in CounterNames /\ "time" \in CounterNames
    BY DEF CounterNames
  <2> HIDE DEF o
  <2> QED
    BY <1>1, <2>1, Recorded DEF o
<1>5. /\ since' \in Seq(Nat) /\ Len(since') = Len(since)
      /\ \A q \in 1..Len(objects) : since[q] \in Nat /\ since'[q] = IF q = o THEN since[q] + 1 ELSE since[q]
  <2>1. o \in 1..Len(since) /\ since \in Seq(Nat) /\ Len(since) = Len(objects)
    BY <1>0, <1>4 DEF TablesTypes
  <2>2. since' = [since EXCEPT ![o] = since[o] + 1]
    BY <1>1
  <2> HIDE DEF o
  <2> QED
    BY <2>1, <2>2
<1> HIDE DEF o
<1>6. TablesTypes' /\ ClientsKept' /\ AllListed' /\ TotalsKept'
  <2>1. \A q \in 1..Len(objects) : objects[q].count <= objects'[q].count
    BY <1>4
  <2>2. ~Locked(c) /\ ~Locked(c)'
    BY <1>1, <1>2, <1>3 DEF Locked
  <2> QED
    BY <1>1, <1>2, <1>3, <1>4, <1>5, <2>1, <2>2, RecordFrame DEF o
<1>7. CountsKept'
  <2>1. \A q : Unstored(q) => Unstored(q)'
    BY <1>1, <1>2, <1>3 DEF Unstored, CountOf
  <2>2. ASSUME NEW q \in 1..Len(objects)
        PROVE  /\ ~objects'[q].reset => objects'[q].count = since'[q]
               /\ objects'[q].count <= since'[q] \/ Unstored(q)'
    <3>1. /\ ~objects[q].reset => objects[q].count = since[q]
          /\ objects[q].count <= since[q] \/ Unstored(q)
      BY <1>0 DEF CountsKept
    <3>2. objects[q].count \in Nat /\ since[q] \in Nat /\ objects'[q].reset = objects[q].reset
      BY <1>4, <1>5
    <3>3. CASE q = o
      BY <1>4, <1>5, <2>1, <3>1, <3>2, <3>3
    <3>4. CASE q # o
      BY <1>4, <1>5, <2>1, <3>1, <3>2, <3>4
    <3> QED
      BY <3>3, <3>4
  <2> QED
    BY <1>4, <2>2 DEF CountsKept
<1>8. DurationsOwed'
  <2>1. \A q : q # o => Owing(q)' = Owing(q)
    BY <1>1, <1>2, <1>3 DEF Owing
  <2>2. Owing(o)' = Owing(o) \cup {c} /\ c \notin Owing(o)
    BY <1>1, <1>2, <1>3 DEF Owing, o
  <2>3. /\ IsFiniteSet(Owing(o))
        /\ ~objects[o].reset => objects[o].time + Worth(Cardinality(Owing(o))) <= Worth(objects[o].count)
    BY <1>0, <1>4 DEF DurationsOwed
  <2>4. IsFiniteSet(Owing(o)') /\ Cardinality(Owing(o)') = Cardinality(Owing(o)) + 1
        /\ Cardinality(Owing(o)) \in Nat
    BY <2>2, <2>3, FS_AddElement, FS_CardinalityType
  <2>5. ASSUME ~objects'[o].reset
        PROVE  objects'[o].time + Worth(Cardinality(Owing(o)')) <= Worth(objects'[o].count)
    <3>1. ~objects[o].reset /\ objects'[o].time = objects[o].time
          /\ objects'[o].count = objects[o].count + 1 /\ objects[o].count \in Nat /\ objects[o].time \in Nat
      BY <1>4, <2>5
    <3>2. /\ Worth(Cardinality(Owing(o)')) = Worth(Cardinality(Owing(o))) + Longest
          /\ Worth(objects'[o].count) = Worth(objects[o].count) + Longest
          /\ Worth(Cardinality(Owing(o))) \in Nat /\ Worth(objects[o].count) \in Nat
      BY <2>4, <3>1, Worths
    <3>3. objects[o].time + Worth(Cardinality(Owing(o))) <= Worth(objects[o].count) /\ Longest \in Nat
      BY <2>3, <3>1, TableBoundsAssumption
    <3> QED
      BY <3>1, <3>2, <3>3
  <2> QED
    <3> SUFFICES ASSUME NEW q \in 1..Len(objects)
                 PROVE  /\ IsFiniteSet(Owing(q)')
                        /\ ~objects'[q].reset =>
                              objects'[q].time + Worth(Cardinality(Owing(q)')) <= Worth(objects'[q].count)
      BY <1>4 DEF DurationsOwed, Worth
    <3>1. CASE q = o
      <4>0. o' = o
        BY <1>3 DEF o
      <4>1. Owing(q)' = Owing(o)'
        BY <3>1, <4>0 DEF Owing
      <4> QED
        BY <2>4, <2>5, <3>1, <4>1
    <3>2. CASE q # o
      <4>1. Owing(q)' = Owing(q)
        BY <2>1, <3>2
      <4> QED
        BY <1>0, <1>4, <3>2, <4>1 DEF DurationsOwed
    <3> QED
      BY <3>1, <3>2
<1> QED
  BY <1>6, <1>7, <1>8 DEF TablesState

\* Adding the bytes keeps it.
LEMMA RecordBytesStep ==
    ASSUME TablesState, NEW c \in Clients, RecordBytes(c)
    PROVE  TablesState'
<1> DEFINE o == client[c].object
<1>0. TablesTypes /\ ClientsKept /\ CountsKept /\ DurationsOwed
  BY DEF TablesState
<1>1. /\ client[c].pc = "bytes" /\ Add(c, "bytes", 1)
      /\ client' = [client EXCEPT ![c].pc = "duration"] /\ UNCHANGED <<tables, tableMutex, since>>
  BY DEF RecordBytes, Proceed
<1>2. o # 0
  BY <1>0, <1>1 DEF ClientsKept
<1>3. /\ \A d \in Clients : d # c => client'[d] = client[d]
      /\ client'[c].pc = "duration" /\ client'[c].object = client[c].object
      /\ client'[c].todo = client[c].todo /\ client'[c].loaded = client[c].loaded
      /\ client' \in [Clients -> ClientRec]
  BY <1>0, <1>1, ClientMoves
<1>4. /\ objects' \in Seq(ObjectRec) /\ Len(objects') = Len(objects)
      /\ \A q \in 1..Len(objects) :
            /\ objects'[q].kind = objects[q].kind /\ objects'[q].reset = objects[q].reset
            /\ objects[q].count \in Nat /\ objects'[q].count = objects[q].count
            /\ objects'[q].time = objects[q].time
  <2>1. "bytes" \in CounterNames /\ "count" \in CounterNames /\ "time" \in CounterNames
    BY DEF CounterNames
  <2> QED
    BY <1>1, <1>2, <2>1, Recorded
<1>6. TablesTypes' /\ ClientsKept' /\ AllListed' /\ TotalsKept'
  <2>1. \A q \in 1..Len(objects) : objects[q].count <= objects'[q].count
    BY <1>4
  <2>2. ~Locked(c) /\ ~Locked(c)'
    BY <1>1, <1>3 DEF Locked
  <2>3. since' \in Seq(Nat) /\ Len(since') = Len(since)
    BY <1>0, <1>1 DEF TablesTypes
  <2> QED
    BY <1>1, <1>2, <1>3, <1>4, <2>1, <2>2, <2>3, RecordFrame
<1>7. CountsKept'
  BY <1>0, <1>1, <1>3, <1>4, CountsFrame
<1>8. DurationsOwed'
  BY <1>0, <1>1, <1>3, <1>4, DurationsFrame
<1> QED
  BY <1>6, <1>7, <1>8 DEF TablesState

\* Adding the duration keeps it: it was owed.
LEMMA RecordDurationStep ==
    ASSUME TablesState, NEW c \in Clients, NEW d \in 0..Longest, RecordDuration(c, d)
    PROVE  TablesState'
<1> DEFINE o == client[c].object
<1>0. TablesTypes /\ ClientsKept /\ CountsKept /\ DurationsOwed
  BY DEF TablesState
<1>1. /\ client[c].pc = "duration" /\ Add(c, "time", d)
      /\ client' = [client EXCEPT ![c].pc = "idle"] /\ UNCHANGED <<tables, tableMutex, since>>
  BY DEF RecordDuration, Proceed
<1>2. o # 0 /\ d \in Nat /\ d <= Longest /\ Longest \in Nat
  BY <1>0, <1>1, TableBoundsAssumption DEF ClientsKept
<1>3. /\ \A e \in Clients : e # c => client'[e] = client[e]
      /\ client'[c].pc = "idle" /\ client'[c].object = client[c].object
      /\ client'[c].todo = client[c].todo /\ client'[c].loaded = client[c].loaded
      /\ client' \in [Clients -> ClientRec]
  BY <1>0, <1>1, ClientMoves
<1>4. /\ o \in 1..Len(objects)
      /\ objects' \in Seq(ObjectRec) /\ Len(objects') = Len(objects)
      /\ \A q \in 1..Len(objects) :
            /\ q # o => objects'[q] = objects[q]
            /\ objects'[q].kind = objects[q].kind /\ objects'[q].reset = objects[q].reset
            /\ objects[q].count \in Nat /\ objects'[q].count = objects[q].count
            /\ objects[q].time \in Nat
            /\ objects'[q].time = IF q = o THEN objects[q].time + d ELSE objects[q].time
  <2>1. "count" \in CounterNames /\ "time" \in CounterNames
    BY DEF CounterNames
  <2> HIDE DEF o
  <2> QED
    BY <1>1, <1>2, <2>1, Recorded DEF o
<1> HIDE DEF o
<1>6. TablesTypes' /\ ClientsKept' /\ AllListed' /\ TotalsKept'
  <2>1. \A q \in 1..Len(objects) : objects[q].count <= objects'[q].count
    BY <1>4
  <2>2. ~Locked(c) /\ ~Locked(c)' /\ client'[c].pc \notin {"bytes", "duration"}
    BY <1>1, <1>3 DEF Locked
  <2>3. since' \in Seq(Nat) /\ Len(since') = Len(since)
    BY <1>0, <1>1 DEF TablesTypes
  <2> QED
    BY <1>1, <1>3, <1>4, <2>1, <2>2, <2>3, RecordFrame
<1>7. CountsKept'
  BY <1>0, <1>1, <1>3, <1>4, CountsFrame
<1>8. DurationsOwed'
  <2>1. \A q : q # o => Owing(q)' = Owing(q)
    BY <1>1, <1>3 DEF Owing, o
  <2>2. Owing(o)' = Owing(o) \ {c} /\ c \in Owing(o)
    BY <1>1, <1>3 DEF Owing, o
  <2>3. /\ IsFiniteSet(Owing(o))
        /\ ~objects[o].reset => objects[o].time + Worth(Cardinality(Owing(o))) <= Worth(objects[o].count)
    BY <1>0, <1>4 DEF DurationsOwed
  <2>6. IsFiniteSet(Owing(o) \ {c}) /\ Cardinality(Owing(o) \ {c}) = Cardinality(Owing(o)) - 1
        /\ Cardinality(Owing(o)) \in Nat /\ Cardinality(Owing(o) \ {c}) \in Nat
    BY <2>2, <2>3, FS_RemoveElement, FS_CardinalityType
  <2>4. IsFiniteSet(Owing(o)') /\ Cardinality(Owing(o)) = Cardinality(Owing(o)') + 1
        /\ Cardinality(Owing(o)') \in Nat
    BY <2>2, <2>6
  <2>5. ASSUME ~objects'[o].reset
        PROVE  objects'[o].time + Worth(Cardinality(Owing(o)')) <= Worth(objects'[o].count)
    <3>1. ~objects[o].reset /\ objects'[o].time = objects[o].time + d
          /\ objects'[o].count = objects[o].count /\ objects[o].count \in Nat /\ objects[o].time \in Nat
      BY <1>4, <2>5
    <3>2. /\ Worth(Cardinality(Owing(o))) = Worth(Cardinality(Owing(o)')) + Longest
          /\ Worth(Cardinality(Owing(o)')) \in Nat /\ Worth(objects[o].count) \in Nat
      BY <2>4, <3>1, Worths
    <3>3. objects[o].time + Worth(Cardinality(Owing(o))) <= Worth(objects[o].count)
      BY <2>3, <3>1
    <3> QED
      BY <1>2, <3>1, <3>2, <3>3
  <2> QED
    <3> SUFFICES ASSUME NEW q \in 1..Len(objects)
                 PROVE  /\ IsFiniteSet(Owing(q)')
                        /\ ~objects'[q].reset =>
                              objects'[q].time + Worth(Cardinality(Owing(q)')) <= Worth(objects'[q].count)
      BY <1>4 DEF DurationsOwed, Worth
    <3>1. CASE q = o
      <4>0. o' = o
        BY <1>3 DEF o
      <4>1. Owing(q)' = Owing(o)'
        BY <3>1, <4>0 DEF Owing
      <4> QED
        BY <2>4, <2>5, <3>1, <4>1
    <3>2. CASE q # o
      <4>1. Owing(q)' = Owing(q)
        BY <2>1, <3>2
      <4> QED
        BY <1>0, <1>4, <3>2, <4>1 DEF DurationsOwed
    <3> QED
      BY <3>1, <3>2
<1> QED
  BY <1>6, <1>7, <1>8 DEF TablesState

\* Counting an error keeps it.
LEMMA RecordMetricErrorStep ==
    ASSUME TablesState, NEW c \in Clients, RecordMetricError(c)
    PROVE  TablesState'
<1>0. TablesTypes /\ ClientsKept /\ CountsKept /\ DurationsOwed
  BY DEF TablesState
<1>1. /\ client[c].pc = "idle" /\ client[c].object # 0 /\ Add(c, "errors", 1)
      /\ UNCHANGED <<tables, client, tableMutex, since>>
  BY DEF RecordMetricError, TableCall
<1>4. /\ objects' \in Seq(ObjectRec) /\ Len(objects') = Len(objects)
      /\ \A q \in 1..Len(objects) :
            /\ objects'[q].kind = objects[q].kind /\ objects'[q].reset = objects[q].reset
            /\ objects[q].count \in Nat /\ objects'[q].count = objects[q].count
            /\ objects'[q].time = objects[q].time
  <2>1. "errors" \in CounterNames /\ "count" \in CounterNames /\ "time" \in CounterNames
    BY DEF CounterNames
  <2> QED
    BY <1>1, <2>1, Recorded
<1>6. TablesTypes' /\ ClientsKept' /\ AllListed' /\ TotalsKept'
  <2>1. \A q \in 1..Len(objects) : objects[q].count <= objects'[q].count
    BY <1>4
  <2>2. ~Locked(c) /\ ~Locked(c)'
    BY <1>1 DEF Locked
  <2>3. since' \in Seq(Nat) /\ Len(since') = Len(since) /\ client' \in [Clients -> ClientRec]
    BY <1>0, <1>1 DEF TablesTypes
  <2> QED
    BY <1>1, <1>4, <2>1, <2>2, <2>3, RecordFrame
<1>7. CountsKept'
  BY <1>0, <1>1, <1>4, CountsFrame
<1>8. DurationsOwed'
  BY <1>0, <1>1, <1>4, DurationsFrame
<1> QED
  BY <1>6, <1>7, <1>8 DEF TablesState

-----------------------------------------------------------------------------
(* Exports and resets, beside which no others run.                         *)

\* While one client holds the mutex no other exports or resets.
LEMMA OthersUnlocked ==
    ASSUME TablesState, NEW c \in Clients, tableMutex = {} \/ c \in tableMutex,
           NEW d \in Clients, d # c
    PROVE  ~Locked(d) /\ client[d].todo = <<>> /\ client[d].loaded = <<>>
<1>1. d \notin tableMutex
  BY DEF TablesState, TablesTypes
<1>2. ~Locked(d)
  BY <1>1 DEF TablesState, ClientsKept
<1> QED
  BY <1>2 DEF TablesState, ClientsKept, Locked

\* A step under the mutex that changes no object, only its own client.
LEMMA LockedFrame ==
    ASSUME TablesState, NEW c \in Clients, tableMutex = {} \/ c \in tableMutex,
           UNCHANGED tables, objects' \in Seq(ObjectRec), Len(objects') = Len(objects),
           \A o \in 1..Len(objects) : objects'[o].kind = objects[o].kind,
           since' \in Seq(Nat), Len(since') = Len(since),
           client' \in [Clients -> ClientRec], \A d \in Clients : d # c => client'[d] = client[d],
           client'[c].object = client[c].object,
           IF Locked(c)' THEN tableMutex' = {c}
           ELSE tableMutex' = {} /\ client'[c].todo = <<>> /\ client'[c].pc = "idle",
           client'[c].pc # "export" => client'[c].loaded = <<>>,
           \A i \in 1..Len(client'[c].todo) :
               /\ client'[c].todo[i].object \in 1..Len(objects)
               /\ client'[c].pc = "reset" => objects'[client'[c].todo[i].object].reset
    PROVE  TablesTypes' /\ ClientsKept' /\ AllListed'
<1>0. TablesTypes /\ ClientsKept /\ AllListed
  BY DEF TablesState
<1>1. TablesTypes'
  BY <1>0 DEF TablesTypes
<1>2. ClientsKept'
  <2> SUFFICES ASSUME NEW d \in Clients
               PROVE  /\ client'[d].object <= Len(objects)
                      /\ d \in tableMutex' <=> client'[d].pc \in {"export", "reset"}
                      /\ client'[d].pc \in {"bytes", "duration"} => client'[d].object # 0
                      /\ client'[d].pc \notin {"export", "reset"} => client'[d].todo = <<>>
                      /\ client'[d].pc # "export" => client'[d].loaded = <<>>
                      /\ \A i \in 1..Len(client'[d].todo) :
                             /\ client'[d].todo[i].object \in 1..Len(objects)
                             /\ client'[d].pc = "reset" => objects'[client'[d].todo[i].object].reset
    BY DEF ClientsKept, Locked, IsObject
  <2>1. CASE d = c
    <3>1. client[c].object <= Len(objects)
      BY <1>0 DEF ClientsKept
    <3>2. CASE Locked(c)'
      BY <2>1, <3>1, <3>2 DEF Locked
    <3>3. CASE ~Locked(c)'
      BY <2>1, <3>1, <3>3 DEF Locked
    <3> QED
      BY <3>2, <3>3
  <2>2. CASE d # c
    <3>1. client'[d] = client[d] /\ ~Locked(d) /\ client[d].todo = <<>> /\ client[d].loaded = <<>>
      BY <2>2, OthersUnlocked
    <3>2. d \notin tableMutex' /\ 1..Len(client[d].todo) = {}
      BY <2>2, <3>1
    <3>3. client[d].object <= Len(objects) /\ (client[d].pc \in {"bytes", "duration"} => client[d].object # 0)
      BY <1>0 DEF ClientsKept
    <3> QED
      BY <3>1, <3>2, <3>3 DEF Locked
  <2> QED
    BY <2>1, <2>2
<1>3. AllListed'
  BY <1>0, ListedFrame
<1> QED
  BY <1>1, <1>2, <1>3

\* A step under the mutex leaves alone who owes a duration.
LEMMA LockedOwing ==
    ASSUME NEW c \in Clients, client[c].pc \in {"idle", "export", "reset"},
           client'[c].pc \in {"idle", "export", "reset"},
           \A d \in Clients : d # c => client'[d] = client[d]
    PROVE  \A d \in Clients :
               /\ client'[d].pc \in {"bytes", "duration"} <=> client[d].pc \in {"bytes", "duration"}
               /\ client[d].pc \in {"bytes", "duration"} => client'[d].object = client[d].object
<1> SUFFICES ASSUME NEW d \in Clients
             PROVE  /\ client'[d].pc \in {"bytes", "duration"} <=> client[d].pc \in {"bytes", "duration"}
                    /\ client[d].pc \in {"bytes", "duration"} => client'[d].object = client[d].object
  OBVIOUS
<1>1. CASE d = c
  BY <1>1
<1>2. CASE d # c
  BY <1>2
<1> QED
  BY <1>1, <1>2

\* The objects listed are finitely many.
LEMMA ListedObjects ==
    ASSUME TablesTypes, AllListed, NEW k \in Kinds
    PROVE  /\ Listed(k) \in SUBSET Nat /\ Listed(k) \subseteq 1..Len(objects) /\ IsFiniteSet(Listed(k))
           /\ \A o \in 1..Len(objects) : objects[o].kind = k <=> o \in Listed(k)
<1>1. Listed(k) = {o \in 1..Len(objects) : objects[o].kind = k} /\ Len(objects) \in Nat
  BY DEF AllListed, TablesTypes
<1>2. IsFiniteSet(1..Len(objects))
  BY <1>1, FS_Interval
<1>3. IsFiniteSet(Listed(k))
  BY <1>1, <1>2, FS_Subset
<1> QED
  BY <1>1, <1>3

\* Starting an export keeps it.
LEMMA ExportAllStep ==
    ASSUME TablesState, NEW c \in Clients, NEW f \in Formats, Export(c, f)
    PROVE  TablesState'
<1> DEFINE a == ForEach(Listed("logger"), Loads("logger", f))
           b == ForEach(Listed("sink"), Loads("sink", f))
           t == a \o b
           r == [client[c] EXCEPT !.pc = "export", !.loaded = <<>>, !.todo = t]
<1>0. TablesTypes /\ ClientsKept /\ AllListed /\ CountsKept /\ DurationsOwed /\ Len(objects) \in Nat
  BY DEF TablesState, TablesTypes
<1>1. /\ client[c].pc = "idle" /\ tableMutex = {} /\ tableMutex' = {c}
      /\ client' = [client EXCEPT ![c] = r] /\ UNCHANGED <<tables, objects, since>>
  BY DEF Export, TableCall, Unlocked
<1>2. "logger" \in Kinds /\ "sink" \in Kinds
  BY DEF Kinds
<1>3. /\ a \in Seq(Load) /\ CountFollows(a)
      /\ \A i \in 1..Len(a) : a[i].object \in Listed("logger")
  BY <1>0, <1>2, ListedObjects, LoadLists, ForEachLists
<1>4. /\ b \in Seq(Load) /\ CountFollows(b)
      /\ \A i \in 1..Len(b) : b[i].object \in Listed("sink")
  BY <1>0, <1>2, ListedObjects, LoadLists, ForEachLists
<1> HIDE DEF a, b
<1>5. t \in Seq(Load) /\ CountFollows(t)
  BY <1>3, <1>4, BothFollow
<1>6. \A i \in 1..Len(t) : t[i].object \in 1..Len(objects)
  <2> SUFFICES ASSUME NEW i \in 1..Len(t) PROVE t[i].object \in 1..Len(objects)
    OBVIOUS
  <2>1. /\ Len(t) = Len(a) + Len(b) /\ Len(a) \in Nat /\ Len(b) \in Nat
        /\ i \in 1..Len(a) => t[i] = a[i]
        /\ i \notin 1..Len(a) => t[i] = b[i - Len(a)] /\ i - Len(a) \in 1..Len(b)
    BY <1>3, <1>4
  <2>2. /\ i \in 1..Len(a) => a[i].object \in 1..Len(objects)
        /\ i \notin 1..Len(a) => b[i - Len(a)].object \in 1..Len(objects)
    BY <1>0, <1>2, <1>3, <1>4, <2>1, ListedObjects
  <2> QED
    BY <2>1, <2>2
<1> HIDE DEF t
<1>7. r \in ClientRec /\ r.pc = "export" /\ r.loaded = <<>> /\ r.todo = t /\ r.object = client[c].object
  <2>1. <<>> \in Seq([of : Load, value : Nat])
    OBVIOUS
  <2>2. client[c] \in ClientRec
    BY <1>0, ClientKept
  <2> QED
    BY <1>0, <1>5, <2>1, <2>2 DEF ClientRec
<1> HIDE DEF r
<1>8. /\ client' \in [Clients -> ClientRec] /\ client'[c] = r
      /\ \A d \in Clients : d # c => client'[d] = client[d]
  BY <1>0, <1>1, <1>7, ClientSet
<1>9. TablesTypes' /\ ClientsKept' /\ AllListed'
  <2>1. Locked(c)'
    BY <1>7, <1>8 DEF Locked
  <2>2. objects' \in Seq(ObjectRec) /\ since' \in Seq(Nat)
    BY <1>0, <1>1 DEF TablesTypes
  <2> QED
    BY <1>1, <1>6, <1>7, <1>8, <2>1, <2>2, LockedFrame
<1>10. CountsKept'
  <2>1. \A d \in Clients : client[d].pc = "reset" => client'[d] = client[d]
    BY <1>1, <1>8
  <2> QED
    BY <1>0, <1>1, <2>1, CountsFrame
<1>11. DurationsOwed'
  <2>1. \A d \in Clients :
            /\ client'[d].pc \in {"bytes", "duration"} <=> client[d].pc \in {"bytes", "duration"}
            /\ client[d].pc \in {"bytes", "duration"} => client'[d].object = client[d].object
    BY <1>1, <1>7, <1>8, LockedOwing
  <2> QED
    BY <1>0, <1>1, <2>1, DurationsFrame
<1>12. TotalsKept'
  <2>1. \A d \in Clients : client'[d].pc = "export" => d = c
    BY <1>1, <1>8, OthersUnlocked DEF Locked
  <2>3. CountFollows(client'[c].todo)
    BY <1>5, <1>7, <1>8
  <2>4. 1..Len(client'[c].loaded) = {}
    BY <1>7, <1>8
  <2> QED
    BY <2>1, <2>3, <2>4 DEF TotalsKept, CountFollows, CountOf
<1> QED
  BY <1>9, <1>10, <1>11, <1>12 DEF TablesState

\* Ending an export keeps it.
LEMMA ExportDoneStep ==
    ASSUME TablesState, NEW c \in Clients, ExportDone(c)
    PROVE  TablesState'
<1> DEFINE r == [client[c] EXCEPT !.pc = "idle", !.loaded = <<>>]
<1>0. TablesTypes /\ ClientsKept /\ CountsKept /\ DurationsOwed
  BY DEF TablesState
<1>1. /\ client[c].pc = "export" /\ client[c].todo = <<>> /\ tableMutex' = {}
      /\ client' = [client EXCEPT ![c] = r] /\ UNCHANGED <<tables, objects, since>>
  BY DEF ExportDone
<1>2. c \in tableMutex
  BY <1>0, <1>1 DEF ClientsKept, Locked
<1>7. r \in ClientRec /\ r.pc = "idle" /\ r.loaded = <<>> /\ r.todo = <<>> /\ r.object = client[c].object
  <2>1. <<>> \in Seq([of : Load, value : Nat])
    OBVIOUS
  <2>2. client[c] \in ClientRec
    BY <1>0, ClientKept
  <2> QED
    BY <1>0, <1>1, <2>1, <2>2 DEF ClientRec
<1> HIDE DEF r
<1>8. /\ client' \in [Clients -> ClientRec] /\ client'[c] = r
      /\ \A d \in Clients : d # c => client'[d] = client[d]
  BY <1>0, <1>1, <1>7, ClientSet
<1>9. TablesTypes' /\ ClientsKept' /\ AllListed'
  <2>1. ~Locked(c)' /\ 1..Len(client'[c].todo) = {}
    BY <1>7, <1>8 DEF Locked
  <2>2. objects' \in Seq(ObjectRec) /\ since' \in Seq(Nat)
    BY <1>0, <1>1 DEF TablesTypes
  <2> QED
    BY <1>1, <1>2, <1>7, <1>8, <2>1, <2>2, LockedFrame
<1>10. CountsKept'
  <2>1. \A d \in Clients : client[d].pc = "reset" => client'[d] = client[d]
    BY <1>1, <1>8
  <2> QED
    BY <1>0, <1>1, <2>1, CountsFrame
<1>11. DurationsOwed'
  <2>1. \A d \in Clients :
            /\ client'[d].pc \in {"bytes", "duration"} <=> client[d].pc \in {"bytes", "duration"}
            /\ client[d].pc \in {"bytes", "duration"} => client'[d].object = client[d].object
    BY <1>1, <1>7, <1>8, LockedOwing
  <2> QED
    BY <1>0, <1>1, <2>1, DurationsFrame
<1>12. TotalsKept'
  <2>1. \A d \in Clients : client'[d].pc # "export"
    BY <1>2, <1>7, <1>8, OthersUnlocked DEF Locked
  <2> QED
    BY <2>1, TotalsNone
<1> QED
  BY <1>9, <1>10, <1>11, <1>12 DEF TablesState

\* What a sequence is without its first element.
LEMMA FirstGone ==
    ASSUME NEW t \in Seq(Load), t # <<>>
    PROVE  /\ Head(t) = t[1] /\ Head(t) \in Load /\ 1 \in 1..Len(t) /\ Len(t) \in Nat
           /\ Tail(t) \in Seq(Load) /\ Len(Tail(t)) = Len(t) - 1
           /\ \A i \in 1..Len(Tail(t)) : i + 1 \in 1..Len(t) /\ Tail(t)[i] = t[i + 1]
           /\ \A i \in 1..Len(t) : i # 1 => i - 1 \in 1..Len(Tail(t)) /\ Tail(t)[i - 1] = t[i]
<1>1. /\ Head(t) = t[1] /\ Head(t) \in Load /\ 1 \in 1..Len(t) /\ Len(t) \in Nat
      /\ Tail(t) \in Seq(Load) /\ Len(Tail(t)) = Len(t) - 1
      /\ \A i \in 1..Len(Tail(t)) : Tail(t)[i] = t[i + 1]
  OBVIOUS
<1>2. \A i \in 1..Len(t) : i # 1 => i - 1 \in 1..Len(Tail(t)) /\ (i - 1) + 1 = i
  BY <1>1
<1> QED
  BY <1>1, <1>2

\* Without its first load a list still has the counts behind the totals.
LEMMA TailFollows ==
    ASSUME NEW t \in Seq(Load), t # <<>>, CountFollows(t)
    PROVE  CountFollows(Tail(t))
<1> DEFINE u == Tail(t)
<1>1. /\ Len(t) \in Nat /\ Len(u) = Len(t) - 1
      /\ \A i \in 1..Len(u) : i + 1 \in 1..Len(t) /\ u[i] = t[i + 1]
      /\ \A i \in 1..Len(t) : i # 1 => i - 1 \in 1..Len(u) /\ u[i - 1] = t[i]
  BY FirstGone
<1> HIDE DEF u
<1> SUFFICES ASSUME NEW i \in 1..Len(u), u[i].field = "time"
             PROVE  \E j \in (i + 1)..Len(u) : u[j] = CountOf(u[i].object)
  BY DEF CountFollows, u
<1>2. i + 1 \in 1..Len(t) /\ u[i] = t[i + 1]
  BY <1>1
<1>3. PICK j \in (i + 1 + 1)..Len(t) : t[j] = CountOf(t[i + 1].object)
  BY <1>2 DEF CountFollows
<1>4. j \in 1..Len(t) /\ j # 1 /\ j - 1 \in (i + 1)..Len(u)
  BY <1>1, <1>3
<1>5. u[j - 1] = CountOf(u[i].object)
  BY <1>1, <1>2, <1>3, <1>4
<1> QED
  BY <1>4, <1>5

\* Loading one counter keeps it: a total is loaded before its count.
LEMMA ExportLoadStep ==
    ASSUME TablesState, NEW c \in Clients, ExportLoad(c)
    PROVE  TablesState'
<1> DEFINE todo == client[c].todo
           loaded == client[c].loaded
           next == Head(todo)
           entry == [of |-> next, value |-> objects[next.object][next.field]]
           left == Tail(todo)
           all == Append(loaded, entry)
           r == [client[c] EXCEPT !.todo = left, !.loaded = all]
<1>0. TablesTypes /\ ClientsKept /\ CountsKept /\ DurationsOwed /\ TotalsKept
  BY DEF TablesState
<1>1. /\ client[c].pc = "export" /\ todo # <<>>
      /\ client' = [client EXCEPT ![c] = r] /\ UNCHANGED <<tables, objects, tableMutex, since>>
  BY DEF ExportLoad
<1>2. todo \in Seq(Load) /\ loaded \in Seq([of : Load, value : Nat]) /\ client[c] \in ClientRec
  BY <1>0, ClientKept
<1>3. tableMutex = {c}
  BY <1>0, <1>1 DEF ClientsKept, Locked, TablesTypes
<1>4. /\ next = todo[1] /\ next \in Load /\ 1 \in 1..Len(todo) /\ Len(todo) \in Nat
      /\ left \in Seq(Load) /\ Len(left) = Len(todo) - 1
      /\ \A i \in 1..Len(left) : i + 1 \in 1..Len(todo) /\ left[i] = todo[i + 1]
      /\ \A i \in 1..Len(todo) : i # 1 => i - 1 \in 1..Len(left) /\ left[i - 1] = todo[i]
  BY <1>1, <1>2, FirstGone
<1>5. next.object \in 1..Len(objects) /\ next.field \in CounterNames
  BY <1>0, <1>4 DEF ClientsKept, IsObject, Load
<1>6. entry \in [of : Load, value : Nat]
  BY <1>0, <1>4, <1>5, FieldsKept DEF TablesTypes
<1>7. CountFollows(todo) /\ CountFollows(left)
      /\ \A i \in 1..Len(loaded) : loaded[i].of.field = "time" => TotalKept(todo, loaded, i)
  BY <1>0, <1>1, <1>2, TailFollows DEF TotalsKept
<1>8. entry.of = next /\ entry.value = objects[next.object][next.field]
  OBVIOUS
<1> HIDE DEF todo, loaded, next, entry, left
<1>9. /\ all \in Seq([of : Load, value : Nat]) /\ Len(all) = Len(loaded) + 1 /\ Len(loaded) \in Nat
      /\ \A i \in 1..Len(loaded) : all[i] = loaded[i]
      /\ all[Len(loaded) + 1] = entry
  BY <1>2, <1>6
<1> HIDE DEF all
<1>10. r \in ClientRec /\ r.pc = "export" /\ r.todo = left /\ r.loaded = all /\ r.object = client[c].object
  BY <1>1, <1>2, <1>4, <1>9 DEF ClientRec
<1> HIDE DEF r
<1>11. /\ client' \in [Clients -> ClientRec] /\ client'[c] = r
       /\ \A d \in Clients : d # c => client'[d] = client[d]
  BY <1>0, <1>1, <1>10, ClientSet
<1>12. TablesTypes' /\ ClientsKept' /\ AllListed'
  <2>1. Locked(c)' /\ client'[c].pc = "export" /\ client'[c].object = client[c].object /\ client'[c].todo = left
    BY <1>10, <1>11 DEF Locked
  <2>2. objects' \in Seq(ObjectRec) /\ since' \in Seq(Nat)
    BY <1>0, <1>1 DEF TablesTypes
  <2>3. \A i \in 1..Len(left) : left[i].object \in 1..Len(objects)
    BY <1>0, <1>4 DEF ClientsKept, IsObject, todo
  <2> QED
    BY <1>1, <1>3, <1>11, <2>1, <2>2, <2>3, LockedFrame
<1>13. CountsKept'
  <2>1. \A d \in Clients : client[d].pc = "reset" => client'[d] = client[d]
    BY <1>1, <1>11
  <2> QED
    BY <1>0, <1>1, <2>1, CountsFrame
<1>14. DurationsOwed'
  <2>1. \A d \in Clients :
            /\ client'[d].pc \in {"bytes", "duration"} <=> client[d].pc \in {"bytes", "duration"}
            /\ client[d].pc \in {"bytes", "duration"} => client'[d].object = client[d].object
    BY <1>1, <1>10, <1>11, LockedOwing
  <2> QED
    BY <1>0, <1>1, <2>1, DurationsFrame
<1>15. ASSUME NEW i \in 1..Len(all), all[i].of.field = "time"
       PROVE  TotalKept(left, all, i)
  <2>1. CASE i \in 1..Len(loaded)
    <3> DEFINE o == loaded[i].of.object
    <3>1. all[i] = loaded[i] /\ TotalKept(todo, loaded, i)
      BY <1>7, <1>9, <1>15, <2>1
    <3>2. IsObject(o)
      BY <3>1 DEF TotalKept
    <3>3. \/ \E j \in 1..Len(left) : left[j] = CountOf(o)
          \/ \E j \in (i + 1)..Len(all) : all[j].of = CountOf(o)
      <4>1. CASE \E j \in 1..Len(todo) : todo[j] = CountOf(o)
        <5>1. PICK j \in 1..Len(todo) : todo[j] = CountOf(o)
          BY <4>1
        <5>2. CASE j = 1
          <6>1. Len(loaded) + 1 \in (i + 1)..Len(all)
            BY <1>9, <2>1
          <6>2. all[Len(loaded) + 1].of = CountOf(o)
            BY <1>4, <1>8, <1>9, <5>1, <5>2
          <6> QED
            BY <6>1, <6>2
        <5>3. CASE j # 1
          BY <1>4, <5>1, <5>3
        <5> QED
          BY <5>2, <5>3
      <4>2. CASE \E j \in (i + 1)..Len(loaded) : loaded[j].of = CountOf(o)
        <5>1. PICK j \in (i + 1)..Len(loaded) : loaded[j].of = CountOf(o)
          BY <4>2
        <5>2. j \in (i + 1)..Len(all) /\ j \in 1..Len(loaded)
          BY <1>9, <2>1, <5>1
        <5> QED
          BY <1>9, <5>1, <5>2
      <4> QED
        BY <3>1, <4>1, <4>2 DEF TotalKept
    <3>4. ASSUME ~objects[o].reset
          PROVE  /\ loaded[i].value <= Worth(objects[o].count)
                 /\ \A j \in (i + 1)..Len(all) :
                        all[j].of = CountOf(o) => loaded[i].value <= Worth(all[j].value)
      <4>1. /\ loaded[i].value <= Worth(objects[o].count)
            /\ \A j \in (i + 1)..Len(loaded) :
                   loaded[j].of = CountOf(o) => loaded[i].value <= Worth(loaded[j].value)
        BY <3>1, <3>4 DEF TotalKept
      <4>2. ASSUME NEW j \in (i + 1)..Len(all), all[j].of = CountOf(o)
            PROVE  loaded[i].value <= Worth(all[j].value)
        <5>1. CASE j \in 1..Len(loaded)
          <6>1. j \in (i + 1)..Len(loaded)
            BY <1>9, <2>1, <5>1
          <6> QED
            BY <1>9, <4>1, <4>2, <5>1, <6>1
        <5>2. CASE j = Len(loaded) + 1
          <6>1. next = CountOf(o) /\ all[j].value = objects[next.object][next.field]
            BY <1>8, <1>9, <4>2, <5>2
          <6>2. next.object = o /\ next.field = "count"
            BY <6>1 DEF CountOf
          <6>3. all[j].value = objects[o].count
            BY <6>1, <6>2
          <6> QED
            BY <4>1, <6>3
        <5>3. j \in 1..Len(loaded) \/ j = Len(loaded) + 1
          BY <1>9, <2>1
        <5> QED
          BY <5>1, <5>2, <5>3
      <4> QED
        BY <4>1, <4>2
    <3> QED
      BY <3>1, <3>2, <3>3, <3>4 DEF TotalKept
  <2>2. CASE i = Len(loaded) + 1
    <3> DEFINE o == next.object
    <3>1. all[i].of = next /\ all[i].value = objects[o].time /\ next.field = "time" /\ IsObject(o)
      BY <1>5, <1>8, <1>9, <1>15, <2>2 DEF IsObject
    <3>2. \E j \in 1..Len(left) : left[j] = CountOf(o)
      <4>1. todo[1].field = "time" /\ todo[1].object = o
        BY <1>4, <3>1
      <4>2. PICK j \in (1 + 1)..Len(todo) : todo[j] = CountOf(o)
        BY <1>4, <1>7, <4>1 DEF CountFollows
      <4>3. j \in 1..Len(todo) /\ j # 1
        BY <1>4, <4>2
      <4> QED
        BY <1>4, <4>2, <4>3
    <3>3. (i + 1)..Len(all) = {}
      BY <1>9, <2>2
    <3>4. ASSUME ~objects[o].reset PROVE all[i].value <= Worth(objects[o].count)
      <4>1. /\ IsFiniteSet(Owing(o))
            /\ objects[o].time + Worth(Cardinality(Owing(o))) <= Worth(objects[o].count)
        BY <1>0, <3>1, <3>4 DEF DurationsOwed, IsObject
      <4>2. objects[o] \in ObjectRec
        BY <1>0, <3>1 DEF TablesTypes, IsObject
      <4>3. objects[o].time \in Nat /\ objects[o].count \in Nat
        BY <4>2 DEF ObjectRec
      <4>4. Worth(Cardinality(Owing(o))) \in Nat /\ Worth(objects[o].count) \in Nat
        BY <4>1, <4>3, FS_CardinalityType, Worths
      <4> QED
        BY <3>1, <4>1, <4>3, <4>4
    <3> QED
      BY <3>1, <3>2, <3>3, <3>4 DEF TotalKept
  <2> QED
    BY <1>9, <2>1, <2>2
<1>16. TotalsKept'
  <2>1. \A d \in Clients : client'[d].pc = "export" => d = c
    BY <1>3, <1>11, OthersUnlocked DEF Locked
  <2>2. client'[c].todo = left /\ client'[c].loaded = all
    BY <1>10, <1>11
  <2>3. ASSUME NEW i \in 1..Len(all), all[i].of.field = "time"
        PROVE  TotalKept(client[c].todo, client[c].loaded, i)'
    <3>1. TotalKept(left, all, i)
      BY <1>15, <2>3
    <3> DEFINE o == all[i].of.object
    <3>2. /\ o \in 1..Len(objects)
          /\ \/ \E j \in 1..Len(left) : left[j] = CountOf(o)
             \/ \E j \in (i + 1)..Len(all) : all[j].of = CountOf(o)
          /\ ~objects[o].reset =>
                /\ all[i].value <= Worth(objects[o].count)
                /\ \A j \in (i + 1)..Len(all) :
                       all[j].of = CountOf(o) => all[i].value <= Worth(all[j].value)
      BY <3>1 DEF TotalKept, IsObject
    <3> QED
      BY <1>1, <2>2, <3>2 DEF TotalKept, IsObject, CountOf, Worth
  <2>4. CountFollows(client[c].todo)'
    BY <1>7, <2>2 DEF CountFollows, CountOf
  <2> QED
    BY <2>1, <2>2, <2>3, <2>4 DEF TotalsKept
<1> QED
  BY <1>12, <1>13, <1>14, <1>16 DEF TablesState

\* Starting a reset keeps it.
LEMMA ResetAllStep ==
    ASSUME TablesState, NEW c \in Clients, ResetAll(c)
    PROVE  TablesState'
<1> DEFINE fields == <<"count", "errors", "time">>
           t == ForEach(Listed("logger"), fields)
           r == [client[c] EXCEPT !.pc = "reset", !.todo = t]
<1>0. TablesTypes /\ ClientsKept /\ AllListed /\ CountsKept /\ DurationsOwed /\ Len(objects) \in Nat
  BY DEF TablesState, TablesTypes
<1>1. /\ client[c].pc = "idle" /\ tableMutex = {} /\ tableMutex' = {c} /\ UNCHANGED tables
      /\ client' = [client EXCEPT ![c] = r]
      /\ since' = [o \in DOMAIN objects |-> IF objects[o].kind = "logger" THEN 0 ELSE since[o]]
      /\ objects' = [o \in DOMAIN objects |->
                        [objects[o] EXCEPT !.reset = @ \/ objects[o].kind = "logger"]]
  <2>1. UNION {Listed(k) : k \in ResetKinds} = Listed("logger")
    BY DEF ResetKinds
  <2> QED
    BY <2>1 DEF ResetAll, TableCall, Unlocked
<1>2. "logger" \in Kinds
  BY DEF Kinds
<1>3. fields \in Seq(CounterNames) /\ Len(fields) = 3 /\ fields[1] = "count"
  BY DEF CounterNames
<1> HIDE DEF fields
<1>4. /\ t \in Seq(Load) /\ \A i \in 1..Len(t) : t[i].object \in Listed("logger")
      /\ \A o \in Listed("logger") : \E i \in 1..Len(t) : t[i] = CountOf(o)
  <2>1. /\ t \in Seq(Load) /\ \A i \in 1..Len(t) : t[i].object \in Listed("logger")
        /\ \A o \in Listed("logger"), q \in 1..Len(fields) : \E i \in 1..Len(t) :
               t[i] = [object |-> o, field |-> fields[q]]
    <3>1. Listed("logger") \in SUBSET Nat /\ IsFiniteSet(Listed("logger"))
      BY <1>0, <1>2, ListedObjects
    <3>2. Len(fields) \in {3, 4, 5}
      BY <1>3
    <3> QED
      BY <1>3, <3>1, <3>2, ForEachLists
  <2>2. 1 \in 1..Len(fields)
    BY <1>3
  <2> QED
    BY <1>3, <2>1, <2>2 DEF CountOf
<1> HIDE DEF t
<1>5. /\ Listed("logger") \subseteq 1..Len(objects)
      /\ \A o \in 1..Len(objects) : objects[o].kind = "logger" <=> o \in Listed("logger")
  BY <1>0, <1>2, ListedObjects
<1>6. /\ objects' \in Seq(ObjectRec) /\ Len(objects') = Len(objects)
      /\ since' \in Seq(Nat) /\ Len(since') = Len(since)
      /\ \A o \in 1..Len(objects) :
            /\ objects'[o].kind = objects[o].kind /\ objects'[o].count = objects[o].count
            /\ objects'[o].time = objects[o].time
            /\ objects[o].kind = "logger" => objects'[o].reset /\ since'[o] = 0
            /\ objects[o].kind # "logger" => objects'[o] = objects[o] /\ since'[o] = since[o]
            /\ ~objects'[o].reset => ~objects[o].reset
  <2> DEFINE after(o) == [objects[o] EXCEPT !.reset = @ \/ objects[o].kind = "logger"]
  <2>1. /\ DOMAIN objects = 1..Len(objects) /\ \A o \in 1..Len(objects) : objects[o] \in ObjectRec
        /\ since \in Seq(Nat) /\ Len(since) = Len(objects)
    BY <1>0 DEF TablesTypes
  <2>2. ASSUME NEW o \in 1..Len(objects)
        PROVE  /\ after(o) \in ObjectRec /\ after(o).kind = objects[o].kind
               /\ after(o).count = objects[o].count /\ after(o).time = objects[o].time
               /\ objects[o].kind = "logger" => after(o).reset
               /\ objects[o].kind # "logger" => after(o) = objects[o]
               /\ ~after(o).reset => ~objects[o].reset
    <3>1. objects[o] \in ObjectRec /\ (objects[o].reset \/ objects[o].kind = "logger") \in BOOLEAN
      BY <2>1 DEF ObjectRec
    <3>2. /\ after(o) \in ObjectRec /\ after(o).kind = objects[o].kind
          /\ after(o).count = objects[o].count /\ after(o).time = objects[o].time
          /\ after(o).reset = (objects[o].reset \/ objects[o].kind = "logger")
      BY <3>1 DEF ObjectRec
    <3>3. objects[o].kind # "logger" => after(o) = objects[o]
      <4> SUFFICES ASSUME objects[o].kind # "logger" PROVE after(o) = objects[o]
        OBVIOUS
      <4>1. (objects[o].reset \/ objects[o].kind = "logger") = objects[o].reset
        BY <3>1 DEF ObjectRec
      <4> QED
        BY <3>1, <4>1 DEF ObjectRec
    <3> QED
      BY <3>1, <3>2, <3>3 DEF ObjectRec
  <2> HIDE DEF after
  <2>3. objects' = [o \in 1..Len(objects) |-> after(o)]
    BY <1>1, <2>1 DEF after
  <2>4. objects' \in [1..Len(objects) -> ObjectRec]
    BY <2>2, <2>3
  <2>5. objects' \in Seq(ObjectRec) /\ Len(objects') = Len(objects)
    BY <1>0, <2>4, FunctionAsSeq
  <2>6. /\ since' \in [1..Len(objects) -> Nat]
        /\ \A o \in 1..Len(objects) : since'[o] = IF objects[o].kind = "logger" THEN 0 ELSE since[o]
    BY <1>1, <2>1
  <2>7. since' \in Seq(Nat) /\ Len(since') = Len(objects)
    BY <1>0, <2>6, FunctionAsSeq
  <2> QED
    BY <2>1, <2>2, <2>3, <2>5, <2>6, <2>7
<1>7. r \in ClientRec /\ r.pc = "reset" /\ r.loaded = client[c].loaded /\ r.todo = t
      /\ r.object = client[c].object
  BY <1>0, <1>4, ClientKept DEF ClientRec
<1> HIDE DEF r
<1>8. /\ client' \in [Clients -> ClientRec] /\ client'[c] = r
      /\ \A d \in Clients : d # c => client'[d] = client[d]
  BY <1>0, <1>1, <1>7, ClientSet
<1>9. TablesTypes' /\ ClientsKept' /\ AllListed'
  <2>1. Locked(c)' /\ client'[c].object = client[c].object /\ client'[c].todo = t
    BY <1>7, <1>8 DEF Locked
  <2>2. client'[c].loaded = <<>>
    BY <1>0, <1>1, <1>7, <1>8 DEF ClientsKept
  <2>3. \A i \in 1..Len(t) : t[i].object \in 1..Len(objects) /\ objects'[t[i].object].reset
    BY <1>4, <1>5, <1>6
  <2> QED
    BY <1>1, <1>6, <1>8, <2>1, <2>2, <2>3, LockedFrame
<1>10. CountsKept'
  <2>1. ASSUME NEW o \in 1..Len(objects)
        PROVE  /\ ~objects'[o].reset => objects'[o].count = since'[o]
               /\ objects'[o].count <= since'[o] \/ Unstored(o)'
    <3>1. CASE objects[o].kind = "logger"
      <4>1. \E i \in 1..Len(t) : t[i] = CountOf(o)
        BY <1>4, <1>5, <3>1
      <4>2. Unstored(o)'
        BY <1>7, <1>8, <4>1 DEF Unstored, CountOf
      <4> QED
        BY <1>6, <3>1, <4>2
    <3>2. CASE objects[o].kind # "logger"
      <4>1. ~Unstored(o)
        BY <1>0, <1>1 DEF Unstored, ClientsKept, Locked
      <4> QED
        BY <1>0, <1>6, <3>2, <4>1 DEF CountsKept
    <3> QED
      BY <3>1, <3>2
  <2> QED
    BY <1>6, <2>1 DEF CountsKept
<1>11. DurationsOwed'
  <2>1. \A d \in Clients :
            /\ client'[d].pc \in {"bytes", "duration"} <=> client[d].pc \in {"bytes", "duration"}
            /\ client[d].pc \in {"bytes", "duration"} => client'[d].object = client[d].object
    BY <1>1, <1>7, <1>8, LockedOwing
  <2> QED
    BY <1>0, <1>6, <2>1, DurationsFrame
<1>12. TotalsKept'
  <2>1. \A d \in Clients : client'[d].pc # "export"
    BY <1>1, <1>7, <1>8, OthersUnlocked DEF Locked
  <2> QED
    BY <2>1, TotalsNone
<1> QED
  BY <1>9, <1>10, <1>11, <1>12 DEF TablesState

\* Storing one zero keeps it.
LEMMA ResetStoreStep ==
    ASSUME TablesState, NEW c \in Clients, ResetStore(c)
    PROVE  TablesState'
<1> DEFINE todo == client[c].todo
           next == Head(todo)
           left == Tail(todo)
           r == [client[c] EXCEPT !.todo = left]
<1>0. TablesTypes /\ ClientsKept /\ CountsKept /\ DurationsOwed
  BY DEF TablesState
<1>1. /\ client[c].pc = "reset" /\ todo # <<>> /\ UNCHANGED <<tables, tableMutex, since>>
      /\ client' = [client EXCEPT ![c] = r]
      /\ objects' = [objects EXCEPT ![next.object][next.field] = 0]
  BY DEF ResetStore
<1>2. todo \in Seq(Load) /\ client[c] \in ClientRec
  BY <1>0, ClientKept
<1>3. tableMutex = {c}
  BY <1>0, <1>1 DEF ClientsKept, Locked, TablesTypes
<1>4. /\ next = todo[1] /\ next \in Load /\ 1 \in 1..Len(todo) /\ Len(todo) \in Nat
      /\ left \in Seq(Load) /\ Len(left) = Len(todo) - 1
      /\ \A i \in 1..Len(left) : i + 1 \in 1..Len(todo) /\ left[i] = todo[i + 1]
      /\ \A i \in 1..Len(todo) : i # 1 => i - 1 \in 1..Len(left) /\ left[i - 1] = todo[i]
  BY <1>1, <1>2, FirstGone
<1>5. next.object \in 1..Len(objects) /\ next.field \in CounterNames /\ objects[next.object].reset
  BY <1>0, <1>1, <1>4 DEF ClientsKept, IsObject, Load
<1>6. /\ objects' \in Seq(ObjectRec) /\ Len(objects') = Len(objects)
      /\ \A p \in 1..Len(objects) :
            /\ p # next.object => objects'[p] = objects[p]
            /\ objects'[p].kind = objects[p].kind /\ objects'[p].reset = objects[p].reset
            /\ objects'[p].count = IF p = next.object /\ next.field = "count" THEN 0 ELSE objects[p].count
  <2>1. "count" \in CounterNames /\ objects \in Seq(ObjectRec) /\ 0 \in Nat
    BY <1>0 DEF TablesTypes, CounterNames
  <2> HIDE DEF next
  <2>2. /\ objects' \in Seq(ObjectRec) /\ Len(objects') = Len(objects)
        /\ \A p \in 1..Len(objects) :
              /\ p # next.object => objects'[p] = objects[p]
              /\ objects'[p].kind = objects[p].kind /\ objects'[p].reset = objects[p].reset
              /\ \A g \in CounterNames :
                    objects'[p][g] = IF p = next.object /\ g = next.field THEN 0 ELSE objects[p][g]
    <3> DEFINE o == next.object
               f == next.field
    <3>1. objects' = [objects EXCEPT ![o][f] = 0] /\ o \in 1..Len(objects) /\ f \in CounterNames
      BY <1>1, <1>5
    <3> HIDE DEF o, f
    <3>2. /\ objects' \in Seq(ObjectRec) /\ Len(objects') = Len(objects)
          /\ \A p \in 1..Len(objects) :
                /\ p # o => objects'[p] = objects[p]
                /\ objects'[p].kind = objects[p].kind /\ objects'[p].reset = objects[p].reset
                /\ \A g \in CounterNames : objects'[p][g] = IF p = o /\ g = f THEN 0 ELSE objects[p][g]
      BY <2>1, <3>1, SetField
    <3> QED
      BY <3>2 DEF o, f
  <2> QED
    BY <2>1, <2>2
<1> HIDE DEF todo, next, left
<1>7. r \in ClientRec /\ r.pc = "reset" /\ r.todo = left /\ r.loaded = client[c].loaded
      /\ r.object = client[c].object
  BY <1>1, <1>2, <1>4 DEF ClientRec
<1> HIDE DEF r
<1>8. /\ client' \in [Clients -> ClientRec] /\ client'[c] = r
      /\ \A d \in Clients : d # c => client'[d] = client[d]
  BY <1>0, <1>1, <1>7, ClientSet
<1>9. TablesTypes' /\ ClientsKept' /\ AllListed'
  <2>1. Locked(c)' /\ client'[c].object = client[c].object /\ client'[c].todo = left
    BY <1>7, <1>8 DEF Locked
  <2>2. client'[c].loaded = <<>> /\ since' \in Seq(Nat)
    BY <1>0, <1>1, <1>7, <1>8 DEF ClientsKept, TablesTypes
  <2>3. ASSUME NEW i \in 1..Len(left)
        PROVE  left[i].object \in 1..Len(objects) /\ objects'[left[i].object].reset
    <3>1. i + 1 \in 1..Len(client[c].todo) /\ left[i] = client[c].todo[i + 1]
      BY <1>4 DEF todo
    <3>2. left[i].object \in 1..Len(objects) /\ objects[left[i].object].reset
      BY <1>0, <1>1, <3>1 DEF ClientsKept, IsObject
    <3> QED
      BY <1>6, <3>2
  <2>4. tableMutex' = {c} /\ c \in tableMutex /\ UNCHANGED tables /\ Len(since') = Len(since)
    BY <1>1, <1>3
  <2>5. \A i \in 1..Len(client'[c].todo) :
            /\ client'[c].todo[i].object \in 1..Len(objects)
            /\ objects'[client'[c].todo[i].object].reset
    BY <2>1, <2>3
  <2> QED
    BY <1>6, <1>8, <2>1, <2>2, <2>4, <2>5, LockedFrame
<1>10. CountsKept'
  <2>1. ASSUME NEW o \in 1..Len(objects)
        PROVE  /\ ~objects'[o].reset => objects'[o].count = since'[o]
               /\ objects'[o].count <= since'[o] \/ Unstored(o)'
    <3>1. CASE next = CountOf(o)
      <4>1. objects'[o].count = 0 /\ objects'[o].reset
        BY <1>5, <1>6, <3>1 DEF CountOf
      <4>2. since'[o] \in Nat
        BY <1>0, <1>1 DEF TablesTypes
      <4> QED
        BY <4>1, <4>2
    <3>2. CASE next # CountOf(o)
      <4>1. objects'[o].count = objects[o].count /\ objects'[o].reset = objects[o].reset
        BY <1>4, <1>6, <3>2 DEF CountOf, Load
      <4>2. Unstored(o) => Unstored(o)'
        <5> SUFFICES ASSUME Unstored(o) PROVE Unstored(o)'
          OBVIOUS
        <5>1. PICK d \in Clients : client[d].pc = "reset"
                  /\ \E i \in 1..Len(client[d].todo) : client[d].todo[i] = CountOf(o)
          BY DEF Unstored
        <5>2. d = c
          BY <1>3, <5>1, OthersUnlocked DEF Locked
        <5>3. PICK i \in 1..Len(todo) : todo[i] = CountOf(o)
          BY <5>1, <5>2 DEF todo
        <5>4. i - 1 \in 1..Len(left) /\ left[i - 1] = CountOf(o)
          BY <1>4, <3>2, <5>3
        <5> QED
          BY <1>7, <1>8, <5>4 DEF Unstored, CountOf
      <4> QED
        BY <1>0, <1>1, <4>1, <4>2 DEF CountsKept
    <3> QED
      BY <3>1, <3>2
  <2> QED
    BY <1>6, <2>1 DEF CountsKept
<1>11. DurationsOwed'
  <2>1. \A d \in Clients :
            /\ client'[d].pc \in {"bytes", "duration"} <=> client[d].pc \in {"bytes", "duration"}
            /\ client[d].pc \in {"bytes", "duration"} => client'[d].object = client[d].object
    BY <1>1, <1>7, <1>8, LockedOwing
  <2>2. \A o \in 1..Len(objects) : ~objects'[o].reset =>
            /\ ~objects[o].reset
            /\ objects'[o].time = objects[o].time /\ objects'[o].count = objects[o].count
    BY <1>5, <1>6
  <2> QED
    BY <1>0, <1>6, <2>1, <2>2, DurationsFrame
<1>12. TotalsKept'
  <2>1. \A d \in Clients : client'[d].pc # "export"
    BY <1>3, <1>7, <1>8, OthersUnlocked DEF Locked
  <2> QED
    BY <2>1, TotalsNone
<1> QED
  BY <1>9, <1>10, <1>11, <1>12 DEF TablesState

\* Ending a reset keeps it: all its counts are stored.
LEMMA ResetDoneStep ==
    ASSUME TablesState, NEW c \in Clients, ResetDone(c)
    PROVE  TablesState'
<1>0. TablesTypes /\ ClientsKept /\ CountsKept /\ DurationsOwed
  BY DEF TablesState
<1>1. /\ client[c].pc = "reset" /\ client[c].todo = <<>> /\ tableMutex' = {}
      /\ client' = [client EXCEPT ![c].pc = "idle"] /\ UNCHANGED <<tables, objects, since>>
  BY DEF ResetDone, Proceed
<1>2. c \in tableMutex
  BY <1>0, <1>1 DEF ClientsKept, Locked
<1>8. /\ client' \in [Clients -> ClientRec] /\ client'[c].pc = "idle"
      /\ client'[c].object = client[c].object /\ client'[c].todo = <<>>
      /\ client'[c].loaded = client[c].loaded
      /\ \A d \in Clients : d # c => client'[d] = client[d]
  BY <1>0, <1>1, ClientMoves
<1>9. TablesTypes' /\ ClientsKept' /\ AllListed'
  <2>1. ~Locked(c)' /\ 1..Len(client'[c].todo) = {}
    BY <1>8 DEF Locked
  <2>2. objects' \in Seq(ObjectRec) /\ since' \in Seq(Nat) /\ client'[c].loaded = <<>>
    BY <1>0, <1>1, <1>8 DEF TablesTypes, ClientsKept
  <2> QED
    BY <1>1, <1>2, <1>8, <2>1, <2>2, LockedFrame
<1>10. CountsKept'
  <2>1. \A o : ~Unstored(o)
    <3>1. 1..Len(client[c].todo) = {}
      BY <1>1
    <3> QED
      BY <1>2, <3>1, OthersUnlocked DEF Unstored, Locked
  <2> QED
    BY <1>0, <1>1, <2>1 DEF CountsKept
<1>11. DurationsOwed'
  <2>1. \A d \in Clients :
            /\ client'[d].pc \in {"bytes", "duration"} <=> client[d].pc \in {"bytes", "duration"}
            /\ client[d].pc \in {"bytes", "duration"} => client'[d].object = client[d].object
    BY <1>1, <1>8, LockedOwing
  <2> QED
    BY <1>0, <1>1, <2>1, DurationsFrame
<1>12. TotalsKept'
  <2>1. \A d \in Clients : client'[d].pc # "export"
    BY <1>2, <1>8, OthersUnlocked DEF Locked
  <2> QED
    BY <2>1, TotalsNone
<1> QED
  BY <1>9, <1>10, <1>11, <1>12 DEF TablesState

-----------------------------------------------------------------------------
\* Recorders, exports and resets that overlap leave the registry of metrics
\* sound: what is recorded is listed, averages are bounded, and what is counted
\* is what came since the last reset.
THEOREM TablesCorrect == TablesSpec => []TablesInv
<1>1. ASSUME TablesState, [TablesNext]_tableVars PROVE TablesState'
  <2>1. CASE UNCHANGED tableVars
    <3>1. UNCHANGED <<tables, objects, client, tableMutex, since>>
      BY <2>1 DEF tableVars
    <3>2. TablesTypes' /\ ClientsKept' /\ AllListed'
      BY <1>1, <3>1 DEF TablesState, TablesTypes, ClientsKept, AllListed, Listed, Locked, IsObject
    <3>3. CountsKept'
      BY <1>1, <3>1, CountsFrame DEF TablesState
    <3>4. DurationsOwed'
      BY <1>1, <3>1, DurationsFrame DEF TablesState
    <3>5. TotalsKept'
      <4>1. \A o \in 1..Len(objects) : objects[o].count \in Nat
        BY <1>1, FieldsKept DEF TablesState, TablesTypes, CounterNames
      <4>2. \A o \in 1..Len(objects) :
                objects'[o].reset = objects[o].reset /\ objects[o].count <= objects'[o].count
        BY <3>1, <4>1
      <4>3. Len(objects) <= Len(objects')
        BY <1>1, <3>1 DEF TablesState, TablesTypes
      <4> QED
        BY <1>1, <3>1, <3>2, <4>2, <4>3, TotalsGrow DEF TablesState
    <3> QED
      BY <3>2, <3>3, <3>4, <3>5 DEF TablesState
  <2>2. CASE TablesNext
    <3>1. PICK c \in Clients :
              \/ \E k \in Kinds, n \in MetricNames : GetMetrics(c, k, n)
              \/ RecordWrite(c) \/ RecordBytes(c) \/ RecordMetricError(c)
              \/ \E d \in 0..Longest : RecordDuration(c, d)
              \/ \E f \in Formats : Export(c, f)
              \/ ExportLoad(c) \/ ExportDone(c)
              \/ ResetAll(c) \/ ResetStore(c) \/ ResetDone(c)
      BY <2>2 DEF TablesNext
    <3> QED
      BY <1>1, <3>1, GetMetricsStep, RecordWriteStep, RecordBytesStep, RecordMetricErrorStep,
         RecordDurationStep, ExportAllStep, ExportLoadStep, ExportDoneStep, ResetAllStep,
         ResetStoreStep, ResetDoneStep
  <2> QED
    BY <1>1, <2>1, <2>2
<1>2. TablesState => TablesInv
  <2> SUFFICES ASSUME TablesState PROVE TablesInv
    OBVIOUS
  <2>0. TablesTypes /\ ClientsKept /\ AllListed /\ CountsKept /\ TotalsKept /\ Len(objects) \in Nat
    BY DEF TablesState, TablesTypes
  <2>1. TablesTypeOK
    <3>1. tables \in [Kinds -> [MetricNames -> 0..Len(objects)]]
          /\ DOMAIN since = DOMAIN objects /\ DOMAIN objects = 1..Len(objects)
      BY <2>0 DEF TablesTypes
    <3>2. \A o \in DOMAIN objects : objects[o].kind \in Kinds
              /\ {objects[o][f] : f \in {"count", "bytes", "errors", "time"}} \subseteq Nat
      <4>1. \A o \in 1..Len(objects) : objects[o] \in ObjectRec
        BY <2>0 DEF TablesTypes
      <4> QED
        BY <3>1, <4>1 DEF ObjectRec
    <3>3. \A c \in Clients : client[c].object \in 0..Len(objects)
      BY <2>0, ClientKept DEF ClientsKept
    <3>4. \A c \in Clients : c \in tableMutex <=> client[c].pc \in {"export", "reset"}
      BY <2>0 DEF ClientsKept, Locked
    <3>5. Cardinality(tableMutex) <= 1
      <4>1. CASE tableMutex = {}
        BY <4>1, FS_EmptySet
      <4>2. CASE \E c \in Clients : tableMutex = {c}
        <5>1. PICK c \in Clients : tableMutex = {c}
          BY <4>2
        <5>2. Cardinality({c}) = 1
          BY FS_Singleton
        <5> QED
          BY <5>1, <5>2
      <4> QED
        BY <2>0, <4>1, <4>2 DEF TablesTypes
    <3> QED
      BY <3>1, <3>2, <3>3, <3>4, <3>5 DEF TablesTypeOK
  <2>2. RecordedIsListed
    <3> DEFINE a == Listed("logger")
               b == Listed("sink")
    <3>1. "logger" \in Kinds /\ "sink" \in Kinds /\ \A k \in Kinds : k = "logger" \/ k = "sink"
      BY DEF Kinds
    <3>2. \A o \in 1..Len(objects) : objects[o].kind \in Kinds
      <4>1. \A o \in 1..Len(objects) : objects[o] \in ObjectRec
        BY <2>0 DEF TablesTypes
      <4> QED
        BY <4>1 DEF ObjectRec
    <3>3. a = {o \in 1..Len(objects) : objects[o].kind = "logger"}
          /\ b = {o \in 1..Len(objects) : objects[o].kind = "sink"}
      BY <2>0, <3>1 DEF AllListed
    <3>4. IsFiniteSet(a) /\ IsFiniteSet(b)
      BY <2>0, <3>1, ListedObjects
    <3> HIDE DEF a, b
    <3>5. a \cup b = 1..Len(objects) /\ a \cap b = {}
      BY <3>1, <3>2, <3>3
    <3>6. Cardinality(a) + Cardinality(b) = Len(objects)
      <4>1. Cardinality(a \cup b) = Len(objects)
        <5>1. Cardinality(1..Len(objects)) = IF 1 > Len(objects) THEN 0 ELSE Len(objects) - 1 + 1
          BY <2>0, FS_Interval
        <5>2. Len(objects) \in Nat
          BY <2>0 DEF TablesTypes
        <5>3. Cardinality(1..Len(objects)) = Len(objects)
          <6> HIDE DEF a, b
          <6> DEFINE n == Len(objects)
          <6>1. n \in Nat /\ Cardinality(1..n) = IF 1 > n THEN 0 ELSE n - 1 + 1
            BY <5>1, <5>2
          <6> HIDE DEF n
          <6> DEFINE d == Cardinality(1..n)
          <6>2. d = IF 1 > n THEN 0 ELSE n - 1 + 1
            BY <6>1
          <6> HIDE DEF d
          <6>3. d = n
            BY <6>1, <6>2
          <6> QED
            BY <6>3 DEF d, n
        <5> QED
          BY <3>5, <5>3
      <4>2. Cardinality(a \cap b) = 0
        BY <3>5, FS_EmptySet
      <4>3. Cardinality(a) \in Nat /\ Cardinality(b) \in Nat
        BY <3>4, FS_CardinalityType
      <4> QED
        <5>1. Cardinality(a \cup b) = Cardinality(a) + Cardinality(b) - Cardinality(a \cap b)
          BY <3>4, FS_Union
        <5> QED
          BY <4>1, <4>2, <4>3, <5>1
    <3>7. \A c \in Clients : client[c].object # 0 => client[c].object \in 1..Len(objects)
      BY <2>0, ClientKept DEF ClientsKept
    <3>8. \A c \in Clients : client[c].object # 0 => \E k \in Kinds : client[c].object \in Listed(k)
      BY <3>1, <3>5, <3>7 DEF a, b
    <3> QED
      BY <3>6, <3>8 DEF RecordedIsListed, a, b
  <2>3. AverageBounded
    <3> SUFFICES ASSUME NEW c \in Clients, NEW i \in DOMAIN client[c].loaded, NEW j \in DOMAIN client[c].loaded,
                        client[c].loaded[i].of.field = "time",
                        client[c].loaded[j].of = CountOf(client[c].loaded[i].of.object),
                        \A k \in (j + 1)..Len(client[c].loaded) :
                            client[c].loaded[k].of # client[c].loaded[j].of,
                        CountOf(client[c].loaded[i].of.object) \notin ToSet(client[c].todo),
                        ~objects[client[c].loaded[i].of.object].reset
                 PROVE  client[c].loaded[i].value <= Longest * client[c].loaded[j].value
      BY DEF AverageBounded, CountOf
    <3> DEFINE loaded == client[c].loaded
               todo == client[c].todo
               o == loaded[i].of.object
    <3>1. loaded \in Seq([of : Load, value : Nat]) /\ todo \in Seq(Load)
      BY <2>0, ClientKept
    <3>2. Len(loaded) \in Nat /\ i \in 1..Len(loaded) /\ j \in 1..Len(loaded)
          /\ DOMAIN todo = 1..Len(todo)
      <4>1. i \in DOMAIN loaded /\ j \in DOMAIN loaded
        OBVIOUS
      <4> HIDE DEF loaded, todo
      <4> QED
        BY <3>1, <4>1, LenProperties
    <3>3. client[c].pc = "export"
      <4>1. CASE client[c].pc # "export"
        <5>1. loaded = <<>>
          BY <2>0, <4>1 DEF ClientsKept
        <5> QED
          BY <3>2, <5>1
      <4> QED
        BY <4>1
    <3>4. TotalKept(todo, loaded, i)
      BY <2>0, <3>2, <3>3 DEF TotalsKept
    <3>5. ~ \E k \in 1..Len(todo) : todo[k] = CountOf(o)
      BY <3>2 DEF ToSet
    <3>6. PICK k \in (i + 1)..Len(loaded) : loaded[k].of = CountOf(o)
      BY <3>4, <3>5 DEF TotalKept
    <3>7. k \in Int /\ ~(k \in (j + 1)..Len(loaded))
      BY <3>2, <3>6
    <3>8. k <= j
      BY <3>2, <3>6, <3>7
    <3>9. j \in (i + 1)..Len(loaded)
      BY <3>2, <3>6, <3>8
    <3>10. loaded[i].value <= Worth(loaded[j].value)
      BY <3>4, <3>9 DEF TotalKept
    <3> QED
      BY <3>10 DEF Worth
  <2>4. CountsSince
    <3> SUFFICES ASSUME \A c \in Clients : client[c].pc # "reset"
                 PROVE  \A o \in 1..Len(objects) :
                            /\ objects[o].count <= since[o]
                            /\ ~objects[o].reset => objects[o].count = since[o]
      BY <2>0 DEF CountsSince, TablesTypes
    <3>1. \A o : ~Unstored(o)
      BY DEF Unstored
    <3> QED
      BY <2>0, <3>1 DEF CountsKept
  <2> QED
    BY <2>1, <2>2, <2>3, <2>4 DEF TablesInv
<1> QED
  BY <1>1, <1>2, TablesInitState, PTL DEF TablesSpec

=============================================================================
