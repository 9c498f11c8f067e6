------------------------------ MODULE MCQueues ------------------------------
(* The queue of records and the cloud sinks, which do not interact; part     *)
(* says which one runs.                                                      *)
EXTENDS MCCloudSink, AsyncQueue

ASSUME PairingAssumption == Callers = Consumers /\ Closers # {}

VARIABLE part

vars == <<part, cloudVars, queueVars>>

\* The service is not enumerated where the cloud sinks do not run.
Init ==
    /\ part \in {"queue", "cloud"}
    /\ QueueInit /\ CloudInit
    /\ part # "cloud" => service = (CHOOSE s \in Services : TRUE)

Next ==
    \/ part = "queue" /\ QueueNext /\ UNCHANGED <<part, cloudVars>>
    \/ part = "cloud" /\ CloudNext /\ UNCHANGED <<part, queueVars>>

\* A step of the queue, or one of the cloud sinks.  Only one of the two can
\* ever be enabled, so that fairness of both needs one conjunct.
Either(queueStep, cloudStep) ==
    \/ part = "queue" /\ queueStep /\ UNCHANGED <<part, cloudVars>>
    \/ part = "cloud" /\ cloudStep /\ UNCHANGED <<part, queueVars>>

\* Calls that have begun go on, and consumers keep calling pop until it returns
\* false.  A mutex that is free again and again is granted to the threads that
\* wait for it, but for the producers, whom nothing waits for.  The deadline of
\* wait_for is absolute: however often the wait is woken, it passes.  Time
\* passes, and a batch posted again and again is accepted once.  Nothing makes
\* the program log, push or call shutdown.
Fairness ==
    /\ \A p \in Producers : WF_vars(Either(ProducerStep(p), FALSE))
    /\ \A c \in Consumers : SF_vars(Either(ConsumerStep(c), FlushStep(c)))
    /\ \A s \in Closers : SF_vars(Either(CloserStep(s), Worker)) /\ SF_vars(Either(DrainTimeout(s), PostAccepted))
    /\ WF_vars(Either(FALSE, Join)) /\ WF_vars(Either(FALSE, Tick))

Spec == Init /\ [][Next]_vars /\ Fairness
=============================================================================
