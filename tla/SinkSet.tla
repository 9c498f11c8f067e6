------------------------------ MODULE SinkSet ------------------------------
(***************************************************************************)
(* What the sink registry of Zyrnix::Logger promises its callers, without  *)
(* locks, reference counts or a list: a set of sinks that receive          *)
(* messages, and the writes in progress.  A sink leaves the set only when  *)
(* nobody is writing to it, so that the caller of remove_sink may destroy  *)
(* what the sink refers to.  LoggerSinks implements this specification.    *)
(***************************************************************************)
CONSTANTS Threads, Sinks

VARIABLES live,     \* the sinks that receive messages
          writing   \* pairs <<t, s>>: thread t is inside s->log(...)

Idle(s) == \A t \in Threads : <<t, s>> \notin writing

Init == live = {} /\ writing = {}

Add(s) ==
    /\ s \notin live /\ Idle(s)
    /\ live' = live \cup {s}
    /\ UNCHANGED writing

Remove(s) ==
    /\ s \in live /\ Idle(s)
    /\ live' = live \ {s}
    /\ UNCHANGED writing

RemoveAll ==
    /\ \A s \in live : Idle(s)
    /\ live' = {}
    /\ UNCHANGED writing

\* A thread writes to one sink at a time.
BeginWrite(t, s) ==
    /\ s \in live
    /\ \A r \in Sinks : <<t, r>> \notin writing
    /\ writing' = writing \cup {<<t, s>>}
    /\ UNCHANGED live

EndWrite(t, s) ==
    /\ <<t, s>> \in writing
    /\ writing' = writing \ {<<t, s>>}
    /\ UNCHANGED live

Next ==
    \/ RemoveAll
    \/ \E s \in Sinks : Add(s) \/ Remove(s)
    \/ \E t \in Threads, s \in Sinks : BeginWrite(t, s) \/ EndWrite(t, s)

Spec == Init /\ [][Next]_<<live, writing>>
=============================================================================
