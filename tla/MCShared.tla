------------------------------ MODULE MCShared ------------------------------
(* The configuration and the signal-safe sink, which share files and memory  *)
(* outside any lock and do not interact; part says which one runs.           *)
EXTENDS MCConfig, SignalSafeSink

vars == <<part, reloadVars, signalVars>>

\* The options of a component that does not run are not enumerated.
Init ==
    /\ SignalInit
    /\ \/ ConfigInit /\ nested
       \/ part = "signal" /\ ReloadInit /\ wanted = (CHOOSE d \in Saved : TRUE)

Next ==
    \/ ConfigNext /\ UNCHANGED signalVars
    \/ part = "signal" /\ SignalNext /\ UNCHANGED <<part, reloadVars>>

\* What does not run is at rest: its fairness asks for nothing.
Spec == Init /\ [][Next]_vars /\ ReloadFairness /\ SignalFairness

\* A text and the line end.
TextLine == <<2, 1>>
=============================================================================
