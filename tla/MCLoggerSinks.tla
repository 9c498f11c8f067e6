--------------------------- MODULE MCLoggerSinks ---------------------------
(* Small instances of LoggerSinks.                                          *)
EXTENDS LoggerSinks, TLC

Symmetric == Permutations(Threads) \cup Permutations(Entries) \cup Permutations(Names)

\* A program that clears the list, or sets levels by index: see NoLockCycle.
TwoPrograms == {{"add", "removeName", "removeIndex", "clear", "setLevelName", "clearLevels", "log"},
                {"add", "removeName", "setLevel", "clearLevels", "log"}}
BothCalls == {{"add", "clear", "setLevel"}}
=============================================================================
