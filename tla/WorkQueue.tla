------------------------------ MODULE WorkQueue ------------------------------
(***************************************************************************)
(* What Zyrnix::AsyncQueue and Zyrnix::ThreadPool promise to those who     *)
(* hand work over, without mutex, flag, condition variables or the queue   *)
(* itself: items are taken one by one in the order in which they came in,  *)
(* each by one taker, or those left are thrown away together after the     *)
(* end and reported.  Both modules implement this specification.           *)
(***************************************************************************)
EXTENDS Naturals

CONSTANTS Takers,
          Latecomers,  \* how many items may still come in after the end
          Drains       \* takers leave only when nothing waits

VARIABLES entered,     \* items are numbered as they come in
          gone,        \* how many have left; the others wait
          handed, thrown,  \* those taken, those thrown away
          reported,    \* how many the last throw reported
          ended, late, \* the end was asked for; items that came in since
          left         \* takers that take no more

Init ==
    /\ entered = 0 /\ gone = 0 /\ handed = {} /\ thrown = {} /\ reported = 0
    /\ ended = FALSE /\ late = 0 /\ left = {}

Enter ==
    /\ entered' = entered + 1
    /\ ended => late < Latecomers
    /\ late' = IF ended THEN late + 1 ELSE late
    /\ UNCHANGED <<gone, handed, thrown, reported, ended, left>>

Take ==
    /\ gone < entered /\ left # Takers
    /\ gone' = gone + 1 /\ handed' = handed \cup {gone'}
    /\ UNCHANGED <<entered, thrown, reported, ended, late, left>>

ThrowAway ==
    /\ ended /\ gone < entered
    /\ gone' = entered /\ thrown' = thrown \cup (gone + 1)..entered
    /\ reported' = entered - gone
    /\ UNCHANGED <<entered, handed, ended, late, left>>

End ==
    /\ ended' = TRUE
    /\ UNCHANGED <<entered, gone, handed, thrown, reported, late, left>>

Leave(t) ==
    /\ ended /\ (Drains => gone = entered)
    /\ left' = left \cup {t}
    /\ UNCHANGED <<entered, gone, handed, thrown, reported, ended, late>>

Next == Enter \/ Take \/ ThrowAway \/ End \/ \E t \in Takers : Leave(t)

Spec == Init /\ [][Next]_<<entered, gone, handed, thrown, reported, ended, late, left>>
=============================================================================
