------------------------------ MODULE Delivery ------------------------------
(***************************************************************************)
(* What the sinks that post to a service promise, without their queues,    *)
(* threads, timers and retries: messages are settled in batches in the     *)
(* order in which they were accepted.  Once a batch has been posted only   *)
(* that batch is posted until it is settled, and what is settled is never  *)
(* posted again.  CloudSink and LokiSink implement this specification.     *)
(***************************************************************************)
EXTENDS Naturals

CONSTANT Capacity      \* with fewer unsettled messages none is refused

VARIABLES whole,       \* the service takes all of a batch or nothing
          accepted,    \* messages are numbered as they are accepted
          refused,     \* how many were not
          settled,     \* how many are settled
          front,       \* size of the batch that was posted and is not settled, or 0
          reached,     \* what the service has
          lost         \* what was settled without knowing that it has it

Init ==
    /\ whole \in BOOLEAN /\ accepted = 0 /\ refused = 0 /\ settled = 0 /\ front = 0
    /\ reached = {} /\ lost = {}

Accept ==
    /\ accepted' = accepted + 1
    /\ UNCHANGED <<whole, refused, settled, front, reached, lost>>

Refuse ==
    /\ settled + Capacity <= accepted
    /\ refused' = refused + 1
    /\ UNCHANGED <<whole, accepted, settled, front, reached, lost>>

Batch(n) == (settled + 1)..(settled + n)
Chosen(n) == n > 0 /\ settled + n <= accepted /\ front \in {0, n}

Reaches(n) == \E part \in SUBSET Batch(n) :
    /\ reached' = reached \cup part
    /\ whole => part \in {{}, Batch(n)}

\* An attempt; its answer does not tell what the service has taken.
Post(n) ==
    /\ Chosen(n) /\ Reaches(n)
    /\ front' = n
    /\ UNCHANGED <<whole, accepted, refused, settled, lost>>

Settle(n) ==
    /\ Chosen(n) /\ Reaches(n)
    /\ settled' = settled + n /\ front' = 0
    /\ \/ (whole => Batch(n) \subseteq reached') /\ UNCHANGED lost
       \/ lost' = lost \cup Batch(n)
    /\ UNCHANGED <<whole, accepted, refused>>

Next == Accept \/ Refuse \/ \E n \in 1..accepted : Post(n) \/ Settle(n)

Spec == Init /\ [][Next]_<<whole, accepted, refused, settled, front, reached, lost>>
=============================================================================
