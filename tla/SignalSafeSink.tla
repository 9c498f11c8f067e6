--------------------------- MODULE SignalSafeSink ---------------------------
(***************************************************************************)
(* Zyrnix::SignalSafeSink (signal_safe_sink.cpp): a ring buffer without a  *)
(* lock, filled by log() and emptied into a file descriptor by flushes.    *)
(*                                                                         *)
(* write_to_buffer reserves room by a compare-exchange of write_pos_ and   *)
(* copies afterwards; flush_buffer loads the two positions, writes what    *)
(* lies between them and stores read_pos_.  Each access to an atomic is a  *)
(* step.  A byte is named by the position reserved for it, so the file is  *)
(* right when it reads 0, 1, 2...  Positions never wrap in 64 bits; their  *)
(* differences do, and are taken modulo Word.                              *)
(*                                                                         *)
(* The callers are threads or, when nested, signal handlers of one thread: *)
(* each runs to its end before the one it interrupted goes on.  The sink   *)
(* is one whose file could be opened.                                      *)
(***************************************************************************)
EXTENDS Integers, Sequences

CONSTANTS Callers,
          Modes,      \* TRUE if the callers may be nested handlers, FALSE if threads
          Capacity,   \* capacity_
          Parts,      \* lengths of what a log call writes: level, text, line end
          MaxCalls,   \* bound on the calls
          Word,       \* 2^w of the unsigned type
          Garbage     \* what the ring holds before it is written

ASSUME ModesAssumption == Modes \subseteq BOOLEAN
ASSUME CapacityAssumption == Capacity \in Nat \ {0}
ASSUME PartsAssumption == Parts \in Seq(Nat \ {0}) /\ Parts # << >>
ASSUME MaxCallsAssumption == MaxCalls \in Nat
ASSUME WordAssumption == Word \in Nat /\ Capacity < Word
ASSUME GarbageAssumption == Garbage \notin Nat    \* a position is no garbage

VARIABLES buffer,     \* buffer_
          writePos, readPos,
          dropped,    \* dropped_count_
          flushing,   \* flush_in_progress_
          file,       \* what has been written to the descriptor
          call,       \* per caller: where it is, and the call's locals
          begun,      \* calls begun
          nested,     \* the callers are nested handlers
          stack,      \* if so, the handlers in progress, innermost last
          raced,      \* a flush began beside another one or beside a copy
          failed      \* a write has failed

ring == <<buffer, writePos, readPos>>
counters == <<dropped, flushing>>
calls == <<begun, nested>>
ghosts == <<raced, failed>>
signalVars == <<ring, counters, file, call, calls, stack, ghosts>>

\* w and r are the positions loaded, part the part being written, copied the
\* bytes of it in the ring, full tells the second look after a flush, and
\* next is where the call goes on after a flush.
NoCall == [pc |-> "idle", w |-> 0, r |-> 0, part |-> 1, copied |-> 0,
           full |-> FALSE, next |-> "idle"]

SignalInit ==
    /\ buffer = [i \in 0..(Capacity - 1) |-> Garbage]
    /\ writePos = 0 /\ readPos = 0 /\ dropped = 0 /\ flushing = FALSE
    /\ file = << >>
    /\ call = [c \in Callers |-> NoCall]
    /\ nested \in Modes /\ begun = 0 /\ stack = << >> /\ raced = FALSE /\ failed = FALSE

Running(c) == ~nested \/ (stack # << >> /\ stack[Len(stack)] = c)
CallerAt(c, label) == call[c].pc = label /\ Running(c)
Goto(c, label) == call' = [call EXCEPT ![c].pc = label]

Minus(a, b) == (a - b) % Word
Length(c) == Parts[call[c].part]

\* The room the caller sees with the write position it has loaded.
FaultyAvailable(c) == Minus(Capacity + 1, Minus(call[c].w, readPos))
Available(c) == Minus(Capacity, Minus(call[c].w, readPos))

-----------------------------------------------------------------------------
(* A call begins with log() or flush(), and ends.                          *)

Begin(c) ==
    /\ call[c].pc = "idle" /\ begun < MaxCalls
    /\ begun' = begun + 1
    /\ stack' = IF nested THEN Append(stack, c) ELSE stack
    /\ UNCHANGED <<ring, counters, file, nested, ghosts>>

Log(c) == Begin(c) /\ Goto(c, "loadWrite")
Flush(c) == Begin(c) /\ Goto(c, "flushWrite")

\* The locals are gone; where the call goes on is all that is left of it.
Continue(c, label) ==
    call' = [call EXCEPT ![c] = IF label = "idle" THEN NoCall ELSE [call[c] EXCEPT !.pc = label]]
Unwind(label) == stack' = IF nested /\ label = "idle" THEN SubSeq(stack, 1, Len(stack) - 1)
                          ELSE stack

-----------------------------------------------------------------------------
(* write_to_buffer                                                         *)

LoadWrite(c) ==
    /\ CallerAt(c, "loadWrite")
    /\ call' = [call EXCEPT ![c].pc = "loadRead", ![c].w = writePos]
    /\ UNCHANGED <<ring, counters, file, calls, stack, ghosts>>

AfterPart(c) ==
    call' = [call EXCEPT ![c] = IF call[c].part = Len(Parts) THEN [NoCall EXCEPT !.pc = "sizeWrite"]
                                ELSE [NoCall EXCEPT !.pc = "loadWrite", !.part = call[c].part + 1]]

\* There is room; or there is none yet, and a flush is tried; or there is
\* none after that.
LoadRead(c) ==
    /\ CallerAt(c, "loadRead")
    /\ \/ Length(c) <= Available(c) /\ Goto(c, "reserve") /\ UNCHANGED dropped
       \/ Length(c) > Available(c) /\ ~call[c].full /\ Goto(c, "tryFlush") /\ UNCHANGED dropped
       \/ Length(c) > Available(c) /\ call[c].full /\ AfterPart(c) /\ dropped' = dropped + 1
    /\ UNCHANGED <<ring, flushing, file, calls, stack, ghosts>>

FaultyTryFlush(c) ==    \* the caller waits for the other one's flush
    /\ CallerAt(c, "tryFlush") /\ ~flushing
    /\ flushing' = TRUE
    /\ call' = [call EXCEPT ![c].pc = "flushWrite", ![c].full = TRUE, ![c].next = "unflag"]
    /\ UNCHANGED <<ring, dropped, file, calls, stack, ghosts>>

\* Only the flushes of this path respect flush_in_progress_.
TryFlush(c) ==
    /\ CallerAt(c, "tryFlush")
    /\ flushing' = TRUE
    /\ call' = [call EXCEPT ![c].full = TRUE,
                            ![c].pc = IF flushing THEN "loadWrite" ELSE "flushWrite",
                            ![c].next = IF flushing THEN "idle" ELSE "unflag"]
    /\ UNCHANGED <<ring, dropped, file, calls, stack, ghosts>>

Unflag(c) ==
    /\ CallerAt(c, "unflag")
    /\ flushing' = FALSE
    /\ call' = [call EXCEPT ![c].pc = "loadWrite", ![c].next = "idle"]
    /\ UNCHANGED <<ring, dropped, file, calls, stack, ghosts>>

Reserve(c) ==
    /\ CallerAt(c, "reserve") /\ writePos = call[c].w
    /\ writePos' = writePos + Length(c)
    /\ call' = [call EXCEPT ![c].pc = "copy"]
    /\ UNCHANGED <<buffer, readPos, counters, file, calls, stack, ghosts>>

\* compare_exchange_weak finds another position, or fails for no reason.
ReserveFails(c) ==
    /\ CallerAt(c, "reserve")
    /\ call' = [call EXCEPT ![c].pc = "loadWrite", ![c].full = FALSE]
    /\ UNCHANGED <<ring, counters, file, calls, stack, ghosts>>

Copy(c) ==
    /\ CallerAt(c, "copy")
    /\ LET p == call[c].w + call[c].copied
       IN  buffer' = [buffer EXCEPT ![p % Capacity] = p]
    /\ IF call[c].copied + 1 = Length(c) THEN AfterPart(c)
       ELSE call' = [call EXCEPT ![c].copied = @ + 1]
    /\ UNCHANGED <<writePos, readPos, counters, file, calls, stack, ghosts>>

\* log() flushes when the ring is more than half full.
SizeWrite(c) ==
    /\ CallerAt(c, "sizeWrite")
    /\ call' = [call EXCEPT ![c].pc = "sizeRead", ![c].w = writePos]
    /\ UNCHANGED <<ring, counters, file, calls, stack, ghosts>>

SizeRead(c) ==
    /\ CallerAt(c, "sizeRead")
    /\ LET label == IF Minus(call[c].w, readPos) > Capacity \div 2 THEN "flushWrite" ELSE "idle"
       IN  Continue(c, label) /\ Unwind(label)
    /\ UNCHANGED <<ring, counters, file, calls, ghosts>>

-----------------------------------------------------------------------------
(* flush_buffer                                                            *)

InFlush(c) == call[c].pc \in {"flushRead", "flushLoop"}

FlushWrite(c) ==
    /\ CallerAt(c, "flushWrite")
    /\ call' = [call EXCEPT ![c].pc = "flushRead", ![c].w = writePos]
    /\ raced' = (raced \/ \E d \in Callers \ {c} : InFlush(d) \/ call[d].pc = "copy")
    /\ UNCHANGED <<ring, counters, file, calls, stack, failed>>

FlushRead(c) ==
    /\ CallerAt(c, "flushRead")
    /\ IF call[c].w = readPos
       THEN Continue(c, call[c].next) /\ Unwind(call[c].next)
       ELSE call' = [call EXCEPT ![c].pc = "flushLoop", ![c].r = readPos] /\ UNCHANGED stack
    /\ UNCHANGED <<ring, counters, file, calls, ghosts>>

\* The bytes of one turn of the loop: up to the end of the ring.
Chunk(c) ==
    LET room == Capacity - (call[c].r % Capacity)
    IN  IF call[c].w - call[c].r <= room THEN call[c].w - call[c].r ELSE room

\* safe_write gives up at an error: the rest of the chunk is lost, but
\* counts as flushed.
FlushLoop(c) ==
    /\ CallerAt(c, "flushLoop") /\ call[c].r < call[c].w
    /\ \E n \in 0..Chunk(c) :
          /\ file' = file \o [i \in 1..n |-> buffer[(call[c].r % Capacity) + i - 1]]
          /\ failed' = (failed \/ n < Chunk(c))
    /\ call' = [call EXCEPT ![c].r = @ + Chunk(c)]
    /\ UNCHANGED <<ring, counters, calls, stack, raced>>

FaultyFlushStore(c) ==    \* the position loaded before is stored back
    /\ CallerAt(c, "flushLoop") /\ call[c].r >= call[c].w
    /\ UNCHANGED <<buffer, writePos, readPos>>
    /\ Continue(c, call[c].next) /\ Unwind(call[c].next)
    /\ UNCHANGED <<counters, file, calls, ghosts>>

FlushStore(c) ==
    /\ CallerAt(c, "flushLoop") /\ call[c].r >= call[c].w
    /\ readPos' = call[c].r
    /\ Continue(c, call[c].next) /\ Unwind(call[c].next)
    /\ UNCHANGED <<buffer, writePos, counters, file, calls, ghosts>>

-----------------------------------------------------------------------------
Step(c) == LoadWrite(c) \/ LoadRead(c) \/ TryFlush(c) \/ Unflag(c)
           \/ Reserve(c) \/ ReserveFails(c) \/ Copy(c)
           \/ SizeWrite(c) \/ SizeRead(c)
           \/ FlushWrite(c) \/ FlushRead(c) \/ FlushLoop(c) \/ FlushStore(c)

SignalNext == \E c \in Callers : Log(c) \/ Flush(c) \/ Step(c)

SignalSpec == SignalInit /\ [][SignalNext]_signalVars

\* The callers are scheduled, and a weak compare-exchange does not fail for
\* no reason for ever.
SignalFairness == \A c \in Callers : WF_signalVars(Step(c)) /\ SF_signalVars(Reserve(c))

-----------------------------------------------------------------------------
(* Properties.                                                             *)

Labels == {"idle", "loadWrite", "loadRead", "tryFlush", "unflag", "reserve", "copy",
           "sizeWrite", "sizeRead", "flushWrite", "flushRead", "flushLoop"}
TypeOK ==
    /\ buffer \in [0..(Capacity - 1) -> Nat \cup {Garbage}]
    /\ writePos \in Nat /\ readPos \in Nat /\ dropped \in Nat /\ flushing \in BOOLEAN
    /\ \A i \in 1..Len(file) : file[i] \in Nat \cup {Garbage}
    /\ call \in [Callers -> [pc : Labels, w : Nat, r : Nat, part : 1..Len(Parts), copied : Nat,
                             full : BOOLEAN, next : {"idle", "unflag"}]]
    /\ nested \in Modes /\ begun \in 0..MaxCalls /\ stack \in Seq(Callers)
    /\ raced \in BOOLEAN /\ failed \in BOOLEAN

\* The bytes a caller has reserved and not yet copied.
Reserved(c) == IF call[c].pc # "copy" THEN {}
               ELSE (call[c].w + call[c].copied)..(call[c].w + Length(c) - 1)

\* However the callers interleave, no position is reserved twice, and all
\* reserved positions lie below write_pos_.
ReservedOnce ==
    /\ \A c, d \in Callers : c # d => Reserved(c) \cap Reserved(d) = {}
    /\ \A c \in Callers : \A p \in Reserved(c) : p < writePos

\* Types, and each byte reserved belongs to one caller.  Until a flush has begun
\* beside another one or beside a copy, the bytes between the two positions are
\* in the ring, except those still to be copied: none is overwritten unflushed.
RingIntact ==
    /\ TypeOK /\ ReservedOnce
    /\ raced \/
         /\ readPos <= writePos /\ writePos - readPos <= Capacity
         /\ \A p \in readPos..(writePos - 1) :
               p \in UNION {Reserved(c) : c \in Callers} \/ buffer[p % Capacity] = p

\* No byte reaches the file twice or out of order, and none that was never
\* copied, unless a flush has begun beside another one or beside a copy.
\* A failed write only leaves bytes out; without one the file has them all.
InOrderOnce == \A i \in 1..Len(file) :
    file[i] # Garbage /\ \A j \in 1..(i - 1) : file[j] < file[i]
FileExact == raced \/
    /\ InOrderOnce
    /\ ~failed /\ (\A c \in Callers : ~InFlush(c)) => Len(file) = readPos

\* A call of log() or flush() that has begun returns, also in a handler that
\* interrupted a flush, if finitely many calls are made: no caller waits for
\* the flag, and only a reservation that succeeds makes another one fail.
CallsReturn == \A c \in Callers : call[c].pc # "idle" ~> call[c].pc = "idle"
=============================================================================
