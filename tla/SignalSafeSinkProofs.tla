------------------------ MODULE SignalSafeSinkProofs ------------------------
(***************************************************************************)
(* Proofs about SignalSafeSink, for any callers, capacity, message parts   *)
(* and width of the positions: no byte is reserved twice, the ring keeps   *)
(* what is not flushed, and the file is exact, unless a flush has begun    *)
(* beside another one or beside a copy.                                    *)
(***************************************************************************)
EXTENDS SignalSafeSink, SequenceTheorems, TLAPS

Copying(c) == call[c].pc = "copy"
End(c) == call[c].w + Length(c)

\* A position loaded is no later than the one in force, and a copy stays within
\* what its caller has reserved.
Positions == \A c \in Callers :
    /\ call[c].pc \in {"loadRead", "reserve", "flushRead", "flushLoop"} => call[c].w <= writePos
    /\ Copying(c) => End(c) <= writePos /\ call[c].copied < Length(c)
    /\ ~Copying(c) => call[c].copied = 0

\* What two callers have reserved is apart.
Apart == \A c, d \in Callers :
    c # d /\ Copying(c) /\ Copying(d) => End(c) <= call[d].w \/ End(d) <= call[c].w

\* Without a race the room that was found is still there if the reservation
\* succeeds, nothing is reserved before the read position, and what lies
\* between the positions is held by a copy or by the ring.
Held(p) == (\E c \in Callers : p \in Reserved(c)) \/ buffer[p % Capacity] = p
Ring ==
    /\ readPos <= writePos /\ writePos - readPos <= Capacity
    /\ \A c \in Callers : call[c].pc = "reserve" /\ call[c].w = writePos => End(c) - readPos <= Capacity
    /\ \A c \in Callers : Copying(c) => readPos <= call[c].w
    /\ \A p \in readPos..(writePos - 1) : Held(p)

\* Without a race one caller flushes, up to where no copy is in progress.
OneFlush ==
    /\ \A c, d \in Callers : InFlush(c) /\ InFlush(d) => c = d
    /\ \A c \in Callers : InFlush(c) => readPos <= call[c].w
    /\ \A c, d \in Callers : InFlush(c) /\ Copying(d) => call[c].w <= call[d].w
    /\ \A c \in Callers : call[c].pc = "flushLoop" => readPos <= call[c].r /\ call[c].r <= call[c].w

\* Without a race the file holds what was flushed, up to where the flush is.
UpTo(p) == (\A i \in 1..Len(file) : file[i] < p) /\ (~failed => Len(file) = p)
Flushed ==
    /\ \A i \in 1..Len(file) : file[i] \in Nat /\ \A j \in 1..(i - 1) : file[j] < file[i]
    /\ (\A c \in Callers : call[c].pc # "flushLoop") => UpTo(readPos)
    /\ \A c \in Callers : call[c].pc = "flushLoop" => UpTo(call[c].r)

Bytes == Nat \cup {Garbage}
SinkTypes == TypeOK /\ file \in Seq(Bytes)
Unraced == raced \/ (Ring /\ OneFlush /\ Flushed)
SinkInv == SinkTypes /\ Positions /\ Apart /\ Unraced

-----------------------------------------------------------------------------
(* Arithmetic of the positions.                                            *)

LEMMA DivMod ==
    ASSUME NEW m \in Nat \ {0}, NEW a \in Int
    PROVE  a = m * (a \div m) + (a % m) /\ a % m \in 0..(m - 1) /\ a \div m \in Int
  OBVIOUS

LEMMA DivModUnique ==
    ASSUME NEW m \in Nat \ {0}, NEW q \in Int, NEW s \in Int, NEW x \in 0..(m - 1), NEW y \in 0..(m - 1),
           m * q + x = m * s + y
    PROVE  x = y
<1>1. CASE q = s
  BY <1>1
<1>2. CASE q > s
  <2>1. m * (q - s) = y - x
    OBVIOUS
  <2>2. q - s >= 1
    BY <1>2
  <2>3. m * (q - s) >= m
    BY <2>2
  <2> QED
    BY <2>1, <2>3
<1>3. CASE s > q
  <2>1. m * (s - q) = x - y
    OBVIOUS
  <2>2. s - q >= 1
    BY <1>3
  <2>3. m * (s - q) >= m
    BY <2>2
  <2> QED
    BY <2>1, <2>3
<1> QED
  BY <1>1, <1>2, <1>3

\* Two positions in one place of the ring are a capacity apart.
LEMMA SamePlace ==
    ASSUME NEW m \in Nat \ {0}, NEW a \in Int, NEW b \in Int, a % m = b % m, a < b
    PROVE  b - a >= m
<1>1. b - a = m * ((b \div m) - (a \div m)) /\ (b \div m) - (a \div m) \in Int
  BY DivMod
<1>2. (b \div m) - (a \div m) >= 1
  <2>1. SUFFICES ASSUME (b \div m) - (a \div m) <= 0 PROVE FALSE
    BY <1>1
  <2> QED
    BY <1>1, <2>1
<1>3. m * ((b \div m) - (a \div m)) >= m
  BY <1>1, <1>2
<1> QED
  BY <1>1, <1>3

\* Within one turn of the ring places count like positions.
LEMMA NextPlace ==
    ASSUME NEW m \in Nat \ {0}, NEW a \in Int, NEW k \in Nat, (a % m) + k < m
    PROVE  (a + k) % m = (a % m) + k
<1>1. a = m * (a \div m) + (a % m) /\ a % m \in 0..(m - 1) /\ a \div m \in Int
  BY DivMod
<1>2. a + k \in Int
  OBVIOUS
<1>3. a + k = m * ((a + k) \div m) + ((a + k) % m) /\ (a + k) % m \in 0..(m - 1) /\ (a + k) \div m \in Int
  BY <1>2, DivMod
<1>4. (a % m) + k \in 0..(m - 1)
  BY <1>1
<1>5. m * (a \div m) + ((a % m) + k) = m * ((a + k) \div m) + ((a + k) % m)
  BY <1>1, <1>3, <1>4
<1> QED
  BY <1>1, <1>3, <1>4, <1>5, DivModUnique

LEMMA OtherPlace ==
    ASSUME NEW m \in Nat \ {0}, NEW a \in Int, NEW b \in Int, a # b, a - b < m, b - a < m
    PROVE  a % m # b % m
<1> SUFFICES ASSUME a % m = b % m PROVE FALSE
  OBVIOUS
<1>1. a < b => b - a >= m
  BY SamePlace
<1>2. b < a => a - b >= m
  BY SamePlace
<1> QED
  BY <1>1, <1>2

LEMMA PlaceInRing ==
    ASSUME NEW p \in Nat
    PROVE  p % Capacity \in 0..(Capacity - 1)
  BY CapacityAssumption

\* A difference that is a room is not changed by the modulus of the word.
LEMMA MinusExact ==
    ASSUME NEW a \in Nat, NEW b \in Nat, b <= a, a - b <= Capacity
    PROVE  Minus(a, b) = a - b
  BY CapacityAssumption, WordAssumption DEF Minus

-----------------------------------------------------------------------------
(* Calls and their fields.                                                 *)

Calls == [pc : Labels, w : Nat, r : Nat, part : 1..Len(Parts), copied : Nat,
          full : BOOLEAN, next : {"idle", "unflag"}]

LEMMA CallFields ==
    ASSUME NEW k \in Calls
    PROVE  /\ k.pc \in Labels /\ k.w \in Nat /\ k.r \in Nat /\ k.part \in 1..Len(Parts)
           /\ k.copied \in Nat /\ k.full \in BOOLEAN /\ k.next \in {"idle", "unflag"}
  BY DEF Calls

LEMMA NoCallFields ==
    /\ NoCall \in Calls /\ NoCall.pc = "idle" /\ NoCall.w = 0 /\ NoCall.r = 0 /\ NoCall.part = 1
    /\ NoCall.copied = 0 /\ NoCall.full = FALSE /\ NoCall.next = "idle"
  BY PartsAssumption DEF NoCall, Calls, Labels

LEMMA PcOfCall ==
    ASSUME NEW k \in Calls, NEW v \in Labels, NEW d, d = [k EXCEPT !.pc = v]
    PROVE  /\ d \in Calls /\ d.pc = v
           /\ d.w = k.w /\ d.r = k.r /\ d.part = k.part /\ d.copied = k.copied /\ d.full = k.full /\ d.next = k.next
  BY DEF Calls

LEMMA WOfCall ==
    ASSUME NEW k \in Calls, NEW v \in Nat, NEW d, d = [k EXCEPT !.w = v]
    PROVE  /\ d \in Calls /\ d.w = v
           /\ d.pc = k.pc /\ d.r = k.r /\ d.part = k.part /\ d.copied = k.copied /\ d.full = k.full /\ d.next = k.next
  BY DEF Calls

LEMMA ROfCall ==
    ASSUME NEW k \in Calls, NEW v \in Nat, NEW d, d = [k EXCEPT !.r = v]
    PROVE  /\ d \in Calls /\ d.r = v
           /\ d.pc = k.pc /\ d.w = k.w /\ d.part = k.part /\ d.copied = k.copied /\ d.full = k.full /\ d.next = k.next
  BY DEF Calls

LEMMA PartOfCall ==
    ASSUME NEW k \in Calls, NEW v \in 1..Len(Parts), NEW d, d = [k EXCEPT !.part = v]
    PROVE  /\ d \in Calls /\ d.part = v
           /\ d.pc = k.pc /\ d.w = k.w /\ d.r = k.r /\ d.copied = k.copied /\ d.full = k.full /\ d.next = k.next
  BY DEF Calls

LEMMA CopiedOfCall ==
    ASSUME NEW k \in Calls, NEW v \in Nat, NEW d, d = [k EXCEPT !.copied = v]
    PROVE  /\ d \in Calls /\ d.copied = v
           /\ d.pc = k.pc /\ d.w = k.w /\ d.r = k.r /\ d.part = k.part /\ d.full = k.full /\ d.next = k.next
  BY DEF Calls

LEMMA FullOfCall ==
    ASSUME NEW k \in Calls, NEW d, d = [k EXCEPT !.full = TRUE] \/ d = [k EXCEPT !.full = FALSE]
    PROVE  /\ d \in Calls /\ d.pc = k.pc /\ d.w = k.w /\ d.r = k.r /\ d.part = k.part
           /\ d.copied = k.copied /\ d.next = k.next
  BY DEF Calls

LEMMA NextOfCall ==
    ASSUME NEW k \in Calls, NEW v \in {"idle", "unflag"}, NEW d, d = [k EXCEPT !.next = v]
    PROVE  /\ d \in Calls /\ d.next = v
           /\ d.pc = k.pc /\ d.w = k.w /\ d.r = k.r /\ d.part = k.part /\ d.copied = k.copied /\ d.full = k.full
  BY DEF Calls

LEMMA OneCall ==
    ASSUME TypeOK, NEW c \in Callers, NEW k \in Calls, call' = [call EXCEPT ![c] = k]
    PROVE  /\ call' \in [Callers -> Calls] /\ call'[c] = k
           /\ \A d \in Callers \ {c} : call'[d] = call[d]
  BY DEF TypeOK, Calls

LEMMA TypeParts ==
    ASSUME TypeOK
    PROVE  /\ writePos \in Nat /\ readPos \in Nat /\ buffer \in [0..(Capacity - 1) -> Bytes]
           /\ call \in [Callers -> Calls] /\ \A c \in Callers : call[c] \in Calls
  BY DEF TypeOK, Calls, Bytes

LEMMA LengthPositive ==
    ASSUME NEW c \in Callers, call[c] \in Calls
    PROVE  Length(c) \in Nat \ {0}
<1>1. call[c].part \in 1..Len(Parts)
  BY CallFields
<1> QED
  BY <1>1, PartsAssumption, ElementOfSeq DEF Length

\* One caller has moved.
Moved(c) == call' \in [Callers -> Calls] /\ \A d \in Callers \ {c} : call'[d] = call[d]

LEMMA Goes ==
    ASSUME TypeOK, NEW c \in Callers, NEW l \in Labels, Goto(c, l)
    PROVE  /\ Moved(c) /\ call'[c].pc = l /\ call'[c].w = call[c].w /\ call'[c].r = call[c].r
           /\ call'[c].part = call[c].part /\ call'[c].copied = call[c].copied
           /\ call'[c].full = call[c].full /\ call'[c].next = call[c].next
<1>1. PICK k : k = [call[c] EXCEPT !.pc = l]
  OBVIOUS
<1>2. call[c] \in Calls /\ call' = [call EXCEPT ![c] = k]
  BY <1>1, TypeParts DEF Goto
<1>3. k \in Calls /\ k.pc = l /\ k.w = call[c].w /\ k.r = call[c].r /\ k.part = call[c].part
      /\ k.copied = call[c].copied /\ k.full = call[c].full /\ k.next = call[c].next
  BY <1>1, <1>2, PcOfCall
<1> QED
  BY <1>2, <1>3, OneCall DEF Moved

LEMMA Loads ==
    ASSUME TypeOK, NEW c \in Callers, NEW l \in Labels, NEW v \in Nat,
           call' = [call EXCEPT ![c].pc = l, ![c].w = v]
    PROVE  /\ Moved(c) /\ call'[c].pc = l /\ call'[c].w = v /\ call'[c].r = call[c].r
           /\ call'[c].part = call[c].part /\ call'[c].copied = call[c].copied
           /\ call'[c].full = call[c].full /\ call'[c].next = call[c].next
<1>1. PICK k : k = [call[c] EXCEPT !.pc = l]
  OBVIOUS
<1>2. PICK d : d = [k EXCEPT !.w = v]
  OBVIOUS
<1>3. call[c] \in Calls /\ call' = [call EXCEPT ![c] = d]
  BY <1>1, <1>2, TypeParts
<1>4. k \in Calls /\ k.pc = l /\ k.r = call[c].r /\ k.part = call[c].part
      /\ k.copied = call[c].copied /\ k.full = call[c].full /\ k.next = call[c].next
  BY <1>1, <1>3, PcOfCall
<1>5. d \in Calls /\ d.pc = k.pc /\ d.w = v /\ d.r = k.r /\ d.part = k.part
      /\ d.copied = k.copied /\ d.full = k.full /\ d.next = k.next
  BY <1>2, <1>4, WOfCall
<1> QED
  BY <1>3, <1>4, <1>5, OneCall DEF Moved

LEMMA GoesOn ==
    ASSUME TypeOK, NEW c \in Callers, AfterPart(c)
    PROVE  Moved(c) /\ call'[c].pc \in {"sizeWrite", "loadWrite"} /\ call'[c].copied = 0
<1>1. call[c].part \in 1..Len(Parts) /\ Len(Parts) \in Nat
  BY TypeParts, CallFields, PartsAssumption, LenProperties
<1>2. CASE call[c].part = Len(Parts)
  <2>1. PICK k : k = [NoCall EXCEPT !.pc = "sizeWrite"]
    OBVIOUS
  <2>2. "sizeWrite" \in Labels
    BY DEF Labels
  <2>3. k \in Calls /\ k.pc = "sizeWrite" /\ k.copied = 0
    BY <2>1, <2>2, NoCallFields, PcOfCall
  <2>4. call' = [call EXCEPT ![c] = k]
    BY <1>2, <2>1 DEF AfterPart
  <2> QED
    BY <2>3, <2>4, OneCall DEF Moved
<1>3. CASE call[c].part # Len(Parts)
  <2>1. PICK j : j = [NoCall EXCEPT !.pc = "loadWrite"]
    OBVIOUS
  <2>2. PICK k : k = [j EXCEPT !.part = call[c].part + 1]
    OBVIOUS
  <2>3. "loadWrite" \in Labels /\ call[c].part + 1 \in 1..Len(Parts)
    BY <1>1, <1>3 DEF Labels
  <2>4. j \in Calls /\ j.pc = "loadWrite" /\ j.copied = 0
    BY <2>1, <2>3, NoCallFields, PcOfCall
  <2>5. k \in Calls /\ k.pc = "loadWrite" /\ k.copied = 0
    BY <2>2, <2>3, <2>4, PartOfCall
  <2>6. call' = [call EXCEPT ![c] = k]
    BY <1>3, <2>1, <2>2 DEF AfterPart
  <2> QED
    BY <2>5, <2>6, OneCall DEF Moved
<1> QED
  BY <1>2, <1>3

LEMMA Continues ==
    ASSUME TypeOK, NEW c \in Callers, NEW l \in Labels, Continue(c, l)
    PROVE  Moved(c) /\ call'[c].pc = l /\ call'[c].copied \in {0, call[c].copied}
<1>1. CASE l = "idle"
  BY <1>1, NoCallFields, OneCall DEF Continue, Moved
<1>2. CASE l # "idle"
  <2>1. Goto(c, l)
    BY <1>2 DEF Continue, Goto
  <2> QED
    BY <2>1, Goes
<1> QED
  BY <1>1, <1>2

\* The types of everything but the calls, the ring and the file.
Rest ==
    /\ dropped \in Nat /\ flushing \in BOOLEAN /\ nested \in Modes /\ begun \in 0..MaxCalls
    /\ stack \in Seq(Callers) /\ raced \in BOOLEAN /\ failed \in BOOLEAN

LEMMA OldTypes ==
    ASSUME SinkTypes
    PROVE  Rest /\ file \in Seq(Bytes)
  BY DEF SinkTypes, TypeOK, Rest

LEMMA NewTypes ==
    ASSUME NEW c \in Callers, Moved(c), Rest', file' \in Seq(Bytes),
           buffer' \in [0..(Capacity - 1) -> Bytes], writePos' \in Nat, readPos' \in Nat
    PROVE  SinkTypes'
<1>1. \A i \in 1..Len(file') : file'[i] \in Nat \cup {Garbage}
  BY ElementOfSeq DEF Bytes
<1> QED
  BY <1>1 DEF Moved, Calls, Rest, SinkTypes, TypeOK, Bytes

LEMMA StackUnwinds ==
    ASSUME SinkTypes, NEW c \in Callers, NEW l, Running(c), Unwind(l)
    PROVE  stack' \in Seq(Callers)
<1>1. stack \in Seq(Callers) /\ Len(stack) \in Nat
  BY LenProperties DEF SinkTypes, TypeOK
<1>2. CASE nested /\ l = "idle"
  <2>1. stack # << >> /\ stack' = SubSeq(stack, 1, Len(stack) - 1)
    BY <1>2 DEF Running, Unwind
  <2>2. Len(stack) - 1 <= Len(stack)
    BY <1>1
  <2> QED
    BY <1>1, <2>1
<1>3. CASE ~(nested /\ l = "idle")
  BY <1>1, <1>3 DEF Unwind
<1> QED
  BY <1>2, <1>3

-----------------------------------------------------------------------------
(* Steps that touch neither the ring nor the file.                         *)

\* The bytes of other callers stay reserved.
LEMMA OthersReserved ==
    ASSUME NEW c \in Callers, Moved(c)
    PROVE  \A d \in Callers \ {c} : /\ Reserved(d)' = Reserved(d) /\ End(d)' = End(d)
                                    /\ Length(d)' = Length(d) /\ Copying(d)' = Copying(d)
  BY DEF Moved, Reserved, End, Length, Copying

LEMMA QuietStep ==
    ASSUME SinkInv, NEW c \in Callers, Moved(c), UNCHANGED <<ring, file, ghosts>>,
           ~Copying(c), call[c].pc # "flushLoop", call'[c].copied = 0,
           call'[c].pc \notin {"copy", "flushRead", "flushLoop"},
           call'[c].pc \in {"loadRead", "reserve"} => call'[c].w <= writePos,
           ~raced /\ call'[c].pc = "reserve" /\ call'[c].w = writePos => End(c)' - readPos <= Capacity
    PROVE  Positions' /\ Apart' /\ Unraced'
<1>1. UNCHANGED <<buffer, writePos, readPos, file, raced, failed>> /\ Positions /\ Apart /\ Unraced
  BY DEF ring, ghosts, SinkInv
<1>2. \A d \in Callers \ {c} : call'[d] = call[d] /\ End(d)' = End(d) /\ Length(d)' = Length(d)
  BY OthersReserved DEF Moved
<1>3. Positions' /\ Apart'
  BY <1>1, <1>2 DEF Positions, Apart, Copying
<1>4. ASSUME ~raced PROVE Ring' /\ OneFlush' /\ Flushed'
  <2>1. Ring /\ OneFlush /\ Flushed
    BY <1>1, <1>4 DEF Unraced
  <2>2. ASSUME NEW p \in readPos..(writePos - 1) PROVE Held(p)'
    <3>1. Held(p)
      BY <2>1 DEF Ring
    <3>2. \A d \in Callers : p \in Reserved(d) => p \in Reserved(d)'
      BY OthersReserved DEF Reserved, Copying
    <3> QED
      BY <1>1, <3>1, <3>2 DEF Held
  <2>3. Ring'
    BY <1>1, <1>2, <1>4, <2>1, <2>2 DEF Ring, Copying
  <2>4. OneFlush'
    BY <1>1, <1>2, <2>1 DEF OneFlush, InFlush, Copying
  <2>5. Flushed'
    BY <1>1, <1>2, <2>1 DEF Flushed, UpTo
  <2> QED
    BY <2>3, <2>4, <2>5
<1> QED
  BY <1>1, <1>3, <1>4 DEF Unraced

LEMMA BeginSteps ==
    ASSUME SinkInv, NEW c \in Callers, Log(c) \/ Flush(c)
    PROVE  SinkInv'
<1>1. SinkTypes /\ TypeOK /\ Positions /\ Begin(c)
  BY DEF SinkInv, SinkTypes, Log, Flush
<1>2. PICK l \in {"loadWrite", "flushWrite"} : Goto(c, l)
  BY DEF Log, Flush
<1>3. l \in Labels
  BY DEF Labels
<1>4. Moved(c) /\ call'[c].pc = l /\ call'[c].copied = 0 /\ call[c].pc = "idle"
  BY <1>1, <1>2, <1>3, Goes DEF Begin, Positions, Copying
<1>5. UNCHANGED <<ring, file, ghosts>> /\ UNCHANGED <<buffer, writePos, readPos, dropped, flushing, nested, raced, failed>>
  BY <1>1 DEF Begin, ring, counters, ghosts
<1>6. Positions' /\ Apart' /\ Unraced'
  BY <1>4, <1>5, QuietStep DEF Copying
<1>7. begun' \in 0..MaxCalls /\ stack' \in Seq(Callers)
  <2>1. begun' \in 0..MaxCalls
    BY <1>1, OldTypes, MaxCallsAssumption DEF Begin, Rest
  <2>2. stack' \in Seq(Callers)
    BY <1>1, OldTypes, AppendProperties DEF Begin, Rest
  <2> QED
    BY <2>1, <2>2
<1>8. SinkTypes'
  BY <1>1, <1>4, <1>5, <1>7, NewTypes, OldTypes, TypeParts DEF Rest
<1> QED
  BY <1>6, <1>8 DEF SinkInv

\* A step of a call that changes only counters and the stack otherwise.
LEMMA QuietTypes ==
    ASSUME SinkInv, NEW c \in Callers, Moved(c), UNCHANGED <<ring, file, calls, ghosts>>,
           dropped' \in Nat, flushing' \in BOOLEAN, stack' \in Seq(Callers)
    PROVE  SinkTypes'
<1>1. SinkTypes /\ TypeOK
  BY DEF SinkInv, SinkTypes
<1>2. UNCHANGED <<buffer, writePos, readPos, file, begun, nested, raced, failed>>
  BY DEF ring, calls, ghosts
<1> QED
  BY <1>1, <1>2, NewTypes, OldTypes, TypeParts DEF Rest

LEMMA LoadSteps ==
    ASSUME SinkInv, NEW c \in Callers, LoadWrite(c) \/ SizeWrite(c)
    PROVE  SinkInv'
<1>1. SinkTypes /\ TypeOK /\ Positions
  BY DEF SinkInv, SinkTypes
<1>2. writePos \in Nat
  BY <1>1, TypeParts
<1>3. PICK l \in {"loadRead", "sizeRead"} : call' = [call EXCEPT ![c].pc = l, ![c].w = writePos]
  BY DEF LoadWrite, SizeWrite
<1>4. l \in Labels
  BY DEF Labels
<1>5. call[c].pc \in {"loadWrite", "sizeWrite"} /\ UNCHANGED <<ring, counters, file, calls, stack, ghosts>>
  BY DEF LoadWrite, SizeWrite, CallerAt
<1>6. Moved(c) /\ call'[c].pc = l /\ call'[c].w = writePos /\ call'[c].copied = 0
  BY <1>1, <1>2, <1>3, <1>4, <1>5, Loads DEF Positions, Copying
<1>7. Positions' /\ Apart' /\ Unraced'
  BY <1>2, <1>5, <1>6, QuietStep DEF Copying
<1>8. SinkTypes'
  BY <1>1, <1>5, <1>6, QuietTypes, OldTypes DEF Rest, counters
<1> QED
  BY <1>7, <1>8 DEF SinkInv

\* Room found beside the write position in force is room.
LEMMA RoomFound ==
    ASSUME SinkInv, NEW c \in Callers, ~raced, call[c].w = writePos, Length(c) <= Available(c)
    PROVE  End(c) - readPos <= Capacity
<1>1. writePos \in Nat /\ readPos \in Nat /\ readPos <= writePos /\ writePos - readPos <= Capacity
  BY TypeParts DEF SinkInv, SinkTypes, Unraced, Ring
<1>2. Minus(call[c].w, readPos) = writePos - readPos
  BY <1>1, MinusExact
<1>3. writePos - readPos \in Nat /\ Capacity \in Nat
  BY <1>1, CapacityAssumption
<1>4. Minus(Capacity, writePos - readPos) = Capacity - (writePos - readPos)
  BY <1>1, <1>3, MinusExact
<1>5. Length(c) \in Nat /\ Length(c) <= Capacity - (writePos - readPos)
  BY <1>2, <1>4, LengthPositive, TypeParts DEF Available, SinkInv, SinkTypes
<1> QED
  BY <1>1, <1>3, <1>5 DEF End

LEMMA LoadReadStep ==
    ASSUME SinkInv, NEW c \in Callers, LoadRead(c)
    PROVE  SinkInv'
<1>1. SinkTypes /\ TypeOK /\ Positions /\ dropped \in Nat
  BY OldTypes DEF SinkInv, SinkTypes, Rest
<1>2. call[c].pc = "loadRead" /\ UNCHANGED <<ring, flushing, file, calls, stack, ghosts>>
  BY DEF LoadRead, CallerAt
<1>3. call[c].w <= writePos /\ call[c].copied = 0
  BY <1>1, <1>2 DEF Positions, Copying
<1>4. UNCHANGED <<buffer, writePos, readPos>>
  BY <1>2 DEF ring
<1>5. CASE Length(c) <= Available(c) /\ Goto(c, "reserve") /\ UNCHANGED dropped
  <2>1. "reserve" \in Labels
    BY DEF Labels
  <2>2. /\ Moved(c) /\ call'[c].pc = "reserve" /\ call'[c].w = call[c].w
        /\ call'[c].part = call[c].part /\ call'[c].copied = 0
    BY <1>1, <1>3, <1>5, <2>1, Goes
  <2>3. End(c)' = End(c)
    BY <2>2 DEF End, Length
  <2>4. ~raced /\ call'[c].pc = "reserve" /\ call'[c].w = writePos => End(c)' - readPos <= Capacity
    BY <1>5, <2>2, <2>3, RoomFound
  <2>5. Positions' /\ Apart' /\ Unraced'
    BY <1>2, <1>3, <2>2, <2>4, QuietStep DEF Copying
  <2>6. SinkTypes'
    BY <1>1, <1>2, <1>5, <2>2, QuietTypes, OldTypes DEF Rest
  <2> QED
    BY <2>5, <2>6 DEF SinkInv
<1>6. CASE Goto(c, "tryFlush") /\ UNCHANGED dropped
  <2>1. "tryFlush" \in Labels
    BY DEF Labels
  <2>2. Moved(c) /\ call'[c].pc = "tryFlush" /\ call'[c].copied = 0
    BY <1>1, <1>3, <1>6, <2>1, Goes
  <2>3. Positions' /\ Apart' /\ Unraced'
    BY <1>2, <2>2, QuietStep DEF Copying
  <2>4. SinkTypes'
    BY <1>1, <1>2, <1>6, <2>2, QuietTypes, OldTypes DEF Rest
  <2> QED
    BY <2>3, <2>4 DEF SinkInv
<1>7. CASE AfterPart(c) /\ dropped' = dropped + 1
  <2>1. Moved(c) /\ call'[c].pc \in {"sizeWrite", "loadWrite"} /\ call'[c].copied = 0
    BY <1>1, <1>7, GoesOn
  <2>2. Positions' /\ Apart' /\ Unraced'
    BY <1>2, <2>1, QuietStep DEF Copying
  <2>3. SinkTypes'
    BY <1>1, <1>2, <1>7, <2>1, QuietTypes, OldTypes DEF Rest
  <2> QED
    BY <2>2, <2>3 DEF SinkInv
<1> QED
  BY <1>5, <1>6, <1>7 DEF LoadRead

\* Steps around a flush that is tried, and a reservation that fails.
LEMMA FlagSteps ==
    ASSUME SinkInv, NEW c \in Callers, TryFlush(c) \/ Unflag(c) \/ ReserveFails(c)
    PROVE  SinkInv'
<1>1. SinkTypes /\ TypeOK /\ Positions /\ call[c] \in Calls /\ flushing \in BOOLEAN
  BY TypeParts, OldTypes DEF SinkInv, SinkTypes, Rest
<1>2. /\ call[c].pc \in {"tryFlush", "unflag", "reserve"} /\ flushing' \in BOOLEAN
      /\ UNCHANGED <<ring, dropped, file, calls, stack, ghosts>>
  BY <1>1 DEF TryFlush, Unflag, ReserveFails, CallerAt, counters
<1>3. call[c].copied = 0
  BY <1>1, <1>2 DEF Positions, Copying
<1>4. Moved(c) /\ call'[c].pc \in {"loadWrite", "flushWrite"} /\ call'[c].copied = 0
  <2>1. CASE TryFlush(c)
    <3>1. PICK j : j = [call[c] EXCEPT !.full = TRUE]
      OBVIOUS
    <3>2. PICK l : l = IF flushing THEN "loadWrite" ELSE "flushWrite"
      OBVIOUS
    <3>3. PICK k : k = [j EXCEPT !.pc = l]
      OBVIOUS
    <3>4. PICK n : n = IF flushing THEN "idle" ELSE "unflag"
      OBVIOUS
    <3>5. PICK d : d = [k EXCEPT !.next = n]
      OBVIOUS
    <3>6. l \in Labels /\ n \in {"idle", "unflag"} /\ l \in {"loadWrite", "flushWrite"}
      BY <3>2, <3>4 DEF Labels
    <3>7. j \in Calls /\ j.copied = 0
      BY <1>1, <1>3, <3>1, FullOfCall
    <3>8. k \in Calls /\ k.pc = l /\ k.copied = 0
      BY <3>3, <3>6, <3>7, PcOfCall
    <3>9. d \in Calls /\ d.pc = l /\ d.copied = 0
      BY <3>5, <3>6, <3>8, NextOfCall
    <3>10. call' = [call EXCEPT ![c] = d]
      BY <1>1, <2>1, <3>1, <3>2, <3>3, <3>4, <3>5, TypeParts DEF TryFlush
    <3> QED
      BY <1>1, <3>6, <3>9, <3>10, OneCall DEF Moved
  <2>2. CASE Unflag(c)
    <3>1. PICK k : k = [call[c] EXCEPT !.pc = "loadWrite"]
      OBVIOUS
    <3>2. PICK d : d = [k EXCEPT !.next = "idle"]
      OBVIOUS
    <3>3. "loadWrite" \in Labels
      BY DEF Labels
    <3>4. k \in Calls /\ k.pc = "loadWrite" /\ k.copied = 0
      BY <1>1, <1>3, <3>1, <3>3, PcOfCall
    <3>5. d \in Calls /\ d.pc = "loadWrite" /\ d.copied = 0
      BY <3>2, <3>4, NextOfCall
    <3>6. call' = [call EXCEPT ![c] = d]
      BY <1>1, <2>2, <3>1, <3>2, TypeParts DEF Unflag
    <3> QED
      BY <1>1, <3>5, <3>6, OneCall DEF Moved
  <2>3. CASE ReserveFails(c)
    <3>1. PICK k : k = [call[c] EXCEPT !.pc = "loadWrite"]
      OBVIOUS
    <3>2. PICK d : d = [k EXCEPT !.full = FALSE]
      OBVIOUS
    <3>3. "loadWrite" \in Labels
      BY DEF Labels
    <3>4. k \in Calls /\ k.pc = "loadWrite" /\ k.copied = 0
      BY <1>1, <1>3, <3>1, <3>3, PcOfCall
    <3>5. d \in Calls /\ d.pc = "loadWrite" /\ d.copied = 0
      BY <3>2, <3>4, FullOfCall
    <3>6. call' = [call EXCEPT ![c] = d]
      BY <1>1, <2>3, <3>1, <3>2, TypeParts DEF ReserveFails
    <3> QED
      BY <1>1, <3>5, <3>6, OneCall DEF Moved
  <2> QED
    BY <2>1, <2>2, <2>3
<1>5. Positions' /\ Apart' /\ Unraced'
  BY <1>2, <1>4, QuietStep DEF Copying
<1>6. SinkTypes'
  BY <1>1, <1>2, <1>4, QuietTypes, OldTypes DEF Rest
<1> QED
  BY <1>5, <1>6 DEF SinkInv

\* A call ends or goes on after a flush or a look at the size.
LEMMA ContinueStep ==
    ASSUME SinkInv, NEW c \in Callers, NEW l \in {"idle", "unflag", "flushWrite"}, Continue(c, l), Unwind(l),
           Running(c), ~Copying(c), call[c].pc # "flushLoop",
           UNCHANGED <<ring, counters, file, calls, ghosts>>
    PROVE  SinkInv'
<1>1. SinkTypes /\ TypeOK /\ Positions
  BY DEF SinkInv, SinkTypes
<1>2. l \in Labels
  BY DEF Labels
<1>3. Moved(c) /\ call'[c].pc = l /\ call'[c].copied = 0
  BY <1>1, <1>2, Continues DEF Positions
<1>4. Positions' /\ Apart' /\ Unraced'
  BY <1>3, QuietStep
<1>5. SinkTypes'
  BY <1>1, <1>3, QuietTypes, OldTypes, StackUnwinds DEF Rest, counters
<1> QED
  BY <1>4, <1>5 DEF SinkInv

LEMMA SizeReadStep ==
    ASSUME SinkInv, NEW c \in Callers, SizeRead(c)
    PROVE  SinkInv'
<1>1. PICK l \in {"idle", "flushWrite"} : Continue(c, l) /\ Unwind(l)
  BY DEF SizeRead
<1> QED
  BY <1>1, ContinueStep DEF SizeRead, CallerAt, Copying

-----------------------------------------------------------------------------
(* Steps of the ring.                                                      *)

LEMMA ReserveStep ==
    ASSUME SinkInv, NEW c \in Callers, Reserve(c)
    PROVE  SinkInv'
<1>1. SinkTypes /\ TypeOK /\ Positions /\ Apart /\ Unraced
  BY DEF SinkInv, SinkTypes
<1>2. /\ call[c].pc = "reserve" /\ writePos = call[c].w /\ writePos' = writePos + Length(c)
      /\ UNCHANGED <<buffer, readPos, dropped, flushing, file, begun, nested, stack, raced, failed>>
  BY DEF Reserve, CallerAt, counters, calls, ghosts
<1>3. "copy" \in Labels /\ Goto(c, "copy")
  BY DEF Reserve, Goto, Labels
<1>4. /\ Moved(c) /\ call'[c].pc = "copy" /\ call'[c].w = call[c].w
      /\ call'[c].part = call[c].part /\ call'[c].copied = 0
  BY <1>1, <1>2, <1>3, Goes DEF Positions, Copying
<1>5. writePos \in Nat /\ readPos \in Nat /\ Length(c) \in Nat \ {0} /\ \A d \in Callers : call[d].w \in Nat
  BY <1>1, TypeParts, CallFields, LengthPositive
<1>6. End(c)' = writePos' /\ End(c) = writePos' /\ Length(c)' = Length(c)
  BY <1>2, <1>4 DEF End, Length
<1>7. \A d \in Callers \ {c} : /\ call'[d] = call[d] /\ End(d)' = End(d) /\ Length(d)' = Length(d)
                               /\ Reserved(d)' = Reserved(d) /\ Copying(d)' = Copying(d)
  BY <1>4, OthersReserved DEF Moved
<1>8. \A d \in Callers : Copying(d) => End(d) <= writePos /\ End(d) \in Nat
  BY <1>1, <1>5, LengthPositive, TypeParts DEF Positions, End
<1>9. SinkTypes'
  BY <1>1, <1>2, <1>4, <1>5, NewTypes, OldTypes, TypeParts DEF Rest
<1>10. Positions'
  <2>1. ASSUME NEW d \in Callers \ {c}
        PROVE  /\ (call[d].pc \in {"loadRead", "reserve", "flushRead", "flushLoop"} => call[d].w <= writePos')
               /\ (Copying(d) => End(d) <= writePos')
    BY <1>1, <1>2, <1>5, <1>8 DEF Positions
  <2> QED
    BY <1>1, <1>2, <1>4, <1>5, <1>6, <1>7, <2>1 DEF Positions, Copying
<1>11. Apart'
  BY <1>1, <1>2, <1>4, <1>6, <1>7, <1>8 DEF Apart, Copying
<1>12. ASSUME ~raced PROVE Ring' /\ OneFlush' /\ Flushed'
  <2>1. Ring /\ OneFlush /\ Flushed
    BY <1>1, <1>12 DEF Unraced
  <2>2. readPos <= writePos /\ writePos' - readPos <= Capacity
    BY <1>2, <1>6, <2>1 DEF Ring
  <2>3. ASSUME NEW p \in readPos..(writePos' - 1) PROVE Held(p)'
    <3>1. CASE p < writePos
      <4>1. Held(p)
        BY <1>2, <1>5, <2>1, <3>1 DEF Ring
      <4>2. \A d \in Callers : p \in Reserved(d) => p \in Reserved(d)'
        BY <1>2, <1>7 DEF Reserved
      <4> QED
        BY <1>2, <4>1, <4>2 DEF Held
    <3>2. CASE p >= writePos
      <4>1. p \in Reserved(c)'
        BY <1>2, <1>4, <1>5, <1>6, <3>2 DEF Reserved, Length
      <4> QED
        BY <4>1 DEF Held
    <3> QED
      BY <1>5, <3>1, <3>2
  <2>4. ASSUME NEW d \in Callers, call'[d].pc = "reserve", call'[d].w = writePos' PROVE FALSE
    <3>1. call[d].pc = "reserve" /\ call[d].w = writePos' /\ call[d].w <= writePos
      BY <1>1, <1>4, <1>7, <2>4 DEF Positions
    <3> QED
      BY <1>2, <1>5, <3>1
  <2>5. Ring'
    BY <1>2, <1>4, <1>5, <1>7, <2>1, <2>2, <2>3, <2>4 DEF Ring, Copying
  <2>6. OneFlush'
    BY <1>1, <1>2, <1>4, <1>7, <2>1 DEF OneFlush, InFlush, Copying, Positions
  <2>7. Flushed'
    BY <1>2, <1>4, <1>7, <2>1 DEF Flushed, UpTo
  <2> QED
    BY <2>5, <2>6, <2>7
<1>13. Unraced'
  BY <1>1, <1>2, <1>12 DEF Unraced
<1> QED
  BY <1>9, <1>10, <1>11, <1>13 DEF SinkInv

\* The byte at hand is in the ring now, and no longer reserved.
LEMMA CopyStep ==
    ASSUME SinkInv, NEW c \in Callers, Copy(c)
    PROVE  SinkInv'
<1>1. SinkTypes /\ TypeOK /\ Positions /\ Apart /\ Unraced
  BY DEF SinkInv, SinkTypes
<1> DEFINE q == call[c].w + call[c].copied
<1>2. /\ call[c].pc = "copy" /\ buffer' = [buffer EXCEPT ![q % Capacity] = q]
      /\ UNCHANGED <<writePos, readPos, dropped, flushing, file, begun, nested, stack, raced, failed>>
  BY DEF Copy, CallerAt, counters, calls, ghosts
<1>3. /\ writePos \in Nat /\ readPos \in Nat /\ Length(c) \in Nat \ {0} /\ q \in Nat
      /\ \A d \in Callers : call[d].w \in Nat /\ call[d].copied \in Nat /\ Length(d) \in Nat \ {0}
  BY <1>1, TypeParts, CallFields, LengthPositive
<1>4. q % Capacity \in 0..(Capacity - 1)
  BY <1>3, PlaceInRing
<1>5. buffer' \in [0..(Capacity - 1) -> Bytes] /\ \A i \in 0..(Capacity - 1) :
          buffer'[i] = IF i = q % Capacity THEN q ELSE buffer[i]
  BY <1>1, <1>2, <1>3, <1>4, TypeParts DEF Bytes
<1>6. call[c].copied < Length(c) /\ End(c) <= writePos
  BY <1>1, <1>2 DEF Positions, Copying
<1>7. /\ Moved(c)
      /\ \/ /\ call'[c].pc = "copy" /\ call'[c].w = call[c].w /\ call'[c].part = call[c].part
            /\ call'[c].copied = call[c].copied + 1 /\ call[c].copied + 1 < Length(c)
         \/ /\ call'[c].pc \in {"sizeWrite", "loadWrite"} /\ call'[c].copied = 0
            /\ call[c].copied + 1 = Length(c)
  <2>1. CASE call[c].copied + 1 = Length(c)
    BY <1>1, <2>1, GoesOn DEF Copy
  <2>2. CASE call[c].copied + 1 # Length(c)
    <3>1. PICK k : k = [call[c] EXCEPT !.copied = call[c].copied + 1]
      OBVIOUS
    <3>2. call' = [call EXCEPT ![c] = k]
      BY <1>1, <2>2, <3>1, TypeParts DEF Copy
    <3>3. call[c].copied + 1 \in Nat /\ call[c] \in Calls
      BY <1>1, <1>3, TypeParts
    <3>4. /\ k \in Calls /\ k.pc = "copy" /\ k.w = call[c].w /\ k.part = call[c].part
          /\ k.copied = call[c].copied + 1
      BY <1>2, <3>1, <3>3, CopiedOfCall
    <3>5. call[c].copied + 1 < Length(c)
      BY <1>3, <1>6, <2>2
    <3>6. Moved(c) /\ call'[c] = k
      BY <1>1, <3>2, <3>4, OneCall DEF Moved
    <3> QED
      BY <3>4, <3>5, <3>6
  <2> QED
    BY <2>1, <2>2
<1>8. \A d \in Callers \ {c} : /\ call'[d] = call[d] /\ End(d)' = End(d) /\ Length(d)' = Length(d)
                               /\ Reserved(d)' = Reserved(d) /\ Copying(d)' = Copying(d)
  BY <1>7, OthersReserved DEF Moved
<1>9. Copying(c)' => End(c)' = End(c) /\ Length(c)' = Length(c) /\ call'[c].w = call[c].w
  BY <1>7 DEF Copying, End, Length
<1>10. SinkTypes'
  BY <1>1, <1>2, <1>3, <1>5, <1>7, NewTypes, OldTypes DEF Rest
<1>11. Positions'
  <2>1. Copying(c)' => call'[c].copied < Length(c)'
    BY <1>7, <1>9 DEF Copying
  <2> QED
    BY <1>1, <1>2, <1>6, <1>7, <1>8, <1>9, <2>1 DEF Positions, Copying
<1>12. Apart'
  BY <1>1, <1>2, <1>8, <1>9 DEF Apart, Copying
<1>13. ASSUME ~raced PROVE Ring' /\ OneFlush' /\ Flushed'
  <2>1. Ring /\ OneFlush /\ Flushed
    BY <1>1, <1>13 DEF Unraced
  <2>2. readPos <= q /\ q < writePos /\ writePos - readPos <= Capacity
    BY <1>2, <1>3, <1>6, <2>1 DEF Ring, Copying, End
  <2>3. ASSUME NEW p \in readPos..(writePos - 1) PROVE Held(p)'
    <3>1. p \in Nat /\ p % Capacity \in 0..(Capacity - 1)
      BY <1>3, PlaceInRing
    <3>2. CASE p = q
      <4>1. buffer'[p % Capacity] = p
        BY <1>4, <1>5, <3>2
      <4> QED
        BY <4>1 DEF Held
    <3>3. CASE p # q
      <4>1. p % Capacity # q % Capacity
        <5>1. p - q < Capacity /\ q - p < Capacity /\ p \in Int /\ q \in Int
          BY <1>3, <2>2, <3>1, CapacityAssumption
        <5> QED
          BY <3>3, <5>1, OtherPlace, CapacityAssumption
      <4>2. buffer'[p % Capacity] = buffer[p % Capacity]
        BY <1>5, <3>1, <4>1
      <4>3. ASSUME NEW d \in Callers, p \in Reserved(d) PROVE p \in Reserved(d)'
        <5>1. CASE d = c
          <6>1. p \in (q + 1)..(call[c].w + Length(c) - 1)
            BY <1>2, <1>3, <3>1, <3>3, <4>3, <5>1 DEF Reserved
          <6>2. call'[c].pc = "copy" /\ call'[c].copied = call[c].copied + 1 /\ call'[c].w = call[c].w
            BY <1>3, <1>7, <6>1
          <6> QED
            BY <1>3, <1>9, <5>1, <6>1, <6>2 DEF Reserved, Copying
        <5>2. CASE d # c
          BY <1>8, <4>3, <5>2
        <5> QED
          BY <5>1, <5>2
      <4>4. Held(p)
        BY <2>1 DEF Ring
      <4> QED
        BY <4>2, <4>3, <4>4 DEF Held
    <3> QED
      BY <3>2, <3>3
  <2>4. Ring'
    BY <1>2, <1>7, <1>8, <1>9, <2>1, <2>3 DEF Ring, Copying
  <2>5. OneFlush'
    BY <1>2, <1>7, <1>8, <2>1 DEF OneFlush, InFlush, Copying
  <2>6. Flushed'
    BY <1>2, <1>7, <1>8, <2>1 DEF Flushed, UpTo
  <2> QED
    BY <2>4, <2>5, <2>6
<1>14. Unraced'
  BY <1>1, <1>2, <1>13 DEF Unraced
<1> QED
  BY <1>10, <1>11, <1>12, <1>14 DEF SinkInv

-----------------------------------------------------------------------------
(* Steps of a flush.                                                       *)

LEMMA FlushWriteStep ==
    ASSUME SinkInv, NEW c \in Callers, FlushWrite(c)
    PROVE  SinkInv'
<1>1. SinkTypes /\ TypeOK /\ Positions /\ Apart /\ Unraced
  BY DEF SinkInv, SinkTypes
<1>2. /\ call[c].pc = "flushWrite" /\ call' = [call EXCEPT ![c].pc = "flushRead", ![c].w = writePos]
      /\ UNCHANGED <<buffer, writePos, readPos, dropped, flushing, file, begun, nested, stack, failed>>
  BY DEF FlushWrite, CallerAt, ring, counters, calls
<1>3. writePos \in Nat /\ readPos \in Nat /\ "flushRead" \in Labels
  BY <1>1, TypeParts DEF Labels
<1>4. Moved(c) /\ call'[c].pc = "flushRead" /\ call'[c].w = writePos /\ call'[c].copied = 0
  BY <1>1, <1>2, <1>3, Loads DEF Positions, Copying
<1>5. \A d \in Callers \ {c} : /\ call'[d] = call[d] /\ End(d)' = End(d) /\ Length(d)' = Length(d)
                               /\ Reserved(d)' = Reserved(d) /\ Copying(d)' = Copying(d)
  BY <1>4, OthersReserved DEF Moved
<1>6. raced' \in BOOLEAN
  BY <1>1, OldTypes DEF Rest, FlushWrite
<1>7. SinkTypes'
  BY <1>1, <1>2, <1>3, <1>4, <1>6, NewTypes, OldTypes, TypeParts DEF Rest
<1>8. Positions' /\ Apart'
  <2>1. UNCHANGED writePos /\ writePos <= writePos
    BY <1>2, <1>3
  <2>2. Positions'
    BY <1>1, <1>4, <1>5, <2>1 DEF Positions, Copying
  <2>3. Apart'
    BY <1>1, <1>4, <1>5 DEF Apart, Copying
  <2> QED
    BY <2>2, <2>3
<1>9. ASSUME ~raced' PROVE Ring' /\ OneFlush' /\ Flushed'
  <2>1. ~raced /\ \A d \in Callers : ~Copying(d) /\ (d # c => ~InFlush(d))
    BY <1>2, <1>9 DEF FlushWrite, Copying
  <2>2. Ring /\ OneFlush /\ Flushed
    BY <1>1, <2>1 DEF Unraced
  <2>3. ASSUME NEW p \in readPos..(writePos - 1) PROVE Held(p)'
    <3>1. buffer[p % Capacity] = p
      BY <2>1, <2>2 DEF Ring, Held, Reserved, Copying
    <3> QED
      BY <1>2, <3>1 DEF Held
  <2>4. Ring'
    BY <1>2, <1>4, <1>5, <2>2, <2>3 DEF Ring, Copying
  <2>5. \A d \in Callers : ~Copying(d)' /\ (d # c => ~InFlush(d)')
    BY <1>4, <1>5, <2>1 DEF Copying, InFlush
  <2>6. OneFlush'
    BY <1>2, <1>3, <1>4, <2>2, <2>5 DEF OneFlush, InFlush, Ring
  <2>7. Flushed'
    BY <1>2, <1>4, <1>5, <2>2 DEF Flushed, UpTo
  <2> QED
    BY <2>4, <2>6, <2>7
<1> QED
  BY <1>7, <1>8, <1>9 DEF SinkInv, Unraced

LEMMA FlushReadStep ==
    ASSUME SinkInv, NEW c \in Callers, FlushRead(c)
    PROVE  SinkInv'
<1>1. SinkTypes /\ TypeOK /\ Positions /\ Apart /\ Unraced
  BY DEF SinkInv, SinkTypes
<1>2. call[c].pc = "flushRead" /\ Running(c) /\ UNCHANGED <<ring, counters, file, calls, ghosts>>
  BY DEF FlushRead, CallerAt
<1>3. call[c] \in Calls /\ readPos \in Nat
  BY <1>1, TypeParts
<1>4. CASE call[c].w = readPos
  <2>1. call[c].next \in {"idle", "unflag", "flushWrite"}
    BY <1>3, CallFields
  <2> QED
    BY <1>2, <1>4, <2>1, ContinueStep DEF FlushRead, Copying
<1>5. CASE call[c].w # readPos
  <2>1. call' = [call EXCEPT ![c].pc = "flushLoop", ![c].r = readPos] /\ UNCHANGED stack
    BY <1>5 DEF FlushRead
  <2>2. UNCHANGED <<buffer, writePos, readPos, dropped, flushing, file, begun, nested, raced, failed>>
    BY <1>2 DEF ring, counters, calls, ghosts
  <2>3. /\ Moved(c) /\ call'[c].pc = "flushLoop" /\ call'[c].w = call[c].w /\ call'[c].r = readPos
        /\ call'[c].copied = 0
    <3>1. PICK k : k = [call[c] EXCEPT !.pc = "flushLoop"]
      OBVIOUS
    <3>2. PICK d : d = [k EXCEPT !.r = readPos]
      OBVIOUS
    <3>3. call' = [call EXCEPT ![c] = d]
      BY <1>1, <2>1, <3>1, <3>2, TypeParts
    <3>4. "flushLoop" \in Labels
      BY DEF Labels
    <3>5. k \in Calls /\ k.pc = "flushLoop" /\ k.w = call[c].w /\ k.copied = call[c].copied
      BY <1>3, <3>1, <3>4, PcOfCall
    <3>6. d \in Calls /\ d.pc = "flushLoop" /\ d.w = call[c].w /\ d.copied = call[c].copied /\ d.r = readPos
      BY <1>3, <3>2, <3>5, ROfCall
    <3>7. call[c].copied = 0
      BY <1>1, <1>2 DEF Positions, Copying
    <3> QED
      BY <1>1, <3>3, <3>6, <3>7, OneCall DEF Moved
  <2>4. \A d \in Callers \ {c} : /\ call'[d] = call[d] /\ End(d)' = End(d) /\ Length(d)' = Length(d)
                                 /\ Reserved(d)' = Reserved(d) /\ Copying(d)' = Copying(d)
    BY <2>3, OthersReserved DEF Moved
  <2>5. SinkTypes'
    BY <1>1, <2>1, <2>2, <2>3, NewTypes, OldTypes, TypeParts DEF Rest
  <2>6. Positions' /\ Apart'
    BY <1>1, <1>2, <2>2, <2>3, <2>4 DEF Positions, Apart, Copying
  <2>7. ASSUME ~raced PROVE Ring' /\ OneFlush' /\ Flushed'
    <3>1. Ring /\ OneFlush /\ Flushed
      BY <1>1, <2>7 DEF Unraced
    <3>2. ASSUME NEW p \in readPos..(writePos - 1) PROVE Held(p)'
      <4>1. Held(p)
        BY <3>1 DEF Ring
      <4>2. \A d \in Callers : p \in Reserved(d) => p \in Reserved(d)'
        BY <1>2, <2>4 DEF Reserved
      <4> QED
        BY <2>2, <4>1, <4>2 DEF Held
    <3>3. Ring'
      BY <2>2, <2>3, <2>4, <3>1, <3>2 DEF Ring, Copying
    <3>4. OneFlush'
      BY <1>2, <1>3, <2>2, <2>3, <2>4, <3>1 DEF OneFlush, InFlush, Copying
    <3>5. Flushed'
      <4>1. \A d \in Callers : d # c => call[d].pc # "flushLoop"
        BY <1>2, <3>1 DEF OneFlush, InFlush
      <4>2. UpTo(readPos)
        BY <1>2, <3>1, <4>1 DEF Flushed
      <4>3. \A d \in Callers : call'[d].pc = "flushLoop" => call'[d].r = readPos
        BY <2>3, <2>4, <4>1
      <4> QED
        BY <2>2, <2>3, <3>1, <4>2, <4>3 DEF Flushed, UpTo
    <3> QED
      BY <3>3, <3>4, <3>5
  <2> QED
    BY <1>1, <2>2, <2>5, <2>6, <2>7 DEF SinkInv, Unraced
<1> QED
  BY <1>4, <1>5

LEMMA FlushStoreStep ==
    ASSUME SinkInv, NEW c \in Callers, FlushStore(c)
    PROVE  SinkInv'
<1>1. SinkTypes /\ TypeOK /\ Positions /\ Apart /\ Unraced
  BY DEF SinkInv, SinkTypes
<1>2. /\ call[c].pc = "flushLoop" /\ Running(c) /\ call[c].r >= call[c].w /\ readPos' = call[c].r
      /\ Continue(c, call[c].next) /\ Unwind(call[c].next)
      /\ UNCHANGED <<buffer, writePos, dropped, flushing, file, begun, nested, raced, failed>>
  BY DEF FlushStore, CallerAt, counters, calls, ghosts
<1>3. call[c] \in Calls /\ readPos \in Nat /\ writePos \in Nat /\ call[c].r \in Nat /\ call[c].w \in Nat
      /\ call[c].next \in {"idle", "unflag"} /\ call[c].next \in Labels
  BY <1>1, TypeParts, CallFields DEF Labels
<1>4. Moved(c) /\ call'[c].pc \in {"idle", "unflag"} /\ call'[c].copied = 0
  BY <1>1, <1>2, <1>3, Continues DEF Positions, Copying
<1>5. \A d \in Callers \ {c} : /\ call'[d] = call[d] /\ End(d)' = End(d) /\ Length(d)' = Length(d)
                               /\ Reserved(d)' = Reserved(d) /\ Copying(d)' = Copying(d)
  BY <1>4, OthersReserved DEF Moved
<1>6. stack' \in Seq(Callers)
  BY <1>1, <1>2, StackUnwinds
<1>7. SinkTypes'
  BY <1>1, <1>2, <1>3, <1>4, <1>6, NewTypes, OldTypes, TypeParts DEF Rest
<1>8. Positions' /\ Apart'
  BY <1>1, <1>2, <1>4, <1>5 DEF Positions, Apart, Copying
<1>9. ASSUME ~raced PROVE Ring' /\ OneFlush' /\ Flushed'
  <2>1. Ring /\ OneFlush /\ Flushed
    BY <1>1, <1>9 DEF Unraced
  <2>2. readPos <= call[c].r /\ call[c].r = call[c].w /\ call[c].w <= writePos /\ UpTo(call[c].r)
    BY <1>1, <1>2, <1>3, <2>1 DEF OneFlush, Flushed, Positions
  <2>3. \A d \in Callers : Copying(d) => call[c].w <= call[d].w
    BY <1>2, <2>1 DEF OneFlush, InFlush
  <2>4. \A d \in Callers : d # c => ~InFlush(d)
    BY <1>2, <2>1 DEF OneFlush, InFlush
  <2>5. ASSUME NEW p \in readPos'..(writePos' - 1) PROVE Held(p)'
    <3>1. p \in readPos..(writePos - 1)
      BY <1>2, <1>3, <2>2
    <3>2. Held(p)
      BY <2>1, <3>1 DEF Ring
    <3>3. \A d \in Callers : p \in Reserved(d) => p \in Reserved(d)'
      BY <1>2, <1>5 DEF Reserved
    <3> QED
      BY <1>2, <3>2, <3>3 DEF Held
  <2>6. ASSUME NEW d \in Callers, call'[d].pc = "reserve", call'[d].w = writePos'
        PROVE  End(d)' - readPos' <= Capacity
    <3>1. d # c /\ call[d].pc = "reserve" /\ call[d].w = writePos
      BY <1>2, <1>4, <1>5, <2>6
    <3>2. End(d) - readPos <= Capacity
      BY <2>1, <3>1 DEF Ring
    <3>3. End(d) \in Nat /\ End(d)' = End(d)
      BY <1>1, <1>5, <3>1, TypeParts, CallFields, LengthPositive DEF End
    <3> QED
      BY <1>2, <1>3, <2>2, <3>2, <3>3, CapacityAssumption
  <2>7. readPos' <= writePos' /\ writePos' - readPos' <= Capacity
    BY <1>2, <1>3, <2>1, <2>2, CapacityAssumption DEF Ring
  <2>8. Ring'
    BY <1>2, <1>4, <1>5, <2>2, <2>3, <2>5, <2>6, <2>7 DEF Ring, Copying
  <2>9. \A d \in Callers : ~InFlush(d)'
    BY <1>4, <1>5, <2>4 DEF InFlush
  <2>10. OneFlush'
    BY <2>9 DEF OneFlush, InFlush
  <2>11. Flushed'
    BY <1>2, <2>1, <2>2, <2>9 DEF Flushed, UpTo, InFlush
  <2> QED
    BY <2>8, <2>10, <2>11
<1> QED
  BY <1>1, <1>2, <1>7, <1>8, <1>9 DEF SinkInv, Unraced

\* What one turn of the loop takes is contiguous in the ring and in the positions.
LEMMA ChunkFits ==
    ASSUME TypeOK, NEW c \in Callers, call[c].r < call[c].w
    PROVE  /\ Chunk(c) \in Nat \ {0} /\ call[c].r + Chunk(c) <= call[c].w
           /\ (call[c].r % Capacity) + Chunk(c) <= Capacity
           /\ \A i \in 1..Chunk(c) : /\ (call[c].r % Capacity) + i - 1 \in 0..(Capacity - 1)
                                     /\ (call[c].r % Capacity) + i - 1 = (call[c].r + i - 1) % Capacity
<1>1. call[c].r \in Nat /\ call[c].w \in Nat /\ Capacity \in Nat
  BY TypeParts, CallFields, CapacityAssumption
<1>2. call[c].r % Capacity \in 0..(Capacity - 1)
  BY <1>1, PlaceInRing
<1>3. /\ Chunk(c) \in Nat \ {0} /\ call[c].r + Chunk(c) <= call[c].w
      /\ (call[c].r % Capacity) + Chunk(c) <= Capacity
  BY <1>1, <1>2 DEF Chunk
<1>4. ASSUME NEW i \in 1..Chunk(c)
      PROVE  /\ (call[c].r % Capacity) + i - 1 \in 0..(Capacity - 1)
             /\ (call[c].r % Capacity) + i - 1 = (call[c].r + i - 1) % Capacity
  <2>1. i - 1 \in Nat /\ (call[c].r % Capacity) + (i - 1) < Capacity /\ call[c].r \in Int
    BY <1>1, <1>2, <1>3
  <2>2. (call[c].r + (i - 1)) % Capacity = (call[c].r % Capacity) + (i - 1)
    BY <2>1, NextPlace, CapacityAssumption
  <2>3. call[c].r + (i - 1) = call[c].r + i - 1 /\ (call[c].r % Capacity) + (i - 1) = (call[c].r % Capacity) + i - 1
    BY <1>1, <1>2
  <2> QED
    BY <1>1, <1>2, <2>1, <2>2, <2>3
<1> QED
  BY <1>3, <1>4

\* The positions of a turn lie between the positions of the ring.
LEMMA TurnInRing ==
    ASSUME NEW p \in Nat, NEW q \in Nat, NEW a \in Nat, NEW b \in Nat, NEW m \in Nat, NEW n \in 0..m,
           p <= a, a + m <= b, b <= q, NEW i \in 1..n
    PROVE  a + i - 1 \in p..(q - 1) /\ a + i - 1 < b /\ i \in 1..m
  OBVIOUS

\* A file that grows from position a in order is in order up to a + n.
LEMMA GrowsInOrder ==
    ASSUME NEW f, NEW g, NEW size \in Nat, NEW n \in Nat, NEW a \in Nat,
           \A i \in 1..size : f[i] \in Nat /\ f[i] < a /\ \A j \in 1..(i - 1) : f[j] < f[i],
           \A i \in 1..(size + n) : g[i] = IF i <= size THEN f[i] ELSE a + (i - size) - 1
    PROVE  \A i \in 1..(size + n) : g[i] \in Nat /\ g[i] < a + n /\ \A j \in 1..(i - 1) : g[j] < g[i]
<1> SUFFICES ASSUME NEW i \in 1..(size + n)
             PROVE  g[i] \in Nat /\ g[i] < a + n /\ \A j \in 1..(i - 1) : g[j] < g[i]
  OBVIOUS
<1>1. CASE i <= size
  <2>1. i \in 1..size /\ g[i] = f[i]
    BY <1>1
  <2>2. f[i] \in Nat /\ f[i] < a /\ \A j \in 1..(i - 1) : f[j] < f[i]
    BY <2>1
  <2>3. \A j \in 1..(i - 1) : j \in 1..(size + n) /\ j <= size
    BY <2>1
  <2>4. \A j \in 1..(i - 1) : g[j] = f[j]
    BY <2>3
  <2> QED
    BY <2>1, <2>2, <2>4
<1>2. CASE i > size
  <2>1. g[i] = a + (i - size) - 1
    BY <1>2
  <2>2. ASSUME NEW j \in 1..(i - 1) PROVE g[j] < g[i]
    <3>1. j \in 1..(size + n) /\ j < i
      OBVIOUS
    <3>2. CASE j <= size
      <4>1. g[j] = f[j] /\ f[j] \in Nat /\ f[j] < a
        BY <3>1, <3>2
      <4> QED
        BY <1>2, <2>1, <4>1
    <3>3. CASE j > size
      BY <2>1, <3>1, <3>3
    <3> QED
      BY <3>2, <3>3
  <2> QED
    BY <1>2, <2>1, <2>2
<1> QED
  BY <1>1, <1>2

LEMMA FlushLoopStep ==
    ASSUME SinkInv, NEW c \in Callers, FlushLoop(c)
    PROVE  SinkInv'
<1>1. SinkTypes /\ TypeOK /\ Positions /\ Apart /\ Unraced
  BY DEF SinkInv, SinkTypes
<1> DEFINE r == call[c].r
           w == call[c].w
           chunk == Chunk(c)
<1>2. /\ call[c].pc = "flushLoop" /\ r < w /\ call' = [call EXCEPT ![c].r = @ + chunk]
      /\ UNCHANGED <<buffer, writePos, readPos, dropped, flushing, begun, nested, stack, raced>>
  BY DEF FlushLoop, CallerAt, ring, counters, calls
<1>3. /\ call[c] \in Calls /\ readPos \in Nat /\ writePos \in Nat /\ r \in Nat /\ w \in Nat
      /\ buffer \in [0..(Capacity - 1) -> Bytes] /\ file \in Seq(Bytes) /\ Len(file) \in Nat
  BY <1>1, TypeParts, CallFields, OldTypes, LenProperties
<1>4. chunk \in Nat \ {0} /\ r + chunk <= w
  BY <1>1, <1>2, ChunkFits
<1>4a. \A i \in 1..chunk : /\ (r % Capacity) + i - 1 \in 0..(Capacity - 1)
                           /\ (r % Capacity) + i - 1 = (r + i - 1) % Capacity
  BY <1>1, <1>2, ChunkFits
<1>5. PICK n \in 0..chunk :
          /\ file' = file \o [i \in 1..n |-> buffer[(r % Capacity) + i - 1]]
          /\ failed' = (failed \/ n < chunk)
  BY DEF FlushLoop
<1> DEFINE bytes == [i \in 1..n |-> buffer[(r % Capacity) + i - 1]]
<1>6. n \in Nat /\ n <= chunk
  BY <1>4, <1>5
<1>7. bytes \in Seq(Bytes) /\ Len(bytes) = n
  <2>1. ASSUME NEW i \in 1..n PROVE bytes[i] \in Bytes
    <3>1. i \in 1..chunk
      BY <1>4, <1>6
    <3>2. (r % Capacity) + i - 1 \in 0..(Capacity - 1)
      BY <1>4a, <3>1
    <3> QED
      BY <1>3, <3>2
  <2>2. bytes \in [1..n -> Bytes]
    BY <2>1
  <2> QED
    BY <1>6, <2>2, LenProperties
<1> HIDE DEF bytes
<1>8. /\ file' \in Seq(Bytes) /\ Len(file') = Len(file) + n
      /\ \A i \in 1..(Len(file) + n) : file'[i] = IF i <= Len(file) THEN file[i] ELSE bytes[i - Len(file)]
  BY <1>3, <1>5, <1>7, ConcatProperties DEF bytes
<1>9. /\ Moved(c) /\ call'[c].pc = "flushLoop" /\ call'[c].w = w /\ call'[c].r = r + chunk /\ call'[c].copied = 0
  <2>1. PICK k : k = [call[c] EXCEPT !.r = r + chunk]
    OBVIOUS
  <2>2. call' = [call EXCEPT ![c] = k]
    BY <1>1, <1>2, <2>1, TypeParts
  <2>3. r + chunk \in Nat
    BY <1>3, <1>4
  <2>4. k \in Calls /\ k.pc = "flushLoop" /\ k.w = w /\ k.r = r + chunk /\ k.copied = call[c].copied
    BY <1>2, <1>3, <2>1, <2>3, ROfCall
  <2>5. call[c].copied = 0
    BY <1>1, <1>2 DEF Positions, Copying
  <2> QED
    BY <1>1, <2>2, <2>4, <2>5, OneCall DEF Moved
<1>10. \A d \in Callers \ {c} : /\ call'[d] = call[d] /\ End(d)' = End(d) /\ Length(d)' = Length(d)
                                /\ Reserved(d)' = Reserved(d) /\ Copying(d)' = Copying(d)
  BY <1>9, OthersReserved DEF Moved
<1>11. SinkTypes'
  <2>1. failed' \in BOOLEAN
    BY <1>1, <1>5, OldTypes DEF Rest
  <2> QED
    BY <1>1, <1>2, <1>3, <1>8, <1>9, <2>1, NewTypes, OldTypes DEF Rest
<1>12. Positions' /\ Apart'
  <2>1. Positions'
    BY <1>1, <1>2, <1>9, <1>10 DEF Positions, Copying
  <2>2. Apart'
    BY <1>1, <1>2, <1>9, <1>10 DEF Apart, Copying
  <2> QED
    BY <2>1, <2>2
<1>13. ASSUME ~raced PROVE Ring' /\ OneFlush' /\ Flushed'
  <2>1. Ring /\ OneFlush /\ Flushed
    BY <1>1, <1>13 DEF Unraced
  <2>2. readPos <= r /\ w <= writePos /\ UpTo(r)
    BY <1>1, <1>2, <2>1 DEF OneFlush, Flushed, Positions
  <2>3. ASSUME NEW p \in readPos..(writePos - 1) PROVE Held(p)'
    <3>1. Held(p)
      BY <2>1 DEF Ring
    <3>2. \A d \in Callers : p \in Reserved(d) => p \in Reserved(d)'
      BY <1>2, <1>10 DEF Reserved
    <3> QED
      BY <1>2, <3>1, <3>2 DEF Held
  <2>4. Ring'
    BY <1>2, <1>9, <1>10, <2>1, <2>3 DEF Ring, Copying
  <2>5. OneFlush'
    BY <1>2, <1>3, <1>4, <1>9, <1>10, <2>1, <2>2 DEF OneFlush, InFlush, Copying
  <2>6. ASSUME NEW i \in 1..n PROVE bytes[i] = r + i - 1
    <3>1. r + i - 1 \in readPos..(writePos - 1) /\ r + i - 1 < w /\ i \in 1..chunk
      <4>1. readPos \in Nat /\ writePos \in Nat /\ r \in Nat /\ w \in Nat /\ chunk \in Nat
        BY <1>3, <1>4
      <4> HIDE DEF r, w, chunk
      <4>2. readPos <= r /\ r + chunk <= w /\ w <= writePos
        BY <1>4, <2>2
      <4> QED
        BY <4>1, <4>2, TurnInRing
    <3>2. \A d \in Callers : r + i - 1 \notin Reserved(d)
      <4> SUFFICES ASSUME NEW d \in Callers, Copying(d) PROVE r + i - 1 \notin Reserved(d)
        BY DEF Reserved, Copying
      <4>1. w <= call[d].w /\ call[d].w \in Nat /\ call[d].copied \in Nat
        BY <1>1, <1>2, <2>1, TypeParts, CallFields DEF OneFlush, InFlush
      <4>2. r + i - 1 < call[d].w /\ r + i - 1 \in Int /\ call[d].w <= call[d].w + call[d].copied
        <5>1. r \in Nat /\ i \in Nat
          BY <1>3, <1>6
        <5>2. r + i - 1 < w /\ w \in Nat
          BY <1>3, <3>1
        <5> HIDE DEF r, w
        <5> QED
          BY <4>1, <5>1, <5>2
      <4>3. \A q \in Reserved(d) : q \in Int /\ q >= call[d].w + call[d].copied
        BY <1>3, <4>1, TypeParts, LengthPositive DEF Reserved, Copying, SinkInv, SinkTypes
      <4> QED
        BY <4>1, <4>2, <4>3
    <3>3. Held(r + i - 1)
      BY <2>1, <3>1 DEF Ring
    <3>4. buffer[(r + i - 1) % Capacity] = r + i - 1
      BY <3>2, <3>3 DEF Held
    <3> QED
      BY <1>4a, <3>1, <3>4 DEF bytes
  <2>7. \A i \in 1..(Len(file) + n) : file'[i] = IF i <= Len(file) THEN file[i] ELSE r + (i - Len(file)) - 1
    <3> SUFFICES ASSUME NEW i \in 1..(Len(file) + n), i > Len(file) PROVE bytes[i - Len(file)] = r + (i - Len(file)) - 1
      BY <1>8
    <3>1. i - Len(file) \in 1..n
      BY <1>3, <1>6
    <3> QED
      BY <2>6, <3>1
  <2>8. \A i \in 1..Len(file) : file[i] \in Nat /\ file[i] < r /\ \A j \in 1..(i - 1) : file[j] < file[i]
    BY <2>1, <2>2 DEF Flushed, UpTo
  <2>9. \A i \in 1..(Len(file) + n) :
            file'[i] \in Nat /\ file'[i] < r + n /\ \A j \in 1..(i - 1) : file'[j] < file'[i]
    BY <1>3, <1>6, <2>7, <2>8, GrowsInOrder
  <2>10. (\A i \in 1..Len(file') : file'[i] < r + chunk) /\ (~failed' => Len(file') = r + chunk)
    <3>1. r \in Nat /\ n \in Nat /\ chunk \in Nat /\ n <= chunk
      BY <1>3, <1>4, <1>6
    <3>2. \A i \in 1..Len(file') : file'[i] < r + chunk
      BY <1>8, <2>9, <3>1
    <3>3. ~failed' => Len(file) = r /\ n = chunk
      <4> SUFFICES ASSUME ~failed' PROVE Len(file) = r /\ n = chunk
        OBVIOUS
      <4>1. ~failed /\ ~(n < chunk)
        BY <1>5
      <4>2. n = chunk
        BY <3>1, <4>1
      <4> QED
        BY <2>2, <4>1, <4>2 DEF UpTo
    <3> QED
      BY <1>8, <3>2, <3>3
  <2>11. \A d \in Callers : call'[d].pc = "flushLoop" => call'[d].r = r + chunk
    BY <1>2, <1>9, <1>10, <2>1 DEF OneFlush, InFlush
  <2>12. Flushed'
    BY <1>8, <1>9, <2>9, <2>10, <2>11 DEF Flushed, UpTo
  <2> QED
    BY <2>4, <2>5, <2>12
<1> QED
  BY <1>1, <1>2, <1>11, <1>12, <1>13 DEF SinkInv, Unraced

-----------------------------------------------------------------------------
(* The theorems.                                                           *)

LEMMA SinkInit == SignalInit => SinkInv
<1> SUFFICES ASSUME SignalInit PROVE SinkInv
  OBVIOUS
<1>1. \A c \in Callers : call[c] = NoCall
  BY DEF SignalInit
<1>2. call \in [Callers -> Calls]
  BY NoCallFields DEF SignalInit
<1>3. file = << >> /\ file \in Seq(Bytes) /\ Len(file) = 0
  BY DEF SignalInit
<1>4. stack \in Seq(Callers)
  BY DEF SignalInit
<1>5. buffer \in [0..(Capacity - 1) -> Bytes]
  BY DEF SignalInit, Bytes
<1>6. SinkTypes
  <2>1. \A i \in 1..Len(file) : file[i] \in Nat \cup {Garbage}
    BY <1>3
  <2>2. writePos \in Nat /\ readPos \in Nat /\ dropped \in Nat /\ begun \in 0..MaxCalls /\ nested \in Modes
    BY MaxCallsAssumption DEF SignalInit
  <2>3. flushing \in BOOLEAN /\ raced \in BOOLEAN /\ failed \in BOOLEAN
    BY DEF SignalInit
  <2> QED
    BY <1>2, <1>3, <1>4, <1>5, <2>1, <2>2, <2>3 DEF SinkTypes, TypeOK, Calls, Bytes
<1>7. Positions /\ Apart
  BY <1>1, NoCallFields DEF Positions, Apart, Copying
<1>8. Ring
  BY <1>1, NoCallFields, CapacityAssumption DEF SignalInit, Ring, Copying
<1>9. OneFlush
  BY <1>1, NoCallFields DEF OneFlush, InFlush
<1>10. Flushed
  BY <1>1, <1>3, NoCallFields DEF SignalInit, Flushed, UpTo
<1> QED
  BY <1>6, <1>7, <1>8, <1>9, <1>10 DEF SinkInv, Unraced

LEMMA SinkStep == SinkInv /\ [SignalNext]_signalVars => SinkInv'
<1> SUFFICES ASSUME SinkInv, [SignalNext]_signalVars PROVE SinkInv'
  OBVIOUS
<1>1. CASE UNCHANGED signalVars
  <2>1. UNCHANGED <<buffer, writePos, readPos, dropped, flushing, file, call, begun, nested, stack, raced, failed>>
    BY <1>1 DEF signalVars, ring, counters, calls, ghosts
  <2>2. SinkTypes'
    BY <2>1 DEF SinkInv, SinkTypes, TypeOK
  <2>3. Positions' /\ Apart'
    BY <2>1 DEF SinkInv, Positions, Apart, Copying, End, Length
  <2>4. Ring => Ring'
    BY <2>1 DEF Ring, Held, Reserved, Copying, End, Length
  <2>5. (OneFlush => OneFlush') /\ (Flushed => Flushed')
    BY <2>1 DEF OneFlush, InFlush, Copying, Flushed, UpTo
  <2> QED
    BY <2>1, <2>2, <2>3, <2>4, <2>5 DEF SinkInv, Unraced
<1>2. ASSUME NEW c \in Callers, Step(c) PROVE SinkInv'
  BY <1>2, LoadSteps, LoadReadStep, FlagSteps, ReserveStep, CopyStep, SizeReadStep,
     FlushWriteStep, FlushReadStep, FlushLoopStep, FlushStoreStep DEF Step
<1> QED
  BY <1>1, <1>2, BeginSteps DEF SignalNext

LEMMA SinkAlways == SignalSpec => []SinkInv
  BY SinkInit, SinkStep, PTL DEF SignalSpec

\* However log(), flush() and the handlers interleave, the variables keep their
\* types, each byte reserved belongs to one caller, and until a flush begins
\* beside another one or beside a copy the ring keeps every byte not flushed.
THEOREM RingStaysIntact == SignalSpec => []RingIntact
<1>1. SinkInv => RingIntact
  <2> SUFFICES ASSUME SinkInv PROVE RingIntact
    OBVIOUS
  <2>1. \A c \in Callers : call[c].w \in Nat /\ call[c].copied \in Nat /\ Length(c) \in Nat \ {0}
    BY TypeParts, CallFields, LengthPositive DEF SinkInv, SinkTypes
  <2>2. writePos \in Nat
    BY TypeParts DEF SinkInv, SinkTypes
  <2>3. \A c \in Callers : \A p \in Reserved(c) : Copying(c) /\ p \in call[c].w..(End(c) - 1)
    BY <2>1 DEF Reserved, Copying, End
  <2>4. \A c \in Callers : End(c) \in Nat /\ (Copying(c) => End(c) <= writePos)
    <3>1. ASSUME NEW c \in Callers PROVE End(c) \in Nat
      <4>1. call[c].w \in Nat /\ Length(c) \in Nat
        BY <2>1
      <4> QED
        BY <4>1 DEF End
    <3> QED
      BY <3>1 DEF SinkInv, Positions
  <2>5. \A c \in Callers : \A p \in Reserved(c) : p < writePos
    BY <2>1, <2>2, <2>3, <2>4
  <2>6. ASSUME NEW c \in Callers, NEW d \in Callers, c # d PROVE Reserved(c) \cap Reserved(d) = {}
    <3>1. Copying(c) /\ Copying(d) => End(c) <= call[d].w \/ End(d) <= call[c].w
      BY <2>6 DEF SinkInv, Apart
    <3> QED
      BY <2>1, <2>3, <2>4, <3>1
  <2>7. ASSUME ~raced, NEW p \in readPos..(writePos - 1)
        PROVE  p \in UNION {Reserved(c) : c \in Callers} \/ buffer[p % Capacity] = p
    <3>1. Held(p)
      BY <2>7 DEF SinkInv, Unraced, Ring
    <3> QED
      BY <3>1 DEF Held
  <2>8. ~raced => readPos <= writePos /\ writePos - readPos <= Capacity
    BY DEF SinkInv, Unraced, Ring
  <2> QED
    BY <2>5, <2>6, <2>7, <2>8 DEF RingIntact, ReservedOnce, SinkInv, SinkTypes
<1> QED
  BY <1>1, SinkAlways, PTL

\* The file gets each byte once and in order, and all that is flushed unless a
\* write failed, until a flush begins beside another one or beside a copy.
THEOREM FileStaysExact == SignalSpec => []FileExact
<1>1. SinkInv => FileExact
  <2> SUFFICES ASSUME SinkInv, ~raced PROVE InOrderOnce /\ (~failed /\ (\A c \in Callers : ~InFlush(c)) => Len(file) = readPos)
    BY DEF FileExact
  <2>1. Flushed
    BY DEF SinkInv, Unraced
  <2>2. InOrderOnce
    BY <2>1, GarbageAssumption DEF Flushed, InOrderOnce
  <2>3. ~failed /\ (\A c \in Callers : ~InFlush(c)) => Len(file) = readPos
    BY <2>1 DEF Flushed, UpTo, InFlush
  <2> QED
    BY <2>2, <2>3
<1> QED
  BY <1>1, SinkAlways, PTL
=============================================================================
