------------------------- MODULE RotatingFileProofs -------------------------
(***************************************************************************)
(* Proofs about RotatingFile and CompressedFile: the order of the files,   *)
(* which bytes they keep and how many, for every number and size of        *)
(* files, every failure of a rename, a compression or an open that the     *)
(* models allow, and every number of crashes.                              *)
(***************************************************************************)
EXTENDS RotatingFile, CompressedFile, FiniteSetTheorems, TLAPS

\* Only bytes logged so far are in a file or on their way to one.
OnlyLogged == Stored \subseteq 1..rotLogged

\* Without failures the index that a cascade is about to fill is free, except
\* the last one.
GapFollows ==
    rotPc = "shift" /\ rotIndex < MaxFiles /\ ~rotFailed => rotated[rotIndex] = {}

RotInv == RotTypeOK /\ FilesOrdered /\ OnlyLogged

-----------------------------------------------------------------------------
(* The initial states.                                                     *)

LEMMA RotInitInv == RotInit => RotInv /\ GapFollows /\ NewestKept
<1> SUFFICES ASSUME RotInit PROVE RotInv /\ GapFollows /\ NewestKept
  OBVIOUS
<1> USE RotMaxFilesAssumption DEF RotInit, Indices
<1>1. Stored = {}
  BY DEF Stored
<1>2. RotTypeOK
  <2>1. {} \in SUBSET Nat
    OBVIOUS
  <2>2. rotated \in [Indices -> SUBSET Nat]
    BY <2>1
  <2>3. rotIndex \in Indices /\ rotSize \in Nat /\ rotLogged \in Nat /\ rotCrashes \in Nat
    OBVIOUS
  <2>4. rotPc \in {"idle", "close", "shift", "open", "down"} /\ rotOpen \in BOOLEAN /\ rotFailed \in BOOLEAN
    OBVIOUS
  <2>5. current \in SUBSET Nat /\ buffered \in SUBSET Nat /\ rotLost \in SUBSET Nat
    OBVIOUS
  <2> QED
    BY <2>2, <2>3, <2>4, <2>5 DEF RotTypeOK
<1>3. FilesOrdered /\ OnlyLogged
  BY <1>1 DEF FilesOrdered, OnlyLogged
<1>4. GapFollows /\ NewestKept
  BY <1>1 DEF GapFollows, NewestKept
<1> QED
  BY <1>2, <1>3, <1>4 DEF RotInv

-----------------------------------------------------------------------------
(* The types, action by action.                                            *)

\* The size of a file is a number because a file has finitely many bytes.
LEMMA CurrentFinite == RotTypeOK /\ OnlyLogged => Cardinality(current) \in Nat
<1> SUFFICES ASSUME RotTypeOK, OnlyLogged PROVE Cardinality(current) \in Nat
  OBVIOUS
<1>1. IsFiniteSet(1..rotLogged)
  BY FS_Interval DEF RotTypeOK
<1>2. current \subseteq 1..rotLogged
  BY DEF OnlyLogged, Stored
<1> QED
  BY <1>1, <1>2, FS_Subset, FS_CardinalityType

\* A flush moves what comes first.
LEMMA FlushMeans ==
    ASSUME RotTypeOK, RotFlush
    PROVE  /\ UNCHANGED <<rotPc, rotIndex, rotated, rotOpen, rotSize, rotGhosts>>
           /\ current' \cup buffered' = current \cup buffered
           /\ current' \in SUBSET Nat /\ current \subseteq current' /\ buffered' \subseteq buffered
           /\ \A b \in current', c \in buffered' : b \in current \/ b < c
<1>1. PICK last \in buffered : /\ current' = current \cup {b \in buffered : b <= last}
                               /\ buffered' = buffered \ {b \in buffered : b <= last}
  BY DEF RotFlush
<1>2. last \in Nat /\ buffered \in SUBSET Nat /\ current \in SUBSET Nat
  BY DEF RotTypeOK
<1>3. current' \cup buffered' = current \cup buffered
  BY <1>1
<1>4. current' \in SUBSET Nat /\ current \subseteq current' /\ buffered' \subseteq buffered
  BY <1>1, <1>2
<1>5. ASSUME NEW b \in current', NEW c \in buffered', b \notin current PROVE b < c
  <2>1. b <= last /\ b \in Nat /\ c \in Nat /\ ~(c <= last)
    BY <1>1, <1>2, <1>5
  <2> QED
    BY <1>2, <2>1
<1> QED
  BY <1>3, <1>4, <1>5 DEF RotFlush

LEMMA RotTypeStep == RotInv /\ [RotNext]_rotVars => RotTypeOK'
<1> SUFFICES ASSUME RotInv, [RotNext]_rotVars PROVE RotTypeOK'
  OBVIOUS
<1> USE RotMaxFilesAssumption DEF RotInv, RotTypeOK, Indices
<1>1. CASE RotFlush
  BY <1>1, FlushMeans DEF rotGhosts
<1>2. CASE \E s \in LineSizes : RotLog(s)
  <2>1. PICK s \in LineSizes : RotLog(s)
    BY <1>2
  <2>2. /\ rotLogged' \in Nat /\ rotSize' \in Nat /\ rotPc' \in {"close", "idle"}
        /\ Line(s) \in SUBSET Nat
    BY <2>1, LineSizesAssumption DEF RotLog, Line
  <2>3. buffered' \in SUBSET Nat /\ rotLost' \in SUBSET Nat
    BY <2>1, <2>2 DEF RotLog
  <2> QED
    BY <2>1, <2>2, <2>3 DEF RotLog
<1>3. CASE RotClose
  <2>1. current' \in SUBSET Nat /\ buffered' \in SUBSET Nat
    BY <1>3 DEF RotClose
  <2>2. rotIndex' \in Indices /\ rotPc' = "shift" /\ rotOpen' = FALSE
    BY <1>3 DEF RotClose, FirstIndex
  <2> QED
    BY <1>3, <2>1, <2>2 DEF RotClose, rotGhosts
<1>4. CASE Shift
  <2>1. rotIndex \in Indices /\ rotIndex - 1 \in Indices
    BY <1>4 DEF Shift
  <2>2. rotated' \in [Indices -> SUBSET Nat]
    <3>1. {} \in SUBSET Nat /\ rotated[rotIndex - 1] \in SUBSET Nat
      BY <2>1
    <3> QED
      BY <1>4, <2>1, <3>1 DEF Shift
  <2>3. rotIndex' \in Indices /\ rotFailed' \in BOOLEAN
    BY <1>4, <2>1 DEF Shift
  <2> QED
    BY <1>4, <2>2, <2>3 DEF Shift
<1>5. CASE ShiftCurrent
  BY <1>5 DEF ShiftCurrent
<1>6. CASE Open
  BY <1>6, CurrentFinite DEF Open, rotGhosts
<1>7. CASE Crash
  <2>1. rotLost' \in SUBSET Nat /\ buffered' \in SUBSET Nat /\ rotCrashes' \in Nat
    BY <1>7 DEF Crash
  <2> QED
    BY <1>7, <2>1 DEF Crash
<1>8. CASE Restart
  BY <1>8 DEF Restart, rotGhosts
<1>9. CASE UNCHANGED rotVars
  BY <1>9 DEF rotVars, rotFile, rotGhosts
<1> QED
  BY <1>1, <1>2, <1>3, <1>4, <1>5, <1>6, <1>7, <1>8, <1>9 DEF RotNext

-----------------------------------------------------------------------------
(* The order of the files and their messages.                              *)

\* The steps that leave the messages of the rotated files where they are.
LEMMA OrderOfCurrent ==
    ASSUME RotInv, UNCHANGED <<rotated, rotLogged>>,
           current' \cup buffered' \subseteq current \cup buffered,
           \A b \in current', c \in buffered' : (b \in current /\ c \in buffered) \/ b < c
    PROVE  (FilesOrdered /\ OnlyLogged)'
<1> USE DEF RotInv
<1>1. FilesOrdered'
  BY DEF FilesOrdered, Indices
<1>2. OnlyLogged'
  BY DEF OnlyLogged, Stored, Indices
<1> QED
  BY <1>1, <1>2

LEMMA OrderOfLog ==
    ASSUME RotInv, NEW s \in LineSizes, RotLog(s)
    PROVE  (FilesOrdered /\ OnlyLogged)'
<1> USE DEF RotInv
<1>1. /\ UNCHANGED <<rotated, current>>
      /\ rotLogged' = rotLogged + s /\ rotLogged \in Nat /\ s \in Nat
      /\ buffered' \subseteq buffered \cup Line(s)
  BY LineSizesAssumption DEF RotLog, RotTypeOK
<1>2. Stored' \subseteq Stored \cup Line(s)
  BY <1>1 DEF Stored, Indices
<1>3. \A n \in Stored : n \in Nat /\ \A m \in Line(s) : n < m
  BY <1>1 DEF OnlyLogged, Line
<1>4. OnlyLogged'
  BY <1>1, <1>2 DEF OnlyLogged, Line
<1>5. \A i \in Indices : rotated[i] \subseteq Stored
  BY DEF Stored
<1>6. current \cup buffered \subseteq Stored
  BY DEF Stored
<1>7. FilesOrdered'
  BY <1>1, <1>3, <1>5, <1>6 DEF FilesOrdered, Indices
<1> QED
  BY <1>4, <1>7

\* A file moves one index up, into a free place or over an older one.
LEMMA OrderOfShift == RotInv /\ Shift => (FilesOrdered /\ OnlyLogged)'
<1> SUFFICES ASSUME RotInv, Shift PROVE (FilesOrdered /\ OnlyLogged)'
  OBVIOUS
<1> USE RotMaxFilesAssumption DEF RotInv
<1> DEFINE k == rotIndex
<1>1. /\ k \in Indices /\ k - 1 \in Indices /\ k \in Nat /\ k > 0
      /\ UNCHANGED <<current, buffered, rotLogged>>
      /\ \/ rotated' = [rotated EXCEPT ![k] = rotated[k - 1], ![k - 1] = {}]
         \/ UNCHANGED rotated
  BY DEF Shift, RotTypeOK, Indices
<1>2. CASE UNCHANGED rotated
  BY <1>1, <1>2, OrderOfCurrent
<1>3. CASE rotated' = [rotated EXCEPT ![k] = rotated[k - 1], ![k - 1] = {}]
  <2>1. \A i \in Indices :
           rotated'[i] = IF i = k THEN rotated[k - 1] ELSE IF i = k - 1 THEN {} ELSE rotated[i]
    BY <1>1, <1>3 DEF RotTypeOK
  <2>2. FilesOrdered'
    BY <1>1, <2>1 DEF FilesOrdered, Indices
  <2>3. Stored' \subseteq Stored
    BY <1>1, <2>1 DEF Stored
  <2> QED
    BY <1>1, <2>2, <2>3 DEF OnlyLogged
<1> QED
  BY <1>1, <1>2, <1>3

\* The current file takes the lowest index: it is newer than all others.
LEMMA OrderOfShiftCurrent == RotInv /\ ShiftCurrent => (FilesOrdered /\ OnlyLogged)'
<1> SUFFICES ASSUME RotInv, ShiftCurrent PROVE (FilesOrdered /\ OnlyLogged)'
  OBVIOUS
<1> USE RotMaxFilesAssumption DEF RotInv
<1>1. UNCHANGED <<buffered, rotLogged>>
  BY DEF ShiftCurrent
<1>2. CASE UNCHANGED <<rotated, current>>
  BY <1>1, <1>2, OrderOfCurrent
<1>3. CASE rotated' = [rotated EXCEPT ![0] = current] /\ current' = {}
  <2>1. \A i \in Indices : rotated'[i] = IF i = 0 THEN current ELSE rotated[i]
    BY <1>3 DEF RotTypeOK
  <2>2. FilesOrdered'
    BY <1>1, <1>3, <2>1 DEF FilesOrdered, Indices
  <2>3. Stored' \subseteq Stored
    BY <1>1, <1>3, <2>1 DEF Stored
  <2> QED
    BY <1>1, <2>2, <2>3 DEF OnlyLogged
<1> QED
  BY <1>2, <1>3 DEF ShiftCurrent

LEMMA RotInvStep == RotInv /\ [RotNext]_rotVars => RotInv'
<1> SUFFICES ASSUME RotInv, [RotNext]_rotVars PROVE (FilesOrdered /\ OnlyLogged)'
  BY RotTypeStep DEF RotInv
<1>0. CASE RotFlush
  <2>1. \A b \in current', c \in buffered' : (b \in current /\ c \in buffered) \/ b < c
    BY <1>0, FlushMeans DEF RotInv
  <2> QED
    BY <1>0, <2>1, FlushMeans, OrderOfCurrent DEF RotInv, rotGhosts
<1>1. CASE RotClose \/ Open \/ Crash \/ Restart \/ UNCHANGED rotVars
  BY <1>1, OrderOfCurrent
  DEF RotClose, Open, Crash, Restart, rotVars, rotFile, rotGhosts
<1> QED
  BY <1>0, <1>1, OrderOfLog, OrderOfShift, OrderOfShiftCurrent DEF RotNext

\* Every variable of the sink keeps its type.
THEOREM RotTypeCorrect == RotSpec => []RotTypeOK
<1>1. RotInit => RotInv
  BY RotInitInv
<1>2. RotInv => RotTypeOK
  BY DEF RotInv
<1> QED
  BY <1>1, <1>2, RotInvStep, PTL DEF RotSpec

\* The order of the indices and of the current file is the order of the
\* messages, whatever renames fail and wherever the process dies.
THEOREM FilesOrderedAlways == RotSpec => []FilesOrdered
<1>1. RotInit => RotInv
  BY RotInitInv
<1>2. RotInv => FilesOrdered
  BY DEF RotInv
<1> QED
  BY <1>1, <1>2, RotInvStep, PTL DEF RotSpec

-----------------------------------------------------------------------------
(* Retention.                                                              *)

NewestInv == RotInv /\ GapFollows /\ NewestKept

\* What is not stored any more was lost before it was written.
LEMMA NothingDropped ==
    ASSUME NewestInv, rotLogged' = rotLogged, ~rotFailed' => ~rotFailed,
           Stored' \subseteq Stored, Stored \cup rotLost \subseteq Stored' \cup rotLost'
    PROVE  NewestKept'
  BY DEF NewestInv, NewestKept

\* What a step overwrites is older than all that stays.
LEMMA OldestDropped ==
    ASSUME NewestInv, UNCHANGED <<rotLogged, rotLost>>, ~rotFailed' => ~rotFailed,
           NEW old \in SUBSET Nat,
           Stored' \subseteq Stored, Stored \subseteq Stored' \cup old,
           \A m \in Stored', n \in old : n < m
    PROVE  NewestKept'
<1> SUFFICES ASSUME ~rotFailed', NEW m \in Stored', NEW n \in m..rotLogged
             PROVE  n \in Stored' \cup rotLost
  BY DEF NewestKept
<1>1. m \in Nat /\ n \in Nat /\ m <= n
  BY DEF NewestInv, RotInv, OnlyLogged, RotTypeOK
<1>2. n \in Stored \cup rotLost
  BY DEF NewestInv, NewestKept
<1>3. n \notin old
  BY <1>1
<1> QED
  BY <1>2, <1>3

LEMMA NewestAfterLog ==
    ASSUME NewestInv, NEW s \in LineSizes, RotLog(s)
    PROVE  (GapFollows /\ NewestKept)'
<1>1. GapFollows'
  BY DEF RotLog, GapFollows
<1>2. /\ UNCHANGED <<current, rotated, rotFailed>> /\ rotLogged \in Nat /\ s \in Nat
      /\ rotLogged' = rotLogged + s
      /\ \/ buffered' = buffered \cup Line(s) /\ rotLost' = rotLost
         \/ buffered' = buffered /\ rotLost' = rotLost \cup Line(s)
  BY LineSizesAssumption DEF RotLog, NewestInv, RotInv, RotTypeOK
<1>3. \/ Stored' = Stored \cup Line(s) /\ rotLost' = rotLost
      \/ Stored' = Stored /\ rotLost' = rotLost \cup Line(s)
  BY <1>2 DEF Stored, Indices
<1>4. Stored \subseteq 1..rotLogged
  BY DEF NewestInv, RotInv, OnlyLogged
<1>5. ASSUME ~rotFailed, NEW m \in Stored', NEW n \in m..rotLogged'
      PROVE  n \in Stored' \cup rotLost'
  <2>0. m \in Nat
    <3>1. m \in Stored \/ m \in Line(s)
      BY <1>3, <1>5
    <3>2. m \in Stored => m \in Nat
      BY <1>2, <1>4
    <3>3. m \in Line(s) => m \in Nat
      BY <1>2 DEF Line
    <3> QED
      BY <3>1, <3>2, <3>3
  <2>1. m \in Nat /\ n \in Nat /\ m <= n
    BY <1>2, <1>5, <2>0
  <2>2. CASE n > rotLogged
    BY <1>2, <1>3, <1>5, <2>1, <2>2 DEF Line
  <2>3. CASE n <= rotLogged
    <3>0. m \notin Line(s)
      BY <1>2, <2>1, <2>3 DEF Line
    <3>1. m \in Stored /\ n \in m..rotLogged
      BY <1>2, <1>3, <1>5, <2>1, <2>3, <3>0
    <3> QED
      BY <1>3, <1>5, <3>1 DEF NewestInv, NewestKept
  <2> QED
    BY <1>2, <2>1, <2>2, <2>3
<1> QED
  BY <1>1, <1>2, <1>5 DEF NewestKept

LEMMA NewestAfterShift == NewestInv /\ Shift => (GapFollows /\ NewestKept)'
<1> SUFFICES ASSUME NewestInv, Shift PROVE (GapFollows /\ NewestKept)'
  OBVIOUS
<1> USE RotMaxFilesAssumption
<1> DEFINE k == rotIndex
<1>1. /\ k \in Indices /\ k - 1 \in Indices /\ k \in Nat /\ rotIndex' = k - 1 /\ rotPc = "shift"
      /\ UNCHANGED <<current, buffered, rotLogged, rotLost>>
      /\ rotated \in [Indices -> SUBSET Nat] /\ rotFailed \in BOOLEAN
  BY DEF Shift, NewestInv, RotInv, RotTypeOK, Indices
<1>2. CASE rotated[k - 1] = {} /\ UNCHANGED <<rotated, rotFailed>>
  <2>1. Stored' = Stored
    BY <1>1, <1>2 DEF Stored
  <2> QED
    BY <1>1, <1>2, <2>1, NothingDropped DEF GapFollows
<1>3. CASE UNCHANGED rotated /\ rotFailed'
  BY <1>3 DEF GapFollows, NewestKept
<1>4. CASE rotated' = [rotated EXCEPT ![k] = rotated[k - 1], ![k - 1] = {}] /\ UNCHANGED rotFailed
  <2>1. \A i \in Indices :
           rotated'[i] = IF i = k THEN rotated[k - 1] ELSE IF i = k - 1 THEN {} ELSE rotated[i]
    BY <1>1, <1>4
  <2>2. k # k - 1
    BY <1>1
  <2>3. GapFollows'
    BY <1>1, <2>1, <2>2 DEF GapFollows
  <2>4. Stored' \subseteq Stored
    BY <1>1, <2>1 DEF Stored
  <2>5. Stored \subseteq Stored' \cup rotated[k]
    <3> SUFFICES ASSUME NEW m \in Stored, m \notin rotated[k] PROVE m \in Stored'
      OBVIOUS
    <3>1. CASE m \in current \cup buffered
      BY <1>1, <3>1 DEF Stored
    <3>2. CASE \E i \in Indices : m \in rotated[i]
      <4>1. PICK i \in Indices : m \in rotated[i] /\ i # k
        BY <3>2
      <4>2. m \in rotated'[IF i = k - 1 THEN k ELSE i]
        BY <1>1, <2>1, <2>2, <4>1
      <4> QED
        BY <1>1, <4>1, <4>2 DEF Stored
    <3> QED
      BY <3>1, <3>2 DEF Stored
  <2>6. CASE rotFailed
    BY <1>4, <2>3, <2>6 DEF NewestKept
  <2>7. CASE ~rotFailed /\ k < MaxFiles
    <3>1. rotated[k] = {}
      BY <1>1, <2>7 DEF NewestInv, GapFollows
    <3> QED
      BY <1>1, <1>4, <2>3, <2>4, <2>5, <3>1, NothingDropped
  <2>8. CASE k = MaxFiles
    <3>1. \A m \in Stored', n \in rotated[k] : n < m
      <4> SUFFICES ASSUME NEW m \in Stored', NEW n \in rotated[k] PROVE n < m
        OBVIOUS
      <4>1. CASE m \in current \cup buffered
        BY <1>1, <4>1 DEF NewestInv, RotInv, FilesOrdered
      <4>2. CASE \E i \in Indices : m \in rotated'[i]
        <5>1. PICK i \in Indices : i < k /\ m \in rotated[i]
          BY <1>1, <2>1, <2>8, <4>2 DEF Indices
        <5> QED
          BY <1>1, <5>1 DEF NewestInv, RotInv, FilesOrdered
      <4> QED
        BY <1>1, <4>1, <4>2 DEF Stored
    <3>2. rotated[k] \in SUBSET Nat
      BY <1>1
    <3> QED
      BY <1>1, <1>4, <2>3, <2>4, <2>5, <3>1, <3>2, OldestDropped
  <2> QED
    BY <1>1, <2>6, <2>7, <2>8 DEF Indices
<1> QED
  BY <1>2, <1>3, <1>4 DEF Shift, Exists

LEMMA NewestAfterShiftCurrent == NewestInv /\ ShiftCurrent => (GapFollows /\ NewestKept)'
<1> SUFFICES ASSUME NewestInv, ShiftCurrent PROVE (GapFollows /\ NewestKept)'
  OBVIOUS
<1> USE RotMaxFilesAssumption
<1>1. /\ rotPc = "shift" /\ rotIndex = 0 /\ 0 \in Indices
      /\ UNCHANGED <<buffered, rotLogged, rotLost>>
      /\ rotated \in [Indices -> SUBSET Nat] /\ rotFailed \in BOOLEAN
  BY DEF ShiftCurrent, NewestInv, RotInv, RotTypeOK, Indices
<1>2. GapFollows'
  BY DEF ShiftCurrent, GapFollows
<1>3. CASE rotFailed' = TRUE
  BY <1>2, <1>3 DEF NewestKept
<1>4. CASE rotated' = [rotated EXCEPT ![0] = current] /\ current' = {} /\ UNCHANGED rotFailed
  <2>1. \A i \in Indices : rotated'[i] = IF i = 0 THEN current ELSE rotated[i]
    BY <1>1, <1>4
  <2>2. Stored' \subseteq Stored
    BY <1>1, <1>4, <2>1 DEF Stored
  <2>3. Stored \subseteq Stored' \cup rotated[0]
    BY <1>1, <1>4, <2>1 DEF Stored
  <2>4. CASE rotFailed
    BY <1>2, <1>4, <2>4 DEF NewestKept
  <2>5. CASE ~rotFailed /\ 0 < MaxFiles
    <3>1. rotated[0] = {}
      BY <1>1, <2>5 DEF NewestInv, GapFollows
    <3> QED
      BY <1>1, <1>2, <1>4, <2>2, <2>3, <3>1, NothingDropped
  <2>6. CASE MaxFiles = 0
    <3>1. Indices = {0}
      BY <2>6 DEF Indices
    <3>2. Stored' \subseteq current \cup buffered
      BY <1>1, <1>4, <2>1, <3>1 DEF Stored
    <3>3. \A m \in Stored', n \in rotated[0] : n < m
      BY <1>1, <3>2 DEF NewestInv, RotInv, FilesOrdered
    <3>4. rotated[0] \in SUBSET Nat
      BY <1>1
    <3> QED
      BY <1>1, <1>2, <1>4, <2>2, <2>3, <3>3, <3>4, OldestDropped
  <2> QED
    BY <2>4, <2>5, <2>6
<1> QED
  BY <1>3, <1>4 DEF ShiftCurrent

LEMMA NewestStep == NewestInv /\ [RotNext]_rotVars => NewestInv'
<1> SUFFICES ASSUME NewestInv, [RotNext]_rotVars PROVE (GapFollows /\ NewestKept)'
  BY RotInvStep DEF NewestInv
<1>1. CASE RotFlush \/ RotClose \/ Open \/ Restart \/ UNCHANGED rotVars
  <2>1. /\ UNCHANGED <<rotated, rotLogged, rotLost, rotFailed>>
        /\ current' \cup buffered' = current \cup buffered
    BY <1>1, FlushMeans DEF NewestInv, RotInv, RotClose, Open, Restart, rotVars, rotFile, rotGhosts
  <2>2. Stored' = Stored
    BY <2>1 DEF Stored, Indices
  <2>3. GapFollows'
    BY <1>1, RotMaxFilesAssumption
    DEF RotFlush, RotClose, Open, Restart, rotVars, rotFile, rotGhosts,
        NewestInv, GapFollows, FirstIndex
  <2> QED
    BY <2>1, <2>2, <2>3, NothingDropped
<1>2. CASE Crash
  <2>1. /\ UNCHANGED <<current, rotated, rotLogged, rotFailed>>
        /\ rotLost' = rotLost \cup buffered /\ buffered' = {}
    BY <1>2 DEF Crash
  <2>2. Stored' \subseteq Stored /\ Stored \cup rotLost \subseteq Stored' \cup rotLost'
    BY <2>1 DEF Stored, Indices
  <2> QED
    BY <1>2, <2>1, <2>2, NothingDropped DEF Crash, GapFollows
<1> QED
  BY <1>1, <1>2, NewestAfterLog, NewestAfterShift, NewestAfterShiftCurrent DEF RotNext

\* As long as no rename fails, rotation deletes nothing that is newer than
\* something it keeps, also when the process dies in a cascade.
THEOREM NewestKeptAlways == RotSpec => []NewestKept
<1>1. RotInit => NewestInv
  BY RotInitInv DEF NewestInv
<1>2. NewestInv => NewestKept
  BY DEF NewestInv
<1> QED
  BY <1>1, <1>2, NewestStep, PTL DEF RotSpec

\* What the rotation promises of its files: types, order and retention.
THEOREM FilesKeptAlways == RotSpec => []FilesKept
  BY RotTypeCorrect, FilesOrderedAlways, NewestKeptAlways, PTL DEF FilesKept
-----------------------------------------------------------------------------
(* How much is kept.                                                       *)

\* As many bytes as i full files hold at least.
Full(i) == i * MaxSize

\* The size of the current file, with what is on its way to it.
Pending ==
    IF rotPc \in {"close", "shift"} \/ (rotPc = "idle" /\ rotOpen) THEN rotSize ELSE 0

\* The current file holds the newest bytes and nothing else, and a rotation
\* finds it just filled.
CurrentNewest ==
    /\ current \cup buffered = (rotLogged - Pending + 1)..rotLogged
    /\ Pending <= rotLogged
    /\ rotPc = "idle" /\ rotOpen => rotSize < MaxSize
    /\ rotPc \in {"close", "shift"} => Filled(rotSize)
    /\ rotPc \in {"shift", "open"} => buffered = {}

\* Behind it come the rotated files, each after as many bytes as the files
\* before it hold when they are full.
FilesBehind ==
    \A i \in Indices : \A n \in rotated[i] :
        n + Full(i) <= IF rotPc = "shift" /\ i > rotIndex THEN rotLogged ELSE rotLogged - Pending

\* Everything is kept that max_files + 1 full files have room for behind the
\* current one, until a cascade begins.
NewestStored ==
    \A n \in 1..rotLogged :
        n > rotLogged - (IF rotPc = "shift" THEN 0 ELSE Pending) - Full(MaxFiles + 1) => n \in Stored

FilesFilled == \A i \in Indices : Exists(i) => Filled(Cardinality(rotated[i]))

Keeping == Undisturbed => CurrentNewest /\ FilesBehind /\ NewestStored /\ FilesFilled
LEMMA FullGrows ==
    /\ Full(0) = 0
    /\ \A i \in Nat : Full(i) \in Nat /\ Full(i + 1) = Full(i) + MaxSize
  BY RotMaxSizeAssumption DEF Full

\* The invariant where it speaks, with the types of all that it names.
LEMMA KeepingMeans ==
    ASSUME RotTypeOK, Keeping, Undisturbed
    PROVE  /\ CurrentNewest /\ FilesBehind /\ NewestStored /\ FilesFilled
           /\ Pending \in Nat /\ rotLogged \in Nat /\ MaxSize \in Nat /\ MaxFiles \in Nat
           /\ rotIndex \in Nat /\ rotIndex <= MaxFiles /\ rotated \in [Indices -> SUBSET Nat]
           /\ rotSize \in Nat
           /\ Full(MaxFiles + 1) \in Nat /\ Full(MaxFiles + 1) = Full(MaxFiles) + MaxSize
           /\ \A i \in Indices : i \in Nat /\ Full(i) \in Nat
<1>1. MaxSize \in Nat /\ MaxFiles \in Nat /\ MaxFiles + 1 \in Nat /\ Indices \subseteq Nat
  BY RotMaxFilesAssumption, RotMaxSizeAssumption DEF Indices
<1>2. /\ Full(MaxFiles + 1) \in Nat /\ Full(MaxFiles + 1) = Full(MaxFiles) + MaxSize
      /\ \A i \in Indices : i \in Nat /\ Full(i) \in Nat
  BY <1>1, FullGrows
<1>3. /\ CurrentNewest /\ FilesBehind /\ NewestStored /\ FilesFilled
  BY DEF Keeping
<1>4. /\ rotLogged \in Nat /\ rotIndex \in Nat /\ rotIndex <= MaxFiles /\ rotSize \in Nat
      /\ rotated \in [Indices -> SUBSET Nat]
  BY <1>1 DEF RotTypeOK, Indices
<1>5. Pending \in Nat
  BY <1>1, <1>4 DEF Pending
<1> QED
  BY <1>1, <1>2, <1>3, <1>4, <1>5

LEMMA KeepingFirst == MaxSize # 0 /\ RotInit => Keeping
<1> SUFFICES ASSUME MaxSize # 0, RotInit PROVE Keeping
  OBVIOUS
<1>2. Pending = 0 /\ rotLogged = 0
  BY DEF RotInit, Pending
<1>3. CurrentNewest
  BY <1>2 DEF RotInit, CurrentNewest
<1>4. FilesBehind /\ NewestStored
  BY <1>2 DEF RotInit, FilesBehind, NewestStored
<1>5. FilesFilled
  BY DEF RotInit, FilesFilled, Exists
<1> QED
  BY <1>3, <1>4, <1>5 DEF Keeping

\* Nothing that happens makes up for a disturbance.
LEMMA Disturbed == RotTypeOK /\ [RotNext]_rotVars /\ Undisturbed' => Undisturbed
<1> SUFFICES ASSUME RotTypeOK, [RotNext]_rotVars, Undisturbed' PROVE Undisturbed
  OBVIOUS
<1>1. rotFailed => rotFailed'
  BY DEF RotNext, RotFlush, RotLog, RotClose, Shift, ShiftCurrent, Open, Crash, Restart,
         rotVars, rotGhosts
<1>2. rotCrashes' = 0 => rotCrashes = 0
  BY DEF RotNext, RotFlush, RotLog, RotClose, Shift, ShiftCurrent, Open, Crash, Restart,
         rotVars, rotGhosts, RotTypeOK
<1>3. rotLost \subseteq rotLost'
  BY DEF RotNext, RotFlush, RotLog, RotClose, Shift, ShiftCurrent, Open, Crash, Restart,
         rotVars, rotGhosts
<1> QED
  BY <1>1, <1>2, <1>3 DEF Undisturbed

\* The steps that neither log nor rename.
LEMMA KeepingPut ==
    ASSUME RotTypeOK, Keeping, Undisturbed, UNCHANGED <<rotated, rotLogged>>,
           current' \cup buffered' = current \cup buffered, Pending' = Pending,
           rotPc' = "shift" => rotIndex' = (IF rotPc = "shift" THEN rotIndex ELSE MaxFiles),
           rotPc = "shift" => rotPc' = "shift",
           rotPc' = "idle" /\ rotOpen' => rotSize' < MaxSize,
           rotPc' \in {"close", "shift"} => Filled(rotSize'),
           rotPc' \in {"shift", "open"} => buffered' = {}
    PROVE  Keeping'
<1>1. Stored' = Stored
  BY DEF Stored, Indices
<1>2. CurrentNewest'
  BY KeepingMeans DEF CurrentNewest, Filled
<1>3. FilesBehind'
  <2> SUFFICES ASSUME NEW i \in Indices, NEW n \in rotated[i]
               PROVE  n + Full(i) <= IF rotPc' = "shift" /\ i > rotIndex' THEN rotLogged
                                     ELSE rotLogged - Pending
    <3>1. \A i : Full(i)' = Full(i)
      BY DEF Full
    <3> QED
      BY <3>1 DEF FilesBehind, Indices
  <2>1. /\ n + Full(i) <= IF rotPc = "shift" /\ i > rotIndex THEN rotLogged ELSE rotLogged - Pending
        /\ rotLogged - Pending <= rotLogged /\ n \in Nat /\ i \in Nat /\ i <= MaxFiles
        /\ MaxFiles \in Nat /\ rotIndex \in Nat /\ Full(i) \in Nat
        /\ rotLogged \in Nat /\ Pending \in Nat
    <3>1. /\ FilesBehind /\ rotLogged \in Nat /\ Pending \in Nat /\ MaxFiles \in Nat /\ rotIndex \in Nat
          /\ rotated \in [Indices -> SUBSET Nat] /\ Full(i) \in Nat
      BY KeepingMeans
    <3>2. i \in Nat /\ i <= MaxFiles /\ n \in Nat /\ rotLogged - Pending <= rotLogged
      BY <3>1 DEF Indices
    <3> QED
      BY <3>1, <3>2 DEF FilesBehind
  <2> QED
    BY <2>1
<1>4. NewestStored'
  BY <1>1, KeepingMeans DEF NewestStored, Full
<1>5. FilesFilled'
  BY KeepingMeans DEF FilesFilled, Filled, Exists, Indices
<1> QED
  BY <1>2, <1>3, <1>4, <1>5 DEF Keeping

LEMMA KeepingLog ==
    ASSUME RotTypeOK, Keeping, Undisturbed, Undisturbed', MaxSize # 0, NEW s \in LineSizes, RotLog(s)
    PROVE  Keeping'
<1>1. /\ rotOpen /\ rotPc = "idle" /\ buffered' = buffered \cup Line(s)
      /\ rotLogged' = rotLogged + s /\ rotSize' = rotSize + s
      /\ rotPc' = IF rotSize + s >= MaxSize THEN "close" ELSE "idle"
      /\ UNCHANGED <<rotIndex, current, rotated, rotOpen>>
      /\ s \in Nat /\ s > 0
  <2>1. s \in Nat /\ s > 0 /\ rotLogged \in Nat
    BY LineSizesAssumption DEF RotTypeOK
  <2>2. Line(s) # {}
    BY <2>1 DEF Line
  <2> QED
    BY <2>1, <2>2 DEF RotLog, Undisturbed
<1>2. /\ CurrentNewest /\ FilesBehind /\ NewestStored /\ FilesFilled
      /\ rotLogged \in Nat /\ MaxSize \in Nat /\ rotSize \in Nat
      /\ Full(MaxFiles + 1) \in Nat /\ \A i \in Indices : Full(i) \in Nat
      /\ rotated \in [Indices -> SUBSET Nat]
  BY KeepingMeans
<1>3. Pending = rotSize /\ rotSize < MaxSize
  BY <1>1, <1>2 DEF Pending, CurrentNewest
<1>4. Pending' = Pending + s
  BY <1>1, <1>2, <1>3 DEF Pending
<1>5. CurrentNewest'
  <2>1. current' \cup buffered' = (current \cup buffered) \cup Line(s)
    BY <1>1
  <2>2. current \cup buffered = (rotLogged - Pending + 1)..rotLogged /\ Pending <= rotLogged
    BY <1>2 DEF CurrentNewest
  <2>3. current' \cup buffered' = (rotLogged' - Pending' + 1)..rotLogged'
    BY <1>1, <1>2, <1>3, <1>4, <2>1, <2>2 DEF Line
  <2>4. Pending' <= rotLogged'
    BY <1>1, <1>2, <1>3, <1>4, <2>2
  <2>5. rotPc' = "idle" /\ rotOpen' => rotSize' < MaxSize
    BY <1>1, <1>2
  <2>6. rotPc' \notin {"shift", "open"}
    BY <1>1
  <2>7. rotPc' = "close" => Filled(rotSize)'
    BY <1>1, <1>2, <1>3 DEF Filled
  <2> QED
    BY <1>1, <2>3, <2>4, <2>5, <2>6, <2>7 DEF CurrentNewest
<1>6. rotLogged' - Pending' = rotLogged - Pending /\ rotPc' # "shift" /\ rotPc # "shift"
  BY <1>1, <1>2, <1>3, <1>4
<1>7. FilesBehind'
  BY <1>1, <1>2, <1>6 DEF FilesBehind, Indices, Full
<1>8. NewestStored'
  <2>1. Stored' = Stored \cup Line(s)
    BY <1>1 DEF Stored, Indices
  <2>2. Full(MaxFiles + 1)' = Full(MaxFiles + 1)
    BY DEF Full
  <2> SUFFICES ASSUME NEW n \in 1..rotLogged', n > rotLogged' - Pending' - Full(MaxFiles + 1)
               PROVE  n \in Stored'
    BY <1>6, <2>2 DEF NewestStored
  <2>3. CASE n > rotLogged
    BY <1>1, <1>2, <2>1, <2>3 DEF Line
  <2>4. CASE n <= rotLogged
    <3>1. n \in 1..rotLogged /\ n > rotLogged - Pending - Full(MaxFiles + 1)
      BY <1>1, <1>2, <1>6, <2>4
    <3> QED
      BY <1>2, <1>6, <2>1, <3>1 DEF NewestStored
  <2> QED
    BY <1>1, <1>2, <2>3, <2>4
<1>9. FilesFilled'
  BY <1>1, <1>2 DEF FilesFilled, Filled, Exists, Indices
<1> QED
  BY <1>5, <1>7, <1>8, <1>9 DEF Keeping

\* What the cascade overwrites: nothing, or what has no room any more.
LEMMA Overwritten ==
    ASSUME RotTypeOK, Keeping, Undisturbed, GapFollows, rotPc = "shift",
           NEW n \in rotated[rotIndex]
    PROVE  n \in Nat /\ n <= rotLogged - Full(MaxFiles + 1)
<1>1. /\ FilesBehind /\ Pending \in Nat /\ Pending >= MaxSize /\ rotLogged \in Nat /\ MaxSize \in Nat
      /\ MaxFiles \in Nat /\ rotIndex \in Indices /\ Full(MaxFiles) \in Nat
      /\ rotated \in [Indices -> SUBSET Nat]
      /\ Full(MaxFiles + 1) = Full(MaxFiles) + MaxSize
  BY KeepingMeans, FullGrows DEF Pending, CurrentNewest, Filled, RotTypeOK
<1>2. rotIndex = MaxFiles
  BY <1>1 DEF GapFollows, Undisturbed, Indices
<1>3. n \in Nat /\ n + Full(MaxFiles) <= rotLogged - Pending
  BY <1>1, <1>2 DEF FilesBehind, Indices
<1> QED
  BY <1>1, <1>3

LEMMA KeepingShift ==
    ASSUME RotTypeOK, Keeping, Undisturbed, Undisturbed', GapFollows, Shift
    PROVE  Keeping'
<1> DEFINE k == rotIndex
<1>1. /\ k \in Nat /\ k > 0 /\ k \in Indices /\ k - 1 \in Indices /\ k - 1 \in Nat
      /\ rotIndex' = k - 1 /\ k # k - 1
      /\ rotPc = "shift" /\ UNCHANGED <<rotPc, current, buffered, rotOpen, rotSize, rotLogged>>
      /\ \/ rotated' = [rotated EXCEPT ![k] = rotated[k - 1], ![k - 1] = {}]
         \/ rotated[k - 1] = {} /\ UNCHANGED rotated
  BY RotMaxFilesAssumption DEF Shift, Exists, RotTypeOK, Indices, Undisturbed
<1>2. /\ CurrentNewest /\ FilesBehind /\ NewestStored /\ FilesFilled
      /\ rotLogged \in Nat /\ MaxSize \in Nat
      /\ Pending \in Nat /\ Pending >= MaxSize /\ Pending' = Pending
      /\ rotated \in [Indices -> SUBSET Nat] /\ Full(MaxFiles + 1) \in Nat
  BY <1>1, KeepingMeans DEF Pending, CurrentNewest, Filled
<1>3. /\ Full(k - 1) \in Nat /\ Full(k) = Full(k - 1) + MaxSize
      /\ \A i \in Indices : Full(i) \in Nat /\ Full(i)' = Full(i)
  <2>1. k - 1 + 1 = k
    BY <1>1
  <2>2. \A i : Full(i)' = Full(i)
    BY DEF Full
  <2>3. Full(k - 1) \in Nat /\ Full(k - 1 + 1) = Full(k - 1) + MaxSize
    BY <1>1, FullGrows
  <2>4. \A i \in Indices : Full(i) \in Nat
    BY KeepingMeans
  <2> QED
    BY <2>1, <2>2, <2>3, <2>4
<1>4. CurrentNewest'
  BY <1>1, <1>2 DEF CurrentNewest, Filled
<1> HIDE DEF k
<1>5. CASE rotated[k - 1] = {} /\ UNCHANGED rotated
  <2>1. Stored' = Stored
    BY <1>1, <1>5 DEF Stored, Indices
  <2>2. FilesBehind'
    <3> SUFFICES ASSUME NEW i \in Indices, NEW n \in rotated[i]
                 PROVE  n + Full(i) <= IF i > k - 1 THEN rotLogged ELSE rotLogged - Pending
      BY <1>1, <1>2, <1>3, <1>5 DEF FilesBehind, Indices
    <3>1. n + Full(i) <= IF i > k THEN rotLogged ELSE rotLogged - Pending
      BY <1>1, <1>2 DEF FilesBehind, k
    <3>2. n \in Nat /\ Full(i) \in Nat /\ i \in Nat
      BY <1>2, <1>3 DEF Indices
    <3> QED
      BY <1>1, <1>2, <3>1, <3>2
  <2>3. NewestStored' /\ FilesFilled'
    BY <1>1, <1>2, <1>5, <2>1 DEF NewestStored, FilesFilled, Filled, Exists, Full, Indices
  <2> QED
    BY <1>4, <2>2, <2>3 DEF Keeping
<1>6. CASE rotated' = [rotated EXCEPT ![k] = rotated[k - 1], ![k - 1] = {}]
  <2>1. \A i \in Indices :
           rotated'[i] = IF i = k THEN rotated[k - 1] ELSE IF i = k - 1 THEN {} ELSE rotated[i]
    BY <1>1, <1>2, <1>6
  <2>2. FilesBehind'
    <3> SUFFICES ASSUME NEW i \in Indices, NEW n \in rotated'[i]
                 PROVE  n + Full(i) <= IF i > k - 1 THEN rotLogged ELSE rotLogged - Pending
      BY <1>1, <1>2, <1>3 DEF FilesBehind, Indices
    <3>1. i \in Nat /\ Full(i) \in Nat
      BY <1>3 DEF Indices
    <3>2. CASE i = k
      <4>1. n \in rotated[k - 1] /\ n \in Nat
        BY <1>1, <1>2, <2>1, <3>2
      <4>2. n + Full(k - 1) <= rotLogged - Pending
        BY <1>1, <1>2, <4>1 DEF FilesBehind, k
      <4> QED
        BY <1>1, <1>2, <1>3, <3>2, <4>1, <4>2
    <3>3. CASE i # k
      <4>1. n \in rotated[i] /\ n \in Nat
        BY <1>1, <1>2, <2>1, <3>3
      <4>2. n + Full(i) <= IF i > k THEN rotLogged ELSE rotLogged - Pending
        BY <1>1, <1>2, <4>1 DEF FilesBehind, k
      <4> QED
        BY <1>1, <1>2, <3>1, <3>3, <4>1, <4>2
    <3> QED
      BY <3>2, <3>3
  <2>3. Stored \subseteq Stored' \cup rotated[k]
    <3> SUFFICES ASSUME NEW m \in Stored, m \notin rotated[k] PROVE m \in Stored'
      OBVIOUS
    <3>1. CASE m \in current \cup buffered
      BY <1>1, <3>1 DEF Stored
    <3>2. CASE \E i \in Indices : m \in rotated[i]
      <4>1. PICK i \in Indices : m \in rotated[i] /\ i # k
        BY <3>2
      <4>2. m \in rotated'[IF i = k - 1 THEN k ELSE i] /\ (IF i = k - 1 THEN k ELSE i) \in Indices
        BY <1>1, <2>1, <4>1
      <4>3. \A j \in Indices : m \in rotated'[j] => m \in Stored'
        BY DEF Stored, Indices
      <4> QED
        BY <4>2, <4>3
    <3> QED
      BY <3>1, <3>2 DEF Stored
  <2>4. \A n \in rotated[k] : n \in Nat /\ n <= rotLogged - Full(MaxFiles + 1)
    BY <1>1, Overwritten DEF k
  <2>5. NewestStored'
    <3> SUFFICES ASSUME NEW n \in 1..rotLogged, n > rotLogged - Full(MaxFiles + 1)
                 PROVE  n \in Stored'
      <4>1. Full(MaxFiles + 1)' = Full(MaxFiles + 1)
        BY DEF Full
      <4> QED
        BY <1>1, <1>2, <4>1 DEF NewestStored
    <3>1. n \in Stored
      BY <1>1, <1>2 DEF NewestStored
    <3>2. n \notin rotated[k]
      BY <1>2, <2>4
    <3> QED
      BY <2>3, <3>1, <3>2
  <2>6. FilesFilled'
    <3>1. \A i \in Indices : rotated'[i] # {} => Filled(Cardinality(rotated'[i]))
      BY <1>1, <1>2, <2>1 DEF FilesFilled, Exists
    <3> QED
      BY <3>1 DEF FilesFilled, Filled, Exists, Indices
  <2> QED
    BY <1>4, <2>2, <2>5, <2>6 DEF Keeping
<1> QED
  BY <1>1, <1>5, <1>6 DEF k

LEMMA KeepingShiftCurrent ==
    ASSUME RotTypeOK, Keeping, Undisturbed, Undisturbed', GapFollows, ShiftCurrent
    PROVE  Keeping'
<1>1. /\ rotPc = "shift" /\ rotPc' = "open" /\ rotIndex = 0 /\ 0 \in Indices
      /\ rotated' = [rotated EXCEPT ![0] = current] /\ current' = {}
      /\ UNCHANGED <<buffered, rotOpen, rotSize, rotLogged>>
  BY RotMaxFilesAssumption DEF ShiftCurrent, RotTypeOK, Indices, Undisturbed
<1>2. /\ CurrentNewest /\ FilesBehind /\ NewestStored /\ FilesFilled
      /\ rotLogged \in Nat /\ MaxSize \in Nat /\ Pending = rotSize /\ Pending' = 0
      /\ rotSize \in Nat /\ Filled(rotSize)
      /\ rotated \in [Indices -> SUBSET Nat] /\ Full(MaxFiles + 1) \in Nat
      /\ \A i \in Indices : i \in Nat /\ Full(i) \in Nat
  BY <1>1, KeepingMeans DEF Pending, CurrentNewest
<1>3. \A i : Full(i)' = Full(i)
  BY DEF Full
<1>4. buffered = {} /\ current = (rotLogged - rotSize + 1)..rotLogged /\ rotSize <= rotLogged
  BY <1>1, <1>2 DEF CurrentNewest
<1>5. \A i \in Indices : rotated'[i] = IF i = 0 THEN current ELSE rotated[i]
  BY <1>1, <1>2
<1>6. CurrentNewest'
  <2>1. (rotLogged - 0 + 1)..rotLogged = {}
    BY <1>2
  <2> QED
    BY <1>1, <1>2, <1>4, <2>1 DEF CurrentNewest
<1>7. FilesBehind'
  <2> SUFFICES ASSUME NEW i \in Indices, NEW n \in rotated'[i] PROVE n + Full(i) <= rotLogged - 0
    BY <1>1, <1>2, <1>3 DEF FilesBehind, Indices
  <2>1. CASE i = 0
    <3>1. n \in (rotLogged - rotSize + 1)..rotLogged
      BY <1>4, <1>5, <2>1
    <3>2. Full(i) = 0
      BY <2>1, FullGrows
    <3> QED
      BY <1>2, <3>1, <3>2
  <2>2. CASE i # 0
    BY <1>1, <1>2, <1>5, <2>2 DEF FilesBehind
  <2> QED
    BY <2>1, <2>2
<1>8. NewestStored'
  <2> SUFFICES ASSUME NEW n \in 1..rotLogged, n > rotLogged - Full(MaxFiles + 1)
               PROVE  n \in Stored'
    BY <1>1, <1>2 DEF NewestStored, Full
  <2>1. n \in Stored
    BY <1>1, <1>2 DEF NewestStored
  <2>2. n \notin rotated[0]
    BY <1>1, <1>2, Overwritten
  <2>3. \A j \in Indices : rotated'[j] \subseteq Stored'
    BY DEF Stored, Indices
  <2>4. n \in current \/ \E i \in Indices : i # 0 /\ n \in rotated[i]
    BY <1>4, <2>1, <2>2 DEF Stored
  <2> QED
    BY <1>1, <1>5, <2>3, <2>4
<1>9. FilesFilled'
  <2>1. Cardinality(current) = rotSize
    <3>1. Cardinality((rotLogged - rotSize + 1)..rotLogged) =
              IF rotLogged - rotSize + 1 > rotLogged THEN 0 ELSE rotLogged - (rotLogged - rotSize + 1) + 1
      BY <1>2, FS_Interval
    <3> QED
      BY <1>2, <1>4, <3>1
  <2>2. \A i \in Indices : rotated'[i] # {} => Filled(Cardinality(rotated'[i]))
    BY <1>2, <1>5, <2>1 DEF FilesFilled, Exists
  <2> QED
    BY <2>2 DEF FilesFilled, Filled, Exists, Indices
<1> QED
  BY <1>6, <1>7, <1>8, <1>9 DEF Keeping

LEMMA KeepingStep ==
    ASSUME MaxSize # 0, RotTypeOK, GapFollows, Keeping, [RotNext]_rotVars
    PROVE  Keeping'
<1> SUFFICES ASSUME Undisturbed' PROVE Keeping'
  BY DEF Keeping
<1>1. Undisturbed
  BY Disturbed
<1>2. /\ CurrentNewest /\ rotLogged \in Nat /\ MaxSize \in Nat /\ MaxSize > 0
  BY <1>1, KeepingMeans
<1>3. CASE RotFlush
  <2>1. /\ UNCHANGED <<rotPc, rotIndex, rotated, rotOpen, rotSize, rotLogged>>
        /\ current' \cup buffered' = current \cup buffered /\ (buffered = {} => buffered' = {})
    BY <1>3, FlushMeans DEF rotGhosts
  <2>2. Pending' = Pending
    BY <2>1 DEF Pending
  <2> QED
    BY <1>1, <1>2, <2>1, <2>2, KeepingPut DEF CurrentNewest
<1>4. CASE RotClose
  <2>1. /\ rotPc = "close" /\ rotPc' = "shift" /\ rotIndex' = MaxFiles
        /\ UNCHANGED <<rotated, rotLogged, rotSize>> /\ current' = current \cup buffered /\ buffered' = {}
    BY <1>4 DEF RotClose, rotGhosts, FirstIndex
  <2>2. Pending' = Pending
    BY <2>1 DEF Pending
  <2> QED
    BY <1>1, <1>2, <2>1, <2>2, KeepingPut DEF CurrentNewest
<1>5. CASE Open
  <2>1. /\ rotPc = "open" /\ rotPc' = "idle" /\ UNCHANGED <<current, buffered, rotated, rotLogged>>
        /\ rotOpen' => rotSize' = Cardinality(current)
    BY <1>5 DEF Open, rotGhosts
  <2>2. current = {} /\ Pending = 0
    BY <1>2, <2>1 DEF CurrentNewest, Pending
  <2>3. rotOpen' => rotSize' = 0
    BY <2>1, <2>2, FS_EmptySet
  <2>4. Pending' = 0
    BY <2>1, <2>3 DEF Pending
  <2>5. rotPc' = "idle" /\ rotOpen' => rotSize' < MaxSize
    BY <1>2, <2>3
  <2> QED
    BY <1>1, <2>1, <2>2, <2>4, <2>5, KeepingPut
<1>6. CASE Crash
  BY <1>6 DEF Crash, Undisturbed, RotTypeOK
<1>7. CASE Restart
  <2>1. /\ rotPc = "down" /\ rotPc' = "open"
        /\ UNCHANGED <<current, buffered, rotated, rotLogged>>
    BY <1>7 DEF Restart, rotGhosts
  <2>2. Pending = 0 /\ Pending' = 0
    BY <2>1 DEF Pending
  <2>3. buffered = {}
    BY <1>2, <2>2 DEF CurrentNewest
  <2> QED
    BY <1>1, <2>1, <2>2, <2>3, KeepingPut
<1>8. CASE UNCHANGED rotVars
  <2>1. UNCHANGED <<rotPc, rotIndex, current, buffered, rotated, rotOpen, rotSize, rotLogged>>
    BY <1>8 DEF rotVars, rotFile, rotGhosts
  <2>2. Pending' = Pending
    BY <2>1 DEF Pending
  <2> QED
    BY <1>1, <1>2, <2>1, <2>2, KeepingPut DEF CurrentNewest
<1> QED
  BY <1>1, <1>3, <1>4, <1>5, <1>6, <1>7, <1>8, KeepingLog, KeepingShift, KeepingShiftCurrent
  DEF RotNext

LEMMA KeepingSuffices ==
    ASSUME RotInv, Keeping
    PROVE  RotationKeeps
<1> SUFFICES ASSUME Undisturbed
             PROVE  /\ Cardinality(Stored) >= IF rotLogged < Full(MaxFiles) THEN rotLogged
                                              ELSE Full(MaxFiles)
                    /\ \A i \in Indices : Exists(i) => Filled(Cardinality(rotated[i]))
  BY DEF RotationKeeps, Full
<1>1. /\ NewestStored /\ FilesFilled /\ CurrentNewest /\ rotLogged \in Nat /\ Pending \in Nat
      /\ Full(MaxFiles) \in Nat /\ Full(MaxFiles + 1) \in Nat /\ Full(MaxFiles + 1) >= Full(MaxFiles)
  BY KeepingMeans, FullGrows DEF RotInv
<1> DEFINE low == IF rotLogged < Full(MaxFiles) THEN 1 ELSE rotLogged - Full(MaxFiles) + 1
<1>2. low..rotLogged \subseteq Stored
  BY <1>1 DEF NewestStored
<1>3. IsFiniteSet(Stored)
  <2>1. IsFiniteSet(1..rotLogged)
    BY <1>1, FS_Interval
  <2> QED
    BY <2>1, FS_Subset DEF RotInv, OnlyLogged
<1>4. Cardinality(low..rotLogged) = IF low > rotLogged THEN 0 ELSE rotLogged - low + 1
  <2>1. low \in Int /\ rotLogged \in Int
    BY <1>1
  <2> HIDE DEF low
  <2> QED
    BY <2>1, FS_Interval
<1>5. Cardinality(low..rotLogged) <= Cardinality(Stored) /\ Cardinality(Stored) \in Nat
  BY <1>2, <1>3, FS_Subset, FS_CardinalityType
<1>6. Cardinality(low..rotLogged) = IF rotLogged < Full(MaxFiles) THEN rotLogged
                                    ELSE Full(MaxFiles)
  BY <1>1, <1>4
<1> QED
  BY <1>1, <1>5, <1>6 DEF FilesFilled

\* If no rename fails, no file refuses to open and the process does not die,
\* what max_files full files hold stays in the files, and every rotated file
\* has reached max_size and exceeds it by less than one line: for every number
\* of files, all lengths of lines, and every size but 0 (where each line is a
\* file of its own).
THEOREM RotationKeepsAlways ==
    ASSUME MaxSize # 0
    PROVE  RotSpec => []RotationKeeps
<1>1. RotInit => NewestInv /\ Keeping
  BY RotInitInv, KeepingFirst DEF NewestInv
<1>2. NewestInv /\ Keeping /\ [RotNext]_rotVars => NewestInv' /\ Keeping'
  BY NewestStep, KeepingStep DEF NewestInv, RotInv
<1>3. NewestInv /\ Keeping => RotationKeeps
  BY KeepingSuffices DEF NewestInv
<1> QED
  BY <1>1, <1>2, <1>3, PTL DEF RotSpec

-----------------------------------------------------------------------------
(* CompressedFile: the invariants.                                         *)

\* The steps of a rotation between closing the file and opening it.
Rotating == zipPc \in {"remove", "shift", "compress", "account", "reopen"}

\* Where a rotation is tells what is closed and which index it has come to.
ZipPlaces ==
    /\ Rotating \/ zipPc = "start" => ~zipOpen
    /\ ~zipOpen => unflushed = {}
    /\ zipPc = "remove" => KeepFiles > 0
    /\ zipPc = "shift" => zipIndex \in Slots
    /\ zipPc = "account" => Compressing

\* Only bytes logged so far are in a file or on their way to one.
ZipOnlyLogged == Kept \subseteq 1..zipLogged

ZipBasics == ZipTypeOK /\ ZipPlaces /\ PlainOrdered /\ ZipOnlyLogged

\* If nothing fails, the index a cascade is about to fill is free, and what the
\* open will truncate has been moved.
ZipGaps ==
    /\ zipPc = "shift" => plain[zipIndex] = {}
    /\ KeepFiles > 0 /\ zipPc \in {"compress", "account", "reopen"} => live = {}

\* If nothing fails, there is only an archive or only rotated files, except
\* between the cascade and the removal of the file compressed.
OneForm ==
    /\ ~Compressing => archive.messages = {}
    /\ Compressing => \A i \in Slots : plain[i] = {} \/ (i = 1 /\ zipPc \in {"compress", "account"})
    /\ KeepFiles = 0 => archive.messages = {}
    /\ zipPc = "account" /\ KeepFiles > 0 => archive = [bytes |-> TRUE, messages |-> plain[1]]
    /\ zipPc # "account" =>
          \A n \in archive.messages, m \in live \cup unflushed \cup UNION {plain[i] : i \in Slots} :
             n < m

ZipInv == ZipBasics /\ (~zipFailed => ZipGaps /\ OneForm) /\ ZipNewestKept

\* The levels are the library's, and one while the tuning is on.
LevelInv ==
    /\ level \in LowestLevel..HighestLevel /\ optionLevel \in LowestLevel..HighestLevel
    /\ zipAuto => level = optionLevel

\* As many bytes as i full files hold at least.
ZFull(i) == i * FileSize

\* What there is room for behind the current file.
ZRoom == ZFull(KeepFiles)

\* The size of the current file, with what is on its way to it.
ZPending ==
    IF zipPc \in {"close", "remove", "shift"} \/ (zipPc = "idle" /\ zipOpen) THEN zipSize ELSE 0

\* The current file holds the newest bytes and nothing else, and a rotation
\* finds it full.
ZCurrentNewest ==
    /\ live \cup unflushed = (zipLogged - ZPending + 1)..zipLogged
    /\ ZPending <= zipLogged
    /\ zipPc = "idle" /\ zipOpen => zipSize < FileSize
    /\ zipPc \in {"close", "remove", "shift"} => zipSize >= FileSize

\* A rotated file comes after as many bytes as the files before it hold.
ZFilesBehind ==
    \A i \in Slots : \A n \in plain[i] :
        n + ZFull(i - 1) <= IF zipPc = "shift" /\ i > zipIndex THEN zipLogged ELSE zipLogged - ZPending

\* Everything is kept that there is room for, until the last index is removed.
ZNewestStored ==
    \A n \in 1..zipLogged :
        n > zipLogged - (IF zipPc = "shift" THEN 0 ELSE ZPending) - ZRoom => n \in Kept

ZKeeping ==
    KeepFiles > 0 /\ FileSize > 0 /\ ~Compressing /\ Undeterred =>
        ZCurrentNewest /\ ZFilesBehind /\ ZNewestStored
-----------------------------------------------------------------------------
(* CompressedFile: types, places and order.                                *)

LEMMA SlotFacts ==
    /\ KeepFiles \in Nat /\ FileSize \in Nat
    /\ \A i \in Slots : i \in Nat /\ i >= 1 /\ i <= KeepFiles
    /\ KeepFiles > 0 => 1 \in Slots /\ KeepFiles \in Slots
    /\ KeepFiles = 0 => Slots = {}
  BY KeepFilesAssumption, FileSizeAssumption DEF Slots

LEMMA KeptMeans ==
    \A n : n \in Kept <=> \/ n \in live \/ n \in unflushed \/ n \in archive.messages
                          \/ \E i \in Slots : n \in plain[i]
  BY DEF Kept

LEMMA ZipFirst == ZipInit => ZipBasics /\ ZipGaps /\ OneForm /\ ZipNewestKept
<1> SUFFICES ASSUME ZipInit PROVE ZipBasics /\ ZipGaps /\ OneForm /\ ZipNewestKept
  OBVIOUS
<1>1. /\ zipPc = "start" /\ zipIndex = 0 /\ live = {} /\ unflushed = {} /\ ~zipOpen /\ zipSize = 0
      /\ plain = [i \in Slots |-> {}] /\ archive.messages = {}
      /\ zipLogged = 0 /\ zipLost = {} /\ zipFailed = FALSE
  BY DEF ZipInit
<1>2. \A i \in Slots : plain[i] = {}
  BY <1>1
<1>3. Kept = {}
  BY <1>1, <1>2 DEF Kept
<1>4. ZipTypeOK
  <2>1. plain \in [Slots -> SUBSET Nat] /\ archive \in [bytes : BOOLEAN, messages : SUBSET Nat]
    BY <1>1 DEF ZipInit
  <2>2. level \in Nat /\ optionLevel \in Nat /\ attempts \in 0..3 /\ zipIndex \in 0..KeepFiles
    BY StartLevelsAssumption, SlotFacts DEF ZipInit
  <2>3. /\ zipSize \in Nat /\ zipLogged \in Nat /\ zipDeaths \in Nat /\ zipLost \in SUBSET Nat
        /\ live \in SUBSET Nat /\ unflushed \in SUBSET Nat
    BY <1>1 DEF ZipInit
  <2> QED
    BY <2>1, <2>2, <2>3 DEF ZipTypeOK, ZipInit
<1>5. ZipPlaces /\ PlainOrdered /\ ZipOnlyLogged
  BY <1>1, <1>2, <1>3 DEF ZipPlaces, Rotating, PlainOrdered, ZipOnlyLogged
<1>6. ZipGaps /\ OneForm
  BY <1>1, <1>2 DEF ZipGaps, OneForm
<1>7. ZipNewestKept
  BY <1>3 DEF ZipNewestKept
<1> QED
  BY <1>4, <1>5, <1>6, <1>7 DEF ZipBasics

LEMMA LiveFinite == ZipTypeOK /\ ZipOnlyLogged => Cardinality(live) \in Nat
<1> SUFFICES ASSUME ZipTypeOK, ZipOnlyLogged PROVE Cardinality(live) \in Nat
  OBVIOUS
<1>1. IsFiniteSet(1..zipLogged)
  BY FS_Interval DEF ZipTypeOK
<1>2. live \subseteq 1..zipLogged
  BY DEF ZipOnlyLogged, Kept
<1> QED
  BY <1>1, <1>2, FS_Subset, FS_CardinalityType

\* The level stays a number, whatever the tuning makes of it.
LEMMA LevelNumber ==
    ASSUME level \in Nat, NEW r, NEW v
    PROVE  OptimalLevel(r, v) \in Nat
<1>1. AtLeast(LowestLevel, level - 1) \in Nat /\ AtMost(HighestLevel, level + 1) \in Nat
  BY DEF AtLeast, AtMost, LowestLevel, HighestLevel
<1>2. level > LowestLevel + 1 => level - 1 \in Nat
  BY DEF LowestLevel
<1> QED
  BY <1>1, <1>2 DEF OptimalLevel

LEMMA LevelUpdated ==
    ASSUME level \in Nat, optionLevel \in Nat, UpdateLevel
    PROVE  level' \in Nat /\ optionLevel' \in Nat
  BY LevelNumber DEF UpdateLevel

\* A line is a block of bytes behind all those logged before it.
LEMMA ZipLineMeans ==
    ASSUME ZipTypeOK, NEW s \in ZipLines
    PROVE  /\ s \in Nat /\ s > 0 /\ ZipLine(s) # {} /\ ZipLine(s) \in SUBSET Nat
           /\ \A m : m \in ZipLine(s) <=> m \in Nat /\ m > zipLogged /\ m <= zipLogged + s
<1>1. s \in Nat /\ s > 0 /\ zipLogged \in Nat
  BY ZipLinesAssumption DEF ZipTypeOK
<1>2. zipLogged + 1 \in ZipLine(s)
  BY <1>1 DEF ZipLine
<1> QED
  BY <1>1, <1>2 DEF ZipLine

LEMMA ZipTypeStep == ZipBasics /\ [ZipNext]_zipVars => ZipTypeOK'
<1> SUFFICES ASSUME ZipBasics, [ZipNext]_zipVars PROVE ZipTypeOK'
  OBVIOUS
<1> USE DEF ZipTypeOK
<1>1. ZipTypeOK /\ ZipPlaces /\ ZipOnlyLogged
  BY DEF ZipBasics
<1>2. KeepFiles \in Nat
  BY SlotFacts
<1>3. CASE ZipStart
  <2>1. Cardinality(live) \in Nat
    BY <1>1, LiveFinite
  <2>2. zipOpen' \in BOOLEAN /\ zipSize' \in Nat /\ zipPc' = "idle"
    <3>1. CASE zipOpen' = TRUE /\ zipSize' = Cardinality(live)
      BY <1>3, <2>1, <3>1 DEF ZipStart
    <3>2. CASE zipOpen' = FALSE /\ zipSize' = 0
      BY <1>3, <3>2 DEF ZipStart
    <3> QED
      BY <1>3, <3>1, <3>2 DEF ZipStart
  <2>3. UNCHANGED <<zipOptions, attempts, zipIndex, live, unflushed, plain, archive, zipGhosts>>
    BY <1>3 DEF ZipStart
  <2> QED
    BY <1>1, <2>2, <2>3 DEF zipOptions, zipGhosts
<1>4. CASE ZipFlush
  <2>1. live' \in SUBSET Nat /\ unflushed' \in SUBSET Nat
    BY <1>1, <1>4 DEF ZipFlush
  <2> QED
    BY <1>1, <1>4, <2>1 DEF ZipFlush, zipOptions, zipGhosts
<1>5. CASE \E s \in ZipLines : ZipRefuse(s)
  <2>1. PICK s \in ZipLines : ZipRefuse(s)
    BY <1>5
  <2>2. s \in Nat /\ ZipLine(s) \in SUBSET Nat
    BY <1>1, ZipLineMeans
  <2>3. zipLogged' = zipLogged + s /\ zipLost' = zipLost \cup ZipLine(s)
    BY <2>1 DEF ZipRefuse
  <2>4. zipLogged \in Nat /\ zipLost \in SUBSET Nat
    BY <1>1
  <2>5. zipLogged' \in Nat
    BY <2>2, <2>3, <2>4
  <2>6. zipLost' \in SUBSET Nat
    BY <2>2, <2>3, <2>4
  <2> QED
    BY <1>1, <2>1, <2>5, <2>6 DEF ZipRefuse, zipOptions, zipFiles
<1>6. CASE \E s \in ZipLines : ZipLog(s)
  <2>1. PICK s \in ZipLines : ZipLog(s)
    BY <1>6
  <2>2. s \in Nat /\ ZipLine(s) \in SUBSET Nat
    BY <1>1, ZipLineMeans
  <2>3. /\ zipLogged' = zipLogged + s /\ unflushed' = unflushed \cup ZipLine(s)
        /\ zipSize' = zipSize + s
    BY <2>1 DEF ZipLog
  <2>4. zipLogged \in Nat /\ unflushed \in SUBSET Nat /\ zipSize \in Nat
    BY <1>1
  <2>5. zipLogged' \in Nat /\ zipSize' \in Nat
    BY <2>2, <2>3, <2>4
  <2>6. unflushed' \in SUBSET Nat
    BY <2>2, <2>3, <2>4
  <2>7. zipPc' \in {"close", "idle"}
    BY <2>1 DEF ZipLog
  <2> QED
    BY <1>1, <2>1, <2>5, <2>6, <2>7 DEF ZipLog, zipOptions
<1>7. CASE ZipClose
  <2>1. live' \in SUBSET Nat /\ unflushed' \in SUBSET Nat /\ zipPc' \in {"remove", "compress"}
    BY <1>1, <1>7 DEF ZipClose
  <2> QED
    BY <1>1, <1>7, <2>1 DEF ZipClose, zipOptions, zipGhosts
<1>8. CASE ZipRemoveOldest
  <2>1. plain' \in [Slots -> SUBSET Nat] /\ zipIndex' \in 0..KeepFiles
    <3>1. {} \in SUBSET Nat
      OBVIOUS
    <3>2. plain' = [plain EXCEPT ![KeepFiles] = {}] /\ plain \in [Slots -> SUBSET Nat]
      BY <1>1, <1>8 DEF ZipRemoveOldest
    <3>3. plain' \in [Slots -> SUBSET Nat]
      BY <3>1, <3>2
    <3> QED
      BY <1>2, <1>8, <3>3 DEF ZipRemoveOldest
  <2> QED
    BY <1>1, <1>8, <2>1 DEF ZipRemoveOldest, zipOptions, zipGhosts
<1>9. CASE ZipShift
  <2>1. zipIndex \in Slots /\ zipIndex \in Nat /\ (zipIndex # 1 => zipIndex - 1 \in Slots)
    BY <1>1, <1>2, <1>9 DEF ZipShift, ZipPlaces, Slots
  <2>2. plain' \in [Slots -> SUBSET Nat] /\ live' \in SUBSET Nat
    <3>1. /\ plain \in [Slots -> SUBSET Nat] /\ live \in SUBSET Nat /\ {} \in SUBSET Nat
          /\ ZipSource(zipIndex) \in SUBSET Nat
      BY <1>1, <2>1 DEF ZipSource
    <3>2. \/ plain' = [plain EXCEPT ![1] = ZipSource(1)] /\ live' = {} /\ zipIndex = 1
          \/ /\ plain' = [plain EXCEPT ![zipIndex] = ZipSource(zipIndex), ![zipIndex - 1] = {}]
             /\ live' = live
          \/ plain' = plain /\ live' = live
      BY <1>9 DEF ZipShift
    <3>3. live' \in SUBSET Nat
      BY <3>1, <3>2
    <3>4. plain' \in [Slots -> SUBSET Nat]
      <4>1. CASE plain' = [plain EXCEPT ![1] = ZipSource(1)] /\ zipIndex = 1
        BY <3>1, <4>1
      <4>2. CASE plain' = [plain EXCEPT ![zipIndex] = ZipSource(zipIndex), ![zipIndex - 1] = {}]
        <5>1. ASSUME NEW S, NEW T, NEW f \in [S -> T], NEW a, NEW b, NEW c, NEW d \in T, c \in T
              PROVE  [f EXCEPT ![a] = c, ![b] = d] \in [S -> T]
          BY <5>1
        <5> QED
          BY <3>1, <4>2, <5>1
      <4>3. CASE plain' = plain
        BY <3>1, <4>3
      <4> QED
        BY <3>2, <4>1, <4>2, <4>3
    <3> QED
      BY <3>3, <3>4
  <2>3. zipIndex' \in 0..KeepFiles /\ zipPc' \in {"compress", "shift"}
    BY <1>1, <1>2, <1>9, <2>1 DEF ZipShift
  <2>4. zipFailed' \in BOOLEAN
    <3>1. zipFailed' = TRUE \/ zipFailed' = zipFailed
      BY <1>9 DEF ZipShift
    <3> QED
      BY <1>1, <3>1
  <2> QED
    BY <1>1, <1>9, <2>2, <2>3, <2>4 DEF ZipShift, zipOptions
<1>10. CASE Compress
  <2>1. (IF KeepFiles > 0 THEN plain[1] ELSE {}) \in SUBSET Nat
    BY <1>1, SlotFacts
  <2>2. archive' \in [bytes : BOOLEAN, messages : SUBSET Nat]
    <3>1. \/ archive' = archive
          \/ archive' = [bytes |-> FALSE, messages |-> {}]
          \/ \E part \in SUBSET Nat : archive' = [bytes |-> TRUE, messages |-> part]
      <4> DEFINE source == IF KeepFiles > 0 THEN plain[1] ELSE {}
      <4>1. \A cut : {b \in source : b < cut} \in SUBSET Nat
        BY <2>1
      <4>2. \/ archive' = archive
            \/ archive' = [bytes |-> FALSE, messages |-> {}]
            \/ archive' = [bytes |-> TRUE, messages |-> source]
            \/ \E cut \in source : archive' = [bytes |-> TRUE, messages |-> {b \in source : b < cut}]
        BY <1>10 DEF Compress, Archived
      <4> HIDE DEF source
      <4>3. source \in SUBSET Nat
        BY <2>1 DEF source
      <4> QED
        BY <4>1, <4>2, <4>3
    <3>2. \A b \in BOOLEAN, t \in SUBSET Nat :
             [bytes |-> b, messages |-> t] \in [bytes : BOOLEAN, messages : SUBSET Nat]
      OBVIOUS
    <3>3. {} \in SUBSET Nat
      OBVIOUS
    <3> QED
      BY <1>1, <3>1, <3>2, <3>3
  <2>3. attempts' \in 0..3
    BY <1>1, <1>10 DEF Compress
  <2>4. zipFailed' \in BOOLEAN
    BY <1>1, <1>10 DEF Compress
  <2> QED
    BY <1>1, <1>10, <2>2, <2>3, <2>4 DEF Compress, zipOptions
<1>11. CASE Account
  <2>1. plain' \in [Slots -> SUBSET Nat]
    BY <1>1, <1>11 DEF Account
  <2>2. level' \in Nat /\ optionLevel' \in Nat
    BY <1>1, <1>11, LevelUpdated DEF Account
  <2> QED
    BY <1>1, <1>11, <2>1, <2>2 DEF Account, zipGhosts
<1>12. CASE ZipReopen
  BY <1>1, <1>12 DEF ZipReopen, zipOptions, zipGhosts
<1>13. CASE ZipCrash
  <2>1. zipLost' \in SUBSET Nat /\ zipDeaths' \in Nat
    BY <1>1, <1>13 DEF ZipCrash
  <2>2. level' \in Nat /\ optionLevel' \in Nat
    BY <1>13, StartLevelsAssumption DEF ZipCrash
  <2>3. zipFailed' \in BOOLEAN /\ unflushed' \in SUBSET Nat
    BY <1>1, <1>13 DEF ZipCrash
  <2>4. UNCHANGED <<zipType, zipAuto, zipIndex, live, plain, archive, zipSize, zipLogged>>
    BY <1>13 DEF ZipCrash
  <2>5. attempts' \in 0..3 /\ zipPc' = "start"
    BY <1>13 DEF ZipCrash
  <2>6. zipOpen' \in BOOLEAN
    BY <1>13 DEF ZipCrash
  <2>7. /\ zipType' \in Types /\ zipAuto' \in BOOLEAN /\ zipIndex' \in 0..KeepFiles
        /\ live' \in SUBSET Nat /\ plain' \in [Slots -> SUBSET Nat]
        /\ archive' \in [bytes : BOOLEAN, messages : SUBSET Nat]
        /\ zipSize' \in Nat /\ zipLogged' \in Nat
    BY <1>1, <2>4
  <2> QED
    BY <2>1, <2>2, <2>3, <2>5, <2>6, <2>7
<1>14. CASE \E on \in BOOLEAN : EnableAutoTune(on)
  BY <1>1, <1>14 DEF EnableAutoTune, zipFiles, zipGhosts
<1>15. CASE UNCHANGED zipVars
  BY <1>1, <1>15 DEF zipVars, zipOptions, zipFiles, zipGhosts
<1> QED
  BY <1>3, <1>4, <1>5, <1>6, <1>7, <1>8, <1>9, <1>10, <1>11, <1>12, <1>13, <1>14, <1>15 DEF ZipNext

LEMMA ZipPlacesStep == ZipBasics /\ [ZipNext]_zipVars => ZipPlaces'
<1> SUFFICES ASSUME ZipBasics, [ZipNext]_zipVars PROVE ZipPlaces'
  OBVIOUS
<1> USE DEF ZipPlaces, Rotating
<1>1. ZipTypeOK /\ ZipPlaces
  BY DEF ZipBasics
<1>2. CASE ZipStart \/ ZipFlush \/ \E s \in ZipLines : ZipRefuse(s) \/ ZipLog(s)
  BY <1>1, <1>2 DEF ZipStart, ZipFlush, ZipRefuse, ZipLog, zipOptions, zipFiles, Compressing
<1>3. CASE ZipClose
  BY <1>1, <1>3 DEF ZipClose, zipOptions, Compressing
<1>4. CASE ZipRemoveOldest
  BY <1>1, <1>4, SlotFacts DEF ZipRemoveOldest, zipOptions, Compressing
<1>5. CASE ZipShift
  <2>1. zipIndex \in Slots /\ (zipIndex # 1 => zipIndex - 1 \in Slots)
    BY <1>1, <1>5, SlotFacts DEF ZipShift, Slots
  <2> QED
    BY <1>1, <1>5, <2>1 DEF ZipShift, zipOptions, Compressing
<1>6. CASE Compress
  BY <1>1, <1>6 DEF Compress, zipOptions, Compressing
<1>10. CASE Account
  BY <1>1, <1>10 DEF Account, Compressing
<1>11. CASE ZipReopen
  <2>1. unflushed' = {} /\ zipPc' = "idle"
    BY <1>1, <1>11 DEF ZipReopen
  <2> QED
    BY <2>1
<1>7. CASE ZipCrash
  BY <1>1, <1>7 DEF ZipCrash
<1>8. CASE \E on \in BOOLEAN : EnableAutoTune(on)
  BY <1>1, <1>8 DEF EnableAutoTune, zipFiles, Compressing
<1>9. CASE UNCHANGED zipVars
  BY <1>1, <1>9 DEF zipVars, zipOptions, zipFiles, Compressing
<1> QED
  BY <1>2, <1>3, <1>4, <1>5, <1>6, <1>7, <1>8, <1>9, <1>10, <1>11 DEF ZipNext
\* The steps that log nothing and put messages only where they were, or into
\* the archive.
LEMMA ZipShrinks ==
    ASSUME ZipBasics, zipLogged' = zipLogged,
           live' \cup unflushed' \subseteq live \cup unflushed,
           \A i \in Slots : plain'[i] \subseteq plain[i],
           archive'.messages \subseteq Kept
    PROVE  PlainOrdered' /\ ZipOnlyLogged'
<1>1. PlainOrdered'
  BY DEF ZipBasics, PlainOrdered, Slots
<1>2. Kept' \subseteq Kept
  BY DEF Kept, Slots
<1> QED
  BY <1>1, <1>2 DEF ZipBasics, ZipOnlyLogged

LEMMA ZipOrderLog ==
    ASSUME ZipBasics, NEW s \in ZipLines, ZipLog(s) \/ ZipRefuse(s)
    PROVE  PlainOrdered' /\ ZipOnlyLogged'
<1>1. /\ UNCHANGED <<plain, live, archive>>
      /\ zipLogged' = zipLogged + s /\ zipLogged \in Nat /\ s \in Nat
      /\ unflushed' \subseteq unflushed \cup ZipLine(s)
      /\ \A i \in Slots : plain[i] \subseteq Nat
  BY ZipLineMeans DEF ZipLog, ZipRefuse, ZipBasics, ZipTypeOK, zipFiles
<1>2. Kept' \subseteq Kept \cup ZipLine(s)
  BY <1>1 DEF Kept, Slots
<1>3. \A n \in Kept : n \in Nat /\ \A m \in ZipLine(s) : n < m
  <2>1. Kept \subseteq 1..zipLogged
    BY DEF ZipBasics, ZipOnlyLogged
  <2>2. \A m \in ZipLine(s) : m \in Nat /\ m > zipLogged
    BY ONLY <1>1 DEF ZipLine
  <2> QED
    BY ONLY <1>1, <2>1, <2>2
<1>4. ZipOnlyLogged'
  BY <1>1, <1>2 DEF ZipOnlyLogged, ZipBasics, ZipLine
<1>5. \A i \in Slots : plain[i] \subseteq Kept
  BY DEF Kept
<1>6. live \cup unflushed \subseteq Kept
  BY DEF Kept
<1>7. PlainOrdered'
  BY <1>1, <1>3, <1>5, <1>6 DEF ZipBasics, PlainOrdered, Slots
<1> QED
  BY <1>4, <1>7

\* What the cascade does to the files of an index.
LEMMA ShiftMeans ==
    ASSUME ZipBasics, ZipShift
    PROVE  /\ zipIndex \in Slots /\ zipIndex \in Nat /\ zipIndex >= 1 /\ zipIndex' = zipIndex - 1
           /\ zipPc = "shift" /\ zipPc' = IF zipIndex = 1 THEN "compress" ELSE "shift"
           /\ unflushed = {} /\ unflushed' = {} /\ ~zipOpen
           /\ UNCHANGED <<archive, zipOpen, zipSize, zipLogged, zipLost, zipDeaths, zipOptions>>
           /\ \/ /\ zipIndex = 1 /\ live # {} /\ live' = {} /\ UNCHANGED zipFailed
                 /\ \A i \in Slots : plain'[i] = IF i = 1 THEN live ELSE plain[i]
              \/ /\ zipIndex # 1 /\ zipIndex - 1 \in Slots /\ UNCHANGED <<live, zipFailed>>
                 /\ \A i \in Slots : plain'[i] = IF i = zipIndex THEN plain[zipIndex - 1]
                                                 ELSE IF i = zipIndex - 1 THEN {} ELSE plain[i]
              \/ UNCHANGED <<plain, live>> /\ zipFailed'
              \/ /\ UNCHANGED <<plain, live, zipFailed>>
                 /\ IF zipIndex = 1 THEN live = {} ELSE zipIndex - 1 \in Slots /\ plain[zipIndex - 1] = {}
<1>1. /\ zipPc = "shift" /\ zipIndex \in Slots /\ unflushed = {} /\ ~zipOpen
      /\ plain \in [Slots -> SUBSET Nat]
  BY DEF ZipShift, ZipBasics, ZipTypeOK, ZipPlaces, Rotating
<1>2. zipIndex \in Nat /\ zipIndex >= 1 /\ zipIndex <= KeepFiles /\ KeepFiles \in Nat
  BY <1>1, SlotFacts
<1>3. zipIndex # 1 => zipIndex - 1 \in Slots /\ zipIndex - 1 # zipIndex
  BY <1>2 DEF Slots
<1>4. CASE /\ ZipSource(zipIndex) # {} /\ UNCHANGED zipFailed
           /\ zipIndex = 1 /\ plain' = [plain EXCEPT ![1] = ZipSource(1)] /\ live' = {}
  BY <1>1, <1>2, <1>4 DEF ZipShift, ZipSource
<1>5. CASE /\ UNCHANGED <<live, zipFailed>> /\ zipIndex # 1
           /\ plain' = [plain EXCEPT ![zipIndex] = ZipSource(zipIndex), ![zipIndex - 1] = {}]
  <2>1. \A i \in Slots : plain'[i] = IF i = zipIndex THEN plain[zipIndex - 1]
                                     ELSE IF i = zipIndex - 1 THEN {} ELSE plain[i]
    BY <1>1, <1>3, <1>5 DEF ZipSource
  <2> QED
    BY <1>1, <1>2, <1>3, <1>5, <2>1 DEF ZipShift
<1>6. CASE UNCHANGED <<plain, live>> /\ zipFailed'
  BY <1>1, <1>2, <1>6 DEF ZipShift
<1>7. CASE ZipSource(zipIndex) = {} /\ UNCHANGED <<plain, live, zipFailed>>
  BY <1>1, <1>2, <1>3, <1>7 DEF ZipShift, ZipSource
<1> QED
  BY <1>4, <1>5, <1>6, <1>7 DEF ZipShift

LEMMA ZipOrderShift == ZipBasics /\ ZipShift => PlainOrdered' /\ ZipOnlyLogged'
<1> SUFFICES ASSUME ZipBasics, ZipShift PROVE PlainOrdered' /\ ZipOnlyLogged'
  OBVIOUS
<1> DEFINE k == zipIndex
<1>1. /\ k \in Nat /\ k >= 1 /\ k \in Slots /\ unflushed = {} /\ unflushed' = {}
      /\ UNCHANGED <<archive, zipLogged>>
      /\ \/ /\ k = 1 /\ live' = {} /\ \A i \in Slots : plain'[i] = IF i = 1 THEN live ELSE plain[i]
         \/ /\ k # 1 /\ k - 1 \in Slots /\ live' = live
            /\ \A i \in Slots : plain'[i] = IF i = k THEN plain[k - 1]
                                            ELSE IF i = k - 1 THEN {} ELSE plain[i]
         \/ UNCHANGED <<plain, live>>
  BY ShiftMeans
<1>2. PlainOrdered /\ \A i \in Slots : i \in Nat /\ i >= 1
  BY SlotFacts DEF ZipBasics
<1> HIDE DEF k
<1>3. PlainOrdered'
  <2>1. CASE k = 1 /\ live' = {} /\ \A i \in Slots : plain'[i] = IF i = 1 THEN live ELSE plain[i]
    BY <1>1, <1>2, <2>1 DEF PlainOrdered, Slots
  <2>2. CASE /\ k # 1 /\ k - 1 \in Slots /\ live' = live
             /\ \A i \in Slots : plain'[i] = IF i = k THEN plain[k - 1]
                                             ELSE IF i = k - 1 THEN {} ELSE plain[i]
    BY <1>1, <1>2, <2>2 DEF PlainOrdered, Slots
  <2>3. CASE UNCHANGED <<plain, live>>
    BY <1>1, <1>2, <2>3 DEF PlainOrdered, Slots
  <2> QED
    BY <1>1, <2>1, <2>2, <2>3
<1>4. Kept' \subseteq Kept
  BY <1>1 DEF Kept, Slots
<1> QED
  BY <1>1, <1>3, <1>4 DEF ZipBasics, ZipOnlyLogged

\* What compression may put into the archive.
LEMMA CompressMeans ==
    ASSUME ZipBasics, Compress
    PROVE  /\ zipPc = "compress" /\ zipPc' = "account" /\ Compressing /\ unflushed = {} /\ ~zipOpen
           /\ UNCHANGED <<live, unflushed, plain, zipOpen, zipSize, zipLogged, zipLost, zipDeaths,
                          zipOptions, zipIndex>>
           /\ KeepFiles = 0 => /\ archive' = archive \/ archive'.messages = {}
           /\ KeepFiles > 0 =>
                 \/ archive' = [bytes |-> TRUE, messages |-> plain[1]] /\ UNCHANGED zipFailed
                 \/ zipFailed' /\ (archive' = archive \/ archive'.messages \subseteq plain[1])
<1>1. /\ zipPc = "compress" /\ zipPc' = "account" /\ Compressing /\ unflushed = {} /\ ~zipOpen
      /\ UNCHANGED <<live, unflushed, plain, zipOpen, zipSize, zipLogged, zipLost, zipDeaths,
                     zipOptions, zipIndex>>
  BY DEF Compress, ZipBasics, ZipPlaces, Rotating
<1>2. KeepFiles = 0 => archive' = archive \/ archive'.messages = {}
  BY DEF Compress, Archived
<1>3. ASSUME KeepFiles > 0
      PROVE  \/ archive' = [bytes |-> TRUE, messages |-> plain[1]] /\ UNCHANGED zipFailed
             \/ zipFailed' /\ (archive' = archive \/ archive'.messages \subseteq plain[1])
  <2>1. \/ archive' = [bytes |-> TRUE, messages |-> plain[1]] /\ UNCHANGED zipFailed
        \/ /\ zipFailed' = TRUE
           /\ \/ archive' = archive
              \/ archive' = [bytes |-> FALSE, messages |-> {}]
              \/ \E cut \in plain[1] :
                    archive' = [bytes |-> TRUE, messages |-> {b \in plain[1] : b < cut}]
    BY <1>3 DEF Compress, Archived
  <2> QED
    BY <2>1
<1> QED
  BY <1>1, <1>2, <1>3

LEMMA ZipBasicsStep == ZipBasics /\ [ZipNext]_zipVars => ZipBasics'
<1> SUFFICES ASSUME ZipBasics, [ZipNext]_zipVars PROVE PlainOrdered' /\ ZipOnlyLogged'
  BY ZipTypeStep, ZipPlacesStep DEF ZipBasics
<1>1. /\ plain \in [Slots -> SUBSET Nat] /\ archive.messages \subseteq Kept
      /\ \A i \in Slots : plain[i] \subseteq Kept
  BY DEF ZipBasics, ZipTypeOK, Kept
<1>2. CASE ZipStart \/ ZipFlush \/ ZipClose \/ ZipReopen \/ ZipCrash
           \/ (\E on \in BOOLEAN : EnableAutoTune(on)) \/ UNCHANGED zipVars
  <2>1. /\ UNCHANGED <<plain, archive, zipLogged>>
        /\ live' \cup unflushed' \subseteq live \cup unflushed
    BY <1>2 DEF ZipStart, ZipFlush, ZipClose, ZipReopen, ZipCrash, EnableAutoTune,
                zipVars, zipFiles, zipGhosts
  <2> QED
    BY <1>1, <2>1, ZipShrinks
<1>3. CASE ZipRemoveOldest
  <2>1. /\ UNCHANGED <<live, unflushed, archive, zipLogged>>
        /\ plain' = [plain EXCEPT ![KeepFiles] = {}]
    BY <1>3 DEF ZipRemoveOldest, zipGhosts
  <2>2. \A i \in Slots : plain'[i] \subseteq plain[i]
    BY <1>1, <2>1
  <2> QED
    BY <1>1, <2>1, <2>2, ZipShrinks
<1>4. CASE Compress
  <2>1. archive'.messages \subseteq Kept
    <3>1. CASE KeepFiles = 0
      BY <1>1, <1>4, <3>1, CompressMeans
    <3>2. CASE KeepFiles > 0
      BY <1>1, <1>4, <3>2, CompressMeans, SlotFacts
    <3> QED
      BY <3>1, <3>2, SlotFacts
  <2>2. UNCHANGED <<live, unflushed, plain, zipLogged>>
    BY <1>4, CompressMeans
  <2> QED
    BY <2>1, <2>2, ZipShrinks
<1>5. CASE Account
  <2>1. UNCHANGED <<live, unflushed, archive, zipLogged>>
    BY <1>5 DEF Account, zipGhosts
  <2>2. \A i \in Slots : plain'[i] \subseteq plain[i]
    BY <1>5 DEF Account
  <2> QED
    BY <1>1, <2>1, <2>2, ZipShrinks
<1> QED
  BY <1>2, <1>3, <1>4, <1>5, ZipOrderLog, ZipOrderShift DEF ZipNext
-----------------------------------------------------------------------------
(* CompressedFile: what is kept when nothing fails.                        *)

\* Nothing that happens makes up for a failure.
LEMMA ZipFailures == ZipBasics /\ [ZipNext]_zipVars /\ zipFailed => zipFailed'
<1> SUFFICES ASSUME ZipBasics, [ZipNext]_zipVars, zipFailed PROVE zipFailed'
  OBVIOUS
<1>1. CASE \/ ZipStart \/ ZipFlush \/ (\E s \in ZipLines : ZipRefuse(s) \/ ZipLog(s))
           \/ ZipClose \/ ZipRemoveOldest
           \/ Account \/ ZipReopen \/ (\E on \in BOOLEAN : EnableAutoTune(on)) \/ UNCHANGED zipVars
  <2>1. zipFailed' = zipFailed
    BY <1>1 DEF ZipStart, ZipFlush, ZipRefuse, ZipLog, ZipClose, ZipRemoveOldest, Account,
                ZipReopen, EnableAutoTune, zipVars, zipGhosts
  <2> QED
    BY <2>1
<1>2. CASE ZipShift
  <2>1. zipFailed' = zipFailed \/ zipFailed' = TRUE
    BY <1>2 DEF ZipShift
  <2> QED
    BY <2>1
<1>3. CASE Compress
  <2>1. zipFailed' = zipFailed \/ zipFailed' = TRUE
    BY <1>3 DEF Compress
  <2> QED
    BY <2>1
<1>4. CASE ZipCrash
  <2>1. zipFailed' = zipFailed \/ zipFailed' = TRUE
    BY <1>4 DEF ZipCrash
  <2> QED
    BY <2>1
<1> QED
  BY <1>1, <1>2, <1>3, <1>4 DEF ZipNext

\* What is not kept any more was lost before it was written.
LEMMA ZipNothingDropped ==
    ASSUME ZipInv, ~zipFailed, zipLogged' = zipLogged, Kept' \subseteq Kept,
           Kept \cup zipLost \subseteq Kept' \cup zipLost'
    PROVE  ZipNewestKept'
  BY DEF ZipInv, ZipNewestKept

\* What a step deletes or overwrites is older than all that stays.
LEMMA ZipOldestDropped ==
    ASSUME ZipInv, ~zipFailed, UNCHANGED <<zipLogged, zipLost>>,
           NEW old, Kept' \subseteq Kept, Kept \subseteq Kept' \cup old,
           \A m \in Kept', n \in old : n < m
    PROVE  ZipNewestKept'
<1> SUFFICES ASSUME NEW m \in Kept', NEW n \in m..zipLogged PROVE n \in Kept' \cup zipLost
  BY DEF ZipNewestKept
<1>1. m \in Nat /\ n \in Nat /\ m <= n
  BY DEF ZipInv, ZipBasics, ZipOnlyLogged, ZipTypeOK
<1>2. n \in Kept \cup zipLost
  BY DEF ZipInv, ZipNewestKept
<1>3. n \notin old
  BY <1>1
<1> QED
  BY <1>2, <1>3

\* The steps outside a rotation leave the form of the files alone.
LEMMA FormStays ==
    ASSUME ZipInv, ~zipFailed, UNCHANGED <<plain, archive, zipType>>,
           zipPc \notin {"compress", "account"}, zipPc' \notin {"shift", "account", "reopen"},
           zipPc' = "compress" => KeepFiles = 0,
           NEW line \in SUBSET Nat, \A m \in line : m > zipLogged,
           live' \cup unflushed' \subseteq live \cup unflushed \cup line
    PROVE  ZipGaps' /\ OneForm'
<1>1. OneForm /\ zipLogged \in Nat /\ \A n \in archive.messages : n \in 1..zipLogged
  BY KeptMeans DEF ZipInv, ZipBasics, ZipTypeOK, ZipOnlyLogged
<1>2. ZipGaps'
  BY DEF ZipGaps
<1>3. ASSUME NEW n \in archive.messages,
             NEW m \in live' \cup unflushed' \cup UNION {plain[i] : i \in Slots}
      PROVE  n < m
  <2>1. CASE m \in live \cup unflushed \cup UNION {plain[i] : i \in Slots}
    BY <1>1, <2>1 DEF OneForm
  <2>2. CASE m \in line
    <3>1. n \in 1..zipLogged /\ zipLogged \in Nat
      BY <1>1
    <3>2. m \in Nat /\ m > zipLogged
      BY <2>2
    <3> QED
      BY <3>1, <3>2
  <2> QED
    BY <2>1, <2>2
<1>4. \A i \in Slots : Compressing => plain[i] = {}
  BY <1>1 DEF OneForm
<1>5. OneForm'
  BY <1>1, <1>3, <1>4 DEF OneForm, Compressing, Slots
<1> QED
  BY <1>2, <1>5

LEMMA KeptLog ==
    ASSUME ZipInv, ~zipFailed, NEW s \in ZipLines, ZipLog(s) \/ ZipRefuse(s)
    PROVE  ZipGaps' /\ OneForm' /\ ZipNewestKept'
<1>0. /\ s \in Nat /\ zipLogged \in Nat /\ ZipLine(s) \in SUBSET Nat
      /\ \A m : m \in ZipLine(s) <=> m \in Nat /\ m > zipLogged /\ m <= zipLogged + s
  BY ZipLineMeans DEF ZipInv, ZipBasics, ZipTypeOK
<1>1. /\ UNCHANGED <<plain, live, archive, zipType, zipFailed>> /\ zipPc = "idle"
      /\ zipPc' \in {"idle", "close"} /\ zipLogged' = zipLogged + s
      /\ \/ unflushed' = unflushed \cup ZipLine(s) /\ zipLost' = zipLost
         \/ unflushed' = unflushed /\ zipLost' = zipLost \cup ZipLine(s)
  BY DEF ZipLog, ZipRefuse, zipOptions, zipFiles
<1>2. ZipGaps' /\ OneForm'
  BY <1>0, <1>1, FormStays
<1>3. \/ Kept' = Kept \cup ZipLine(s) /\ zipLost' = zipLost
      \/ Kept' = Kept /\ zipLost' = zipLost \cup ZipLine(s)
  BY <1>1 DEF Kept, Slots
<1>4. Kept \subseteq 1..zipLogged
  BY DEF ZipInv, ZipBasics, ZipOnlyLogged
<1>5. ASSUME NEW m \in Kept', NEW n \in m..zipLogged' PROVE n \in Kept' \cup zipLost'
  <2>1. m \in Nat
    <3>1. m \in Kept \/ m \in ZipLine(s)
      BY <1>3, <1>5
    <3>2. m \in Kept => m \in Nat
      BY <1>0, <1>4
    <3> QED
      BY <1>0, <3>1, <3>2
  <2>2. n \in Nat /\ m <= n /\ n <= zipLogged + s
    BY <1>0, <1>1, <1>5, <2>1
  <2>3. CASE n > zipLogged
    BY <1>0, <1>3, <2>2, <2>3
  <2>4. CASE n <= zipLogged
    <3>0. m \notin ZipLine(s)
      BY <1>0, <2>1, <2>2, <2>4
    <3>1. m \in Kept /\ n \in m..zipLogged
      BY <1>0, <1>3, <1>5, <2>1, <2>2, <2>4, <3>0
    <3> QED
      BY <1>3, <3>1 DEF ZipInv, ZipNewestKept
  <2> QED
    BY <1>0, <2>2, <2>3, <2>4
<1> QED
  BY <1>2, <1>5 DEF ZipNewestKept

LEMMA KeptRemove ==
    ASSUME ZipInv, ~zipFailed, ZipRemoveOldest
    PROVE  ZipGaps' /\ OneForm' /\ ZipNewestKept'
<1>1. /\ zipPc = "remove" /\ zipPc' = "shift" /\ zipIndex' = KeepFiles
      /\ plain' = [plain EXCEPT ![KeepFiles] = {}]
      /\ UNCHANGED <<live, unflushed, archive, zipType, zipLogged, zipLost>>
      /\ KeepFiles \in Slots /\ plain \in [Slots -> SUBSET Nat] /\ OneForm /\ PlainOrdered
  BY SlotFacts DEF ZipRemoveOldest, zipOptions, zipGhosts, ZipInv, ZipBasics, ZipPlaces, ZipTypeOK
<1>2. \A i \in Slots : plain'[i] = IF i = KeepFiles THEN {} ELSE plain[i]
  BY <1>1
<1>3. ZipGaps'
  BY <1>1, <1>2 DEF ZipGaps
<1>4. \A i \in Slots : Compressing => plain[i] = {}
  BY <1>1 DEF OneForm
<1>5. OneForm'
  <2>1. UNION {plain'[i] : i \in Slots} \subseteq UNION {plain[i] : i \in Slots}
    BY <1>2
  <2>2. \A n \in archive.messages :
           \A m \in live \cup unflushed \cup UNION {plain'[i] : i \in Slots} : n < m
    BY <1>1, <2>1 DEF OneForm
  <2>3. \A i \in Slots : Compressing => plain'[i] = {}
    BY <1>2, <1>4
  <2> QED
    BY <1>1, <2>2, <2>3 DEF OneForm, Compressing, Slots
<1>6. Kept' \subseteq Kept /\ Kept \subseteq Kept' \cup plain[KeepFiles]
  <2>1. \A n : n \in Kept' <=> \/ n \in live \/ n \in unflushed \/ n \in archive.messages
                                \/ \E i \in Slots : n \in plain'[i]
    BY <1>1 DEF Kept, Slots
  <2> QED
    BY <1>2, <2>1, KeptMeans
<1>7. CASE Compressing
  <2>1. plain[KeepFiles] = {}
    BY <1>1, <1>4, <1>7
  <2> QED
    BY <1>1, <1>3, <1>5, <1>6, <2>1, ZipNothingDropped
<1>8. CASE ~Compressing
  <2>1. archive.messages = {}
    BY <1>1, <1>8 DEF OneForm
  <2>2. \A m \in Kept' : m \in live \cup unflushed \/ \E i \in Slots : i # KeepFiles /\ m \in plain[i]
    BY <1>1, <1>2, <2>1 DEF Kept, Slots
  <2>3. \A i \in Slots : i # KeepFiles => i < KeepFiles
    BY SlotFacts
  <2>4. \A m \in Kept', n \in plain[KeepFiles] : n < m
    BY <1>1, <2>2, <2>3 DEF PlainOrdered
  <2> QED
    BY <1>1, <1>3, <1>5, <1>6, <2>4, ZipOldestDropped
<1> QED
  BY <1>7, <1>8

\* A rename that does not fail moves messages and keeps them all.
LEMMA ShiftKeeps ==
    ASSUME ZipInv, ~zipFailed, ~zipFailed', ZipShift
    PROVE  /\ Kept' = Kept
           /\ \A n : n \in live' \/ (\E i \in Slots : n \in plain'[i])
                   <=> n \in live \/ (\E i \in Slots : n \in plain[i])
<1> DEFINE k == zipIndex
<1>0. ZipBasics /\ ZipGaps /\ OneForm /\ plain[k] = {} /\ \A i \in Slots : i >= 1 /\ i \in Nat
  BY ShiftMeans, SlotFacts DEF ZipInv, ZipGaps
<1>1. /\ k \in Slots /\ k \in Nat /\ k >= 1 /\ zipIndex' = k - 1
      /\ zipPc = "shift" /\ zipPc' = IF k = 1 THEN "compress" ELSE "shift"
      /\ unflushed = {} /\ unflushed' = {}
      /\ UNCHANGED <<archive, zipLogged, zipLost, zipType>>
      /\ \/ /\ k = 1 /\ live' = {}
            /\ \A i \in Slots : plain'[i] = IF i = 1 THEN live ELSE plain[i]
         \/ /\ k # 1 /\ k - 1 \in Slots /\ live' = live
            /\ \A i \in Slots : plain'[i] = IF i = k THEN plain[k - 1]
                                            ELSE IF i = k - 1 THEN {} ELSE plain[i]
         \/ /\ UNCHANGED <<plain, live>>
            /\ IF k = 1 THEN live = {} ELSE k - 1 \in Slots /\ plain[k - 1] = {}
  BY <1>0, ShiftMeans DEF zipOptions
<1> HIDE DEF k
<1>3. \A n : n \in live' \/ (\E i \in Slots : n \in plain'[i])
             <=> n \in live \/ (\E i \in Slots : n \in plain[i])
  <2>1. CASE k = 1 /\ live' = {} /\ \A i \in Slots : plain'[i] = IF i = 1 THEN live ELSE plain[i]
    BY <1>0, <1>1, <2>1
  <2>2. CASE /\ k # 1 /\ k - 1 \in Slots /\ live' = live
             /\ \A i \in Slots : plain'[i] = IF i = k THEN plain[k - 1]
                                             ELSE IF i = k - 1 THEN {} ELSE plain[i]
    <3>1. k # k - 1
      BY <1>1
    <3>2. plain'[k] = plain[k - 1] /\ plain'[k - 1] = {}
      BY <1>1, <2>2, <3>1
    <3>3. ASSUME NEW n, NEW i \in Slots, n \in plain[i] PROVE \E j \in Slots : n \in plain'[j]
      <4>1. CASE i = k - 1
        BY <1>1, <3>2, <3>3, <4>1
      <4>2. CASE i # k - 1
        <5>1. i # k
          BY <1>0, <3>3
        <5> QED
          BY <2>2, <3>3, <4>2, <5>1
      <4> QED
        BY <4>1, <4>2
    <3>4. ASSUME NEW n, NEW i \in Slots, n \in plain'[i] PROVE \E j \in Slots : n \in plain[j]
      BY <2>2, <3>4
    <3> QED
      BY <2>2, <3>3, <3>4
  <2>3. CASE UNCHANGED <<plain, live>>
    BY <2>3
  <2> QED
    BY <1>1, <2>1, <2>2, <2>3
<1>4. Kept' = Kept
  <2>1. \A n : n \in Kept' <=> \/ n \in live' \/ n \in unflushed' \/ n \in archive.messages
                                \/ \E i \in Slots : n \in plain'[i]
    BY <1>1 DEF Kept, Slots
  <2> QED
    BY <1>1, <1>3, <2>1, KeptMeans
<1> QED
  BY <1>3, <1>4

LEMMA KeptShift ==
    ASSUME ZipInv, ~zipFailed, ~zipFailed', ZipShift
    PROVE  ZipGaps' /\ OneForm' /\ ZipNewestKept'
<1> DEFINE k == zipIndex
<1>0. ZipBasics /\ ZipGaps /\ OneForm /\ plain[k] = {} /\ \A i \in Slots : i >= 1 /\ i \in Nat
  BY ShiftMeans, SlotFacts DEF ZipInv, ZipGaps
<1>1. /\ k \in Slots /\ k \in Nat /\ k >= 1 /\ zipIndex' = k - 1
      /\ zipPc = "shift" /\ zipPc' = IF k = 1 THEN "compress" ELSE "shift"
      /\ unflushed = {} /\ unflushed' = {}
      /\ UNCHANGED <<archive, zipLogged, zipLost, zipType>>
      /\ \/ /\ k = 1 /\ live' = {}
            /\ \A i \in Slots : plain'[i] = IF i = 1 THEN live ELSE plain[i]
         \/ /\ k # 1 /\ k - 1 \in Slots /\ live' = live
            /\ \A i \in Slots : plain'[i] = IF i = k THEN plain[k - 1]
                                            ELSE IF i = k - 1 THEN {} ELSE plain[i]
         \/ /\ UNCHANGED <<plain, live>>
            /\ IF k = 1 THEN live = {} ELSE k - 1 \in Slots /\ plain[k - 1] = {}
  BY <1>0, ShiftMeans DEF zipOptions
<1> HIDE DEF k
<1>2. \A i \in Slots : Compressing => plain[i] = {}
  BY <1>0, <1>1 DEF OneForm
<1>3. \A n : n \in live' \/ (\E i \in Slots : n \in plain'[i])
             <=> n \in live \/ (\E i \in Slots : n \in plain[i])
  BY ShiftKeeps
<1>4. Kept' = Kept
  BY ShiftKeeps
<1>5. ZipGaps'
  <2>1. CASE k = 1
    <3>1. live' = {}
      BY <1>1, <2>1
    <3> QED
      BY <1>1, <2>1, <3>1 DEF ZipGaps
  <2>2. CASE k # 1
    <3>1. k # k - 1 /\ k - 1 \in Slots
      BY <1>1, <2>2
    <3>2. plain'[k - 1] = {}
      BY <1>1, <2>2, <3>1
    <3> QED
      BY <1>1, <2>2, <3>2 DEF ZipGaps
  <2> QED
    BY <2>1, <2>2
<1>6. OneForm'
  <2>1. \A n \in archive.messages :
           \A m \in live' \cup unflushed' \cup UNION {plain'[i] : i \in Slots} : n < m
    BY <1>0, <1>1, <1>3 DEF OneForm
  <2>2. Compressing => \A i \in Slots : plain'[i] = {} \/ (i = 1 /\ zipPc' = "compress")
    <3> SUFFICES ASSUME Compressing, NEW i \in Slots PROVE plain'[i] = {} \/ (i = 1 /\ zipPc' = "compress")
      OBVIOUS
    <3>1. CASE k = 1
      BY <1>1, <1>2, <3>1
    <3>2. CASE k # 1
      BY <1>1, <1>2, <3>2
    <3> QED
      BY <3>1, <3>2
  <2> QED
    BY <1>0, <1>1, <2>1, <2>2 DEF OneForm, Compressing, Slots
<1> QED
  BY <1>1, <1>4, <1>5, <1>6, ZipNothingDropped

LEMMA KeptCompress ==
    ASSUME ZipInv, ~zipFailed, ~zipFailed', Compress
    PROVE  ZipGaps' /\ OneForm' /\ ZipNewestKept'
<1>1. /\ zipPc = "compress" /\ zipPc' = "account" /\ Compressing /\ unflushed = {}
      /\ UNCHANGED <<live, unflushed, plain, zipLogged, zipLost, zipType>>
      /\ KeepFiles = 0 => archive' = archive \/ archive'.messages = {}
      /\ KeepFiles > 0 => archive' = [bytes |-> TRUE, messages |-> plain[1]]
      /\ ZipGaps /\ OneForm
  BY CompressMeans DEF ZipInv, zipOptions
<1>2. ZipGaps'
  BY <1>1 DEF ZipGaps
<1>3. CASE KeepFiles = 0
  <2>1. archive.messages = {} /\ archive'.messages = {}
    BY <1>1, <1>3 DEF OneForm
  <2>2. OneForm'
    BY <1>1, <1>3, <2>1, SlotFacts DEF OneForm, Compressing
  <2>3. Kept' = Kept
    BY <1>1, <2>1 DEF Kept, Slots
  <2> QED
    BY <1>1, <1>2, <2>2, <2>3, ZipNothingDropped
<1>4. CASE KeepFiles > 0
  <2>1. /\ 1 \in Slots /\ archive' = [bytes |-> TRUE, messages |-> plain[1]] /\ live = {}
        /\ \A i \in Slots : i # 1 => plain[i] = {}
    BY <1>1, <1>4, SlotFacts DEF ZipGaps, OneForm
  <2>2. archive'.messages = plain[1]
    BY <2>1
  <2>3. OneForm'
    BY <1>1, <1>4, <2>1, <2>2 DEF OneForm, Compressing, Slots
  <2>4. \A n : n \in Kept' <=> n \in plain[1]
    <3>1. \A n : n \in Kept' <=> \/ n \in live \/ n \in unflushed \/ n \in archive'.messages
                                  \/ \E i \in Slots : n \in plain[i]
      BY <1>1 DEF Kept, Slots
    <3> QED
      BY <1>1, <2>1, <2>2, <3>1
  <2>5. \A n : n \in Kept <=> n \in plain[1] \/ n \in archive.messages
    BY <1>1, <2>1, KeptMeans
  <2>6. \A n \in archive.messages, m \in Kept' : n < m
    <3>1. plain[1] \subseteq UNION {plain[i] : i \in Slots}
      BY <2>1
    <3> QED
      BY <1>1, <2>4, <3>1 DEF OneForm
  <2> QED
    BY <1>1, <1>2, <2>3, <2>4, <2>5, <2>6, ZipOldestDropped
<1> QED
  BY <1>3, <1>4, SlotFacts

LEMMA KeptAccount ==
    ASSUME ZipInv, ~zipFailed, Account
    PROVE  ZipGaps' /\ OneForm' /\ ZipNewestKept'
<1>1. /\ zipPc = "account" /\ zipPc' = "reopen" /\ Compressing
      /\ UNCHANGED <<live, unflushed, archive, zipLogged, zipLost, zipType>>
      /\ \A i \in Slots : plain'[i] = plain[i] \/ (i = 1 /\ plain'[i] = {})
      /\ archive.bytes => \A i \in Slots : plain'[i] = IF i = 1 THEN {} ELSE plain[i]
      /\ ZipGaps /\ OneForm /\ unflushed = {}
  BY DEF Account, zipGhosts, ZipInv, ZipBasics, ZipPlaces, Rotating
<1>2. ZipGaps'
  BY <1>1 DEF ZipGaps
<1>3. CASE KeepFiles = 0
  <2>1. Slots = {} /\ archive.messages = {}
    BY <1>1, <1>3, SlotFacts DEF OneForm
  <2>2. Kept' = Kept
    BY <1>1, <2>1 DEF Kept, Slots
  <2>3. OneForm'
    BY <1>1, <1>3, <2>1 DEF OneForm, Compressing, Slots
  <2> QED
    BY <1>1, <1>2, <2>2, <2>3, ZipNothingDropped
<1>4. CASE KeepFiles > 0
  <2>1. /\ archive.bytes /\ archive.messages = plain[1] /\ 1 \in Slots /\ live = {}
        /\ \A i \in Slots : i # 1 => plain[i] = {}
    BY <1>1, <1>4, SlotFacts DEF OneForm, ZipGaps
  <2>2. \A i \in Slots : plain'[i] = {}
    BY <1>1, <2>1
  <2>3. \A n : n \in Kept' <=> n \in archive.messages
    <3>1. \A n : n \in Kept' <=> \/ n \in live \/ n \in unflushed \/ n \in archive.messages
                                  \/ \E i \in Slots : n \in plain'[i]
      BY <1>1 DEF Kept, Slots
    <3> QED
      BY <1>1, <2>1, <2>2, <3>1
  <2>4. \A n : n \in Kept <=> n \in archive.messages
    BY <1>1, <2>1, KeptMeans
  <2>5. live' \cup unflushed' \cup UNION {plain'[i] : i \in Slots} = {}
    BY <1>1, <2>1, <2>2
  <2>6. OneForm'
    BY <1>1, <1>4, <2>2, <2>5 DEF OneForm, Compressing, Slots
  <2> QED
    BY <1>1, <1>2, <2>3, <2>4, <2>6, ZipNothingDropped
<1> QED
  BY <1>3, <1>4, SlotFacts

LEMMA KeptReopen ==
    ASSUME ZipInv, ~zipFailed, ZipReopen
    PROVE  ZipGaps' /\ OneForm' /\ ZipNewestKept'
<1>1. /\ zipPc = "reopen" \/ (zipPc = "compress" /\ ~Compressing)
      /\ zipPc' = "idle"
      /\ live' = {} \/ live' = live
      /\ UNCHANGED <<unflushed, plain, archive, zipLogged, zipLost, zipType>>
      /\ ZipGaps /\ OneForm /\ unflushed = {}
  BY DEF ZipReopen, zipOptions, zipGhosts, ZipInv, ZipBasics, ZipPlaces, Rotating
<1>2. ZipGaps'
  BY <1>1 DEF ZipGaps
<1>3. \A i \in Slots : Compressing => plain[i] = {}
  BY <1>1 DEF OneForm
<1>4. OneForm'
  <2>1. \A n \in archive.messages :
           \A m \in live' \cup unflushed' \cup UNION {plain[i] : i \in Slots} : n < m
    BY <1>1 DEF OneForm
  <2> QED
    BY <1>1, <1>3, <2>1 DEF OneForm, Compressing, Slots
<1>5. CASE live' = live
  <2>1. Kept' = Kept
    BY <1>1, <1>5 DEF Kept, Slots
  <2> QED
    BY <1>1, <1>2, <1>4, <2>1, ZipNothingDropped
<1>6. CASE KeepFiles > 0
  <2>1. live' = live
    BY <1>1, <1>6 DEF ZipGaps
  <2> QED
    BY <1>5, <2>1
<1>7. CASE KeepFiles = 0 /\ live' = {}
  <2>1. Kept' = {}
    BY <1>1, <1>7, SlotFacts DEF OneForm, Kept, Slots
  <2> QED
    BY <1>2, <1>4, <2>1 DEF ZipNewestKept
<1> QED
  BY <1>1, <1>5, <1>6, <1>7, SlotFacts

LEMMA KeptOutside ==
    ASSUME ZipInv, ~zipFailed, ~zipFailed',
           \/ ZipStart \/ ZipFlush \/ ZipClose \/ ZipCrash
           \/ \E on \in BOOLEAN : EnableAutoTune(on)
    PROVE  ZipGaps' /\ OneForm' /\ ZipNewestKept'
<1>1. /\ UNCHANGED <<plain, archive, zipType, zipLogged>>
      /\ live' \cup unflushed' \subseteq live \cup unflushed
      /\ live \cup unflushed \cup zipLost \subseteq live' \cup unflushed' \cup zipLost'
      /\ zipLost \subseteq zipLost'
      /\ zipPc \notin {"compress", "account"} /\ zipPc' \notin {"shift", "account", "reopen"}
      /\ zipPc' = "compress" => KeepFiles = 0
  <2>1. KeepFiles \in Nat /\ (zipOpen => zipPc \in {"idle", "close"})
    BY SlotFacts DEF ZipInv, ZipBasics, ZipPlaces, ZipTypeOK, Rotating
  <2>2. CASE ZipStart
    BY <2>2 DEF ZipStart, zipOptions, zipGhosts
  <2>3. CASE ZipFlush
    BY <2>1, <2>3 DEF ZipFlush, zipOptions, zipGhosts
  <2>4. CASE ZipClose
    BY <2>1, <2>4 DEF ZipClose, zipOptions, zipGhosts
  <2>5. CASE ZipCrash
    BY <2>5 DEF ZipCrash
  <2>6. CASE \E on \in BOOLEAN : EnableAutoTune(on)
    BY <2>6 DEF EnableAutoTune, zipFiles, zipGhosts
  <2> QED
    BY <2>2, <2>3, <2>4, <2>5, <2>6
<1>2. Kept' \subseteq Kept /\ Kept \cup zipLost \subseteq Kept' \cup zipLost'
  BY <1>1 DEF Kept, Slots
<1>3. ZipGaps' /\ OneForm'
  <2>1. {} \in SUBSET Nat /\ live' \cup unflushed' \subseteq live \cup unflushed \cup {}
    BY <1>1
  <2> QED
    BY <1>1, <2>1, FormStays
<1> QED
  BY <1>1, <1>2, <1>3, ZipNothingDropped

LEMMA ZipInvStep == ZipInv /\ [ZipNext]_zipVars => ZipInv'
<1> SUFFICES ASSUME ZipInv, [ZipNext]_zipVars PROVE ZipInv'
  OBVIOUS
<1>1. ZipBasics /\ ZipBasics'
  BY ZipBasicsStep DEF ZipInv
<1>2. CASE zipFailed'
  BY <1>1, <1>2 DEF ZipInv, ZipNewestKept
<1>3. CASE ~zipFailed'
  <2>1. ~zipFailed
    BY <1>1, <1>3, ZipFailures
  <2>2. CASE UNCHANGED zipVars
    <3>1. UNCHANGED <<live, unflushed, plain, archive, zipType, zipPc, zipIndex, zipLogged, zipLost>>
      BY <2>2 DEF zipVars, zipOptions, zipFiles, zipGhosts
    <3>2. Kept' = Kept
      BY <3>1 DEF Kept, Slots
    <3>3. ZipGaps' /\ OneForm'
      BY <2>1, <3>1 DEF ZipInv, ZipGaps, OneForm, Compressing, Slots
    <3> QED
      BY <1>1, <2>1, <3>1, <3>2, <3>3, ZipNothingDropped DEF ZipInv
  <2> QED
    BY <1>1, <1>3, <2>1, <2>2, KeptLog, KeptRemove, KeptShift, KeptCompress, KeptAccount,
       KeptReopen, KeptOutside DEF ZipNext, ZipInv
<1> QED
  BY <1>2, <1>3

-----------------------------------------------------------------------------
(* CompressedFile: the level.                                              *)

\* The levels a process starts with are levels of its library.
StartsInRange ==
    /\ StartLevels \subseteq 1..22
    /\ "gzip" \in Types => StartLevels \subseteq 1..9

LEMMA TypeStays == [ZipNext]_zipVars => zipType' = zipType
  BY DEF ZipNext, ZipStart, ZipFlush, ZipRefuse, ZipLog, ZipClose, ZipRemoveOldest, ZipShift,
         Compress, Account, ZipReopen, ZipCrash, EnableAutoTune, zipVars, zipOptions

LEMMA LevelFirst == StartsInRange /\ ZipInit => LevelInv
  BY DEF StartsInRange, ZipInit, LevelInv, LowestLevel, HighestLevel

LEMMA LevelChosen ==
    ASSUME level \in LowestLevel..HighestLevel, NEW r, NEW v
    PROVE  OptimalLevel(r, v) \in LowestLevel..HighestLevel
<1>1. LowestLevel = 1 /\ HighestLevel \in {9, 22} /\ level \in 1..HighestLevel
  BY DEF LowestLevel, HighestLevel
<1>2. AtLeast(1, level - 1) \in 1..HighestLevel /\ AtMost(HighestLevel, level + 1) \in 1..HighestLevel
  BY <1>1 DEF AtLeast, AtMost
<1>3. level > 1 + 1 => level - 1 \in 1..HighestLevel
  BY <1>1
<1> QED
  BY <1>1, <1>2, <1>3 DEF OptimalLevel

LEMMA LevelStep ==
    StartsInRange /\ ZipTypeOK /\ LevelInv /\ [ZipNext]_zipVars => LevelInv'
<1> SUFFICES ASSUME StartsInRange, ZipTypeOK, LevelInv, [ZipNext]_zipVars PROVE LevelInv'
  OBVIOUS
<1>1. /\ level \in LowestLevel..HighestLevel /\ optionLevel \in LowestLevel..HighestLevel
      /\ zipAuto => level = optionLevel
  BY DEF LevelInv
<1>2. zipType' = zipType
  BY TypeStays
<1>3. (LowestLevel..HighestLevel)' = LowestLevel..HighestLevel
  BY <1>2 DEF LowestLevel, HighestLevel
<1>4. CASE UNCHANGED <<level, optionLevel, zipAuto>>
  BY <1>1, <1>3, <1>4 DEF LevelInv
<1>5. CASE Account
  <2>1. zipAuto' = zipAuto /\ (UNCHANGED <<level, optionLevel>> \/ UpdateLevel)
    BY <1>5 DEF Account
  <2>2. CASE /\ zipAuto /\ optionLevel' = IF level' # level THEN level' ELSE optionLevel
             /\ \E ratio \in {"poor", "good", "great"}, speed \in {"slow", "medium", "fast"} :
                   level' = OptimalLevel(ratio, speed)
    <3>1. level' \in LowestLevel..HighestLevel
      BY <1>1, <2>2, LevelChosen
    <3>2. level' = optionLevel'
      BY <1>1, <2>2
    <3> QED
      BY <1>3, <3>1, <3>2 DEF LevelInv
  <2> QED
    BY <1>4, <2>1, <2>2 DEF UpdateLevel
<1>6. CASE \E on \in BOOLEAN : EnableAutoTune(on)
  <2>1. /\ optionLevel' = optionLevel
        /\ level' = optionLevel \/ (level' = level /\ ~zipAuto')
    BY <1>6 DEF EnableAutoTune
  <2> QED
    BY <1>1, <1>3, <2>1 DEF LevelInv
<1>7. CASE ZipCrash
  <2>1. level' \in StartLevels /\ optionLevel' = level'
    BY <1>7 DEF ZipCrash
  <2>2. StartLevels \subseteq LowestLevel..HighestLevel
    BY DEF StartsInRange, LowestLevel, HighestLevel, ZipTypeOK
  <2> QED
    BY <1>3, <2>1, <2>2 DEF LevelInv
<1>8. CASE \/ ZipStart \/ ZipFlush \/ (\E s \in ZipLines : ZipRefuse(s) \/ ZipLog(s))
           \/ ZipClose \/ ZipRemoveOldest \/ ZipShift \/ Compress \/ ZipReopen \/ UNCHANGED zipVars
  BY <1>4, <1>8 DEF ZipStart, ZipFlush, ZipRefuse, ZipLog, ZipClose, ZipRemoveOldest, ZipShift,
     Compress, ZipReopen, zipVars, zipOptions
<1> QED
  BY <1>5, <1>6, <1>7, <1>8 DEF ZipNext
-----------------------------------------------------------------------------
(* CompressedFile: how much is kept.                                       *)

LEMMA ZFullGrows ==
    /\ ZFull(0) = 0
    /\ \A i \in Nat : ZFull(i) \in Nat /\ ZFull(i + 1) = ZFull(i) + FileSize
  BY FileSizeAssumption DEF ZFull

\* The invariant where it speaks, with the types of all that it names.
LEMMA ZKeepingMeans ==
    ASSUME ZipTypeOK, ZKeeping, Undeterred, KeepFiles > 0, FileSize > 0, ~Compressing
    PROVE  /\ ZCurrentNewest /\ ZFilesBehind /\ ZNewestStored
           /\ ZPending \in Nat /\ zipLogged \in Nat /\ FileSize \in Nat /\ KeepFiles \in Nat
           /\ zipIndex \in Nat /\ plain \in [Slots -> SUBSET Nat] /\ zipSize \in Nat
           /\ ZRoom \in Nat
           /\ ZFull(KeepFiles) \in Nat /\ ZFull(KeepFiles) = ZFull(KeepFiles - 1) + FileSize
           /\ \A i \in Slots : i \in Nat /\ ZFull(i - 1) \in Nat
<1>1. FileSize \in Nat /\ KeepFiles \in Nat /\ KeepFiles - 1 \in Nat /\ KeepFiles - 1 + 1 = KeepFiles
  BY SlotFacts
<1>2. ZFull(KeepFiles) \in Nat /\ ZFull(KeepFiles) = ZFull(KeepFiles - 1) + FileSize
  BY <1>1, ZFullGrows
<1>3. \A i \in Slots : i \in Nat /\ ZFull(i - 1) \in Nat
  <2>1. \A i \in Slots : i \in Nat /\ i - 1 \in Nat
    BY SlotFacts
  <2> QED
    BY <2>1, ZFullGrows
<1>4. zipLogged \in Nat /\ zipIndex \in Nat /\ zipSize \in Nat /\ plain \in [Slots -> SUBSET Nat]
  BY <1>1 DEF ZipTypeOK
<1>5. ZPending \in Nat /\ ZRoom \in Nat
  BY <1>1, <1>2, <1>4 DEF ZPending, ZRoom
<1>6. ZCurrentNewest /\ ZFilesBehind /\ ZNewestStored
  BY DEF ZKeeping
<1> QED
  BY <1>1, <1>2, <1>3, <1>4, <1>5, <1>6

LEMMA ZKeepingFirst == ZipInit => ZKeeping
<1> SUFFICES ASSUME ZipInit, FileSize > 0 PROVE ZCurrentNewest /\ ZFilesBehind /\ ZNewestStored
  BY DEF ZKeeping
<1>1. /\ ZPending = 0 /\ zipLogged = 0 /\ zipPc = "start" /\ live = {} /\ unflushed = {}
      /\ \A i \in Slots : plain[i] = {}
  BY DEF ZipInit, ZPending
<1>2. ZCurrentNewest
  BY <1>1 DEF ZCurrentNewest
<1>3. ZFilesBehind /\ ZNewestStored
  BY <1>1 DEF ZFilesBehind, ZNewestStored
<1> QED
  BY <1>2, <1>3

\* Nothing that happens makes up for a failure, a crash or a refusal.
LEMMA Deterred == ZipBasics /\ [ZipNext]_zipVars /\ Undeterred' => Undeterred
<1> SUFFICES ASSUME ZipBasics, [ZipNext]_zipVars, Undeterred' PROVE Undeterred
  OBVIOUS
<1>1. ~zipFailed
  BY ZipFailures DEF Undeterred
<1>2. zipDeaths \in Nat
  BY DEF ZipBasics, ZipTypeOK
<1>3. zipDeaths' = 0 => zipDeaths = 0
  <2>1. CASE ZipCrash
    <3>1. zipDeaths' = zipDeaths + 1
      BY <2>1 DEF ZipCrash
    <3> QED
      BY <1>2, <3>1
  <2>2. CASE \/ ZipStart \/ ZipFlush \/ (\E s \in ZipLines : ZipLog(s)) \/ ZipClose \/ ZipRemoveOldest \/ ZipReopen
             \/ Account \/ (\E on \in BOOLEAN : EnableAutoTune(on)) \/ UNCHANGED zipVars
    BY <2>2 DEF ZipStart, ZipFlush, ZipLog, ZipClose, ZipRemoveOldest, Account, ZipReopen,
       EnableAutoTune, zipVars, zipGhosts
  <2>3. CASE ZipShift \/ Compress \/ \E s \in ZipLines : ZipRefuse(s)
    BY <2>3 DEF ZipShift, Compress, ZipRefuse
  <2> QED
    BY <2>1, <2>2, <2>3 DEF ZipNext
<1>4. zipLost \subseteq zipLost'
  <2>1. CASE ZipCrash \/ \E s \in ZipLines : ZipRefuse(s)
    BY <2>1 DEF ZipRefuse, ZipCrash
  <2>2. CASE \/ ZipStart \/ ZipFlush \/ (\E s \in ZipLines : ZipLog(s)) \/ ZipClose \/ ZipRemoveOldest \/ ZipReopen
             \/ Account \/ (\E on \in BOOLEAN : EnableAutoTune(on)) \/ UNCHANGED zipVars
    BY <2>2 DEF ZipStart, ZipFlush, ZipLog, ZipClose, ZipRemoveOldest, Account, ZipReopen,
       EnableAutoTune, zipVars, zipGhosts
  <2>3. CASE ZipShift \/ Compress
    BY <2>3 DEF ZipShift, Compress
  <2> QED
    BY <2>1, <2>2, <2>3 DEF ZipNext
<1>5. zipDeaths' = 0 /\ zipLost' = {}
  BY DEF Undeterred
<1>6. zipDeaths = 0 /\ zipLost = {}
  BY <1>3, <1>4, <1>5
<1> QED
  BY <1>1, <1>6 DEF Undeterred

\* The steps that neither log nor rename.
LEMMA ZKeepingPut ==
    ASSUME ZipTypeOK, ZKeeping, Undeterred, KeepFiles > 0, FileSize > 0, ~Compressing,
           UNCHANGED <<plain, archive, zipLogged, zipType>>,
           live' \cup unflushed' = live \cup unflushed, ZPending' = ZPending,
           zipPc' = "shift" => zipPc = "shift" /\ zipIndex' = zipIndex,
           zipPc = "shift" => zipPc' = "shift",
           zipPc' = "idle" /\ zipOpen' => zipSize' < FileSize,
           zipPc' \in {"close", "remove", "shift"} => zipSize' >= FileSize
    PROVE  ZKeeping'
<1>1. \A i : ZFull(i)' = ZFull(i)
  BY DEF ZFull
<1>2. ZRoom' = ZRoom
  BY <1>1 DEF ZRoom, Compressing
<1>3. Kept' = Kept
  BY DEF Kept, Slots
<1>4. ZCurrentNewest'
  BY ZKeepingMeans DEF ZCurrentNewest
<1>5. ZFilesBehind'
  BY <1>1, ZKeepingMeans DEF ZFilesBehind, Slots
<1>6. ZNewestStored'
  BY <1>2, <1>3, ZKeepingMeans DEF ZNewestStored
<1> QED
  BY <1>4, <1>5, <1>6 DEF ZKeeping

LEMMA ZKeepingLog ==
    ASSUME ZipTypeOK, ZKeeping, Undeterred, KeepFiles > 0, FileSize > 0, ~Compressing,
           NEW s \in ZipLines, ZipLog(s)
    PROVE  ZKeeping'
<1>1. /\ zipOpen /\ zipPc = "idle" /\ unflushed' = unflushed \cup ZipLine(s)
      /\ zipLogged' = zipLogged + s /\ zipSize' = zipSize + s
      /\ zipPc' = IF zipSize + s >= FileSize THEN "close" ELSE "idle"
      /\ UNCHANGED <<live, plain, archive, zipOpen, zipType>>
  BY DEF ZipLog, zipOptions
<1>2. /\ ZCurrentNewest /\ ZFilesBehind /\ ZNewestStored
      /\ zipLogged \in Nat /\ FileSize \in Nat /\ zipSize \in Nat /\ ZRoom \in Nat
      /\ plain \in [Slots -> SUBSET Nat] /\ s \in Nat
  BY ZKeepingMeans, ZipLineMeans
<1>3. ZPending = zipSize /\ zipSize < FileSize
  BY <1>1, <1>2 DEF ZPending, ZCurrentNewest
<1>4. ZPending' = ZPending + s
  BY <1>1, <1>2, <1>3 DEF ZPending
<1>5. ZCurrentNewest'
  <2>1. live' \cup unflushed' = (live \cup unflushed) \cup ZipLine(s)
    BY <1>1
  <2>2. live \cup unflushed = (zipLogged - ZPending + 1)..zipLogged /\ ZPending <= zipLogged
    BY <1>2 DEF ZCurrentNewest
  <2>3. live' \cup unflushed' = (zipLogged' - ZPending' + 1)..zipLogged'
    BY <1>1, <1>2, <1>3, <1>4, <2>1, <2>2 DEF ZipLine
  <2>4. ZPending' <= zipLogged'
    BY <1>1, <1>2, <1>3, <1>4, <2>2
  <2>5. zipPc' = "idle" /\ zipOpen' => zipSize' < FileSize
    BY <1>1, <1>2
  <2>6. zipPc' \in {"close", "remove", "shift"} => zipSize' >= FileSize
    BY <1>1
  <2> QED
    BY <2>3, <2>4, <2>5, <2>6 DEF ZCurrentNewest
<1>6. zipLogged' - ZPending' = zipLogged - ZPending /\ zipPc' # "shift" /\ zipPc # "shift"
  BY <1>1, <1>2, <1>3, <1>4
<1>7. ZFilesBehind'
  BY <1>1, <1>2, <1>6 DEF ZFilesBehind, Slots, ZFull
<1>8. ZNewestStored'
  <2>1. Kept' = Kept \cup ZipLine(s)
    BY <1>1 DEF Kept, Slots
  <2>2. ZRoom' = ZRoom
    BY <1>1 DEF ZRoom, ZFull, Compressing
  <2> SUFFICES ASSUME NEW n \in 1..zipLogged', n > zipLogged' - ZPending' - ZRoom
               PROVE  n \in Kept'
    BY <1>6, <2>2 DEF ZNewestStored
  <2>3. CASE n > zipLogged
    BY <1>1, <1>2, <2>1, <2>3 DEF ZipLine
  <2>4. CASE n <= zipLogged
    <3>1. n \in 1..zipLogged /\ n > zipLogged - ZPending - ZRoom
      BY <1>1, <1>2, <1>6, <2>4
    <3> QED
      BY <1>2, <1>6, <2>1, <3>1 DEF ZNewestStored
  <2> QED
    BY <1>1, <1>2, <2>3, <2>4
<1> QED
  BY <1>5, <1>7, <1>8 DEF ZKeeping

\* What the removal of the last index deletes has no room any more.
LEMMA ZKeepingRemove ==
    ASSUME ZipTypeOK, ZKeeping, Undeterred, KeepFiles > 0, FileSize > 0, ~Compressing, ZipRemoveOldest
    PROVE  ZKeeping'
<1>1. /\ zipPc = "remove" /\ zipPc' = "shift" /\ zipIndex' = KeepFiles
      /\ plain' = [plain EXCEPT ![KeepFiles] = {}]
      /\ UNCHANGED <<live, unflushed, archive, zipType, zipLogged, zipOpen, zipSize>>
  BY DEF ZipRemoveOldest, zipOptions, zipGhosts
<1>2. /\ ZCurrentNewest /\ ZFilesBehind /\ ZNewestStored
      /\ zipLogged \in Nat /\ FileSize \in Nat
      /\ ZPending \in Nat /\ ZPending >= FileSize /\ ZPending' = ZPending /\ zipSize \in Nat
      /\ plain \in [Slots -> SUBSET Nat] /\ ZRoom \in Nat /\ KeepFiles \in Nat
      /\ ZFull(KeepFiles) = ZFull(KeepFiles - 1) + FileSize /\ ZFull(KeepFiles) \in Nat
      /\ \A i \in Slots : i \in Nat /\ i <= KeepFiles /\ ZFull(i - 1) \in Nat
      /\ KeepFiles \in Slots
  BY <1>1, ZKeepingMeans, SlotFacts DEF ZPending, ZCurrentNewest
<1>3. \A i \in Slots : plain'[i] = IF i = KeepFiles THEN {} ELSE plain[i]
  BY <1>1, <1>2
<1>4. \A i : ZFull(i)' = ZFull(i)
  BY DEF ZFull
<1>5. ZCurrentNewest'
  BY <1>1, <1>2 DEF ZCurrentNewest
<1>6. ZFilesBehind'
  <2> SUFFICES ASSUME NEW i \in Slots, NEW n \in plain'[i]
               PROVE  n + ZFull(i - 1) <= zipLogged - ZPending
    BY <1>1, <1>2, <1>4 DEF ZFilesBehind, Slots
  <2> QED
    BY <1>1, <1>2, <1>3 DEF ZFilesBehind
<1>7. \A n \in plain[KeepFiles] : n \in Nat /\ n <= zipLogged - ZRoom
  <2> SUFFICES ASSUME NEW n \in plain[KeepFiles] PROVE n \in Nat /\ n <= zipLogged - ZFull(KeepFiles)
    BY DEF ZRoom
  <2>1. n \in Nat /\ n + ZFull(KeepFiles - 1) <= zipLogged - ZPending /\ ZFull(KeepFiles - 1) \in Nat
    BY <1>1, <1>2 DEF ZFilesBehind
  <2> QED
    BY <1>2, <2>1
<1>8. ZNewestStored'
  <2>1. ZRoom' = ZRoom
    BY <1>1, <1>4 DEF ZRoom, Compressing
  <2>2. Kept \subseteq Kept' \cup plain[KeepFiles]
    <3>1. \A n : n \in Kept' <=> \/ n \in live \/ n \in unflushed \/ n \in archive.messages
                                  \/ \E i \in Slots : n \in plain'[i]
      BY <1>1 DEF Kept, Slots
    <3> QED
      BY <1>3, <3>1, KeptMeans
  <2> SUFFICES ASSUME NEW n \in 1..zipLogged, n > zipLogged - 0 - ZRoom PROVE n \in Kept'
    BY <1>1, <2>1 DEF ZNewestStored
  <2>3. n \in Kept
    BY <1>1, <1>2 DEF ZNewestStored
  <2>4. n \notin plain[KeepFiles]
    BY <1>2, <1>7
  <2> QED
    BY <2>2, <2>3, <2>4
<1> QED
  BY <1>5, <1>6, <1>8 DEF ZKeeping

LEMMA ZKeepingShift ==
    ASSUME ZipInv, ZKeeping, Undeterred, Undeterred', KeepFiles > 0, FileSize > 0, ~Compressing, ZipShift
    PROVE  ZKeeping'
<1> DEFINE k == zipIndex
<1>1. ZipTypeOK /\ ZipGaps /\ ~zipFailed /\ ~zipFailed' /\ ZipBasics
  BY DEF ZipInv, ZipBasics, Undeterred
<1>2. /\ ZCurrentNewest /\ ZFilesBehind /\ ZNewestStored
      /\ zipLogged \in Nat /\ FileSize \in Nat /\ plain \in [Slots -> SUBSET Nat]
      /\ zipSize \in Nat /\ ZRoom \in Nat /\ \A i \in Slots : i \in Nat /\ ZFull(i - 1) \in Nat
  BY <1>1, ZKeepingMeans
<1>3. /\ k \in Slots /\ k \in Nat /\ k >= 1 /\ zipIndex' = k - 1
      /\ zipPc = "shift" /\ zipPc' = IF k = 1 THEN "compress" ELSE "shift"
      /\ unflushed = {} /\ unflushed' = {} /\ zipType' = zipType /\ zipLogged' = zipLogged
      /\ plain[k] = {}
      /\ ZPending \in Nat /\ ZPending = zipSize /\ ZPending >= FileSize /\ zipSize' = zipSize
      /\ \/ /\ k = 1 /\ live' = {}
            /\ \A i \in Slots : plain'[i] = IF i = 1 THEN live ELSE plain[i]
         \/ /\ k # 1 /\ k - 1 \in Slots /\ live' = live
            /\ \A i \in Slots : plain'[i] = IF i = k THEN plain[k - 1]
                                            ELSE IF i = k - 1 THEN {} ELSE plain[i]
         \/ /\ UNCHANGED <<plain, live>>
            /\ IF k = 1 THEN live = {} ELSE k - 1 \in Slots /\ plain[k - 1] = {}
  BY <1>1, <1>2, ShiftMeans DEF zipOptions, ZipGaps, ZPending, ZCurrentNewest
<1>4. live = (zipLogged - ZPending + 1)..zipLogged /\ ZPending <= zipLogged
  BY <1>2, <1>3 DEF ZCurrentNewest
<1>5. \A i : ZFull(i)' = ZFull(i)
  BY DEF ZFull
<1>6. ZNewestStored'
  <2>1. ZRoom' = ZRoom
    BY <1>3, <1>5 DEF ZRoom, Compressing
  <2>2. ZPending' = (IF k = 1 THEN 0 ELSE ZPending)
    BY <1>3 DEF ZPending
  <2>3. Kept' = Kept
    BY <1>1, ShiftKeeps
  <2>4. (IF zipPc' = "shift" THEN 0 ELSE ZPending') = 0
    BY <1>3, <2>2
  <2>5. \A n \in 1..zipLogged : n > zipLogged - 0 - ZRoom => n \in Kept
    BY <1>2, <1>3 DEF ZNewestStored
  <2>6. zipLogged' = zipLogged
    BY <1>3
  <2> SUFFICES ASSUME NEW n \in (1..zipLogged)',
                      n > (zipLogged - (IF zipPc = "shift" THEN 0 ELSE ZPending) - ZRoom)'
               PROVE  (n \in Kept)'
    BY DEF ZNewestStored
  <2>7. n \in 1..zipLogged
    BY <2>6
  <2>8. n > zipLogged - 0 - ZRoom
    BY <2>1, <2>4, <2>6
  <2> QED
    BY <2>3, <2>5, <2>7, <2>8
<1>7. CASE k = 1
  <2>1. zipLogged \in live
    BY <1>2, <1>3, <1>4
  <2>2. live' = {} /\ \A i \in Slots : plain'[i] = IF i = 1 THEN live ELSE plain[i]
    BY <1>3, <1>7, <2>1
  <2>3. zipPc' = "compress" /\ ZPending' = 0 /\ 1 \in Slots
    BY <1>3, <1>7 DEF ZPending
  <2>4. ZCurrentNewest'
    <3>1. live' \cup unflushed' = (zipLogged - 0 + 1)..zipLogged
      BY <1>2, <1>3, <2>2
    <3> QED
      BY <1>2, <1>3, <2>3, <3>1 DEF ZCurrentNewest
  <2>5. ZFilesBehind'
    <3> SUFFICES ASSUME NEW i \in Slots, NEW n \in plain'[i] PROVE n + ZFull(i - 1) <= zipLogged - 0
      BY <1>3, <1>5, <2>3 DEF ZFilesBehind, Slots
    <3>1. CASE i = 1
      <4>1. n \in (zipLogged - ZPending + 1)..zipLogged
        BY <1>4, <2>2, <3>1
      <4>2. i - 1 = 0
        BY <3>1
      <4>3. ZFull(i - 1) = 0
        BY <4>2, ZFullGrows
      <4> QED
        BY <1>2, <4>1, <4>3
    <3>2. CASE i # 1
      <4>1. i > k /\ n \in plain[i] /\ n \in Nat
        BY <1>2, <1>7, <2>2, <3>2, SlotFacts
      <4> QED
        BY <1>2, <1>3, <4>1 DEF ZFilesBehind
    <3> QED
      BY <3>1, <3>2
  <2> QED
    BY <1>6, <2>4, <2>5 DEF ZKeeping
<1>8. CASE k # 1
  <2>1. /\ k - 1 \in Slots /\ k # k - 1 /\ live' = live /\ zipPc' = "shift" /\ ZPending' = ZPending
        /\ plain'[k - 1] = {} /\ plain'[k] = plain[k - 1]
        /\ \A i \in Slots : i # k /\ i # k - 1 => plain'[i] = plain[i]
    <3>1. /\ k - 1 \in Slots /\ k # k - 1 /\ live' = live /\ zipPc' = "shift"
          /\ \/ \A i \in Slots : plain'[i] = IF i = k THEN plain[k - 1]
                                             ELSE IF i = k - 1 THEN {} ELSE plain[i]
             \/ plain' = plain /\ plain[k - 1] = {}
      BY <1>3, <1>8
    <3>2. ZPending' = ZPending
      BY <1>3, <3>1 DEF ZPending
    <3>3. /\ plain'[k - 1] = {} /\ plain'[k] = plain[k - 1]
          /\ \A i \in Slots : i # k /\ i # k - 1 => plain'[i] = plain[i]
      <4>1. CASE \A i \in Slots : plain'[i] = IF i = k THEN plain[k - 1]
                                              ELSE IF i = k - 1 THEN {} ELSE plain[i]
        BY <1>3, <3>1, <4>1
      <4>2. CASE plain' = plain /\ plain[k - 1] = {}
        BY <1>3, <4>2
      <4> QED
        BY <3>1, <4>1, <4>2
    <3> QED
      BY <3>1, <3>2, <3>3
  <2>2. ZCurrentNewest'
    <3>1. live' \cup unflushed' = (zipLogged - ZPending + 1)..zipLogged
      BY <1>3, <1>4, <2>1
    <3> QED
      BY <1>3, <1>4, <2>1, <3>1 DEF ZCurrentNewest
  <2>3. ZFull(k - 1) = ZFull(k - 1 - 1) + FileSize /\ ZFull(k - 1 - 1) \in Nat
    <3>1. k - 1 - 1 \in Nat /\ k - 1 - 1 + 1 = k - 1
      BY <1>3, <1>8
    <3> QED
      BY <3>1, ZFullGrows
  <2>4. ZFilesBehind'
    <3> SUFFICES ASSUME NEW i \in Slots, NEW n \in plain'[i]
                 PROVE  n + ZFull(i - 1) <= IF i > k - 1 THEN zipLogged ELSE zipLogged - ZPending
      BY <1>3, <1>5, <2>1 DEF ZFilesBehind, Slots
    <3> HIDE DEF k
    <3>1. CASE i = k
      <4>1. n \in plain[k - 1] /\ n \in Nat
        BY <1>2, <2>1, <3>1
      <4>2. ~(k - 1 > k)
        BY <1>3
      <4>3. n + ZFull(k - 1 - 1) <= zipLogged - ZPending
        BY <1>2, <1>3, <2>1, <4>1, <4>2 DEF ZFilesBehind, k
      <4> QED
        BY <1>2, <1>3, <2>3, <3>1, <4>1, <4>3
    <3>2. CASE i # k
      <4>1. n \in plain[i] /\ n \in Nat /\ i \in Nat /\ ZFull(i - 1) \in Nat
        BY <1>2, <2>1, <3>2
      <4>2. n + ZFull(i - 1) <= IF i > k THEN zipLogged ELSE zipLogged - ZPending
        BY <1>2, <1>3, <4>1 DEF ZFilesBehind, k
      <4>3. i > k - 1 => i > k
        BY <1>3, <3>2, <4>1
      <4>4. i > k => i > k - 1
        BY <1>3, <4>1
      <4> QED
        BY <4>2, <4>3, <4>4
    <3> QED
      BY <3>1, <3>2
  <2> QED
    BY <1>6, <2>2, <2>4 DEF ZKeeping
<1> QED
  BY <1>7, <1>8

LEMMA ZKeepingReopen ==
    ASSUME ZipInv, ZKeeping, Undeterred, KeepFiles > 0, FileSize > 0, ~Compressing, ZipReopen
    PROVE  ZKeeping'
<1>1. ZipTypeOK /\ ZipGaps
  BY DEF ZipInv, ZipBasics, Undeterred
<1>2. /\ zipPc \in {"reopen", "compress"} /\ zipPc' = "idle" /\ zipSize' = 0
      /\ UNCHANGED <<unflushed, plain, archive, zipLogged, zipType>>
      /\ live' = {} /\ live = {}
  BY <1>1 DEF ZipReopen, zipOptions, zipGhosts, ZipGaps
<1>3. ZPending = 0 /\ ZPending' = 0
  BY <1>2 DEF ZPending
<1> QED
  BY <1>1, <1>2, <1>3, ZKeepingPut

LEMMA ZKeepingStep ==
    ASSUME ZipInv, ZKeeping, [ZipNext]_zipVars
    PROVE  ZKeeping'
<1> SUFFICES ASSUME Undeterred', KeepFiles > 0, FileSize > 0, ~Compressing PROVE ZKeeping'
  BY TypeStays DEF ZKeeping, Compressing
<1>1. ZipTypeOK /\ ZipBasics /\ ZipPlaces /\ Undeterred
  BY Deterred DEF ZipInv, ZipBasics
<1>2. ZCurrentNewest /\ ~zipFailed /\ OneForm
  BY <1>1, ZKeepingMeans DEF ZipInv, Undeterred
<1>3. CASE ZipStart
  <2>1. /\ zipPc = "start" /\ zipPc' = "idle"
        /\ UNCHANGED <<live, unflushed, plain, archive, zipLogged, zipType>>
        /\ zipSize' = Cardinality(live) \/ zipSize' = 0
    BY <1>3 DEF ZipStart, zipOptions, zipGhosts
  <2>2. ZPending = 0 /\ live = {}
    <3>1. ZPending = 0
      BY <2>1 DEF ZPending
    <3>2. zipLogged \in Nat
      BY <1>1 DEF ZipTypeOK
    <3> QED
      BY <1>2, <3>1, <3>2 DEF ZCurrentNewest
  <2>3. zipSize' = 0
    BY <2>1, <2>2, FS_EmptySet
  <2>4. ZPending' = 0
    BY <2>1, <2>3 DEF ZPending
  <2> QED
    BY <1>1, <2>1, <2>2, <2>3, <2>4, ZKeepingPut
<1>4. CASE ZipFlush
  <2>1. /\ UNCHANGED <<zipPc, zipIndex, plain, archive, zipOpen, zipSize, zipLogged, zipType>>
        /\ live' \cup unflushed' = live \cup unflushed
    BY <1>4 DEF ZipFlush, zipOptions, zipGhosts
  <2>2. ZPending' = ZPending
    BY <2>1 DEF ZPending
  <2>3. /\ zipPc' = "idle" /\ zipOpen' => zipSize' < FileSize
        /\ zipPc' \in {"close", "remove", "shift"} => zipSize' >= FileSize
    BY <1>2, <2>1 DEF ZCurrentNewest
  <2> QED
    BY <1>1, <2>1, <2>2, <2>3, ZKeepingPut
<1>5. CASE ZipClose
  <2>1. /\ zipPc = "close" /\ zipPc' = "remove"
        /\ UNCHANGED <<plain, archive, zipLogged, zipType, zipSize>>
        /\ live' \cup unflushed' = live \cup unflushed
    BY <1>5 DEF ZipClose, zipOptions, zipGhosts
  <2>2. ZPending' = ZPending
    BY <2>1 DEF ZPending
  <2> QED
    BY <1>1, <1>2, <2>1, <2>2, ZKeepingPut DEF ZCurrentNewest
<1>6. CASE (\E on \in BOOLEAN : EnableAutoTune(on)) \/ UNCHANGED zipVars
  <2>1. /\ UNCHANGED <<zipPc, zipIndex, live, unflushed, plain, archive, zipOpen, zipSize,
                       zipLogged, zipType>>
    BY <1>6 DEF EnableAutoTune, zipVars, zipOptions, zipFiles, zipGhosts
  <2>2. ZPending' = ZPending
    BY <2>1 DEF ZPending
  <2>3. /\ zipPc' = "idle" /\ zipOpen' => zipSize' < FileSize
        /\ zipPc' \in {"close", "remove", "shift"} => zipSize' >= FileSize
    BY <1>2, <2>1 DEF ZCurrentNewest
  <2> QED
    BY <1>1, <2>1, <2>2, <2>3, ZKeepingPut
<1>7. CASE ZipCrash \/ \E s \in ZipLines : ZipRefuse(s)
  <2>1. zipDeaths \in Nat /\ \A s \in ZipLines : ZipLine(s) # {}
    BY <1>1, ZipLineMeans DEF ZipTypeOK
  <2>2. zipLost' # {} \/ zipDeaths' = zipDeaths + 1
    BY <1>7, <2>1 DEF ZipRefuse, ZipCrash
  <2> QED
    BY <2>1, <2>2 DEF Undeterred
<1>8. CASE Compress \/ Account
  BY <1>1, <1>8 DEF Compress, Account, ZipPlaces
<1> QED
  BY <1>1, <1>2, <1>3, <1>4, <1>5, <1>6, <1>7, <1>8, ZKeepingLog, ZKeepingRemove, ZKeepingShift,
     ZKeepingReopen DEF ZipNext

LEMMA ZKeepingSuffices == ZipInv /\ ZKeeping => ZipRotationKeeps
<1> SUFFICES ASSUME ZipInv, ZKeeping, Undeterred, ~Compressing
             PROVE  Cardinality(Kept) >= Smaller(zipLogged, FileSize * KeepFiles)
  BY DEF ZipRotationKeeps
<1>1. /\ zipLogged \in Nat /\ FileSize \in Nat /\ KeepFiles \in Nat /\ Kept \subseteq 1..zipLogged
      /\ ZipTypeOK
  BY SlotFacts DEF ZipInv, ZipBasics, ZipTypeOK, ZipOnlyLogged
<1>2. IsFiniteSet(Kept) /\ Cardinality(Kept) \in Nat
  <2>1. IsFiniteSet(1..zipLogged)
    BY <1>1, FS_Interval
  <2> QED
    BY <1>1, <2>1, FS_Subset, FS_CardinalityType
<1>3. CASE KeepFiles = 0 \/ FileSize = 0
  <2>1. FileSize * KeepFiles = 0
    BY <1>1, <1>3
  <2> QED
    BY <1>1, <1>2, <2>1 DEF Smaller
<1>4. CASE KeepFiles > 0 /\ FileSize > 0
  <2>1. ZNewestStored /\ ZPending \in Nat /\ ZRoom \in Nat /\ ZCurrentNewest
    BY <1>1, <1>4, ZKeepingMeans
  <2>2. FileSize * KeepFiles = ZRoom
    BY <1>1 DEF ZRoom, ZFull
  <2> DEFINE low == IF zipLogged < ZRoom THEN 1 ELSE zipLogged - ZRoom + 1
  <2>3. low..zipLogged \subseteq Kept
    <3> SUFFICES ASSUME NEW n \in low..zipLogged PROVE n \in Kept
      OBVIOUS
    <3>1. low \in Int /\ low >= 1 /\ low > zipLogged - ZRoom
      BY <1>1, <2>1
    <3> HIDE DEF low
    <3>2. n \in 1..zipLogged /\ n > zipLogged - ZRoom
      BY <1>1, <2>1, <3>1
    <3> QED
      BY <1>1, <2>1, <3>2 DEF ZNewestStored
  <2>4. Cardinality(low..zipLogged) = IF low > zipLogged THEN 0 ELSE zipLogged - low + 1
    <3>1. low \in Int /\ zipLogged \in Int
      BY <1>1, <2>1
    <3> HIDE DEF low
    <3> QED
      BY <3>1, FS_Interval
  <2>5. Cardinality(low..zipLogged) <= Cardinality(Kept)
    BY <1>2, <2>3, FS_Subset
  <2>6. Cardinality(low..zipLogged) = Smaller(zipLogged, ZRoom)
    BY <1>1, <2>1, <2>4 DEF Smaller
  <2> QED
    BY <2>2, <2>5, <2>6
<1> QED
  BY <1>1, <1>3, <1>4

\* Rotation keeps the order of the plain files and the newest bytes, without
\* compression as many of them as max_files full files hold, and the tuning
\* chooses levels the library accepts, through every failing rename, compression
\* and crash: for every number and size of files and all lengths of lines, if the
\* levels a process starts with are levels of its library.
THEOREM ArchivesKeptAlways ==
    ASSUME StartsInRange
    PROVE  ZipSpec => []ArchivesKept
<1>1. ZipInit => ZipInv /\ ZKeeping /\ LevelInv
  BY ZipFirst, ZKeepingFirst, LevelFirst DEF ZipInv
<1>2. ZipInv /\ ZKeeping /\ LevelInv /\ [ZipNext]_zipVars => ZipInv' /\ ZKeeping' /\ LevelInv'
  BY ZipInvStep, ZKeepingStep, LevelStep DEF ZipInv, ZipBasics
<1>3. ZipInv /\ ZKeeping /\ LevelInv => ArchivesKept
  BY ZKeepingSuffices DEF ArchivesKept, ZipInv, ZipBasics, LevelInv, LevelInRange
<1> QED
  BY <1>1, <1>2, <1>3, PTL DEF ZipSpec
=============================================================================
