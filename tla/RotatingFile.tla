---------------------------- MODULE RotatingFile ----------------------------
(***************************************************************************)
(* Zyrnix::RotatingFileSink (rotating_file_sink.cpp): a current file and   *)
(* rotated files of the indices 0..MaxFiles.  A rotation is a cascade of   *)
(* renames, each of which may fail unnoticed, and the process may die      *)
(* between any two of them and begin anew with the files it finds.         *)
(*                                                                         *)
(* The bytes logged are numbered; a file is the set of those in it, {} also *)
(* a file that does not exist.  A line is a block of bytes of one of the   *)
(* lengths in LineSizes, so files fill up and overshoot as in the code.    *)
(* The mutex makes one log call at a time, so its steps are those of a     *)
(* single process.                                                         *)
(***************************************************************************)
EXTENDS Integers, FiniteSets

CONSTANTS MaxFiles,     \* max_files
          MaxSize,      \* max_size
          LineSizes,    \* lengths of the lines, each with its newline
          MaxBytes,     \* bound on the bytes logged before the last line
          MaxCrashes    \* bound on the crashes

ASSUME RotMaxFilesAssumption == MaxFiles \in Nat
ASSUME RotMaxSizeAssumption == MaxSize \in Nat
ASSUME LineSizesAssumption == LineSizes \subseteq Nat \ {0}
ASSUME RotBoundsAssumption == MaxBytes \in Nat /\ MaxCrashes \in Nat

VARIABLES rotPc,      \* where the log call is, "down" after a crash
          rotIndex,   \* i of the cascade
          current,    \* base.log
          buffered,   \* written to the stream, not to the file yet
          rotated,    \* base.i.log, for every index i
          rotOpen,    \* file.is_open()
          rotSize,    \* current_size
          rotLogged,  \* bytes logged
          rotLost,    \* those that were never written to a file
          rotFailed,  \* a rename has failed
          rotCrashes

rotFile == <<current, buffered, rotated, rotOpen, rotSize>>
rotGhosts == <<rotLogged, rotLost, rotFailed, rotCrashes>>
rotVars == <<rotPc, rotIndex, rotFile, rotGhosts>>

Indices == 0..MaxFiles

RotInit ==
    /\ rotPc = "open" /\ rotIndex = 0
    /\ current = {} /\ buffered = {} /\ rotated = [i \in Indices |-> {}]
    /\ rotOpen = FALSE /\ rotSize = 0
    /\ rotLogged = 0 /\ rotLost = {} /\ rotFailed = FALSE /\ rotCrashes = 0

\* What the stream buffers reaches the file sooner or later, in pieces that
\* need not end where a line does.
RotFlush ==
    /\ rotPc # "down"
    /\ \E last \in buffered : LET out == {b \in buffered : b <= last}
                             IN  current' = current \cup out /\ buffered' = buffered \ out
    /\ UNCHANGED <<rotPc, rotIndex, rotated, rotOpen, rotSize, rotGhosts>>

Line(n) == (rotLogged + 1)..(rotLogged + n)

FaultyRotLog(n) ==    \* a file that is just full takes another line
    /\ rotPc = "idle" /\ rotLogged < MaxBytes
    /\ rotLogged' = rotLogged + n
    /\ IF rotOpen THEN buffered' = buffered \cup Line(n) /\ UNCHANGED rotLost
       ELSE rotLost' = rotLost \cup Line(n) /\ UNCHANGED buffered
    /\ rotSize' = rotSize + n
    /\ rotPc' = IF rotSize' > MaxSize THEN "close" ELSE "idle"
    /\ UNCHANGED <<rotIndex, current, rotated, rotOpen, rotFailed, rotCrashes>>

\* The size is tested after the line is written, and counts also what a file
\* that is not open did not take.
RotLog(n) ==
    /\ rotPc = "idle" /\ rotLogged < MaxBytes
    /\ rotLogged' = rotLogged + n
    /\ IF rotOpen THEN buffered' = buffered \cup Line(n) /\ UNCHANGED rotLost
       ELSE rotLost' = rotLost \cup Line(n) /\ UNCHANGED buffered
    /\ rotSize' = rotSize + n
    /\ rotPc' = IF rotSize' >= MaxSize THEN "close" ELSE "idle"
    /\ UNCHANGED <<rotIndex, current, rotated, rotOpen, rotFailed, rotCrashes>>

FirstIndex == MaxFiles

RotClose ==
    /\ rotPc = "close"
    /\ current' = current \cup buffered /\ buffered' = {} /\ rotOpen' = FALSE
    /\ rotIndex' = FirstIndex
    /\ rotPc' = "shift"
    /\ UNCHANGED <<rotated, rotSize, rotGhosts>>

Exists(i) == rotated[i] # {}

Shift ==
    /\ rotPc = "shift" /\ rotIndex > 0
    /\ \/ /\ Exists(rotIndex - 1)
          /\ rotated' = [rotated EXCEPT ![rotIndex] = rotated[rotIndex - 1],
                                        ![rotIndex - 1] = {}]
          /\ UNCHANGED rotFailed
       \/ Exists(rotIndex - 1) /\ UNCHANGED rotated /\ rotFailed' = TRUE
       \/ ~Exists(rotIndex - 1) /\ UNCHANGED <<rotated, rotFailed>>
    /\ rotIndex' = rotIndex - 1
    /\ UNCHANGED <<rotPc, current, buffered, rotOpen, rotSize, rotLogged, rotLost, rotCrashes>>

FaultyShiftCurrent ==    \* a file still in the way is spared
    /\ rotPc = "shift" /\ rotIndex = 0
    /\ rotated' = [rotated EXCEPT ![IF Exists(0) THEN 1 ELSE 0] = current] /\ current' = {}
    /\ rotPc' = "open"
    /\ UNCHANGED <<rotIndex, buffered, rotOpen, rotSize, rotGhosts>>

ShiftCurrent ==
    /\ rotPc = "shift" /\ rotIndex = 0
    /\ \/ rotated' = [rotated EXCEPT ![0] = current] /\ current' = {} /\ UNCHANGED rotFailed
       \/ rotFailed' = TRUE /\ UNCHANGED <<rotated, current>>
    /\ rotPc' = "open"
    /\ UNCHANGED <<rotIndex, buffered, rotOpen, rotSize, rotLogged, rotLost, rotCrashes>>

\* open_file appends to what is there.
Open ==
    /\ rotPc = "open"
    /\ \/ rotOpen' = TRUE /\ rotSize' = Cardinality(current)
       \/ rotOpen' = FALSE /\ UNCHANGED rotSize
    /\ rotPc' = "idle"
    /\ UNCHANGED <<rotIndex, current, buffered, rotated, rotGhosts>>

Crash ==
    /\ rotPc # "down" /\ rotCrashes < MaxCrashes
    /\ rotLost' = rotLost \cup buffered /\ buffered' = {} /\ rotOpen' = FALSE
    /\ rotPc' = "down" /\ rotCrashes' = rotCrashes + 1
    /\ UNCHANGED <<rotIndex, current, rotated, rotSize, rotLogged, rotFailed>>

\* The constructor of the next process.
Restart ==
    /\ rotPc = "down"
    /\ rotPc' = "open" /\ rotSize' = 0
    /\ UNCHANGED <<rotIndex, current, buffered, rotated, rotOpen, rotGhosts>>

RotNext ==
    \/ RotFlush \/ RotClose \/ Shift \/ ShiftCurrent \/ Open \/ Crash \/ Restart
    \/ \E n \in LineSizes : RotLog(n)

RotSpec == RotInit /\ [][RotNext]_rotVars

-----------------------------------------------------------------------------
(* Properties.                                                             *)

RotTypeOK ==
    /\ rotPc \in {"idle", "close", "shift", "open", "down"}
    /\ rotIndex \in Indices
    /\ current \in SUBSET Nat /\ buffered \in SUBSET Nat
    /\ rotated \in [Indices -> SUBSET Nat]
    /\ rotOpen \in BOOLEAN /\ rotSize \in Nat
    /\ rotLogged \in Nat /\ rotLost \in SUBSET Nat
    /\ rotFailed \in BOOLEAN /\ rotCrashes \in Nat

\* The files tell the order of the bytes logged, whatever renames failed and
\* wherever the process died: a file of a lower index is newer, the current
\* file is newer than all rotated ones, and no byte is in two files.
FilesOrdered ==
    /\ \A i, j \in Indices : i < j => \A m \in rotated[i], n \in rotated[j] : n < m
    /\ \A i \in Indices : \A n \in rotated[i], m \in current \cup buffered : n < m
    /\ \A n \in current, m \in buffered : n < m

Stored == current \cup buffered \cup UNION {rotated[i] : i \in Indices}

\* As long as no rename fails the newest bytes are kept: rotation deletes
\* nothing that is newer than something it keeps, even if the process dies in
\* the middle of a cascade and the next one finds a gap in the indices.
NewestKept ==
    ~rotFailed => \A m \in Stored : \A n \in m..rotLogged : n \in Stored \cup rotLost

Undisturbed == ~rotFailed /\ rotCrashes = 0 /\ rotLost = {}

\* A file is rotated when it is full, and overshoots by less than a line.
Filled(size) == size >= MaxSize /\ \E n \in LineSizes : size < MaxSize + n

\* Undisturbed, what max_files full files hold stays in the files, and every
\* rotated file has reached max_size and exceeds it by less than one line.
RotationKeeps ==
    Undisturbed =>
        /\ Cardinality(Stored) >= IF rotLogged < MaxFiles * MaxSize THEN rotLogged
                                  ELSE MaxFiles * MaxSize
        /\ \A i \in Indices : Exists(i) => Filled(Cardinality(rotated[i]))

\* README.md:423: "Rotate every 10MB, keep 5 files".  The cascade starts at
\* max_files and keeps one more.
KeepsMaxFiles == Cardinality({i \in Indices : Exists(i)}) <= MaxFiles

\* Files and what is in them, through failures and crashes: types, order, and what is kept.
FilesKept == RotTypeOK /\ FilesOrdered /\ NewestKept
=============================================================================
