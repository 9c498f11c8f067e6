--------------------------- MODULE CompressedFile ---------------------------
(***************************************************************************)
(* Zyrnix::CompressedFileSink (compressed_file_sink.cpp): a current file,  *)
(* rotated files of the indices 1..KeepFiles, and the archive into which   *)
(* the rotation compresses the file of index 1.  Compression and renames   *)
(* may fail unnoticed, and the process may die between two steps.          *)
(*                                                                         *)
(* The bytes logged are numbered and a file is the set of those in it, or  *)
(* compressed in it; a line is a block of them.  The archive of index 1 is *)
(* the only one that is ever written.                                      *)
(***************************************************************************)
EXTENDS Integers, FiniteSets

CONSTANTS KeepFiles,     \* max_files_
          FileSize,      \* max_size_
          ZipLines,      \* lengths of the lines, each with its newline
          Types,         \* the values of options_.type
          StartLevels,   \* the values of options_.level
          MaxLogs, MaxDeaths   \* bounds on the bytes before the last line and on the crashes

ASSUME KeepFilesAssumption == KeepFiles \in Nat
ASSUME FileSizeAssumption == FileSize \in Nat
ASSUME TypesAssumption == Types \subseteq {"none", "gzip", "zstd"}
ASSUME StartLevelsAssumption == StartLevels \subseteq Nat
ASSUME ZipLinesAssumption == ZipLines \subseteq Nat \ {0}
ASSUME CompressedBoundsAssumption == MaxLogs \in Nat /\ MaxDeaths \in Nat

VARIABLES zipType, zipAuto,      \* options_.type (none: no compression), auto_tune
          zipPc, zipIndex,       \* where the log call is, i of the cascade
          live, unflushed,       \* the current file, and what is in its stream only
          plain, archive,        \* rotated files; the archive, and whether it has bytes
          zipOpen, zipSize,      \* file_.is_open(), current_size_
          attempts,              \* compression_count_, up to 3
          level, optionLevel,    \* current_level_, options_.level
          zipLogged, zipLost, zipFailed, zipDeaths

zipOptions == <<zipType, zipAuto, level, optionLevel>>
zipFiles == <<live, unflushed, plain, archive, zipOpen, zipSize>>
zipGhosts == <<zipLogged, zipLost, zipFailed, zipDeaths>>
zipVars == <<zipOptions, attempts, zipPc, zipIndex, zipFiles, zipGhosts>>

Slots == 1..KeepFiles
Compressing == zipType # "none"

ZipInit ==
    /\ zipType \in Types /\ zipAuto \in BOOLEAN
    /\ level \in StartLevels /\ optionLevel = level /\ attempts = 0
    /\ zipPc = "start" /\ zipIndex = 0
    /\ live = {} /\ unflushed = {} /\ plain = [i \in Slots |-> {}]
    /\ archive = [bytes |-> FALSE, messages |-> {}]
    /\ zipOpen = FALSE /\ zipSize = 0
    /\ zipLogged = 0 /\ zipLost = {} /\ zipFailed = FALSE /\ zipDeaths = 0

\* The constructor appends to the file it finds.
ZipStart ==
    /\ zipPc = "start"
    /\ \/ zipOpen' = TRUE /\ zipSize' = Cardinality(live)
       \/ zipOpen' = FALSE /\ zipSize' = 0
    /\ zipPc' = "idle"
    /\ UNCHANGED <<zipOptions, attempts, zipIndex, live, unflushed, plain, archive, zipGhosts>>

\* flush(), or the stream by itself.
ZipFlush ==
    /\ zipOpen
    /\ \E last \in unflushed : LET out == {b \in unflushed : b <= last}
                              IN  live' = live \cup out /\ unflushed' = unflushed \ out
    /\ UNCHANGED <<zipOptions, attempts, zipPc, zipIndex, plain, archive, zipOpen, zipSize, zipGhosts>>

ZipLine(n) == (zipLogged + 1)..(zipLogged + n)

\* A sink whose file is not open returns at once, now and for ever.
ZipRefuse(n) ==
    /\ zipPc = "idle" /\ zipLogged < MaxLogs /\ ~zipOpen
    /\ zipLogged' = zipLogged + n /\ zipLost' = zipLost \cup ZipLine(n)
    /\ UNCHANGED <<zipOptions, attempts, zipPc, zipIndex, zipFiles, zipFailed, zipDeaths>>

\* The size is tested after the line is written.
ZipLog(n) ==
    /\ zipPc = "idle" /\ zipLogged < MaxLogs /\ zipOpen
    /\ zipLogged' = zipLogged + n
    /\ unflushed' = unflushed \cup ZipLine(n)
    /\ zipSize' = zipSize + n
    /\ zipPc' = IF zipSize' >= FileSize THEN "close" ELSE "idle"
    /\ UNCHANGED <<zipOptions, attempts, zipIndex, live, plain, archive, zipOpen,
                   zipLost, zipFailed, zipDeaths>>

ZipClose ==
    /\ zipPc = "close"
    /\ live' = live \cup unflushed /\ unflushed' = {} /\ zipOpen' = FALSE
    /\ zipPc' = IF KeepFiles > 0 THEN "remove" ELSE "compress"
    /\ UNCHANGED <<zipOptions, attempts, zipIndex, plain, archive, zipSize, zipGhosts>>

ZipRemoveOldest ==
    /\ zipPc = "remove"
    /\ plain' = [plain EXCEPT ![KeepFiles] = {}]
    /\ zipIndex' = KeepFiles
    /\ zipPc' = "shift"
    /\ UNCHANGED <<zipOptions, attempts, live, unflushed, archive, zipOpen, zipSize, zipGhosts>>

ZipSource(i) == IF i = 1 THEN live ELSE plain[i - 1]

\* A file that does not exist is not renamed, and its target stays.
ZipShift ==
    /\ zipPc = "shift" /\ zipIndex > 0
    /\ \/ /\ ZipSource(zipIndex) # {} /\ UNCHANGED zipFailed
          /\ IF zipIndex = 1
             THEN plain' = [plain EXCEPT ![1] = ZipSource(1)] /\ live' = {}
             ELSE /\ plain' = [plain EXCEPT ![zipIndex] = ZipSource(zipIndex),
                                            ![zipIndex - 1] = {}]
                  /\ UNCHANGED live
       \/ ZipSource(zipIndex) # {} /\ zipFailed' = TRUE /\ UNCHANGED <<plain, live>>
       \/ ZipSource(zipIndex) = {} /\ UNCHANGED <<plain, live, zipFailed>>
    /\ zipIndex' = zipIndex - 1
    /\ zipPc' = IF zipIndex = 1 THEN "compress" ELSE "shift"
    /\ UNCHANGED <<zipOptions, attempts, unflushed, archive, zipOpen, zipSize,
                   zipLogged, zipLost, zipDeaths>>

FaultyArchived(source) == IF archive.bytes THEN archive ELSE [bytes |-> TRUE, messages |-> source]
Archived(source) == [bytes |-> TRUE, messages |-> source]

\* Without zlib or zstd a command of the shell does it, which creates the
\* archive before it fails; a write that fails leaves a part.  The result of
\* compress_file is not used.
Compress ==
    /\ zipPc = "compress" /\ Compressing
    /\ LET source == IF KeepFiles > 0 THEN plain[1] ELSE {}
       IN  \/ /\ source # {} /\ UNCHANGED zipFailed
              /\ archive' = Archived(source)
           \/ /\ zipFailed' = IF KeepFiles > 0 THEN TRUE ELSE zipFailed
              /\ \/ UNCHANGED archive
                 \/ archive' = [bytes |-> FALSE, messages |-> {}]
                 \/ \E cut \in source : archive' = Archived({b \in source : b < cut})
    /\ attempts' = IF attempts < 3 THEN attempts + 1 ELSE attempts
    /\ zipPc' = "account"
    /\ UNCHANGED <<zipOptions, zipIndex, live, unflushed, plain, zipOpen, zipSize,
                   zipLogged, zipLost, zipDeaths>>

LowestLevel == 1
HighestLevel == IF zipType = "gzip" THEN 9 ELSE 22

AtLeast(a, b) == IF a < b THEN b ELSE a
AtMost(a, b) == IF a > b THEN b ELSE a

\* calculate_optimal_level.  The ratio is poor below 3 and great from 5 on,
\* the speed slow below 10 MB/s and fast above 50 MB/s.
OptimalLevel(ratio, speed) ==
    CASE speed = "slow" /\ ratio # "poor" -> AtLeast(LowestLevel, level - 1)
      [] speed = "fast" /\ ratio = "poor" -> AtMost(HighestLevel, level + 1)
      [] speed # "slow" /\ ratio = "great" /\ level > LowestLevel + 1 -> level - 1
      [] OTHER -> level

UpdateLevel ==
    IF zipAuto /\ attempts = 3
    THEN \E ratio \in {"poor", "good", "great"}, speed \in {"slow", "medium", "fast"} :
            /\ level' = OptimalLevel(ratio, speed)
            /\ optionLevel' = IF level' # level THEN level' ELSE optionLevel
    ELSE UNCHANGED <<level, optionLevel>>

Account ==
    /\ zipPc = "account"
    /\ IF archive.bytes
       THEN plain' = [i \in Slots |-> IF i = 1 THEN {} ELSE plain[i]] /\ UpdateLevel
       ELSE UNCHANGED <<plain, level, optionLevel>>
    /\ zipPc' = "reopen"
    /\ UNCHANGED <<zipType, zipAuto, attempts, zipIndex, live, unflushed, archive,
                   zipOpen, zipSize, zipGhosts>>

\* The file is opened with trunc: what a failed rename has left in it is gone.
ZipReopen ==
    /\ zipPc = "reopen" \/ (zipPc = "compress" /\ ~Compressing)
    /\ zipSize' = 0
    /\ \/ zipOpen' = TRUE /\ live' = {}
       \/ zipOpen' = FALSE /\ UNCHANGED live
    /\ zipPc' = "idle"
    /\ UNCHANGED <<zipOptions, attempts, zipIndex, unflushed, plain, archive, zipGhosts>>

EnableAutoTune(on) ==
    /\ zipPc = "idle" /\ zipAuto # on
    /\ zipAuto' = on
    /\ level' = IF on THEN optionLevel ELSE level
    /\ UNCHANGED <<zipType, optionLevel, attempts, zipPc, zipIndex, zipFiles, zipGhosts>>

\* A crash inside a rotation counts as a failure of it.  The next process has
\* the options it had.
ZipCrash ==
    /\ zipPc # "start" /\ zipDeaths < MaxDeaths
    /\ zipLost' = zipLost \cup unflushed /\ unflushed' = {} /\ zipOpen' = FALSE
    /\ zipFailed' = IF zipPc = "idle" THEN zipFailed ELSE TRUE
    /\ zipPc' = "start" /\ zipDeaths' = zipDeaths + 1
    /\ attempts' = 0 /\ level' \in StartLevels /\ optionLevel' = level'
    /\ UNCHANGED <<zipType, zipAuto, zipIndex, live, plain, archive, zipSize, zipLogged>>

ZipNext ==
    \/ ZipStart \/ ZipFlush \/ ZipClose \/ ZipRemoveOldest \/ ZipShift
    \/ Compress \/ Account \/ ZipReopen \/ ZipCrash
    \/ \E n \in ZipLines : ZipRefuse(n) \/ ZipLog(n)
    \/ \E on \in BOOLEAN : EnableAutoTune(on)

ZipSpec == ZipInit /\ [][ZipNext]_zipVars

-----------------------------------------------------------------------------
(* Properties.                                                             *)

ZipTypeOK ==
    /\ zipType \in Types /\ zipAuto \in BOOLEAN
    /\ level \in Nat /\ optionLevel \in Nat /\ attempts \in 0..3
    /\ zipPc \in {"start", "idle", "close", "remove", "shift", "compress", "account", "reopen"}
    /\ zipIndex \in 0..KeepFiles
    /\ live \in SUBSET Nat /\ unflushed \in SUBSET Nat
    /\ plain \in [Slots -> SUBSET Nat]
    /\ archive \in [bytes : BOOLEAN, messages : SUBSET Nat]
    /\ zipOpen \in BOOLEAN /\ zipSize \in Nat
    /\ zipLogged \in Nat /\ zipLost \in SUBSET Nat
    /\ zipFailed \in BOOLEAN /\ zipDeaths \in Nat

Kept == live \cup unflushed \cup archive.messages \cup UNION {plain[i] : i \in Slots}

\* The rotated files that are not compressed are in order and older than the
\* current one, through failing renames and crashes.
PlainOrdered ==
    /\ \A i, j \in Slots : i < j => \A m \in plain[i], n \in plain[j] : n < m
    /\ \A i \in Slots : \A n \in plain[i], m \in live \cup unflushed : n < m

\* If nothing fails, what a rotation deletes, overwrites or truncates is older
\* than all that it keeps: neither the compression in place of the source nor
\* the truncating open loses the newest messages.
ZipNewestKept ==
    ~zipFailed => \A m \in Kept : \A n \in m..zipLogged : n \in Kept \cup zipLost

Smaller(a, b) == IF a < b THEN a ELSE b
Undeterred == ~zipFailed /\ zipDeaths = 0 /\ zipLost = {}

\* Without compression what max_files full files hold stays in the files.
ZipRotationKeeps ==
    Undeterred /\ ~Compressing => Cardinality(Kept) >= Smaller(zipLogged, FileSize * KeepFiles)

\* docs/v1.1.0_FEATURES.md:114: "30, // Keep 30 rotated files", of a sink that
\* compresses them.  No archive is ever renamed, and the next one replaces it.
RotatedFilesKept ==
    Undeterred => Cardinality(Kept) >= Smaller(zipLogged, FileSize * KeepFiles)

\* Auto-tuning leaves a level the library accepts, from wherever in the range
\* it starts, and the level reported is the one used while it is on.
LevelInRange == level \in LowestLevel..HighestLevel /\ (zipAuto => level = optionLevel)

\* Rotation with compression, through failures and crashes: types, the order of
\* the plain files, what is kept, and the level the tuning chooses.
ArchivesKept == ZipTypeOK /\ PlainOrdered /\ ZipNewestKept /\ ZipRotationKeeps /\ LevelInRange
=============================================================================
