--------------------------- MODULE HotReloadProofs ---------------------------
(***************************************************************************)
(* Proofs about HotReload, for any documents, any pieces a file is saved   *)
(* in, and any number of saves, starts and stops: the reloads of the two   *)
(* threads exclude each other, nothing of them is left after stop, and one *)
(* document is in force.  What the scanner makes of a text is recursive    *)
(* and stays a hypothesis, which TLC evaluates for the documents of its    *)
(* run.                                                                    *)
(***************************************************************************)
EXTENDS HotReload, TLAPS

\* Only a text that is saved is on the disk.
DiskOK ==
    /\ wanted \in Saved /\ written \in 0..Len(Texts[wanted]) /\ present \in BOOLEAN
    /\ mtime \in Nat /\ clock \in Nat

\* The watcher runs only while the application is idle, or waits for its end.
Threads ==
    /\ app \notin {"idle", "replace", "join"} => watcher = "none"
    /\ app # "idle" => ~running
    /\ StoppedIsQuiet

\* The mutex is that of the thread inside a reload.
Owned ==
    /\ owner \in {"nobody", "app", "watcher"}
    /\ owner = "app" <=> app \in {"load", "create"}
    /\ owner = "watcher" <=> watcher \in {"load", "create"}

Places ==
    /\ app \in {"idle", "replace", "join", "reloaded"} \cup InCall
    /\ watcher \in {"none", "loop", "stat"} \cup InCall

Counts ==
    /\ saves \in Nat /\ starts \in Nat /\ successes \in Nat /\ failures \in Nat
    /\ lastMtime \in Nat /\ running \in BOOLEAN /\ unseen \in BOOLEAN

\* The first loggers of a document that was saved.
Loadable(c) == \E d \in Saved : \E k \in 1..Len(Meaning(d)) : c = SubSeq(Meaning(d), 1, k)

\* Between loading and creating, the configurations are those of one document.
LoadedWhole == app = "create" \/ watcher = "create" => Loadable(configs)

ReloadAll == DiskOK /\ Counts /\ Places /\ Owned /\ Threads /\ LoadedWhole /\ OneDocumentInForce

-----------------------------------------------------------------------------
(* The disk and the counters.                                              *)

LEMMA DiskFirst == ReloadInit /\ BeginningsAreLoggers => DiskOK
<1> SUFFICES ASSUME ReloadInit, BeginningsAreLoggers PROVE DiskOK
  OBVIOUS
<1>1. wanted \in Saved /\ Len(Texts[wanted]) \in Nat /\ written = Len(Texts[wanted])
  BY DEF ReloadInit, BeginningsAreLoggers
<1>2. present \in BOOLEAN /\ mtime \in Nat /\ clock \in Nat
  BY DEF ReloadInit, ManagerInit
<1> QED
  BY <1>1, <1>2 DEF DiskOK

LEMMA DiskStep == BeginningsAreLoggers /\ DiskOK /\ [ReloadNext]_reloadVars => DiskOK'
<1> SUFFICES ASSUME BeginningsAreLoggers, DiskOK, [ReloadNext]_reloadVars PROVE DiskOK'
  OBVIOUS
<1>1. \A d \in Saved : Len(Texts[d]) \in Nat
  BY DEF BeginningsAreLoggers
<1>2. Texts' = Texts
  BY DEF Texts
<1>3. CASE \E d \in Saved : Save(d)
  <2>1. PICK d \in Saved : Save(d)
    BY <1>3
  <2>2. /\ wanted' = d /\ written' = 0 /\ present' = TRUE /\ mtime' = clock /\ clock' = clock
    BY <2>1 DEF Save, Modify
  <2>3. 0 \in 0..Len(Texts[d])
    BY <1>1
  <2> QED
    BY <1>2, <2>2, <2>3 DEF DiskOK
<1>4. CASE SaveMore
  <2>1. /\ wanted' = wanted /\ present' = present /\ mtime' = clock /\ clock' = clock
        /\ written' = IF written + Block < Len(Texts[wanted]) THEN written + Block
                      ELSE Len(Texts[wanted])
    BY <1>4 DEF SaveMore, Modify
  <2>2. written' \in 0..Len(Texts[wanted])
    BY <1>1, <2>1, BlockAssumption DEF DiskOK
  <2> QED
    BY <1>2, <2>1, <2>2 DEF DiskOK
<1>5. CASE Tick \/ Delete
  <2>1. UNCHANGED <<wanted, written, mtime>> /\ (clock' = clock + 1 \/ clock' = clock)
    BY <1>5 DEF Tick, Delete, fileVars
  <2>2. present' = FALSE \/ present' = present
    BY <1>5 DEF Tick, Delete
  <2>3. present' \in BOOLEAN
    BY <2>2 DEF DiskOK
  <2>4. clock' \in Nat
    BY <2>1 DEF DiskOK
  <2> QED
    BY <1>2, <2>1, <2>3, <2>4 DEF DiskOK
<1>6. CASE Start \/ Stop \/ AppReturns \/ WatcherNext \/ UNCHANGED reloadVars
  <2>1. UNCHANGED diskVars
    BY <1>6 DEF Start, Stop, AppReturns, WatcherNext, Join, StartWatcher, Reload, Lock, Load, Create,
                Test, Unmoved, Poll, LeaveLoop, reloadVars
  <2> QED
    BY <1>2, <2>1 DEF DiskOK, diskVars, fileVars
<1> QED
  BY <1>3, <1>4, <1>5, <1>6 DEF ReloadNext

LEMMA CountsStep == Counts /\ DiskOK /\ [ReloadNext]_reloadVars => Counts'
<1> SUFFICES ASSUME Counts, DiskOK, [ReloadNext]_reloadVars PROVE Counts'
  OBVIOUS
<1> USE DEF Counts
<1>1. CASE (\E d \in Saved : Save(d)) \/ SaveMore
  <2>1. /\ UNCHANGED <<starts, successes, failures, lastMtime, running>>
        /\ unseen' = (clock = lastMtime) /\ saves' \in Nat
    BY <1>1 DEF Save, SaveMore, Modify, threadVars, loadedVars
  <2>2. unseen' \in BOOLEAN
    BY <2>1
  <2> QED
    BY <2>1, <2>2
<1>2. CASE Tick \/ Delete \/ UNCHANGED reloadVars
  BY <1>2 DEF Tick, Delete, reloadVars, diskVars, threadVars, loadedVars
<1>3. CASE Start \/ Stop
  <2>1. /\ UNCHANGED <<saves, successes, failures, lastMtime, unseen>> /\ running' = FALSE /\ starts' \in Nat
    BY <1>3 DEF Start, Stop, diskVars, loadedVars
  <2>2. running' \in BOOLEAN
    BY <2>1
  <2> QED
    BY <2>1, <2>2
<1>4. CASE Join \/ Test \/ Unmoved \/ LeaveLoop
  BY <1>4 DEF Join, Test, Unmoved, LeaveLoop, diskVars, loadedVars
<1>5. CASE StartWatcher
  <2>1. UNCHANGED <<saves, starts, successes, failures, lastMtime, unseen>> /\ running' = TRUE
    BY <1>5 DEF StartWatcher, diskVars, loadedVars
  <2>2. running' \in BOOLEAN
    BY <2>1
  <2> QED
    BY <2>1, <2>2
<1>6. CASE Poll
  <2>1. /\ UNCHANGED <<saves, starts, successes, failures, running>> /\ lastMtime' = mtime
        /\ unseen' = (lastMtime = 0 /\ lastRead # Content)
    BY <1>6 DEF Poll, diskVars, loadedVars
  <2>2. unseen' \in BOOLEAN /\ lastMtime' \in Nat
    BY <2>1 DEF DiskOK
  <2> QED
    BY <2>1, <2>2
<1>7. CASE Reload("app") \/ Reload("watcher")
  <2>1. PICK who \in {"app", "watcher"} : Lock(who) \/ Load(who) \/ Create(who)
    BY <1>7 DEF Reload
  <2>2. UNCHANGED <<saves, starts, lastMtime, running>>
    BY <2>1 DEF Lock, Load, Create, diskVars
  <2>3. successes' \in Nat /\ failures' \in Nat
    BY <2>1 DEF Lock, Load, Create, loadedVars
  <2>4. unseen' = unseen \/ unseen' = FALSE
    BY <2>1 DEF Lock, Load, Create
  <2>5. unseen' \in BOOLEAN
    BY <2>4
  <2> QED
    BY <2>2, <2>3, <2>5
<1> QED
  BY <1>1, <1>2, <1>3, <1>4, <1>5, <1>6, <1>7 DEF ReloadNext, AppReturns, WatcherNext

-----------------------------------------------------------------------------
(* The two threads and the mutex.                                          *)

\* What the steps of reload do to the places and the mutex.
LEMMA ReloadMoves ==
    ASSUME NEW who \in {"app", "watcher"}, Reload(who)
    PROVE  /\ running' = running
           /\ IF who = "app" THEN watcher' = watcher ELSE app' = app
           /\ \/ /\ owner = "nobody" /\ owner' = who
                 /\ IF who = "app" THEN app = "lock" /\ app' = "load"
                    ELSE watcher = "lock" /\ watcher' = "load"
              \/ /\ owner' = owner
                 /\ IF who = "app" THEN app = "load" /\ app' = "create"
                    ELSE watcher = "load" /\ watcher' = "create"
              \/ /\ owner = who /\ owner' = "nobody"
                 /\ IF who = "app" THEN app \in {"load", "create"} /\ app' = "reloaded"
                    ELSE watcher \in {"load", "create"} /\ watcher' = "loop"
<1>1. CASE who = "app"
  BY <1>1 DEF Reload, Lock, Load, Create, At, Goes, Done, Release
<1>2. CASE who = "watcher"
  BY <1>2 DEF Reload, Lock, Load, Create, At, Goes, Done, Release
<1> QED
  BY <1>1, <1>2

LEMMA ThreadsStep ==
    Places /\ Owned /\ Threads /\ running \in BOOLEAN /\ [ReloadNext]_reloadVars
        => Places' /\ Owned' /\ Threads'
<1> SUFFICES ASSUME Places, Owned, Threads, running \in BOOLEAN, [ReloadNext]_reloadVars
             PROVE  Places' /\ Owned' /\ Threads'
  OBVIOUS
<1> USE DEF Places, Owned, Threads, StoppedIsQuiet, InCall
<1>1. CASE (\E d \in Saved : Save(d)) \/ SaveMore \/ Tick \/ Delete \/ UNCHANGED reloadVars
  <2>1. UNCHANGED <<app, watcher, running, owner>>
    BY <1>1 DEF Save, SaveMore, Modify, Tick, Delete, reloadVars, threadVars
  <2> QED
    BY <2>1
<1>2. CASE Start \/ Stop
  <2>1. app = "idle" /\ app' \in {"replace", "join"} /\ ~running' /\ UNCHANGED <<watcher, owner>>
    BY <1>2 DEF Start, Stop, AppMoves
  <2> QED
    BY <2>1
<1>3. CASE Join
  <2>1. /\ watcher = "none" /\ UNCHANGED <<watcher, running, owner>>
        /\ (app = "replace" /\ app' = "lock") \/ (app = "join" /\ app' = "idle")
    BY <1>3 DEF Join, Joined, AppMoves
  <2> QED
    BY <2>1
<1>4. CASE StartWatcher
  <2>1. app = "reloaded" /\ app' = "idle" /\ running' = TRUE /\ watcher' = "loop" /\ owner' = owner
    BY <1>4 DEF StartWatcher, AppMoves
  <2>2. owner = "nobody"
    BY <2>1
  <2> QED
    BY <2>1, <2>2
<1>5. CASE Test \/ Unmoved \/ Poll
  <2>1. /\ watcher \in {"loop", "stat"} /\ watcher' \in {"stat", "loop", "lock"}
        /\ UNCHANGED <<app, running, owner>>
    BY <1>5 DEF Test, Unmoved, Poll
  <2> QED
    BY <2>1
<1>6. CASE LeaveLoop
  <2>1. watcher = "loop" /\ watcher' = "none" /\ UNCHANGED <<app, running, owner>>
    BY <1>6 DEF LeaveLoop
  <2> QED
    BY <2>1
<1>7. CASE Reload("app")
  BY <1>7, ReloadMoves
<1>8. CASE Reload("watcher")
  BY <1>8, ReloadMoves
<1> QED
  BY <1>1, <1>2, <1>3, <1>4, <1>5, <1>6, <1>7, <1>8 DEF ReloadNext, AppReturns, WatcherNext

-----------------------------------------------------------------------------
(* The loggers in force.                                                   *)

LEMMA InForceStep ==
    ASSUME BeginningsAreLoggers, DiskOK, Counts, Owned, LoadedWhole, OneDocumentInForce,
           [ReloadNext]_reloadVars
    PROVE  LoadedWhole' /\ OneDocumentInForce'
<1> USE DEF LoadedWhole
<1>1. CASE UNCHANGED <<configs, inForce, successes>> /\ (app' = "create" => app = "create")
           /\ (watcher' = "create" => watcher = "create")
  <2>1. \A c : Loadable(c)' = Loadable(c)
    BY DEF Loadable
  <2>2. OneDocumentInForce'
    BY <1>1 DEF OneDocumentInForce, NoLoggers
  <2> QED
    BY <1>1, <2>1, <2>2 DEF Loadable
<1>2. CASE \/ (\E d \in Saved : Save(d)) \/ SaveMore \/ Tick \/ Delete \/ Start \/ Stop \/ Join
           \/ StartWatcher \/ Test \/ Unmoved \/ Poll \/ LeaveLoop \/ UNCHANGED reloadVars
  <2>1. /\ UNCHANGED <<configs, inForce, successes>> /\ (app' = "create" => app = "create")
        /\ (watcher' = "create" => watcher = "create")
    BY <1>2 DEF Save, SaveMore, Modify, Tick, Delete, Start, Stop, Join, StartWatcher, AppMoves, Test,
                Unmoved, Poll, LeaveLoop, reloadVars, threadVars, loadedVars
  <2> QED
    BY <1>1, <2>1
<1>3. ASSUME NEW who \in {"app", "watcher"}, Lock(who) PROVE LoadedWhole' /\ OneDocumentInForce'
  <2>1. /\ UNCHANGED <<configs, inForce, successes>> /\ (app' = "create" => app = "create")
        /\ (watcher' = "create" => watcher = "create")
    BY <1>3 DEF Lock, Goes, loadedVars
  <2> QED
    BY <1>1, <2>1
<1>4. ASSUME NEW who \in {"app", "watcher"}, Load(who) PROVE LoadedWhole' /\ OneDocumentInForce'
  <2>1. /\ UNCHANGED <<inForce, successes>> /\ At(who, "load")
        /\ configs' = IF present THEN Parsed[wanted][written] ELSE configs
        /\ \/ present /\ configs' # << >> /\ Goes(who, "create")
           \/ Done(who)
    BY <1>4 DEF Load
  <2>2. OneDocumentInForce'
    BY <2>1 DEF OneDocumentInForce, NoLoggers
  <2>3. app # "create" /\ watcher # "create"
    BY <2>1 DEF At, Owned
  <2>4. CASE Done(who)
    BY <2>2, <2>3, <2>4 DEF Done, Goes
  <2>5. CASE present /\ configs' # << >> /\ Goes(who, "create")
    <3>1. configs' = Parsed[wanted][written] /\ wanted \in Saved /\ written \in 0..Len(Texts[wanted])
      BY <2>1, <2>5 DEF DiskOK
    <3>2. \E k \in 1..Len(Meaning(wanted)) : configs' = SubSeq(Meaning(wanted), 1, k)
      BY <2>5, <3>1 DEF BeginningsAreLoggers
    <3>3. Loadable(configs')
      BY <3>1, <3>2 DEF Loadable
    <3>4. Loadable(configs)' = Loadable(configs')
      BY DEF Loadable
    <3> QED
      BY <2>2, <3>3, <3>4
  <2> QED
    BY <2>1, <2>4, <2>5
<1>5. ASSUME NEW who \in {"app", "watcher"}, Create(who) PROVE LoadedWhole' /\ OneDocumentInForce'
  <2>1. /\ At(who, "create") /\ inForce' = CreateLoggers(configs) /\ successes' = successes + 1
        /\ configs' = configs /\ Done(who)
    BY <1>5 DEF Create
  <2>2. Loadable(configs)
    BY <2>1 DEF At
  <2>3. OneDocumentInForce'
    <3>1. successes' # 0
      BY <2>1 DEF Counts
    <3>2. \E d \in Saved : \E k \in 1..Len(Meaning(d)) : inForce' = CreateLoggers(SubSeq(Meaning(d), 1, k))
      BY <2>1, <2>2 DEF Loadable
    <3> QED
      BY <3>1, <3>2 DEF OneDocumentInForce
  <2>4. Loadable(configs)'
    BY <2>1, <2>2 DEF Loadable
  <2> QED
    BY <2>3, <2>4
<1> QED
  BY <1>2, <1>3, <1>4, <1>5 DEF ReloadNext, AppReturns, WatcherNext, Reload

LEMMA ReloadFirst == ReloadInit /\ BeginningsAreLoggers => ReloadAll
<1> SUFFICES ASSUME ReloadInit, BeginningsAreLoggers PROVE ReloadAll
  OBVIOUS
<1>1. DiskOK
  BY DiskFirst
<1>2. /\ app = "idle" /\ watcher = "none" /\ running = FALSE /\ lastMtime = 0 /\ saves = 0
      /\ owner = "nobody" /\ starts = 0 /\ inForce = NoLoggers /\ successes = 0 /\ failures = 0
      /\ unseen = FALSE
  BY DEF ReloadInit, ManagerInit
<1>3. Counts
  <2>1. running \in BOOLEAN /\ unseen \in BOOLEAN
    BY <1>2
  <2> QED
    BY <1>2, <2>1 DEF Counts
<1>4. Places /\ Owned /\ Threads
  BY <1>2 DEF Places, Owned, Threads, StoppedIsQuiet
<1>5. LoadedWhole /\ OneDocumentInForce
  BY <1>2 DEF LoadedWhole, OneDocumentInForce
<1> QED
  BY <1>1, <1>3, <1>4, <1>5 DEF ReloadAll

LEMMA ReloadStep == BeginningsAreLoggers /\ ReloadAll /\ [ReloadNext]_reloadVars => ReloadAll'
<1> SUFFICES ASSUME BeginningsAreLoggers, ReloadAll, [ReloadNext]_reloadVars PROVE ReloadAll'
  OBVIOUS
<1>1. DiskOK /\ Counts /\ Places /\ Owned /\ Threads /\ LoadedWhole /\ OneDocumentInForce
  BY DEF ReloadAll
<1>2. DiskOK'
  BY <1>1, DiskStep
<1>3. Counts'
  BY <1>1, CountsStep
<1>4. running \in BOOLEAN
  BY <1>1 DEF Counts
<1>5. Places' /\ Owned' /\ Threads'
  BY <1>1, <1>4, ThreadsStep
<1>6. LoadedWhole' /\ OneDocumentInForce'
  BY <1>1, InForceStep
<1> QED
  BY <1>2, <1>3, <1>5, <1>6 DEF ReloadAll

\* The reloads of the two threads exclude each other, and after stop has
\* returned no thread of the watcher is left, also if stop came while it was
\* reloading: for any documents, pieces, saves and calls.
THEOREM ReloadCorrect ==
    ASSUME BeginningsAreLoggers
    PROVE  ReloadSpec => []ReloadInv
<1>1. ReloadAll => ReloadInv
  <2> SUFFICES ASSUME ReloadAll PROVE ReloadTypeOK /\ StoppedIsQuiet
    BY DEF ReloadInv
  <2>1. DiskOK /\ Counts /\ Places /\ Owned /\ StoppedIsQuiet
    BY DEF ReloadAll, Threads
  <2>2. (owner = "app") = (app \in {"load", "create"}) /\ (owner = "watcher") = (watcher \in {"load", "create"})
    BY <2>1 DEF Owned
  <2>3. wanted \in Documents
    BY <2>1, SavedAssumption DEF DiskOK
  <2> QED
    BY <2>1, <2>2, <2>3 DEF ReloadTypeOK, DiskOK, Counts, Places, Owned
<1> QED
  BY <1>1, ReloadFirst, ReloadStep, PTL DEF ReloadSpec

\* The loggers in force are the first ones of one document that was saved, as it
\* has them: no incomplete, empty, missing or unreadable file takes them away,
\* and no interleaving of saves and reloads mixes two documents.
THEOREM OneDocumentAlways ==
    ASSUME BeginningsAreLoggers
    PROVE  ReloadSpec => []OneDocumentInForce
<1>1. ReloadAll => OneDocumentInForce
  BY DEF ReloadAll
<1> QED
  BY <1>1, ReloadFirst, ReloadStep, PTL DEF ReloadSpec
=============================================================================
