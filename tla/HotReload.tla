------------------------------ MODULE HotReload ------------------------------
(***************************************************************************)
(* Zyrnix::HotReloadManager and its ConfigWatcher (hot_reload_manager.cpp, *)
(* config_watcher.cpp): a thread that polls the modification time of the   *)
(* configuration file, while the file is saved piece by piece, removed and *)
(* saved again, and while the application starts and stops the manager.    *)
(*                                                                         *)
(* Time passes in the whole seconds of st_mtime.                           *)
(***************************************************************************)
EXTENDS ConfigLoader

CONSTANTS Saved,        \* the documents that are saved
          Block,        \* the tokens an editor writes at once
          MaxSeconds,   \* bound on the clock
          MaxSaves,     \* bound on the files saved
          MaxStarts     \* bound on the calls of start

ASSUME SavedAssumption == Saved \subseteq Documents
ASSUME BlockAssumption == Block \in Nat \ {0}
ASSUME ReloadBoundsAssumption == {MaxSeconds, MaxSaves, MaxStarts} \subseteq Nat

VARIABLES present,    \* the file exists
          mtime,      \* its st_mtime
          clock, saves,
          app,        \* where the application's thread is: start, stop and reload
          watcher,    \* where the watcher's thread is, "none" without one
          running,    \* running_
          lastMtime,  \* last_mtime_
          owner,      \* of mtx_
          configs,    \* configs_
          inForce,    \* loggers_
          successes, failures,
          starts,
          lastRead,   \* the text of the last attempt to reload
          unseen      \* the file has changed, and no poll can tell

diskVars == <<fileVars, present, mtime, clock, saves>>
threadVars == <<app, watcher, running, lastMtime, owner, starts>>
loadedVars == <<configs, inForce, successes, failures>>
reloadVars == <<diskVars, threadVars, loadedVars, lastRead, unseen>>

\* What the scanner makes of the file at every stage of its being written.
Parsed == [d \in Saved |-> [n \in 0..Len(Texts[d]) |-> Parse(SubSeq(Texts[d], 1, n))]]

Content == IF present THEN Text ELSE <<>>
NoLoggers == CreateLoggers(<<>>)

ManagerInit ==
    /\ present = TRUE /\ mtime = 1 /\ clock = 1 /\ saves = 0
    /\ app = "idle" /\ watcher = "none" /\ running = FALSE /\ lastMtime = 0
    /\ owner = "nobody" /\ starts = 0
    /\ configs = <<>> /\ inForce = NoLoggers /\ successes = 0 /\ failures = 0
    /\ lastRead = <<>> /\ unseen = FALSE

ReloadInit == wanted \in Saved /\ written = Len(Texts[wanted]) /\ ManagerInit

-----------------------------------------------------------------------------
(* The disk.                                                               *)

Tick ==
    /\ clock < MaxSeconds /\ clock' = clock + 1
    /\ UNCHANGED <<fileVars, present, mtime, saves, threadVars, loadedVars, lastRead, unseen>>

Modify ==
    /\ mtime' = clock
    /\ unseen' = (clock = lastMtime)
    /\ UNCHANGED <<clock, threadVars, loadedVars, lastRead>>

Save(d) ==
    /\ saves < MaxSaves /\ saves' = saves + 1
    /\ wanted' = d /\ written' = 0 /\ present' = TRUE
    /\ Modify

SaveMore ==
    /\ present /\ written < Len(Texts[wanted])
    /\ written' = IF written + Block < Len(Texts[wanted]) THEN written + Block
                  ELSE Len(Texts[wanted])
    /\ Modify
    /\ UNCHANGED <<wanted, present, saves>>

Delete ==
    /\ present /\ present' = FALSE
    /\ UNCHANGED <<fileVars, mtime, clock, saves, threadVars, loadedVars, lastRead, unseen>>

-----------------------------------------------------------------------------
(* The application's calls.                                                *)

AppMoves(from, to) == app = from /\ app' = to

\* start first ends the watcher of an earlier start, whose destructor stops it.
Start ==
    /\ starts < MaxStarts /\ starts' = starts + 1
    /\ AppMoves("idle", "replace")
    /\ running' = FALSE
    /\ UNCHANGED <<diskVars, watcher, lastMtime, owner, loadedVars, lastRead, unseen>>

Stop ==
    /\ AppMoves("idle", "join")
    /\ running' = FALSE
    /\ UNCHANGED <<diskVars, watcher, lastMtime, owner, starts, loadedVars, lastRead, unseen>>

FaultyJoined == TRUE
Joined == watcher = "none"

Join ==
    /\ Joined
    /\ \/ AppMoves("replace", "lock") /\ lastMtime' = 0
       \/ AppMoves("join", "idle") /\ UNCHANGED lastMtime
    /\ UNCHANGED <<diskVars, watcher, running, owner, starts, loadedVars, lastRead, unseen>>

StartWatcher ==
    /\ AppMoves("reloaded", "idle")
    /\ running' = TRUE /\ watcher' = "loop"
    /\ UNCHANGED <<diskVars, lastMtime, owner, starts, loadedVars, lastRead, unseen>>

-----------------------------------------------------------------------------
(* The watcher.                                                            *)

FaultyChanged == mtime > lastMtime + 1
Changed == mtime # lastMtime

\* The loop tests running_ and then asks for the time: a stop may come between.
Test ==
    /\ watcher = "loop" /\ running
    /\ watcher' = "stat"
    /\ UNCHANGED <<diskVars, app, running, lastMtime, owner, starts, loadedVars, lastRead, unseen>>

Unmoved ==
    /\ watcher = "stat" /\ ~(present /\ Changed)
    /\ watcher' = "loop"
    /\ UNCHANGED <<diskVars, app, running, lastMtime, owner, starts, loadedVars, lastRead, unseen>>

\* The first time it sees is taken for that of what start has loaded.
Poll ==
    /\ watcher = "stat" /\ present /\ Changed
    /\ lastMtime' = mtime
    /\ watcher' = IF lastMtime = 0 THEN "loop" ELSE "lock"
    /\ unseen' = (lastMtime = 0 /\ lastRead # Content)
    /\ UNCHANGED <<diskVars, app, running, owner, starts, loadedVars, lastRead>>

LeaveLoop ==
    /\ watcher = "loop" /\ ~running
    /\ watcher' = "none"
    /\ UNCHANGED <<diskVars, app, running, lastMtime, owner, starts, loadedVars, lastRead, unseen>>

-----------------------------------------------------------------------------
(* reload, which either thread calls.                                      *)

At(who, pc) == pc = IF who = "app" THEN app ELSE watcher
Goes(who, pc) == IF who = "app" THEN app' = pc /\ UNCHANGED watcher
                 ELSE watcher' = pc /\ UNCHANGED app
Done(who) == Goes(who, IF who = "app" THEN "reloaded" ELSE "loop")

Lock(who) ==
    /\ At(who, "lock") /\ owner = "nobody"
    /\ owner' = who /\ Goes(who, "load")
    /\ UNCHANGED <<diskVars, running, lastMtime, starts, loadedVars, lastRead, unseen>>

FaultyLoad(who) ==    \* loggers are made also after a failure
    /\ At(who, "load")
    /\ lastRead' = Content /\ unseen' = FALSE
    /\ configs' = IF present THEN Parsed[wanted][written] ELSE configs
    /\ failures' = failures + IF present /\ configs' # <<>> THEN 0 ELSE 1
    /\ Goes(who, "create") /\ UNCHANGED owner
    /\ UNCHANGED <<diskVars, running, lastMtime, starts, inForce, successes>>

FaultyRelease(who) == UNCHANGED owner
Release(who) == owner = who /\ owner' = "nobody"

\* A file that cannot be opened leaves configs_ alone.
Load(who) ==
    /\ At(who, "load")
    /\ lastRead' = Content /\ unseen' = FALSE
    /\ configs' = IF present THEN Parsed[wanted][written] ELSE configs
    /\ IF present /\ configs' # <<>>
       THEN Goes(who, "create") /\ UNCHANGED <<owner, failures>>
       ELSE Done(who) /\ Release(who) /\ failures' = failures + 1
    /\ UNCHANGED <<diskVars, running, lastMtime, starts, inForce, successes>>

Create(who) ==
    /\ At(who, "create")
    /\ inForce' = CreateLoggers(configs) /\ successes' = successes + 1
    /\ Done(who) /\ Release(who)
    /\ UNCHANGED <<diskVars, running, lastMtime, starts, configs, failures, lastRead, unseen>>

Reload(who) == Lock(who) \/ Load(who) \/ Create(who)

WatcherNext == Test \/ Unmoved \/ Poll \/ LeaveLoop \/ Reload("watcher")
AppReturns == Join \/ StartWatcher \/ Reload("app")

ReloadNext ==
    \/ Tick \/ Delete
    \/ (\E d \in Saved : Save(d)) \/ SaveMore
    \/ Start \/ Stop \/ AppReturns
    \/ WatcherNext

\* Both threads run; nothing makes the editor finish or the application call.
ReloadFairness == WF_reloadVars(WatcherNext) /\ WF_reloadVars(AppReturns)

ReloadSpec == ReloadInit /\ [][ReloadNext]_reloadVars /\ ReloadFairness

-----------------------------------------------------------------------------
(* Properties.                                                             *)

InCall == {"lock", "load", "create"}

ReloadTypeOK ==
    /\ wanted \in Documents /\ written \in 0..Len(Texts[wanted]) /\ present \in BOOLEAN
    /\ mtime \in Nat /\ clock \in Nat /\ lastMtime \in Nat
    /\ app \in {"idle", "replace", "join", "reloaded"} \cup InCall
    /\ watcher \in {"none", "loop", "stat"} \cup InCall /\ running \in BOOLEAN
    /\ owner \in {"nobody", "app", "watcher"}
    /\ {saves, starts, successes, failures} \subseteq Nat
    /\ unseen \in BOOLEAN
    /\ (owner = "app") = (app \in {"load", "create"})
    /\ (owner = "watcher") = (watcher \in {"load", "create"})

\* What the scanner makes of any beginning of a text that is saved: nothing, or
\* the first loggers of its document, and texts have a length.
BeginningsAreLoggers ==
    \A d \in Saved :
        /\ Len(Texts[d]) \in Nat
        /\ \A n \in 0..Len(Texts[d]) :
              \/ Parsed[d][n] = <<>>
              \/ \E k \in 1..Len(Meaning(d)) : Parsed[d][n] = SubSeq(Meaning(d), 1, k)

\* Once a file has been loaded there are always loggers in force, and they are
\* the first ones of one document that was saved, as this document has them:
\* a file that is incomplete, empty, missing or unreadable never takes them
\* away and two documents never mix.
OneDocumentInForce ==
    IF successes = 0 THEN inForce = NoLoggers
    ELSE \E d \in Saved : \E k \in 1..Len(Meaning(d)) :
             inForce = CreateLoggers(SubSeq(Meaning(d), 1, k))

\* After stop has returned nothing is reloaded any more: the watcher's thread
\* is gone, also if stop came while it was reloading.
StoppedIsQuiet == app = "idle" /\ ~running => watcher = "none" /\ owner = "nobody"

\* A reload is one thread's at a time, and nothing is left of it after stop.
ReloadInv == ReloadTypeOK /\ StoppedIsQuiet

UpToDate == ~running \/ ~present \/ unseen \/ lastRead = Content

\* The manager follows the file: whatever is saved, in how many pieces and at
\* which moments, the last text of a file that stays there is read in the end,
\* unless the last change fell into a second the watcher had seen already.
ReadInTheEnd == <>[]UpToDate

\* start and stop return, whatever the watcher is doing.
CallsComplete == app # "idle" ~> app = "idle"
=============================================================================
