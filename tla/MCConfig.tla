------------------------------ MODULE MCConfig ------------------------------
(* The scanner on a file that grows token by token, and the manager.         *)
EXTENDS HotReload

ASSUME ScannerAssumption == BeginningsAreLoggers

VARIABLE part

configVars == <<part, reloadVars>>

ConfigInit ==
    /\ ManagerInit
    /\ \/ part = "scan" /\ FileInit
       \/ part = "reload" /\ ReloadInit

ConfigNext ==
    \/ part = "scan" /\ FileNext
       /\ UNCHANGED <<part, present, mtime, clock, saves, threadVars, loadedVars, lastRead, unseen>>
    \/ part = "reload" /\ ReloadNext /\ UNCHANGED part

ConfigSpec == ConfigInit /\ [][ConfigNext]_configVars /\ ReloadFairness

Flags == {"true", "false"}

Entries(names, levels, presets, sinks) ==
    [name : names, level : levels, async : Flags, presets : presets, cloudOnly : Flags, sinks : sinks]

Plain(n, l) == [name |-> n, level |-> l, async |-> "false", presets |-> <<>>, cloudOnly |-> "false", sinks |-> <<>>]

TwoDocuments == {<<Plain("a", "debug"), Plain("b", "info")>>, <<Plain("b", "error")>>}

\* The document of config_file_example.cpp.
Documented ==
    {<<[Plain("app", "debug") EXCEPT !.sinks = <<"stdout", "file">>],
       [Plain("network", "info") EXCEPT !.async = "true", !.sinks = <<"rotating">>]>>}

ManyDocuments ==
    [1..1 -> Entries({"a"}, {"debug", "warning", "loud"}, {<<>>, <<"email", " ", "ipv4">>},
                     {<<>>, <<"stdout">>, <<"file", "loki">>})]
    \cup [1..2 -> Entries({"a", "b"}, {"error"}, {<<"email">>}, {<<>>, <<"stdout", "file">>})]
    \cup TwoDocuments
==============================================================================
