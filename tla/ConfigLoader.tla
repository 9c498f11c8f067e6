---------------------------- MODULE ConfigLoader ----------------------------
(***************************************************************************)
(* Zyrnix::ConfigLoader (config.cpp): a scanner of its own for the JSON    *)
(* files of logger configurations, and the loggers made from the outcome.  *)
(*                                                                         *)
(* A text is a sequence of tokens <<kind, value>>: a brace, a bracket, a   *)
(* bare key, or a key with its value.  An editor writes the document of a  *)
(* list of loggers from its beginning to its end; a reader finds as much   *)
(* of it as has been written.                                              *)
(***************************************************************************)
EXTENDS Naturals, FiniteSets, Sequences, SequencesExt

CONSTANT Documents  \* the lists of logger configurations that are written

ConfigLevels == {"trace", "debug", "info", "warn", "error", "critical"}
SinkTypes == {"stdout", "file", "rotating", "loki"}

ASSUME DocumentsAssumption ==
    \A d \in Documents : \A i \in DOMAIN d :
        DOMAIN d[i] = {"name", "level", "async", "presets", "cloudOnly", "sinks"}

VARIABLES wanted,   \* the list of loggers last saved
          written   \* the tokens of it that are in the file

fileVars == <<wanted, written>>

Tok(kind) == <<kind, "">>

Object(c) ==
    <<Tok("{"), <<"name", c.name>>, <<"level", c.level>>, <<"async", c.async>>,
      <<"presets", c.presets>>, <<"cloudOnly", c.cloudOnly>>, Tok("sinks"), Tok("[")>>
    \o FlattenSeq([i \in DOMAIN c.sinks |-> <<Tok("{"), <<"type", c.sinks[i]>>, Tok("}")>>])
    \o <<Tok("]"), Tok("}")>>

Document(d) ==
    <<Tok("{"), Tok("loggers"), Tok("[")>> \o FlattenSeq([i \in DOMAIN d |-> Object(d[i])])
    \o <<Tok("]"), Tok("}")>>

Texts == [d \in Documents |-> Document(d)]
Text == SubSeq(Texts[wanted], 1, written)

-----------------------------------------------------------------------------
(* The scanner.                                                            *)

\* std::string::find; 0 is npos.
Find(text, kind, from) ==
    LET at == {i \in from..Len(text) : text[i][1] = kind}
    IN  IF from = 0 \/ at = {} THEN 0 ELSE CHOOSE i \in at : \A j \in at : i <= j

ParseLogLevel(l) ==
    IF l \in ConfigLevels THEN l ELSE IF l = "warning" THEN "warn" ELSE "info"

ValueOf(obj, key, default) ==
    LET i == Find(obj, key, 1) IN IF i = 0 THEN default ELSE obj[i][2]

\* Any "true" behind the key will do.
FlagOf(obj, key) ==
    LET i == Find(obj, key, 1)
    IN  i # 0 /\ \E j \in i..Len(obj) : obj[j][1] \in {"async", "cloudOnly"} /\ obj[j][2] = "true"

SinksOf(obj) ==
    LET open == Find(obj, "[", Find(obj, "sinks", 1))
        close == Find(obj, "]", open)
        inner == SubSeq(obj, open + 1, close - 1)
        ended == {i \in DOMAIN inner : \E j \in i..Len(inner) : inner[j][1] = "}"}
    IN  IF open = 0 \/ close = 0 THEN <<>>
        ELSE LET types == SelectSeq(SubSeq(inner, 1, Cardinality(ended)),
                                    LAMBDA t : t[1] = "type")
             IN  [i \in DOMAIN types |-> types[i][2]]

\* The configuration that the text of one object gives.
ConfigOf(obj) ==
    [name |-> ValueOf(obj, "name", ""),
     level |-> ParseLogLevel(ValueOf(obj, "level", "info")),
     async |-> FlagOf(obj, "async"),
     presets |-> ValueOf(obj, "presets", <<>>),
     cloudOnly |-> FlagOf(obj, "cloudOnly"),
     sinks |-> SinksOf(obj)]

Scanning == [ended |-> FALSE, object |-> <<>>, configs |-> <<>>]

FaultyTake(scan, config) ==    \* an object without a name is kept
    [scan EXCEPT !.object = <<>>, !.configs = Append(@, config)]

Take(scan, config) ==
    [scan EXCEPT !.object = <<>>,
                 !.configs = IF config.name = "" THEN @ ELSE Append(@, config)]

\* A token in the loop of parse_json_internal.  An object ends at the first
\* closing brace, that of its first sink if it has one, and the array at the
\* first bracket outside an object; an object without a name is passed over.
Scan(scan, token) ==
    IF scan.ended THEN scan
    ELSE IF scan.object # <<>>
         THEN IF token[1] = "}" THEN Take(scan, ConfigOf(Append(scan.object, token)))
              ELSE [scan EXCEPT !.object = Append(@, token)]
         ELSE IF token[1] = "{" THEN [scan EXCEPT !.object = <<token>>]
              ELSE [scan EXCEPT !.ended = token[1] = "]"]

\* What parse_json_internal leaves in configs_, whose emptiness is the failure.
\* An object that is not closed is dropped, and what precedes it is kept.
Parse(text) ==
    LET array == Find(text, "[", Find(text, "loggers", 1))
    IN  IF array = 0 THEN <<>>
        ELSE FoldLeft(Scan, Scanning, SubSeq(text, array + 1, Len(text))).configs

\* split_and_trim, for a value that is the sequence of what stands between commas.
SplitAndTrim(value) == SelectSeq(value, LAMBDA piece : piece \notin {"", " "})

\* A loki sink needs a URL, which no configuration file can set.
SettingsOf(c) ==
    [level |-> c.level, async |-> c.async, cloudOnly |-> c.cloudOnly,
     presets |-> SplitAndTrim(c.presets),
     sinks |-> SelectSeq(c.sinks, LAMBDA s : s \in SinkTypes \ {"loki"})]

\* A later configuration of a name replaces an earlier one.
CreateLoggers(configs) ==
    [n \in {configs[i].name : i \in DOMAIN configs} |->
        SettingsOf(configs[CHOOSE i \in DOMAIN configs :
                               /\ configs[i].name = n
                               /\ \A j \in DOMAIN configs : configs[j].name = n => j <= i])]

-----------------------------------------------------------------------------
(* The editor.                                                             *)

FileInit == wanted \in Documents /\ written = 0

FileNext ==
    /\ written < Len(Texts[wanted]) /\ written' = written + 1
    /\ UNCHANGED wanted

-----------------------------------------------------------------------------
(* Properties.                                                             *)

IsWhole == written = Len(Texts[wanted])

HasSinks(d) == {i \in DOMAIN d : d[i].sinks # <<>>}

\* What a document means to this code: the loggers up to the first one with a
\* sink, all without sinks, and asynchronous ones also where only the
\* redaction is for the cloud.
Meaning(d) ==
    LET upTo == IF HasSinks(d) = {} THEN Len(d)
                ELSE CHOOSE i \in HasSinks(d) : \A j \in HasSinks(d) : i <= j
    IN  [i \in 1..upTo |->
            [d[i] EXCEPT !.level = ParseLogLevel(@), !.sinks = <<>>,
                         !.async = (@ = "true" \/ d[i].cloudOnly = "true"),
                         !.cloudOnly = (@ = "true")]]

\* A document of the form that config.hpp and the release notes show gives what
\* it means, whatever options and sinks its loggers have.  Read while it is being
\* written it gives the first loggers with all their settings: never half a
\* logger, never one that the document does not have.
ScannedAsMeant ==
    /\ IsPrefix(Parse(Text), Meaning(wanted))
    /\ IsWhole => Parse(Text) = Meaning(wanted)

\* What config.hpp shows: every logger is read, with the options and the sinks
\* that the file gives it.
ReadAsWritten ==
    IsWhole => /\ Len(Parse(Text)) = Len(wanted)
               /\ \A i \in DOMAIN wanted :
                      /\ Parse(Text)[i].sinks = wanted[i].sinks
                      /\ Parse(Text)[i].async = (wanted[i].async = "true")
=============================================================================
