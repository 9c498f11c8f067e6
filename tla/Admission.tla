------------------------------ MODULE Admission ------------------------------
(***************************************************************************)
(* Zyrnix::Logger::log between the level and the sinks (logger.cpp), and   *)
(* the filters (log_filter.cpp): one critical section decides and copies   *)
(* the redaction settings, then the message is redacted and delivered,     *)
(* while other threads change filters and settings.                        *)
(*                                                                         *)
(* A message is the set of the fragments that patterns may match.          *)
(***************************************************************************)
EXTENDS Naturals, Sequences, SequencesExt

CONSTANTS Messages,         \* sets of fragments
          RecordLevels,
          Filters,          \* the filters that are attached
          Contexts,         \* what the context says of the field, "" for nothing
          PatternSets,      \* the values of the redaction patterns
          Presets,          \* the presets the code knows
          MaxFilters, MaxChanges, MaxRecords    \* bounds

ASSUME AdmissionBoundsAssumption == {MaxFilters, MaxChanges, MaxRecords} \subseteq Nat

VARIABLES minLevel, filters, filterFunc,
          redaction,    \* redact_patterns_, _regex_patterns_, _pii_presets_, _cloud_only_
          call,         \* the log call: its argument and what it has copied
          delivered,    \* what sinks were given, with the settings at the decision
          changes, records

admissionVars == <<minLevel, filters, filterFunc, redaction, call, delivered, changes, records>>

NoCall == [pc |-> "idle"]
AcceptAll == [kind |-> "none"]
NoRedaction == [substrings |-> {}, regexes |-> {}, presets |-> {}, cloudOnly |-> FALSE]

AdmissionInit ==
    /\ minLevel \in RecordLevels /\ filters = <<>> /\ filterFunc = AcceptAll
    /\ redaction = NoRedaction /\ call = NoCall /\ delivered = {} /\ changes = 0 /\ records = 0

Change == changes < MaxChanges /\ changes' = changes + 1 /\ UNCHANGED <<minLevel, call, delivered, records>>

AddFilter(f) ==
    /\ Change /\ Len(filters) < MaxFilters
    /\ filters' = Append(filters, f) /\ UNCHANGED <<filterFunc, redaction>>

ClearFilters == Change /\ filters' = <<>> /\ filterFunc' = AcceptAll /\ UNCHANGED redaction

SetFilterFunc(f) == Change /\ filterFunc' = f /\ UNCHANGED <<filters, redaction>>

SetRedactPatterns(setting, patterns) ==
    /\ Change /\ setting \in {"substrings", "regexes", "presets"}
    /\ redaction' = [redaction EXCEPT ![setting] = patterns]
    /\ UNCHANGED <<filters, filterFunc>>

SetRedactApplyToCloudOnly(b) ==
    Change /\ redaction' = [redaction EXCEPT !.cloudOnly = b] /\ UNCHANGED <<filters, filterFunc>>

-----------------------------------------------------------------------------
(* The filters.  The field that filters ask for is the same for all.       *)

\* The record of log() has a level and a name, and neither message nor fields.
Record(level) == [level |-> level, message |-> {}]

PassesOne(f, record, context) ==
    CASE f.kind = "none" -> TRUE
      [] f.kind = "level" -> record.level >= f.min
      [] f.kind = "lambda" -> record.level \in f.accepts
      [] f.kind = "field" -> context = f.value
      [] f.kind = "regexField" -> (f.pattern = context) # f.invert
      [] f.kind = "regex" -> (f.pattern \in record.message) # f.invert

\* A composite filter without members lets everything pass.
Passes(f, record, context) ==
    CASE f.kind = "and" -> \A p \in ToSet(f.parts) : PassesOne(p, record, context)
      [] f.kind = "or" -> \/ f.parts = <<>>
                          \/ \E p \in ToSet(f.parts) : PassesOne(p, record, context)
      [] f.kind \notin {"and", "or"} -> PassesOne(f, record, context)

ShouldLog(record, context) ==
    /\ record.level >= minLevel
    /\ PassesOne(filterFunc, record, context)
    /\ \A i \in DOMAIN filters : Passes(filters[i], record, context)

-----------------------------------------------------------------------------
(* The call.                                                               *)

Decide(level, message, context) ==
    /\ call = NoCall /\ records < MaxRecords /\ records' = records + 1
    /\ call' = IF ShouldLog(Record(level), context)
               THEN [pc |-> "deliver", message |-> message, settings |-> redaction,
                     asked |-> redaction, filters |-> filters, level |-> level, context |-> context]
               ELSE NoCall
    /\ UNCHANGED <<minLevel, filters, filterFunc, redaction, delivered, changes>>

\* Invalid expressions and unknown presets are ignored.
Hidden(settings) ==
    settings.substrings \cup (settings.regexes \ {"("}) \cup (settings.presets \cap Presets)

FaultyText(isCloud, message, settings) ==    \* the cloud gets what was not redacted
    IF settings.cloudOnly = isCloud THEN message ELSE message \ Hidden(settings)

\* has_redaction is false where nothing has matched.
SentText(isCloud, message, settings) ==
    IF settings.cloudOnly /\ ~isCloud THEN message ELSE message \ Hidden(settings)

\* The loop over the sinks: one of each kind.
Deliver ==
    /\ call # NoCall /\ call' = NoCall
    /\ delivered' = delivered \cup
          {[cloud |-> isCloud, text |-> SentText(isCloud, call.message, call.settings), of |-> call]
              : isCloud \in BOOLEAN}
    /\ UNCHANGED <<minLevel, filters, filterFunc, redaction, changes, records>>

AdmissionNext ==
    \/ \E f \in Filters : AddFilter(f) \/ (f.kind = "lambda" /\ SetFilterFunc(f))
    \/ ClearFilters \/ Deliver
    \/ \E s \in {"substrings", "regexes", "presets"}, p \in PatternSets : SetRedactPatterns(s, p)
    \/ \E b \in BOOLEAN : SetRedactApplyToCloudOnly(b)
    \/ \E l \in RecordLevels, m \in Messages, c \in Contexts : Decide(l, m, c)

AdmissionSpec == AdmissionInit /\ [][AdmissionNext]_admissionVars

-----------------------------------------------------------------------------
(* Properties.                                                             *)

AdmissionTypeOK ==
    /\ minLevel \in RecordLevels /\ filters \in Seq(Filters) /\ Len(filters) <= MaxFilters
    /\ filterFunc \in Filters \cup {AcceptAll}
    /\ DOMAIN redaction = DOMAIN NoRedaction
    /\ call = NoCall \/ call.message \in Messages
    /\ \A d \in delivered : d.text \subseteq d.of.message
    /\ {changes, records} \subseteq Nat

\* What the patterns, expressions and presets that were in force when the call
\* decided can match never reaches a cloud sink, nor any sink unless redaction
\* was for the cloud only, whichever settings change before the delivery.
SecretsStayIn ==
    \A d \in delivered :
        d.cloud \/ ~d.of.asked.cloudOnly =>
            /\ d.text \cap d.of.asked.substrings = {}
            /\ d.text \cap (d.of.asked.regexes \ {"("}) = {}
            /\ d.text \cap d.of.asked.presets \cap Presets = {}

\* No secret gets out, and what is delivered is a part of the message.
AdmissionInv == AdmissionTypeOK /\ SecretsStayIn

\* README.md: a filter of a pattern keeps the messages that match it, an inverted
\* one keeps them out.
MessagesFiltered ==
    \A d \in delivered : \A i \in DOMAIN d.of.filters :
        Passes(d.of.filters[i], [level |-> d.of.level, message |-> d.of.message], d.of.context)
=============================================================================
