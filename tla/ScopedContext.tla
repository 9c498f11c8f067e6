---------------------------- MODULE ScopedContext ----------------------------
(***************************************************************************)
(* Zyrnix::LogContext and ScopedContext (log_context.cpp): the key-value   *)
(* pairs of one thread, and the scopes that add to them.  The objects live *)
(* on a stack; a scope removes at its end the keys it has added.  A key it  *)
(* has overwritten keeps the value of the scope.                           *)
(***************************************************************************)
EXTENDS Naturals, Sequences, SequencesExt, Functions

CONSTANTS Keys, Values,
          MaxScopes,        \* bound on the scopes alive
          MaxContextCalls   \* bound on the calls

ASSUME ContextBoundsAssumption == MaxScopes \in Nat /\ MaxContextCalls \in Nat

VARIABLES context,    \* context_ of the thread, a function of the keys it has
          scopes,     \* the scopes alive: scoped_keys_; the context at the start, the keys
                      \* set through it or a scope within it since then
          direct,     \* keys that LogContext::set has set and nothing removed since
          contextCalls

contextVars == <<context, scopes, direct, contextCalls>>

NoContext == [k \in {} |-> k]

ContextInit == context = NoContext /\ scopes = <<>> /\ direct = {} /\ contextCalls = 0

ContextCall == contextCalls < MaxContextCalls /\ contextCalls' = contextCalls + 1

With(c, k, v) == [x \in DOMAIN c \cup {k} |-> IF x = k THEN v ELSE c[x]]
Without(c, ks) == [x \in DOMAIN c \ ks |-> c[x]]

\* A scope is alone as long as only it and the scopes within it set keys, and none removes any.
Touched(ss) == [i \in DOMAIN ss |-> [ss[i] EXCEPT !.alone = FALSE]]

ContextSet(k, v) ==
    /\ ContextCall
    /\ context' = With(context, k, v) /\ direct' = direct \cup {k}
    /\ scopes' = Touched(scopes)

ContextRemove(k) ==
    /\ ContextCall
    /\ context' = Without(context, {k}) /\ direct' = direct \ {k}
    /\ scopes' = Touched(scopes)

ContextClear ==
    /\ ContextCall
    /\ context' = NoContext /\ direct' = {}
    /\ scopes' = Touched(scopes)

EnterScope ==
    /\ ContextCall /\ Len(scopes) < MaxScopes
    /\ scopes' = Append(scopes, [added |-> <<>>, found |-> context, set |-> {}, alone |-> TRUE])
    /\ UNCHANGED <<context, direct>>

\* A key that is there already is overwritten and left to whoever has set it.
Added(added, k) == IF k \in DOMAIN context THEN added ELSE Append(added, k)

\* Also the constructor, for each pair of the map it is given.
ScopeSet(i, k, v) ==
    /\ ContextCall
    /\ scopes' = [j \in DOMAIN scopes |->
                     CASE j < i -> [scopes[j] EXCEPT !.set = @ \cup {k}]
                       [] j = i -> [scopes[i] EXCEPT !.set = @ \cup {k}, !.added = Added(@, k)]
                       [] j > i -> [scopes[j] EXCEPT !.alone = FALSE]]
    /\ context' = With(context, k, v)
    /\ UNCHANGED direct

\* The first occurrence of the key is struck off the list.
ScopeRemove(i, k) ==
    /\ ContextCall
    /\ context' = Without(context, {k}) /\ direct' = direct \ {k}
    /\ scopes' = [Touched(scopes) EXCEPT ![i].added = RemoveFirst(@, k)]

FaultyLeaving(scope) == IF scope.added = <<>> THEN {} ELSE {Last(scope.added)}
Leaving(scope) == Range(scope.added)

LeaveScope ==
    /\ ContextCall /\ scopes # <<>>
    /\ context' = Without(context, Leaving(Last(scopes)))
    /\ direct' = direct \ Leaving(Last(scopes))
    /\ scopes' = Front(scopes)

ContextNext ==
    \/ \E k \in Keys : ContextRemove(k) \/ \E v \in Values : ContextSet(k, v)
    \/ ContextClear \/ EnterScope \/ LeaveScope
    \/ \E i \in DOMAIN scopes, k \in Keys :
           ScopeRemove(i, k) \/ \E v \in Values : ScopeSet(i, k, v)

ContextSpec == ContextInit /\ [][ContextNext]_contextVars

-----------------------------------------------------------------------------
(* Properties.                                                             *)

SomeContexts == UNION {[ks -> Values] : ks \in SUBSET Keys}

ContextTypeOK ==
    /\ context \in SomeContexts
    /\ \A i \in DOMAIN scopes :
          /\ Range(scopes[i].added) \subseteq Keys /\ scopes[i].found \in SomeContexts
          /\ scopes[i].set \subseteq Keys /\ scopes[i].alone \in BOOLEAN
    /\ direct \subseteq DOMAIN context /\ contextCalls \in Nat

\* No key outlives the scope that added it: whatever is in the context was set
\* there directly or is on the list of a scope that is alive, in whatever order
\* scopes and direct calls add, remove and overwrite it.
NoKeyLeaks ==
    DOMAIN context \subseteq direct \cup UNION {Range(scopes[i].added) : i \in DOMAIN scopes}

ScopeEnds == Len(scopes') < Len(scopes)

\* When a scope ends in whose lifetime only it and the scopes nested in it have
\* set keys, the keys are those it found, whichever of them set what, how often,
\* and a key that none of them has set has the value it had.
ScopeRestored ==
    LET scope == Last(scopes)
    IN  ScopeEnds /\ scope.alone =>
            /\ DOMAIN context' = DOMAIN scope.found
            /\ \A k \in DOMAIN scope.found \ scope.set : context'[k] = scope.found[k]

\* No key outlives the scope that added it, and no key is lost with a scope; the
\* value of a key that the scope or one within it has set again may be new.
ScopesClean == [][ContextTypeOK' /\ NoKeyLeaks' /\ ScopeRestored]_contextVars

\* docs/TESTING_CONTEXT_FEATURE.md:130: "Inner scopes add fields, outer scopes
\* remain when inner scope exits."  A field of an outer scope that the inner one
\* has overwritten is not put back.
OuterRemains ==
    [][ScopeEnds /\ Last(scopes).alone =>
          LET found == Last(scopes).found
          IN  \A i \in DOMAIN scopes' : \A k \in Range(scopes'[i].added) \cap DOMAIN found :
                  context'[k] = found[k]]_contextVars
=============================================================================
