------------------------- MODULE LoggerSinksProofs -------------------------
(***************************************************************************)
(* Proofs about LoggerSinks, for any threads, sinks, names, levels and any *)
(* set of operations.  Each invariant is proved on top of the one before:  *)
(* types, who holds which lock, what a loop or a removal in progress knows *)
(* of its entry, and the reference counts.                                 *)
(***************************************************************************)
EXTENDS LoggerSinks, FiniteSetTheorems, TLAPS

\* What is left of a list of entries after an erase is a list of entries.
LEMMA SurvivorsTyped ==
    ASSUME NEW S, NEW s \in Seq(S), NEW dead, NEW r \in Survivors(s, dead)
    PROVE  /\ r \in Seq(S)
           /\ {r[i] : i \in 1..Len(r)} = {s[i] : i \in 1..Len(s)} \ dead
<1> DEFINE keep == {s[i] : i \in 1..Len(s)} \ dead
<1>1. PICK n \in 0..Len(s) : r \in [1..n -> keep] /\ {r[i] : i \in DOMAIN r} = keep
  BY DEF Survivors
<1>2. keep \subseteq S
  OBVIOUS
<1>3. r \in Seq(S) /\ Len(r) = n
  BY <1>1, <1>2
<1> QED
  BY <1>1, <1>3

\* Adding an entry lists it.
LEMMA AppendListed ==
    ASSUME entries \in Seq(Entries), NEW e \in Entries, entries' = Append(entries, e)
    PROVE  Listed' = Listed \cup {e}
<1>1. /\ Len(entries') = Len(entries) + 1
      /\ \A i \in 1..Len(entries) : entries'[i] = entries[i]
      /\ entries'[Len(entries) + 1] = e
  OBVIOUS
<1>2. 1..(Len(entries) + 1) = (1..Len(entries)) \cup {Len(entries) + 1}
  OBVIOUS
<1> QED
  BY <1>1, <1>2 DEF Listed

\* Erasing takes exactly the dead entries out of the list.
LEMMA SurvivorsListed ==
    ASSUME entries \in Seq(Entries), NEW dead, entries' \in Survivors(entries, dead)
    PROVE  Listed' = Listed \ dead
  BY SurvivorsTyped DEF Listed

\* An erase takes out marked entries only, so no live sink goes with it.
LEMMA EraseKeepsLive ==
    ASSUME TypeOK, NEW t \in Threads, EraseByName(t) \/ EraseUnused(t)
    PROVE  Live' = Live
<1>1. PICK dead : /\ entries' \in Survivors(entries, dead)
                  /\ \A e \in dead : marked[e]
  BY DEF EraseByName, EraseUnused
<1>2. Listed' = Listed \ dead
  BY <1>1, SurvivorsListed DEF TypeOK
<1>3. marked' = marked
  BY DEF EraseByName, EraseUnused, objects
<1> QED
  BY <1>1, <1>2, <1>3 DEF Live

\* What a call may become keeps the type of a call.
LEMMA NoCallTyped == NoCall \in Calls
  BY DEF NoCall, Calls, Locations

LEMMA GotoTyped ==
    ASSUME call \in [Threads -> Calls], NEW t \in Threads, NEW p \in Locations, Goto(t, p)
    PROVE  call' \in [Threads -> Calls]
<1>1. [call[t] EXCEPT !.pc = p] \in Calls
  BY DEF Calls
<1> QED
  BY <1>1 DEF Goto

LEMMA BeginTyped ==
    ASSUME call \in [Threads -> Calls], NEW t \in Threads, NEW p \in Locations,
           NEW i \in Nat \ {0}, NEW l \in Levels,
           call' = [call EXCEPT ![t] = [NoCall EXCEPT !.pc = p, !.idx = i, !.lvl = l]]
    PROVE  call' \in [Threads -> Calls]
<1>1. [NoCall EXCEPT !.pc = p, !.idx = i, !.lvl = l] \in Calls
  BY DEF NoCall, Calls
<1> QED
  BY <1>1

LEMMA NextEntryTyped ==
    ASSUME call \in [Threads -> Calls], NEW t \in Threads, NextEntry(t)
    PROVE  call' \in [Threads -> Calls]
<1>1. "scan" \in Locations
  BY DEF Locations
<1>2. call[t] \in Calls /\ call[t].idx + 1 \in Nat \ {0}
  BY DEF Calls
<1>3. [call[t] EXCEPT !.pc = "scan", !.idx = call[t].idx + 1, !.cur = NoEntry] \in Calls
  BY <1>1, <1>2 DEF Calls
<1> QED
  BY <1>3 DEF NextEntry

LEMMA CountTyped ==
    ASSUME ref \in [Entries -> Int], NEW c,
           \/ ref' = [ref EXCEPT ![c] = @ + 1]
           \/ ref' = [ref EXCEPT ![c] = @ - 1]
    PROVE  ref' \in [Entries -> Int]
<1>1. \A e \in Entries : ref'[e] \in Int
  <2> TAKE e \in Entries
  <2>1. CASE c = e
    BY <2>1
  <2>2. CASE c # e
    BY <2>2
  <2> QED
    BY <2>1, <2>2
<1> QED
  BY <1>1

LEMMA MarkTyped ==
    ASSUME TypeOK, NEW t \in Threads, NEW e \in Entries, NEW n \in Names \cup {NoName},
           NEW w \in BOOLEAN, Mark(t, e, n, w), UNCHANGED ops
    PROVE  TypeOK'
<1> DEFINE p == IF w THEN "drain" ELSE "erase"
<1>0. p \in Locations
  BY DEF Locations
<1>1. [NoCall EXCEPT !.pc = p, !.cur = e, !.nm = n] \in Calls
  BY <1>0, NoCallTyped DEF Calls
<1>2. call' \in [Threads -> Calls]
  BY <1>1 DEF Mark, TypeOK
<1> QED
  BY <1>2 DEF Mark, TypeOK, levels, locks

\* Every variable of the registry keeps its type in every reachable state.
THEOREM TypeInvariant == Spec => []TypeOK
<1> USE ThreadsAssumption, EntriesAssumption, NamesAssumption, LevelsAssumption,
        MaxIndexAssumption
<1>1. Init => TypeOK
  BY NoCallTyped DEF Init, TypeOK, NoOverrides
<1>2. TypeOK /\ [Next]_vars => TypeOK'
  <2> SUFFICES ASSUME TypeOK, [Next]_vars PROVE TypeOK'
    OBVIOUS
  <2>a. ops' = ops
    BY DEF Next, vars
  <2> USE <2>a
  <2> USE DEF objects, levels, locks
  <2>0. CASE UNCHANGED vars
    BY <2>0 DEF vars, TypeOK
  <2>1. ASSUME NEW t \in Threads, NEW n \in Names, NEW e \in Entries, AddSink(t, n, e)
        PROVE  TypeOK'
    BY <2>1 DEF AddSink, TypeOK
  <2>2. ASSUME NEW t \in Threads, NEW n \in Names, NEW w \in BOOLEAN, RemoveByName(t, n, w)
        PROVE  TypeOK'
    <3>1. PICK i \in 1..Len(entries) : Mark(t, entries[i], n, w)
      BY <2>2 DEF RemoveByName, Matching
    <3>2. entries[i] \in Entries
      BY DEF TypeOK
    <3> QED
      BY <3>1, <3>2, MarkTyped
  <2>3. ASSUME NEW t \in Threads, NEW i \in 1..MaxIndex, NEW w \in BOOLEAN, RemoveByIndex(t, i, w)
        PROVE  TypeOK'
    <3>1. entries[i] \in Entries /\ Mark(t, entries[i], NoName, w)
      BY <2>3 DEF RemoveByIndex, TypeOK
    <3> QED
      BY <3>1, MarkTyped
  <2>4. ASSUME NEW t \in Threads, Drained(t)
        PROVE  TypeOK'
    <3>1. call' \in [Threads -> Calls]
      BY <2>4, GotoTyped DEF Drained, TypeOK, Locations
    <3> QED
      BY <2>4, <3>1 DEF Drained, TypeOK
  <2>5. ASSUME NEW t \in Threads, EraseByName(t)
        PROVE  TypeOK'
    <3>1. call' \in [Threads -> Calls]
      BY <2>5, NoCallTyped DEF EraseByName, Return, TypeOK
    <3> QED
      BY <2>5, <3>1, SurvivorsTyped DEF EraseByName, TypeOK
  <2>6. ASSUME NEW t \in Threads, EraseUnused(t)
        PROVE  TypeOK'
    <3>1. call' \in [Threads -> Calls]
      BY <2>6, NoCallTyped DEF EraseUnused, Return, TypeOK
    <3> QED
      BY <2>6, <3>1, SurvivorsTyped DEF EraseUnused, TypeOK
  <2>7. ASSUME NEW t \in Threads, ClearMark(t)
        PROVE  TypeOK'
    <3>1. call' \in [Threads -> Calls]
      BY <2>7, GotoTyped DEF ClearMark, TypeOK, Locations
    <3> QED
      BY <2>7, <3>1 DEF ClearMark, TypeOK
  <2>8. ASSUME NEW t \in Threads, ClearList(t)
        PROVE  TypeOK'
    <3>1. call' \in [Threads -> Calls]
      BY <2>8, GotoTyped DEF ClearList, TypeOK, Locations
    <3>2. << >> \in Seq(Entries)
      OBVIOUS
    <3> QED
      BY <2>8, <3>1, <3>2 DEF ClearList, TypeOK
  <2>9. ASSUME NEW t \in Threads, ClearMaps(t)
        PROVE  TypeOK'
    <3>1. call' \in [Threads -> Calls]
      BY <2>9, NoCallTyped DEF ClearMaps, Return, TypeOK
    <3> QED
      BY <2>9, <3>1 DEF ClearMaps, TypeOK, NoOverrides
  <2>10. ASSUME NEW t \in Threads, NEW i \in 1..MaxIndex, NEW l \in Levels, SetLevelLockMtx(t, i, l)
        PROVE  TypeOK'
    <3>1. call' \in [Threads -> Calls]
      <4>1. "setShared" \in Locations /\ i \in Nat \ {0}
        BY DEF Locations
      <4> QED
        BY <2>10, <4>1, BeginTyped DEF SetLevelLockMtx, TypeOK
    <3> QED
      BY <2>10, <3>1 DEF SetLevelLockMtx, TypeOK
  <2>11. ASSUME NEW t \in Threads, SetLevelLockSinks(t)
        PROVE  TypeOK'
    <3>1. call' \in [Threads -> Calls]
      BY <2>11, GotoTyped DEF SetLevelLockSinks, TypeOK, Locations
    <3> QED
      BY <2>11, <3>1 DEF SetLevelLockSinks, TypeOK
  <2>12. ASSUME NEW t \in Threads, SetLevelWrite(t)
        PROVE  TypeOK'
    <3>1. call' \in [Threads -> Calls]
      BY <2>12, NoCallTyped DEF SetLevelWrite, Return, TypeOK
    <3>2. /\ DOMAIN overrides' \subseteq Nat \ {0}
          /\ overrides' \in [DOMAIN overrides' -> Levels \cup {NoLevel}]
      BY <2>12 DEF SetLevelWrite, TypeOK, Calls
    <3> QED
      BY <2>12, <3>1, <3>2 DEF SetLevelWrite, TypeOK
  <2>13. ASSUME NEW t \in Threads, NEW n \in Names, NEW l \in Levels, SetLevelByName(t, n, l)
        PROVE  TypeOK'
    BY <2>13 DEF SetLevelByName, TypeOK
  <2>14. ASSUME NEW t \in Threads, ClearLevelsLock(t)
        PROVE  TypeOK'
    <3>1. call' \in [Threads -> Calls]
      BY <2>14, GotoTyped DEF ClearLevelsLock, TypeOK, Locations
    <3> QED
      BY <2>14, <3>1 DEF ClearLevelsLock, TypeOK
  <2>15. ASSUME NEW t \in Threads, ClearLevelsWrite(t)
        PROVE  TypeOK'
    <3>1. call' \in [Threads -> Calls]
      BY <2>15, NoCallTyped DEF ClearLevelsWrite, Return, TypeOK
    <3> QED
      BY <2>15, <3>1 DEF ClearLevelsWrite, TypeOK, NoOverrides
  <2>16. ASSUME NEW t \in Threads, NEW l \in Levels, LogCall(t, l)
        PROVE  TypeOK'
    <3>0. "admit" \in Locations
      BY DEF Locations
    <3>1. [NoCall EXCEPT !.pc = "admit", !.lvl = l] \in Calls
      BY <3>0, NoCallTyped DEF Calls
    <3> QED
      BY <2>16, <3>1 DEF LogCall, TypeOK
  <2>17. ASSUME NEW t \in Threads, LogAdmit(t)
        PROVE  TypeOK'
    <3>1. call' \in [Threads -> Calls]
      BY <2>17, GotoTyped DEF LogAdmit, TypeOK, Locations
    <3> QED
      BY <2>17, <3>1 DEF LogAdmit, TypeOK
  <2>18. ASSUME NEW t \in Threads, LogLockSinks(t)
        PROVE  TypeOK'
    <3>1. call' \in [Threads -> Calls]
      BY <2>18, GotoTyped DEF LogLockSinks, TypeOK, Locations
    <3> QED
      BY <2>18, <3>1 DEF LogLockSinks, TypeOK
  <2>19. ASSUME NEW t \in Threads, LogSkip(t)
        PROVE  TypeOK'
    <3>1. call' \in [Threads -> Calls]
      BY <2>19, NextEntryTyped DEF LogSkip, TypeOK
    <3> QED
      BY <2>19, <3>1 DEF LogSkip, TypeOK
  <2>20. ASSUME NEW t \in Threads, LogSelect(t)
        PROVE  TypeOK'
    <3>1. entries[call[t].idx] \in Entries
      BY <2>20 DEF LogSelect, MoreEntries, TypeOK, Calls
    <3>0. "guard" \in Locations
      BY DEF Locations
    <3>2. [call[t] EXCEPT !.pc = "guard", !.cur = Here(t)] \in Calls
      <4>1. call[t] \in Calls
        BY DEF TypeOK
      <4> QED
        BY <4>1, <3>0, <3>1 DEF Calls, Here
    <3> QED
      BY <2>20, <3>2 DEF LogSelect, TypeOK
  <2>21. ASSUME NEW t \in Threads, LogGuard(t)
        PROVE  TypeOK'
    <3>1. call' \in [Threads -> Calls]
      BY <2>21, GotoTyped DEF LogGuard, TypeOK, Locations
    <3>2. ref' \in [Entries -> Int]
      <4>1. ref \in [Entries -> Int]
        BY DEF TypeOK
      <4> QED
        BY <2>21, <4>1, CountTyped DEF LogGuard
    <3> QED
      BY <2>21, <3>1, <3>2 DEF LogGuard, TypeOK
  <2>22. ASSUME NEW t \in Threads, LogRelease(t)
        PROVE  TypeOK'
    <3>1. call' \in [Threads -> Calls]
      BY <2>22, NextEntryTyped DEF LogRelease, TypeOK
    <3>2. ref' \in [Entries -> Int]
      <4>1. ref \in [Entries -> Int]
        BY DEF TypeOK
      <4> QED
        BY <2>22, <4>1, CountTyped DEF LogRelease
    <3> QED
      BY <2>22, <3>1, <3>2 DEF LogRelease, TypeOK
  <2>23. ASSUME NEW t \in Threads, LogReturn(t)
        PROVE  TypeOK'
    <3>1. call' \in [Threads -> Calls]
      BY <2>23, NoCallTyped DEF LogReturn, Return, TypeOK
    <3> QED
      BY <2>23, <3>1 DEF LogReturn, TypeOK
  <2> HIDE DEF objects, levels, locks
  <2> QED
    BY <2>0, <2>1, <2>2, <2>3, <2>4, <2>5, <2>6, <2>7, <2>8, <2>9, <2>10, <2>11, <2>12,
       <2>13, <2>14, <2>15, <2>16, <2>17, <2>18, <2>19, <2>20, <2>21, <2>22, <2>23 DEF Next, Step
<1> QED
  BY <1>1, <1>2, PTL DEF Spec

\* Where a thread is tells which locks it holds, in every reachable state.
THEOREM LockInvariant == Spec => []LockInv
<1> USE ThreadsAssumption
<1>1. Init => LockInv
  BY DEF Init, LockInv, NoCall
<1>2. TypeOK /\ LockInv /\ [Next]_vars => LockInv'
  <2> SUFFICES ASSUME TypeOK, LockInv, [Next]_vars PROVE LockInv'
    OBVIOUS
  <2> USE DEF TypeOK, LockInv, Calls, At, Begin, Goto, Return, NoCall, CanWrite, CanRead,
              objects, levels, locks
  <2>0. CASE UNCHANGED vars
    BY <2>0 DEF vars
  <2>1. ASSUME NEW t \in Threads, NEW n \in Names, NEW e \in Entries, AddSink(t, n, e)
        PROVE  LockInv'
    BY <2>1 DEF AddSink
  <2>2. ASSUME NEW t \in Threads, NEW n \in Names, NEW w \in BOOLEAN, RemoveByName(t, n, w)
        PROVE  LockInv'
    BY <2>2 DEF RemoveByName, Mark, Matching
  <2>3. ASSUME NEW t \in Threads, NEW i \in 1..MaxIndex, NEW w \in BOOLEAN, RemoveByIndex(t, i, w)
        PROVE  LockInv'
    BY <2>3 DEF RemoveByIndex, Mark
  <2>4. ASSUME NEW t \in Threads, Drained(t)
        PROVE  LockInv'
    BY <2>4 DEF Drained
  <2>5. ASSUME NEW t \in Threads, EraseByName(t)
        PROVE  LockInv'
    BY <2>5 DEF EraseByName
  <2>6. ASSUME NEW t \in Threads, EraseUnused(t)
        PROVE  LockInv'
    BY <2>6 DEF EraseUnused
  <2>7. ASSUME NEW t \in Threads, ClearMark(t)
        PROVE  LockInv'
    BY <2>7 DEF ClearMark
  <2>8. ASSUME NEW t \in Threads, ClearList(t)
        PROVE  LockInv'
    BY <2>8 DEF ClearList
  <2>9. ASSUME NEW t \in Threads, ClearMaps(t)
        PROVE  LockInv'
    BY <2>9 DEF ClearMaps
  <2>10. ASSUME NEW t \in Threads, NEW i \in 1..MaxIndex, NEW l \in Levels, SetLevelLockMtx(t, i, l)
        PROVE  LockInv'
    BY <2>10 DEF SetLevelLockMtx
  <2>11. ASSUME NEW t \in Threads, SetLevelLockSinks(t)
        PROVE  LockInv'
    BY <2>11 DEF SetLevelLockSinks
  <2>12. ASSUME NEW t \in Threads, SetLevelWrite(t)
        PROVE  LockInv'
    BY <2>12 DEF SetLevelWrite
  <2>13. ASSUME NEW t \in Threads, NEW n \in Names, NEW l \in Levels, SetLevelByName(t, n, l)
        PROVE  LockInv'
    BY <2>13 DEF SetLevelByName
  <2>14. ASSUME NEW t \in Threads, ClearLevelsLock(t)
        PROVE  LockInv'
    BY <2>14 DEF ClearLevelsLock
  <2>15. ASSUME NEW t \in Threads, ClearLevelsWrite(t)
        PROVE  LockInv'
    BY <2>15 DEF ClearLevelsWrite
  <2>16. ASSUME NEW t \in Threads, NEW l \in Levels, LogCall(t, l)
        PROVE  LockInv'
    BY <2>16 DEF LogCall
  <2>17. ASSUME NEW t \in Threads, LogAdmit(t)
        PROVE  LockInv'
    BY <2>17 DEF LogAdmit
  <2>18. ASSUME NEW t \in Threads, LogLockSinks(t)
        PROVE  LockInv'
    BY <2>18 DEF LogLockSinks
  <2>19. ASSUME NEW t \in Threads, LogSkip(t)
        PROVE  LockInv'
    BY <2>19 DEF LogSkip, MoreEntries, NextEntry
  <2>20. ASSUME NEW t \in Threads, LogSelect(t)
        PROVE  LockInv'
    BY <2>20 DEF LogSelect, MoreEntries
  <2>21. ASSUME NEW t \in Threads, LogGuard(t)
        PROVE  LockInv'
    BY <2>21 DEF LogGuard
  <2>22. ASSUME NEW t \in Threads, LogRelease(t)
        PROVE  LockInv'
    BY <2>22 DEF LogRelease, NextEntry
  <2>23. ASSUME NEW t \in Threads, LogReturn(t)
        PROVE  LockInv'
    BY <2>23 DEF LogReturn
  <2> HIDE DEF TypeOK, LockInv, Calls, At, Begin, Goto, Return, NoCall, CanWrite, CanRead,
               objects, levels, locks
  <2> QED
    BY <2>0, <2>1, <2>2, <2>3, <2>4, <2>5, <2>6, <2>7, <2>8, <2>9, <2>10, <2>11, <2>12,
       <2>13, <2>14, <2>15, <2>16, <2>17, <2>18, <2>19, <2>20, <2>21, <2>22, <2>23
    DEF Next, Step
<1> QED
  BY <1>1, <1>2, TypeInvariant, PTL DEF Spec
\* An erase leaves no entry twice.
LEMMA SurvivorsDistinct ==
    ASSUME NEW s \in Seq(Entries), NEW dead, NEW r \in Survivors(s, dead),
           NEW i \in 1..Len(r), NEW j \in 1..Len(r), r[i] = r[j]
    PROVE  i = j
<1> DEFINE keep == {s[k] : k \in 1..Len(s)} \ dead
<1>1. PICK n \in 0..Len(s) : r \in [1..n -> keep]
  BY DEF Survivors
<1>2. r \in Seq(keep) /\ DOMAIN r = 1..Len(r)
  <2>1. n \in Nat /\ DOMAIN r = 1..n
    BY <1>1
  <2>2. Len(r) = n
    BY <2>1
  <2> QED
    BY <1>1, <2>1, <2>2
<1>2a. r[i] \in keep
  BY <1>2
<1>3. PICK k \in 1..Len(s) : s[k] = r[i]
  BY <1>2a
<1>4. Position(s, r[i]) \in 1..Len(s)
  BY <1>3 DEF Position
<1>5. i < j => Position(s, r[i]) < Position(s, r[j])
  BY <1>2 DEF Survivors
<1>6. j < i => Position(s, r[j]) < Position(s, r[i])
  BY <1>2 DEF Survivors
<1> QED
  BY <1>4, <1>5, <1>6

\* A removal in progress and a loop over the sinks keep their hold on the
\* entry they are at, whatever the other threads do: no sink is written to
\* once its removal has begun.
THEOREM ScanInvariant == Spec => [](RemovalInv /\ ScanStable)
<1> USE ThreadsAssumption, NamesAssumption
<1>1. Init => RemovalInv /\ ScanStable
  BY DEF Init, RemovalInv, ScanStable, NoCall, At
<1>2. TypeOK /\ LockInv /\ RemovalInv /\ ScanStable /\ [Next]_vars => (RemovalInv /\ ScanStable)'
  <2> SUFFICES ASSUME TypeOK, LockInv, RemovalInv, ScanStable, [Next]_vars
               PROVE  (RemovalInv /\ ScanStable)'
    OBVIOUS
  <2> USE DEF TypeOK, LockInv, RemovalInv, ScanStable, Live, Listed, Calls, At, Begin, Goto, Return, NoCall,
              CanWrite, CanRead, objects, levels, locks
  <2>0. CASE UNCHANGED vars
    BY <2>0 DEF vars
  <2>1. ASSUME NEW t \in Threads, NEW n \in Names, NEW e \in Entries, AddSink(t, n, e)
        PROVE  (RemovalInv /\ ScanStable)'
    <3>1. entries' \in Seq(Entries) /\ Len(entries') = Len(entries) + 1
      BY <2>1 DEF AddSink
    <3>2. \A i \in 1..Len(entries') :
             entries'[i] = IF i <= Len(entries) THEN entries[i] ELSE e
      BY <2>1 DEF AddSink
    <3>3. /\ \A i \in 1..Len(entries) : entries[i] # e
          /\ \A u \in Threads : call[u].cur # e
      BY <2>1 DEF AddSink, Fresh, Listed
    <3>4. call' = call /\ readers = {}
      BY <2>1 DEF AddSink
    <3>5. \A x \in Entries : x # e => marked'[x] = marked[x] /\ name'[x] = name[x]
      BY <2>1 DEF AddSink
    <3>6. \A i, j \in 1..Len(entries') : entries'[i] = entries'[j] => i = j
      <4> SUFFICES ASSUME NEW i \in 1..Len(entries'), NEW j \in 1..Len(entries'),
                          entries'[i] = entries'[j]
                   PROVE  i = j
        OBVIOUS
      <4>1. CASE i <= Len(entries) /\ j <= Len(entries)
        BY <3>2, <4>1
      <4>2. CASE i > Len(entries) /\ j > Len(entries)
        BY <3>1, <4>2
      <4>3. CASE i > Len(entries) /\ j <= Len(entries)
        <5>1. entries'[i] = e /\ entries'[j] = entries[j] /\ j \in 1..Len(entries)
          BY <3>2, <4>3
        <5> QED
          BY <3>3, <5>1
      <4>4. CASE i <= Len(entries) /\ j > Len(entries)
        <5>1. entries'[j] = e /\ entries'[i] = entries[i] /\ i \in 1..Len(entries)
          BY <3>2, <4>4
        <5> QED
          BY <3>3, <5>1
      <4> QED
        BY <4>1, <4>2, <4>3, <4>4
    <3>7. ScanStable'
      BY <3>4
    <3>8. \A u \in Threads : call[u].pc \in {"drain", "erase"} =>
             /\ call[u].cur \in Entries /\ marked'[call[u].cur]
             /\ call[u].nm # NoName => name'[call[u].cur] = call[u].nm
      BY <3>3, <3>5
    <3>9. \A u \in Threads : call[u].pc # "clearList"
      BY <2>1 DEF AddSink
    <3> QED
      BY <3>4, <3>6, <3>7, <3>8, <3>9
  <2>2. ASSUME NEW t \in Threads, NEW n \in Names, NEW w \in BOOLEAN, RemoveByName(t, n, w)
        PROVE  (RemovalInv /\ ScanStable)'
    BY <2>2 DEF RemoveByName, Mark, Matching
  <2>3. ASSUME NEW t \in Threads, NEW i \in 1..MaxIndex, NEW w \in BOOLEAN, RemoveByIndex(t, i, w)
        PROVE  (RemovalInv /\ ScanStable)'
    BY <2>3 DEF RemoveByIndex, Mark
  <2>4. ASSUME NEW t \in Threads, Drained(t)
        PROVE  (RemovalInv /\ ScanStable)'
    BY <2>4 DEF Drained
  <2>5. ASSUME NEW t \in Threads, EraseByName(t)
        PROVE  (RemovalInv /\ ScanStable)'
    <3>1. ScanStable'
      BY <2>5 DEF EraseByName
    <3>2. \A i, j \in 1..Len(entries') : entries'[i] = entries'[j] => i = j
      BY <2>5, SurvivorsDistinct DEF EraseByName
    <3>3. \A u \in Threads : call'[u].pc \in {"drain", "erase"} =>
             call'[u] = call[u]
      BY <2>5 DEF EraseByName
    <3>4. marked' = marked /\ name' = name
      BY <2>5 DEF EraseByName
    <3>5. \A u \in Threads : call'[u].pc # "clearList"
      BY <2>5 DEF EraseByName
    <3> QED
      BY <3>1, <3>2, <3>3, <3>4, <3>5
  <2>6. ASSUME NEW t \in Threads, EraseUnused(t)
        PROVE  (RemovalInv /\ ScanStable)'
    <3>1. ScanStable'
      BY <2>6 DEF EraseUnused
    <3>2. \A i, j \in 1..Len(entries') : entries'[i] = entries'[j] => i = j
      BY <2>6, SurvivorsDistinct DEF EraseUnused
    <3>3. \A u \in Threads : call'[u].pc \in {"drain", "erase"} =>
             call'[u] = call[u]
      BY <2>6 DEF EraseUnused
    <3>4. marked' = marked /\ name' = name
      BY <2>6 DEF EraseUnused
    <3>5. \A u \in Threads : call'[u].pc # "clearList"
      BY <2>6 DEF EraseUnused
    <3> QED
      BY <3>1, <3>2, <3>3, <3>4, <3>5
  <2>7. ASSUME NEW t \in Threads, ClearMark(t)
        PROVE  (RemovalInv /\ ScanStable)'
    <3>1. \A x \in Entries : marked[x] => marked'[x]
      BY <2>7 DEF ClearMark
    <3>2. \A i \in 1..Len(entries) : marked'[entries[i]]
      <4> TAKE i \in 1..Len(entries)
      <4>1. entries[i] \in Entries /\ entries[i] \in Listed
        OBVIOUS
      <4>2. marked' = [x \in Entries |-> marked[x] \/ x \in Listed]
        BY <2>7 DEF ClearMark
      <4> HIDE DEF Listed
      <4> QED
        BY <4>1, <4>2
    <3>3. entries' = entries /\ name' = name /\ readers = {}
      BY <2>7 DEF ClearMark
    <3>4. \A u \in Threads : call'[u].pc \in {"drain", "erase"} => call'[u] = call[u]
      BY <2>7 DEF ClearMark
    <3>5. \A u \in Threads : call'[u].pc \notin {"guard", "write", "release"}
      BY <2>7 DEF ClearMark
    <3> QED
      BY <3>1, <3>2, <3>3, <3>4, <3>5
  <2>8. ASSUME NEW t \in Threads, ClearList(t)
        PROVE  (RemovalInv /\ ScanStable)'
    BY <2>8 DEF ClearList
  <2>9. ASSUME NEW t \in Threads, ClearMaps(t)
        PROVE  (RemovalInv /\ ScanStable)'
    BY <2>9 DEF ClearMaps
  <2>10. ASSUME NEW t \in Threads, NEW i \in 1..MaxIndex, NEW l \in Levels, SetLevelLockMtx(t, i, l)
        PROVE  (RemovalInv /\ ScanStable)'
    BY <2>10 DEF SetLevelLockMtx
  <2>11. ASSUME NEW t \in Threads, SetLevelLockSinks(t)
        PROVE  (RemovalInv /\ ScanStable)'
    BY <2>11 DEF SetLevelLockSinks
  <2>12. ASSUME NEW t \in Threads, SetLevelWrite(t)
        PROVE  (RemovalInv /\ ScanStable)'
    BY <2>12 DEF SetLevelWrite
  <2>13. ASSUME NEW t \in Threads, NEW n \in Names, NEW l \in Levels, SetLevelByName(t, n, l)
        PROVE  (RemovalInv /\ ScanStable)'
    BY <2>13 DEF SetLevelByName
  <2>14. ASSUME NEW t \in Threads, ClearLevelsLock(t)
        PROVE  (RemovalInv /\ ScanStable)'
    BY <2>14 DEF ClearLevelsLock
  <2>15. ASSUME NEW t \in Threads, ClearLevelsWrite(t)
        PROVE  (RemovalInv /\ ScanStable)'
    BY <2>15 DEF ClearLevelsWrite
  <2>16. ASSUME NEW t \in Threads, NEW l \in Levels, LogCall(t, l)
        PROVE  (RemovalInv /\ ScanStable)'
    BY <2>16 DEF LogCall
  <2>17. ASSUME NEW t \in Threads, LogAdmit(t)
        PROVE  (RemovalInv /\ ScanStable)'
    BY <2>17 DEF LogAdmit
  <2>18. ASSUME NEW t \in Threads, LogLockSinks(t)
        PROVE  (RemovalInv /\ ScanStable)'
    BY <2>18 DEF LogLockSinks
  <2>19. ASSUME NEW t \in Threads, LogSkip(t)
        PROVE  (RemovalInv /\ ScanStable)'
    <3>1. /\ call[t].pc = "scan" /\ call'[t].pc = "scan"
          /\ \A u \in Threads : u # t => call'[u] = call[u]
      BY <2>19 DEF LogSkip, MoreEntries, NextEntry
    <3>2. entries' = entries /\ marked' = marked /\ name' = name
      BY <2>19 DEF LogSkip
    <3>3. RemovalInv'
      <4>1. \A u \in Threads : call'[u].pc \in {"drain", "erase", "clearList"} =>
               call'[u] = call[u]
        BY <3>1
      <4> QED
        BY <3>2, <4>1
    <3>4. ScanStable'
      BY <3>1, <3>2
    <3> QED
      BY <3>3, <3>4
  <2>20. ASSUME NEW t \in Threads, LogSelect(t)
        PROVE  (RemovalInv /\ ScanStable)'
    <3>1. entries[call[t].idx] \in Entries /\ call[t].idx \in 1..Len(entries)
      BY <2>20 DEF LogSelect, MoreEntries
    <3>2. /\ call'[t].pc = "guard" /\ call'[t].idx = call[t].idx
          /\ call'[t].cur = entries[call[t].idx] /\ ~marked[entries[call[t].idx]]
      BY <2>20 DEF LogSelect, Here
    <3>3. \A u \in Threads : u # t => call'[u] = call[u]
      BY <2>20 DEF LogSelect
    <3>4. entries' = entries /\ marked' = marked /\ name' = name
      BY <2>20 DEF LogSelect
    <3>5. RemovalInv'
      <4>1. \A u \in Threads : call'[u].pc \in {"drain", "erase", "clearList"} =>
               call'[u] = call[u]
        BY <3>2, <3>3
      <4> QED
        BY <3>4, <4>1
    <3>6. ScanStable'
      BY <3>1, <3>2, <3>3, <3>4
    <3> QED
      BY <3>5, <3>6
  <2>21. ASSUME NEW t \in Threads, LogGuard(t)
        PROVE  (RemovalInv /\ ScanStable)'
    BY <2>21 DEF LogGuard
  <2>22. ASSUME NEW t \in Threads, LogRelease(t)
        PROVE  (RemovalInv /\ ScanStable)'
    BY <2>22 DEF LogRelease, NextEntry
  <2>23. ASSUME NEW t \in Threads, LogReturn(t)
        PROVE  (RemovalInv /\ ScanStable)'
    BY <2>23 DEF LogReturn
  <2> HIDE DEF TypeOK, LockInv, RemovalInv, ScanStable, Live, Listed, Calls, At, Begin, Goto,
               Return, NoCall, CanWrite, CanRead, objects, levels, locks
  <2> QED
    BY <2>0, <2>1, <2>2, <2>3, <2>4, <2>5, <2>6, <2>7, <2>8, <2>9, <2>10, <2>11, <2>12,
       <2>13, <2>14, <2>15, <2>16, <2>17, <2>18, <2>19, <2>20, <2>21, <2>22, <2>23
    DEF Next, Step
<1> QED
  BY <1>1, <1>2, TypeInvariant, LockInvariant, PTL DEF Spec
\* A step whose thread is at no guard, before or after it, leaves the guards
\* of every entry alone.
OffGuard(t) ==
    /\ call[t].pc \notin {"write", "release"} /\ call'[t].pc \notin {"write", "release"}
    /\ \A u \in Threads : u # t => call'[u] = call[u]

LEMMA GuardsKept ==
    ASSUME NEW t \in Threads, OffGuard(t), NEW e \in Entries
    PROVE  Guards(e)' = Guards(e)
  BY DEF OffGuard, Guards

LEMMA GuardsFinite == \A e \in Entries : IsFiniteSet(Guards(e)) /\ Cardinality(Guards(e)) \in Nat
<1> TAKE e \in Entries
<1>1. Guards(e) \in SUBSET Threads
  BY DEF Guards
<1> QED
  BY <1>1, ThreadsAssumption, FS_Subset, FS_CardinalityType

RefInv == \A e \in Entries : ref[e] = Cardinality(Guards(e))

\* The reference count of an entry is the number of writes to it in progress,
\* and an entry that is marked or out of the list has none: removing a sink
\* never waits for a write, because the exclusive lock has already waited.
THEOREM RefCountInvariant == Spec => []RefCountExact
<1>1. Init => RefInv
  <2> SUFFICES ASSUME Init, NEW e \in Entries PROVE ref[e] = Cardinality(Guards(e))
    BY DEF RefInv
  <2>1. Guards(e) = {}
    BY DEF Init, Guards, NoCall
  <2> QED
    BY <2>1, FS_EmptySet DEF Init
<1>2. TypeOK /\ ScanStable /\ RefInv /\ [Next]_vars => RefInv'
  <2> SUFFICES ASSUME TypeOK, ScanStable, RefInv, [Next]_vars
               PROVE  RefInv'
    OBVIOUS
  <2> USE DEF TypeOK, RefInv, Calls, At, Begin, Goto, Return, NoCall, objects, levels, locks
  <2>0. CASE UNCHANGED vars
    BY <2>0 DEF vars, Guards
  <2>1. ASSUME NEW t \in Threads, NEW n \in Names, NEW e \in Entries, AddSink(t, n, e)
        PROVE  RefInv'
    <3>1. /\ \A u \in Threads : call[u].cur # e
          /\ call' = call
          /\ ref' \in [Entries -> Int] /\ ref'[e] = 0
          /\ \A x \in Entries : x # e => ref'[x] = ref[x]
      BY <2>1 DEF AddSink, Fresh
    <3>2. Guards(e) = {} /\ \A x \in Entries : Guards(x)' = Guards(x)
      BY <3>1 DEF Guards
    <3> QED
      BY <3>1, <3>2, FS_EmptySet
  <2>2. ASSUME NEW t \in Threads, NEW n \in Names, NEW w \in BOOLEAN, RemoveByName(t, n, w)
        PROVE  RefInv'
    <3>1. ref' = ref /\ OffGuard(t)
      BY <2>2 DEF RemoveByName, Mark, Matching, OffGuard
    <3> QED
      BY <3>1, GuardsKept
  <2>3. ASSUME NEW t \in Threads, NEW i \in 1..MaxIndex, NEW w \in BOOLEAN, RemoveByIndex(t, i, w)
        PROVE  RefInv'
    <3>1. ref' = ref /\ OffGuard(t)
      BY <2>3 DEF RemoveByIndex, Mark, OffGuard
    <3> QED
      BY <3>1, GuardsKept
  <2>4. ASSUME NEW t \in Threads, Drained(t)
        PROVE  RefInv'
    <3>1. ref' = ref /\ OffGuard(t)
      BY <2>4 DEF Drained, OffGuard
    <3> QED
      BY <3>1, GuardsKept
  <2>5. ASSUME NEW t \in Threads, EraseByName(t)
        PROVE  RefInv'
    <3>1. ref' = ref /\ OffGuard(t)
      BY <2>5 DEF EraseByName, OffGuard
    <3> QED
      BY <3>1, GuardsKept
  <2>6. ASSUME NEW t \in Threads, EraseUnused(t)
        PROVE  RefInv'
    <3>1. ref' = ref /\ OffGuard(t)
      BY <2>6 DEF EraseUnused, OffGuard
    <3> QED
      BY <3>1, GuardsKept
  <2>7. ASSUME NEW t \in Threads, ClearMark(t)
        PROVE  RefInv'
    <3>1. ref' = ref /\ OffGuard(t)
      BY <2>7 DEF ClearMark, OffGuard
    <3> QED
      BY <3>1, GuardsKept
  <2>8. ASSUME NEW t \in Threads, ClearList(t)
        PROVE  RefInv'
    <3>1. ref' = ref /\ OffGuard(t)
      BY <2>8 DEF ClearList, OffGuard
    <3> QED
      BY <3>1, GuardsKept
  <2>9. ASSUME NEW t \in Threads, ClearMaps(t)
        PROVE  RefInv'
    <3>1. ref' = ref /\ OffGuard(t)
      BY <2>9 DEF ClearMaps, OffGuard
    <3> QED
      BY <3>1, GuardsKept
  <2>10. ASSUME NEW t \in Threads, NEW i \in 1..MaxIndex, NEW l \in Levels, SetLevelLockMtx(t, i, l)
        PROVE  RefInv'
    <3>1. ref' = ref /\ OffGuard(t)
      BY <2>10 DEF SetLevelLockMtx, OffGuard
    <3> QED
      BY <3>1, GuardsKept
  <2>11. ASSUME NEW t \in Threads, SetLevelLockSinks(t)
        PROVE  RefInv'
    <3>1. ref' = ref /\ OffGuard(t)
      BY <2>11 DEF SetLevelLockSinks, OffGuard
    <3> QED
      BY <3>1, GuardsKept
  <2>12. ASSUME NEW t \in Threads, SetLevelWrite(t)
        PROVE  RefInv'
    <3>1. ref' = ref /\ OffGuard(t)
      BY <2>12 DEF SetLevelWrite, OffGuard
    <3> QED
      BY <3>1, GuardsKept
  <2>13. ASSUME NEW t \in Threads, NEW n \in Names, NEW l \in Levels, SetLevelByName(t, n, l)
        PROVE  RefInv'
    <3>1. ref' = ref /\ call' = call
      BY <2>13 DEF SetLevelByName
    <3> QED
      BY <3>1 DEF Guards
  <2>14. ASSUME NEW t \in Threads, ClearLevelsLock(t)
        PROVE  RefInv'
    <3>1. ref' = ref /\ OffGuard(t)
      BY <2>14 DEF ClearLevelsLock, OffGuard
    <3> QED
      BY <3>1, GuardsKept
  <2>15. ASSUME NEW t \in Threads, ClearLevelsWrite(t)
        PROVE  RefInv'
    <3>1. ref' = ref /\ OffGuard(t)
      BY <2>15 DEF ClearLevelsWrite, OffGuard
    <3> QED
      BY <3>1, GuardsKept
  <2>16. ASSUME NEW t \in Threads, NEW l \in Levels, LogCall(t, l)
        PROVE  RefInv'
    <3>1. ref' = ref /\ OffGuard(t)
      BY <2>16 DEF LogCall, OffGuard
    <3> QED
      BY <3>1, GuardsKept
  <2>17. ASSUME NEW t \in Threads, LogAdmit(t)
        PROVE  RefInv'
    <3>1. ref' = ref /\ OffGuard(t)
      BY <2>17 DEF LogAdmit, OffGuard
    <3> QED
      BY <3>1, GuardsKept
  <2>18. ASSUME NEW t \in Threads, LogLockSinks(t)
        PROVE  RefInv'
    <3>1. ref' = ref /\ OffGuard(t)
      BY <2>18 DEF LogLockSinks, OffGuard
    <3> QED
      BY <3>1, GuardsKept
  <2>19. ASSUME NEW t \in Threads, LogSkip(t)
        PROVE  RefInv'
    <3>1. ref' = ref /\ OffGuard(t)
      BY <2>19 DEF LogSkip, MoreEntries, NextEntry, OffGuard
    <3> QED
      BY <3>1, GuardsKept
  <2>20. ASSUME NEW t \in Threads, LogSelect(t)
        PROVE  RefInv'
    <3>1. ref' = ref /\ OffGuard(t)
      BY <2>20 DEF LogSelect, MoreEntries, OffGuard
    <3> QED
      BY <3>1, GuardsKept
  <2>21. ASSUME NEW t \in Threads, LogGuard(t)
        PROVE  RefInv'
    <3>0. call[t].idx \in 1..Len(entries) /\ entries[call[t].idx] = call[t].cur
      BY <2>21 DEF LogGuard, ScanStable
    <3>1. PICK c \in Entries : c = call[t].cur
      BY <3>0
    <3>2. /\ call'[t].pc \in {"write", "release"} /\ call'[t].cur = c
          /\ call[t].pc = "guard"
          /\ \A u \in Threads : u # t => call'[u] = call[u]
      BY <2>21, <3>1 DEF LogGuard
    <3>3. ref'[c] = ref[c] + 1 /\ \A x \in Entries : x # c => ref'[x] = ref[x]
      BY <2>21, <3>1 DEF LogGuard
    <3>4. Guards(c)' = Guards(c) \cup {t} /\ t \notin Guards(c)
      BY <3>1, <3>2 DEF Guards
    <3>5. \A x \in Entries : x # c => Guards(x)' = Guards(x)
      BY <3>1, <3>2 DEF Guards
    <3>6. Cardinality(Guards(c)') = Cardinality(Guards(c)) + 1
      BY <3>4, GuardsFinite, FS_AddElement
    <3> QED
      BY <3>1, <3>3, <3>5, <3>6
  <2>22. ASSUME NEW t \in Threads, LogRelease(t)
        PROVE  RefInv'
    <3>0. call[t].idx \in 1..Len(entries) /\ entries[call[t].idx] = call[t].cur
      BY <2>22 DEF LogRelease, ScanStable
    <3>1. PICK c \in Entries : c = call[t].cur
      BY <3>0
    <3>2. /\ call'[t].pc = "scan" /\ call[t].pc \in {"write", "release"}
          /\ \A u \in Threads : u # t => call'[u] = call[u]
      BY <2>22 DEF LogRelease, NextEntry
    <3>3. ref'[c] = ref[c] - 1 /\ \A x \in Entries : x # c => ref'[x] = ref[x]
      BY <2>22, <3>1 DEF LogRelease
    <3>4. Guards(c)' = Guards(c) \ {t} /\ t \in Guards(c)
      BY <3>1, <3>2 DEF Guards
    <3>5. \A x \in Entries : x # c => Guards(x)' = Guards(x)
      BY <3>1, <3>2 DEF Guards
    <3>6. Cardinality(Guards(c)') = Cardinality(Guards(c)) - 1
      BY <3>4, GuardsFinite, FS_RemoveElement
    <3> QED
      BY <3>1, <3>3, <3>5, <3>6
  <2>23. ASSUME NEW t \in Threads, LogReturn(t)
        PROVE  RefInv'
    <3>1. ref' = ref /\ OffGuard(t)
      BY <2>23 DEF LogReturn, OffGuard
    <3> QED
      BY <3>1, GuardsKept
  <2> HIDE DEF TypeOK, RefInv, Calls, At, Begin, Goto, Return, NoCall, objects, levels, locks
  <2> QED
    BY <2>0, <2>1, <2>2, <2>3, <2>4, <2>5, <2>6, <2>7, <2>8, <2>9, <2>10, <2>11, <2>12,
       <2>13, <2>14, <2>15, <2>16, <2>17, <2>18, <2>19, <2>20, <2>21, <2>22, <2>23
    DEF Next, Step
<1>3. ScanStable /\ RefInv => RefCountExact
  <2> SUFFICES ASSUME ScanStable, RefInv, NEW e \in Entries, e \notin Live
               PROVE  ref[e] = 0
    BY DEF RefCountExact, RefInv
  <2>1. Guards(e) = {}
    BY DEF Guards, ScanStable, Live, Listed
  <2> QED
    BY <2>1, FS_EmptySet DEF RefInv
<1> QED
  BY <1>1, <1>2, <1>3, TypeInvariant, ScanInvariant, PTL DEF Spec

\* In every state the types hold and the counts are exact.
THEOREM RegistryCounts == Spec => []CountsRight
  BY TypeInvariant, RefCountInvariant, PTL DEF CountsRight

\* When remove_sink returns true, the last step is one of its two erases.
LEMMA RemovalEnds ==
    ASSUME TypeOK, Next, NEW u \in Threads, At(u, "erase"), At(u, "idle")'
    PROVE  EraseByName(u) \/ EraseUnused(u)
<1> DEFINE Erasing == EraseByName(u) \/ EraseUnused(u)
<1>1. Erasing
  <2>1. ASSUME NEW t \in Threads, NEW n \in Names, NEW e \in Entries, AddSink(t, n, e)
        PROVE  Erasing
    BY <2>1 DEF AddSink, TypeOK, Begin, Goto, Return, At, NoCall
  <2>2. ASSUME NEW t \in Threads, NEW n \in Names, NEW w \in BOOLEAN, RemoveByName(t, n, w)
        PROVE  Erasing
    BY <2>2 DEF RemoveByName, Mark, Matching, TypeOK, Begin, Goto, Return, At, NoCall
  <2>3. ASSUME NEW t \in Threads, NEW i \in 1..MaxIndex, NEW w \in BOOLEAN, RemoveByIndex(t, i, w)
        PROVE  Erasing
    BY <2>3 DEF RemoveByIndex, Mark, TypeOK, Begin, Goto, Return, At, NoCall
  <2>4. ASSUME NEW t \in Threads, Drained(t)
        PROVE  Erasing
    BY <2>4 DEF Drained, TypeOK, Begin, Goto, Return, At, NoCall
  <2>5. ASSUME NEW t \in Threads, EraseByName(t)
        PROVE  Erasing
    <3>1. CASE t = u
      BY <2>5, <3>1
    <3>2. CASE t # u
      <4>1. call'[u] = call[u]
        BY <2>5, <3>2 DEF EraseByName, Return, TypeOK
      <4> QED
        BY <4>1 DEF At
    <3> QED
      BY <3>1, <3>2
  <2>6. ASSUME NEW t \in Threads, EraseUnused(t)
        PROVE  Erasing
    <3>1. CASE t = u
      BY <2>6, <3>1
    <3>2. CASE t # u
      <4>1. call'[u] = call[u]
        BY <2>6, <3>2 DEF EraseUnused, Return, TypeOK
      <4> QED
        BY <4>1 DEF At
    <3> QED
      BY <3>1, <3>2
  <2>7. ASSUME NEW t \in Threads, ClearMark(t)
        PROVE  Erasing
    BY <2>7 DEF ClearMark, TypeOK, Begin, Goto, Return, At, NoCall
  <2>8. ASSUME NEW t \in Threads, ClearList(t)
        PROVE  Erasing
    BY <2>8 DEF ClearList, TypeOK, Begin, Goto, Return, At, NoCall
  <2>9. ASSUME NEW t \in Threads, ClearMaps(t)
        PROVE  Erasing
    BY <2>9 DEF ClearMaps, TypeOK, Begin, Goto, Return, At, NoCall
  <2>10. ASSUME NEW t \in Threads, NEW i \in 1..MaxIndex, NEW l \in Levels, SetLevelLockMtx(t, i, l)
        PROVE  Erasing
    BY <2>10 DEF SetLevelLockMtx, TypeOK, Begin, Goto, Return, At, NoCall
  <2>11. ASSUME NEW t \in Threads, SetLevelLockSinks(t)
        PROVE  Erasing
    BY <2>11 DEF SetLevelLockSinks, TypeOK, Begin, Goto, Return, At, NoCall
  <2>12. ASSUME NEW t \in Threads, SetLevelWrite(t)
        PROVE  Erasing
    BY <2>12 DEF SetLevelWrite, TypeOK, Begin, Goto, Return, At, NoCall
  <2>13. ASSUME NEW t \in Threads, NEW n \in Names, NEW l \in Levels, SetLevelByName(t, n, l)
        PROVE  Erasing
    BY <2>13 DEF SetLevelByName, TypeOK, Begin, Goto, Return, At, NoCall
  <2>14. ASSUME NEW t \in Threads, ClearLevelsLock(t)
        PROVE  Erasing
    BY <2>14 DEF ClearLevelsLock, TypeOK, Begin, Goto, Return, At, NoCall
  <2>15. ASSUME NEW t \in Threads, ClearLevelsWrite(t)
        PROVE  Erasing
    BY <2>15 DEF ClearLevelsWrite, TypeOK, Begin, Goto, Return, At, NoCall
  <2>16. ASSUME NEW t \in Threads, NEW l \in Levels, LogCall(t, l)
        PROVE  Erasing
    BY <2>16 DEF LogCall, TypeOK, Begin, Goto, Return, At, NoCall
  <2>17. ASSUME NEW t \in Threads, LogAdmit(t)
        PROVE  Erasing
    BY <2>17 DEF LogAdmit, TypeOK, Begin, Goto, Return, At, NoCall
  <2>18. ASSUME NEW t \in Threads, LogLockSinks(t)
        PROVE  Erasing
    BY <2>18 DEF LogLockSinks, TypeOK, Begin, Goto, Return, At, NoCall
  <2>19. ASSUME NEW t \in Threads, LogSkip(t)
        PROVE  Erasing
    BY <2>19 DEF LogSkip, MoreEntries, NextEntry, TypeOK, Begin, Goto, Return, At, NoCall
  <2>20. ASSUME NEW t \in Threads, LogSelect(t)
        PROVE  Erasing
    BY <2>20 DEF LogSelect, MoreEntries, TypeOK, Begin, Goto, Return, At, NoCall
  <2>21. ASSUME NEW t \in Threads, LogGuard(t)
        PROVE  Erasing
    BY <2>21 DEF LogGuard, TypeOK, Begin, Goto, Return, At, NoCall
  <2>22. ASSUME NEW t \in Threads, LogRelease(t)
        PROVE  Erasing
    BY <2>22 DEF LogRelease, NextEntry, TypeOK, Begin, Goto, Return, At, NoCall
  <2>23. ASSUME NEW t \in Threads, LogReturn(t)
        PROVE  Erasing
    BY <2>23 DEF LogReturn, TypeOK, Begin, Goto, Return, At, NoCall
  <2> QED
    BY <2>1, <2>2, <2>3, <2>4, <2>5, <2>6, <2>7, <2>8, <2>9, <2>10, <2>11, <2>12,
       <2>13, <2>14, <2>15, <2>16, <2>17, <2>18, <2>19, <2>20, <2>21, <2>22, <2>23
    DEF Next, Step
<1> QED
  BY <1>1

\* When remove_sink returns true, the entry it marked has left the list, by
\* name or by index and with any other removals in between.
THEOREM RemovalTakesEffect == Spec => RemovedIsGone
<1>1. TypeOK /\ RemovalInv /\ RefCountExact /\ [Next]_vars
          => [\A t \in Threads : At(t, "erase") /\ At(t, "idle")' =>
                 call[t].cur \notin Listed']_vars
  <2> SUFFICES ASSUME TypeOK, RemovalInv, RefCountExact, Next,
                      NEW t \in Threads, At(t, "erase"), At(t, "idle")'
               PROVE  call[t].cur \notin Listed'
    OBVIOUS
  <2>1. call[t].cur \in Entries /\ marked[call[t].cur] /\ ref[call[t].cur] = 0
        /\ (call[t].nm # NoName => name[call[t].cur] = call[t].nm)
    BY DEF RemovalInv, RefCountExact, Live, At
  <2>2. PICK dead : entries' \in Survivors(entries, dead) /\ call[t].cur \in dead
    BY <2>1, RemovalEnds DEF EraseByName, EraseUnused
  <2> QED
    BY <2>2, SurvivorsListed DEF TypeOK
<1> QED
  BY <1>1, TypeInvariant, ScanInvariant, RefCountInvariant, PTL DEF Spec, RemovedIsGone

\* The erase of a removal never changes what sink_count reports.
THEOREM EraseIsSilent == Spec => EraseKeepsCount
<1>1. TypeOK /\ [Next]_vars
          => [\A t \in Threads : At(t, "erase") /\ At(t, "idle")' => SinkCount' = SinkCount]_vars
  <2> SUFFICES ASSUME TypeOK, Next, NEW t \in Threads, At(t, "erase"), At(t, "idle")'
               PROVE  SinkCount' = SinkCount
    OBVIOUS
  <2> QED
    BY RemovalEnds, EraseKeepsLive DEF SinkCount
<1> QED
  BY <1>1, TypeInvariant, PTL DEF Spec, EraseKeepsCount

\* A thread is inside clear_sinks or set_sink_level only in a program that
\* calls it.
OpsInv == \A t \in Threads :
    /\ call[t].pc \in {"clearList", "clearMaps"} => "clear" \in ops
    /\ call[t].pc \in {"setShared", "setWrite"} => "setLevel" \in ops

\* A program that uses only one of clear_sinks and set_sink_level(index) has
\* no two threads waiting for each other's lock.
THEOREM NoDeadlock ==
    ASSUME \A p \in Programs : ~({"clear", "setLevel"} \subseteq p)
    PROVE  Spec => []NoLockCycle
<1>1. Init => OpsInv
  BY DEF Init, OpsInv, NoCall
<1>2. TypeOK /\ OpsInv /\ [Next]_vars => OpsInv'
  <2> SUFFICES ASSUME TypeOK, OpsInv, [Next]_vars PROVE OpsInv'
    OBVIOUS
  <2>a. ops' = ops
    BY DEF Next, vars
  <2> USE <2>a
  <2> USE DEF OpsInv, TypeOK, At, Begin, Goto, Return, NoCall, objects, levels, locks
  <2>0. CASE UNCHANGED vars
    BY <2>0 DEF vars
  <2>1. ASSUME NEW t \in Threads, NEW n \in Names, NEW e \in Entries, AddSink(t, n, e)
        PROVE  OpsInv'
    BY <2>1 DEF AddSink
  <2>2. ASSUME NEW t \in Threads, NEW n \in Names, NEW w \in BOOLEAN, RemoveByName(t, n, w)
        PROVE  OpsInv'
    BY <2>2 DEF RemoveByName, Mark, Matching
  <2>3. ASSUME NEW t \in Threads, NEW i \in 1..MaxIndex, NEW w \in BOOLEAN, RemoveByIndex(t, i, w)
        PROVE  OpsInv'
    BY <2>3 DEF RemoveByIndex, Mark
  <2>4. ASSUME NEW t \in Threads, Drained(t)
        PROVE  OpsInv'
    BY <2>4 DEF Drained
  <2>5. ASSUME NEW t \in Threads, EraseByName(t)
        PROVE  OpsInv'
    BY <2>5 DEF EraseByName
  <2>6. ASSUME NEW t \in Threads, EraseUnused(t)
        PROVE  OpsInv'
    BY <2>6 DEF EraseUnused
  <2>7. ASSUME NEW t \in Threads, ClearMark(t)
        PROVE  OpsInv'
    BY <2>7 DEF ClearMark
  <2>8. ASSUME NEW t \in Threads, ClearList(t)
        PROVE  OpsInv'
    BY <2>8 DEF ClearList
  <2>9. ASSUME NEW t \in Threads, ClearMaps(t)
        PROVE  OpsInv'
    BY <2>9 DEF ClearMaps
  <2>10. ASSUME NEW t \in Threads, NEW i \in 1..MaxIndex, NEW l \in Levels, SetLevelLockMtx(t, i, l)
        PROVE  OpsInv'
    BY <2>10 DEF SetLevelLockMtx
  <2>11. ASSUME NEW t \in Threads, SetLevelLockSinks(t)
        PROVE  OpsInv'
    BY <2>11 DEF SetLevelLockSinks
  <2>12. ASSUME NEW t \in Threads, SetLevelWrite(t)
        PROVE  OpsInv'
    BY <2>12 DEF SetLevelWrite
  <2>13. ASSUME NEW t \in Threads, NEW n \in Names, NEW l \in Levels, SetLevelByName(t, n, l)
        PROVE  OpsInv'
    BY <2>13 DEF SetLevelByName
  <2>14. ASSUME NEW t \in Threads, ClearLevelsLock(t)
        PROVE  OpsInv'
    BY <2>14 DEF ClearLevelsLock
  <2>15. ASSUME NEW t \in Threads, ClearLevelsWrite(t)
        PROVE  OpsInv'
    BY <2>15 DEF ClearLevelsWrite
  <2>16. ASSUME NEW t \in Threads, NEW l \in Levels, LogCall(t, l)
        PROVE  OpsInv'
    BY <2>16 DEF LogCall
  <2>17. ASSUME NEW t \in Threads, LogAdmit(t)
        PROVE  OpsInv'
    BY <2>17 DEF LogAdmit
  <2>18. ASSUME NEW t \in Threads, LogLockSinks(t)
        PROVE  OpsInv'
    BY <2>18 DEF LogLockSinks
  <2>19. ASSUME NEW t \in Threads, LogSkip(t)
        PROVE  OpsInv'
    BY <2>19 DEF LogSkip, MoreEntries, NextEntry
  <2>20. ASSUME NEW t \in Threads, LogSelect(t)
        PROVE  OpsInv'
    BY <2>20 DEF LogSelect, MoreEntries
  <2>21. ASSUME NEW t \in Threads, LogGuard(t)
        PROVE  OpsInv'
    BY <2>21 DEF LogGuard
  <2>22. ASSUME NEW t \in Threads, LogRelease(t)
        PROVE  OpsInv'
    BY <2>22 DEF LogRelease, NextEntry
  <2>23. ASSUME NEW t \in Threads, LogReturn(t)
        PROVE  OpsInv'
    BY <2>23 DEF LogReturn
  <2> HIDE DEF OpsInv, TypeOK, At, Begin, Goto, Return, NoCall, objects, levels, locks
  <2> QED
    BY <2>0, <2>1, <2>2, <2>3, <2>4, <2>5, <2>6, <2>7, <2>8, <2>9, <2>10, <2>11, <2>12,
       <2>13, <2>14, <2>15, <2>16, <2>17, <2>18, <2>19, <2>20, <2>21, <2>22, <2>23
    DEF Next, Step
<1>3. TypeOK /\ LockInv /\ OpsInv => NoLockCycle
  <2> SUFFICES ASSUME TypeOK, LockInv, OpsInv, NEW t \in Threads, NEW u \in Threads,
                      WaitsFor(t, u), WaitsFor(u, t)
               PROVE  FALSE
    BY DEF NoLockCycle
  <2>1. CASE call[t].pc \in {"admit", "clearMaps"} /\ mtx = u
    BY <2>1, ThreadsAssumption DEF LockInv, OpsInv, WaitsFor, At, TypeOK
  <2>2. CASE call[t].pc \in {"lockShared", "setShared"} /\ writer = u
    BY <2>2, ThreadsAssumption DEF LockInv, OpsInv, WaitsFor, At, TypeOK
  <2>3. CASE At(t, "erase") /\ (writer = u \/ u \in readers)
    BY <2>3, ThreadsAssumption DEF LockInv, OpsInv, WaitsFor, At, TypeOK
  <2> QED
    BY <2>1, <2>2, <2>3 DEF WaitsFor
<1> QED
  BY <1>1, <1>2, <1>3, TypeInvariant, LockInvariant, PTL DEF Spec
\* The writes in progress, as the abstract specification sees them.
Writing == {p \in Threads \X Entries : At(p[1], "write") /\ call[p[1]].cur = p[2]}

\* Marking an entry under the exclusive lock removes a sink nobody writes to,
\* or, when it was marked already, nothing.
LEMMA MarkRemoves ==
    ASSUME TypeOK, LockInv, NEW t \in Threads, At(t, "idle"), readers = {},
           NEW e, e \in Listed, NEW n, NEW w, Mark(t, e, n, w)
    PROVE  [Abstract!Next]_<<Live, Writing>>
<1>1. e \in Entries /\ Listed \subseteq Entries /\ Listed' = Listed
  BY DEF Listed, Mark, TypeOK
<1>2. \A x \in Entries : marked'[x] = IF x = e THEN TRUE ELSE marked[x]
  BY DEF Mark, TypeOK
<1>3. Live' = Live \ {e}
  BY <1>1, <1>2 DEF Live
<1>4. \A u \in Threads : call[u].pc # "write" /\ call'[u].pc # "write"
  BY DEF LockInv, Mark, TypeOK, NoCall
<1>5. Writing = {} /\ Writing' = {}
  BY <1>4 DEF Writing, At
<1>6. CASE e \in Live
  BY <1>1, <1>3, <1>5, <1>6 DEF Abstract!Remove, Abstract!Idle, Abstract!Next, Writing
<1>7. CASE e \notin Live
  BY <1>3, <1>5, <1>7
<1> QED
  BY <1>6, <1>7

\* The registry with its locks, marks and counts implements the abstract set
\* of sinks, in which a sink leaves only when nobody is writing to it.
THEOREM Refinement == Spec => ImplementsSinkSet
<1>1. Init => Abstract!Init
  BY DEF Init, Abstract!Init, Live, Listed, At, NoCall
<1>2. TypeOK /\ LockInv /\ RemovalInv /\ ScanStable /\ [Next]_vars
          => [Abstract!Next]_<<Live, Writing>>
  <2> SUFFICES ASSUME TypeOK, LockInv, RemovalInv, ScanStable, [Next]_vars
               PROVE  [Abstract!Next]_<<Live, Writing>>
    OBVIOUS
  <2> USE DEF TypeOK, Calls, Writing, At, Begin, Goto, Return, NoCall, CanWrite,
              objects, levels, locks
  <2>0. CASE UNCHANGED vars
    BY <2>0 DEF vars, Live, Listed
  <2>1. ASSUME NEW t \in Threads, NEW n \in Names, NEW e \in Entries, AddSink(t, n, e)
        PROVE  [Abstract!Next]_<<Live, Writing>>
    <3>1. Writing' = Writing
      BY <2>1 DEF AddSink
    <3>2. e \notin Live /\ Abstract!Idle(e)
      BY <2>1 DEF AddSink, Fresh, Live, Abstract!Idle
    <3>3. Listed' = Listed \cup {e}
      <4>1. entries \in Seq(Entries) /\ entries' = Append(entries, e)
        BY <2>1 DEF AddSink
      <4> QED
        BY <4>1, AppendListed
    <3>4. e \notin Listed /\ Listed \subseteq Entries
      BY <2>1 DEF AddSink, Fresh, Listed, TypeOK
    <3>5. \A x \in Entries : marked'[x] = IF x = e THEN FALSE ELSE marked[x]
      BY <2>1 DEF AddSink, TypeOK
    <3>6. Live' = Live \cup {e}
      BY <3>3, <3>4, <3>5 DEF Live
    <3> QED
      BY <3>1, <3>2, <3>6 DEF Abstract!Add, Abstract!Next
  <2>2. ASSUME NEW t \in Threads, NEW n \in Names, NEW w \in BOOLEAN, RemoveByName(t, n, w)
        PROVE  [Abstract!Next]_<<Live, Writing>>
    <3>1. PICK i \in 1..Len(entries) : Mark(t, entries[i], n, w)
      BY <2>2 DEF RemoveByName, Matching
    <3>2. entries[i] \in Listed /\ readers = {} /\ At(t, "idle")
      BY <2>2 DEF RemoveByName, CanWrite, Begin, Listed
    <3> QED
      BY <3>1, <3>2, MarkRemoves
  <2>3. ASSUME NEW t \in Threads, NEW i \in 1..MaxIndex, NEW w \in BOOLEAN, RemoveByIndex(t, i, w)
        PROVE  [Abstract!Next]_<<Live, Writing>>
    <3>1. Mark(t, entries[i], NoName, w)
      BY <2>3 DEF RemoveByIndex
    <3>2. entries[i] \in Listed /\ readers = {} /\ At(t, "idle")
      BY <2>3 DEF RemoveByIndex, CanWrite, Begin, Listed
    <3> QED
      BY <3>1, <3>2, MarkRemoves
  <2>4. ASSUME NEW t \in Threads, Drained(t)
        PROVE  [Abstract!Next]_<<Live, Writing>>
    <3>1. Live' = Live
      BY <2>4 DEF Drained, Live, Listed
    <3>2. Writing' = Writing
      BY <2>4 DEF Drained
    <3> QED
      BY <3>1, <3>2
  <2>5. ASSUME NEW t \in Threads, EraseByName(t)
        PROVE  [Abstract!Next]_<<Live, Writing>>
    <3>1. Live' = Live
      BY <2>5, EraseKeepsLive
    <3>2. Writing' = Writing
      BY <2>5 DEF EraseByName
    <3> QED
      BY <3>1, <3>2
  <2>6. ASSUME NEW t \in Threads, EraseUnused(t)
        PROVE  [Abstract!Next]_<<Live, Writing>>
    <3>1. Live' = Live
      BY <2>6, EraseKeepsLive
    <3>2. Writing' = Writing
      BY <2>6 DEF EraseUnused
    <3> QED
      BY <3>1, <3>2
  <2>7. ASSUME NEW t \in Threads, ClearMark(t)
        PROVE  [Abstract!Next]_<<Live, Writing>>
    <3>1. Writing' = Writing
      BY <2>7 DEF ClearMark
    <3>2. Live' = {}
      <4>1. Listed' = Listed /\ Listed \subseteq Entries
        BY <2>7 DEF ClearMark, Listed
      <4>2. marked' = [x \in Entries |-> marked[x] \/ x \in Listed]
        BY <2>7 DEF ClearMark
      <4> QED
        BY <4>1, <4>2 DEF Live
    <3>3. \A s \in Live : Abstract!Idle(s)
      BY <2>7 DEF ClearMark, LockInv, Abstract!Idle
    <3> QED
      BY <3>1, <3>2, <3>3 DEF Abstract!RemoveAll, Abstract!Next
  <2>8. ASSUME NEW t \in Threads, ClearList(t)
        PROVE  [Abstract!Next]_<<Live, Writing>>
    <3>1. Live = {} /\ Live' = {}
      BY <2>8 DEF ClearList, RemovalInv, Live, Listed
    <3>2. Writing' = Writing
      BY <2>8 DEF ClearList
    <3> QED
      BY <3>1, <3>2
  <2>9. ASSUME NEW t \in Threads, ClearMaps(t)
        PROVE  [Abstract!Next]_<<Live, Writing>>
    <3>1. Live' = Live
      BY <2>9 DEF ClearMaps, Live, Listed
    <3>2. Writing' = Writing
      BY <2>9 DEF ClearMaps
    <3> QED
      BY <3>1, <3>2
  <2>10. ASSUME NEW t \in Threads, NEW i \in 1..MaxIndex, NEW l \in Levels, SetLevelLockMtx(t, i, l)
        PROVE  [Abstract!Next]_<<Live, Writing>>
    <3>1. Live' = Live
      BY <2>10 DEF SetLevelLockMtx, Live, Listed
    <3>2. Writing' = Writing
      BY <2>10 DEF SetLevelLockMtx
    <3> QED
      BY <3>1, <3>2
  <2>11. ASSUME NEW t \in Threads, SetLevelLockSinks(t)
        PROVE  [Abstract!Next]_<<Live, Writing>>
    <3>1. Live' = Live
      BY <2>11 DEF SetLevelLockSinks, Live, Listed
    <3>2. Writing' = Writing
      BY <2>11 DEF SetLevelLockSinks
    <3> QED
      BY <3>1, <3>2
  <2>12. ASSUME NEW t \in Threads, SetLevelWrite(t)
        PROVE  [Abstract!Next]_<<Live, Writing>>
    <3>1. Live' = Live
      BY <2>12 DEF SetLevelWrite, Live, Listed
    <3>2. Writing' = Writing
      BY <2>12 DEF SetLevelWrite
    <3> QED
      BY <3>1, <3>2
  <2>13. ASSUME NEW t \in Threads, NEW n \in Names, NEW l \in Levels, SetLevelByName(t, n, l)
        PROVE  [Abstract!Next]_<<Live, Writing>>
    <3>1. Live' = Live
      BY <2>13 DEF SetLevelByName, Live, Listed
    <3>2. Writing' = Writing
      BY <2>13 DEF SetLevelByName
    <3> QED
      BY <3>1, <3>2
  <2>14. ASSUME NEW t \in Threads, ClearLevelsLock(t)
        PROVE  [Abstract!Next]_<<Live, Writing>>
    <3>1. Live' = Live
      BY <2>14 DEF ClearLevelsLock, Live, Listed
    <3>2. Writing' = Writing
      BY <2>14 DEF ClearLevelsLock
    <3> QED
      BY <3>1, <3>2
  <2>15. ASSUME NEW t \in Threads, ClearLevelsWrite(t)
        PROVE  [Abstract!Next]_<<Live, Writing>>
    <3>1. Live' = Live
      BY <2>15 DEF ClearLevelsWrite, Live, Listed
    <3>2. Writing' = Writing
      BY <2>15 DEF ClearLevelsWrite
    <3> QED
      BY <3>1, <3>2
  <2>16. ASSUME NEW t \in Threads, NEW l \in Levels, LogCall(t, l)
        PROVE  [Abstract!Next]_<<Live, Writing>>
    <3>1. Live' = Live
      BY <2>16 DEF LogCall, Live, Listed
    <3>2. Writing' = Writing
      BY <2>16 DEF LogCall
    <3> QED
      BY <3>1, <3>2
  <2>17. ASSUME NEW t \in Threads, LogAdmit(t)
        PROVE  [Abstract!Next]_<<Live, Writing>>
    <3>1. Live' = Live
      BY <2>17 DEF LogAdmit, Live, Listed
    <3>2. Writing' = Writing
      BY <2>17 DEF LogAdmit
    <3> QED
      BY <3>1, <3>2
  <2>18. ASSUME NEW t \in Threads, LogLockSinks(t)
        PROVE  [Abstract!Next]_<<Live, Writing>>
    <3>1. Live' = Live
      BY <2>18 DEF LogLockSinks, Live, Listed
    <3>2. Writing' = Writing
      BY <2>18 DEF LogLockSinks
    <3> QED
      BY <3>1, <3>2
  <2>19. ASSUME NEW t \in Threads, LogSkip(t)
        PROVE  [Abstract!Next]_<<Live, Writing>>
    <3>1. Live' = Live
      BY <2>19 DEF LogSkip, MoreEntries, NextEntry, Live, Listed
    <3>2. Writing' = Writing
      BY <2>19 DEF LogSkip, MoreEntries, NextEntry
    <3> QED
      BY <3>1, <3>2
  <2>20. ASSUME NEW t \in Threads, LogSelect(t)
        PROVE  [Abstract!Next]_<<Live, Writing>>
    <3>1. Live' = Live
      BY <2>20 DEF LogSelect, MoreEntries, Live, Listed
    <3>2. Writing' = Writing
      BY <2>20 DEF LogSelect, MoreEntries
    <3> QED
      BY <3>1, <3>2
  <2>21. ASSUME NEW t \in Threads, LogGuard(t)
        PROVE  [Abstract!Next]_<<Live, Writing>>
    <3>1. Live' = Live
      BY <2>21 DEF LogGuard, Live, Listed
    <3>2. PICK c \in Entries : c = call[t].cur /\ c \in Live
      BY <2>21 DEF LogGuard, ScanStable, Live, Listed
    <3>3. /\ call[t].pc = "guard" /\ call'[t].pc = "write" /\ call'[t].cur = c
          /\ \A u \in Threads : u # t => call'[u] = call[u]
      BY <2>21, <3>2 DEF LogGuard, Live
    <3>4. Writing' = Writing \cup {<<t, c>>}
      <4>1. \A u \in Threads, x \in Entries :
               (call'[u].pc = "write" /\ call'[u].cur = x)
                  <=> (call[u].pc = "write" /\ call[u].cur = x) \/ (u = t /\ x = c)
        BY <3>2, <3>3
      <4> QED
        BY <3>2, <4>1
    <3>5. \A r \in Entries : <<t, r>> \notin Writing
      BY <3>3
    <3> QED
      BY <3>1, <3>2, <3>4, <3>5 DEF Abstract!BeginWrite, Abstract!Next
  <2>22. ASSUME NEW t \in Threads, LogRelease(t)
        PROVE  [Abstract!Next]_<<Live, Writing>>
    <3>1. Live' = Live
      BY <2>22 DEF LogRelease, Live, Listed
    <3>0. call[t].idx \in 1..Len(entries) /\ entries[call[t].idx] = call[t].cur
      BY <2>22 DEF LogRelease, ScanStable
    <3>2. PICK c \in Entries : c = call[t].cur
      BY <3>0
    <3>3. /\ call'[t].pc = "scan"
          /\ \A u \in Threads : u # t => call'[u] = call[u]
      BY <2>22 DEF LogRelease, NextEntry
    <3>4. Writing' = Writing \ {<<t, c>>}
      BY <3>2, <3>3
    <3>5. CASE call[t].pc = "write"
      <4>1. <<t, c>> \in Writing
        BY <3>2, <3>5
      <4> QED
        BY <3>1, <3>4, <4>1 DEF Abstract!EndWrite, Abstract!Next
    <3>6. CASE call[t].pc # "write"
      <4>1. Writing' = Writing
        BY <3>4, <3>6
      <4> QED
        BY <3>1, <4>1
    <3> QED
      BY <3>5, <3>6
  <2>23. ASSUME NEW t \in Threads, LogReturn(t)
        PROVE  [Abstract!Next]_<<Live, Writing>>
    <3>1. Live' = Live
      BY <2>23 DEF LogReturn, Live, Listed
    <3>2. Writing' = Writing
      BY <2>23 DEF LogReturn
    <3> QED
      BY <3>1, <3>2
  <2> HIDE DEF TypeOK, Calls, Writing, At, Begin, Goto, Return, NoCall, CanWrite, objects,
               levels, locks
  <2> QED
    BY <2>0, <2>1, <2>2, <2>3, <2>4, <2>5, <2>6, <2>7, <2>8, <2>9, <2>10, <2>11, <2>12,
       <2>13, <2>14, <2>15, <2>16, <2>17, <2>18, <2>19, <2>20, <2>21, <2>22, <2>23
    DEF Next, Step
<1> QED
  BY <1>1, <1>2, TypeInvariant, LockInvariant, ScanInvariant, PTL
  DEF Spec, ImplementsSinkSet, Abstract!Spec, Writing
=============================================================================
