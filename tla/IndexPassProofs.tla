-------------------------- MODULE IndexPassProofs --------------------------
(***************************************************************************)
(* The safety of IndexPass for every set of files and versions, any scope  *)
(* and heal threshold, any number of edits, passes, crashes and failed     *)
(* writes.  The invariant is built in layers, each of them preserved given *)
(* those before it: the types and what the goroutines hold, the graph,     *)
(* the hashes, the edges a pass owes, the heal.  The last section is about *)
(* the lock that a pass holds.                                             *)
(***************************************************************************)
EXTENDS IndexPass, ProjectLock, TLAPS

\* What the goroutines of a pass hold.
Pool ==
    /\ \A f \in Files : work[f] # "none" \/ f \in buf => got[f] \in Content /\ f \in extracted
    /\ \A f \in buf : work[f] = "none"
    /\ \A f \in todo : work[f] = "none" /\ f \notin buf
    /\ pc # "walk" => buf = {} /\ \A f \in Files : work[f] = "none"
Typed == TypeOK /\ Pool

\* A pass that ends, in whatever way, leaves no goroutine and no mode behind.
LEMMA EndPassTyped ==
    ASSUME EndPass
    PROVE  PassOK' /\ ModeOK' /\ Pool'
<1>1. PassOK' /\ ModeOK'
  BY DEF EndPass, NoPass, PassOK, ModeOK, Maybe
<1>2. Pool'
  BY DEF EndPass, Pool
<1> QED
  BY <1>1, <1>2

\* The system starts with a complete index of the repository and no pass.
LEMMA TypedInit == Init => Typed
<1> SUFFICES ASSUME Init PROVE Typed
  OBVIOUS
<1> USE IndexAssumption DEF Init
<1>1. RepoOK
  BY DEF RepoOK, Maybe
<1>2. StoreOK
  BY <1>1 DEF RepoOK, StoreOK, Bound, Rows, Maybe, Content
<1>3. PassOK /\ Pool
  BY DEF PassOK, Pool, Maybe
<1>4. ModeOK
  BY DEF ModeOK, NoPass
<1>5. heal \in BOOLEAN
  BY Zenon
<1>6. WatchOK
  BY <1>5 DEF WatchOK
<1> QED
  BY <1>1, <1>2, <1>3, <1>4, <1>6 DEF Typed, TypeOK

\* Every step of the repository, of a pass and of the watcher stays within the
\* domains; a file is with the walk, a goroutine or the flush buffer.
LEMMA TypedStep ==
    ASSUME Typed, [Next]_vars
    PROVE  Typed'
<1> USE IndexAssumption DEF vars, repo, store, tables, pass, loop, worker, watcher, Maybe,
        Typed, TypeOK, Pool, RepoOK, StoreOK, PassOK, ModeOK, WatchOK
<1>1. ASSUME NEW f \in Files, Edit(f) PROVE Typed'
  BY <1>1 DEF Edit
<1>2. CASE Clock
  BY <1>2 DEF Clock
<1>3. ASSUME NEW force \in BOOLEAN, NEW by \in {"server", "cli"}, UserIndex(force, by) PROVE Typed'
  BY <1>3 DEF UserIndex, Begin
<1>4. CASE Mark
  BY <1>4 DEF Mark
<1>5. CASE Clear
  BY <1>5 DEF Clear
<1>6. ASSUME NEW f \in Files, Visit(f) PROVE Typed'
  <2>1. FilesWithEdgesTo(f) \subseteq Files
    BY DEF FilesWithEdgesTo
  <2>2. disk[f] \in Maybe(Content)
    OBVIOUS
  <2>3. CASE UNCHANGED <<extracted, referrers, work, got>>
    BY <1>6, <2>3 DEF Visit
  <2>4. CASE ~UNCHANGED <<extracted, referrers, work, got>>
    BY <1>6, <2>1, <2>2, <2>4 DEF Visit
  <2> QED
    BY <2>3, <2>4
<1>7. ASSUME NEW f \in Files, SkipUnknown(f) PROVE Typed'
  BY <1>7 DEF SkipUnknown
<1>8. ASSUME NEW f \in Files, DeleteSymbolsForFile(f) PROVE Typed'
  BY <1>8 DEF DeleteSymbolsForFile, Cascade
<1>9. ASSUME NEW f \in Files, CommitEmpty(f) PROVE Typed'
  BY <1>9 DEF CommitEmpty
<1>10. ASSUME NEW f \in Files, CommitFileExtraction(f) PROVE Typed'
  BY <1>10 DEF CommitFileExtraction, Content
<1>11. ASSUME NEW f \in Files, Buffer(f) PROVE Typed'
  <2>1. StoreOK' /\ PassOK'
    BY <1>11 DEF Buffer, Flush
  <2>2. ModeOK'
    BY <1>11, Zenon DEF Buffer
  <2>3. WatchOK'
    BY <1>11 DEF Buffer
  <2>4. Pool'
    BY <1>11 DEF Buffer, Flush
  <2> QED
    BY <1>11, <2>1, <2>2, <2>3, <2>4 DEF Buffer
<1>12. CASE FinalFlush
  BY <1>12 DEF FinalFlush, Flush
<1>13. CASE Resolve
  <2>1. \A S \in SUBSET Files : Bound(S) \subseteq Files \X Files
    BY DEF Bound
  <2>2. ScopeSet \subseteq Files
    BY DEF ScopeSet
  <2>3. edges' \subseteq Files \X Files
    BY <1>13, <2>1, <2>2 DEF Resolve
  <2> QED
    BY <1>13, <2>3 DEF Resolve
<1>14. CASE CollectGarbage
  BY <1>14 DEF CollectGarbage, GarbageSymbols, GarbageHash, GarbagePending, GarbageGone, Cascade
<1>15. CASE Complete
  BY <1>15, EndPassTyped DEF Complete, ReturnToCaller
<1>16. CASE CompleteFails
  BY <1>16, EndPassTyped DEF CompleteFails, ReturnToCaller
<1>17. CASE Cancel
  BY <1>17 DEF Cancel
<1>18. CASE Abort
  BY <1>18, EndPassTyped DEF Abort, ReturnToCaller
<1>19. CASE FinalFlushFails
  BY <1>19, EndPassTyped DEF FinalFlushFails, ReturnToCaller
<1>20. CASE Crash
  <2>1. heal' \in BOOLEAN
    BY <1>20, Zenon DEF Crash
  <2>2. WatchOK'
    BY <1>20, <2>1 DEF Crash
  <2>3. CASE UNCHANGED pass
    BY <1>20, <2>2, <2>3 DEF Crash
  <2>4. CASE EndPass
    BY <1>20, <2>2, <2>4, EndPassTyped DEF Crash
  <2> QED
    BY <1>20, <2>3, <2>4 DEF Crash
<1>21. CASE CrashCli
  BY <1>21, EndPassTyped DEF CrashCli
<1>22. CASE Tick
  <2>1. heal' \in BOOLEAN
    BY <1>22, Zenon DEF Tick
  <2>2. changed' \subseteq Files
    BY <1>22 DEF Tick, ChangedFiles
  <2> QED
    BY <1>22, <2>1, <2>2 DEF Tick
<1>23. CASE InvalidateReferencers
  BY <1>23 DEF InvalidateReferencers
<1>24. CASE WatchIndex
  <2>1. CASE Begin(FALSE, FALSE, "watcher")
    BY <1>24, <2>1 DEF WatchIndex, Begin
  <2>2. CASE UNCHANGED <<repo, store, pass>>
    <3>1. WatchOK'
      BY <1>24 DEF WatchIndex
    <3> QED
      BY <2>2, <3>1
  <2> QED
    BY <1>24, <2>1, <2>2 DEF WatchIndex
<1>25. CASE AfterIndex
  <2>1. heal' \in BOOLEAN
    BY <1>25, Zenon DEF AfterIndex
  <2>2. since' \in 0 .. HealThreshold - 1
    BY <1>25 DEF AfterIndex
  <2> QED
    BY <1>25, <2>1, <2>2 DEF AfterIndex
<1>26. CASE WatchHeal
  <2>1. CASE Begin(FALSE, TRUE, "watcher")
    BY <1>26, <2>1 DEF WatchHeal, Begin
  <2>2. CASE UNCHANGED <<repo, store, pass>>
    <3>1. WatchOK'
      BY <1>26 DEF WatchHeal
    <3> QED
      BY <2>2, <3>1
  <2> QED
    BY <1>26, <2>1, <2>2 DEF WatchHeal
<1>27. CASE Quiet
  BY <1>27 DEF Quiet
<1>28. CASE UNCHANGED vars
  BY <1>28
<1> HIDE DEF vars, Typed
<1> QED
  BY <1>1, <1>2, <1>3, <1>4, <1>5, <1>6, <1>7, <1>8, <1>9, <1>10, <1>11, <1>12, <1>13,
     <1>14, <1>15, <1>16, <1>17, <1>18, <1>19, <1>20, <1>21, <1>22, <1>23, <1>24,
     <1>25, <1>26, <1>27, <1>28
  DEF Next, PassStep, WorkerStep, WatchStep

-----------------------------------------------------------------------------
(* The steps that matter to the tables *)

\* What a pass works with, and whether it was cancelled.
Frame == <<store, pc, opt, loop, worker, before>>

\* A step of the system leaves store and pass alone, begins or ends a pass, or
\* is one of the steps that write the tables.
LEMMA StepCases ==
    ASSUME [Next]_vars
    PROVE  \/ UNCHANGED Frame
           \/ \E force, only \in BOOLEAN, by \in {"server", "cli", "watcher"} : Begin(force, only, by)
           \/ EndPass /\ UNCHANGED store
           \/ Complete \/ InvalidateReferencers
           \/ Mark \/ Clear \/ FinalFlush \/ Resolve \/ CollectGarbage
           \/ \E f \in Files : Visit(f) \/ WorkerStep(f)
<1> USE DEF Frame, vars, pass, store, tables, loop, worker
<1>1. CASE (\E f \in Files : Edit(f)) \/ Clock \/ Cancel \/ Tick \/ AfterIndex \/ Quiet \/ UNCHANGED vars
  BY <1>1 DEF Edit, Clock, Cancel, Tick, AfterIndex, Quiet
<1>2. CASE (\E force \in BOOLEAN, by \in {"server", "cli"} : UserIndex(force, by)) \/ WatchIndex \/ WatchHeal
  BY <1>2 DEF UserIndex, WatchIndex, WatchHeal
<1>3. CASE CompleteFails \/ Abort \/ FinalFlushFails \/ Crash \/ CrashCli
  BY <1>3 DEF CompleteFails, Abort, FinalFlushFails, Crash, CrashCli
<1> HIDE DEF vars
<1> QED
  BY <1>1, <1>2, <1>3 DEF Next, PassStep, WatchStep

-----------------------------------------------------------------------------
(* The graph *)

\* The old symbols of f are deleted, the new ones not flushed yet.
Deleted(f) == work[f] \in {"commit", "buffer"} \/ f \in buf

\* No row and no edge speaks of f.
Detached(f) == sym[f] = None /\ \A e \in edges : e[1] # f /\ e[2] # f

\* A flush only adds symbols: those of files that nothing refers to.
Deletions ==
    /\ \A f \in Files : Deleted(f) => Detached(f)
    /\ pc = "clear" => Full
    /\ pc = "walk" /\ Full =>
          /\ edges = {}
          /\ \A f \in Files : f \in todo \/ work[f] # "none" => sym[f] = None
    /\ pc \in {"unhash", "unpend"} => \A f \in todo : Detached(f)

\* The pending edges of a file are the calls of its symbols, of those that are
\* stored and of those that wait for a flush.
PendingMatches ==
    /\ \A f \in Files : sym[f] # None => HasSymbols(sym[f]) /\ pend[f] = sym[f].calls
    /\ \A f \in Files : work[f] = "buffer" \/ f \in buf =>
          HasSymbols(got[f]) /\ pend[f] = got[f].calls

\* Every edge is the binding of a pending edge that is still on file.
EdgesArePending == \A e \in edges : e[2] \in pend[e[1]]

Graph == Deletions /\ PendingMatches /\ NoPhantomEdges /\ EdgesArePending

LEMMA GraphInit == Init => Graph
  BY IndexAssumption DEF Init, Graph, Deletions, Deleted, PendingMatches, NoPhantomEdges,
     EdgesArePending, Rows, Bound, Maybe, Content

\* The phases of a pass keep the graph in order.  A file's symbols go together
\* with every edge at either end, and come back before anything is bound.
LEMMA GraphStep ==
    ASSUME Typed, Graph, [Next]_vars
    PROVE  Graph'
<1> USE DEF Graph, Deletions, Deleted, Detached, PendingMatches, NoPhantomEdges, EdgesArePending,
        Calls, Defines, Full, Typed, TypeOK, StoreOK, PassOK, Pool, tables, store, loop, worker
<1>1. CASE UNCHANGED Frame
  BY <1>1 DEF Frame
<1>2. ASSUME NEW force, NEW only, NEW by, Begin(force, only, by) PROVE Graph'
  BY <1>2 DEF Begin
<1>3. CASE EndPass /\ UNCHANGED store
  BY <1>3 DEF EndPass
<1>4. CASE Complete
  BY <1>4 DEF Complete, EndPass
<1>5. CASE InvalidateReferencers
  BY <1>5 DEF InvalidateReferencers, pass
<1>6. CASE Mark
  BY <1>6 DEF Mark
<1>7. CASE Clear
  BY <1>7 DEF Clear
<1>8. ASSUME NEW f \in Files, Visit(f) PROVE Graph'
  BY <1>8 DEF Visit
<1>9. ASSUME NEW f \in Files, SkipUnknown(f) PROVE Graph'
  BY <1>9 DEF SkipUnknown
<1>10. ASSUME NEW f \in Files, DeleteSymbolsForFile(f) PROVE Graph'
  BY <1>10 DEF DeleteSymbolsForFile, Cascade
<1>11. ASSUME NEW f \in Files, CommitEmpty(f) PROVE Graph'
  BY <1>11 DEF CommitEmpty
<1>12. ASSUME NEW f \in Files, CommitFileExtraction(f) PROVE Graph'
  BY <1>12 DEF CommitFileExtraction
<1>13. ASSUME NEW f \in Files, Buffer(f) PROVE Graph'
  BY <1>13 DEF Buffer, Flush
<1>14. CASE FinalFlush
  BY <1>14 DEF FinalFlush, Flush
<1>15. CASE Resolve
  BY <1>15 DEF Resolve, Bound
<1>16. CASE CollectGarbage
  BY <1>16 DEF CollectGarbage, GarbageSymbols, GarbageHash, GarbagePending, GarbageGone, Cascade
<1> HIDE DEF Graph
<1> QED
  BY <1>1, <1>2, <1>3, <1>4, <1>5, <1>6, <1>7, <1>8, <1>9, <1>10, <1>11, <1>12, <1>13, <1>14,
     <1>15, <1>16, StepCases DEF WorkerStep

-----------------------------------------------------------------------------
(* What a stored hash vouches for *)

\* The rows of f are those of the content hashed.
Vouched(f) ==
    hash[f] # None /\ hash[f].lang =>
        sym[f] = Rows(hash[f]) /\ (sym[f] # None => pend[f] = hash[f].calls)

\* index_state tells whether a pass was interrupted after it began to write.
RunningIsMarked ==
    /\ pc = "mark" => opt.recover = (state = "running")
    /\ pc \in {"clear", "walk", "resolve", "gc", "unhash", "unpend", "complete"} => state = "running"

\* Between passes every hash vouches, and so does that of a file the walk has
\* not taken up or is done with.  In between the hash is ahead of the symbols,
\* unless the watcher has cleared it.
Vouching ==
    /\ state = "complete" \/ pc \in {"resolve", "gc", "complete"} => \A f \in Files : Vouched(f)
    /\ pc \in {"unhash", "unpend"} => \A f \in Files :
          IF f \notin todo THEN Vouched(f) ELSE pc = "unpend" => hash[f] = None
    /\ pc = "walk" => \A f \in Files :
          /\ ~Deleted(f) => Vouched(f)
          /\ Deleted(f) => got[f].lang
          /\ work[f] = "buffer" \/ f \in buf => hash[f] \in {got[f], None}

Faithful == RunningIsMarked /\ Vouching

LEMMA FaithfulInit == Init => Faithful
  BY IndexAssumption DEF Init, Faithful, RunningIsMarked, Vouching, Vouched, Rows, Maybe, Content

\* A pass that starts from an interrupted one clears the tables first; any
\* other starts from hashes that vouch, and commits a hash only with the
\* symbols to follow, or for a file that has none any more.
LEMMA FaithfulStep ==
    ASSUME Typed, Graph, Faithful, [Next]_vars
    PROVE  Faithful'
<1> USE DEF Faithful, RunningIsMarked, Vouching, Vouched, Deleted, Detached, Graph, Deletions,
        PendingMatches, Full, Typed, TypeOK, RepoOK, StoreOK, PassOK, ModeOK, Pool, Maybe,
        tables, store, loop, worker
<1>1. CASE UNCHANGED Frame
  BY <1>1 DEF Frame
<1>2. ASSUME NEW force, NEW only, NEW by, Begin(force, only, by) PROVE Faithful'
  BY <1>2 DEF Begin
<1>3. CASE EndPass /\ UNCHANGED store
  BY <1>3 DEF EndPass
<1>4. CASE Complete
  BY <1>4 DEF Complete, EndPass
<1>5. CASE InvalidateReferencers
  BY <1>5 DEF InvalidateReferencers, pass
<1>6. CASE Mark
  BY <1>6 DEF Mark
<1>7. CASE Clear
  BY <1>7 DEF Clear
<1>8. ASSUME NEW f \in Files, Visit(f) PROVE Faithful'
  BY <1>8 DEF Visit
<1>9. ASSUME NEW f \in Files, SkipUnknown(f) PROVE Faithful'
  BY <1>9 DEF SkipUnknown
<1>10. ASSUME NEW f \in Files, DeleteSymbolsForFile(f) PROVE Faithful'
  BY <1>10 DEF DeleteSymbolsForFile, Cascade
<1>11. ASSUME NEW f \in Files, CommitEmpty(f) PROVE Faithful'
  BY <1>11 DEF CommitEmpty, Rows
<1>12. ASSUME NEW f \in Files, CommitFileExtraction(f) PROVE Faithful'
  BY <1>12 DEF CommitFileExtraction
<1>13. ASSUME NEW f \in Files, Buffer(f) PROVE Faithful'
  BY <1>13, IndexAssumption DEF Buffer, Flush, Rows
<1>14. CASE FinalFlush
  BY <1>14, IndexAssumption DEF FinalFlush, Flush, Rows
<1>15. CASE Resolve
  BY <1>15 DEF Resolve
<1>16. CASE CollectGarbage
  BY <1>16 DEF CollectGarbage, GarbageSymbols, GarbageHash, GarbagePending, GarbageGone, Cascade
<1> HIDE DEF Graph, Faithful, Typed
<1> QED
  BY <1>1, <1>2, <1>3, <1>4, <1>5, <1>6, <1>7, <1>8, <1>9, <1>10, <1>11, <1>12, <1>13, <1>14,
     <1>15, <1>16, StepCases DEF WorkerStep

-----------------------------------------------------------------------------
(* The edges a pass may not lose *)

\* The call and the function of e are in the symbols table.
Binds(e) == Calls(e[1]) /\ e[2] \in sym[e[1]].calls /\ Defines(e[2])

\* A scoped pass: an edge that a deletion took with it has its caller in the
\* scope, because the walk snapshots the referrers of a file before its
\* goroutine deletes the file's symbols, and no edge is added meanwhile.
Scoped ==
    /\ pc = "mark" => before = edges
    /\ pc = "walk" /\ ~Full =>
          \A f \in Files : work[f] = "delete" => \A e \in edges : e[2] = f => e[1] \in ScopeSet
    /\ pc \in {"walk", "resolve"} /\ ~Full =>
          \A e \in before : e \in edges \/ (e[1] \in ScopeSet /\ extracted # {})

Survivors == Scoped /\ (pc \in {"gc", "unhash", "unpend", "complete"} => \A e \in before : Binds(e) => e \in edges)

LEMMA SurvivorsStep ==
    ASSUME Typed, Graph, Survivors, [Next]_vars
    PROVE  Survivors'
<1> USE DEF Survivors, Scoped, Binds, ScopeSet, Calls, Defines, Full, Typed, TypeOK, StoreOK,
        PassOK, Pool, tables, store, loop, worker
<1>1. CASE UNCHANGED Frame
  BY <1>1 DEF Frame
<1>2. ASSUME NEW force, NEW only, NEW by, Begin(force, only, by) PROVE Survivors'
  BY <1>2 DEF Begin
<1>3. CASE EndPass /\ UNCHANGED store
  BY <1>3 DEF EndPass
<1>4. CASE Complete
  BY <1>4 DEF Complete, EndPass
<1>5. CASE InvalidateReferencers
  BY <1>5 DEF InvalidateReferencers, pass
<1>6. CASE Mark
  BY <1>6 DEF Mark
<1>7. CASE Clear
  BY <1>7 DEF Clear, Graph, Deletions
<1>8. ASSUME NEW f \in Files, Visit(f) PROVE Survivors'
  <2>1. pc = "walk" /\ UNCHANGED <<pc, opt, edges, before>>
    BY <1>8 DEF Visit
  <2>2. CASE Full \/ UNCHANGED <<extracted, referrers, work, got>>
    BY <2>1, <2>2
  <2>3. CASE ~Full /\ ~UNCHANGED <<extracted, referrers, work, got>>
    <3>1. /\ extracted' = extracted \cup {f} /\ referrers' = referrers \cup FilesWithEdgesTo(f)
          /\ work' = [work EXCEPT ![f] = "delete"]
      BY <1>8, <2>3 DEF Visit
    <3>2. ScopeSet \subseteq ScopeSet' /\ \A e \in edges : e[2] = f => e[1] \in ScopeSet'
      BY <3>1 DEF FilesWithEdgesTo
    <3>3. \A g \in Files : work'[g] = "delete" => g = f \/ work[g] = "delete"
      BY <3>1
    <3> QED
      BY <2>1, <2>3, <3>1, <3>2, <3>3
  <2> QED
    BY <2>2, <2>3
<1>9. ASSUME NEW f \in Files, SkipUnknown(f) PROVE Survivors'
  BY <1>9 DEF SkipUnknown
<1>10. ASSUME NEW f \in Files, DeleteSymbolsForFile(f) PROVE Survivors'
  BY <1>10 DEF DeleteSymbolsForFile, Cascade
<1>11. ASSUME NEW f \in Files, CommitEmpty(f) PROVE Survivors'
  BY <1>11 DEF CommitEmpty
<1>12. ASSUME NEW f \in Files, CommitFileExtraction(f) PROVE Survivors'
  BY <1>12 DEF CommitFileExtraction
<1>13. ASSUME NEW f \in Files, Buffer(f) PROVE Survivors'
  BY <1>13 DEF Buffer
<1>14. CASE FinalFlush
  BY <1>14 DEF FinalFlush
<1>15. CASE Resolve
  <2>1. ASSUME NEW e \in before, Binds(e) PROVE e \in edges'
    <3>1. e \in Files \X Files /\ e[2] \in pend[e[1]]
      BY <2>1 DEF Graph, PendingMatches
    <3>2. e \in Bound(Files) /\ (e[1] \in ScopeSet => e \in Bound(ScopeSet))
      BY <2>1, <3>1 DEF Bound
    <3>3. ~Full => e \in edges \/ (e[1] \in ScopeSet /\ extracted # {})
      BY <1>15 DEF Resolve
    <3> HIDE DEF ScopeSet, Full
    <3> QED
      BY <1>15, <3>1, <3>2, <3>3 DEF Resolve, UseScope
  <2> QED
    BY <1>15, <2>1 DEF Resolve
<1>16. CASE CollectGarbage
  BY <1>16 DEF CollectGarbage, GarbageSymbols, GarbageHash, GarbagePending, GarbageGone, Cascade
<1> HIDE DEF Survivors, Typed
<1> QED
  BY <1>1, <1>2, <1>3, <1>4, <1>5, <1>6, <1>7, <1>8, <1>9, <1>10, <1>11, <1>12, <1>13, <1>14,
     <1>15, <1>16, StepCases DEF WorkerStep

\* Only Resolve leads to the tail pass.  A resolve-only pass without extractions
\* takes no scope, so it binds everything; without pending edges there are no
\* edges.  The tail pass takes a file from the edges and from what binds.
Healed ==
    pc \in {"gc", "unhash", "unpend"} /\ opt.only /\ extracted = {} => edges = Bound(Files)

LEMMA HealStep ==
    ASSUME Typed, Graph, Healed, [Next]_vars
    PROVE  Healed'
<1>1. CASE Resolve
  <2> SUFFICES ASSUME opt.only, extracted = {} PROVE edges' = Bound(Files)
    BY <1>1 DEF Resolve, Healed, Bound, Calls, Defines, loop
  <2>1. edges' = IF \A f \in Files : pend[f] = {} THEN edges ELSE Bound(Files)
    BY <1>1 DEF Resolve, UseScope
  <2>2. CASE \A f \in Files : pend[f] = {}
    <3>1. Bound(Files) = {} /\ edges = {}
      BY <2>2 DEF Bound, Graph, EdgesArePending, Typed, TypeOK, StoreOK
    <3> QED
      BY <2>1, <2>2, <3>1
  <2> QED
    BY <2>1, <2>2
<1>2. CASE UNCHANGED Frame \/ InvalidateReferencers
  BY <1>2 DEF InvalidateReferencers, Healed, Bound, Calls, Defines, Frame, pass, store, tables, loop
<1>3. CASE CollectGarbage
  <2>1. ASSUME NEW f \in Files, GarbageSymbols(f) PROVE Healed'
    <3>1. /\ edges' = {e \in edges : e[1] # f /\ e[2] # f} /\ pend' = pend /\ pc = "gc"
          /\ sym' = [g \in Files |-> IF g = f THEN None ELSE sym[g]]
          /\ opt' = opt /\ extracted' = extracted
      BY <2>1 DEF GarbageSymbols, Cascade
    <3>2. Bound(Files)' = {e \in Bound(Files) : e[1] # f /\ e[2] # f}
      BY <3>1 DEF Bound, Calls, Defines, Typed, TypeOK, StoreOK
    <3> QED
      BY <3>1, <3>2 DEF Healed
  <2>2. CASE GarbageHash
    BY <2>2 DEF GarbageHash, Healed, Bound, Calls, Defines, loop
  <2>3. CASE GarbagePending
    <3>1. /\ pend' = [f \in Files |-> IF f \in todo THEN {} ELSE pend[f]] /\ pc = "unpend"
          /\ UNCHANGED <<sym, edges, opt, extracted>>
      BY <2>3 DEF GarbagePending
    <3>2. \A f \in todo : sym[f] = None
      BY <3>1 DEF Graph, Deletions, Detached
    <3>3. Bound(Files)' = Bound(Files)
      BY <3>1, <3>2 DEF Bound, Calls, Defines
    <3> QED
      BY <3>1, <3>3 DEF Healed
  <2>4. CASE GarbageGone
    BY <2>4 DEF GarbageGone, Healed
  <2> QED
    BY <1>3, <2>1, <2>2, <2>3, <2>4 DEF CollectGarbage
<1>4. CASE ~Resolve /\ ~UNCHANGED Frame /\ ~InvalidateReferencers /\ ~CollectGarbage
  <2>1. pc' \notin {"gc", "unhash", "unpend"}
    BY <1>4, StepCases DEF Begin, EndPass, Complete, Mark, Clear, FinalFlush, Visit,
       WorkerStep, SkipUnknown, DeleteSymbolsForFile, CommitEmpty, CommitFileExtraction, Buffer,
       Typed, Pool
  <2> QED
    BY <2>1 DEF Healed
<1> QED
  BY <1>1, <1>2, <1>3, <1>4

-----------------------------------------------------------------------------
Inv == Typed /\ Graph /\ Faithful /\ Survivors /\ Healed

LEMMA Invariant == Spec => []Inv
<1>1. Init => Inv
  BY TypedInit, GraphInit, FaithfulInit DEF Init, Inv, Survivors, Scoped, Healed
<1>2. Inv /\ [Next]_vars => Inv'
  BY TypedStep, GraphStep, FaithfulStep, SurvivorsStep, HealStep DEF Inv
<1> QED
  BY <1>1, <1>2, PTL DEF Spec

\* For any files and contents, edits, passes, crashes and failed writes, the
\* variables of the pass, of the watcher and of the store stay in their
\* domains; the counter of incremental passes stays below the threshold.
THEOREM IndexTypeCorrect == Spec => []TypeOK
<1>1. Inv => TypeOK
  BY DEF Inv, Typed
<1> QED
  BY <1>1, Invariant, PTL

\* No edge has an end without a symbol, at no commit of any pass.
THEOREM GraphIsSound == Spec => []NoPhantomEdges
<1>1. Inv => NoPhantomEdges
  BY DEF Inv, Graph
<1> QED
  BY <1>1, Invariant, PTL

\* While index_state is "complete", a stored hash vouches for its rows.
THEOREM HashVouches == Spec => []CompleteIsFaithful
<1>1. Inv => CompleteIsFaithful
  BY DEF Inv, Faithful, Vouching, Vouched, CompleteIsFaithful
<1> QED
  BY <1>1, Invariant, PTL

\* A pass loses no edge whose call and function are still there.
THEOREM NoEdgeLost == Spec => []EdgeSurvives
<1>1. Inv => EdgeSurvives
  BY DEF Inv, Survivors, Binds, EdgeSurvives
<1> QED
  BY <1>1, Invariant, PTL

\* A resolve-only pass that extracts nothing restores every edge that binds.
THEOREM HealIsComplete == Spec => []HealRestores
<1>1. Inv => HealRestores
  BY DEF Inv, Healed, HealRestores
<1> QED
  BY <1>1, Invariant, PTL

-----------------------------------------------------------------------------
(* The lock file that keeps the passes of two processes apart               *)
(* (module ProjectLock): every set of processes, of any versions, with the  *)
(* reaper's opt-in or without.                                              *)

\* Only the first of the two attempts tests for staleness.
FirstAttempt == \A p \in Procs : lockPc[p] \in {"stat", "read", "remove"} => attempt[p] = 0

\* As long as nothing was removed as stale, whoever is between the creation
\* of the lockfile and its removal is the maker of the file at the path.
SectionOwnsFile == ~reclaimed => \A p \in Procs : InSection(p) => file.maker = {p}

LockInv == LockTypeOK /\ FirstAttempt /\ NoAbandonedLock /\ SectionOwnsFile

LEMMA LockInvInit == LockInit => LockInv
<1> SUFFICES ASSUME LockInit PROVE LockInv
  OBVIOUS
<1>1. LockTypeOK
  <2>1. reclaimed \in BOOLEAN /\ file \in File \cup {NoFile} /\ victim \in SUBSET Procs
    BY Zenon DEF LockInit
  <2>2. attempt \in [Procs -> 0 .. 1]
    BY DEF LockInit
  <2>3. lockPc \in [Procs -> {"idle", "create", "write", "stat", "read", "remove", "hold", "dead"}]
    BY DEF LockInit
  <2> QED
    BY <2>1, <2>2, <2>3 DEF LockInit, LockTypeOK
<1>2. FirstAttempt /\ NoAbandonedLock /\ SectionOwnsFile
  BY DEF LockInit, FirstAttempt, NoAbandonedLock, SectionOwnsFile, InSection, NoFile
<1> QED
  BY <1>1, <1>2 DEF LockInv

\* One step of a process.
LEMMA ProcStep ==
    ASSUME LockInv, NEW p \in Procs,
           Start(p) \/ Acquire(p) \/ WriteFails(p) \/ Release(p) \/ Killed(p)
    PROVE  LockInv'
<1> USE DEF LockInv, LockTypeOK, Goto, reaper, NoFile, File
<1>1. CASE Start(p)
  BY <1>1 DEF Start, FirstAttempt, NoAbandonedLock, SectionOwnsFile, InSection, Alive
<1>2. CASE CreateExclusive(p)
  <2>1. LockTypeOK'
    BY <1>2 DEF CreateExclusive
  <2>2. FirstAttempt'
    BY <1>2 DEF CreateExclusive, FirstAttempt
  <2>3. NoAbandonedLock'
    BY <1>2 DEF CreateExclusive, NoAbandonedLock, InSection, Alive
  <2>4. SectionOwnsFile'
    BY <1>2 DEF CreateExclusive, SectionOwnsFile, InSection
  <2> QED BY <2>1, <2>2, <2>3, <2>4
<1>3. CASE CreateExists(p)
  BY <1>3 DEF CreateExists, FirstAttempt, NoAbandonedLock, SectionOwnsFile, InSection, Alive
<1>4. CASE WritePayload(p)
  <2>1. LockTypeOK' /\ file'.maker = file.maker
    BY <1>4 DEF WritePayload
  <2>2. FirstAttempt'
    BY <1>4 DEF WritePayload, FirstAttempt
  <2>3. NoAbandonedLock'
    BY <1>4, <2>1 DEF WritePayload, NoAbandonedLock, InSection, Alive
  <2>4. SectionOwnsFile'
    BY <1>4, <2>1 DEF WritePayload, SectionOwnsFile, InSection
  <2> QED BY <2>1, <2>2, <2>3, <2>4
<1>5. CASE StatLock(p)
  BY <1>5 DEF StatLock, FirstAttempt, NoAbandonedLock, SectionOwnsFile, InSection, Alive
<1>6. CASE ReadLock(p)
  <2>1. LockTypeOK'
    BY <1>6 DEF ReadLock
  <2>2. FirstAttempt'
    BY <1>6 DEF ReadLock, FirstAttempt
  <2>3. NoAbandonedLock' /\ SectionOwnsFile'
    BY <1>6 DEF ReadLock, NoAbandonedLock, SectionOwnsFile, InSection, Alive
  <2> QED BY <2>1, <2>2, <2>3
<1>7. CASE RemoveStale(p)
  BY <1>7 DEF RemoveStale, FirstAttempt, NoAbandonedLock, SectionOwnsFile, InSection, Alive
<1>8. CASE WriteFails(p)
  BY <1>8 DEF WriteFails, FirstAttempt, NoAbandonedLock, SectionOwnsFile, InSection, Alive
<1>9. CASE Release(p)
  BY <1>9 DEF Release, FirstAttempt, NoAbandonedLock, SectionOwnsFile, InSection, Alive
<1>10. CASE Killed(p)
  BY <1>10 DEF Killed, FirstAttempt, NoAbandonedLock, SectionOwnsFile, InSection, Alive
<1> QED
  BY <1>1, <1>2, <1>3, <1>4, <1>5, <1>6, <1>7, <1>8, <1>9, <1>10 DEF Acquire

\* One step of the reaper.
LEMMA ReaperStep ==
    ASSUME LockInv, ReapScan \/ ReapRead \/ ReapRemove \/ ReapKill
    PROVE  LockInv'
<1> USE DEF LockInv, LockTypeOK, NoFile, File
<1>1. CASE ReapScan
  BY <1>1 DEF ReapScan, FirstAttempt, NoAbandonedLock, SectionOwnsFile, InSection, Alive
<1>2. CASE ReapRead
  BY <1>2 DEF ReapRead, FirstAttempt, NoAbandonedLock, SectionOwnsFile, InSection, Alive
<1>3. CASE ReapRemove
  BY <1>3 DEF ReapRemove, FirstAttempt, NoAbandonedLock, SectionOwnsFile, InSection, Alive
<1>4. CASE ReapKill
  BY <1>4 DEF ReapKill, FirstAttempt, NoAbandonedLock, SectionOwnsFile, InSection, Alive
<1> QED
  BY <1>1, <1>2, <1>3, <1>4

LEMMA LockInvStep == LockInv /\ [LockNext]_lockVars => LockInv'
<1> SUFFICES ASSUME LockInv, [LockNext]_lockVars PROVE LockInv'
  OBVIOUS
<1>1. CASE UNCHANGED lockVars
  BY <1>1 DEF lockVars, LockInv, LockTypeOK, FirstAttempt, NoAbandonedLock, SectionOwnsFile, InSection, Alive
<1>2. CASE LockNext
  BY <1>1, <1>2, ProcStep, ReaperStep DEF LockNext
<1> QED
  BY <1>1, <1>2

LEMMA LockInvariance == LockSpec => []LockInv
  BY LockInvInit, LockInvStep, PTL DEF LockSpec

\* acquireProjectLock, its release and the reaper keep the types of the lock's
\* state; in particular the retry loop never starts a third attempt.
THEOREM LockTypeCorrect == LockSpec => []LockTypeOK
  BY LockInvariance, PTL DEF LockInv

\* Whatever the number of processes: a lockfile of a live process is there only
\* while that process is in its critical section.
THEOREM LockNotAbandoned == LockSpec => []NoAbandonedLock
  BY LockInvariance, PTL DEF LockInv

\* Whatever the number of processes: O_CREATE|O_EXCL excludes as long as no
\* lockfile is reclaimed as stale.
THEOREM ExclusiveCreation == LockSpec => []ExclusiveUnlessReclaimed
<1>1. LockInv => ExclusiveUnlessReclaimed
  BY DEF LockInv, SectionOwnsFile, InSection, ExclusiveUnlessReclaimed, MutualExclusion
<1> QED
  BY <1>1, LockInvariance, PTL

============================================================================
