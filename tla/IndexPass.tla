------------------------------ MODULE IndexPass ------------------------------
(***************************************************************************)
(* One project's index: the pass of internal/index/indexer.go (indexImpl), *)
(* the file watcher that starts passes, and the tables of internal/db they *)
(* write.                                                                  *)
(*                                                                         *)
(* A file's content is what indexing tells apart: whether a language is    *)
(* recognised, whether it defines the function named after the file, and   *)
(* which other files' functions it calls.  The calls all cross files, so   *)
(* each is a pending edge that the resolve pass binds.  Calls inside one   *)
(* file, the kinds of edges, the parity check, counts and versions are     *)
(* left out, and so are reads and writes that fail other than the ones     *)
(* named here.                                                             *)
(*                                                                         *)
(* A transaction of the store is a step.  The main loop and the goroutine  *)
(* of each file interleave, users edit at any time, the process may crash  *)
(* between any two steps.  The project lock lets one pass run at a time    *)
(* (module ProjectLock).                                                   *)
(***************************************************************************)
EXTENDS Naturals, FiniteSets

CONSTANTS
    Files,
    Versions,       \* Versions[f]: the contents file f may have
    None,           \* no file, no row
    ScopeMax,       \* incrementalScopeThreshold
    HealThreshold,  \* selfHealReindexThreshold
    MaxEdits,       \* bound: edits in a behaviour
    MaxUserPasses,  \* bound: passes not started by the watcher
    MaxFaults       \* bound: crashes, cancelled passes, failed flushes

Content == [lang : BOOLEAN, def : BOOLEAN, calls : SUBSET Files]

ASSUME IndexAssumption ==
    /\ IsFiniteSet(Files)
    /\ None \notin Content
    /\ Versions \in [Files -> SUBSET Content]
    /\ \A f \in Files : \A c \in Versions[f] :
          /\ f \notin c.calls
          /\ ~c.lang => ~c.def /\ c.calls = {}
    /\ ScopeMax \in Nat /\ HealThreshold \in Nat \ {0}
    /\ MaxEdits \in Nat /\ MaxUserPasses \in Nat /\ MaxFaults \in Nat

Maybe(S) == S \cup {None}

VARIABLES
    disk,       \* disk[f]: the content of f, None when it does not exist
    dirty,      \* files whose mtime is after projects.indexed_at
    fresh,      \* files written in the current second
    \* The store:
    state,      \* projects.index_state: "running", "complete"
    hash,       \* files.hash, represented by the content hashed
    sym,        \* sym[f]: the content whose extraction left f's symbols
    pend,       \* pend[f]: pending_edges from f
    edges,      \* edges <<f, g>>: caller in f, function in g
    \* The pass:
    pc,         \* "idle", "mark", "clear", "walk", "resolve", "gc", "unhash",
                \* "unpend", "complete"
    opt,        \* its mode: [force, only, recover] and who waits for it
    todo, seen, extracted, referrers,   \* main loop
    work, got,  \* work[f]: f's goroutine; got[f]: the bytes it was given
    buf,        \* files whose symbols are in symBuf
    aborted,    \* ctx is done, or flushFailed is set
    \* The watcher:
    wp,         \* "sleep", "invalidate", "index", "after", "heal", "wait"
    changed,    \* what changedFiles returned
    heal, since,        \* selfHealNeeded, incrementalSinceHeal
    \* Bounds and history:
    edits, users, faults,
    before      \* the edges when the pass began

repo    == <<disk, dirty, fresh, edits>>
tables  == <<hash, sym, pend, edges>>
store   == <<state, tables>>
loop    == <<todo, seen, extracted, referrers>>
worker  == <<work, got, buf>>
pass    == <<pc, opt, loop, worker, aborted, before>>
watcher == <<wp, changed, heal, since>>
vars    == <<repo, store, pass, watcher, users, faults>>

NoPass == [force |-> FALSE, only |-> FALSE, recover |-> FALSE, by |-> "none"]
Full   == opt.force \/ opt.recover

HasSymbols(c) == c.def \/ c.calls # {}
Rows(c)       == IF c # None /\ HasSymbols(c) THEN c ELSE None

\* The pending edges of S that bind: both symbols are in the table.
Calls(f)   == sym[f] # None /\ sym[f].calls # {}
Defines(g) == sym[g] # None /\ sym[g].def
Bound(S)   == {e \in S \X Files : e[2] \in pend[e[1]] /\ Calls(e[1]) /\ Defines(e[2])}

\* A project as a first pass leaves it.
Init ==
    /\ disk \in [Files -> UNION {Maybe(Versions[f]) : f \in Files}]
    /\ \A f \in Files : disk[f] \in Maybe(Versions[f])
    /\ dirty = {} /\ fresh = {} /\ edits = 0
    /\ state = "complete" /\ hash = disk
    /\ sym = [f \in Files |-> Rows(disk[f])]
    /\ pend = [f \in Files |-> IF disk[f] = None THEN {} ELSE disk[f].calls]
    /\ edges = Bound(Files)
    /\ pc = "idle" /\ opt = NoPass
    /\ todo = {} /\ seen = {} /\ extracted = {} /\ referrers = {}
    /\ work = [f \in Files |-> "none"] /\ got = [f \in Files |-> None]
    /\ buf = {} /\ aborted = FALSE /\ before = {}
    /\ wp = "sleep" /\ changed = {} /\ heal = FALSE /\ since = 0
    /\ users = 0 /\ faults = 0

-----------------------------------------------------------------------------
\* A user creates, changes or deletes a file.  A deleted file has no mtime.
Edit(f) ==
    /\ edits < MaxEdits /\ edits' = edits + 1
    /\ \E c \in Maybe(Versions[f]) \ {disk[f]} :
          /\ disk' = [disk EXCEPT ![f] = c]
          /\ dirty' = IF c = None THEN dirty \ {f} ELSE dirty \cup {f}
          /\ fresh' = IF c = None THEN fresh \ {f} ELSE fresh \cup {f}
    /\ UNCHANGED <<store, pass, watcher, users, faults>>

\* The next second begins.
Clock ==
    /\ fresh # {} /\ fresh' = {}
    /\ UNCHANGED <<disk, dirty, edits, store, pass, watcher, users, faults>>

-----------------------------------------------------------------------------
(* indexImpl *)

\* From the start to UpsertProjectMeta.  indexed_at becomes the start time,
\* in whole seconds: a file written in that same second stays newer.
Begin(force, only, by) ==
    /\ pc = "idle"
    /\ opt' = [force |-> force, only |-> only, recover |-> state = "running", by |-> by]
    /\ dirty' = dirty \cap fresh
    /\ before' = edges
    /\ pc' = "mark"
    /\ UNCHANGED <<disk, fresh, edits, store, loop, worker, aborted>>

\* MarkProjectIndexStarted forgotten.
MarkNothing ==
    /\ pc = "mark"
    /\ pc' = IF Full THEN "clear" ELSE "walk"
    /\ todo' = Files
    /\ UNCHANGED <<repo, store, opt, seen, extracted, referrers, worker, aborted, before,
                   watcher, users, faults>>

\* MarkProjectIndexStarted.
Mark ==
    /\ pc = "mark"
    /\ state' = "running"
    /\ pc' = IF Full THEN "clear" ELSE "walk"
    /\ todo' = Files
    /\ UNCHANGED <<repo, tables, opt, seen, extracted, referrers, worker, aborted, before,
                   watcher, users, faults>>

\* ClearProjectIndexData.
Clear ==
    /\ pc = "clear"
    /\ hash' = [f \in Files |-> None] /\ sym' = [f \in Files |-> None]
    /\ pend' = [f \in Files |-> {}] /\ edges' = {}
    /\ pc' = "walk"
    /\ UNCHANGED <<repo, state, opt, loop, worker, aborted, before, watcher, users, faults>>

\* The edge read in the wrong direction.
FilesWithEdgesFrom(g) == {f \in Files \ {g} : <<g, f>> \in edges}

\* FilesWithEdgesToFile.
FilesWithEdgesTo(g) == {f \in Files \ {g} : <<f, g>> \in edges}

\* One turn of the main loop for f: read, hash, skip when the hash is
\* unchanged, otherwise snapshot the files with edges into f and start f's
\* goroutine.  A file that is gone by now is not seen.
Visit(f) ==
    /\ pc = "walk" /\ f \in todo /\ ~aborted
    /\ todo' = todo \ {f}
    /\ seen' = IF disk[f] = None THEN seen ELSE seen \cup {f}
    /\ IF disk[f] = None \/ (~Full /\ hash[f] = disk[f])
       THEN UNCHANGED <<extracted, referrers, work, got>>
       ELSE /\ extracted' = extracted \cup {f}
            /\ referrers' = IF Full THEN referrers
                            ELSE referrers \cup FilesWithEdgesTo(f)
            /\ work' = [work EXCEPT ![f] = "delete"]
            /\ got' = [got EXCEPT ![f] = disk[f]]
    /\ UNCHANGED <<repo, store, pc, opt, buf, aborted, before, watcher, users, faults>>

\* A file without a recognised language: SetFileHash, and nothing else.
SkipUnknown(f) ==
    /\ work[f] = "delete" /\ ~got[f].lang
    /\ hash' = [hash EXCEPT ![f] = got[f]]
    /\ work' = [work EXCEPT ![f] = "none"] /\ got' = [got EXCEPT ![f] = None]
    /\ UNCHANGED <<repo, state, sym, pend, edges, pc, opt, loop, buf, aborted, before,
                   watcher, users, faults>>

\* DeleteSymbolsForFile, for the files in S: every edge with an end in S
\* goes with the symbols.
CascadeOutgoing(S) ==
    /\ edges' = {e \in edges : e[1] \notin S}
    /\ sym' = [f \in Files |-> IF f \in S THEN None ELSE sym[f]]

Cascade(S) ==
    /\ edges' = {e \in edges : e[1] \notin S /\ e[2] \notin S}
    /\ sym' = [f \in Files |-> IF f \in S THEN None ELSE sym[f]]

DeleteSymbolsForFile(f) ==
    /\ work[f] = "delete" /\ got[f].lang
    /\ IF Full THEN UNCHANGED <<sym, edges>> ELSE Cascade({f})
    /\ work' = [work EXCEPT ![f] = "commit"]
    /\ UNCHANGED <<repo, state, hash, pend, pc, opt, loop, got, buf, aborted, before,
                   watcher, users, faults>>

\* Extraction found nothing: SetFileHash; the file's pending edges stay.
CommitEmpty(f) ==
    /\ work[f] = "commit" /\ ~HasSymbols(got[f])
    /\ hash' = [hash EXCEPT ![f] = got[f]]
    /\ work' = [work EXCEPT ![f] = "none"] /\ got' = [got EXCEPT ![f] = None]
    /\ UNCHANGED <<repo, state, sym, pend, edges, pc, opt, loop, buf, aborted, before,
                   watcher, users, faults>>

\* CommitFileExtraction: pending edges and hash in one transaction, before
\* the symbols are in the table.
CommitFileExtraction(f) ==
    /\ work[f] = "commit" /\ HasSymbols(got[f])
    /\ hash' = [hash EXCEPT ![f] = got[f]]
    /\ pend' = [pend EXCEPT ![f] = got[f].calls]
    /\ work' = [work EXCEPT ![f] = "buffer"]
    /\ UNCHANGED <<repo, state, sym, edges, pc, opt, loop, got, buf, aborted, before,
                   watcher, users, faults>>

\* flushBuffers for the symbols of the files in S.
Flush(S) ==
    /\ sym' = [f \in Files |-> IF f \in S THEN got[f] ELSE sym[f]]
    /\ got' = [f \in Files |-> IF f \in S THEN None ELSE got[f]]
    /\ buf' = {}

\* Under bufMu: append to symBuf, and flush it when it is long enough.  A
\* flush that fails keeps the buffer and ends the pass.
Buffer(f) ==
    /\ work[f] = "buffer"
    /\ work' = [work EXCEPT ![f] = "none"]
    /\ \/ buf' = buf \cup {f} /\ UNCHANGED <<sym, got, aborted, faults>>
       \/ Flush(buf \cup {f}) /\ UNCHANGED <<aborted, faults>>
       \/ /\ faults < MaxFaults /\ faults' = faults + 1
          /\ aborted' = TRUE
          /\ buf' = buf \cup {f} /\ UNCHANGED <<sym, got>>
    /\ UNCHANGED <<repo, state, hash, pend, edges, pc, opt, loop, before, watcher, users>>

\* wg.Wait and the final flush.
FinalFlush ==
    /\ pc = "walk" /\ todo = {} /\ ~aborted
    /\ \A f \in Files : work[f] = "none"
    /\ Flush(buf)
    /\ pc' = "resolve"
    /\ UNCHANGED <<repo, state, hash, pend, edges, opt, loop, work, aborted, before,
                   watcher, users, faults>>

\* The files whose pending edges are bound again.
ScopeSet == extracted \cup referrers
UseScopeAlways == ~Full /\ Cardinality(ScopeSet) <= ScopeMax
UseScope == ~Full /\ extracted # {} /\ Cardinality(ScopeSet) <= ScopeMax

\* The resolve block.  Nothing changed: it is skipped.  Otherwise the edges
\* of the scope, or of the project, are replaced by what binds now; without
\* a scope, an empty pool of pending edges leaves the edges alone.
Resolve ==
    /\ pc = "resolve"
    /\ edges' = CASE ~(Full \/ extracted # {} \/ opt.only) -> edges
                  [] UseScope -> {e \in edges : e[1] \notin ScopeSet} \cup Bound(ScopeSet)
                  [] OTHER -> IF \A f \in Files : pend[f] = {} THEN edges ELSE Bound(Files)
    /\ pc' = "gc"
    /\ UNCHANGED <<repo, state, hash, sym, pend, opt, loop, worker, aborted, before,
                   watcher, users, faults>>

\* The tail pass over files that the walk did not see: each loses its symbols,
\* its hash and its pending edges, in three transactions.  todo is the file
\* it is at.
Gone == {f \in Files \ seen : hash[f] # None \/ sym[f] # None}

GarbageSymbols(f) ==
    /\ pc = "gc" /\ f \in Gone
    /\ Cascade({f})
    /\ todo' = {f} /\ pc' = "unhash"
    /\ UNCHANGED <<repo, state, hash, pend, opt, seen, extracted, referrers, worker, aborted,
                   before, watcher, users, faults>>

GarbageHash ==
    /\ pc = "unhash"
    /\ hash' = [f \in Files |-> IF f \in todo THEN None ELSE hash[f]]
    /\ pc' = "unpend"
    /\ UNCHANGED <<repo, state, sym, pend, edges, opt, loop, worker, aborted, before, watcher,
                   users, faults>>

GarbagePending ==
    /\ pc = "unpend"
    /\ pend' = [f \in Files |-> IF f \in todo THEN {} ELSE pend[f]]
    /\ todo' = {} /\ pc' = "gc"
    /\ UNCHANGED <<repo, state, hash, sym, edges, opt, seen, extracted, referrers, worker,
                   aborted, before, watcher, users, faults>>

GarbageGone ==
    /\ pc = "gc" /\ Gone = {}
    /\ pc' = "complete"
    /\ UNCHANGED <<repo, store, opt, loop, worker, aborted, before, watcher, users, faults>>

CollectGarbage == \/ \E f \in Files : GarbageSymbols(f)
                  \/ GarbageHash \/ GarbagePending \/ GarbageGone

\* The memory of a pass goes with it.
EndPass ==
    /\ pc' = "idle" /\ opt' = NoPass
    /\ todo' = {} /\ seen' = {} /\ extracted' = {} /\ referrers' = {}
    /\ work' = [f \in Files |-> "none"] /\ got' = [f \in Files |-> None]
    /\ buf' = {} /\ aborted' = FALSE /\ before' = {}

\* Index or ResolveOnly returns to the watcher.
ReturnToCaller ==
    /\ wp' = CASE opt.by = "watcher" /\ ~opt.only -> "after"
               [] opt.by = "watcher" /\ opt.only  -> "sleep"
               [] OTHER -> wp
    /\ UNCHANGED <<changed, heal, since>>

\* UpsertProject.
Complete ==
    /\ pc = "complete"
    /\ state' = "complete"
    /\ EndPass /\ ReturnToCaller
    /\ UNCHANGED <<repo, tables, users, faults>>

\* UpsertProject fails: a warning, and the pass still returns a result.
CompleteFails ==
    /\ pc = "complete"
    /\ faults < MaxFaults /\ faults' = faults + 1
    /\ EndPass /\ ReturnToCaller
    /\ UNCHANGED <<repo, store, users>>

\* The context of the pass is cancelled while the walker still yields files;
\* after the last one nobody looks at it.
Cancel ==
    /\ pc = "walk" /\ ~aborted /\ \E f \in todo : disk[f] # None
    /\ faults < MaxFaults /\ faults' = faults + 1
    /\ aborted' = TRUE
    /\ UNCHANGED <<repo, store, pc, opt, loop, worker, before, watcher, users>>

\* The pass returns an error, once its goroutines are done.
Abort ==
    /\ pc = "walk" /\ aborted
    /\ \A f \in Files : work[f] = "none"
    /\ EndPass /\ ReturnToCaller
    /\ UNCHANGED <<repo, store, users, faults>>

FinalFlushFails ==
    /\ pc = "walk" /\ todo = {} /\ ~aborted /\ buf # {}
    /\ \A f \in Files : work[f] = "none"
    /\ faults < MaxFaults /\ faults' = faults + 1
    /\ EndPass /\ ReturnToCaller
    /\ UNCHANGED <<repo, store, users>>

\* The server dies with its watcher and its pass, and is started again.
Crash ==
    /\ (pc # "idle" /\ opt.by # "cli") \/ wp # "sleep" \/ heal
    /\ faults < MaxFaults /\ faults' = faults + 1
    /\ IF opt.by = "cli" THEN UNCHANGED pass ELSE EndPass
    /\ wp' = "sleep" /\ changed' = {} /\ heal' = FALSE /\ since' = 0
    /\ UNCHANGED <<repo, store, users>>

\* The command line's process dies.
CrashCli ==
    /\ opt.by = "cli"
    /\ faults < MaxFaults /\ faults' = faults + 1
    /\ EndPass
    /\ UNCHANGED <<repo, store, watcher, users>>

-----------------------------------------------------------------------------
\* The index tool or auto-index in the server, or the command line in a
\* process of its own.
UserIndex(force, by) ==
    /\ users < MaxUserPasses /\ users' = users + 1
    /\ Begin(force, FALSE, by)
    /\ UNCHANGED <<watcher, faults>>

-----------------------------------------------------------------------------
(* Watch *)

\* changedFiles without the comparison with the files table.
NewerFiles == {f \in dirty : disk[f] # None}

\* changedFiles: newer than the index, or indexed and no longer there.
ChangedFiles == {f \in dirty : disk[f] # None}
                    \cup {f \in Files : disk[f] = None /\ hash[f] # None}

\* A tick, when no pass runs in this process (anyActive).
Tick ==
    /\ wp = "sleep" /\ opt.by \in {"none", "cli"}
    /\ IF ChangedFiles # {}
       THEN wp' = "invalidate" /\ changed' = ChangedFiles /\ UNCHANGED <<heal, since>>
       ELSE /\ heal
            /\ wp' = "heal" /\ heal' = FALSE /\ since' = 0
            /\ UNCHANGED changed
    /\ UNCHANGED <<repo, store, pass, users, faults>>

\* invalidateReferencers.
InvalidateReferencers ==
    /\ wp = "invalidate"
    /\ hash' = [f \in Files |-> IF \E g \in changed : f \in FilesWithEdgesTo(g)
                                THEN None ELSE hash[f]]
    /\ wp' = "index" /\ changed' = {}
    /\ UNCHANGED <<repo, state, sym, pend, edges, pass, heal, since, users, faults>>

\* Index.  It is refused while another pass runs.
WatchIndex ==
    /\ wp = "index"
    /\ \/ Begin(FALSE, FALSE, "watcher") /\ wp' = "wait"
       \/ pc # "idle" /\ wp' = "after" /\ UNCHANGED <<repo, store, pass>>
    /\ UNCHANGED <<changed, heal, since, users, faults>>

\* After Index, also after one that failed.
AfterIndexNoReset ==
    /\ wp = "after"
    /\ heal' = TRUE /\ since' = since + 1 /\ wp' = "sleep"
    /\ UNCHANGED <<changed, repo, store, pass, users, faults>>

AfterIndex ==
    /\ wp = "after"
    /\ IF since + 1 >= HealThreshold
       THEN wp' = "heal" /\ heal' = FALSE /\ since' = 0
       ELSE wp' = "sleep" /\ heal' = TRUE /\ since' = since + 1
    /\ UNCHANGED <<changed, repo, store, pass, users, faults>>

\* ResolveOnly.
WatchHeal ==
    /\ wp = "heal"
    /\ \/ Begin(FALSE, TRUE, "watcher") /\ wp' = "wait"
       \/ pc # "idle" /\ wp' = "sleep" /\ UNCHANGED <<repo, store, pass>>
    /\ UNCHANGED <<changed, heal, since, users, faults>>

-----------------------------------------------------------------------------
WorkerStep(f) == \/ SkipUnknown(f) \/ DeleteSymbolsForFile(f)
                 \/ CommitEmpty(f) \/ CommitFileExtraction(f) \/ Buffer(f)

PassStep == \/ Mark \/ Clear \/ FinalFlush \/ Resolve \/ CollectGarbage \/ Complete \/ Abort
            \/ \E f \in Files : Visit(f) \/ WorkerStep(f)

WatchStep == Tick \/ InvalidateReferencers \/ WatchIndex \/ AfterIndex \/ WatchHeal

\* Nothing changes any more: everything waits for an edit.
Quiet == /\ pc = "idle" /\ wp = "sleep" /\ ~heal /\ ChangedFiles = {}
         /\ UNCHANGED vars

Next ==
    \/ (\E f \in Files : Edit(f)) \/ Clock
    \/ \E force \in BOOLEAN, by \in {"server", "cli"} : UserIndex(force, by)
    \/ PassStep \/ CompleteFails \/ Cancel \/ FinalFlushFails \/ Crash \/ CrashCli
    \/ WatchStep \/ Quiet

Spec == Init /\ [][Next]_vars

\* A pass that runs goes on (nothing in it waits for anything else), the
\* watcher's ticker fires, and time passes.
FairSpec == Spec /\ WF_vars(PassStep) /\ WF_vars(WatchStep) /\ WF_vars(Clock)

-----------------------------------------------------------------------------
(* Properties *)

RepoOK ==
    /\ disk \in [Files -> Maybe(Content)] /\ dirty \subseteq Files /\ fresh \subseteq Files
    /\ edits \in 0 .. MaxEdits

StoreOK ==
    /\ state \in {"running", "complete"}
    /\ hash \in [Files -> Maybe(Content)] /\ sym \in [Files -> Maybe(Content)]
    /\ pend \in [Files -> SUBSET Files] /\ edges \subseteq Files \X Files

PassOK ==
    /\ pc \in {"idle", "mark", "clear", "walk", "resolve", "gc", "unhash", "unpend",
              "complete"}
    /\ todo \subseteq Files /\ seen \subseteq Files
    /\ extracted \subseteq Files /\ referrers \subseteq Files
    /\ work \in [Files -> {"none", "delete", "commit", "buffer"}]
    /\ got \in [Files -> Maybe(Content)] /\ buf \subseteq Files
    /\ before \subseteq Files \X Files

ModeOK ==
    /\ opt \in [force : BOOLEAN, only : BOOLEAN, recover : BOOLEAN,
                by : {"none", "server", "cli", "watcher"}]
    /\ aborted \in BOOLEAN

WatchOK ==
    /\ wp \in {"sleep", "invalidate", "index", "after", "heal", "wait"}
    /\ changed \subseteq Files /\ heal \in BOOLEAN /\ since \in 0 .. HealThreshold - 1
    /\ users \in 0 .. MaxUserPasses /\ faults \in 0 .. MaxFaults

\* Every variable stays in its domain; since is reset when it reaches the
\* threshold of a forced self-heal.
TypeOK == RepoOK /\ StoreOK /\ PassOK /\ ModeOK /\ WatchOK

\* No query ever meets an edge whose caller or callee is not in the symbols
\* table: not between the transactions of a pass, not after a crash.
NoPhantomEdges == \A e \in edges : Calls(e[1]) /\ Defines(e[2])

\* A stored hash vouches for the rows of that content, or the next pass
\* could skip a file whose symbols or pending edges are missing.  The hash is
\* committed before the symbols, so this rests on index_state and on the full
\* pass that follows an interrupted one.  (A file that lost its language keeps
\* the symbols it had: SkipUnknown.)
CompleteIsFaithful ==
    state = "complete" =>
        \A f \in Files : hash[f] # None /\ hash[f].lang =>
            /\ sym[f] = Rows(hash[f])
            /\ sym[f] # None => pend[f] = hash[f].calls

\* The contract of persisted pending edges: a pass does not lose the edge of a
\* caller it skips into a file it extracts again.  Whatever edge the graph had
\* before the pass is there after it, if the call and the function still are.
EdgeSurvives ==
    pc = "complete" =>
        \A e \in before : (Calls(e[1]) /\ e[2] \in sym[e[1]].calls /\ Defines(e[2]))
                              => e \in edges

\* The self-heal: a resolve-only pass that finds nothing to extract leaves
\* every edge that binds, those included that scoped passes had dropped.
HealRestores ==
    pc = "gc" /\ opt.only /\ extracted = {} => edges = Bound(Files)

\* The watcher "re-indexes projects when files change": the index catches up
\* with the last edit, and stays there.
UpToDate == \A f \in Files : sym[f] = Rows(disk[f])
FilesConverge == <>[](pc = "idle" => UpToDate)
=============================================================================
