----------------------------- MODULE ProjectLock -----------------------------
(***************************************************************************)
(* The cross-process project lock of internal/index/lockfile.go and the    *)
(* orphan reaper of internal/index/orphan.go, for one project.             *)
(*                                                                         *)
(* The lock is a file created with O_CREATE|O_EXCL; the holder's PID is    *)
(* written into it in a second system call.  Every system call is a step.  *)
(* A lockfile is identified by the process that created it: a process does *)
(* not create a second one before it is done with the first.  PIDs are not *)
(* reused (a crashed process stays dead), and no index runs for the 24     *)
(* hours of lockStaleAge.  The names are disjoint from those of IndexPass, *)
(* the pass that runs under the lock.                                      *)
(***************************************************************************)
EXTENDS Naturals, FiniteSets

CONSTANTS
    Procs,        \* pincher processes that index the project
    Skewed,       \* those whose binary_version differs from the reaper's
    KillOrphans   \* the reaper's opt-in

ASSUME LockAssumption == Skewed \subseteq Procs /\ KillOrphans \in BOOLEAN

NoFile == [maker |-> {}, full |-> FALSE]
File   == [maker : {{p} : p \in Procs}, full : BOOLEAN]

VARIABLES
    file,       \* what is at lockPath
    lockPc,     \* lockPc[p]: the system call p is about to make; "hold": indexing
    attempt,    \* attempt[p]: loop variable of acquireProjectLock
    rp,         \* the reaper: "scan", "read", "remove", "kill"
    victim,     \* the holder the reaper has read from the lockfile
    reclaimed   \* history: somebody removed a lockfile as stale

lockVars == <<file, lockPc, attempt, rp, victim, reclaimed>>
reaper == <<rp, victim>>

Alive(p)     == lockPc[p] # "dead"
InSection(p) == lockPc[p] \in {"write", "hold"}

LockInit ==
    /\ file = NoFile
    /\ lockPc = [p \in Procs |-> "idle"] /\ attempt = [p \in Procs |-> 0]
    /\ rp = "scan" /\ victim = {}
    /\ reclaimed = FALSE

Goto(p, l) == lockPc' = [lockPc EXCEPT ![p] = l]

-----------------------------------------------------------------------------
(* acquireProjectLock *)

Start(p) ==
    /\ lockPc[p] = "idle"
    /\ Goto(p, "create") /\ attempt' = [attempt EXCEPT ![p] = 0]
    /\ UNCHANGED <<file, reaper, reclaimed>>

\* OpenFile(O_CREATE) without O_EXCL: an existing file is truncated.
CreateShared(p) ==
    /\ lockPc[p] = "create"
    /\ file' = [maker |-> {p}, full |-> FALSE]
    /\ Goto(p, "write")
    /\ UNCHANGED <<attempt, reaper, reclaimed>>

\* OpenFile(O_CREATE|O_EXCL) succeeds.
CreateExclusive(p) ==
    /\ lockPc[p] = "create" /\ file = NoFile
    /\ file' = [maker |-> {p}, full |-> FALSE]
    /\ Goto(p, "write")
    /\ UNCHANGED <<attempt, reaper, reclaimed>>

\* EEXIST: the first time the file is tested for staleness, the second time
\* the caller gets an error.
CreateExists(p) ==
    /\ lockPc[p] = "create" /\ file # NoFile
    /\ Goto(p, IF attempt[p] = 0 THEN "stat" ELSE "idle")
    /\ UNCHANGED <<file, attempt, reaper, reclaimed>>

\* f.Write(payload).  The file may have been removed from its path meanwhile.
WritePayload(p) ==
    /\ lockPc[p] = "write"
    /\ file' = IF file.maker = {p} THEN [file EXCEPT !.full = TRUE] ELSE file
    /\ Goto(p, "hold")
    /\ UNCHANGED <<attempt, reaper, reclaimed>>

\* The payload cannot be written: remove the file, return an error.
WriteFails(p) ==
    /\ lockPc[p] = "write"
    /\ file' = NoFile
    /\ Goto(p, "idle")
    /\ UNCHANGED <<attempt, reaper, reclaimed>>

\* isStaleLockfile, os.Stat: no file is "not stale", and the caller gives up.
StatLock(p) ==
    /\ lockPc[p] = "stat"
    /\ Goto(p, IF file = NoFile THEN "idle" ELSE "read")
    /\ UNCHANGED <<file, attempt, reaper, reclaimed>>

\* readLockInfo: a missing or unparseable payload, or a dead holder, is stale.
StaleIfUnreadable == ~file.full
Stale == ~file.full \/ \A q \in file.maker : ~Alive(q)

ReadLock(p) ==
    /\ lockPc[p] = "read"
    /\ Goto(p, IF Stale THEN "remove" ELSE "idle")
    /\ UNCHANGED <<file, attempt, reaper, reclaimed>>

\* os.Remove(lockPath), whatever is there by now; then the second attempt.
RemoveStale(p) ==
    /\ lockPc[p] = "remove"
    /\ file' = NoFile
    /\ reclaimed' = TRUE
    /\ Goto(p, "create") /\ attempt' = [attempt EXCEPT ![p] = @ + 1]
    /\ UNCHANGED reaper

\* Return without os.Remove.
ReleaseForgets(p) ==
    /\ lockPc[p] = "hold"
    /\ Goto(p, "idle")
    /\ UNCHANGED <<file, attempt, reaper, reclaimed>>

\* The release function: os.Remove(lockPath), whatever is there.
Release(p) ==
    /\ lockPc[p] = "hold"
    /\ file' = NoFile
    /\ Goto(p, "idle")
    /\ UNCHANGED <<attempt, reaper, reclaimed>>

\* The process is killed or crashes; its lockfile stays.
Killed(p) ==
    /\ Alive(p)
    /\ Goto(p, "dead")
    /\ UNCHANGED <<file, attempt, reaper, reclaimed>>

-----------------------------------------------------------------------------
(* ReapOrphanLocks, run by "pincher doctor --fix" in a process of its own *)

\* os.ReadDir lists the lockfile.
ReapScan ==
    /\ rp = "scan" /\ file # NoFile
    /\ rp' = "read"
    /\ UNCHANGED <<file, lockPc, attempt, victim, reclaimed>>

\* readLockInfo and the tests on the holder.  A live holder of the reaper's
\* version, or one whose executable cannot be determined, is left alone.
ReapRead ==
    /\ rp = "read"
    /\ \/ Stale /\ rp' = "remove" /\ UNCHANGED victim
       \/ /\ ~Stale /\ KillOrphans /\ file.maker \subseteq Skewed
          /\ rp' = "kill" /\ victim' = file.maker
       \/ ~Stale /\ rp' = "scan" /\ UNCHANGED victim
    /\ UNCHANGED <<file, lockPc, attempt, reclaimed>>

ReapRemove ==
    /\ rp = "remove"
    /\ file' = NoFile
    /\ reclaimed' = TRUE
    /\ rp' = "scan" /\ victim' = {}
    /\ UNCHANGED <<lockPc, attempt>>

\* killProcess(info.PID), then os.Remove.
ReapKill ==
    /\ rp = "kill"
    /\ lockPc' = [p \in Procs |-> IF p \in victim THEN "dead" ELSE lockPc[p]]
    /\ rp' = "remove"
    /\ UNCHANGED <<file, attempt, victim, reclaimed>>

-----------------------------------------------------------------------------
Acquire(p) == \/ CreateExclusive(p) \/ CreateExists(p) \/ WritePayload(p)
              \/ StatLock(p) \/ ReadLock(p) \/ RemoveStale(p)

LockNext ==
    \/ \E p \in Procs : Start(p) \/ Acquire(p) \/ WriteFails(p) \/ Release(p) \/ Killed(p)
    \/ ReapScan \/ ReapRead \/ ReapRemove \/ ReapKill
    \/ (\A p \in Procs : ~Alive(p)) /\ UNCHANGED lockVars

LockSpec == LockInit /\ [][LockNext]_lockVars

\* A process that is alive retries (the watcher does, at every tick), the
\* calls of an acquisition are made one after the other, an index pass ends.
LockFairSpec ==
    /\ LockSpec
    /\ \A p \in Procs : WF_lockVars(Start(p)) /\ WF_lockVars(Acquire(p)) /\ WF_lockVars(Release(p))

-----------------------------------------------------------------------------
\* Every variable stays in its domain; acquireProjectLock makes at most two
\* attempts.
LockTypeOK ==
    /\ file \in File \cup {NoFile}
    /\ lockPc \in [Procs -> {"idle", "create", "write", "stat", "read", "remove", "hold", "dead"}]
    /\ attempt \in [Procs -> 0 .. 1]
    /\ rp \in {"scan", "read", "remove", "kill"}
    /\ victim \in SUBSET Procs
    /\ reclaimed \in BOOLEAN

\* acquireProjectLock "returns an error if another live process holds the
\* lock": two processes never index the project at the same time.
MutualExclusion == \A p, q \in Procs : lockPc[p] = "hold" /\ lockPc[q] = "hold" => p = q

\* The exclusive creation is enough by itself: as long as nobody has removed a
\* lockfile as stale, the lock excludes, also across failed writes, crashes
\* and releases that remove whatever they find at the path.
ExclusiveUnlessReclaimed == ~reclaimed => MutualExclusion

\* A live process never leaves a lockfile behind: a file at the path belongs
\* to a process that is in its critical section, or to a dead one.  (A file
\* of a live process that is not indexing would keep everybody out for as
\* long as that process lives.)
NoAbandonedLock == \A p \in file.maker : Alive(p) => InSection(p)

\* The lockfile of a crashed process does not keep the others out for good:
\* while somebody is left to index, it is reclaimed.
DeadHolderReclaimed ==
    \A p \in Procs :
        (file.maker = {p} /\ ~Alive(p)) ~> (file.maker # {p} \/ \A q \in Procs : ~Alive(q))
=============================================================================
