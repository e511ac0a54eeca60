----------------------------- MODULE Supervisor -----------------------------
(***************************************************************************)
(* The MCP supervisor of internal/supervisor/supervisor.go: a long-lived   *)
(* process that owns the client's stdio session and keeps one inner        *)
(* pincher server running behind it.                                       *)
(*                                                                         *)
(* Five threads of control share the Supervisor struct:                    *)
(*                                                                         *)
(*   run     the goroutine that called Run                                 *)
(*   cp      pumpClientToInner                                             *)
(*   ip      pumpInnerToClient (it also respawns and runs degraded mode)   *)
(*   pp      probeLoop / sendProbe                                         *)
(*   timer   one time.AfterFunc closure for each probe that was sent       *)
(*                                                                         *)
(* and the environment is the client, the inner processes and the host.    *)
(* The program counter of a thread names the statement it is about to      *)
(* execute.  A critical section under the write lock of s.mu is one        *)
(* action, because nothing it touches is visible to others before Unlock;  *)
(* a reader that is stuck in Write while it holds RLock is a state of its  *)
(* own ("blocked").  As in Go's RWMutex, a thread that has called Lock and *)
(* waits for it keeps new readers out.                                     *)
(*                                                                         *)
(* Telemetry counters, restart reasons and version strings are left out.   *)
(* A local variable of a goroutine has its initial value again when the    *)
(* code no longer reads it.                                                *)
(***************************************************************************)
EXTENDS Naturals, Sequences

CONSTANTS
    MaxSpawns,        \* bound: inner processes started in a behaviour
    MaxLines,         \* bound: lines the client sends
    Probes,           \* probe/timer identities, reused when free
    PipeCap,          \* lines an inner's stdin pipe holds before Write blocks
    MaxRestarts,      \* Supervisor.MaxRestarts
    RespawnAttempts,  \* Supervisor.RespawnAttempts
    ExitOnGiveUp      \* Supervisor.ExitOnGiveUp

\* An empty pipe takes the two replayed handshake lines without blocking:
\* the kernel's pipe buffer is far larger than an initialize request.
ASSUME ConstantsAssumption ==
    /\ MaxSpawns \in Nat \ {0}
    /\ MaxLines \in Nat
    /\ PipeCap \in Nat /\ PipeCap >= 2
    /\ MaxRestarts \in Nat \ {0}
    /\ RespawnAttempts \in Nat \ {0}
    /\ ExitOnGiveUp \in BOOLEAN

CONSTANT NoProbe
ASSUME NoProbeAssumption == NoProbe \notin Probes

Gens == 1 .. MaxSpawns
Ids  == 1 .. MaxLines

\* A JSON-RPC line.  id 0 is a supervisor sentinel (or no id at all), any
\* other id is the ordinal of the client line.  A response is represented
\* by the request it answers.
Kinds == {"initialize", "initialized", "request", "status", "probe", "notification"}
Line  == [k : Kinds, id : 0 .. MaxLines]
Msg(k, i) == [k |-> k, id |-> i]
NoLine == Msg("notification", 0)

VARIABLES
    run,        \* Run: "select", "shutLock", "drainClient", "drainInner", "returned"
    cancelled,  \* pumpCtx is cancelled (by Run, or with its parent by the host)
    received,   \* the pump whose return ended the select: clientPumpClosed is
                \* "client", innerPumpClosed is "inner", neither is "none"
    expired,    \* drainTimeout, a channel that delivers once, was received from
    cp, line,   \* client pump: counter, the line it works on
    nread,      \* lines the client has sent
    ip, cur,    \* inner pump: counter, the inner whose stdout it reads
    attempt,    \* respawnWithRetry's loop variable
    inner,      \* s.inner; 0 is nil
    spawned,    \* inner processes started so far
    st,         \* st[g]: "none", "up", "hung", "dead"
    stdin,      \* stdin[g]: lines written to inner g and not yet read by it
    stdout,     \* stdout[g]: lines inner g wrote that the pump has not read
    initCap,    \* s.initParams is set
    initedCap,  \* s.initializedLine is set
    degraded,   \* s.degraded
    hist,       \* len(s.restartHistory)
    pending,    \* s.pendingProbe
    pp, pid,    \* probe loop: counter, the probeState it is sending
    timer,      \* timer[p]: "off", "armed", "kill" (between its CAS and Kill)
    \* History, read by the properties only:
    replies,    \* replies[i]: lines with id i written to the client
    leaked,     \* a line with a sentinel id was written to the client
    dest,       \* dest[i]: the inner that client line i was written to
    first,      \* first[g]: kind of the first handshake or client line of g
    refused,    \* an initialize was answered with "inner unavailable"
    target      \* target[p]: the inner that probe p was written to

procs   == <<inner, spawned, st, stdin, stdout>>
client  == <<cp, line, nread>>
ipump   == <<ip, cur, attempt>>
probe   == <<pending, pp, pid, timer>>
host    == <<run, cancelled, received, expired>>
capture == <<initCap, initedCap>>
mode    == <<degraded, hist>>
history == <<replies, leaked, dest, first, refused, target>>
vars    == <<procs, client, ipump, probe, host, capture, mode, history>>

Running(g) == g \in Gens /\ st[g] \in {"up", "hung"}   \* not of nil

-----------------------------------------------------------------------------
(* s.mu *)

\* A call of Lock is announced by the program counter of its caller.
WriterWaiting == \/ cp = "capture"
                 \/ ip \in {"respawnLock", "tripLock", "degradedLock"}
                 \/ run = "shutLock"
RLockFree == ~WriterWaiting
LockFree  == cp # "blocked" /\ pp # "blocked"

-----------------------------------------------------------------------------
Init ==
    /\ run = "select" /\ cancelled = FALSE /\ received = "none" /\ expired = FALSE
    /\ cp = "read" /\ line = NoLine /\ nread = 0
    /\ ip = "top" /\ cur = 1 /\ attempt = 1
    /\ inner = 1 /\ spawned = 1
    /\ st = [g \in Gens |-> IF g = 1 THEN "up" ELSE "none"]
    /\ stdin = [g \in Gens |-> <<>>] /\ stdout = [g \in Gens |-> <<>>]
    /\ initCap = FALSE /\ initedCap = FALSE
    /\ degraded = FALSE /\ hist = 0
    /\ pending = NoProbe /\ pp = "idle" /\ pid = NoProbe
    /\ timer = [p \in Probes |-> "off"]
    /\ replies = [i \in Ids |-> 0] /\ leaked = FALSE
    /\ dest = [i \in Ids |-> 0] /\ first = [g \in Gens |-> "none"]
    /\ refused = FALSE /\ target = [p \in Probes |-> 0]

-----------------------------------------------------------------------------
(* writeToInner, shared by the client pump and the probe loop.  The caller *)
(* holds RLock from the test of s.inner to the end of Write.               *)

WriteFails == ~Running(inner)
HasRoom    == Running(inner) /\ Len(stdin[inner]) < PipeCap
PipeFull   == Running(inner) /\ Len(stdin[inner]) >= PipeCap

PutStdin(l) ==
    /\ stdin' = [stdin EXCEPT ![inner] = Append(@, l)]
    /\ first' = [first EXCEPT ![inner] =
                    IF @ = "none" /\ l.k # "probe" THEN l.k ELSE @]
    /\ UNCHANGED <<inner, spawned, st, stdout>>

\* A process that is gone: what it had not read is lost, what it has
\* written stays in its stdout pipe.
Dies(g) ==
    /\ st'    = [st EXCEPT ![g] = "dead"]
    /\ stdin' = [stdin EXCEPT ![g] = <<>>]

-----------------------------------------------------------------------------
(* pumpClientToInner *)

\* The pump has dealt with a line: ctx is tested at the top of its loop.
NextClientLine == cp' = IF cancelled THEN "done" ELSE "read"

\* ReadBytes returns a line, which it may do also after a cancel: neither the
\* context nor (for a reader that does not honour it) Close interrupts it.
\* MCP has the client begin with initialize.  A handshake line goes on to
\* take the lock in maybeCaptureInit.
ReadClientLine(k) ==
    /\ cp = "read" /\ nread < MaxLines
    /\ nread = 0 => k = "initialize"
    /\ nread' = nread + 1
    /\ line' = Msg(k, IF k = "initialized" THEN 0 ELSE nread + 1)
    /\ cp' = IF k \in {"initialize", "initialized"} THEN "capture" ELSE "route"
    /\ UNCHANGED <<procs, ipump, probe, host, capture, mode, history>>

\* The pump ends: ReadBytes returns EOF (the client hung up, or Run closed
\* Stdin), or ctx is done before the pump calls it.
ClientPumpReturns ==
    /\ cp = "read"
    /\ cp' = "done"
    /\ UNCHANGED <<line, nread, procs, ipump, probe, host, capture, mode, history>>

\* maybeCaptureInit under s.mu.Lock.
MaybeCaptureInit ==
    /\ cp = "capture" /\ LockFree
    /\ initCap'   = (initCap \/ line.k = "initialize")
    /\ initedCap' = (initedCap \/ line.k = "initialized")
    /\ cp' = "route"
    /\ UNCHANGED <<line, nread, procs, ipump, probe, host, mode, history>>

\* handleStatusToolCall: Status takes RLock, then the reply is written.
HandleStatusToolCall ==
    /\ cp = "route" /\ line.k = "status" /\ RLockFree
    /\ replies' = [replies EXCEPT ![line.id] = @ + 1]
    /\ NextClientLine /\ line' = NoLine
    /\ UNCHANGED <<nread, procs, ipump, probe, host, capture, mode,
                   leaked, dest, first, refused, target>>

\* The degraded test, and replyInnerUnavailable for a line with an id.
ReplyInnerUnavailable ==
    /\ cp = "route" /\ line.k # "status" /\ degraded
    /\ IF line.id = 0 THEN UNCHANGED replies
                      ELSE replies' = [replies EXCEPT ![line.id] = @ + 1]
    /\ refused' = (refused \/ line.k = "initialize")
    /\ NextClientLine /\ line' = NoLine
    /\ UNCHANGED <<nread, procs, ipump, probe, host, capture, mode,
                   leaked, dest, first, target>>

RouteToInner ==
    /\ cp = "route" /\ line.k # "status" /\ ~degraded
    /\ cp' = "write"
    /\ UNCHANGED <<line, nread, procs, ipump, probe, host, capture, mode, history>>

ClientHasRLock == (cp = "write" /\ RLockFree) \/ cp = "blocked"

\* Write succeeds.
ClientWriteOK ==
    /\ ClientHasRLock /\ HasRoom
    /\ PutStdin(line)
    /\ dest' = IF line.id = 0 THEN dest ELSE [dest EXCEPT ![line.id] = inner]
    /\ NextClientLine /\ line' = NoLine
    /\ UNCHANGED <<nread, ipump, probe, host, capture, mode,
                   replies, leaked, refused, target>>

\* Write fails (s.inner is nil, or the pipe is broken): the line is lost.
ClientWriteErr ==
    /\ ClientHasRLock /\ WriteFails
    /\ NextClientLine /\ line' = NoLine
    /\ UNCHANGED <<nread, procs, ipump, probe, host, capture, mode, history>>

\* Write blocks on a full pipe, with RLock held.
ClientWriteBlocks ==
    /\ cp = "write" /\ RLockFree /\ PipeFull
    /\ cp' = "blocked"
    /\ UNCHANGED <<line, nread, procs, ipump, probe, host, capture, mode, history>>

ClientPump ==
    \/ \E k \in {"initialize", "initialized", "request", "status"} : ReadClientLine(k)
    \/ ClientPumpReturns \/ MaybeCaptureInit
    \/ HandleStatusToolCall \/ ReplyInnerUnavailable \/ RouteToInner
    \/ ClientWriteOK \/ ClientWriteErr \/ ClientWriteBlocks

-----------------------------------------------------------------------------
(* pumpInnerToClient *)

\* Top of the loop: ctx is done, or Run's shutdown left s.inner nil.
InnerPumpReturns ==
    /\ ip = "top" /\ (cancelled \/ (RLockFree /\ inner = 0))
    /\ ip' = "done"
    /\ UNCHANGED <<cur, attempt, procs, client, probe, host, capture, mode, history>>

ReadInnerPtr ==
    /\ ip = "top" /\ ~cancelled /\ RLockFree /\ inner # 0
    /\ cur' = inner /\ ip' = "forward"
    /\ UNCHANGED <<attempt, procs, client, probe, host, capture, mode, history>>

\* classifyInnerLine: what becomes of a line of the inner.
IsProbeResponse(l) == l.k = "probe"
IsInitReplay(l)    == l.k = "initialize" /\ l.id = 0
AnyLine(l)         == TRUE
IsNotification(l)  == l.k = "notification"

\* Mutant: the answer of a probe is dropped and does not clear pendingProbe.
ForwardForgetsAnswer ==
    /\ ip = "forward" /\ stdout[cur] # <<>>
    /\ LET l == Head(stdout[cur])
       IN replies' = IF l.id = 0 THEN replies ELSE [replies EXCEPT ![l.id] = @ + 1]
    /\ stdout' = [stdout EXCEPT ![cur] = Tail(@)]
    /\ UNCHANGED <<inner, spawned, st, stdin, ipump, client, probe, host,
                   capture, mode, leaked, dest, first, refused, target>>

\* The pump is about to write to the client, who may not be reading.
WritesToClient ==
    /\ ip = "forward" /\ stdout[cur] # <<>>
    /\ ~(IsProbeResponse(Head(stdout[cur])) \/ IsInitReplay(Head(stdout[cur])))

\* One turn of forwardInnerStdoutWithProbeFilter.  Any probe response
\* clears pendingProbe, whichever probe it answers.  Whether the quiet window
\* of the last respawn is still open (inWindow) is up to the clock.
ForwardInnerLine ==
    /\ ip = "forward" /\ stdout[cur] # <<>>
    /\ \E inWindow \in IF spawned > 1 THEN BOOLEAN ELSE {FALSE} :
       LET l == Head(stdout[cur])
           dropped == \/ IsProbeResponse(l) \/ IsInitReplay(l)
                      \/ (IsNotification(l) /\ inWindow)
       IN /\ pending' = IF IsProbeResponse(l) THEN NoProbe ELSE pending
          /\ replies' = IF dropped \/ l.id = 0 THEN replies
                        ELSE [replies EXCEPT ![l.id] = @ + 1]
          /\ leaked' = (leaked \/ (~dropped /\ l.id = 0 /\ ~IsNotification(l)))
    /\ stdout' = [stdout EXCEPT ![cur] = Tail(@)]
    /\ UNCHANGED <<inner, spawned, st, stdin, ipump, client, pp, pid, timer, host,
                   capture, mode, dest, first, refused, target>>

\* EOF on stdout, cmd.Wait, and the second test of ctx.
InnerExited ==
    /\ ip = "forward" /\ stdout[cur] = <<>> /\ ~Running(cur)
    /\ IF cancelled THEN ip' = "done" /\ UNCHANGED attempt
                    ELSE ip' = "attempt" /\ attempt' = 1
    /\ UNCHANGED <<cur, procs, client, probe, host, capture, mode, history>>

\* respawnWithRetry: the test of ctx that opens an attempt.  A cancelled
\* context is an error, which the caller treats like exhausted attempts.
StartAttempt ==
    /\ ip = "attempt"
    /\ ip' = IF cancelled THEN "giveUp" ELSE "respawnLock"
    /\ UNCHANGED <<cur, attempt, procs, client, probe, host, capture, mode, history>>

\* respawn, all of it under s.mu.Lock: the new inner has the handshake in
\* its stdin before s.inner names it.
ReplayWithClientId ==
    (IF initCap THEN <<Msg("initialize", 1)>> ELSE <<>>)
        \o (IF initedCap THEN <<Msg("initialized", 0)>> ELSE <<>>)
ReplayWithoutInitialize ==
    IF initedCap THEN <<Msg("initialized", 0)>> ELSE <<>>

ReplayedLines ==
    (IF initCap THEN <<Msg("initialize", 0)>> ELSE <<>>)
        \o (IF initedCap THEN <<Msg("initialized", 0)>> ELSE <<>>)

RespawnOK ==
    /\ LockFree /\ spawned < MaxSpawns
    /\ LET g == spawned + 1
       IN /\ spawned' = g
          /\ inner' = g
          /\ st' = [st EXCEPT ![g] = "up"]
          /\ stdin' = [stdin EXCEPT ![g] = ReplayedLines]
          /\ first' = [first EXCEPT ![g] = IF ReplayedLines = <<>> THEN "none"
                                           ELSE ReplayedLines[1].k]
    /\ UNCHANGED stdout

\* spawnFn fails, or the new inner dies before it took the handshake: the
\* replay's Write fails and respawn kills it.  s.inner keeps its old value.
RespawnFails ==
    /\ LockFree
    /\ \/ UNCHANGED procs
       \/ /\ spawned < MaxSpawns /\ (initCap \/ initedCap)
          /\ spawned' = spawned + 1
          /\ st' = [st EXCEPT ![spawned + 1] = "dead"]
          /\ UNCHANGED <<inner, stdin, stdout>>
    /\ UNCHANGED first

AttemptOK ==
    /\ ip = "respawnLock" /\ RespawnOK
    /\ ip' = "record"
    /\ UNCHANGED <<cur, attempt, client, probe, host, capture, mode,
                   replies, leaked, dest, refused, target>>

AttemptFails ==
    /\ ip = "respawnLock" /\ RespawnFails
    /\ ip' = IF attempt = RespawnAttempts THEN "giveUp" ELSE "retryWait"
    /\ UNCHANGED <<cur, attempt, client, probe, host, capture, mode,
                   replies, leaked, dest, refused, target>>

\* The select between ctx.Done and the retry delay.
RetryDelay ==
    /\ ip = "retryWait"
    /\ \/ cancelled /\ ip' = "giveUp" /\ UNCHANGED attempt
       \/ ip' = "attempt" /\ attempt' = attempt + 1
    /\ UNCHANGED <<cur, procs, client, probe, host, capture, mode, history>>

\* respawnWithRetry returned an error.
GiveUp ==
    /\ ip = "giveUp"
    /\ IF ExitOnGiveUp THEN ip' = "done" /\ UNCHANGED degraded
                       ELSE ip' = "degradedWait" /\ degraded' = TRUE
    /\ UNCHANGED <<cur, attempt, procs, client, probe, host, capture, hist, history>>

\* recordRestart: aged entries of the window are trimmed (how many is up
\* to the clock), this restart is added, and more than MaxRestarts of them
\* trip the breaker.
RecordRestartOffByOne ==
    /\ ip = "record"
    /\ \E aged \in 0 .. hist :
          /\ hist' = hist - aged + 1
          /\ ip' = IF hist - aged <= MaxRestarts THEN "top"
                   ELSE IF ExitOnGiveUp THEN "done" ELSE "tripLock"
    /\ UNCHANGED <<cur, attempt, procs, client, probe, host, capture, degraded, history>>

RecordRestart ==
    /\ ip = "record"
    /\ \E aged \in 0 .. hist :
          /\ hist' = hist - aged + 1
          /\ ip' = IF hist - aged < MaxRestarts THEN "top"
                   ELSE IF ExitOnGiveUp THEN "done" ELSE "tripLock"
    /\ UNCHANGED <<cur, attempt, procs, client, probe, host, capture, degraded, history>>

\* shutdownInner under s.mu.Lock: kill, reap, close the pipes.  Closing
\* stdout loses what the pump, if it is reading, has not yet buffered.
ShutdownInner ==
    /\ LockFree
    /\ IF inner = 0 THEN UNCHANGED procs
       ELSE /\ Dies(inner)
            /\ \E n \in IF ip = "forward" THEN 0 .. Len(stdout[inner]) ELSE {0} :
                  stdout' = [stdout EXCEPT ![inner] = SubSeq(@, 1, n)]
            /\ inner' = 0
            /\ UNCHANGED spawned

\* The breaker tripped: the flapping inner is stopped, runDegraded begins.
TripBreakerWithoutShutdown ==
    /\ ip = "tripLock" /\ LockFree
    /\ ip' = "degradedWait" /\ degraded' = TRUE
    /\ UNCHANGED <<cur, attempt, procs, client, probe, host, capture, hist, history>>

TripBreaker ==
    /\ ip = "tripLock" /\ ShutdownInner
    /\ ip' = "degradedWait" /\ degraded' = TRUE
    /\ UNCHANGED <<cur, attempt, client, probe, host, capture, hist, history>>

\* runDegraded: the select between ctx.Done and the ticker.  When both are
\* ready Go picks either, so the ticker may win over a done context.
DegradedReturns ==
    /\ ip = "degradedWait" /\ cancelled
    /\ ip' = "done"
    /\ UNCHANGED <<cur, attempt, procs, client, probe, host, capture, mode, history>>

DegradedTickOnlyWithoutInner ==
    /\ ip = "degradedWait" /\ inner = 0
    /\ ip' = "degradedLock"
    /\ UNCHANGED <<cur, attempt, procs, client, probe, host, capture, mode, history>>

DegradedTick ==
    /\ ip = "degradedWait"
    /\ ip' = "degradedLock"
    /\ UNCHANGED <<cur, attempt, procs, client, probe, host, capture, mode, history>>

DegradedRespawnFails ==
    /\ ip = "degradedLock" /\ RespawnFails
    /\ ip' = "degradedWait"
    /\ UNCHANGED <<cur, attempt, client, probe, host, capture, mode,
                   replies, leaked, dest, refused, target>>

DegradedRespawnOK ==
    /\ ip = "degradedLock" /\ RespawnOK
    /\ ip' = "recover"
    /\ UNCHANGED <<cur, attempt, client, probe, host, capture, mode,
                   replies, leaked, dest, refused, target>>

\* The breaker's history is reset, then degraded is cleared.
RecoverStaysDegraded ==
    /\ ip = "recover"
    /\ hist' = 0
    /\ ip' = "top"
    /\ UNCHANGED <<cur, attempt, procs, client, probe, host, capture, degraded, history>>

Recover ==
    /\ ip = "recover"
    /\ hist' = 0 /\ degraded' = FALSE
    /\ ip' = "top"
    /\ UNCHANGED <<cur, attempt, procs, client, probe, host, capture, history>>

InnerPump ==
    \/ InnerPumpReturns \/ ReadInnerPtr \/ ForwardInnerLine \/ InnerExited
    \/ StartAttempt \/ AttemptOK \/ AttemptFails \/ RetryDelay \/ GiveUp
    \/ RecordRestart \/ TripBreaker
    \/ DegradedReturns \/ DegradedTick \/ DegradedRespawnFails \/ DegradedRespawnOK
    \/ Recover

-----------------------------------------------------------------------------
(* probeLoop and sendProbe *)

\* A tick with no probe pending: the probe is recorded before it is sent.
\* (A tick with one pending is skipped, and changes nothing.)
SendProbe(p) ==
    /\ pp = "idle" /\ pending = NoProbe
    /\ timer[p] = "off"
    /\ pending' = p /\ pid' = p /\ pp' = "write"
    /\ UNCHANGED <<timer, procs, client, ipump, host, capture, mode, history>>

ProbeHasRLock == (pp = "write" /\ RLockFree) \/ pp = "blocked"

ProbeWriteOK ==
    /\ ProbeHasRLock /\ HasRoom
    /\ PutStdin(Msg("probe", 0))
    /\ target' = [target EXCEPT ![pid] = inner]
    /\ pp' = "arm"
    /\ UNCHANGED <<pending, pid, timer, client, ipump, host, capture, mode,
                   replies, leaked, dest, refused>>

\* The pipe is broken: the pending state is cleared again (CAS).
ProbeWriteErrStaysPending ==
    /\ ProbeHasRLock /\ WriteFails
    /\ pp' = "idle" /\ pid' = NoProbe
    /\ UNCHANGED <<pending, timer, procs, client, ipump, host, capture, mode, history>>

ProbeWriteErr ==
    /\ ProbeHasRLock /\ WriteFails
    /\ pending' = IF pending = pid THEN NoProbe ELSE pending
    /\ pp' = "idle" /\ pid' = NoProbe
    /\ UNCHANGED <<timer, procs, client, ipump, host, capture, mode, history>>

ProbeWriteBlocks ==
    /\ pp = "write" /\ RLockFree /\ PipeFull
    /\ pp' = "blocked"
    /\ UNCHANGED <<pending, pid, timer, procs, client, ipump, host, capture, mode, history>>

\* time.AfterFunc(timeout, ...)
ArmTimer ==
    /\ pp = "arm"
    /\ timer' = [timer EXCEPT ![pid] = "armed"]
    /\ pp' = "idle" /\ pid' = NoProbe
    /\ UNCHANGED <<pending, procs, client, ipump, host, capture, mode, history>>

ProbeLoopReturns ==
    /\ pp = "idle" /\ cancelled
    /\ pp' = "done"
    /\ UNCHANGED <<pending, pid, timer, procs, client, ipump, host, capture, mode, history>>

\* The timeout closure: CAS on pendingProbe, then (as a step of its own)
\* killInner, which reads s.inner under RLock.
TimerFires(p) ==
    /\ timer[p] = "armed"
    /\ IF pending = p
          THEN /\ pending' = NoProbe
               /\ timer' = [timer EXCEPT ![p] = "kill"]
               /\ UNCHANGED target
          ELSE /\ timer' = [timer EXCEPT ![p] = "off"]
               /\ target' = [target EXCEPT ![p] = 0]
               /\ UNCHANGED pending
    /\ UNCHANGED <<pp, pid, procs, client, ipump, host, capture, mode,
                   replies, leaked, dest, first, refused>>

KillInner(p) ==
    /\ timer[p] = "kill" /\ RLockFree
    /\ timer' = [timer EXCEPT ![p] = "off"]
    /\ target' = [target EXCEPT ![p] = 0]
    /\ IF inner = 0 THEN UNCHANGED <<st, stdin>> ELSE Dies(inner)
    /\ UNCHANGED <<inner, spawned, stdout, pending, pp, pid, client, ipump, host,
                   capture, mode, replies, leaked, dest, first, refused>>

ProbeLoop ==
    \/ \E p \in Probes : SendProbe(p) \/ TimerFires(p) \/ KillInner(p)
    \/ ProbeWriteOK \/ ProbeWriteErr \/ ProbeWriteBlocks \/ ArmTimer \/ ProbeLoopReturns

-----------------------------------------------------------------------------
(* Run, after it has started the other goroutines *)

\* The select, cancel(), and the call of shutdownInner.
RunSelect ==
    /\ run = "select"
    /\ \/ cp = "done" /\ received' = "client"
       \/ ip = "done" /\ received' = "inner"
       \/ cancelled /\ received' = "none"
    /\ cancelled' = TRUE /\ run' = "shutLock"
    /\ UNCHANGED <<expired, procs, client, ipump, probe, capture, mode, history>>

\* Stdin is closed, the timer of two seconds is started, and the wait for
\* the pumps begins with the first one that has not been received from.
RunShutdownInner ==
    /\ run = "shutLock" /\ ShutdownInner
    /\ run' = IF received = "client" THEN "drainInner" ELSE "drainClient"
    /\ UNCHANGED <<cancelled, received, expired, client, ipump, probe, capture, mode, history>>

\* Mutant: the wait for the client pump has no timeout.
RunWaitsForClient ==
    /\ run = "drainClient" /\ cp = "done"
    /\ run' = IF received = "inner" THEN "returned" ELSE "drainInner"
    /\ UNCHANGED <<expired, cancelled, received, procs, client, ipump, probe, capture, mode, history>>

\* select between clientDone and drainTimeout
RunDrainsClient ==
    /\ run = "drainClient"
    /\ \/ cp = "done" /\ UNCHANGED expired
       \/ expired' = TRUE
    /\ run' = IF received = "inner" THEN "returned" ELSE "drainInner"
    /\ UNCHANGED <<cancelled, received, procs, client, ipump, probe, capture, mode, history>>

\* select between innerDone and drainTimeout: the same timer, which delivers
\* nothing more when the wait for the client pump has received from it.
RunDrainsInner ==
    /\ run = "drainInner" /\ (ip = "done" \/ ~expired)
    /\ run' = "returned"
    /\ UNCHANGED <<cancelled, received, expired, procs, client, ipump, probe, capture, mode, history>>

RunLoop == RunSelect \/ RunShutdownInner \/ RunDrainsClient \/ RunDrainsInner

-----------------------------------------------------------------------------
(* The environment: the host's signal, the clock, the inner processes *)

\* The host cancels the context of Run; pumpCtx is derived from it.
HostCancels ==
    /\ ~cancelled /\ run = "select"
    /\ cancelled' = TRUE
    /\ UNCHANGED <<run, received, expired, procs, client, ipump, probe, capture, mode, history>>

\* The inner reads a line.  One with an id is answered; after the
\* initialized notification the server may send notifications of its own.
InnerHandles(g) ==
    /\ st[g] = "up" /\ stdin[g] # <<>>
    /\ stdin' = [stdin EXCEPT ![g] = Tail(@)]
    /\ LET l == Head(stdin[g])
       IN IF l.k = "initialized"
          THEN \E out \in {<<>>, <<Msg("notification", 0)>>} :
                  stdout' = [stdout EXCEPT ![g] = @ \o out]
          ELSE stdout' = [stdout EXCEPT ![g] = Append(@, l)]
    /\ UNCHANGED <<inner, spawned, st, client, ipump, probe, host, capture, mode, history>>

\* The inner stops reading its stdin, for good.
InnerHangs(g) ==
    /\ st[g] = "up"
    /\ st' = [st EXCEPT ![g] = "hung"]
    /\ UNCHANGED <<inner, spawned, stdin, stdout, client, ipump, probe, host, capture, mode, history>>

InnerExits(g) ==
    /\ Running(g)
    /\ Dies(g)
    /\ UNCHANGED <<inner, spawned, stdout, client, ipump, probe, host, capture, mode, history>>

Environment ==
    \/ HostCancels
    \/ \E g \in Gens : InnerHandles(g) \/ InnerHangs(g) \/ InnerExits(g)

\* Run has returned and every goroutine with it.
Finished ==
    /\ run = "returned" /\ cp = "done" /\ ip = "done" /\ pp = "done"
    /\ UNCHANGED vars

Next == ClientPump \/ InnerPump \/ ProbeLoop \/ RunLoop \/ Environment \/ Finished

Spec == Init /\ [][Next]_vars

-----------------------------------------------------------------------------
(* Fairness: the Go scheduler runs every goroutine that can run, tickers    *)
(* and timers fire, and a reader that waits for s.mu is let in when the     *)
(* writer ahead of it unlocks (hence strong fairness where RLock is taken). *)
(* A select takes a context that is done before its next tick (hence that   *)
(* of DegradedReturns).  An inner that is up goes on reading its stdin.     *)
(* Nothing else is assumed of the inner processes, and nothing of the host  *)
(* and of the client: it may neither send nor hang up, also after Run has   *)
(* closed Stdin (the close of a file need not wake its reader), and it may  *)
(* stop reading what is written to it.                                      *)

ClientStep ==
    \/ MaybeCaptureInit \/ RouteToInner
    \/ ClientWriteOK \/ ClientWriteErr \/ ClientWriteBlocks

InnerPumpStep == ~WritesToClient /\ InnerPump

ProbeStep ==
    \/ \E p \in Probes : SendProbe(p)
    \/ ProbeWriteOK \/ ProbeWriteErr \/ ProbeWriteBlocks \/ ArmTimer \/ ProbeLoopReturns

Fairness ==
    /\ SF_vars(ClientStep) /\ SF_vars(InnerPumpStep) /\ SF_vars(DegradedReturns)
    /\ SF_vars(ProbeStep)
    /\ \A p \in Probes : WF_vars(TimerFires(p)) /\ SF_vars(KillInner(p))
    /\ WF_vars(RunLoop)
    /\ \A g \in Gens : WF_vars(InnerHandles(g))

FairSpec == Spec /\ Fairness

\* In addition, whatever keeps the inner from being started goes away.
RecoveringSpec == FairSpec /\ SF_vars(DegradedRespawnOK)

-----------------------------------------------------------------------------
(* Properties *)

\* Every variable stays in its domain; respawnWithRetry makes no more than
\* RespawnAttempts attempts, and a probe that is being sent is a probe.
TypeOK ==
    /\ run \in {"select", "shutLock", "drainClient", "drainInner", "returned"}
    /\ cancelled \in BOOLEAN /\ received \in {"none", "client", "inner"} /\ expired \in BOOLEAN
    /\ cp \in {"read", "capture", "route", "write", "blocked", "done"}
    /\ line \in Line /\ nread \in 0 .. MaxLines
    /\ ip \in {"top", "forward", "attempt", "respawnLock", "record", "retryWait", "giveUp",
               "tripLock", "degradedWait", "degradedLock", "recover", "done"}
    /\ cur \in Gens /\ attempt \in 1 .. RespawnAttempts
    /\ inner \in 0 .. MaxSpawns /\ spawned \in Gens
    /\ st \in [Gens -> {"none", "up", "hung", "dead"}]
    /\ stdin \in [Gens -> Seq(Line)] /\ stdout \in [Gens -> Seq(Line)]
    /\ initCap \in BOOLEAN /\ initedCap \in BOOLEAN
    /\ degraded \in BOOLEAN /\ hist \in Nat
    /\ pending \in Probes \cup {NoProbe} /\ pid \in Probes \cup {NoProbe}
    /\ pp \in {"idle", "write", "blocked", "arm", "done"}
    /\ pp \in {"write", "blocked", "arm"} => pid # NoProbe
    /\ timer \in [Probes -> {"off", "armed", "kill"}]
    /\ replies \in [Ids -> Nat] /\ leaked \in BOOLEAN
    /\ dest \in [Ids -> 0 .. MaxSpawns] /\ first \in [Gens -> Kinds \cup {"none"}]
    /\ refused \in BOOLEAN /\ target \in [Probes -> 0 .. MaxSpawns]

\* The client sees an unbroken JSON-RPC session: whatever crashes, hangs and
\* respawns happen, no id is answered twice (by two inners, or by an inner and
\* by replyInnerUnavailable) and no answer to a probe or to a replayed
\* initialize, both supervisor sentinels, is ever forwarded.
ClientProtocol ==
    /\ ~leaked
    /\ \A i \in Ids : replies[i] <= 1

\* At most one inner process is alive, and it is the one s.inner names: two
\* inner servers would index and write the same database side by side.
OneLiveInner == \A g \in Gens : Running(g) => g = inner

\* Every inner, also one started while client lines are being forwarded, is
\* given an initialize before any other line of the client's session.  (The
\* exception is a client whose initialize was refused in degraded mode.)
HandshakeFirst == refused \/ \A g \in Gens : first[g] \in {"none", "initialize"}

\* "The history slice is small (<= MaxRestarts+1 elements at any time)", says
\* recordRestart, although nothing there bounds it: degraded mode has to
\* reset the history before the next fast respawn.
HistoryBounded == hist <= MaxRestarts + 1

InFlight(i, g) == \E q \in {stdin[g], stdout[g]} :
                     \E n \in 1 .. Len(q) : q[n].id = i

\* A client line is lost only with the inner it was written to: as long as
\* that inner is alive the line waits in its stdin, its answer waits in its
\* stdout, or the client has the answer.
NoLossByLiveInner ==
    \A i \in Ids : dest[i] # 0 /\ Running(dest[i])
                       => replies[i] > 0 \/ InFlight(i, dest[i])

\* Degraded mode means that there is no usable inner: the inner pump is in
\* runDegraded (or was, when the context ended it), and no process runs
\* except the one that has just been started and is about to end the mode.
DegradedMeansDown ==
    degraded => /\ ip \in {"degradedWait", "degradedLock", "recover", "done"}
                /\ ip # "recover" => \A g \in Gens : ~Running(g)

\* The timeout closure takes an inner for hung when "nothing answered us in
\* the timeout window": as long as its CAS can succeed against a running
\* inner that got the probe, the pump has not read the answer of that inner.
KillsOnlyUnanswered ==
    \A p \in Probes :
        timer[p] = "armed" /\ pending = p /\ Running(target[p])
            => LET q == stdin[target[p]] \o stdout[target[p]]
               IN \E n \in 1 .. Len(q) : IsProbeResponse(q[n])

\* An inner that hangs is found out by the probe and killed, unless its pipe
\* was full when the probe was written: the timer is armed only after Write.
Hung == inner # 0 /\ st[inner] = "hung"
HungInnerKilled == Hung ~> (~Hung \/ run # "select" \/ pp = "blocked")

\* A writer that waits on the full pipe of a hung inner holds RLock, and
\* shutdownInner waits for Lock.
ShutdownBlocked ==
    run = "shutLock" /\ ~LockFree /\ PipeFull /\ Hung

\* The client pump used up the timer, and the inner pump hangs in a Write to
\* a client that does not read.
DrainBlocked == run = "drainInner" /\ expired /\ WritesToClient

\* "Either pump terminating ends the supervisor", and so does the context: the
\* client hung up, a respawn was given up with ExitOnGiveUp, or the host
\* cancelled, and Run returns ("a leak of one goroutine is better than a hung
\* supervisor"), whatever the client and the inner do or fail to do, except
\* in the two states above, in which it may stay for good.
RunTerminates ==
    <>(cancelled \/ cp = "done" \/ ip = "done")
        => <>(run = "returned") \/ <>[]ShutdownBlocked \/ <>[]DrainBlocked

\* A degraded supervisor recovers by itself when inners can be started again.
DegradedRecovers ==
    (degraded /\ spawned < MaxSpawns) ~> (~degraded \/ cancelled \/ spawned = MaxSpawns)
=============================================================================
