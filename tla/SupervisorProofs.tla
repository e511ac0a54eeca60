-------------------------- MODULE SupervisorProofs --------------------------
(* Safety of Supervisor for all values of its constants: its types, the    *)
(* inner processes, the handshake and the lines in the pipes.              *)
EXTENDS Supervisor, TLAPS

\* The retry delay is entered only while attempts are left.
AttemptsLeft == ip = "retryWait" => attempt < RespawnAttempts

Typed == TypeOK /\ AttemptsLeft

LEMMA InitTyped == Init => Typed
<1> SUFFICES ASSUME Init PROVE Typed
  OBVIOUS
<1> USE ConstantsAssumption DEF Init
<1>1. /\ cancelled \in BOOLEAN /\ initCap \in BOOLEAN /\ initedCap \in BOOLEAN
      /\ degraded \in BOOLEAN /\ leaked \in BOOLEAN /\ refused \in BOOLEAN
  BY Zenon
<1>2. line \in Line /\ nread \in 0 .. MaxLines
  BY DEF NoLine, Msg, Line, Kinds
<1>3. /\ cur \in Gens /\ inner \in 0 .. MaxSpawns /\ spawned \in Gens
      /\ attempt \in 1 .. RespawnAttempts /\ hist \in Nat
  BY DEF Gens
<1>4. st \in [Gens -> {"none", "up", "hung", "dead"}]
  BY DEF Gens
<1>5. stdin \in [Gens -> Seq(Line)] /\ stdout \in [Gens -> Seq(Line)]
  BY DEF Gens
<1>6. /\ timer \in [Probes -> {"off", "armed", "kill"}] /\ target \in [Probes -> 0 .. MaxSpawns]
      /\ replies \in [Ids -> Nat] /\ dest \in [Ids -> 0 .. MaxSpawns]
      /\ first \in [Gens -> Kinds \cup {"none"}]
  OBVIOUS
<1> QED
  BY <1>1, <1>2, <1>3, <1>4, <1>5, <1>6 DEF Typed, TypeOK, AttemptsLeft

\* What the pipes hold after a line was written, read or lost.
LEMMA DiesTyped ==
    ASSUME Typed, NEW g \in Gens, Dies(g)
    PROVE  st' \in [Gens -> {"none", "up", "hung", "dead"}] /\ stdin' \in [Gens -> Seq(Line)]
  BY DEF Dies, Typed, TypeOK

LEMMA PutStdinTyped ==
    ASSUME Typed, NEW l \in Line, Running(inner), PutStdin(l)
    PROVE  stdin' \in [Gens -> Seq(Line)] /\ first' \in [Gens -> Kinds \cup {"none"}]
<1>1. l.k \in Kinds
  BY DEF Line
<1>2. stdin' \in [Gens -> Seq(Line)]
  BY DEF PutStdin, Typed, TypeOK, Running
<1>3. first' \in [Gens -> Kinds \cup {"none"}]
  BY <1>1 DEF PutStdin, Typed, TypeOK
<1> QED
  BY <1>2, <1>3

LEMMA ReplyTyped ==
    ASSUME Typed, NEW i \in 0 .. MaxLines
    PROVE  [replies EXCEPT ![i] = @ + 1] \in [Ids -> Nat]
<1>1. replies \in [Ids -> Nat]
  BY DEF Typed, TypeOK
<1>2. CASE i \in Ids
  <2>1. replies[i] + 1 \in Nat
    BY <1>1, <1>2
  <2> QED
    BY <1>1, <2>1
<1>3. CASE i \notin Ids
  BY <1>1, <1>3
<1> QED
  BY <1>2, <1>3

LEMMA ClientTyped == ASSUME Typed, ClientPump PROVE Typed'
<1> USE ConstantsAssumption DEF procs, client, ipump, probe, host, capture, mode, history
<1>1. ASSUME NEW k \in {"initialize", "initialized", "request", "status"}, ReadClientLine(k)
      PROVE  Typed'
  <2>1. nread' \in 0 .. MaxLines
    BY <1>1 DEF ReadClientLine, Typed, TypeOK
  <2>2. line' \in Line
    BY <1>1 DEF ReadClientLine, Typed, TypeOK, Msg, Line, Kinds
  <2> QED
    BY <1>1, <2>1, <2>2 DEF ReadClientLine, Typed, TypeOK, AttemptsLeft
<1>2. CASE ClientPumpReturns
  BY <1>2 DEF ClientPumpReturns, Typed, TypeOK, AttemptsLeft
<1>3. CASE MaybeCaptureInit
  <2>1. initCap' \in BOOLEAN /\ initedCap' \in BOOLEAN
    BY <1>3, Zenon DEF MaybeCaptureInit
  <2>2. cp' = "route" /\ UNCHANGED <<line, nread, procs, ipump, probe, host, mode, history>>
    BY <1>3 DEF MaybeCaptureInit
  <2> QED
    BY <2>1, <2>2 DEF Typed, TypeOK, AttemptsLeft
<1>n. NoLine \in Line
  BY DEF NoLine, Msg, Line, Kinds
<1>i. line.id \in 0 .. MaxLines
  BY DEF Typed, TypeOK, Line
<1>4. CASE HandleStatusToolCall
  <2>1. replies' \in [Ids -> Nat]
    BY <1>4, <1>i, ReplyTyped DEF HandleStatusToolCall
  <2>2. /\ cp' \in {"read", "done"} /\ line' = NoLine
        /\ UNCHANGED <<nread, procs, ipump, probe, host, capture, mode,
                       leaked, dest, first, refused, target>>
    BY <1>4 DEF HandleStatusToolCall, NextClientLine
  <2> QED
    BY <1>n, <2>1, <2>2 DEF Typed, TypeOK, AttemptsLeft
<1>5. CASE ReplyInnerUnavailable
  <2>1. refused' \in BOOLEAN
    BY <1>5, Zenon DEF ReplyInnerUnavailable
  <2>2. replies' \in [Ids -> Nat]
    BY <1>5, <1>i, ReplyTyped DEF ReplyInnerUnavailable, Typed, TypeOK
  <2>3. /\ cp' \in {"read", "done"} /\ line' = NoLine
        /\ UNCHANGED <<nread, procs, ipump, probe, host, capture, mode,
                       leaked, dest, first, target>>
    BY <1>5 DEF ReplyInnerUnavailable, NextClientLine
  <2> QED
    BY <1>n, <2>1, <2>2, <2>3 DEF Typed, TypeOK, AttemptsLeft
<1>6. CASE RouteToInner
  BY <1>6 DEF RouteToInner, Typed, TypeOK, AttemptsLeft
<1>7. CASE ClientWriteOK
  <2>1. stdin' \in [Gens -> Seq(Line)] /\ first' \in [Gens -> Kinds \cup {"none"}]
    BY <1>7, PutStdinTyped DEF ClientWriteOK, HasRoom, Typed, TypeOK
  <2>2. dest' \in [Ids -> 0 .. MaxSpawns]
    BY <1>7 DEF ClientWriteOK, Typed, TypeOK
  <2>3. /\ cp' \in {"read", "done"} /\ line' = NoLine
        /\ UNCHANGED <<inner, spawned, st, stdout, nread, ipump, probe, host, capture, mode,
                       replies, leaked, refused, target>>
    BY <1>7 DEF ClientWriteOK, NextClientLine, PutStdin
  <2> QED
    BY <1>n, <2>1, <2>2, <2>3 DEF Typed, TypeOK, AttemptsLeft
<1>8. CASE ClientWriteErr
  BY <1>8, <1>n DEF ClientWriteErr, NextClientLine, Typed, TypeOK, AttemptsLeft
<1>9. CASE ClientWriteBlocks
  BY <1>9 DEF ClientWriteBlocks, Typed, TypeOK, AttemptsLeft
<1> QED
  BY <1>1, <1>2, <1>3, <1>4, <1>5, <1>6, <1>7, <1>8, <1>9 DEF ClientPump

\* Facts about the critical sections of respawn and shutdownInner.
LEMMA ReplayedTyped ==
    ASSUME Typed
    PROVE  /\ ReplayedLines \in Seq(Line)
           /\ ReplayedLines # <<>> => ReplayedLines[1].k \in Kinds
<1>1. Msg("initialize", 0) \in Line /\ Msg("initialized", 0) \in Line
  BY ConstantsAssumption DEF Msg, Line, Kinds
<1> DEFINE A == IF initCap THEN <<Msg("initialize", 0)>> ELSE <<>>
           B == IF initedCap THEN <<Msg("initialized", 0)>> ELSE <<>>
<1>2. A \in Seq(Line) /\ B \in Seq(Line)
  BY <1>1
<1>3. ReplayedLines = A \o B
  BY DEF ReplayedLines
<1> HIDE DEF A, B
<1>4. ReplayedLines \in Seq(Line)
  BY <1>2, <1>3
<1>5. ReplayedLines # <<>> => ReplayedLines[1] \in Line
  BY <1>4
<1> QED
  BY <1>4, <1>5 DEF Line

LEMMA RespawnOKTyped ==
    ASSUME Typed, RespawnOK
    PROVE  /\ inner' \in 0 .. MaxSpawns /\ spawned' \in Gens
           /\ st' \in [Gens -> {"none", "up", "hung", "dead"}]
           /\ stdin' \in [Gens -> Seq(Line)]
           /\ first' \in [Gens -> Kinds \cup {"none"}]
           /\ stdout' = stdout
<1>1. spawned + 1 \in Gens /\ spawned + 1 \in 0 .. MaxSpawns
  BY ConstantsAssumption DEF RespawnOK, Typed, TypeOK, Gens
<1>2. (IF ReplayedLines = <<>> THEN "none" ELSE ReplayedLines[1].k) \in Kinds \cup {"none"}
  BY ReplayedTyped
<1> QED
  BY <1>1, <1>2, ReplayedTyped DEF RespawnOK, Typed, TypeOK

LEMMA RespawnFailsTyped ==
    ASSUME Typed, RespawnFails
    PROVE  /\ inner' = inner /\ spawned' \in Gens
           /\ st' \in [Gens -> {"none", "up", "hung", "dead"}]
           /\ UNCHANGED <<stdin, stdout, first>>
<1>1. spawned < MaxSpawns => spawned + 1 \in Gens
  BY ConstantsAssumption DEF Typed, TypeOK, Gens
<1> QED
  BY <1>1 DEF RespawnFails, Typed, TypeOK, procs

LEMMA ShutdownTyped ==
    ASSUME Typed, ShutdownInner
    PROVE  /\ inner' \in 0 .. MaxSpawns /\ spawned' = spawned
           /\ st' \in [Gens -> {"none", "up", "hung", "dead"}]
           /\ stdin' \in [Gens -> Seq(Line)] /\ stdout' \in [Gens -> Seq(Line)]
<1>1. CASE inner = 0
  BY <1>1 DEF ShutdownInner, Typed, TypeOK, procs
<1>2. CASE inner # 0
  <2>1. inner \in Gens
    BY <1>2, ConstantsAssumption DEF Typed, TypeOK, Gens
  <2>2. st' \in [Gens -> {"none", "up", "hung", "dead"}] /\ stdin' \in [Gens -> Seq(Line)]
    BY <1>2, <2>1, DiesTyped DEF ShutdownInner
  <2>3. PICK n \in 0 .. Len(stdout[inner]) :
            stdout' = [stdout EXCEPT ![inner] = SubSeq(@, 1, n)]
    BY <1>2, <2>1, SMTT(40) DEF ShutdownInner, Typed, TypeOK
  <2>4. stdout[inner] \in Seq(Line)
    BY <2>1 DEF Typed, TypeOK
  <2>5. SubSeq(stdout[inner], 1, n) \in Seq(Line)
    BY <2>3, <2>4
  <2>6. stdout' \in [Gens -> Seq(Line)]
    BY <2>1, <2>3, <2>5 DEF Typed, TypeOK
  <2>7. inner' \in 0 .. MaxSpawns /\ spawned' = spawned
    BY <1>2, ConstantsAssumption DEF ShutdownInner
  <2> QED
    BY <2>2, <2>6, <2>7
<1> QED
  BY <1>1, <1>2

LEMMA InnerPumpTyped == ASSUME Typed, InnerPump PROVE Typed'
<1> USE ConstantsAssumption DEF procs, client, ipump, probe, host, capture, mode, history
<1>1. CASE InnerPumpReturns
  BY <1>1 DEF InnerPumpReturns, Typed, TypeOK, AttemptsLeft
<1>2. CASE ReadInnerPtr
  <2>1. cur' \in Gens
    BY <1>2 DEF ReadInnerPtr, Typed, TypeOK, Gens
  <2> QED
    BY <1>2, <2>1, SMTT(40) DEF ReadInnerPtr, Typed, TypeOK, AttemptsLeft
<1>3. CASE ForwardInnerLine
  <2> DEFINE l == Head(stdout[cur])
  <2>1. stdout[cur] \in Seq(Line) /\ stdout[cur] # <<>>
    BY <1>3 DEF ForwardInnerLine, Typed, TypeOK
  <2>2. l \in Line /\ Tail(stdout[cur]) \in Seq(Line)
    BY <2>1
  <2>3. l.id \in 0 .. MaxLines
    BY <2>2 DEF Line
  <2>4. stdout' \in [Gens -> Seq(Line)]
    BY <1>3, <2>2 DEF ForwardInnerLine, Typed, TypeOK
  <2>5. pending' \in Probes \cup {NoProbe}
    BY <1>3 DEF ForwardInnerLine, Typed, TypeOK
  <2>6. replies' = replies \/ replies' = [replies EXCEPT ![l.id] = @ + 1]
    BY <1>3 DEF ForwardInnerLine
  <2>7. replies' \in [Ids -> Nat]
    BY <2>3, <2>6, ReplyTyped DEF Typed, TypeOK
  <2>8. leaked' \in BOOLEAN
    BY <1>3, Zenon DEF ForwardInnerLine
  <2>9. UNCHANGED <<inner, spawned, st, stdin, ipump, client, pp, pid, timer, host,
                    capture, mode, dest, first, refused, target>>
    BY <1>3 DEF ForwardInnerLine
  <2> QED
    BY <2>4, <2>5, <2>7, <2>8, <2>9, SMTT(40) DEF Typed, TypeOK, AttemptsLeft
<1>4. CASE InnerExited
  BY <1>4 DEF InnerExited, Typed, TypeOK, AttemptsLeft
<1>5. CASE StartAttempt
  BY <1>5 DEF StartAttempt, Typed, TypeOK, AttemptsLeft
<1>6. CASE AttemptOK
  BY <1>6, RespawnOKTyped, SMTT(40) DEF AttemptOK, Typed, TypeOK, AttemptsLeft
<1>7. CASE AttemptFails
  <2>1. /\ inner' = inner /\ spawned' \in Gens
        /\ st' \in [Gens -> {"none", "up", "hung", "dead"}]
        /\ UNCHANGED <<stdin, stdout, first>>
    BY <1>7, RespawnFailsTyped DEF AttemptFails
  <2>2. /\ ip' \in {"giveUp", "retryWait"}
        /\ ip' = "retryWait" => attempt # RespawnAttempts
        /\ UNCHANGED <<cur, attempt, client, probe, host, capture, mode,
                       replies, leaked, dest, refused, target>>
    BY <1>7 DEF AttemptFails
  <2>3. TypeOK'
    BY <2>1, <2>2 DEF Typed, TypeOK
  <2>4. AttemptsLeft'
    BY <2>2 DEF Typed, TypeOK, AttemptsLeft
  <2> QED
    BY <2>3, <2>4 DEF Typed
<1>8. CASE RetryDelay
  BY <1>8 DEF RetryDelay, Typed, TypeOK, AttemptsLeft
<1>9. CASE GiveUp
  <2>1. degraded' \in BOOLEAN /\ ip' \in {"done", "degradedWait"}
    BY <1>9 DEF GiveUp, Typed, TypeOK
  <2> QED
    BY <1>9, <2>1 DEF GiveUp, Typed, TypeOK, AttemptsLeft
<1>10. CASE RecordRestart
  <2>1. hist' \in Nat /\ ip' \in {"top", "done", "tripLock"}
    BY <1>10 DEF RecordRestart, Typed, TypeOK
  <2> QED
    BY <1>10, <2>1 DEF RecordRestart, Typed, TypeOK, AttemptsLeft
<1>11. CASE TripBreaker
  BY <1>11, ShutdownTyped, SMTT(40) DEF TripBreaker, Typed, TypeOK, AttemptsLeft
<1>12. CASE DegradedReturns
  BY <1>12 DEF DegradedReturns, Typed, TypeOK, AttemptsLeft
<1>13. CASE DegradedTick
  BY <1>13 DEF DegradedTick, Typed, TypeOK, AttemptsLeft
<1>14. CASE DegradedRespawnFails
  BY <1>14, RespawnFailsTyped DEF DegradedRespawnFails, Typed, TypeOK, AttemptsLeft
<1>15. CASE DegradedRespawnOK
  BY <1>15, RespawnOKTyped, SMTT(40) DEF DegradedRespawnOK, Typed, TypeOK, AttemptsLeft
<1>16. CASE Recover
  <2>1. degraded' \in BOOLEAN
    BY <1>16, Zenon DEF Recover
  <2>2. /\ hist' = 0 /\ ip' = "top"
        /\ UNCHANGED <<cur, attempt, procs, client, probe, host, capture, history>>
    BY <1>16 DEF Recover
  <2> QED
    BY <2>1, <2>2 DEF Typed, TypeOK, AttemptsLeft
<1> QED
  BY <1>1, <1>2, <1>3, <1>4, <1>5, <1>6, <1>7, <1>8, <1>9, <1>10, <1>11, <1>12, <1>13,
     <1>14, <1>15, <1>16 DEF InnerPump

LEMMA ProbeTyped == ASSUME Typed, ProbeLoop PROVE Typed'
<1> USE ConstantsAssumption, NoProbeAssumption
    DEF procs, client, ipump, probe, host, capture, mode, history
<1>1. ASSUME NEW p \in Probes, SendProbe(p) PROVE Typed'
  BY <1>1 DEF SendProbe, Typed, TypeOK, AttemptsLeft
<1>2. ASSUME NEW p \in Probes, TimerFires(p) PROVE Typed'
  <2>1. /\ timer' \in [Probes -> {"off", "armed", "kill"}]
        /\ target' \in [Probes -> 0 .. MaxSpawns]
        /\ pending' \in Probes \cup {NoProbe}
    <3>1. \/ pending' = NoProbe /\ target' = target /\ timer' = [timer EXCEPT ![p] = "kill"]
          \/ /\ pending' = pending /\ target' = [target EXCEPT ![p] = 0]
             /\ timer' = [timer EXCEPT ![p] = "off"]
      BY <1>2 DEF TimerFires
    <3>2. timer' \in [Probes -> {"off", "armed", "kill"}]
      BY <3>1 DEF Typed, TypeOK
    <3>3. target' \in [Probes -> 0 .. MaxSpawns]
      <4>1. target \in [Probes -> 0 .. MaxSpawns] /\ 0 \in 0 .. MaxSpawns
        BY DEF Typed, TypeOK
      <4>2. [target EXCEPT ![p] = 0] \in [Probes -> 0 .. MaxSpawns]
        BY <4>1
      <4>3. target' = target \/ target' = [target EXCEPT ![p] = 0]
        BY <3>1
      <4> QED
        BY <4>1, <4>2, <4>3
    <3>4. pending' \in Probes \cup {NoProbe}
      BY <3>1 DEF Typed, TypeOK
    <3> QED
      BY <3>2, <3>3, <3>4
  <2>2. UNCHANGED <<pp, pid, procs, client, ipump, host, capture, mode,
                    replies, leaked, dest, first, refused>>
    BY <1>2 DEF TimerFires
  <2> QED
    BY <2>1, <2>2, SMTT(40) DEF Typed, TypeOK, AttemptsLeft
<1>3. ASSUME NEW p \in Probes, KillInner(p) PROVE Typed'
  <2>1. inner # 0 => inner \in Gens
    BY DEF Typed, TypeOK, Gens
  <2>2. st' \in [Gens -> {"none", "up", "hung", "dead"}] /\ stdin' \in [Gens -> Seq(Line)]
    BY <1>3, <2>1, DiesTyped DEF KillInner, Typed, TypeOK
  <2>3. timer' \in [Probes -> {"off", "armed", "kill"}] /\ target' \in [Probes -> 0 .. MaxSpawns]
    BY <1>3 DEF KillInner, Typed, TypeOK
  <2>4. UNCHANGED <<inner, spawned, stdout, pending, pp, pid, client, ipump, host,
                    capture, mode, replies, leaked, dest, first, refused>>
    BY <1>3 DEF KillInner
  <2> QED
    BY <2>2, <2>3, <2>4, SMTT(40) DEF Typed, TypeOK, AttemptsLeft
<1>4. CASE ProbeWriteOK
  <2>1. Msg("probe", 0) \in Line
    BY DEF Msg, Line, Kinds
  <2>2. stdin' \in [Gens -> Seq(Line)] /\ first' \in [Gens -> Kinds \cup {"none"}]
    BY <1>4, <2>1, PutStdinTyped DEF ProbeWriteOK, HasRoom
  <2>3. target' \in [Probes -> 0 .. MaxSpawns]
    BY <1>4 DEF ProbeWriteOK, Typed, TypeOK
  <2>4. /\ pp' = "arm" /\ pid # NoProbe
        /\ UNCHANGED <<inner, spawned, st, stdout, pending, pid, timer, client, ipump, host,
                       capture, mode, replies, leaked, dest, refused>>
    BY <1>4 DEF ProbeWriteOK, ProbeHasRLock, PutStdin, Typed, TypeOK
  <2> QED
    BY <2>2, <2>3, <2>4 DEF Typed, TypeOK, AttemptsLeft
<1>5. CASE ProbeWriteErr
  BY <1>5 DEF ProbeWriteErr, Typed, TypeOK, AttemptsLeft
<1>6. CASE ProbeWriteBlocks
  BY <1>6 DEF ProbeWriteBlocks, Typed, TypeOK, AttemptsLeft
<1>7. CASE ArmTimer
  BY <1>7 DEF ArmTimer, Typed, TypeOK, AttemptsLeft
<1>8. CASE ProbeLoopReturns
  BY <1>8 DEF ProbeLoopReturns, Typed, TypeOK, AttemptsLeft
<1> QED
  BY <1>1, <1>2, <1>3, <1>4, <1>5, <1>6, <1>7, <1>8 DEF ProbeLoop

LEMMA RunTyped == ASSUME Typed, RunLoop PROVE Typed'
<1> USE ConstantsAssumption DEF procs, client, ipump, probe, host, capture, mode, history
<1>1. CASE RunSelect
  BY <1>1 DEF RunSelect, Typed, TypeOK, AttemptsLeft
<1>2. CASE RunShutdownInner
  BY <1>2, ShutdownTyped DEF RunShutdownInner, Typed, TypeOK, AttemptsLeft
<1>3. CASE RunDrainsClient
  <2>1. run' \in {"drainInner", "returned"} /\ UNCHANGED <<cancelled, received, procs, client, ipump,
                                                          probe, capture, mode, history>>
    BY <1>3 DEF RunDrainsClient
  <2>2. expired' = expired \/ expired' = TRUE
    BY <1>3 DEF RunDrainsClient
  <2>3. expired' \in BOOLEAN
    BY <2>2, Zenon DEF Typed, TypeOK
  <2> QED
    BY <2>1, <2>3 DEF Typed, TypeOK, AttemptsLeft
<1>4. CASE RunDrainsInner
  BY <1>4 DEF RunDrainsInner, Typed, TypeOK, AttemptsLeft
<1> QED
  BY <1>1, <1>2, <1>3, <1>4 DEF RunLoop

LEMMA EnvironmentTyped == ASSUME Typed, Environment PROVE Typed'
<1> USE ConstantsAssumption DEF procs, client, ipump, probe, host, capture, mode, history
<1>1. CASE HostCancels
  BY <1>1 DEF HostCancels, Typed, TypeOK, AttemptsLeft
<1>2. ASSUME NEW g \in Gens, InnerHandles(g) PROVE Typed'
  <2>1. stdin[g] \in Seq(Line) /\ stdin[g] # <<>> /\ stdout[g] \in Seq(Line)
    BY <1>2 DEF InnerHandles, Typed, TypeOK
  <2>2. Head(stdin[g]) \in Line /\ Tail(stdin[g]) \in Seq(Line)
    BY <2>1
  <2>3. stdin' \in [Gens -> Seq(Line)]
    BY <1>2, <2>2 DEF InnerHandles, Typed, TypeOK
  <2>4. Msg("notification", 0) \in Line
    BY DEF Msg, Line, Kinds
  <2>5. PICK q \in Seq(Line) : stdout' = [stdout EXCEPT ![g] = q]
    <3>1. CASE Head(stdin[g]).k = "initialized"
      <4>1. PICK out \in {<<>>, <<Msg("notification", 0)>>} :
                stdout' = [stdout EXCEPT ![g] = @ \o out]
        BY <1>2, <3>1 DEF InnerHandles
      <4>2. out = <<>> \/ out = <<Msg("notification", 0)>>
        BY <4>1
      <4>3. out \in Seq(Line)
        <5>1. <<>> \in Seq(Line)
          OBVIOUS
        <5>2. <<Msg("notification", 0)>> \in Seq(Line)
          BY <2>4
        <5> QED
          BY <4>2, <5>1, <5>2, Zenon
      <4>4. stdout[g] \o out \in Seq(Line)
        BY <2>1, <4>3
      <4> QED
        BY <4>1, <4>4
    <3>2. CASE Head(stdin[g]).k # "initialized"
      <4>1. Append(stdout[g], Head(stdin[g])) \in Seq(Line)
        BY <2>1, <2>2
      <4>2. stdout' = [stdout EXCEPT ![g] = Append(@, Head(stdin[g]))]
        BY <1>2, <3>2 DEF InnerHandles
      <4> QED
        BY <4>1, <4>2
    <3> QED
      BY <3>1, <3>2
  <2>6. stdout' \in [Gens -> Seq(Line)]
    BY <2>5 DEF Typed, TypeOK
  <2>7. UNCHANGED <<inner, spawned, st, client, ipump, probe, host, capture, mode, history>>
    BY <1>2 DEF InnerHandles
  <2> QED
    <3>1. TypeOK'
      BY <2>3, <2>6, <2>7, SMTT(60) DEF Typed, TypeOK
    <3> QED
      BY <2>7, <3>1 DEF Typed, AttemptsLeft
<1>3. ASSUME NEW g \in Gens, InnerHangs(g) PROVE Typed'
  BY <1>3 DEF InnerHangs, Typed, TypeOK, AttemptsLeft
<1>4. ASSUME NEW g \in Gens, InnerExits(g) PROVE Typed'
  <2>1. st' \in [Gens -> {"none", "up", "hung", "dead"}] /\ stdin' \in [Gens -> Seq(Line)]
    BY <1>4, DiesTyped DEF InnerExits
  <2>2. UNCHANGED <<inner, spawned, stdout, client, ipump, probe, host, capture, mode, history>>
    BY <1>4 DEF InnerExits
  <2> QED
    BY <2>1, <2>2, SMTT(40) DEF Typed, TypeOK, AttemptsLeft
<1> QED
  BY <1>1, <1>2, <1>3, <1>4 DEF Environment

LEMMA StepTyped == Typed /\ [Next]_vars => Typed'
<1> SUFFICES ASSUME Typed, [Next]_vars PROVE Typed'
  OBVIOUS
<1>1. CASE UNCHANGED vars
  BY <1>1 DEF vars, procs, client, ipump, probe, host, capture, mode, history,
              Typed, TypeOK, AttemptsLeft
<1>2. CASE Next
  BY <1>1, <1>2, ClientTyped, InnerPumpTyped, ProbeTyped, RunTyped, EnvironmentTyped
  DEF Next, Finished
<1> QED
  BY <1>1, <1>2

LEMMA AlwaysTyped == Spec => []Typed
  BY InitTyped, StepTyped, PTL DEF Spec

\* The five goroutines keep every field of the Supervisor in its domain, for
\* any number of inners, lines and probes; respawnWithRetry never starts an
\* attempt beyond RespawnAttempts.
THEOREM TypeCorrect == Spec => []TypeOK
  BY AlwaysTyped, PTL DEF Typed

-----------------------------------------------------------------------------
(* The circuit breaker.  Where the history holds MaxRestarts + 1 entries   *)
(* the breaker has tripped, and the history is reset before the next       *)
(* restart is recorded.                                                    *)

Tripped == ip \in {"tripLock", "degradedWait", "degradedLock", "recover", "done"}
Breaker == HistoryBounded /\ (~Tripped => hist <= MaxRestarts)

LEMMA StepBreaker == Typed /\ Breaker /\ [Next]_vars => Breaker'
<1> SUFFICES ASSUME Typed, Breaker, [Next]_vars PROVE Breaker'
  OBVIOUS
<1> USE ConstantsAssumption
    DEF procs, client, ipump, probe, host, capture, mode, history,
        Breaker, Tripped, HistoryBounded, Typed, TypeOK
<1>1. CASE UNCHANGED <<ip, hist>>
  BY <1>1
<1>2. ASSUME ClientPump PROVE UNCHANGED <<ip, hist>>
  BY <1>2 DEF ClientPump, ReadClientLine, ClientPumpReturns, MaybeCaptureInit,
      HandleStatusToolCall, ReplyInnerUnavailable, RouteToInner, ClientWriteOK,
      ClientWriteErr, ClientWriteBlocks
<1>3. ASSUME ProbeLoop PROVE UNCHANGED <<ip, hist>>
  BY <1>3 DEF ProbeLoop, SendProbe, TimerFires, KillInner, ProbeWriteOK, ProbeWriteErr,
      ProbeWriteBlocks, ArmTimer, ProbeLoopReturns
<1>4. ASSUME RunLoop \/ Environment PROVE UNCHANGED <<ip, hist>>
  BY <1>4 DEF RunLoop, RunSelect, RunShutdownInner, RunDrainsClient, RunDrainsInner, Environment, HostCancels,
      InnerHandles, InnerHangs, InnerExits
<1>5. CASE InnerPump
  <2>1. CASE RecordRestart
    BY <2>1 DEF RecordRestart
  <2>2. CASE GiveUp \/ TripBreaker \/ DegradedReturns \/ DegradedTick
             \/ DegradedRespawnFails \/ DegradedRespawnOK
    BY <2>2 DEF GiveUp, TripBreaker, DegradedReturns, DegradedTick, DegradedRespawnFails,
        DegradedRespawnOK
  <2>3. CASE Recover
    BY <2>3 DEF Recover
  <2>4. CASE InnerPumpReturns \/ ReadInnerPtr \/ ForwardInnerLine \/ InnerExited
             \/ StartAttempt \/ AttemptOK \/ AttemptFails \/ RetryDelay
    BY <2>4 DEF InnerPumpReturns, ReadInnerPtr, ForwardInnerLine, InnerExited,
        StartAttempt, AttemptOK, AttemptFails, RetryDelay
  <2> QED
    BY <1>5, <2>1, <2>2, <2>3, <2>4 DEF InnerPump
<1> QED
  BY <1>1, <1>2, <1>3, <1>4, <1>5 DEF Next, Finished, vars

\* recordRestart's claim about its history slice, for every MaxRestarts: what
\* it appends never grows beyond MaxRestarts + 1 entries, because runDegraded
\* resets the history before the inner pump can record another restart.
THEOREM HistoryStaysBounded == Spec => []HistoryBounded
<1>1. Init => Breaker
  BY ConstantsAssumption DEF Init, Breaker, Tripped, HistoryBounded
<1>2. Breaker => HistoryBounded
  BY DEF Breaker
<1> QED
  BY <1>1, <1>2, StepBreaker, AlwaysTyped, PTL DEF Spec

-----------------------------------------------------------------------------
(* One inner.  While the inner pump is about to start a process nothing     *)
(* runs: it has seen the end of the process whose stdout it read, and that  *)
(* was the process s.inner named.                                           *)

NoneRuns == \A g \in Gens : ~Running(g)
Starting == ip \in {"attempt", "respawnLock", "retryWait", "giveUp",
                    "degradedWait", "degradedLock"}

Single ==
    /\ OneLiveInner
    /\ Starting => NoneRuns
    /\ ip = "forward" => inner \in {cur, 0}
    /\ DegradedMeansDown

\* A step of any other goroutine: processes may die, s.inner may become nil.
LEMMA SingleOther ==
    ASSUME Typed, Single, UNCHANGED <<ip, cur, degraded>>,
           \A g \in Gens : Running(g)' => Running(g),
           inner' = inner \/ (inner' = 0 /\ NoneRuns')
    PROVE  Single'
  BY DEF Single, OneLiveInner, Starting, NoneRuns, DegradedMeansDown

LEMMA DiesStops ==
    ASSUME Typed, NEW g \in Gens, Dies(g)
    PROVE  \A h \in Gens : Running(h)' <=> (Running(h) /\ h # g)
  BY DEF Dies, Running, Typed, TypeOK

LEMMA ShutdownStops ==
    ASSUME Typed, Single, ShutdownInner
    PROVE  inner' = 0 /\ NoneRuns' /\ \A g \in Gens : Running(g)' => Running(g)
<1>1. CASE inner = 0
  <2>1. NoneRuns
    BY <1>1, ConstantsAssumption DEF Single, OneLiveInner, NoneRuns, Gens
  <2> QED
    BY <1>1, <2>1 DEF ShutdownInner, procs, NoneRuns, Running
<1>2. CASE inner # 0
  <2>1. inner \in Gens
    BY <1>2, ConstantsAssumption DEF Typed, TypeOK, Gens
  <2>2. inner' = 0 /\ Dies(inner)
    BY <1>2 DEF ShutdownInner
  <2> QED
    BY <2>1, <2>2, DiesStops DEF Single, OneLiveInner, NoneRuns
<1> QED
  BY <1>1, <1>2

LEMMA RespawnStarts ==
    ASSUME Typed, NoneRuns, RespawnOK
    PROVE  \A g \in Gens : Running(g)' => g = inner'
  BY DEF RespawnOK, NoneRuns, Running, Typed, TypeOK

LEMMA FailedRespawnStops ==
    ASSUME Typed, NoneRuns, RespawnFails
    PROVE  NoneRuns' /\ inner' = inner
  BY DEF RespawnFails, NoneRuns, Running, Typed, TypeOK, procs

LEMMA StepSingle == Typed /\ Single /\ [Next]_vars => Single'
<1> SUFFICES ASSUME Typed, Single, [Next]_vars PROVE Single'
  OBVIOUS
<1> USE DEF procs, client, ipump, probe, host, capture, mode, history
<1>1. CASE UNCHANGED <<ip, cur, degraded, inner, st>>
  BY <1>1, SingleOther DEF Running
<1>2. ASSUME ClientPump PROVE UNCHANGED <<ip, cur, degraded, inner, st>>
  BY <1>2 DEF ClientPump, ReadClientLine, ClientPumpReturns, MaybeCaptureInit,
      HandleStatusToolCall, ReplyInnerUnavailable, RouteToInner, ClientWriteOK,
      ClientWriteErr, ClientWriteBlocks, PutStdin
<1>3. ASSUME NEW p \in Probes, KillInner(p) PROVE Single'
  <2>1. UNCHANGED <<ip, cur, degraded, inner>>
    BY <1>3 DEF KillInner
  <2>2. \A g \in Gens : Running(g)' => Running(g)
    <3>1. CASE inner = 0
      BY <1>3, <3>1 DEF KillInner, Running
    <3>2. CASE inner # 0
      <4>1. inner \in Gens /\ Dies(inner)
        BY <1>3, <3>2, ConstantsAssumption DEF KillInner, Typed, TypeOK, Gens
      <4> QED
        BY <4>1, DiesStops
    <3> QED
      BY <3>1, <3>2
  <2> QED
    BY <2>1, <2>2, SingleOther
<1>4. CASE ProbeLoop
  <2>1. CASE \E p \in Probes : KillInner(p)
    BY <1>3, <2>1
  <2>2. CASE \/ \E p \in Probes : SendProbe(p) \/ TimerFires(p)
             \/ ProbeWriteOK \/ ProbeWriteErr \/ ProbeWriteBlocks \/ ArmTimer
             \/ ProbeLoopReturns
    BY <1>1, <2>2 DEF SendProbe, TimerFires, ProbeWriteOK, ProbeWriteErr,
        ProbeWriteBlocks, ArmTimer, ProbeLoopReturns, PutStdin
  <2> QED
    BY <1>4, <2>1, <2>2 DEF ProbeLoop
<1>5. CASE RunLoop
  <2>1. CASE RunShutdownInner
    BY <2>1, ShutdownStops, SingleOther DEF RunShutdownInner
  <2>2. CASE RunSelect \/ RunDrainsClient \/ RunDrainsInner
    BY <1>1, <2>2 DEF RunSelect, RunDrainsClient, RunDrainsInner
  <2> QED
    BY <1>5, <2>1, <2>2 DEF RunLoop
<1>6. CASE Environment
  <2>1. ASSUME NEW g \in Gens, InnerHangs(g) PROVE Single'
    <3>1. \A h \in Gens : Running(h)' => Running(h)
      BY <2>1 DEF InnerHangs, Running, Typed, TypeOK
    <3> QED
      BY <2>1, <3>1, SingleOther DEF InnerHangs
  <2>2. ASSUME NEW g \in Gens, InnerExits(g) PROVE Single'
    BY <2>2, DiesStops, SingleOther DEF InnerExits
  <2>3. CASE HostCancels \/ \E g \in Gens : InnerHandles(g)
    BY <1>1, <2>3 DEF HostCancels, InnerHandles
  <2> QED
    BY <1>6, <2>1, <2>2, <2>3 DEF Environment
<1>7. CASE InnerPump
  <2>1. CASE InnerPumpReturns
    BY <2>1 DEF InnerPumpReturns, Single, OneLiveInner, Starting, NoneRuns,
        DegradedMeansDown, Running
  <2>2. CASE ReadInnerPtr
    BY <2>2 DEF ReadInnerPtr, Single, OneLiveInner, Starting, NoneRuns,
        DegradedMeansDown, Running
  <2>3. CASE ForwardInnerLine
    BY <1>1, <2>3 DEF ForwardInnerLine
  <2>4. CASE InnerExited
    <3>1. NoneRuns
      <4>1. ASSUME NEW g \in Gens, Running(g) PROVE FALSE
        <5>1. g = inner /\ inner \in {cur, 0} /\ ~Running(cur)
          BY <2>4, <4>1 DEF InnerExited, Single, OneLiveInner
        <5> QED
          BY <4>1, <5>1 DEF Gens
      <4> QED
        BY <4>1 DEF NoneRuns
    <3> QED
      BY <2>4, <3>1 DEF InnerExited, Single, OneLiveInner, Starting, NoneRuns,
          DegradedMeansDown, Running
  <2>5. CASE StartAttempt \/ RetryDelay
    BY <2>5 DEF StartAttempt, RetryDelay, Single, OneLiveInner, Starting, NoneRuns,
        DegradedMeansDown, Running
  <2>6. CASE AttemptOK \/ DegradedRespawnOK
    <3>1. NoneRuns /\ RespawnOK /\ ip' \in {"record", "recover"} /\ degraded' = degraded
      BY <2>6 DEF AttemptOK, DegradedRespawnOK, Single, Starting
    <3>2. OneLiveInner'
      BY <3>1, RespawnStarts DEF OneLiveInner
    <3>3. DegradedMeansDown'
      BY <2>6, <3>1 DEF AttemptOK, DegradedRespawnOK, Single, DegradedMeansDown
    <3> QED
      BY <3>1, <3>2, <3>3 DEF Single, Starting
  <2>7. CASE AttemptFails \/ DegradedRespawnFails
    <3>1. NoneRuns /\ RespawnFails /\ degraded' = degraded
      BY <2>7 DEF AttemptFails, DegradedRespawnFails, Single, Starting
    <3>2. NoneRuns' /\ inner' = inner
      BY <3>1, FailedRespawnStops
    <3>3. ip' \in {"giveUp", "retryWait", "degradedWait"} /\ (degraded => ip' = "degradedWait")
      BY <2>7 DEF AttemptFails, DegradedRespawnFails, Single, DegradedMeansDown
    <3> QED
      BY <3>1, <3>2, <3>3 DEF Single, OneLiveInner, Starting, NoneRuns, DegradedMeansDown
  <2>8. CASE GiveUp \/ DegradedReturns \/ DegradedTick
    BY <2>8 DEF GiveUp, DegradedReturns, DegradedTick, Single, OneLiveInner, Starting,
        NoneRuns, DegradedMeansDown, Running
  <2>9. CASE RecordRestart \/ Recover
    BY <2>9 DEF RecordRestart, Recover, Single, OneLiveInner, Starting,
        NoneRuns, DegradedMeansDown, Running
  <2>10. CASE TripBreaker
    <3>1. inner' = 0 /\ NoneRuns'
      BY <2>10, ShutdownStops DEF TripBreaker
    <3> QED
      BY <2>10, <3>1 DEF TripBreaker, Single, OneLiveInner, Starting, NoneRuns,
          DegradedMeansDown
  <2> QED
    BY <1>7, <2>1, <2>2, <2>3, <2>4, <2>5, <2>6, <2>7, <2>8, <2>9, <2>10 DEF InnerPump
<1> QED
  BY <1>1, <1>2, <1>4, <1>5, <1>6, <1>7 DEF Next, Finished, vars

LEMMA AlwaysSingle == Spec => []Single
<1>1. Init => Single
  BY ConstantsAssumption DEF Init, Single, OneLiveInner, Starting, NoneRuns,
      DegradedMeansDown, Running, Gens
<1> QED
  BY <1>1, StepSingle, AlwaysTyped, PTL DEF Spec

\* However respawns, probe timeouts, the tripped breaker and Run's shutdown
\* interleave, no two inner processes are alive, and the one alive is s.inner.
THEOREM AtMostOneInner == Spec => []OneLiveInner
  BY AlwaysSingle, PTL DEF Single

\* Degraded mode is never left on with a usable inner: while the flag is set
\* only the process that ends the mode can be running.
THEOREM DegradedIsDown == Spec => []DegradedMeansDown
  BY AlwaysSingle, PTL DEF Single

-----------------------------------------------------------------------------
(* The handshake.  The client's initialize is captured before it is         *)
(* written, so from then on an inner that runs has been given it by respawn,*)
(* or the client pump is about to write it.                                 *)

Holding == cp \in {"route", "write", "blocked"}
Captured ==
    /\ cp = "capture" => nread > 0
    /\ Holding => initCap
    /\ nread > 0 => initCap \/ (cp = "capture" /\ line.k = "initialize")
    /\ initedCap => initCap
Greeted ==
    initCap => \/ refused \/ ~Running(inner) \/ first[inner] = "initialize"
               \/ (Holding /\ line.k = "initialize")

Handshake == HandshakeFirst /\ Captured /\ Greeted

\* A step that neither moves the client pump nor writes to an inner.
LEMMA HandshakeOther ==
    ASSUME Typed, Handshake,
           UNCHANGED <<cp, line, nread, initCap, initedCap, first, refused>>,
           \A g \in Gens : Running(g)' => Running(g),
           inner' = inner \/ (inner' = 0 /\ NoneRuns')
    PROVE  Handshake'
<1>1. HandshakeFirst'
  BY DEF Handshake, HandshakeFirst
<1>2. Captured'
  BY DEF Handshake, Captured, Holding
<1>3. Greeted'
  <2>1. ~Running(inner) /\ inner' = inner => ~Running(inner)'
    BY DEF Running
  <2>2. inner' = 0 => ~Running(inner)'
    BY DEF Running, Gens
  <2> QED
    BY <2>1, <2>2 DEF Handshake, Greeted, Holding, Running
<1> QED
  BY <1>1, <1>2, <1>3 DEF Handshake

LEMMA RespawnGreets ==
    ASSUME Typed, Handshake, RespawnOK,
           UNCHANGED <<cp, line, nread, initCap, initedCap, refused>>
    PROVE  Handshake'
<1>1. spawned + 1 \in Gens
  BY ConstantsAssumption DEF RespawnOK, Typed, TypeOK, Gens
<1>2. inner' = spawned + 1
  BY DEF RespawnOK
<1>3. first' = [first EXCEPT ![spawned + 1] = IF ReplayedLines = <<>> THEN "none"
                                              ELSE ReplayedLines[1].k]
  BY DEF RespawnOK
<1>4. initCap => ReplayedLines # <<>> /\ ReplayedLines[1].k = "initialize"
  BY DEF ReplayedLines, Msg
<1>5. ~initCap => ReplayedLines = <<>>
  BY DEF ReplayedLines, Handshake, Captured
<1>6. first'[spawned + 1] \in {"none", "initialize"}
  BY <1>1, <1>3, <1>4, <1>5 DEF Typed, TypeOK
<1>7. \A g \in Gens \ {spawned + 1} : first'[g] = first[g]
  BY <1>3 DEF Typed, TypeOK
<1>8. HandshakeFirst'
  BY <1>6, <1>7 DEF Handshake, HandshakeFirst
<1>9. Captured'
  BY DEF Handshake, Captured, Holding
<1>10. initCap => first'[inner'] = "initialize"
  BY <1>1, <1>2, <1>3, <1>4 DEF Typed, TypeOK
<1> QED
  BY <1>8, <1>9, <1>10 DEF Handshake, Greeted

LEMMA ClientHandshake == ASSUME Typed, Handshake, ClientPump PROVE Handshake'
<1> USE DEF procs, client, ipump, probe, host, capture, mode, history
<1>1. ASSUME NEW k \in {"initialize", "initialized", "request", "status"}, ReadClientLine(k)
      PROVE  Handshake'
  <2>1. /\ cp = "read" /\ nread' = nread + 1 /\ line' = Msg(k, IF k = "initialized" THEN 0 ELSE nread + 1)
        /\ nread = 0 => k = "initialize"
        /\ cp' = IF k \in {"initialize", "initialized"} THEN "capture" ELSE "route"
        /\ UNCHANGED <<inner, st, initCap, initedCap, first, refused>>
    BY <1>1 DEF ReadClientLine
  <2>2. nread \in Nat /\ line'.k = k
    BY <2>1, ConstantsAssumption DEF Typed, TypeOK, Msg
  <2>3. HandshakeFirst'
    BY <2>1 DEF Handshake, HandshakeFirst
  <2>4. Captured'
    BY <2>1, <2>2 DEF Handshake, Captured, Holding
  <2>5. Greeted'
    BY <2>1 DEF Handshake, Greeted, Holding, Running
  <2> QED
    BY <2>3, <2>4, <2>5 DEF Handshake
<1>2. CASE ClientPumpReturns
  BY <1>2 DEF ClientPumpReturns, Handshake, HandshakeFirst, Captured, Greeted, Holding, Running
<1>3. CASE MaybeCaptureInit
  <2>1. /\ cp = "capture" /\ cp' = "route"
        /\ UNCHANGED <<line, nread, inner, st, first, refused>>
    BY <1>3 DEF MaybeCaptureInit
  <2>2. initCap' /\ (line.k = "initialize" \/ initCap)
    BY <1>3 DEF MaybeCaptureInit, Handshake, Captured
  <2>3. Captured'
    BY <2>1, <2>2 DEF Captured, Holding
  <2>4. HandshakeFirst'
    BY <2>1 DEF Handshake, HandshakeFirst
  <2>5. Greeted'
    BY <2>1, <2>2 DEF Handshake, Greeted, Holding, Running
  <2> QED
    BY <2>3, <2>4, <2>5 DEF Handshake
<1>4. CASE HandleStatusToolCall \/ ReplyInnerUnavailable
  <2>1. /\ cp = "route" /\ cp' \in {"read", "done"}
        /\ UNCHANGED <<nread, inner, st, initCap, initedCap, first>>
        /\ refused => refused'
        /\ line.k = "initialize" => refused'
    <3>1. CASE HandleStatusToolCall
      BY <3>1 DEF HandleStatusToolCall, NextClientLine
    <3>2. CASE ReplyInnerUnavailable
      <4>1. refused' = (refused \/ line.k = "initialize")
        BY <3>2, Zenon DEF ReplyInnerUnavailable
      <4>2. (refused => refused') /\ (line.k = "initialize" => refused')
        BY <4>1, Zenon
      <4>3. /\ cp = "route" /\ cp' \in {"read", "done"}
            /\ UNCHANGED <<nread, inner, st, initCap, initedCap, first>>
        BY <3>2 DEF ReplyInnerUnavailable, NextClientLine
      <4> QED
        BY <4>2, <4>3
    <3> QED
      BY <1>4, <3>1, <3>2
  <2>2. HandshakeFirst'
    BY <2>1 DEF Handshake, HandshakeFirst
  <2>3. Captured'
    BY <2>1 DEF Handshake, Captured, Holding
  <2>4. Greeted'
    BY <2>1 DEF Handshake, Greeted, Holding, Running
  <2> QED
    BY <2>2, <2>3, <2>4 DEF Handshake
<1>5. CASE RouteToInner \/ ClientWriteBlocks
  BY <1>5 DEF RouteToInner, ClientWriteBlocks, Handshake, HandshakeFirst, Captured,
      Greeted, Holding, Running
<1>6. CASE ClientWriteOK
  <2>1. /\ Holding /\ cp' \in {"read", "done"} /\ Running(inner)
        /\ first' = [first EXCEPT ![inner] = IF @ = "none" /\ line.k # "probe" THEN line.k ELSE @]
        /\ UNCHANGED <<nread, inner, st, initCap, initedCap, refused>>
    BY <1>6 DEF ClientWriteOK, NextClientLine, ClientHasRLock, HasRoom, PutStdin, Holding
  <2>2. inner \in Gens /\ first \in [Gens -> Kinds \cup {"none"}]
    BY <2>1 DEF Running, Typed, TypeOK
  <2>3. refused \/ first[inner] = "initialize" \/ line.k = "initialize"
    BY <2>1 DEF Handshake, Captured, Greeted
  <2>4. refused \/ first'[inner] = "initialize"
    BY <2>1, <2>2, <2>3 DEF Handshake, HandshakeFirst
  <2>5. \A g \in Gens \ {inner} : first'[g] = first[g]
    BY <2>1, <2>2
  <2>6. HandshakeFirst'
    BY <2>1, <2>4, <2>5 DEF Handshake, HandshakeFirst
  <2>7. Captured'
    BY <2>1 DEF Handshake, Captured, Holding
  <2>8. Greeted'
    BY <2>1, <2>4 DEF Greeted
  <2> QED
    BY <2>6, <2>7, <2>8 DEF Handshake
<1>7. CASE ClientWriteErr
  <2>1. /\ Holding /\ cp' \in {"read", "done"} /\ ~Running(inner)
        /\ UNCHANGED <<nread, inner, st, initCap, initedCap, first, refused>>
    BY <1>7 DEF ClientWriteErr, NextClientLine, ClientHasRLock, WriteFails, Holding
  <2>2. HandshakeFirst' /\ Greeted'
    BY <2>1 DEF Handshake, HandshakeFirst, Greeted, Running
  <2>3. Captured'
    BY <2>1 DEF Handshake, Captured, Holding
  <2> QED
    BY <2>2, <2>3 DEF Handshake
<1> QED
  BY <1>1, <1>2, <1>3, <1>4, <1>5, <1>6, <1>7 DEF ClientPump

LEMMA StepHandshake == Typed /\ Single /\ Handshake /\ [Next]_vars => Handshake'
<1> SUFFICES ASSUME Typed, Single, Handshake, [Next]_vars PROVE Handshake'
  OBVIOUS
<1> USE DEF procs, client, ipump, probe, host, capture, mode, history
<1>1. CASE UNCHANGED <<cp, line, nread, initCap, initedCap, first, refused, inner, st>>
  BY <1>1, HandshakeOther DEF Running
<1>2. CASE ClientPump
  BY <1>2, ClientHandshake
<1>3. ASSUME NEW p \in Probes, KillInner(p) PROVE Handshake'
  <2>1. UNCHANGED <<cp, line, nread, initCap, initedCap, first, refused, inner>>
    BY <1>3 DEF KillInner
  <2>2. \A g \in Gens : Running(g)' => Running(g)
    <3>1. CASE inner = 0
      BY <1>3, <3>1 DEF KillInner, Running
    <3>2. CASE inner # 0
      <4>1. inner \in Gens /\ Dies(inner)
        BY <1>3, <3>2, ConstantsAssumption DEF KillInner, Typed, TypeOK, Gens
      <4> QED
        BY <4>1, DiesStops
    <3> QED
      BY <3>1, <3>2
  <2> QED
    BY <2>1, <2>2, HandshakeOther
<1>4. CASE ProbeWriteOK
  <2>1. /\ UNCHANGED <<cp, line, nread, initCap, initedCap, refused, inner, st>>
        /\ first' = [first EXCEPT ![inner] =
                        IF @ = "none" /\ Msg("probe", 0).k # "probe" THEN Msg("probe", 0).k ELSE @]
    BY <1>4 DEF ProbeWriteOK, PutStdin
  <2>2. first' = first
    BY <2>1 DEF Msg, Typed, TypeOK
  <2> QED
    BY <1>1, <2>1, <2>2
<1>5. CASE ProbeLoop
  <2>1. CASE \/ \E p \in Probes : SendProbe(p) \/ TimerFires(p)
             \/ ProbeWriteErr \/ ProbeWriteBlocks \/ ArmTimer \/ ProbeLoopReturns
    BY <1>1, <2>1 DEF SendProbe, TimerFires, ProbeWriteErr, ProbeWriteBlocks, ArmTimer,
        ProbeLoopReturns
  <2> QED
    BY <1>3, <1>4, <1>5, <2>1 DEF ProbeLoop
<1>6. CASE RunLoop
  <2>1. CASE RunShutdownInner
    BY <2>1, ShutdownStops, HandshakeOther DEF RunShutdownInner
  <2>2. CASE RunSelect \/ RunDrainsClient \/ RunDrainsInner
    BY <1>1, <2>2 DEF RunSelect, RunDrainsClient, RunDrainsInner
  <2> QED
    BY <1>6, <2>1, <2>2 DEF RunLoop
<1>7. CASE Environment
  <2>1. ASSUME NEW g \in Gens, InnerHangs(g) PROVE Handshake'
    <3>1. \A h \in Gens : Running(h)' => Running(h)
      BY <2>1 DEF InnerHangs, Running, Typed, TypeOK
    <3> QED
      BY <2>1, <3>1, HandshakeOther DEF InnerHangs
  <2>2. ASSUME NEW g \in Gens, InnerExits(g) PROVE Handshake'
    BY <2>2, DiesStops, HandshakeOther DEF InnerExits
  <2>3. CASE HostCancels \/ \E g \in Gens : InnerHandles(g)
    BY <1>1, <2>3 DEF HostCancels, InnerHandles
  <2> QED
    BY <1>7, <2>1, <2>2, <2>3 DEF Environment
<1>8. CASE InnerPump
  <2>1. CASE AttemptOK \/ DegradedRespawnOK
    BY <2>1, RespawnGreets DEF AttemptOK, DegradedRespawnOK
  <2>2. CASE AttemptFails \/ DegradedRespawnFails
    <3>1. NoneRuns /\ RespawnFails /\ UNCHANGED <<cp, line, nread, initCap, initedCap, first, refused>>
      BY <2>2 DEF AttemptFails, DegradedRespawnFails, RespawnFails, Single, Starting
    <3>2. NoneRuns' /\ inner' = inner
      BY <3>1, FailedRespawnStops
    <3> QED
      BY <3>1, <3>2, HandshakeOther DEF NoneRuns
  <2>3. CASE TripBreaker
    BY <2>3, ShutdownStops, HandshakeOther DEF TripBreaker
  <2>4. CASE \/ InnerPumpReturns \/ ReadInnerPtr \/ ForwardInnerLine \/ InnerExited
             \/ StartAttempt \/ RetryDelay \/ GiveUp \/ RecordRestart
             \/ DegradedReturns \/ DegradedTick \/ Recover
    BY <1>1, <2>4 DEF InnerPumpReturns, ReadInnerPtr, ForwardInnerLine, InnerExited,
        StartAttempt, RetryDelay, GiveUp, RecordRestart, DegradedReturns, DegradedTick, Recover
  <2> QED
    BY <1>8, <2>1, <2>2, <2>3, <2>4 DEF InnerPump
<1> QED
  BY <1>1, <1>2, <1>5, <1>6, <1>7, <1>8 DEF Next, Finished, vars

\* Every inner that respawn or the client pump ever writes to is given an
\* initialize before the rest of the client's session, unless the client's
\* own initialize was refused while degraded.
THEOREM InitializeComesFirst == Spec => []HandshakeFirst
<1>1. Init => Handshake
  BY DEF Init, Handshake, HandshakeFirst, Captured, Greeted, Holding
<1>2. Handshake => HandshakeFirst
  BY DEF Handshake
<1> QED
  BY <1>1, <1>2, StepHandshake, AlwaysSingle, AlwaysTyped, PTL DEF Spec

-----------------------------------------------------------------------------
(***************************************************************************)
(* What the pipes between supervisor and inners hold: no line of the       *)
(* client is in two places, is answered twice or vanishes while its inner  *)
(* lives, and the line of a probe that is pending is still on its way.     *)
(***************************************************************************)

(* Queues of lines *)

Lines(q) == {q[n] : n \in 1 .. Len(q)}

\* No id of the client is in q twice.
Distinct(q) == \A m, n \in 1 .. Len(q) : q[m].id = q[n].id /\ q[m].id # 0 => m = n

LEMMA EmptyQueue == Lines(<<>>) = {} /\ Distinct(<<>>)
  BY DEF Lines, Distinct

\* Write puts a line at the end.
LEMMA AppendLine ==
    ASSUME NEW q \in Seq(Line), NEW l \in Line
    PROVE  /\ Lines(Append(q, l)) = Lines(q) \cup {l}
           /\ Distinct(q) /\ (l.id = 0 \/ \A m \in Lines(q) : m.id # l.id) => Distinct(Append(q, l))
<1>1. /\ Len(q) \in Nat /\ Len(Append(q, l)) = Len(q) + 1
      /\ \A n \in 1 .. Len(q) : Append(q, l)[n] = q[n]
      /\ Append(q, l)[Len(q) + 1] = l
  OBVIOUS
<1>2. 1 .. Len(q) + 1 = 1 .. Len(q) \cup {Len(q) + 1}
  BY <1>1
<1>3. Lines(Append(q, l)) = Lines(q) \cup {l}
  BY <1>1, <1>2 DEF Lines
<1>4. ASSUME Distinct(q), l.id = 0 \/ \A m \in Lines(q) : m.id # l.id PROVE Distinct(Append(q, l))
  BY <1>1, <1>2, <1>4 DEF Lines, Distinct
<1> QED
  BY <1>3, <1>4

\* Read takes a line from the front.
LEMMA TailLine ==
    ASSUME NEW q \in Seq(Line), q # <<>>
    PROVE  /\ Head(q) \in Line /\ Tail(q) \in Seq(Line)
           /\ Lines(q) = {Head(q)} \cup Lines(Tail(q))
           /\ Distinct(q) => /\ Distinct(Tail(q))
                             /\ Head(q).id = 0 \/ \A m \in Lines(Tail(q)) : m.id # Head(q).id
<1>1. /\ Len(q) \in Nat \ {0} /\ Len(Tail(q)) = Len(q) - 1 /\ Head(q) = q[1]
      /\ Head(q) \in Line /\ Tail(q) \in Seq(Line)
      /\ \A n \in 1 .. Len(q) - 1 : Tail(q)[n] = q[n + 1]
  OBVIOUS
<1>2. Lines(q) = {Head(q)} \cup Lines(Tail(q))
  <2>1. ASSUME NEW n \in 1 .. Len(q) PROVE q[n] \in {Head(q)} \cup Lines(Tail(q))
    <3>1. CASE n = 1
      BY <1>1, <3>1
    <3>2. CASE n # 1
      <4>1. n - 1 \in 1 .. Len(q) - 1 /\ (n - 1) + 1 = n
        BY <1>1, <3>2
      <4> QED
        BY <1>1, <4>1 DEF Lines
    <3> QED
      BY <3>1, <3>2
  <2>2. ASSUME NEW n \in 1 .. Len(q) - 1 PROVE Tail(q)[n] \in Lines(q)
    BY <1>1 DEF Lines
  <2>3. Head(q) \in Lines(q)
    BY <1>1 DEF Lines
  <2> QED
    BY <1>1, <2>1, <2>2, <2>3 DEF Lines
<1>3. ASSUME Distinct(q)
      PROVE  Distinct(Tail(q)) /\ (Head(q).id = 0 \/ \A m \in Lines(Tail(q)) : m.id # Head(q).id)
  <2>1. \A n \in 1 .. Len(q) - 1 : n + 1 \in 1 .. Len(q) /\ n + 1 # 1
    BY <1>1
  <2>2. Distinct(Tail(q))
    BY <1>1, <1>3, <2>1 DEF Distinct
  <2>3. Head(q).id = 0 \/ \A m \in Lines(Tail(q)) : m.id # Head(q).id
    BY <1>1, <1>3, <2>1 DEF Distinct, Lines
  <2> QED
    BY <2>2, <2>3
<1> QED
  BY <1>1, <1>2, <1>3

\* A pipe that is closed loses lines at its end.
LEMMA CutLines ==
    ASSUME NEW q \in Seq(Line), NEW n \in 0 .. Len(q)
    PROVE  Lines(SubSeq(q, 1, n)) \subseteq Lines(q) /\ (Distinct(q) => Distinct(SubSeq(q, 1, n)))
<1>1. Len(q) \in Nat /\ Len(SubSeq(q, 1, n)) = n /\ \A m \in 1 .. n : SubSeq(q, 1, n)[m] = q[m]
  OBVIOUS
<1> QED
  BY <1>1 DEF Lines, Distinct

-----------------------------------------------------------------------------
(* The lines of the client *)

In(g)  == Lines(stdin[g])
Out(g) == Lines(stdout[g])

\* A process that was not started has empty pipes, and nothing was written
\* to it.
Started ==
    /\ \A g \in Gens : g > spawned => st[g] = "none"
    /\ inner # 0 => st[inner] # "none"
    /\ \A g \in Gens : st[g] = "none" => In(g) = {} /\ Out(g) = {}
    /\ \A i \in Ids : dest[i] # 0 => st[dest[i]] # "none"
    /\ \A p \in Probes : target[p] # 0 => st[target[p]] # "none"

\* Sentinels have the id 0, and nothing else has, in either direction.
Sentinels ==
    /\ \A g \in Gens : \A l \in In(g) :
          l.k \in {"initialize", "initialized", "request", "probe"}
              /\ (l.k \in {"initialized", "probe"} => l.id = 0) /\ (l.k = "request" => l.id # 0)
    /\ \A g \in Gens : \A l \in Out(g) :
          l.k \in {"initialize", "request", "probe", "notification"}
              /\ (l.k \in {"probe", "notification"} => l.id = 0) /\ (l.k = "request" => l.id # 0)

\* The line the client pump works on.
HeldLine ==
    /\ line.id <= nread
    /\ cp \in {"read", "done"} => line = NoLine
    /\ cp \in {"capture", "route", "write", "blocked"} =>
          /\ line.k \in {"initialize", "initialized", "request", "status"}
          /\ line.id = 0 <=> line.k = "initialized"
    /\ cp \in {"write", "blocked"} => line.k # "status"

\* A line is with the pump, in the pipes of one inner or answered: one that is
\* in a pipe was written to that inner and has no reply, and one that was not
\* sent yet, or is with the pump, was not written and has no reply.
OnePlace ==
    /\ \A g \in Gens : \A l \in In(g) \cup Out(g) : l.id # 0 => dest[l.id] = g /\ replies[l.id] = 0
    /\ \A g \in Gens : \A l \in In(g), m \in Out(g) : l.id = m.id => l.id = 0
    /\ \A g \in Gens : Distinct(stdin[g]) /\ Distinct(stdout[g])
    /\ \A i \in Ids : i > nread \/ i = line.id => dest[i] = 0 /\ replies[i] = 0

\* NoLossByLiveInner, in terms of the sets of lines.
Kept ==
    \A i \in Ids : dest[i] # 0 /\ Running(dest[i]) =>
        replies[i] > 0 \/ \E l \in In(dest[i]) \cup Out(dest[i]) : l.id = i

Pipes == Started /\ Sentinels /\ HeldLine /\ OnePlace /\ Kept /\ ClientProtocol

\* The ids in the pipes are those of lines the client may send, or 0.
LEMMA LineIds ==
    ASSUME Typed
    PROVE  \A g \in Gens : \A l \in In(g) \cup Out(g) : l \in Line /\ (l.id # 0 => l.id \in Ids)
<1>1. \A l \in Line : l.id \in 0 .. MaxLines
  BY DEF Line
<1>2. \A q \in Seq(Line) : Lines(q) \subseteq Line
  BY DEF Lines
<1>3. \A g \in Gens : stdin[g] \in Seq(Line) /\ stdout[g] \in Seq(Line)
  BY DEF Typed, TypeOK
<1>4. \A g \in Gens : In(g) \subseteq Line /\ Out(g) \subseteq Line
  BY <1>2, <1>3 DEF In, Out
<1> QED
  BY <1>1, <1>4 DEF Ids

\* Processes end, hang or fail to start; what they lose is lost with them.
LEMMA PipesShrink ==
    ASSUME Typed, Pipes, UNCHANGED <<cp, line, nread, dest, replies, leaked>>, inner' \in {inner, 0},
           \A p \in Probes : target'[p] \in {target[p], 0},
           \A g \in Gens :
              /\ st'[g] = "none" => st[g] = "none"
              /\ g > spawned' => g > spawned /\ st'[g] = st[g]
              /\ Running(g)' => Running(g) /\ stdin'[g] = stdin[g] /\ stdout'[g] = stdout[g]
              /\ In(g)' \subseteq In(g) /\ Out(g)' \subseteq Out(g)
              /\ Distinct(stdin'[g]) /\ Distinct(stdout'[g])
    PROVE  Pipes'
<1>1. Started'
  <2>1. \A i \in Ids : dest[i] # 0 => dest[i] \in Gens
    BY DEF Typed, TypeOK, Gens
  <2>2. \A p \in Probes : target[p] # 0 => target[p] \in Gens
    BY DEF Typed, TypeOK, Gens
  <2>3. inner # 0 => inner \in Gens
    BY DEF Typed, TypeOK, Gens
  <2> QED
    BY <2>1, <2>2, <2>3 DEF Pipes, Started
<1>2. Sentinels' /\ HeldLine' /\ OnePlace' /\ ClientProtocol'
  BY DEF Pipes, Sentinels, HeldLine, OnePlace, ClientProtocol
<1>3. Kept'
  BY DEF Pipes, Kept, Running, In, Out
<1> QED
  BY <1>1, <1>2, <1>3 DEF Pipes

\* Such a step: a kill, an exit, the shutdown of the inner.
LEMMA DiesShrinks ==
    ASSUME Typed, Pipes, NEW g \in Gens, Dies(g), st[g] # "none",
           UNCHANGED <<spawned, cp, line, nread, dest, replies, leaked>>, inner' \in {inner, 0},
           \A p \in Probes : target'[p] \in {target[p], 0},
           \E n \in 0 .. Len(stdout[g]) : stdout' \in {stdout, [stdout EXCEPT ![g] = SubSeq(@, 1, n)]}
    PROVE  Pipes'
<1>1. /\ st \in [Gens -> {"none", "up", "hung", "dead"}] /\ stdin \in [Gens -> Seq(Line)]
      /\ stdout \in [Gens -> Seq(Line)]
  BY DEF Typed, TypeOK
<1>2. stdin' = [stdin EXCEPT ![g] = <<>>] /\ st' = [st EXCEPT ![g] = "dead"]
  BY DEF Dies
<1>3. \A h \in Gens : Distinct(stdin[h]) /\ Distinct(stdout[h])
  BY DEF Pipes, OnePlace
<1>4. Lines(stdout'[g]) \subseteq Lines(stdout[g]) /\ Distinct(stdout'[g])
  <2>1. PICK n \in 0 .. Len(stdout[g]) : stdout' \in {stdout, [stdout EXCEPT ![g] = SubSeq(@, 1, n)]}
    OBVIOUS
  <2>2. stdout'[g] = stdout[g] \/ stdout'[g] = SubSeq(stdout[g], 1, n)
    BY <1>1, <2>1
  <2>3. stdout[g] \in Seq(Line)
    BY <1>1
  <2> QED
    BY <1>3, <2>2, <2>3, CutLines
<1>5. \A h \in Gens : h # g => UNCHANGED <<stdin[h], stdout[h], st[h]>>
  BY <1>1, <1>2
<1>6. stdin'[g] = <<>> /\ st'[g] = "dead"
  BY <1>1, <1>2
<1>7. ASSUME NEW h \in Gens
      PROVE  /\ Running(h)' => Running(h) /\ stdin'[h] = stdin[h] /\ stdout'[h] = stdout[h]
             /\ In(h)' \subseteq In(h) /\ Out(h)' \subseteq Out(h)
             /\ Distinct(stdin'[h]) /\ Distinct(stdout'[h])
  BY <1>3, <1>4, <1>5, <1>6, EmptyQueue DEF Running, In, Out
<1>8. ASSUME NEW h \in Gens
      PROVE  (st'[h] = "none" => st[h] = "none") /\ (h > spawned' => h > spawned /\ st'[h] = st[h])
  BY <1>5, <1>6 DEF Pipes, Started
<1> QED
  BY <1>7, <1>8, PipesShrink

\* Neither the pipes nor what is known of the client's lines change.
LEMMA PipesSame ==
    ASSUME Typed, Pipes,
           UNCHANGED <<inner, spawned, st, stdin, stdout, cp, line, nread, dest, replies, leaked>>,
           \A p \in Probes : target'[p] \in {target[p], 0}
    PROVE  Pipes'
<1>1. \A g \in Gens : Distinct(stdin[g]) /\ Distinct(stdout[g])
  BY DEF Pipes, OnePlace
<1> QED
  BY <1>1, PipesShrink DEF In, Out, Running

\* What a write leaves in the pipes.
LEMMA PutStdinPipes ==
    ASSUME Typed, Pipes, NEW l \in Line, HasRoom, PutStdin(l)
    PROVE  /\ inner \in Gens /\ Running(inner)
           /\ In(inner)' = In(inner) \cup {l} /\ Out(inner)' = Out(inner)
           /\ \A g \in Gens : g # inner => In(g)' = In(g) /\ Out(g)' = Out(g) /\ stdin'[g] = stdin[g]
           /\ UNCHANGED <<stdout, st, spawned, inner>>
           /\ (l.id = 0 \/ \A m \in In(inner) : m.id # l.id) => Distinct(stdin'[inner])
<1>1. inner \in Gens /\ Running(inner) /\ stdin \in [Gens -> Seq(Line)]
  BY DEF HasRoom, Running, Typed, TypeOK
<1>2. stdin' = [stdin EXCEPT ![inner] = Append(@, l)] /\ UNCHANGED <<stdout, st, spawned, inner>>
  BY DEF PutStdin
<1>3. stdin'[inner] = Append(stdin[inner], l) /\ \A g \in Gens : g # inner => stdin'[g] = stdin[g]
  BY <1>1, <1>2
<1>4. Distinct(stdin[inner])
  BY <1>1 DEF Pipes, OnePlace
<1> QED
  BY <1>1, <1>2, <1>3, <1>4, AppendLine DEF In, Out

\* The client pump: a line is read, answered by the supervisor, written or
\* lost.
LEMMA ClientPipes == ASSUME Typed, Pipes, ClientPump PROVE Pipes'
<1> USE DEF procs, client, ipump, probe, host, capture, mode, history
<1> DEFINE Same == UNCHANGED <<inner, spawned, st, stdin, stdout, target>>
<1>1. ASSUME Same, UNCHANGED <<dest, replies, leaked, nread>>, line' \in {line, NoLine}, HeldLine'
      PROVE  Pipes'
  <2>1. \A i \in Ids : i # NoLine.id
    BY DEF NoLine, Msg, Ids
  <2>2. OnePlace'
    BY <1>1, <2>1 DEF Pipes, OnePlace, In, Out
  <2> QED
    BY <1>1, <2>2 DEF Pipes, Started, Sentinels, Kept, Running, ClientProtocol, In, Out
<1>2. ASSUME NEW k \in {"initialize", "initialized", "request", "status"}, ReadClientLine(k) PROVE Pipes'
  <2>1. /\ Same /\ UNCHANGED <<dest, replies, leaked>> /\ nread' = nread + 1
        /\ nread \in Nat /\ line.id <= nread
        /\ line' = Msg(k, IF k = "initialized" THEN 0 ELSE nread + 1)
        /\ cp' \in {"capture", "route"}
    BY <1>2 DEF ReadClientLine, Pipes, HeldLine, Typed, TypeOK
  <2>2. line'.k = k /\ line'.id = IF k = "initialized" THEN 0 ELSE nread + 1
    BY <2>1 DEF Msg
  <2>3. HeldLine'
    BY <2>1, <2>2 DEF HeldLine
  <2>4. \A i \in Ids : i > nread' \/ i = line'.id => i > nread
    BY <2>1, <2>2 DEF Ids
  <2>5. OnePlace'
    BY <2>1, <2>4 DEF Pipes, OnePlace, In, Out
  <2> QED
    BY <2>1, <2>3, <2>5 DEF Pipes, Started, Sentinels, Kept, Running, ClientProtocol, In, Out
<1>3. CASE ClientPumpReturns \/ MaybeCaptureInit \/ RouteToInner \/ ClientWriteErr \/ ClientWriteBlocks
  <2>1. Same /\ UNCHANGED <<dest, replies, leaked, nread>> /\ line' \in {line, NoLine}
    BY <1>3 DEF ClientPumpReturns, MaybeCaptureInit, RouteToInner, ClientWriteErr, ClientWriteBlocks
  <2>2. HeldLine'
    BY <1>3 DEF ClientPumpReturns, MaybeCaptureInit, RouteToInner, ClientWriteErr, NextClientLine, ClientWriteBlocks,
       Pipes, HeldLine, NoLine, Msg, Typed, TypeOK
  <2> QED
    BY <1>1, <2>1, <2>2
<1>4. CASE HandleStatusToolCall \/ ReplyInnerUnavailable
  <2>1. /\ Same /\ UNCHANGED <<dest, leaked, nread>> /\ line' = NoLine /\ cp' \in {"read", "done"}
        /\ replies' = IF line.id = 0 THEN replies ELSE [replies EXCEPT ![line.id] = @ + 1]
    BY <1>4 DEF HandleStatusToolCall, NextClientLine, ReplyInnerUnavailable, Pipes, HeldLine
  <2>2. line.id \in 0 .. MaxLines /\ replies \in [Ids -> Nat] /\ line.id <= nread /\ nread \in Nat
    BY DEF Typed, TypeOK, Line, Pipes, HeldLine
  <2>3. line.id # 0 => line.id \in Ids /\ dest[line.id] = 0 /\ replies[line.id] = 0
    BY <2>2 DEF Ids, Pipes, OnePlace
  <2>4. \A i \in Ids : replies'[i] = IF i = line.id THEN 1 ELSE replies[i]
    BY <2>1, <2>2, <2>3 DEF Ids
  <2>5. line'.id = 0 /\ HeldLine'
    BY <2>1, <2>2 DEF HeldLine, NoLine, Msg
  <2>6. OnePlace'
    <3>1. \A g \in Gens : \A l \in In(g) \cup Out(g) : l.id # 0 => l.id # line.id
      BY <2>3 DEF Pipes, OnePlace, Gens
    <3>2. \A g \in Gens : \A l \in In(g) \cup Out(g) : l.id # 0 => l.id \in Ids
      BY LineIds
    <3>3. \A i \in Ids : i > nread => i # line.id
      BY <2>2 DEF Ids
    <3> QED
      BY <2>1, <2>4, <2>5, <3>1, <3>2, <3>3 DEF Pipes, OnePlace, In, Out, Ids
  <2>7. Kept' /\ ClientProtocol'
    BY <2>1, <2>2, <2>4 DEF Pipes, Kept, ClientProtocol, Running, In, Out
  <2> QED
    BY <2>1, <2>5, <2>6, <2>7 DEF Pipes, Started, Sentinels, In, Out
<1>5. CASE ClientWriteOK
  <2>1. /\ HasRoom /\ PutStdin(line) /\ UNCHANGED <<target, replies, leaked, nread>>
        /\ dest' = IF line.id = 0 THEN dest ELSE [dest EXCEPT ![line.id] = inner]
        /\ line' = NoLine /\ cp' \in {"read", "done"} /\ cp \in {"write", "blocked"}
    BY <1>5 DEF ClientWriteOK, NextClientLine, ClientHasRLock
  <2>2. line \in Line /\ line.id \in 0 .. MaxLines /\ dest \in [Ids -> 0 .. MaxSpawns] /\ nread \in Nat
    BY DEF Typed, TypeOK, Line
  <2>3. /\ inner \in Gens /\ Running(inner)
        /\ In(inner)' = In(inner) \cup {line} /\ Out(inner)' = Out(inner)
        /\ \A g \in Gens : g # inner => In(g)' = In(g) /\ Out(g)' = Out(g) /\ stdin'[g] = stdin[g]
        /\ UNCHANGED <<stdout, st, spawned, inner>>
        /\ (line.id = 0 \/ \A m \in In(inner) : m.id # line.id) => Distinct(stdin'[inner])
    BY <2>1, <2>2, PutStdinPipes
  <2>4. line.id # 0 => line.id \in Ids /\ dest[line.id] = 0 /\ replies[line.id] = 0
    BY <2>2 DEF Ids, Pipes, OnePlace
  <2>5. \A i \in Ids : dest'[i] = IF i = line.id THEN inner ELSE dest[i]
    BY <2>1, <2>2, <2>4 DEF Ids
  <2>6. \A g \in Gens : \A l \in In(g) \cup Out(g) : l.id # 0 => l.id # line.id /\ l.id \in Ids
    BY <2>4, LineIds DEF Pipes, OnePlace, Gens
  <2>7. HeldLine' /\ line'.id = 0 /\ line.id <= nread
    BY <2>1, <2>2 DEF Pipes, HeldLine, NoLine, Msg
  <2>8. Started'
    BY <2>1, <2>3, <2>5 DEF Pipes, Started, Running
  <2>9. Sentinels'
    <3>1. /\ line.k \in {"initialize", "initialized", "request"}
          /\ line.id = 0 <=> line.k = "initialized"
      BY <2>1 DEF Pipes, HeldLine
    <3> QED
      BY <2>3, <3>1 DEF Pipes, Sentinels
  <2>10. OnePlace'
    <3>1. \A g \in Gens : \A l \in (In(g) \cup Out(g))' : l.id # 0 => dest'[l.id] = g /\ replies'[l.id] = 0
      BY <2>1, <2>3, <2>4, <2>5, <2>6 DEF Pipes, OnePlace
    <3>2. \A g \in Gens : \A l \in In(g)', m \in Out(g)' : l.id = m.id => l.id = 0
      BY <2>3, <2>6 DEF Pipes, OnePlace
    <3>3. \A g \in Gens : Distinct(stdin'[g]) /\ Distinct(stdout'[g])
      BY <2>3, <2>6 DEF Pipes, OnePlace
    <3>4. \A i \in Ids : i > nread' \/ i = line'.id => dest'[i] = 0 /\ replies'[i] = 0
      BY <2>1, <2>2, <2>5, <2>7 DEF Pipes, OnePlace, Ids
    <3> QED
      BY <3>1, <3>2, <3>3, <3>4 DEF OnePlace
  <2>11. Kept' /\ ClientProtocol'
    BY <2>1, <2>3, <2>4, <2>5 DEF Pipes, Kept, ClientProtocol, Running
  <2> QED
    BY <2>7, <2>8, <2>9, <2>10, <2>11 DEF Pipes
<1> QED
  BY <1>2, <1>3, <1>4, <1>5 DEF ClientPump

\* The inner reads a line and answers it: the id moves from one pipe to the
\* other.
LEMMA HandlesPipes ==
    ASSUME Typed, Pipes, NEW g \in Gens, InnerHandles(g)
    PROVE  /\ Pipes'
           /\ (\E l \in In(g) \cup Out(g) : l.k = "probe") => \E l \in (In(g) \cup Out(g))' : l.k = "probe"
           /\ \A h \in Gens : h # g => In(h)' = In(h) /\ Out(h)' = Out(h)
<1> DEFINE l == Head(stdin[g])
<1>1. /\ stdin[g] \in Seq(Line) /\ stdin[g] # <<>> /\ stdout[g] \in Seq(Line)
      /\ stdin \in [Gens -> Seq(Line)] /\ stdout \in [Gens -> Seq(Line)]
      /\ Distinct(stdin[g]) /\ Distinct(stdout[g])
  BY DEF InnerHandles, Typed, TypeOK, Pipes, OnePlace
<1>2. /\ l \in Line /\ In(g) = {l} \cup Lines(Tail(stdin[g])) /\ Distinct(Tail(stdin[g]))
      /\ l.id = 0 \/ \A m \in Lines(Tail(stdin[g])) : m.id # l.id
  BY <1>1, TailLine DEF In
<1>3. stdin' = [stdin EXCEPT ![g] = Tail(@)]
      /\ UNCHANGED <<spawned, st, inner, cp, line, nread, dest, replies, leaked, target>>
  BY DEF InnerHandles, client, history
<1>4. PICK q \in Seq(Line) :
        /\ stdout' = [stdout EXCEPT ![g] = q] /\ Distinct(q)
        /\ \/ l.k = "initialized" /\ Lines(q) = Lines(stdout[g])
           \/ l.k = "initialized" /\ Lines(q) = Lines(stdout[g]) \cup {Msg("notification", 0)}
           \/ l.k # "initialized" /\ Lines(q) = Lines(stdout[g]) \cup {l}
  <2>1. CASE l.k # "initialized"
    <3>1. stdout' = [stdout EXCEPT ![g] = Append(stdout[g], l)]
      BY <2>1 DEF InnerHandles
    <3>2. l.id = 0 \/ \A m \in Lines(stdout[g]) : m.id # l.id
      BY <1>2 DEF Pipes, OnePlace, In, Out
    <3>3. Append(stdout[g], l) \in Seq(Line)
      BY <1>1, <1>2
    <3> QED
      BY <1>1, <1>2, <2>1, <3>1, <3>2, <3>3, AppendLine
  <2>2. CASE l.k = "initialized"
    <3>1. PICK out \in {<<>>, <<Msg("notification", 0)>>} : stdout' = [stdout EXCEPT ![g] = @ \o out]
      BY <2>2 DEF InnerHandles
    <3>2. CASE out = <<>>
      <4>1. stdout' = [stdout EXCEPT ![g] = stdout[g]]
        BY <1>1, <3>1, <3>2
      <4> QED
        BY <1>1, <2>2, <4>1
    <3>3. CASE out = <<Msg("notification", 0)>>
      <4>1. Msg("notification", 0) \in Line /\ Msg("notification", 0).id = 0
        BY ConstantsAssumption DEF Msg, Line, Kinds
      <4> DEFINE note == Msg("notification", 0)
      <4> HIDE DEF note
      <4>2. stdout[g] \o <<note>> = Append(stdout[g], note) /\ Append(stdout[g], note) \in Seq(Line)
        BY <1>1, <4>1 DEF note
      <4>3. stdout' = [stdout EXCEPT ![g] = Append(stdout[g], note)]
        BY <1>1, <3>1, <3>3, <4>2 DEF note
      <4> QED
        BY <1>1, <2>2, <4>1, <4>2, <4>3, AppendLine DEF note
    <3> QED
      BY <3>1, <3>2, <3>3
  <2> QED
    BY <2>1, <2>2
<1>5. /\ stdin'[g] = Tail(stdin[g]) /\ stdout'[g] = q
      /\ \A h \in Gens : h # g => stdin'[h] = stdin[h] /\ stdout'[h] = stdout[h]
  BY <1>1, <1>3, <1>4
<1> HIDE DEF l
<1>6. \A h \in Gens : h # g => In(h)' = In(h) /\ Out(h)' = Out(h)
  BY <1>5 DEF In, Out
<1>7. In(g) = {l} \cup In(g)' /\ (l.id = 0 \/ \A m \in In(g)' : m.id # l.id) /\ Distinct(stdin'[g])
  BY <1>2, <1>5 DEF In
<1>8. /\ Out(g) \subseteq Out(g)' /\ Distinct(stdout'[g])
      /\ Out(g)' \subseteq Out(g) \cup {l, Msg("notification", 0)}
      /\ l.k # "initialized" => Out(g)' = Out(g) \cup {l}
      /\ l.k = "initialized" => l \in Out(g) \/ l \notin Out(g)'
  <2>1. Msg("notification", 0).k # "initialized"
    BY DEF Msg
  <2> QED
    BY <1>4, <1>5, <2>1 DEF Out
<1>9. l \in In(g) /\ (l.k = "initialized" => l.id = 0)
  BY <1>7 DEF Pipes, Sentinels
<1>10. Msg("notification", 0).id = 0 /\ Msg("notification", 0).k = "notification"
  BY DEF Msg
<1>11. st[g] = "up"
  BY DEF InnerHandles
<1>12. Started'
  BY <1>3, <1>6, <1>11 DEF Pipes, Started
<1>13. Sentinels'
  <2>1. \A m \in Out(g)' : m \in Out(g) \/ (m = l /\ l.k # "initialized") \/ m = Msg("notification", 0)
    BY <1>8
  <2> QED
    BY <1>6, <1>7, <1>9, <1>10, <2>1 DEF Pipes, Sentinels
<1>14. OnePlace'
  <2>1. \A h \in Gens : \A m \in (In(h) \cup Out(h))' : m.id # 0 => m \in In(h) \cup Out(h)
    BY <1>6, <1>7, <1>8, <1>9, <1>10
  <2>2. \A h \in Gens : \A m \in In(h)', n \in Out(h)' : m.id = n.id => m.id = 0
    BY <1>6, <1>7, <1>8, <1>10 DEF Pipes, OnePlace
  <2>3. \A h \in Gens : Distinct(stdin'[h]) /\ Distinct(stdout'[h])
    BY <1>5, <1>7, <1>8 DEF Pipes, OnePlace
  <2> QED
    BY <1>3, <2>1, <2>2, <2>3 DEF Pipes, OnePlace
<1>15. Kept'
  <2>1. \A h \in Gens : \A m \in In(h) \cup Out(h) : m.id # 0 => m \in (In(h) \cup Out(h))'
    BY <1>6, <1>7, <1>8, <1>9
  <2>2. \A i \in Ids : i # 0
    BY DEF Ids
  <2> QED
    BY <1>3, <2>1, <2>2 DEF Pipes, Kept, Running
<1> QED
  BY <1>3, <1>6, <1>7, <1>8, <1>12, <1>13, <1>14, <1>15 DEF Pipes, HeldLine, ClientProtocol

\* The pump takes a line from the inner: an answer reaches the client, once,
\* and a sentinel does not.
LEMMA ForwardPipes ==
    ASSUME Typed, Pipes, ForwardInnerLine
    PROVE  /\ Pipes'
           /\ \A g \in Gens : In(g)' = In(g)
           /\ \A g \in Gens : \A l \in Out(g) : l \in Out(g)' \/ (l.k = "probe" => pending' = NoProbe)
<1> DEFINE l == Head(stdout[cur])
<1>1. /\ cur \in Gens /\ stdout[cur] \in Seq(Line) /\ stdout[cur] # <<>>
      /\ stdout \in [Gens -> Seq(Line)] /\ Distinct(stdout[cur])
  BY DEF ForwardInnerLine, Typed, TypeOK, Pipes, OnePlace
<1>2. /\ l \in Line /\ Out(cur) = {l} \cup Lines(Tail(stdout[cur])) /\ Distinct(Tail(stdout[cur]))
      /\ l.id = 0 \/ \A m \in Lines(Tail(stdout[cur])) : m.id # l.id
  BY <1>1, TailLine DEF Out
<1>3. /\ stdout' = [stdout EXCEPT ![cur] = Tail(@)]
      /\ UNCHANGED <<inner, spawned, st, stdin, cp, line, nread, dest, target>>
  BY DEF ForwardInnerLine, client
<1>4. l \in Out(cur)
  BY <1>2
<1>5. /\ l.k = "probe" => pending' = NoProbe
      /\ replies' = IF l.id = 0 THEN replies ELSE [replies EXCEPT ![l.id] = @ + 1]
      /\ leaked' = leaked
  <2>1. /\ l.k \in {"initialize", "request", "probe", "notification"}
        /\ l.k \in {"probe", "notification"} => l.id = 0
        /\ l.k = "request" => l.id # 0
    BY <1>1, <1>4 DEF Pipes, Sentinels
  <2>2. leaked \in BOOLEAN /\ leaked' \in BOOLEAN
    <3>1. leaked \in BOOLEAN
      BY DEF Typed, TypeOK
    <3> QED
      BY <3>1, Zenon DEF ForwardInnerLine
  <2>3. PICK inWindow \in BOOLEAN :
          /\ pending' = IF IsProbeResponse(l) THEN NoProbe ELSE pending
          /\ replies' = IF (IsProbeResponse(l) \/ IsInitReplay(l) \/ (IsNotification(l) /\ inWindow))
                            \/ l.id = 0 THEN replies
                        ELSE [replies EXCEPT ![l.id] = @ + 1]
          /\ leaked' = (leaked \/ (~(IsProbeResponse(l) \/ IsInitReplay(l) \/ (IsNotification(l) /\ inWindow))
                                      /\ l.id = 0 /\ ~IsNotification(l)))
    BY DEF ForwardInnerLine
  <2>4. leaked' <=> leaked
    BY <2>1, <2>3 DEF IsProbeResponse, IsInitReplay, IsNotification
  <2>5. /\ l.k = "probe" => pending' = NoProbe
        /\ replies' = IF l.id = 0 THEN replies ELSE [replies EXCEPT ![l.id] = @ + 1]
    BY <2>1, <2>3 DEF IsProbeResponse, IsInitReplay, IsNotification
  <2> QED
    BY <2>2, <2>4, <2>5
<1> HIDE DEF l
<1>6. /\ stdout'[cur] = Tail(stdout[cur])
      /\ \A h \in Gens : h # cur => stdout'[h] = stdout[h]
  BY <1>1, <1>3
<1>7. \A h \in Gens : In(h)' = In(h) /\ (h # cur => Out(h)' = Out(h))
  BY <1>3, <1>6 DEF In, Out
<1>8. /\ Lines(stdout'[cur]) \subseteq Out(cur) /\ Out(cur) = {l} \cup Lines(stdout'[cur])
      /\ Distinct(stdout'[cur]) /\ (l.id = 0 \/ \A m \in Lines(stdout'[cur]) : m.id # l.id)
  BY <1>2, <1>6
<1>9. \A h \in Gens : h = cur => Out(h)' = Lines(stdout'[cur])
  BY DEF Out
<1>10. l.id # 0 => l.id \in Ids /\ dest[l.id] = cur /\ replies[l.id] = 0
  BY <1>1, <1>4, LineIds DEF Pipes, OnePlace
<1>11. \A i \in Ids : replies'[i] = IF i = l.id THEN 1 ELSE replies[i]
  BY <1>5, <1>10 DEF Typed, TypeOK, Ids
<1>12. \A h \in Gens : Out(h)' \subseteq Out(h) /\ \A m \in Out(h) : m \in Out(h)' \/ (h = cur /\ m = l)
  BY <1>7, <1>8, <1>9
<1>13. Started' /\ Sentinels' /\ HeldLine'
  BY <1>3, <1>7, <1>12 DEF Pipes, Started, Sentinels, HeldLine
<1>14. OnePlace'
  <2>1. \A h \in Gens : \A m \in (In(h) \cup Out(h))' : m.id # 0 => m.id \in Ids /\ m.id # l.id
    <3>1. ASSUME NEW h \in Gens, NEW m \in (In(h) \cup Out(h))', m.id # 0, m.id = l.id PROVE FALSE
      <4>1. m \in In(h) \cup Out(h) /\ dest[m.id] = h
        BY <1>7, <1>12, <3>1 DEF Pipes, OnePlace
      <4>2. h = cur
        BY <1>10, <3>1, <4>1
      <4>3. m \in Out(h)'
        BY <1>1, <1>4, <1>7, <3>1, <4>2 DEF Pipes, OnePlace
      <4> QED
        BY <1>8, <1>9, <3>1, <4>2, <4>3
    <3> QED
      BY <1>7, <1>12, <3>1, LineIds
  <2>2. \A h \in Gens : Distinct(stdin'[h]) /\ Distinct(stdout'[h])
    BY <1>3, <1>6, <1>8 DEF Pipes, OnePlace
  <2>3. \A h \in Gens : \A m \in (In(h) \cup Out(h))' : m.id # 0 => dest'[m.id] = h /\ replies'[m.id] = 0
    BY <1>3, <1>7, <1>11, <1>12, <2>1 DEF Pipes, OnePlace
  <2>4. \A i \in Ids : i > nread \/ i = line.id => i # l.id
    <3>1. cur # 0 /\ \A i \in Ids : i # 0
      BY <1>1 DEF Gens, Ids
    <3> QED
      BY <1>10, <3>1 DEF Pipes, OnePlace
  <2>5. \A h \in Gens : \A m \in In(h)', n \in Out(h)' : m.id = n.id => m.id = 0
    BY <1>7, <1>12 DEF Pipes, OnePlace
  <2>6. \A i \in Ids : i > nread' \/ i = line'.id => dest'[i] = 0 /\ replies'[i] = 0
    BY <1>3, <1>11, <2>4 DEF Pipes, OnePlace
  <2> QED
    BY <2>2, <2>3, <2>5, <2>6 DEF OnePlace
<1>15. Kept'
  <2> SUFFICES ASSUME NEW i \in Ids, dest[i] # 0, Running(dest[i]), i # l.id
               PROVE  replies'[i] > 0 \/ \E m \in (In(dest[i]) \cup Out(dest[i]))' : m.id = i
    BY <1>3, <1>11 DEF Kept, Running
  <2>1. replies[i] > 0 \/ \E m \in In(dest[i]) \cup Out(dest[i]) : m.id = i
    BY DEF Pipes, Kept
  <2>2. dest[i] \in Gens
    BY DEF Running
  <2>3. (In(dest[i]) \cup Out(dest[i]))' = Lines(stdin'[dest[i]]) \cup Lines(stdout'[dest[i]])
    BY <1>3 DEF In, Out
  <2>4. ASSUME NEW m \in In(dest[i]) \cup Out(dest[i]), m.id = i
        PROVE  m \in Lines(stdin'[dest[i]]) \cup Lines(stdout'[dest[i]])
    BY <1>7, <1>12, <2>2, <2>4 DEF In, Out
  <2> QED
    BY <1>11, <2>1, <2>3, <2>4
<1>16. ClientProtocol'
  BY <1>5, <1>11 DEF Pipes, ClientProtocol
<1> QED
  BY <1>5, <1>7, <1>12, <1>13, <1>14, <1>15, <1>16 DEF Pipes

\* A new inner has the replayed handshake in its stdin, under sentinel ids.
LEMMA RespawnPipes ==
    ASSUME Typed, Pipes, RespawnOK,
           UNCHANGED <<cp, line, nread, dest, replies, leaked, target>>
    PROVE  /\ Pipes'
           /\ \A g \in Gens : st[g] # "none" => In(g)' = In(g) /\ Out(g)' = Out(g) /\ st'[g] = st[g]
<1> DEFINE g == spawned + 1
<1>1. /\ g \in Gens /\ spawned' = g /\ st' = [st EXCEPT ![g] = "up"]
      /\ stdin' = [stdin EXCEPT ![g] = ReplayedLines] /\ stdout' = stdout
      /\ spawned \in Nat /\ inner' = g
  BY ConstantsAssumption DEF RespawnOK, Typed, TypeOK, Gens
<1>2. st[g] = "none" /\ In(g) = {} /\ Out(g) = {} /\ Distinct(stdout[g])
  BY <1>1 DEF Pipes, Started, OnePlace
<1>3. /\ \A l \in Lines(ReplayedLines) : l.k \in {"initialize", "initialized"} /\ l.id = 0
      /\ Distinct(ReplayedLines)
  <2>1. Msg("initialize", 0).k = "initialize" /\ Msg("initialize", 0).id = 0
    BY DEF Msg
  <2>2. Msg("initialized", 0).k = "initialized" /\ Msg("initialized", 0).id = 0
    BY DEF Msg
  <2>3. \A n \in 1 .. Len(ReplayedLines) :
            ReplayedLines[n] \in {Msg("initialize", 0), Msg("initialized", 0)}
    <3> DEFINE S == {Msg("initialize", 0), Msg("initialized", 0)}
               A == IF initCap THEN <<Msg("initialize", 0)>> ELSE <<>>
               B == IF initedCap THEN <<Msg("initialized", 0)>> ELSE <<>>
    <3>1. A \in Seq(S) /\ B \in Seq(S)
      <4>1. Msg("initialize", 0) \in S /\ Msg("initialized", 0) \in S
        OBVIOUS
      <4> HIDE DEF S
      <4> QED
        BY <4>1
    <3>2. ReplayedLines = A \o B
      BY DEF ReplayedLines
    <3> HIDE DEF A, B, S
    <3>3. ReplayedLines \in Seq(S)
      BY <3>1, <3>2
    <3> QED
      BY <3>3 DEF S
  <2> QED
    BY <2>1, <2>2, <2>3 DEF Lines, Distinct
<1> HIDE DEF g
<1>4. /\ stdin'[g] = ReplayedLines /\ st'[g] = "up"
      /\ \A h \in Gens : h # g => stdin'[h] = stdin[h] /\ st'[h] = st[h]
  BY <1>1 DEF Typed, TypeOK
<1>5. \A h \in Gens : Out(h)' = Out(h) /\ (h # g => In(h)' = In(h))
  BY <1>1, <1>4 DEF In, Out
<1>6. \A h \in Gens : h = g => In(h)' = Lines(ReplayedLines)
  BY <1>4 DEF In
<1>7. \A i \in Ids : dest[i] # g
  BY <1>1, <1>2 DEF Pipes, Started, Gens
<1>8. Started'
  <2>1. \A h \in Gens : h > spawned' => h > spawned /\ h # g
    BY <1>1 DEF Gens, g
  <2>2. \A i \in Ids : dest[i] # 0 => dest[i] \in Gens
    BY DEF Typed, TypeOK, Gens
  <2>3. \A p \in Probes : target[p] # 0 => target[p] \in Gens
    BY DEF Typed, TypeOK, Gens
  <2> QED
    BY <1>1, <1>4, <1>5, <2>1, <2>2, <2>3 DEF Pipes, Started
<1>9. Sentinels' /\ HeldLine' /\ ClientProtocol'
  BY <1>2, <1>3, <1>5, <1>6 DEF Pipes, Sentinels, HeldLine, ClientProtocol
<1>10. OnePlace'
  <2>1. \A h \in Gens : Distinct(stdin'[h]) /\ Distinct(stdout'[h])
    BY <1>1, <1>3, <1>4 DEF Pipes, OnePlace
  <2> QED
    BY <1>2, <1>3, <1>5, <1>6, <2>1 DEF Pipes, OnePlace
<1>11. Kept'
  BY <1>4, <1>5, <1>7 DEF Pipes, Kept, Running
<1> QED
  BY <1>2, <1>4, <1>5, <1>8, <1>9, <1>10, <1>11 DEF Pipes

\* Run's shutdown and the tripped breaker.
LEMMA ShutdownPipes ==
    ASSUME Typed, Pipes, ShutdownInner,
           UNCHANGED <<cp, line, nread, dest, replies, leaked, target>>
    PROVE  Pipes'
<1>1. CASE inner = 0
  BY <1>1, PipesSame DEF ShutdownInner, procs
<1>2. CASE inner # 0
  <2>1. inner \in Gens
    BY <1>2, ConstantsAssumption DEF Typed, TypeOK, Gens
  <2>2. Dies(inner) /\ inner' = 0 /\ UNCHANGED spawned /\ st[inner] # "none"
    BY <1>2 DEF ShutdownInner, Pipes, Started
  <2>3. PICK n \in 0 .. Len(stdout[inner]) : stdout' = [stdout EXCEPT ![inner] = SubSeq(@, 1, n)]
    <3>1. 0 \in 0 .. Len(stdout[inner])
      BY <2>1 DEF Typed, TypeOK
    <3>2. \E n \in IF ip = "forward" THEN 0 .. Len(stdout[inner]) ELSE {0} :
              stdout' = [stdout EXCEPT ![inner] = SubSeq(@, 1, n)]
      BY <1>2 DEF ShutdownInner
    <3> QED
      BY <3>1, <3>2
  <2> QED
    BY <2>1, <2>2, <2>3, DiesShrinks
<1> QED
  BY <1>1, <1>2

\* Every step keeps the pipes in order.
LEMMA StepPipes == Typed /\ Pipes /\ [Next]_vars => Pipes'
<1> SUFFICES ASSUME Typed, Pipes, [Next]_vars PROVE Pipes'
  OBVIOUS
<1> USE DEF procs, client, ipump, probe, host, capture, mode, history
<1>1. CASE ClientPump
  BY <1>1, ClientPipes
<1>2. CASE InnerPump
  <2>1. CASE ForwardInnerLine
    BY <2>1, ForwardPipes
  <2>2. CASE AttemptOK \/ DegradedRespawnOK
    BY <2>2, RespawnPipes DEF AttemptOK, DegradedRespawnOK
  <2>3. CASE AttemptFails \/ DegradedRespawnFails
    <3>1. RespawnFails /\ UNCHANGED <<inner, stdin, stdout, cp, line, nread, dest, replies, leaked, target>>
      BY <2>3 DEF AttemptFails, DegradedRespawnFails, RespawnFails
    <3>2. CASE UNCHANGED procs
      BY <3>1, <3>2, PipesSame
    <3>3. CASE spawned' = spawned + 1 /\ st' = [st EXCEPT ![spawned + 1] = "dead"]
      <4>1. spawned \in Nat /\ st \in [Gens -> {"none", "up", "hung", "dead"}]
        BY DEF Typed, TypeOK, Gens
      <4>2. ASSUME NEW g \in Gens
            PROVE  /\ st'[g] = "none" => st[g] = "none"
                   /\ g > spawned' => g > spawned /\ st'[g] = st[g]
                   /\ Running(g)' => Running(g)
        BY <3>3, <4>1 DEF Running, Gens
      <4>3. \A g \in Gens : In(g)' = In(g) /\ Out(g)' = Out(g) /\ Distinct(stdin[g]) /\ Distinct(stdout[g])
        BY <3>1 DEF In, Out, Pipes, OnePlace
      <4> QED
        BY <3>1, <4>2, <4>3, PipesShrink
    <3> QED
      BY <3>1, <3>2, <3>3 DEF RespawnFails
  <2>4. CASE TripBreaker
    BY <2>4, ShutdownPipes DEF TripBreaker
  <2>5. CASE \/ InnerPumpReturns \/ ReadInnerPtr \/ InnerExited \/ StartAttempt \/ RetryDelay \/ GiveUp
             \/ RecordRestart \/ DegradedReturns \/ DegradedTick \/ Recover
    BY <2>5, PipesSame DEF InnerPumpReturns, ReadInnerPtr, InnerExited, StartAttempt, RetryDelay, GiveUp,
       RecordRestart, DegradedReturns, DegradedTick, Recover
  <2> QED
    BY <1>2, <2>1, <2>2, <2>3, <2>4, <2>5 DEF InnerPump
<1>3. CASE ProbeLoop
  <2>1. CASE ProbeWriteOK
    <3> DEFINE l == Msg("probe", 0)
    <3>1. l \in Line /\ l.id = 0 /\ l.k = "probe"
      BY ConstantsAssumption DEF Msg, Line, Kinds
    <3>2. /\ HasRoom /\ PutStdin(l) /\ UNCHANGED <<cp, line, nread, dest, replies, leaked>>
          /\ target' = [target EXCEPT ![pid] = inner]
      BY <2>1 DEF ProbeWriteOK
    <3> HIDE DEF l
    <3>3. /\ inner \in Gens /\ Running(inner)
          /\ In(inner)' = In(inner) \cup {l} /\ Out(inner)' = Out(inner)
          /\ \A g \in Gens : g # inner => In(g)' = In(g) /\ Out(g)' = Out(g) /\ stdin'[g] = stdin[g]
          /\ UNCHANGED <<stdout, st, spawned, inner>> /\ Distinct(stdin'[inner])
      BY <3>1, <3>2, PutStdinPipes
    <3>4. Started'
      BY <3>2, <3>3 DEF Pipes, Started, Running, Typed, TypeOK
    <3>5. Sentinels' /\ HeldLine' /\ ClientProtocol'
      BY <3>1, <3>2, <3>3 DEF Pipes, Sentinels, HeldLine, ClientProtocol
    <3>6. OnePlace'
      BY <3>1, <3>2, <3>3 DEF Pipes, OnePlace
    <3>7. Kept'
      BY <3>2, <3>3 DEF Pipes, Kept, Running
    <3> QED
      BY <3>4, <3>5, <3>6, <3>7 DEF Pipes
  <2>2. ASSUME NEW p \in Probes, KillInner(p) PROVE Pipes'
    <3>1. /\ UNCHANGED <<inner, spawned, stdout, cp, line, nread, dest, replies, leaked>>
          /\ target' = [target EXCEPT ![p] = 0] /\ target \in [Probes -> 0 .. MaxSpawns]
      BY <2>2 DEF KillInner, Typed, TypeOK
    <3>2. CASE inner = 0
      BY <2>2, <3>1, <3>2, PipesSame DEF KillInner
    <3>3. CASE inner # 0
      <4>1. inner \in Gens /\ Dies(inner) /\ st[inner] # "none" /\ 0 \in 0 .. Len(stdout[inner])
        BY <2>2, <3>3, ConstantsAssumption DEF KillInner, Typed, TypeOK, Gens, Pipes, Started
      <4> QED
        BY <3>1, <4>1, DiesShrinks
    <3> QED
      BY <3>2, <3>3
  <2>3. CASE (\E p \in Probes : SendProbe(p)) \/ ProbeWriteErr \/ ProbeWriteBlocks \/ ArmTimer \/ ProbeLoopReturns
    BY <2>3, PipesSame DEF SendProbe, ProbeWriteErr, ProbeWriteBlocks, ArmTimer, ProbeLoopReturns
  <2>4. ASSUME NEW p \in Probes, TimerFires(p) PROVE Pipes'
    BY <2>4, PipesSame DEF TimerFires, Typed, TypeOK
  <2> QED
    BY <1>3, <2>1, <2>2, <2>3, <2>4 DEF ProbeLoop
<1>4. CASE RunLoop
  BY <1>4, ShutdownPipes, PipesSame DEF RunLoop, RunSelect, RunShutdownInner, RunDrainsClient, RunDrainsInner
<1>5. CASE Environment
  <2>1. ASSUME NEW g \in Gens, InnerHandles(g) PROVE Pipes'
    BY <2>1, HandlesPipes
  <2>2. ASSUME NEW g \in Gens, InnerHangs(g) PROVE Pipes'
    <3>1. ASSUME NEW h \in Gens
          PROVE  /\ st'[h] = "none" => st[h] = "none"
                 /\ Running(h)' => Running(h)
                 /\ h > spawned => st'[h] = st[h]
      BY <2>2 DEF InnerHangs, Running, Typed, TypeOK, Pipes, Started
    <3>2. \A h \in Gens : In(h)' = In(h) /\ Out(h)' = Out(h) /\ Distinct(stdin[h]) /\ Distinct(stdout[h])
      BY <2>2 DEF InnerHangs, In, Out, Pipes, OnePlace
    <3> QED
      BY <2>2, <3>1, <3>2, PipesShrink DEF InnerHangs
  <2>3. ASSUME NEW g \in Gens, InnerExits(g) PROVE Pipes'
    <3>1. st[g] # "none" /\ 0 \in 0 .. Len(stdout[g])
      BY <2>3 DEF InnerExits, Running, Typed, TypeOK
    <3> QED
      BY <2>3, <3>1, DiesShrinks DEF InnerExits
  <2>4. CASE HostCancels
    BY <2>4, PipesSame DEF HostCancels
  <2> QED
    BY <1>5, <2>1, <2>2, <2>3, <2>4 DEF Environment
<1>6. CASE UNCHANGED vars
  BY <1>6, PipesSame DEF vars
<1> QED
  BY <1>1, <1>2, <1>3, <1>4, <1>5, <1>6 DEF Next, Finished

-----------------------------------------------------------------------------
(* The probe that is pending *)

\* The pipes of g hold a probe, or its answer.
Probing(g) == \E l \in In(g) \cup Out(g) : l.k = "probe"

\* As long as a probe that was written is pending, no answer was read: it is
\* in a pipe of the inner it was written to, if that inner runs.  A probe that
\* is being sent has no timer yet.
Pending ==
    /\ pp \in {"write", "blocked", "arm"} => timer[pid] = "off"
    /\ \A p \in Probes :
          pending = p /\ (timer[p] = "armed" \/ (pp = "arm" /\ pid = p)) /\ Running(target[p])
              => Probing(target[p])

\* Steps that take no probe from the pipes of an inner that runs, and start
\* none with which a probe was pending.
LEMMA PendingKept ==
    ASSUME Typed, Pending, UNCHANGED <<pp, pid, timer, target>>, pending' \in {pending, NoProbe},
           \A g \in Gens : Running(g)' /\ (\E p \in Probes : target[p] = g) =>
               Running(g) /\ (Probing(g) => pending' = NoProbe \/ Probing(g)')
    PROVE  Pending'
<1>1. \A p \in Probes : Running(target[p])' => target[p] \in Gens
  BY DEF Running
<1>2. \A p \in Probes : p # NoProbe
  BY NoProbeAssumption
<1> QED
  BY <1>1, <1>2 DEF Pending, Running

\* The death of an inner leaves the pipes of the others alone.
LEMMA DiesKeeps ==
    ASSUME Typed, NEW g \in Gens, Dies(g), \A h \in Gens : h # g => stdout'[h] = stdout[h]
    PROVE  \A h \in Gens : Running(h)' => Running(h) /\ (Probing(h) => Probing(h)')
<1>1. \A h \in Gens : Running(h)' <=> (Running(h) /\ h # g)
  BY DiesStops
<1>2. \A h \in Gens : h # g => stdin'[h] = stdin[h]
  BY DEF Dies, Typed, TypeOK
<1> QED
  BY <1>1, <1>2 DEF Probing, In, Out

\* So does a shutdown.
LEMMA ShutdownKeeps ==
    ASSUME Typed, ShutdownInner
    PROVE  \A h \in Gens : Running(h)' => Running(h) /\ (Probing(h) => Probing(h)')
<1>1. CASE inner = 0
  BY <1>1 DEF ShutdownInner, procs, Running, Probing, In, Out
<1>2. CASE inner # 0
  <2>1. inner \in Gens /\ Dies(inner)
    BY <1>2, ConstantsAssumption DEF ShutdownInner, Typed, TypeOK, Gens
  <2>2. \A h \in Gens : h # inner => stdout'[h] = stdout[h]
    BY <1>2 DEF ShutdownInner, Typed, TypeOK
  <2> QED
    BY <2>1, <2>2, DiesKeeps
<1> QED
  BY <1>1, <1>2

\* Every step keeps the promise of a pending probe.
LEMMA StepPending == Typed /\ Pipes /\ Pending /\ [Next]_vars => Pending'
<1> SUFFICES ASSUME Typed, Pipes, Pending, [Next]_vars PROVE Pending'
  OBVIOUS
<1> USE DEF procs, client, ipump, probe, host, capture, mode, history
<1>1. CASE UNCHANGED <<st, stdin, stdout, pending, pp, pid, timer, target>>
  BY <1>1, PendingKept DEF Running, Probing, In, Out
<1>2. CASE ClientPump
  <2>1. CASE ClientWriteOK
    <3>1. HasRoom /\ PutStdin(line) /\ line \in Line /\ UNCHANGED <<st, pending, pp, pid, timer, target>>
      BY <2>1 DEF ClientWriteOK, PutStdin, Typed, TypeOK
    <3>2. \A g \in Gens : Probing(g) => Probing(g)'
      BY <3>1, PutStdinPipes DEF Probing
    <3> QED
      BY <3>1, <3>2, PendingKept DEF Running
  <2>2. CASE ~ClientWriteOK
    BY <1>1, <1>2, <2>2 DEF ClientPump, ReadClientLine, ClientPumpReturns, MaybeCaptureInit,
       HandleStatusToolCall, ReplyInnerUnavailable, RouteToInner, ClientWriteErr, ClientWriteBlocks
  <2> QED
    BY <2>1, <2>2
<1>3. CASE InnerPump
  <2>1. CASE ForwardInnerLine
    <3>1. UNCHANGED <<st, pp, pid, timer, target>> /\ pending' \in {pending, NoProbe}
      BY <2>1 DEF ForwardInnerLine
    <3>2. \A g \in Gens : Probing(g) => pending' = NoProbe \/ Probing(g)'
      BY <2>1, ForwardPipes DEF Probing
    <3> QED
      BY <3>1, <3>2, PendingKept DEF Running
  <2>2. CASE AttemptOK \/ DegradedRespawnOK
    <3>1. RespawnOK /\ UNCHANGED <<cp, line, nread, dest, replies, leaked, target, pending, pp, pid, timer>>
      BY <2>2 DEF AttemptOK, DegradedRespawnOK
    <3>2. \A g \in Gens : st[g] # "none" => In(g)' = In(g) /\ Out(g)' = Out(g) /\ st'[g] = st[g]
      BY <3>1, RespawnPipes
    <3>3. \A g \in Gens : (\E p \in Probes : target[p] = g) => st[g] # "none"
      BY DEF Pipes, Started, Gens
    <3> QED
      BY <3>1, <3>2, <3>3, PendingKept DEF Running, Probing
  <2>3. CASE AttemptFails \/ DegradedRespawnFails
    <3>1. RespawnFails /\ UNCHANGED <<stdin, stdout, target, pending, pp, pid, timer>>
      BY <2>3 DEF AttemptFails, DegradedRespawnFails, RespawnFails
    <3>2. \A g \in Gens : Running(g)' => Running(g)
      BY <3>1 DEF RespawnFails, Running, Typed, TypeOK
    <3> QED
      BY <3>1, <3>2, PendingKept DEF Probing, In, Out
  <2>4. CASE TripBreaker
    BY <2>4, ShutdownKeeps, PendingKept DEF TripBreaker
  <2>5. CASE \/ InnerPumpReturns \/ ReadInnerPtr \/ InnerExited \/ StartAttempt \/ RetryDelay \/ GiveUp
             \/ RecordRestart \/ DegradedReturns \/ DegradedTick \/ Recover
    BY <1>1, <2>5 DEF InnerPumpReturns, ReadInnerPtr, InnerExited, StartAttempt, RetryDelay, GiveUp,
       RecordRestart, DegradedReturns, DegradedTick, Recover
  <2> QED
    BY <1>3, <2>1, <2>2, <2>3, <2>4, <2>5 DEF InnerPump
<1>4. CASE ProbeLoop
  <2>1. ASSUME NEW p \in Probes, SendProbe(p) PROVE Pending'
    BY <2>1 DEF SendProbe, Pending, Running, Probing, In, Out
  <2>2. CASE ProbeWriteOK
    <3> DEFINE l == Msg("probe", 0)
    <3>1. l \in Line /\ l.k = "probe"
      BY ConstantsAssumption DEF Msg, Line, Kinds
    <3>2. /\ HasRoom /\ PutStdin(l) /\ target' = [target EXCEPT ![pid] = inner] /\ pp' = "arm"
          /\ UNCHANGED <<st, pending, pid, timer, inner>> /\ pp \in {"write", "blocked"}
      BY <2>2 DEF ProbeWriteOK, ProbeHasRLock, PutStdin
    <3> HIDE DEF l
    <3>3. pid \in Probes /\ target \in [Probes -> 0 .. MaxSpawns] /\ timer[pid] = "off"
      BY <3>2 DEF Typed, TypeOK, Pending
    <3>4. inner \in Gens /\ Probing(inner)' /\ \A g \in Gens : Probing(g) => Probing(g)'
      BY <3>1, <3>2, PutStdinPipes DEF Probing
    <3>5. \A q \in Probes : target'[q] = IF q = pid THEN inner ELSE target[q]
      BY <3>2, <3>3
    <3>6. \A q \in Probes : q # pid /\ Running(target[q]) => target[q] \in Gens
      BY DEF Running
    <3>7. ASSUME NEW q \in Probes, pending = q, timer[q] = "armed" \/ pid = q, Running(target[q])'
          PROVE  Probing(target[q])'
      <4>1. target'[q] \in Gens /\ Running(target'[q])
        BY <3>2, <3>7 DEF Running
      <4>2. Probing(target'[q]) \/ target'[q] = inner
        BY <3>3, <3>5, <3>7, <4>1 DEF Pending
      <4>3. \A g \in Gens : g = target'[q] => (Probing(target[q])' <=> Probing(g)')
        BY DEF Probing, In, Out
      <4> QED
        BY <3>2, <3>4, <4>1, <4>2, <4>3
    <3> QED
      BY <3>2, <3>3, <3>7 DEF Pending
  <2>3. CASE ProbeWriteErr
    BY <2>3, NoProbeAssumption DEF ProbeWriteErr, Pending, Running, Probing, In, Out
  <2>4. CASE ProbeWriteBlocks
    BY <2>4 DEF ProbeWriteBlocks, Pending, Running, Probing, In, Out
  <2>5. CASE ArmTimer
    BY <2>5 DEF ArmTimer, Pending, Running, Probing, In, Out, Typed, TypeOK
  <2>6. CASE ProbeLoopReturns
    BY <2>6 DEF ProbeLoopReturns, Pending, Running, Probing, In, Out
  <2>7. ASSUME NEW p \in Probes, TimerFires(p) PROVE Pending'
    BY <2>7, NoProbeAssumption DEF TimerFires, Pending, Running, Probing, In, Out, Typed, TypeOK
  <2>8. ASSUME NEW p \in Probes, KillInner(p) PROVE Pending'
    <3>1. /\ timer[p] = "kill" /\ timer' = [timer EXCEPT ![p] = "off"] /\ target' = [target EXCEPT ![p] = 0]
          /\ UNCHANGED <<stdout, pending, pp, pid>>
          /\ timer \in [Probes -> {"off", "armed", "kill"}] /\ target \in [Probes -> 0 .. MaxSpawns]
      BY <2>8 DEF KillInner, Typed, TypeOK
    <3>2. \A g \in Gens : Running(g)' => Running(g) /\ (Probing(g) => Probing(g)')
      <4>1. CASE inner = 0
        BY <2>8, <4>1 DEF KillInner, Running, Probing, In, Out
      <4>2. CASE inner # 0
        <5>1. inner \in Gens /\ Dies(inner)
          BY <2>8, <4>2, ConstantsAssumption DEF KillInner, Typed, TypeOK, Gens
        <5> QED
          BY <3>1, <5>1, DiesKeeps
      <4> QED
        BY <4>1, <4>2
    <3>3. \A q \in Probes : q # p => target'[q] = target[q] /\ timer'[q] = timer[q]
      BY <3>1
    <3>4. timer'[p] = "off" /\ target'[p] = 0 /\ 0 \notin Gens
      BY <3>1 DEF Gens
    <3>5. \A q \in Probes : Running(target[q])' => target'[q] \in Gens /\ q # p
      BY <3>4 DEF Running
    <3>6. ASSUME NEW q \in Probes, pending = q, timer'[q] = "armed" \/ (pp = "arm" /\ pid = q),
                 Running(target[q])'
          PROVE  Probing(target[q])'
      <4>1. target[q] \in Gens /\ target'[q] = target[q] /\ timer'[q] = timer[q]
        BY <3>3, <3>5, <3>6
      <4>2. \A g \in Gens : g = target'[q] => /\ Running(target[q])' <=> Running(g)'
                                             /\ Probing(target[q])' <=> Probing(g)'
        BY DEF Probing, In, Out, Running
      <4>3. Running(target[q]) /\ Probing(target[q])
        BY <3>2, <3>6, <4>1, <4>2 DEF Pending
      <4> QED
        BY <3>2, <3>6, <4>1, <4>2, <4>3
    <3> QED
      BY <3>1, <3>3, <3>4, <3>6 DEF Pending
  <2> QED
    BY <1>4, <2>1, <2>2, <2>3, <2>4, <2>5, <2>6, <2>7, <2>8 DEF ProbeLoop
<1>5. CASE RunLoop
  BY <1>1, <1>5, ShutdownKeeps, PendingKept DEF RunLoop, RunSelect, RunShutdownInner, RunDrainsClient, RunDrainsInner
<1>6. CASE Environment
  <2>1. ASSUME NEW g \in Gens, InnerHandles(g) PROVE Pending'
    <3>1. UNCHANGED <<st, pending, pp, pid, timer, target>>
      BY <2>1 DEF InnerHandles
    <3>2. \A h \in Gens : Probing(h) => Probing(h)'
      BY <2>1, HandlesPipes DEF Probing
    <3> QED
      BY <3>1, <3>2, PendingKept DEF Running
  <2>2. ASSUME NEW g \in Gens, InnerHangs(g) PROVE Pending'
    <3>1. \A h \in Gens : Running(h)' => Running(h)
      BY <2>2 DEF InnerHangs, Running, Typed, TypeOK
    <3> QED
      BY <2>2, <3>1, PendingKept DEF InnerHangs, Probing, In, Out
  <2>3. ASSUME NEW g \in Gens, InnerExits(g) PROVE Pending'
    BY <2>3, DiesKeeps, PendingKept DEF InnerExits
  <2>4. CASE HostCancels
    BY <1>1, <2>4 DEF HostCancels
  <2> QED
    BY <1>6, <2>1, <2>2, <2>3, <2>4 DEF Environment
<1>7. CASE UNCHANGED vars
  BY <1>1, <1>7 DEF vars
<1> QED
  BY <1>2, <1>3, <1>4, <1>5, <1>6, <1>7 DEF Next, Finished

-----------------------------------------------------------------------------
\* The invariant of the pipes and of the pending probe.
LEMMA AlwaysPipes == Spec => [](Pipes /\ Pending)
<1>1. Init => Pipes /\ Pending
  <2> SUFFICES ASSUME Init PROVE Pipes /\ Pending
    OBVIOUS
  <2>1. \A g \in Gens : stdin[g] = <<>> /\ stdout[g] = <<>> /\ st[g] = IF g = 1 THEN "up" ELSE "none"
    BY DEF Init
  <2>2. \A g \in Gens : In(g) = {} /\ Out(g) = {} /\ Distinct(stdin[g]) /\ Distinct(stdout[g])
    BY <2>1, EmptyQueue DEF In, Out
  <2>3. 1 \in Gens
    BY ConstantsAssumption DEF Gens
  <2>4. Started
    BY <2>1, <2>2, <2>3 DEF Init, Started, Gens
  <2>5. Sentinels /\ OnePlace /\ Kept /\ ClientProtocol
    BY <2>2 DEF Init, Sentinels, OnePlace, Kept, ClientProtocol
  <2>6. HeldLine
    BY DEF Init, HeldLine, NoLine, Msg
  <2>7. Pending
    BY NoProbeAssumption DEF Init, Pending
  <2> QED
    BY <2>4, <2>5, <2>6, <2>7 DEF Pipes
<1> QED
  BY <1>1, StepPipes, StepPending, AlwaysTyped, PTL DEF Spec

\* However inners crash, hang and are replaced, and whether they or the
\* supervisor itself answer, no id of the client is answered twice and no
\* sentinel is forwarded.
THEOREM SessionIsUnbroken == Spec => []ClientProtocol
<1>1. Pipes => ClientProtocol
  BY DEF Pipes
<1> QED
  BY <1>1, AlwaysPipes, PTL

\* A line that was written to an inner is answered, or is on its way, as long
\* as that inner lives.
THEOREM LostOnlyWithInner == Spec => []NoLossByLiveInner
<1>1. Pipes => NoLossByLiveInner
  <2> SUFFICES ASSUME Pipes, NEW i \in Ids, dest[i] # 0, Running(dest[i]),
                      NEW l \in In(dest[i]) \cup Out(dest[i]), l.id = i
               PROVE  InFlight(i, dest[i])
    BY DEF Pipes, Kept, NoLossByLiveInner
  <2> QED
    BY DEF InFlight, In, Out, Lines
<1> QED
  BY <1>1, AlwaysPipes, PTL

\* When the timeout of a probe succeeds against a running inner, the pump has
\* read no answer of that inner.
THEOREM TimeoutMeansUnanswered == Spec => []KillsOnlyUnanswered
<1>1. Typed /\ Pipes /\ Pending => KillsOnlyUnanswered
  <2> SUFFICES ASSUME Typed, Pending, NEW p \in Probes,
                      timer[p] = "armed", pending = p, Running(target[p])
               PROVE  LET q == stdin[target[p]] \o stdout[target[p]]
                      IN  \E n \in 1 .. Len(q) : IsProbeResponse(q[n])
    BY DEF KillsOnlyUnanswered
  <2> DEFINE a == stdin[target[p]]
             b == stdout[target[p]]
  <2>1. a \in Seq(Line) /\ b \in Seq(Line)
    BY DEF Running, Typed, TypeOK
  <2>2. \/ \E n \in 1 .. Len(a) : a[n].k = "probe"
        \/ \E n \in 1 .. Len(b) : b[n].k = "probe"
    BY DEF Pending, Probing, In, Out, Lines
  <2> HIDE DEF a, b
  <2>3. ASSUME NEW n \in 1 .. Len(a) PROVE n \in 1 .. Len(a \o b) /\ (a \o b)[n] = a[n]
    BY <2>1
  <2>4. ASSUME NEW n \in 1 .. Len(b) PROVE n + Len(a) \in 1 .. Len(a \o b) /\ (a \o b)[n + Len(a)] = b[n]
    BY <2>1
  <2>5. \E n \in 1 .. Len(a \o b) : (a \o b)[n].k = "probe"
    BY <2>2, <2>3, <2>4
  <2> QED
    BY <2>5 DEF a, b, IsProbeResponse
<1> QED
  BY <1>1, AlwaysPipes, AlwaysTyped, PTL
=============================================================================
