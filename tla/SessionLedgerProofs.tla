------------------------- MODULE SessionLedgerProofs -------------------------
(***************************************************************************)
(* The safety of SessionLedger for any number of callers and flushes, any  *)
(* buffer cap, and any number of calls, processes and failing statements.  *)
(***************************************************************************)
EXTENDS SessionLedger, FiniteSetTheorems, TLAPS

-----------------------------------------------------------------------------
(* The event buffer *)

\* No event is in a sequence twice.
Once(s) == \A m, n \in DOMAIN s : s[m] = s[n] => m = n

\* An append adds one event, and keeps to the cap when there is room.
LEMMA AppendEvent ==
    ASSUME NEW s \in Seq(Ids), NEW i \in Ids
    PROVE  /\ Append(s, i) \in Seq(Ids) /\ Len(Append(s, i)) = Len(s) + 1
           /\ ToSet(Append(s, i)) = ToSet(s) \cup {i}
           /\ Once(s) /\ i \notin ToSet(s) => Once(Append(s, i))
<1>1. Append(s, i) \in Seq(Ids) /\ Len(Append(s, i)) = Len(s) + 1
  OBVIOUS
<1>2. \A n \in 1 .. Len(s) : Append(s, i)[n] = s[n]
  OBVIOUS
<1>3. Append(s, i)[Len(s) + 1] = i
  OBVIOUS
<1>4. DOMAIN s = 1 .. Len(s) /\ DOMAIN Append(s, i) = 1 .. Len(s) + 1 /\ Len(s) \in Nat
  OBVIOUS
<1> HIDE DEF Ids
<1>5. ToSet(Append(s, i)) = ToSet(s) \cup {i}
  <2>1. ToSet(Append(s, i)) \subseteq ToSet(s) \cup {i}
    BY <1>2, <1>3, <1>4 DEF ToSet
  <2>2. ToSet(s) \subseteq ToSet(Append(s, i))
    BY <1>2, <1>4 DEF ToSet
  <2>3. i \in ToSet(Append(s, i))
    BY <1>3, <1>4 DEF ToSet
  <2> QED
    BY <2>1, <2>2, <2>3
<1>6. ASSUME Once(s), i \notin ToSet(s) PROVE Once(Append(s, i))
  BY <1>2, <1>3, <1>4, <1>6 DEF Once, ToSet
<1> QED
  BY <1>1, <1>5, <1>6

\* What goes back in front of the buffer is part of the batch; nothing that
\* was appended meanwhile is pushed out, and the cap holds.
LEMMA RequeueEvents ==
    ASSUME NEW b \in Seq(Ids), buffer \in Seq(Ids), Len(buffer) <= Cap
    PROVE  /\ Requeue(b) \in Seq(Ids) /\ Len(Requeue(b)) <= Cap
           /\ ToSet(buffer) \subseteq ToSet(Requeue(b))
           /\ ToSet(Requeue(b)) \subseteq ToSet(b) \cup ToSet(buffer)
           /\ Once(b) /\ Once(buffer) /\ ToSet(b) \cap ToSet(buffer) = {} => Once(Requeue(b))
<1> DEFINE k == IF Len(b) > Cap - Len(buffer) THEN Cap - Len(buffer) ELSE Len(b)
           front == SubSeq(b, 1, k)
<1>1. k \in 0 .. Len(b) /\ k + Len(buffer) <= Cap /\ Len(buffer) \in Nat /\ Len(b) \in Nat
  BY SessionAssumption
<1>2. Requeue(b) = front \o buffer
  BY DEF Requeue
<1> HIDE DEF k
<1>3. front \in Seq(Ids) /\ Len(front) = k /\ \A n \in 1 .. k : front[n] = b[n]
  BY <1>1
<1> HIDE DEF front
<1>4. /\ Requeue(b) \in Seq(Ids) /\ Len(Requeue(b)) = k + Len(buffer)
      /\ \A n \in 1 .. k : Requeue(b)[n] = b[n]
      /\ \A n \in k + 1 .. k + Len(buffer) : Requeue(b)[n] = buffer[n - k]
  <2>1. front \o buffer \in Seq(Ids) /\ Len(front \o buffer) = k + Len(buffer)
    BY <1>3, SMTT(40)
  <2>2. ASSUME NEW n \in 1 .. k PROVE (front \o buffer)[n] = b[n]
    BY <1>1, <1>3
  <2>3. ASSUME NEW n \in k + 1 .. k + Len(buffer) PROVE (front \o buffer)[n] = buffer[n - k]
    BY <1>1, <1>3
  <2> QED
    BY <1>2, <2>1, <2>2, <2>3
<1>5. /\ DOMAIN Requeue(b) = 1 .. k + Len(buffer)
      /\ DOMAIN b = 1 .. Len(b) /\ DOMAIN buffer = 1 .. Len(buffer)
  BY <1>4
<1>6. ToSet(buffer) \subseteq ToSet(Requeue(b))
  <2> SUFFICES ASSUME NEW n \in 1 .. Len(buffer) PROVE buffer[n] \in ToSet(Requeue(b))
    BY <1>5 DEF ToSet
  <2>1. n + k \in k + 1 .. k + Len(buffer) /\ (n + k) - k = n /\ n + k \in 1 .. k + Len(buffer)
    BY <1>1
  <2>2. Requeue(b)[n + k] = buffer[n]
    BY <1>4, <2>1
  <2> QED
    BY <1>5, <2>1, <2>2 DEF ToSet
<1>7. ToSet(Requeue(b)) \subseteq ToSet(b) \cup ToSet(buffer)
  <2> SUFFICES ASSUME NEW n \in 1 .. k + Len(buffer) PROVE Requeue(b)[n] \in ToSet(b) \cup ToSet(buffer)
    BY <1>5 DEF ToSet
  <2>1. CASE n <= k
    BY <1>1, <1>4, <1>5, <2>1 DEF ToSet
  <2>2. CASE n > k
    <3>1. n \in k + 1 .. k + Len(buffer) /\ n - k \in 1 .. Len(buffer)
      BY <1>1, <2>2
    <3> QED
      BY <1>4, <1>5, <3>1 DEF ToSet
  <2> QED
    BY <1>1, <2>1, <2>2
<1>8. ASSUME Once(b), Once(buffer), ToSet(b) \cap ToSet(buffer) = {} PROVE Once(Requeue(b))
  <2> SUFFICES ASSUME NEW m \in 1 .. k + Len(buffer), NEW n \in 1 .. k + Len(buffer),
                      Requeue(b)[m] = Requeue(b)[n]
               PROVE  m = n
    BY <1>5 DEF Once
  <2>1. \A j \in 1 .. Len(b), l \in 1 .. Len(buffer) : b[j] # buffer[l]
    BY <1>5, <1>8 DEF ToSet
  <2>2. \A j, l \in 1 .. Len(b) : b[j] = b[l] => j = l
    BY <1>5, <1>8 DEF Once
  <2>3. \A j, l \in 1 .. Len(buffer) : buffer[j] = buffer[l] => j = l
    BY <1>5, <1>8 DEF Once
  <2>4. \A j \in 1 .. k + Len(buffer) :
            \/ j \in 1 .. Len(b) /\ Requeue(b)[j] = b[j]
            \/ j - k \in 1 .. Len(buffer) /\ Requeue(b)[j] = buffer[j - k]
    <3> SUFFICES ASSUME NEW j \in 1 .. k + Len(buffer), ~(j \in 1 .. Len(b) /\ Requeue(b)[j] = b[j])
                 PROVE  j - k \in 1 .. Len(buffer) /\ Requeue(b)[j] = buffer[j - k]
      OBVIOUS
    <3>1. j \in k + 1 .. k + Len(buffer) /\ j - k \in 1 .. Len(buffer)
      BY <1>1, <1>4
    <3> QED
      BY <1>4, <3>1
  <2>5. m - k = n - k => m = n
    BY <1>1
  <2> QED
    BY <2>1, <2>2, <2>3, <2>4, <2>5
<1> QED
  BY <1>1, <1>4, <1>6, <1>7, <1>8

-----------------------------------------------------------------------------
(* Types, and a process that is down *)

Counters == [calls : Nat, used : Nat]
FlushSteps == {"idle", "load", "loadused", "write", "drain", "record"}

CountersOK ==
    /\ calls \in Nat /\ used \in Nat /\ counted \in 0 .. MaxCalls
    /\ row \in Counters /\ snap \in [Flushers -> Counters]

\* The next step of every goroutine; none is left when the process is down.
StepsOK ==
    /\ cpc \in [Callers -> {"idle", "tokens", "event"}]
    /\ fpc \in [Flushers -> FlushSteps]
    /\ ~up => /\ ~connected /\ ~http
              /\ \A c \in Callers : cpc[c] = "idle"
              /\ \A f \in Flushers : fpc[f] = "idle"

EventsOK ==
    /\ buffer \in Seq(Ids) /\ Len(buffer) <= Cap /\ batch \in [Flushers -> Seq(Ids)]
    /\ cid \in [Callers -> 0 .. MaxCalls] /\ \A c \in Callers : cid[c] = 0 <=> cpc[c] = "idle"
    /\ stored \in [Ids -> Nat] /\ gone \subseteq Ids

Typed == CountersOK /\ StepsOK /\ EventsOK

\* A goroutine is started only where one is idle.
LEMMA SpawnFlushStep ==
    ASSUME StepsOK, SpawnFlush
    PROVE  /\ fpc' \in [Flushers -> FlushSteps]
           /\ \A f \in Flushers : fpc'[f] = fpc[f] \/ (fpc[f] = "idle" /\ fpc'[f] = "load")
<1> DEFINE spare == {f \in Flushers \ {Ticker} : fpc[f] = "idle"}
<1>1. CASE spare = {}
  BY <1>1 DEF StepsOK, SpawnFlush
<1>2. CASE spare # {}
  <2>1. PICK f \in spare : fpc' = [fpc EXCEPT ![f] = "load"]
    BY <1>2 DEF SpawnFlush
  <2> QED
    BY <2>1 DEF StepsOK, FlushSteps
<1> QED
  BY <1>1, <1>2

\* So it is at the end of a call.
LEMMA EndCallStep ==
    ASSUME StepsOK, NEW c \in Callers, EndCall(c)
    PROVE  /\ fpc' \in [Flushers -> FlushSteps]
           /\ \A f \in Flushers : fpc'[f] = fpc[f] \/ (fpc[f] = "idle" /\ fpc'[f] = "load")
<1>1. SpawnFlush \/ UNCHANGED fpc
  BY DEF EndCall
<1>2. CASE UNCHANGED fpc
  BY <1>2 DEF StepsOK
<1> QED
  BY <1>1, <1>2, SpawnFlushStep

\* No process has run yet, and the row does not exist.
LEMMA TypedInit == Init => Typed
<1> SUFFICES ASSUME Init PROVE Typed
  OBVIOUS
<1> USE SessionAssumption DEF Init
<1>1. CountersOK
  BY DEF CountersOK, Counters, NoRow
<1>2. StepsOK
  BY DEF StepsOK, FlushSteps
<1>3. EventsOK
  BY DEF EventsOK, Ids
<1> QED
  BY <1>1, <1>2, <1>3 DEF Typed

\* The counters and what is kept of them.
LEMMA CountersStep ==
    ASSUME CountersOK, [Next]_vars
    PROVE  CountersOK'
<1> USE SessionAssumption DEF CountersOK, Counters, NoRow, mem, caller, flusher, disk, past
<1>1. CASE Start
  BY <1>1 DEF Start
<1>2. CASE Connect
  BY <1>2 DEF Connect
<1>3. CASE BindHTTP
  BY <1>3 DEF BindHTTP
<1>4. CASE Die
  BY <1>4 DEF Die
<1>5. ASSUME NEW c \in Callers, CountCall(c) PROVE CountersOK'
  BY <1>5 DEF CountCall
<1>6. ASSUME NEW c \in Callers, CountTokens(c) PROVE CountersOK'
  BY <1>6 DEF CountTokens
<1>7. ASSUME NEW c \in Callers, RecordEvent(c) PROVE CountersOK'
  BY <1>7 DEF RecordEvent
<1>8. ASSUME NEW c \in Callers, SkipEvent(c) PROVE CountersOK'
  BY <1>8 DEF SkipEvent
<1>9. ASSUME NEW f \in Flushers, StartFlush(f) PROVE CountersOK'
  BY <1>9 DEF StartFlush
<1>10. ASSUME NEW f \in Flushers, LoadCalls(f) PROVE CountersOK'
  BY <1>10 DEF LoadCalls
<1>11. ASSUME NEW f \in Flushers, LoadUsed(f) PROVE CountersOK'
  BY <1>11 DEF LoadUsed
<1>12. ASSUME NEW f \in Flushers, WriteRow(f) PROVE CountersOK'
  BY <1>12 DEF WriteRow
<1>13. ASSUME NEW f \in Flushers, TakeBatch(f) PROVE CountersOK'
  BY <1>13 DEF TakeBatch
<1>14. ASSUME NEW f \in Flushers, RecordBatch(f) PROVE CountersOK'
  BY <1>14 DEF RecordBatch
<1>15. CASE UNCHANGED vars
  BY <1>15 DEF vars
<1> HIDE DEF CountersOK
<1> QED
  BY <1>1, <1>2, <1>3, <1>4, <1>5, <1>6, <1>7, <1>8, <1>9, <1>10, <1>11, <1>12, <1>13,
     <1>14, <1>15 DEF Next, Call, Flush

\* Goroutines are started and end; all of them end with their process.
LEMMA StepsStep ==
    ASSUME StepsOK, [Next]_vars
    PROVE  StepsOK'
<1> USE DEF StepsOK, FlushSteps, mem, caller, flusher, disk, past
<1>1. CASE Start
  BY <1>1 DEF Start
<1>2. CASE Connect
  BY <1>2 DEF Connect
<1>3. CASE BindHTTP
  BY <1>3, SpawnFlushStep DEF BindHTTP
<1>4. CASE Die
  BY <1>4 DEF Die
<1>5. ASSUME NEW c \in Callers, CountCall(c) PROVE StepsOK'
  BY <1>5 DEF CountCall
<1>6. ASSUME NEW c \in Callers, CountTokens(c) PROVE StepsOK'
  BY <1>6 DEF CountTokens
<1>7. ASSUME NEW c \in Callers, RecordEvent(c) PROVE StepsOK'
  BY <1>7, EndCallStep DEF RecordEvent, EndCall
<1>8. ASSUME NEW c \in Callers, SkipEvent(c) PROVE StepsOK'
  BY <1>8, EndCallStep DEF SkipEvent, EndCall
<1>9. ASSUME NEW f \in Flushers, StartFlush(f) PROVE StepsOK'
  BY <1>9 DEF StartFlush
<1>10. ASSUME NEW f \in Flushers, LoadCalls(f) PROVE StepsOK'
  BY <1>10 DEF LoadCalls
<1>11. ASSUME NEW f \in Flushers, LoadUsed(f) PROVE StepsOK'
  BY <1>11 DEF LoadUsed
<1>12. ASSUME NEW f \in Flushers, WriteRow(f) PROVE StepsOK'
  BY <1>12 DEF WriteRow
<1>13. ASSUME NEW f \in Flushers, TakeBatch(f) PROVE StepsOK'
  BY <1>13 DEF TakeBatch
<1>14. ASSUME NEW f \in Flushers, RecordBatch(f) PROVE StepsOK'
  BY <1>14 DEF RecordBatch
<1>15. CASE UNCHANGED vars
  BY <1>15 DEF vars
<1> HIDE DEF StepsOK
<1> QED
  BY <1>1, <1>2, <1>3, <1>4, <1>5, <1>6, <1>7, <1>8, <1>9, <1>10, <1>11, <1>12, <1>13,
     <1>14, <1>15 DEF Next, Call, Flush

\* Only the ids of calls that were counted enter the buffer and the batches.
LEMMA EventsStep ==
    ASSUME Typed, [Next]_vars
    PROVE  EventsOK'
<1> USE SessionAssumption DEF EventsOK, StepsOK, Typed, mem, caller, flusher, disk, past
<1>1. CASE Start
  BY <1>1 DEF Start
<1>2. CASE Connect
  BY <1>2 DEF Connect
<1>3. CASE BindHTTP
  BY <1>3 DEF BindHTTP
<1>4. CASE Die
  <2>1. ToSet(buffer) \subseteq Ids
    BY DEF ToSet
  <2>2. \A f \in Flushers : ToSet(batch[f]) \subseteq Ids
    BY DEF ToSet
  <2>3. \A c \in Callers : cpc[c] # "idle" => cid[c] \in Ids
    BY DEF Ids
  <2>4. UNION {ToSet(batch[f]) : f \in Flushers} \subseteq Ids
    BY <2>2
  <2>5. {cid[c] : c \in {d \in Callers : cpc[d] # "idle"}} \subseteq Ids
    BY <2>3
  <2>6. gone' = gone \cup ToSet(buffer) \cup (UNION {ToSet(batch[f]) : f \in Flushers})
                     \cup {cid[c] : c \in {d \in Callers : cpc[d] # "idle"}}
    BY <1>4 DEF Die
  <2>7. gone' \subseteq Ids
    BY <2>1, <2>4, <2>5, <2>6
  <2> QED
    BY <1>4, <2>7 DEF Die
<1>5. ASSUME NEW c \in Callers, CountCall(c) PROVE EventsOK'
  BY <1>5 DEF CountCall, CountersOK, Ids
<1>6. ASSUME NEW c \in Callers, CountTokens(c) PROVE EventsOK'
  BY <1>6 DEF CountTokens
<1>7. ASSUME NEW c \in Callers, RecordEvent(c) PROVE EventsOK'
  <2>1. cid[c] \in Ids
    BY <1>7 DEF RecordEvent, Ids
  <2>2. cpc' = [cpc EXCEPT ![c] = "idle"] /\ cid' = [cid EXCEPT ![c] = 0] /\ UNCHANGED <<batch, stored>>
    BY <1>7 DEF RecordEvent, EndCall
  <2>3. buffer' \in Seq(Ids) /\ Len(buffer') <= Cap
    <3>1. CASE UNCHANGED buffer
      BY <3>1
    <3>2. CASE Len(buffer) < Cap /\ buffer' = Append(buffer, cid[c])
      BY <2>1, <3>2
    <3> QED
      BY <1>7, <3>1, <3>2 DEF RecordEvent
  <2>4. gone' \subseteq Ids
    BY <1>7, <2>1 DEF RecordEvent
  <2> QED
    BY <2>2, <2>3, <2>4
<1>8. ASSUME NEW c \in Callers, SkipEvent(c) PROVE EventsOK'
  <2>1. cid[c] \in Ids
    BY <1>8 DEF SkipEvent, Ids
  <2> QED
    BY <1>8, <2>1 DEF SkipEvent, EndCall
<1>9. ASSUME NEW f \in Flushers, StartFlush(f) PROVE EventsOK'
  BY <1>9 DEF StartFlush
<1>10. ASSUME NEW f \in Flushers, LoadCalls(f) PROVE EventsOK'
  BY <1>10 DEF LoadCalls
<1>11. ASSUME NEW f \in Flushers, LoadUsed(f) PROVE EventsOK'
  BY <1>11 DEF LoadUsed
<1>12. ASSUME NEW f \in Flushers, WriteRow(f) PROVE EventsOK'
  BY <1>12 DEF WriteRow
<1>13. ASSUME NEW f \in Flushers, TakeBatch(f) PROVE EventsOK'
  BY <1>13 DEF TakeBatch
<1>14. ASSUME NEW f \in Flushers, RecordBatch(f) PROVE EventsOK'
  <2>1. ToSet(batch[f]) \subseteq Ids
    BY DEF ToSet
  <2>2. buffer' \in Seq(Ids) /\ Len(buffer') <= Cap
    BY <1>14, RequeueEvents DEF RecordBatch
  <2>3. stored' \in [Ids -> Nat]
    <3>1. CASE UNCHANGED stored
      BY <3>1
    <3>2. CASE stored' = [i \in Ids |-> stored[i] + IF i \in ToSet(batch[f]) THEN 1 ELSE 0]
      BY <3>2
    <3> QED
      BY <1>14, <3>1, <3>2 DEF RecordBatch
  <2>4. gone' \subseteq Ids
    BY <1>14, <2>1 DEF RecordBatch
  <2>5. batch' \in [Flushers -> Seq(Ids)] /\ UNCHANGED <<cid, cpc>>
    BY <1>14 DEF RecordBatch
  <2> QED
    BY <2>2, <2>3, <2>4, <2>5
<1>15. CASE UNCHANGED vars
  BY <1>15 DEF vars
<1> HIDE DEF EventsOK, Typed
<1> QED
  BY <1>1, <1>2, <1>3, <1>4, <1>5, <1>6, <1>7, <1>8, <1>9, <1>10, <1>11, <1>12, <1>13,
     <1>14, <1>15 DEF Next, Call, Flush

\* The types, kept by every step.
LEMMA TypedStep ==
    ASSUME Typed, [Next]_vars
    PROVE  Typed'
  BY CountersStep, StepsStep, EventsStep DEF Typed

-----------------------------------------------------------------------------
(* Counting *)

\* The calls that are counted and whose tokens are not.
Owing == {c \in Callers : cpc[c] = "tokens"}

\* The tokens lag behind the calls by those that are owed; what a flush has
\* loaded and what it wrote is not ahead either.  Hence a process that takes
\* over the row, with no call in progress, does not start ahead.
Counts ==
    /\ IsFiniteSet(Owing)
    /\ calls <= counted /\ used + Cardinality(Owing) <= counted
    /\ row.calls <= counted /\ row.used <= counted
    /\ \A f \in Flushers : snap[f].calls <= counted /\ snap[f].used <= counted

\* Nothing is counted at first.
LEMMA CountsInit == Init => Counts
<1> SUFFICES ASSUME Init PROVE Counts
  OBVIOUS
<1>1. Owing = {}
  BY DEF Init, Owing
<1> QED
  BY <1>1, FS_EmptySet DEF Init, Counts, NoRow

\* A call adds itself and owes its tokens; paying them moves nothing ahead.
LEMMA CountsStep ==
    ASSUME Typed, Counts, [Next]_vars
    PROVE  Counts'
<1> USE DEF Counts, Typed, CountersOK, StepsOK, Counters, NoRow, mem, caller, flusher, disk, past
<1>1. CASE Start
  <2>1. Owing = {} /\ Owing' = {}
    BY <1>1 DEF Start, Owing
  <2>2. Cardinality(Owing') = 0 /\ IsFiniteSet(Owing')
    BY <2>1, FS_EmptySet
  <2> QED
    BY <1>1, <2>2 DEF Start
<1>2. CASE Connect
  <2>1. Owing' = Owing
    BY <1>2 DEF Connect, Owing
  <2> QED
    BY <1>2, <2>1 DEF Connect
<1>3. CASE BindHTTP
  <2>1. Owing' = Owing
    BY <1>3 DEF BindHTTP, Owing
  <2> QED
    BY <1>3, <2>1 DEF BindHTTP
<1>4. CASE Die
  <2>1. Owing' = {}
    BY <1>4 DEF Die, Owing
  <2>2. Cardinality(Owing') = 0 /\ IsFiniteSet(Owing')
    BY <2>1, FS_EmptySet
  <2> QED
    BY <1>4, <2>2 DEF Die
<1>5. ASSUME NEW c \in Callers, CountCall(c) PROVE Counts'
  <2>1. Owing' = Owing \cup {c} /\ c \notin Owing
    BY <1>5 DEF CountCall, Owing
  <2>2. IsFiniteSet(Owing') /\ Cardinality(Owing') = Cardinality(Owing) + 1
    BY <2>1, FS_AddElement
  <2>3. Cardinality(Owing) \in Nat
    BY FS_CardinalityType
  <2> QED
    BY <1>5, <2>2, <2>3 DEF CountCall
<1>6. ASSUME NEW c \in Callers, CountTokens(c) PROVE Counts'
  <2>1. Owing' = Owing \ {c} /\ c \in Owing
    BY <1>6 DEF CountTokens, Owing
  <2>2. IsFiniteSet(Owing') /\ Cardinality(Owing') = Cardinality(Owing) - 1
    BY <2>1, FS_RemoveElement
  <2>3. Cardinality(Owing) \in Nat
    BY FS_CardinalityType
  <2> QED
    BY <1>6, <2>2, <2>3 DEF CountTokens
<1>7. ASSUME NEW c \in Callers, RecordEvent(c) PROVE Counts'
  <2>1. Owing' = Owing
    BY <1>7 DEF RecordEvent, EndCall, Owing
  <2> QED
    BY <1>7, <2>1 DEF RecordEvent, EndCall
<1>8. ASSUME NEW c \in Callers, SkipEvent(c) PROVE Counts'
  <2>1. Owing' = Owing
    BY <1>8 DEF SkipEvent, EndCall, Owing
  <2> QED
    BY <1>8, <2>1 DEF SkipEvent, EndCall
<1>9. ASSUME NEW f \in Flushers, StartFlush(f) PROVE Counts'
  <2>1. Owing' = Owing
    BY <1>9 DEF StartFlush, Owing
  <2> QED
    BY <1>9, <2>1 DEF StartFlush
<1>10. ASSUME NEW f \in Flushers, LoadCalls(f) PROVE Counts'
  <2>1. Owing' = Owing
    BY <1>10 DEF LoadCalls, Owing
  <2> QED
    BY <1>10, <2>1 DEF LoadCalls
<1>11. ASSUME NEW f \in Flushers, LoadUsed(f) PROVE Counts'
  <2>1. Owing' = Owing
    BY <1>11 DEF LoadUsed, Owing
  <2>2. used <= counted
    BY FS_CardinalityType
  <2> QED
    BY <1>11, <2>1, <2>2 DEF LoadUsed
<1>12. ASSUME NEW f \in Flushers, WriteRow(f) PROVE Counts'
  <2>1. Owing' = Owing
    BY <1>12 DEF WriteRow, Owing
  <2> QED
    BY <1>12, <2>1 DEF WriteRow
<1>13. ASSUME NEW f \in Flushers, TakeBatch(f) PROVE Counts'
  <2>1. Owing' = Owing
    BY <1>13 DEF TakeBatch, Owing
  <2> QED
    BY <1>13, <2>1 DEF TakeBatch
<1>14. ASSUME NEW f \in Flushers, RecordBatch(f) PROVE Counts'
  <2>1. Owing' = Owing
    BY <1>14 DEF RecordBatch, Owing
  <2> QED
    BY <1>14, <2>1 DEF RecordBatch
<1>15. CASE UNCHANGED vars
  <2>1. Owing' = Owing
    BY <1>15 DEF vars, Owing
  <2> QED
    BY <1>15, <2>1 DEF vars
<1> HIDE DEF Counts, Typed
<1> QED
  BY <1>1, <1>2, <1>3, <1>4, <1>5, <1>6, <1>7, <1>8, <1>9, <1>10, <1>11, <1>12, <1>13,
     <1>14, <1>15 DEF Next, Call, Flush

-----------------------------------------------------------------------------
(* The row of a process that took it over *)

\* The counters of the process are not behind the row, and neither is what a
\* flush has loaded, unless another flush wrote in between.
Ahead ==
    up /\ restored =>
        /\ row.calls <= calls
        /\ \A f \in Loading : snap[f].calls <= calls
        /\ \A f \in Loading \ overtaken : row.calls <= snap[f].calls

\* Counters only grow while a process runs, so that only a write behind
\* another one takes the row back.
LEMMA AheadStep ==
    ASSUME Typed, Ahead, [Next]_vars
    PROVE  Ahead'
<1> USE DEF Ahead, Loading, Typed, CountersOK, StepsOK, Counters, NoRow, mem, caller, flusher, disk, past
<1>1. CASE Start
  BY <1>1 DEF Start
<1>2. CASE Connect
  BY <1>2 DEF Connect
<1>3. CASE BindHTTP
  BY <1>3, SpawnFlushStep DEF BindHTTP
<1>4. CASE Die
  BY <1>4 DEF Die
<1>5. ASSUME NEW c \in Callers, CountCall(c) PROVE Ahead'
  BY <1>5 DEF CountCall
<1>6. ASSUME NEW c \in Callers, CountTokens(c) PROVE Ahead'
  BY <1>6 DEF CountTokens
<1>7. ASSUME NEW c \in Callers, RecordEvent(c) PROVE Ahead'
  BY <1>7, EndCallStep DEF RecordEvent
<1>8. ASSUME NEW c \in Callers, SkipEvent(c) PROVE Ahead'
  BY <1>8, EndCallStep DEF SkipEvent
<1>9. ASSUME NEW f \in Flushers, StartFlush(f) PROVE Ahead'
  BY <1>9 DEF StartFlush
<1>10. ASSUME NEW f \in Flushers, LoadCalls(f) PROVE Ahead'
  BY <1>10 DEF LoadCalls
<1>11. ASSUME NEW f \in Flushers, LoadUsed(f) PROVE Ahead'
  BY <1>11 DEF LoadUsed
<1>12. ASSUME NEW f \in Flushers, WriteRow(f) PROVE Ahead'
  <2>1. Loading' = Loading \ {f} /\ f \in Loading /\ \A g \in Loading' : snap'[g] = snap[g]
    BY <1>12 DEF WriteRow
  <2>2. CASE row' = snap[f] /\ overtaken' = Loading \ {f}
    <3>1. up /\ UNCHANGED <<up, restored, calls>>
      BY <1>12 DEF WriteRow
    <3> HIDE DEF Loading
    <3> QED
      BY <2>1, <2>2, <3>1
  <2>3. CASE row' = row /\ overtaken' = overtaken \ {f}
    BY <1>12, <2>1, <2>3 DEF WriteRow
  <2> QED
    BY <1>12, <2>2, <2>3 DEF WriteRow
<1>13. ASSUME NEW f \in Flushers, TakeBatch(f) PROVE Ahead'
  BY <1>13 DEF TakeBatch
<1>14. ASSUME NEW f \in Flushers, RecordBatch(f) PROVE Ahead'
  BY <1>14 DEF RecordBatch
<1>15. CASE UNCHANGED vars
  BY <1>15 DEF vars
<1> HIDE DEF Ahead, Typed
<1> QED
  BY <1>1, <1>2, <1>3, <1>4, <1>5, <1>6, <1>7, <1>8, <1>9, <1>10, <1>11, <1>12, <1>13,
     <1>14, <1>15 DEF Next, Call, Flush

-----------------------------------------------------------------------------
(* The places of an event *)

InBuffer(i) == i \in ToSet(buffer)
InBatch(i)  == \E f \in Flushers : i \in ToSet(batch[f])
InCall(i)   == \E c \in Callers : cid[c] = i

\* No place holds an event twice, and only a flush that is about to record has
\* a batch.
Unique ==
    /\ Once(buffer) /\ \A f \in Flushers : Once(batch[f])
    /\ \A f \in Flushers : fpc[f] # "record" => batch[f] = <<>>
    /\ \A f, g \in Flushers : f # g => ToSet(batch[f]) \cap ToSet(batch[g]) = {}
    /\ \A c, d \in Callers : cid[c] = cid[d] /\ cid[c] # 0 => c = d

\* No two places hold the same event, and the calls counted are those that
\* have a place.
Placed ==
    \A i \in Ids :
        /\ stored[i] <= 1
        /\ InCall(i)   => ~InBuffer(i) /\ ~InBatch(i) /\ stored[i] = 0 /\ i \notin gone
        /\ InBuffer(i) => ~InBatch(i) /\ stored[i] = 0 /\ i \notin gone
        /\ InBatch(i)  => stored[i] = 0 /\ i \notin gone
        /\ stored[i] = 1 => i \notin gone
        /\ i <= counted <=> (InCall(i) \/ InBuffer(i) \/ InBatch(i) \/ stored[i] = 1 \/ i \in gone)

Accounted == Unique /\ Placed

\* An empty sequence holds no event.
LEMMA EmptyHolds == ToSet(<<>>) = {} /\ Once(<<>>)
  BY DEF ToSet, Once

\* At first no call is counted and no place holds one.
LEMMA AccountedInit == Init => Accounted
<1> SUFFICES ASSUME Init PROVE Accounted
  OBVIOUS
<1>1. Unique
  BY EmptyHolds DEF Init, Unique
<1>2. \A i \in Ids : ~InCall(i) /\ ~InBuffer(i) /\ ~InBatch(i)
  BY EmptyHolds DEF Init, InCall, InBuffer, InBatch, Ids
<1>3. \A i \in Ids : i > counted /\ stored[i] = 0 /\ i \notin gone
  BY SessionAssumption DEF Init, Ids
<1>4. counted = 0
  BY DEF Init
<1> QED
  BY <1>1, <1>2, <1>3, <1>4 DEF Accounted, Placed, Ids

\* The end of a call that is in flight: its place becomes free.
LEMMA EndCallPlaces ==
    ASSUME Typed, Accounted, NEW c \in Callers, cpc[c] = "event", EndCall(c)
    PROVE  /\ cid[c] \in Ids /\ InCall(cid[c])
           /\ \A i \in Ids : InCall(i)' <=> InCall(i) /\ i # cid[c]
           /\ \A d, e \in Callers : cid'[d] = cid'[e] /\ cid'[d] # 0 => d = e
           /\ \A f \in Flushers : fpc'[f] # "record" => fpc[f] # "record"
<1>1. cid[c] \in Ids
  BY DEF Typed, EventsOK, Ids
<1>2. cid' = [cid EXCEPT ![c] = 0] /\ cid \in [Callers -> 0 .. MaxCalls]
  BY DEF EndCall, Typed, EventsOK
<1>3. \A i \in Ids : InCall(i)' <=> InCall(i) /\ i # cid[c]
  BY <1>1, <1>2 DEF InCall, Accounted, Unique, Ids
<1>4. \A f \in Flushers : fpc'[f] # "record" => fpc[f] # "record"
  BY EndCallStep DEF Typed
<1> QED
  BY <1>1, <1>2, <1>3, <1>4 DEF InCall, Accounted, Unique

\* Every move of an event takes it from one place to one other.
LEMMA AccountedStep ==
    ASSUME Typed, Accounted, [Next]_vars
    PROVE  Accounted'
<1> DEFINE Rest == UNCHANGED <<buffer, batch, cid, stored, gone, counted>>
<1> USE DEF mem, caller, flusher, disk, past
<1>1. ASSUME Rest, \A f \in Flushers : fpc'[f] # "record" => fpc[f] # "record" PROVE Accounted'
  BY <1>1 DEF Accounted, Unique, Placed, InCall, InBuffer, InBatch
<1>2. CASE Start \/ Connect \/ UNCHANGED vars
  BY <1>1, <1>2 DEF Start, Connect, vars
<1>3. CASE BindHTTP
  BY <1>1, <1>3, SpawnFlushStep DEF BindHTTP, Typed
<1>4. ASSUME NEW c \in Callers, CountTokens(c) PROVE Accounted'
  BY <1>1, <1>4 DEF CountTokens
<1>5. ASSUME NEW f \in Flushers, StartFlush(f) \/ LoadCalls(f) \/ LoadUsed(f) \/ WriteRow(f)
      PROVE  Accounted'
  <2>1. Rest
    BY <1>5 DEF StartFlush, LoadCalls, LoadUsed, WriteRow
  <2>2. \A g \in Flushers : fpc'[g] # "record" => fpc[g] # "record"
    BY <1>5 DEF StartFlush, LoadCalls, LoadUsed, WriteRow, Typed, StepsOK
  <2> QED
    BY <1>1, <2>1, <2>2
<1>6. CASE Die
  <2>1. \A i \in Ids : ~InCall(i)' /\ ~InBuffer(i)' /\ ~InBatch(i)'
    BY <1>6, EmptyHolds DEF Die, InCall, InBuffer, InBatch, Ids
  <2>2. \A i \in Ids : i \in gone' <=> i \in gone \/ InBuffer(i) \/ InBatch(i) \/ InCall(i)
    <3>1. gone' = gone \cup ToSet(buffer) \cup (UNION {ToSet(batch[f]) : f \in Flushers})
                       \cup {cid[c] : c \in {d \in Callers : cpc[d] # "idle"}}
      BY <1>6 DEF Die
    <3>2. \A i \in Ids : InCall(i) <=> i \in {cid[c] : c \in {d \in Callers : cpc[d] # "idle"}}
      BY DEF InCall, Typed, EventsOK, Ids
    <3> QED
      BY <3>1, <3>2 DEF InBuffer, InBatch
  <2>3. Unique'
    BY <1>6, EmptyHolds DEF Die, Unique
  <2>4. UNCHANGED <<stored, counted>>
    BY <1>6 DEF Die
  <2> QED
    BY <2>1, <2>2, <2>3, <2>4 DEF Accounted, Placed
<1>7. ASSUME NEW c \in Callers, CountCall(c) PROVE Accounted'
  <2>1. counted + 1 \in Ids /\ counted' = counted + 1 /\ UNCHANGED <<buffer, batch, stored, gone, fpc>>
    BY <1>7, SessionAssumption DEF CountCall, Typed, CountersOK, Ids
  <2>2. cid' = [cid EXCEPT ![c] = counted + 1] /\ cid[c] = 0 /\ cid \in [Callers -> 0 .. MaxCalls]
    BY <1>7 DEF CountCall, Typed, EventsOK
  <2>3. \A i \in Ids : InCall(i)' <=> InCall(i) \/ i = counted + 1
    BY <2>2 DEF InCall, Ids
  <2>4. \A i \in Ids : (InBuffer(i)' <=> InBuffer(i)) /\ (InBatch(i)' <=> InBatch(i))
    BY <2>1 DEF InBuffer, InBatch
  <2>5. ~InCall(counted + 1)
    BY <2>1 DEF Accounted, Placed, Typed, CountersOK
  <2>6. Unique'
    BY <2>1, <2>2, <2>5 DEF Unique, Accounted, InCall
  <2> QED
    <3>1. counted \in Nat /\ \A i \in Ids : i \in Nat
      BY DEF Typed, CountersOK, Ids
    <3>2. \A i \in Ids : i <= counted' <=> i <= counted \/ i = counted + 1
      BY <2>1, <3>1
    <3>3. ~(counted + 1 <= counted)
      BY <3>1
    <3> QED
      <4>1. ASSUME NEW i \in Ids, i = counted + 1
            PROVE  ~InBuffer(i) /\ ~InBatch(i) /\ stored[i] = 0 /\ i \notin gone
        BY <3>3, <4>1 DEF Accounted, Placed, Typed, EventsOK
      <4>2. Placed'
        BY <2>1, <2>3, <2>4, <3>2, <4>1 DEF Accounted, Placed
      <4> QED
        BY <2>6, <4>2 DEF Accounted
<1>8. ASSUME NEW c \in Callers, RecordEvent(c) PROVE Accounted'
  <2> DEFINE e == cid[c]
  <2>1. /\ e \in Ids /\ InCall(e)
        /\ \A i \in Ids : InCall(i)' <=> InCall(i) /\ i # e
        /\ \A d, g \in Callers : cid'[d] = cid'[g] /\ cid'[d] # 0 => d = g
        /\ \A f \in Flushers : fpc'[f] # "record" => fpc[f] # "record"
    BY <1>8, EndCallPlaces DEF RecordEvent
  <2>2. UNCHANGED <<batch, stored, counted>> /\ \A i \in Ids : InBatch(i)' <=> InBatch(i)
    BY <1>8 DEF RecordEvent, InBatch
  <2> HIDE DEF e
  <2>3. CASE UNCHANGED buffer /\ gone' = gone \cup {e}
    <3>1. Unique'
      BY <2>1, <2>2, <2>3 DEF Accounted, Unique
    <3>2. \A i \in Ids : InBuffer(i)' <=> InBuffer(i)
      BY <2>3 DEF InBuffer
    <3> QED
      BY <2>1, <2>2, <2>3, <3>1, <3>2 DEF Accounted, Placed
  <2>4. CASE buffer' = Append(buffer, e) /\ UNCHANGED gone
    <3>1. ~InBuffer(e)
      BY <2>1 DEF Accounted, Placed
    <3>2. \A i \in Ids : InBuffer(i)' <=> InBuffer(i) \/ i = e
      BY <2>1, <2>4, AppendEvent DEF InBuffer, Typed, EventsOK
    <3>3. Once(buffer')
      BY <2>1, <2>4, <3>1, AppendEvent DEF InBuffer, Typed, EventsOK, Accounted, Unique
    <3>4. Unique'
      BY <2>1, <2>2, <3>3 DEF Accounted, Unique
    <3> QED
      BY <2>1, <2>2, <2>4, <3>2, <3>4 DEF Accounted, Placed
  <2> QED
    BY <1>8, <2>3, <2>4 DEF RecordEvent, e
<1>9. ASSUME NEW c \in Callers, SkipEvent(c) PROVE Accounted'
  <2> DEFINE e == cid[c]
  <2>1. /\ e \in Ids /\ InCall(e)
        /\ \A i \in Ids : InCall(i)' <=> InCall(i) /\ i # e
        /\ \A d, g \in Callers : cid'[d] = cid'[g] /\ cid'[d] # 0 => d = g
        /\ \A f \in Flushers : fpc'[f] # "record" => fpc[f] # "record"
    BY <1>9, EndCallPlaces DEF SkipEvent
  <2>2. UNCHANGED <<buffer, batch, stored, counted>> /\ gone' = gone \cup {e}
    BY <1>9 DEF SkipEvent
  <2> HIDE DEF e
  <2>3. \A i \in Ids : (InBuffer(i)' <=> InBuffer(i)) /\ (InBatch(i)' <=> InBatch(i))
    BY <2>2 DEF InBuffer, InBatch
  <2>4. Unique'
    BY <2>1, <2>2 DEF Accounted, Unique
  <2> QED
    BY <2>1, <2>2, <2>3, <2>4 DEF Accounted, Placed
<1>10. ASSUME NEW f \in Flushers, TakeBatch(f) PROVE Accounted'
  <2>1. /\ batch \in [Flushers -> Seq(Ids)] /\ batch[f] = <<>> /\ fpc \in [Flushers -> FlushSteps]
        /\ batch' = [batch EXCEPT ![f] = buffer] /\ buffer' = <<>>
        /\ UNCHANGED <<cid, stored, gone, counted>>
    BY <1>10 DEF TakeBatch, Typed, EventsOK, StepsOK, Accounted, Unique
  <2>2. \A i \in Ids : (InBatch(i)' <=> InBatch(i) \/ InBuffer(i)) /\ ~InBuffer(i)'
    BY <2>1, EmptyHolds DEF InBatch, InBuffer
  <2>3. \A i \in Ids : InCall(i)' <=> InCall(i)
    BY <2>1 DEF InCall
  <2>4. Unique'
    <3>1. \A g \in Flushers : g # f => batch'[g] = batch[g] /\ ToSet(batch[g]) \cap ToSet(buffer) = {}
      <4>1. ToSet(buffer) \subseteq Ids
        BY DEF Typed, EventsOK, ToSet
      <4> QED
        BY <2>1, <4>1 DEF Accounted, Placed, InBatch, InBuffer
    <3>2. batch'[f] = buffer
      BY <2>1
    <3>3. \A g \in Flushers : fpc'[g] # "record" => batch'[g] = <<>>
      BY <1>10, <2>1, <3>1, <3>2 DEF TakeBatch, Accounted, Unique
    <3> QED
      BY <2>1, <3>1, <3>2, <3>3, EmptyHolds DEF Accounted, Unique
  <2> QED
    BY <2>1, <2>2, <2>3, <2>4 DEF Accounted, Placed
<1>11. ASSUME NEW f \in Flushers, RecordBatch(f) PROVE Accounted'
  <2> DEFINE b == ToSet(batch[f])
  <2>1. /\ batch \in [Flushers -> Seq(Ids)] /\ fpc \in [Flushers -> FlushSteps]
        /\ batch' = [batch EXCEPT ![f] = <<>>] /\ fpc' = [fpc EXCEPT ![f] = "idle"]
        /\ UNCHANGED <<cid, counted>>
    BY <1>11 DEF RecordBatch, Typed, EventsOK, StepsOK
  <2>2. \A i \in Ids : InBatch(i)' <=> InBatch(i) /\ i \notin b
    BY <2>1, EmptyHolds DEF InBatch, Accounted, Unique
  <2>3. \A i \in Ids : (InCall(i)' <=> InCall(i)) /\ (i \in b => InBatch(i))
    BY <2>1 DEF InCall, InBatch
  <2>4. ASSUME Once(buffer') PROVE Unique'
    BY <2>1, <2>4, EmptyHolds DEF Accounted, Unique
  <2>5. b \cap ToSet(buffer) = {}
    BY DEF Accounted, Placed, InBatch, InBuffer, Typed, EventsOK, ToSet
  <2> HIDE DEF b
  <2>6. CASE stored' = [i \in Ids |-> stored[i] + IF i \in b THEN 1 ELSE 0] /\ UNCHANGED <<buffer, gone>>
    <3>1. \A i \in Ids : InBuffer(i)' <=> InBuffer(i)
      BY <2>6 DEF InBuffer
    <3>2. \A i \in Ids : stored'[i] = IF i \in b THEN 1 ELSE stored[i]
      BY <2>3, <2>6 DEF Accounted, Placed, Typed, EventsOK
    <3>3. Unique'
      BY <2>4, <2>6 DEF Accounted, Unique
    <3> QED
      BY <2>1, <2>2, <2>3, <2>6, <3>1, <3>2, <3>3 DEF Accounted, Placed
  <2>7. CASE gone' = gone \cup (b \ ToSet(buffer')) /\ buffer' = Requeue(batch[f]) /\ UNCHANGED stored
    <3>1. ToSet(buffer) \subseteq ToSet(buffer') /\ ToSet(buffer') \subseteq b \cup ToSet(buffer)
      BY <2>1, <2>7, RequeueEvents DEF b, Typed, EventsOK
    <3>2. Once(buffer')
      BY <2>1, <2>5, <2>7, RequeueEvents DEF b, Typed, EventsOK, Accounted, Unique
    <3>3. \A i \in Ids : /\ InBuffer(i) => InBuffer(i)'
                         /\ InBuffer(i)' => i \in b \/ InBuffer(i)
                         /\ i \in gone' <=> i \in gone \/ (i \in b /\ ~InBuffer(i)')
      BY <2>7, <3>1 DEF InBuffer
    <3> QED
      BY <2>1, <2>2, <2>3, <2>4, <2>7, <3>2, <3>3 DEF Accounted, Placed
  <2>8. CASE gone' = gone \cup b /\ UNCHANGED <<buffer, stored>>
    <3>1. \A i \in Ids : InBuffer(i)' <=> InBuffer(i)
      BY <2>8 DEF InBuffer
    <3>2. Unique'
      BY <2>4, <2>8 DEF Accounted, Unique
    <3> QED
      BY <2>1, <2>2, <2>3, <2>8, <3>1, <3>2 DEF Accounted, Placed
  <2> QED
    BY <1>11, <2>6, <2>7, <2>8 DEF RecordBatch, b
<1> QED
  BY <1>2, <1>3, <1>4, <1>5, <1>6, <1>7, <1>8, <1>9, <1>10, <1>11 DEF Next, Call, Flush

-----------------------------------------------------------------------------
\* The inductive invariant.
Inv == Typed /\ Counts /\ Ahead /\ Accounted

\* It holds in every state.
LEMMA Invariant == Spec => []Inv
<1>1. Init => Inv
  BY TypedInit, CountsInit, AccountedInit DEF Inv, Init, Ahead
<1>2. Inv /\ [Next]_vars => Inv'
  BY TypedStep, CountsStep, AheadStep, AccountedStep DEF Inv
<1> QED
  BY <1>1, <1>2, PTL DEF Spec

\* No interleaving of calls and flushes, no crash, takeover of the row or
\* failed read makes a counter or the row exceed the calls made.
THEOREM CountsAreSound == Spec => []NeverOvercounts
<1>1. Inv => NeverOvercounts
  <2> SUFFICES ASSUME Inv PROVE NeverOvercounts
    OBVIOUS
  <2>1. used <= counted
    BY FS_CardinalityType DEF Inv, Typed, CountersOK, Counts
  <2> QED
    BY <2>1 DEF Inv, Typed, CountersOK, Counters, Counts, NeverOvercounts
<1> QED
  BY <1>1, Invariant, PTL

\* A set without two distinct elements.
LEMMA AtMostOne ==
    ASSUME NEW S, \A x, y \in S : x = y
    PROVE  Cardinality(S) = IF S = {} THEN 0 ELSE 1
<1>1. CASE S = {}
  BY <1>1, FS_EmptySet
<1>2. CASE S # {}
  <2>1. PICK x \in S : S = {x}
    BY <1>2
  <2> QED
    BY <2>1, FS_Singleton
<1> QED
  BY <1>1, <1>2

\* Every call counted has exactly one place, at any number of callers, flushes,
\* drains that fail and processes; the buffer keeps to its cap.
THEOREM EventsAreAccounted == Spec => []EventsAccounted
<1>1. Inv => EventsAccounted
  <2> SUFFICES ASSUME Inv PROVE EventsAccounted
    OBVIOUS
  <2>1. ASSUME NEW i \in Ids PROVE Held(i) = IF i <= counted THEN 1 ELSE 0
    <3>1. Cardinality({n \in DOMAIN buffer : buffer[n] = i}) = IF InBuffer(i) THEN 1 ELSE 0
      <4>1. {n \in DOMAIN buffer : buffer[n] = i} = {} <=> ~InBuffer(i)
        BY DEF InBuffer, ToSet
      <4> QED
        BY <4>1, AtMostOne DEF Inv, Accounted, Unique, Once
    <3>2. Cardinality({f \in Flushers : i \in ToSet(batch[f])}) = IF InBatch(i) THEN 1 ELSE 0
      <4>1. {f \in Flushers : i \in ToSet(batch[f])} = {} <=> ~InBatch(i)
        BY DEF InBatch
      <4> QED
        BY <4>1, AtMostOne DEF Inv, Accounted, Unique
    <3>3. Cardinality({c \in Callers : cid[c] = i}) = IF InCall(i) THEN 1 ELSE 0
      <4>1. {c \in Callers : cid[c] = i} = {} <=> ~InCall(i)
        BY DEF InCall
      <4> QED
        BY <4>1, AtMostOne DEF Inv, Accounted, Unique, Ids
    <3>4. stored[i] \in {0, 1}
      BY DEF Inv, Typed, EventsOK, Accounted, Placed
    <3> QED
      BY <3>1, <3>2, <3>3, <3>4 DEF Held, Inv, Accounted, Placed
  <2> QED
    BY <2>1 DEF EventsAccounted, Inv, Typed, EventsOK
<1> QED
  BY <1>1, Invariant, PTL

\* The row goes back only behind another flush or after a failed takeover.
THEOREM RowRegression == Spec => RowRegressesOnlyWhenOvertaken
<1>1. Inv /\ [Next]_vars =>
          [row'.calls < row.calls =>
               ~restored \/ \E f \in Flushers : fpc[f] = "write" /\ f \in overtaken]_vars
  <2> SUFFICES ASSUME Inv, [Next]_vars, row'.calls < row.calls, restored
               PROVE  \E f \in Flushers : fpc[f] = "write" /\ f \in overtaken
    OBVIOUS
  <2>1. row \in Counters /\ row' # row
    BY DEF Inv, Typed, CountersOK, Counters
  <2>2. PICK f \in Flushers : WriteRow(f)
    BY <2>1 DEF Next, vars, mem, caller, flusher, disk, past, Start, Connect, BindHTTP, Die, CountCall, Call,
       CountTokens, RecordEvent, SkipEvent, StartFlush, Flush, LoadCalls, LoadUsed, TakeBatch, RecordBatch
  <2>3. row' = snap[f] /\ fpc[f] = "write" /\ up
    BY <2>1, <2>2 DEF WriteRow, Inv, Typed, StepsOK
  <2> QED
    BY <2>3 DEF Inv, Ahead, Loading, Typed, CountersOK, Counters
<1> QED
  BY <1>1, Invariant, PTL DEF Spec, RowRegressesOnlyWhenOvertaken
=============================================================================
