---------------------------- MODULE SessionLedger ----------------------------
(***************************************************************************)
(* The session counters and the per-call events of the server              *)
(* (internal/server/server.go) and the rows they are persisted in          *)
(* (internal/db/db.go), under the supervisor: every respawned process gets *)
(* the same PINCHER_SESSION_ID and takes over the sessions row.            *)
(*                                                                         *)
(* Tool calls are answered concurrently; each adds to atomics one after    *)
(* the other.  flushSession runs on the ticker and, in goroutines of their *)
(* own, on the first call, for the stats tool and when the HTTP listener   *)
(* is bound: it loads the atomics one by one, writes the row, then drains  *)
(* the event buffer.  Of the counters that are loaded one after the other  *)
(* two are kept: the first (calls) and one that follows (tokens_used, one  *)
(* token per call).  A call is identified by its place in the order of     *)
(* all calls ever counted.                                                 *)
(***************************************************************************)
EXTENDS Naturals, FiniteSets, Sequences, SequencesExt

CONSTANTS
    Callers,    \* goroutines that answer tool calls
    Flushers,   \* goroutines in flushSession; one of them is Ticker
    Ticker,     \* the one StartSessionFlusher runs
    Cap,        \* toolCallEventCap
    MaxCalls,   \* bound: calls counted
    MaxLives,   \* bound: processes the supervisor starts
    MaxFaults   \* bound: failing statements

ASSUME SessionAssumption ==
    /\ Ticker \in Flushers
    /\ {Cap, MaxCalls, MaxLives, MaxFaults} \subseteq Nat

Ids   == 1 .. MaxCalls
NoRow == [calls |-> 0, used |-> 0]

VARIABLES
    up, connected, http,    \* the process runs; onInit ran; HTTP is bound
    calls, used,            \* statsCalls, statsTokensUsed
    buffer,                 \* toolCallEvents
    cpc, cid, first,        \* cpc[c]: next step of a call; cid[c]: its identity;
                            \* first: the callers whose AddInt64 returned 1
    fpc, snap, batch,       \* fpc[f]: next step of a flush; what it has loaded
    row, stored,            \* the sessions row; stored[i]: how many rows of
                            \* session_tool_calls call i has
    counted, gone,          \* history: calls counted; those without an event:
                            \* dropped and reported, or dead with a process
    lives, faults,
    restored, overtaken     \* history: this process took over the row;
                            \* another flush has written since f loaded

mem     == <<connected, http, calls, used>>
caller  == <<cpc, cid, first>>
flusher == <<fpc, snap, batch>>
disk    == <<row, stored>>
past    == <<counted, gone, lives, restored>>
vars    == <<up, mem, buffer, caller, flusher, disk, past, faults, overtaken>>

Init ==
    /\ up = FALSE /\ connected = FALSE /\ http = FALSE
    /\ calls = 0 /\ used = 0 /\ buffer = <<>>
    /\ cpc = [c \in Callers |-> "idle"] /\ cid = [c \in Callers |-> 0] /\ first = {}
    /\ fpc = [f \in Flushers |-> "idle"] /\ snap = [f \in Flushers |-> NoRow]
    /\ batch = [f \in Flushers |-> <<>>]
    /\ row = NoRow /\ stored = [i \in Ids |-> 0]
    /\ counted = 0 /\ gone = {} /\ lives = 0 /\ faults = 0
    /\ restored = FALSE /\ overtaken = {}

-----------------------------------------------------------------------------
(* The life of a process *)

\* A process that does not look at the row.
StartBlank ==
    /\ ~up /\ lives < MaxLives
    /\ up' = TRUE /\ lives' = lives + 1
    /\ calls' = 0 /\ used' = 0 /\ restored' = TRUE
    /\ UNCHANGED <<connected, http, buffer, caller, flusher, disk, counted, gone, faults, overtaken>>

\* New: the counters are seeded from the row; when the read fails they stay
\* at zero.
Start ==
    /\ ~up /\ lives < MaxLives
    /\ up' = TRUE /\ lives' = lives + 1
    /\ \/ /\ calls' = row.calls /\ used' = row.used
          /\ restored' = TRUE /\ UNCHANGED faults
       \/ /\ faults < MaxFaults /\ faults' = faults + 1
          /\ calls' = 0 /\ used' = 0 /\ restored' = FALSE
    /\ UNCHANGED <<connected, http, buffer, caller, flusher, disk, counted, gone, overtaken>>

\* onInit: the client's (or the supervisor's replayed) initialized.
Connect ==
    /\ up /\ ~connected
    /\ connected' = TRUE
    /\ UNCHANGED <<up, http, calls, used, buffer, caller, flusher, disk, past, faults, overtaken>>

\* go s.flushSession(), in one of the goroutines the bound Flushers leaves.
SpawnFlush ==
    LET spare == {f \in Flushers \ {Ticker} : fpc[f] = "idle"}
    IN  IF spare = {} THEN UNCHANGED fpc
        ELSE \E f \in spare : fpc' = [fpc EXCEPT ![f] = "load"]

\* ListenAndServeHTTP binds, and flushes at once.
BindHTTP ==
    /\ up /\ ~http
    /\ http' = TRUE
    /\ SpawnFlush
    /\ UNCHANGED <<up, connected, calls, used, buffer, caller, snap, batch, disk, past, faults, overtaken>>

\* The process ends: a crash, a kill by the supervisor, the exit of
\* checkAutoRestart or of the schema drift watcher, or the return of main,
\* which does not wait for the flusher's last flush.
Die ==
    /\ up
    /\ up' = FALSE /\ connected' = FALSE /\ http' = FALSE
    /\ calls' = 0 /\ used' = 0 /\ buffer' = <<>>
    /\ cpc' = [c \in Callers |-> "idle"] /\ cid' = [c \in Callers |-> 0] /\ first' = {}
    /\ fpc' = [f \in Flushers |-> "idle"] /\ snap' = [f \in Flushers |-> NoRow]
    /\ batch' = [f \in Flushers |-> <<>>]
    /\ overtaken' = {}
    /\ gone' = gone \cup ToSet(buffer) \cup (UNION {ToSet(batch[f]) : f \in Flushers})
                    \cup {cid[c] : c \in {d \in Callers : cpc[d] # "idle"}}
    /\ UNCHANGED <<disk, counted, lives, faults, restored>>

-----------------------------------------------------------------------------
(* jsonResultWithMeta, textResultWithMeta: the end of a tool call *)

\* AddInt64(&statsCalls, 1), for a call over MCP or over HTTP; a nested call of
\* batch does not count.
CountCall(c) ==
    /\ connected \/ http
    /\ cpc[c] = "idle" /\ counted < MaxCalls
    /\ calls' = calls + 1
    /\ counted' = counted + 1
    /\ cpc' = [cpc EXCEPT ![c] = "tokens"] /\ cid' = [cid EXCEPT ![c] = counted + 1]
    /\ first' = IF calls = 0 THEN first \cup {c} ELSE first
    /\ UNCHANGED <<up, connected, http, used, buffer, flusher, disk, gone, lives, faults, restored, overtaken>>

CountTokens(c) ==
    /\ cpc[c] = "tokens"
    /\ used' = used + 1
    /\ cpc' = [cpc EXCEPT ![c] = "event"]
    /\ UNCHANGED <<up, connected, http, calls, buffer, cid, first, flusher, disk, past, faults, overtaken>>

\* The call is over; the first one flushes at once.
EndCall(c) ==
    /\ cpc' = [cpc EXCEPT ![c] = "idle"] /\ cid' = [cid EXCEPT ![c] = 0]
    /\ first' = first \ {c}
    /\ IF c \in first THEN SpawnFlush ELSE UNCHANGED fpc

\* recordToolCallEvent, under toolCallEventsMu: a full buffer drops the event.
RecordEvent(c) ==
    /\ cpc[c] = "event"
    /\ \/ Len(buffer) >= Cap /\ gone' = gone \cup {cid[c]} /\ UNCHANGED buffer
       \/ Len(buffer) < Cap /\ buffer' = Append(buffer, cid[c]) /\ UNCHANGED gone
    /\ EndCall(c)
    /\ UNCHANGED <<up, mem, snap, batch, disk, counted, lives, faults, restored, overtaken>>

\* A tool with a text result records no event.
SkipEvent(c) ==
    /\ cpc[c] = "event"
    /\ gone' = gone \cup {cid[c]}
    /\ EndCall(c)
    /\ UNCHANGED <<up, mem, buffer, snap, batch, disk, counted, lives, faults, restored, overtaken>>

-----------------------------------------------------------------------------
(* flushSession *)

\* The ticker fires; the stats tool flushes before it answers.
StartFlush(f) ==
    /\ up /\ fpc[f] = "idle"
    /\ fpc' = [fpc EXCEPT ![f] = "load"]
    /\ UNCHANGED <<up, mem, buffer, caller, snap, batch, disk, past, faults, overtaken>>

\* The gate lets a session of one call wait for the next.
LoadCallsLate(f) ==
    /\ fpc[f] = "load"
    /\ \/ /\ connected /\ calls > 1
          /\ snap' = [snap EXCEPT ![f].calls = calls]
          /\ fpc' = [fpc EXCEPT ![f] = "loadused"]
       \/ /\ ~(connected /\ calls > 1)
          /\ fpc' = [fpc EXCEPT ![f] = "idle"] /\ UNCHANGED snap
    /\ UNCHANGED <<up, mem, buffer, caller, batch, disk, past, faults, overtaken>>

\* The gates, then LoadInt64(&statsCalls).
LoadCalls(f) ==
    /\ fpc[f] = "load"
    /\ \/ /\ http \/ (connected /\ calls > 0)
          /\ snap' = [snap EXCEPT ![f].calls = calls]
          /\ fpc' = [fpc EXCEPT ![f] = "loadused"]
       \/ /\ ~http /\ ~(connected /\ calls > 0)
          /\ fpc' = [fpc EXCEPT ![f] = "idle"] /\ UNCHANGED snap
    /\ UNCHANGED <<up, mem, buffer, caller, batch, disk, past, faults, overtaken>>

LoadUsed(f) ==
    /\ fpc[f] = "loadused"
    /\ snap' = [snap EXCEPT ![f].used = used]
    /\ fpc' = [fpc EXCEPT ![f] = "write"]
    /\ UNCHANGED <<up, mem, buffer, caller, batch, disk, past, faults, overtaken>>

\* The flushes that have loaded a counter and not yet written.
Loading == {f \in Flushers : fpc[f] \in {"loadused", "write"}}

\* The statement adds to the row instead of replacing it.
WriteRowAdds(f) ==
    /\ fpc[f] = "write"
    /\ row' = [calls |-> row.calls + snap[f].calls, used |-> row.used + snap[f].used]
    /\ overtaken' = Loading \ {f}
    /\ fpc' = [fpc EXCEPT ![f] = "drain"] /\ snap' = [snap EXCEPT ![f] = NoRow]
    /\ UNCHANGED <<up, mem, buffer, caller, batch, stored, past, faults>>

\* RecordSessionWithMetrics: INSERT OR REPLACE.  A locked database ends the
\* flush before the drain, another error does not.
WriteRow(f) ==
    /\ fpc[f] = "write"
    /\ \/ /\ row' = snap[f] /\ overtaken' = Loading \ {f}
          /\ fpc' = [fpc EXCEPT ![f] = "drain"] /\ UNCHANGED faults
       \/ /\ faults < MaxFaults /\ faults' = faults + 1
          /\ fpc' = [fpc EXCEPT ![f] = "idle"] /\ overtaken' = overtaken \ {f} /\ UNCHANGED row
       \/ /\ faults < MaxFaults /\ faults' = faults + 1
          /\ fpc' = [fpc EXCEPT ![f] = "drain"] /\ overtaken' = overtaken \ {f} /\ UNCHANGED row
    /\ snap' = [snap EXCEPT ![f] = NoRow]
    /\ UNCHANGED <<up, mem, buffer, caller, batch, stored, past>>

\* The buffer is emptied only after the rows are written.
TakeBatchShared(f) ==
    /\ fpc[f] = "drain"
    /\ batch' = [batch EXCEPT ![f] = buffer] /\ UNCHANGED buffer
    /\ fpc' = [fpc EXCEPT ![f] = IF buffer = <<>> THEN "idle" ELSE "record"]
    /\ UNCHANGED <<up, mem, caller, snap, disk, past, faults, overtaken>>

\* drainToolCallEvents, under the mutex.
TakeBatch(f) ==
    /\ fpc[f] = "drain"
    /\ batch' = [batch EXCEPT ![f] = buffer] /\ buffer' = <<>>
    /\ fpc' = [fpc EXCEPT ![f] = IF buffer = <<>> THEN "idle" ELSE "record"]
    /\ UNCHANGED <<up, mem, caller, snap, disk, past, faults, overtaken>>

\* requeueToolCallEvents: the oldest of the batch that fit go back in front.
Requeue(b) == SubSeq(b, 1, IF Len(b) > Cap - Len(buffer) THEN Cap - Len(buffer) ELSE Len(b)) \o buffer

\* RecordToolCalls, one transaction (the deferred Rollback undoes a failing
\* one), outside the mutex.
RecordBatch(f) ==
    /\ fpc[f] = "record"
    /\ \/ stored' = [i \in Ids |-> stored[i] + IF i \in ToSet(batch[f]) THEN 1 ELSE 0] /\ UNCHANGED <<buffer, gone, faults>>
       \/ /\ faults < MaxFaults /\ faults' = faults + 1
          /\ buffer' = Requeue(batch[f])
          /\ gone' = gone \cup (ToSet(batch[f]) \ ToSet(buffer'))
          /\ UNCHANGED stored
       \/ /\ faults < MaxFaults /\ faults' = faults + 1
          /\ gone' = gone \cup ToSet(batch[f])
          /\ UNCHANGED <<buffer, stored>>
    /\ batch' = [batch EXCEPT ![f] = <<>>]
    /\ fpc' = [fpc EXCEPT ![f] = "idle"]
    /\ UNCHANGED <<up, mem, caller, snap, row, counted, lives, restored, overtaken>>

Flush(f) == LoadCalls(f) \/ LoadUsed(f) \/ WriteRow(f) \/ TakeBatch(f) \/ RecordBatch(f)
Call(c)  == CountTokens(c) \/ RecordEvent(c) \/ SkipEvent(c)

Next ==
    \/ Start \/ Connect \/ BindHTTP \/ Die
    \/ \E c \in Callers : CountCall(c) \/ Call(c)
    \/ \E f \in Flushers : StartFlush(f) \/ Flush(f)
    \/ ~up /\ lives = MaxLives /\ UNCHANGED vars

Spec == Init /\ [][Next]_vars

\* The ticker fires again and again and its flush goes on; nothing is assumed
\* of the other goroutines.
FairSpec == Spec /\ WF_vars(StartFlush(Ticker)) /\ WF_vars(Flush(Ticker))

-----------------------------------------------------------------------------

\* No call is counted twice: across respawns that seed the counters from the
\* row, concurrent flushes and failed reads, neither the counters nor the row
\* exceed the calls that were made.
NeverOvercounts == {calls, used, row.calls, row.used} \subseteq 0 .. counted

\* How many of the places an event can be in hold that of call i.
Held(i) ==
    stored[i] + Cardinality({n \in DOMAIN buffer : buffer[n] = i})
        + Cardinality({f \in Flushers : i \in ToSet(batch[f])})
        + Cardinality({c \in Callers : cid[c] = i})
        + IF i \in gone THEN 1 ELSE 0

\* Every call counted is in exactly one place: in flight, buffered, in the
\* batch of one flush, stored, reported as dropped, or dead with its process.
\* No interleaving of producers, drains and failed drains stores an event
\* twice or loses one silently, and the buffer keeps to its cap, also when a
\* failed batch is put back while callers append.
EventsAccounted ==
    /\ \A i \in Ids : Held(i) = IF i <= counted THEN 1 ELSE 0
    /\ Len(buffer) <= Cap

\* The row goes back only when a flush that loaded its counters earlier was
\* overtaken by another one, or when a process could not read the row it was
\* to continue: a flush on its own, in a process that took over the row, never
\* loses calls that were persisted.
RowRegressesOnlyWhenOvertaken ==
    [][row'.calls < row.calls =>
           ~restored \/ \E f \in Flushers : fpc[f] = "write" /\ f \in overtaken]_vars

\* Counting stops, the process stays: the row ends up with what was counted,
\* though an overtaken flush may set it back for a while.
CountsPersist ==
    <>[](up /\ connected /\ calls > 0 /\ \A c \in Callers : cpc[c] = "idle")
        => <>[](row = [calls |-> calls, used |-> used])
=============================================================================
