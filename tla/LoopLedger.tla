----------------------------- MODULE LoopLedger -----------------------------
(***************************************************************************)
(* The loop ledger: AppendLoopCheckpoint (internal/db/loop.go) as the      *)
(* actions start, checkpoint and handoff of the loop tool call it          *)
(* (internal/server/loop_tool.go, loop_handoff.go).                        *)
(*                                                                         *)
(* Sessions of one or of several processes share the table                 *)
(* loop_checkpoints.  A row gets its seq from a subselect of the INSERT,   *)
(* and the handler reads it back by rowid in a second statement; the table *)
(* has no UNIQUE constraint on (project, loop, seq).  The INSERT is        *)
(* retried while another process keeps the writer (retryBusy).             *)
(*                                                                         *)
(* Of a checkpoint's text a row keeps what the briefs look at: whether it  *)
(* is a hand-off and what it costs.  An entry is identified by the number  *)
(* of the call that asked for it.                                          *)
(***************************************************************************)
EXTENDS Naturals, FiniteSets

CONSTANTS
    Sessions,   \* calls of the loop tool that run concurrently
    Loops,      \* loop names of one project
    Costs,      \* token costs of an entry
    MaxCalls,   \* bound: calls of the tool
    MaxTries    \* bound: tries of retryBusy within its budget

ASSUME LedgerAssumption ==
    /\ Costs \subseteq Nat
    /\ MaxCalls \in Nat /\ MaxTries \in Nat \ {0}

Entries == [call : 1 .. MaxCalls, kind : {"checkpoint", "handoff"}, cost : Costs]

VARIABLES
    rows,     \* loop_checkpoints: records of id, loop, seq, entry
    lastId,   \* the AUTOINCREMENT counter
    pc,       \* pc[s]: the next statement of the call of s
    todo,     \* todo[s]: the arguments of the call, as a set of none or one
    rowid,    \* rowid[s]: LastInsertId
    tries,    \* tries[s]: tries of retryBusy so far
    reply,    \* reply[s]: the seq the last call of s was answered; 0: an error
    calls     \* calls made

vars == <<rows, lastId, pc, todo, rowid, tries, reply, calls>>

Init ==
    /\ rows = {} /\ lastId = 0 /\ calls = 0
    /\ pc = [s \in Sessions |-> "idle"] /\ todo = [s \in Sessions |-> {}]
    /\ rowid = [s \in Sessions |-> 0] /\ tries = [s \in Sessions |-> 0]
    /\ reply = [s \in Sessions |-> 0]

OfLoop(l) == {r \in rows : r.loop = l}
Seqs(l)   == {r.seq : r \in OfLoop(l)}

\* COUNT(*) + 1 of the project's rows, whatever their loop.
NextSeqOfProject(l) == Cardinality(rows) + 1

\* SELECT COALESCE(MAX(seq), 0) + 1 ... WHERE loop_name = l.
NextSeq(l) ==
    IF OfLoop(l) = {} THEN 1
    ELSE 1 + (CHOOSE m \in Seqs(l) : \A n \in Seqs(l) : n <= m)

\* The handler answers, with a seq or with an error.
Answer(s, n) ==
    /\ pc' = [pc EXCEPT ![s] = "idle"] /\ todo' = [todo EXCEPT ![s] = {}]
    /\ rowid' = [rowid EXCEPT ![s] = 0] /\ tries' = [tries EXCEPT ![s] = 0]
    /\ reply' = [reply EXCEPT ![s] = n]

\* handleLoop: start and checkpoint go to the INSERT, handoff first lists the
\* entries its manifest is composed from.
Call(s, l, k, c) ==
    /\ pc[s] = "idle" /\ calls < MaxCalls
    /\ calls' = calls + 1
    /\ todo' = [todo EXCEPT ![s] = {[loop |-> l, entry |-> [call |-> calls + 1, kind |-> k, cost |-> c]]}]
    /\ pc' = [pc EXCEPT ![s] = IF k = "handoff" THEN "list" ELSE "insert"]
    /\ reply' = [reply EXCEPT ![s] = 0]
    /\ UNCHANGED <<rows, lastId, rowid, tries>>

\* loopHandoff: a loop without checkpoints has nothing to hand off.
List(s) ==
    /\ pc[s] = "list"
    /\ \/ /\ \E t \in todo[s] : OfLoop(t.loop) # {}
          /\ pc' = [pc EXCEPT ![s] = "insert"]
          /\ UNCHANGED <<todo, rowid, tries, reply>>
       \/ (\E t \in todo[s] : OfLoop(t.loop) = {}) /\ Answer(s, 0)
    /\ UNCHANGED <<rows, lastId, calls>>

\* The INSERT, one transaction.
Insert(s) ==
    /\ pc[s] = "insert"
    /\ \E t \in todo[s] :
          rows' = rows \cup {[id |-> lastId + 1, loop |-> t.loop, seq |-> NextSeq(t.loop), entry |-> t.entry]}
    /\ lastId' = lastId + 1
    /\ rowid' = [rowid EXCEPT ![s] = lastId + 1]
    /\ pc' = [pc EXCEPT ![s] = "read"]
    /\ UNCHANGED <<todo, tries, reply, calls>>

\* retryBusy: the writer is held beyond busy_timeout; once the budget is
\* spent the call fails.
Busy(s) ==
    /\ pc[s] = "insert"
    /\ \/ /\ tries[s] + 1 < MaxTries
          /\ tries' = [tries EXCEPT ![s] = @ + 1]
          /\ UNCHANGED <<pc, todo, rowid, reply>>
       \/ tries[s] + 1 >= MaxTries /\ Answer(s, 0)
    /\ UNCHANGED <<rows, lastId, calls>>

\* The highest seq of the loop at the time of the answer.
ReadSeqLatest(s) ==
    /\ pc[s] = "read"
    /\ \E t \in todo[s] : Answer(s, NextSeq(t.loop) - 1)
    /\ UNCHANGED <<rows, lastId, calls>>

\* SELECT seq ... WHERE id = rowID.
ReadSeq(s) ==
    /\ pc[s] = "read"
    /\ \E r \in rows : r.id = rowid[s] /\ Answer(s, r.seq)
    /\ UNCHANGED <<rows, lastId, calls>>

\* A statement fails for another reason, or the process dies: the caller gets
\* an error, though the row may be there.
Fault(s) ==
    /\ pc[s] # "idle" /\ Answer(s, 0)
    /\ UNCHANGED <<rows, lastId, calls>>

Step(s) == List(s) \/ Insert(s) \/ Busy(s) \/ ReadSeq(s)

Next ==
    \/ \E s \in Sessions :
          \/ \E l \in Loops, k \in {"checkpoint", "handoff"}, c \in Costs : Call(s, l, k, c)
          \/ Step(s) \/ Fault(s)
    \/ calls = MaxCalls /\ (\A s \in Sessions : pc[s] = "idle") /\ UNCHANGED vars

Spec == Init /\ [][Next]_vars

-----------------------------------------------------------------------------
\* Every variable stays in its domain; ids are unique, and a call that waits
\* for its seq has its row.
TypeOK ==
    /\ rows \subseteq [id : Nat, loop : Loops, seq : Nat \ {0}, entry : Entries]
    /\ lastId \in Nat /\ calls \in 0 .. MaxCalls
    /\ \A r \in rows : r.id \in 1 .. lastId
    /\ \A q, r \in rows : q.id = r.id => q = r
    /\ pc \in [Sessions -> {"idle", "list", "insert", "read"}]
    /\ rowid \in [Sessions -> Nat] /\ tries \in [Sessions -> 0 .. MaxTries - 1]
    /\ reply \in [Sessions -> Nat]
    /\ todo \in [Sessions -> SUBSET [loop : Loops, entry : Entries]]
    /\ \A s \in Sessions :
          IF pc[s] = "idle" THEN todo[s] = {}
          ELSE \E l \in Loops, e \in Entries : todo[s] = {[loop |-> l, entry |-> e]}

\* The seqs of a loop are 1 to the number of its checkpoints, each once,
\* without a UNIQUE constraint and whatever the interleaving of the sessions,
\* their failures and their retries.
SeqsAreDense ==
    \A l \in Loops :
        /\ \E n \in 0 .. lastId : Seqs(l) = 1 .. n
        /\ \A q, r \in OfLoop(l) : q.seq = r.seq => q = r

\* The log a loop's rows stand for, and where a call's row is in it.
SeqLog == [l \in Loops |-> [n \in Seqs(l) |-> (CHOOSE r \in OfLoop(l) : r.seq = n).entry]]
SeqPos == [s \in Sessions |-> IF pc[s] = "read" THEN (CHOOSE r \in rows : r.id = rowid[s]).seq ELSE 0]

Log == INSTANCE AppendLog WITH log <- SeqLog, pos <- SeqPos

\* The ledger implements the append-only log: every entry is appended at most
\* once, at the next position of its loop, nothing is ever changed or removed,
\* and a session is told the position of its own entry or an error.
LogSpec == Log!Spec
=============================================================================
