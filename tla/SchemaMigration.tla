--------------------------- MODULE SchemaMigration ---------------------------
(***************************************************************************)
(* Opening the shared store: db.Open, migrate and the schema drift watcher *)
(* of the server (internal/db/db.go, internal/server/server.go).           *)
(*                                                                         *)
(* Several pincher processes, built from different versions, open one      *)
(* SQLite file.  No lock spans an Open: every statement is a transaction   *)
(* of its own, and the statements of two processes interleave.  Migration  *)
(* i, a script of several statements, takes the schema from version i to   *)
(* i + 1; the update of schema_version follows it as one more statement.   *)
(* A write fails with SQLITE_BUSY when another process (an index pass)     *)
(* keeps the writer longer than busy_timeout; Open then runs migrate       *)
(* again, three times in all.                                              *)
(*                                                                         *)
(* An item is a column, a table or an index that a migration adds.  The    *)
(* items on the table symbols go with it when a migration rebuilds it:     *)
(* CREATE TABLE symbols_new, INSERT ... SELECT, DROP TABLE symbols, RENAME *)
(* (v27 to v28).                                                           *)
(*                                                                         *)
(* Left out: rows, and with them the deduplication of projects; full-text  *)
(* tables and triggers, which scripts drop and create again; the WAL       *)
(* check, auto_vacuum, the backup file, ANALYZE and the reader pool (no    *)
(* effect on the schema); reads that fail.                                 *)
(***************************************************************************)
EXTENDS Naturals, Sequences

CONSTANTS
    Procs,        \* processes that open the store
    Known,        \* Known[p]: len(schemaMigrations) + 1 of p's binary
    Consent,      \* processes for which migrationAllowed() holds
    Script,       \* Script[i]: the statements of schemaMigrations[i - 1]
    Items,        \* what the scripts add
    OnSymbols,    \* the items that are columns of the table symbols
    Parity,       \* symbols.symbol_id, which every Open adds if it is missing
    MaxAttempts,  \* attempts of retryOnDBLock (3)
    MaxOpens      \* bound: how often Open is called

\* "add" is ALTER TABLE ADD COLUMN, "ensure" is CREATE ... IF NOT EXISTS; the
\* other three rebuild symbols ("create" stands for CREATE and INSERT).
Statement == [op : {"add", "ensure"}, item : Items]
                 \cup [op : {"create", "drop", "rename"}, item : {"symbols"}]

Rebuild == <<"create", "drop", "rename">>
Rebuilds(script) == \E k \in DOMAIN script : script[k].op \in {"create", "drop", "rename"}

ASSUME MigrationAssumption ==
    /\ Known \in [Procs -> 1 .. Len(Script) + 1]
    /\ Consent \subseteq Procs
    /\ OnSymbols \subseteq Items /\ Parity \in OnSymbols
    /\ MaxAttempts \in Nat \ {0}
    /\ MaxOpens \in Nat

\* A script that rebuilds symbols does nothing else but, in the end, create
\* indexes; the columns of symbols are added by ALTER TABLE.
ASSUME ScriptAssumption ==
    /\ Script \in Seq(Seq(Statement) \ {<<>>})
    /\ \A i \in DOMAIN Script : \A k \in DOMAIN Script[i] :
          /\ Script[i][k].op = "ensure" => Script[i][k].item \notin OnSymbols
          /\ Rebuilds(Script[i]) =>
                IF k <= 3 THEN Len(Script[i]) >= 3 /\ Script[i][k].op = Rebuild[k]
                          ELSE Script[i][k].op = "ensure"

\* What the migrations up to the one from version v - 1 to v add.
Added(i)  == {Script[i][k].item : k \in {n \in DOMAIN Script[i] : Script[i][n].op \in {"add", "ensure"}}}
Needed(v) == UNION {Added(i) : i \in 1 .. v - 1}

VARIABLES
    tables,    \* the file holds user tables (the baseline schema)
    version,   \* the row of schema_version; 0: no row
    items,     \* the items that exist
    symbols,   \* the table symbols exists
    copy,      \* the table symbols_new exists
    pc,        \* pc[p]: the next statement of p's Open; "open": it serves
    at,        \* at[p]: the schema version p's loop has reached
    stmt,      \* stmt[p]: the next statement of the script p executes
    attempt,   \* attempt[p]: loop variable of retryOnDBLock
    opens,     \* Opens begun
    \* History, read by the properties only:
    applied,   \* migrations whose script has been executed to its end
    overtaken, \* a migrator that others had passed set the row back, or
               \* dropped a table symbols that they had gone on with
    fresh      \* fresh[p]: the file was empty when p's Open began

schema == <<tables, items, symbols, copy>>
disk   == <<schema, version, applied, overtaken>>
local  == <<at, stmt, attempt, fresh>>
vars   == <<disk, pc, local, opens>>

Labels == {"closed", "fast", "count", "baseline", "init", "read", "ddl", "bump", "repair", "alter", "open"}
Writing == {"baseline", "init", "ddl", "bump", "alter"}
Opening(p) == pc[p] \notin {"closed", "open"}

Goto(p, l) == pc' = [pc EXCEPT ![p] = l]

\* Open returns, with a store or with an error (which one is left out).
Return(p, l) ==
    /\ Goto(p, l)
    /\ at' = [at EXCEPT ![p] = 0] /\ stmt' = [stmt EXCEPT ![p] = 0]
    /\ attempt' = [attempt EXCEPT ![p] = 0]
    /\ fresh' = [fresh EXCEPT ![p] = FALSE]
Fail(p) == Return(p, "closed")

\* The next statement of the same attempt.
Step(p, l) == Goto(p, l) /\ UNCHANGED local

Init ==
    /\ tables = FALSE /\ version = 0 /\ applied = {} /\ overtaken = FALSE
    /\ items = {} /\ symbols = FALSE /\ copy = FALSE /\ stmt = [p \in Procs |-> 0]
    /\ pc = [p \in Procs |-> "closed"] /\ at = [p \in Procs |-> 0]
    /\ attempt = [p \in Procs |-> 0] /\ opens = 0
    /\ fresh = [p \in Procs |-> FALSE]

-----------------------------------------------------------------------------
(* Open and migrate *)

Open(p) ==
    /\ pc[p] = "closed" /\ opens < MaxOpens
    /\ Goto(p, "fast") /\ opens' = opens + 1
    /\ attempt' = [attempt EXCEPT ![p] = 1]
    /\ fresh' = [fresh EXCEPT ![p] = ~tables]
    /\ UNCHANGED <<disk, at, stmt>>

\* The fast path taken for every store that has a version row.
FastReadTrusts(p) ==
    /\ pc[p] = "fast"
    /\ \/ version = 0 /\ Step(p, "count")
       \/ version > Known[p] /\ Fail(p)
       \/ version \in 1 .. Known[p] /\ Step(p, "repair")
    /\ UNCHANGED <<disk, opens>>

\* Step 0, schemaVersionFastRead: a plain SELECT that never waits.
FastRead(p) ==
    /\ pc[p] = "fast"
    /\ \/ version = 0 /\ Step(p, "count")
       \/ version > Known[p] /\ Fail(p)
       \/ version = Known[p] /\ Step(p, "repair")
       \/ /\ version \in 1 .. Known[p] - 1
          /\ \/ p \in Consent /\ Step(p, "baseline")
             \/ p \notin Consent /\ Fail(p)
    /\ UNCHANGED <<disk, opens>>

\* A store without a version row is taken for a new one.
CountSkipped(p) ==
    /\ pc[p] = "count" /\ Step(p, "baseline")
    /\ UNCHANGED <<disk, opens>>

\* userTableCount: tables without a version row are an older store, and the
\* consent gate applies; an empty file is initialised without consent.
CountTables(p) ==
    /\ pc[p] = "count"
    /\ \/ tables /\ p \notin Consent /\ Fail(p)
       \/ (tables => p \in Consent) /\ Step(p, "baseline")
    /\ UNCHANGED <<disk, opens>>

\* Steps 1 and 2: the baseline DDL and the table schema_version, all of it
\* IF NOT EXISTS: a table symbols that is missing for the moment is created.
Baseline(p) ==
    /\ pc[p] = "baseline" /\ Step(p, "init")
    /\ tables' = TRUE /\ symbols' = TRUE
    /\ UNCHANGED <<items, copy, version, applied, overtaken, opens>>

\* INSERT ... SELECT 1 WHERE NOT EXISTS, one statement.
InitVersion(p) ==
    /\ pc[p] = "init" /\ Step(p, "read")
    /\ version' = IF version = 0 THEN 1 ELSE version
    /\ UNCHANGED <<schema, applied, overtaken, opens>>

\* The loop goes on with the migration from version v, or ends.
Loop(p, v) ==
    /\ at' = [at EXCEPT ![p] = v]
    /\ IF v < Known[p] THEN Goto(p, "ddl") /\ stmt' = [stmt EXCEPT ![p] = 1]
                       ELSE Goto(p, "repair") /\ stmt' = [stmt EXCEPT ![p] = 0]
    /\ UNCHANGED <<attempt, fresh>>

\* Steps 3 and 3.5.
ReadVersion(p) ==
    /\ pc[p] = "read"
    /\ \/ version > Known[p] /\ Fail(p)
       \/ version <= Known[p] /\ Loop(p, version)
    /\ UNCHANGED <<disk, opens>>

\* The columns of symbols_new: those symbols has before migration i.
RebuiltAsBaseline(i) == {}
RebuiltColumns(i) == Needed(i) \cap OnSymbols

\* SQLite refuses to add what exists or to a table that is missing, to create
\* symbols_new twice, and to rename it to a table that exists.
Refused(s) ==
    \/ s.op = "add" /\ (s.item \in items \/ (s.item \in OnSymbols /\ ~symbols))
    \/ s.op = "create" /\ copy
    \/ s.op = "rename" /\ symbols

\* The effect of statement s of migration i on the schema.
Alter(s, i) ==
    /\ items' = CASE s.op \in {"add", "ensure"} -> items \cup {s.item}
                  [] s.op = "create" -> items
                  [] s.op = "drop" -> items \ OnSymbols
                  [] s.op = "rename" -> items \cup RebuiltColumns(i)
    /\ symbols' = CASE s.op = "drop" -> FALSE [] s.op = "rename" -> TRUE [] OTHER -> symbols
    /\ copy' = CASE s.op = "create" -> TRUE [] s.op = "rename" -> FALSE [] OTHER -> copy
    /\ UNCHANGED tables

\* Step 4, s.db.Exec(schemaMigrations[i]): the driver executes the script
\* statement by statement.  One that is refused ends Open, and what the ones
\* before it did stays.
ExecStatement(p) ==
    /\ pc[p] = "ddl"
    /\ LET i == at[p]
           s == Script[i][stmt[p]]
       IN \/ /\ Refused(s) /\ Fail(p)
             /\ UNCHANGED <<schema, applied, overtaken>>
          \/ /\ ~Refused(s) /\ Alter(s, i)
             /\ stmt' = [stmt EXCEPT ![p] = @ + 1]
             /\ IF stmt[p] < Len(Script[i])
                   THEN Goto(p, "ddl") /\ UNCHANGED applied
                   ELSE Goto(p, "bump") /\ applied' = applied \cup {i}
             /\ overtaken' = (overtaken \/ (s.op = "drop" /\ version > i))
             /\ UNCHANGED <<at, attempt, fresh>>
    /\ UNCHANGED <<version, opens>>

\* The update takes the row to the binary's last version at once.
BumpToHead(p) ==
    /\ pc[p] = "bump"
    /\ version' = Known[p] /\ Loop(p, at[p] + 1)
    /\ UNCHANGED <<schema, applied, overtaken, opens>>

\* UPDATE schema_version SET version = next, whatever the row holds by now.
BumpVersion(p) ==
    /\ pc[p] = "bump"
    /\ version' = at[p] + 1 /\ Loop(p, at[p] + 1)
    /\ overtaken' = (overtaken \/ version > at[p] + 1)
    /\ UNCHANGED <<schema, applied, opens>>

\* schemaParityRepairs: ensureSymbolIDColumn looks for the column, and adds
\* it in a statement of its own.  Open returns the store.
CheckParity(p) ==
    /\ pc[p] = "repair"
    /\ IF Parity \in items THEN Return(p, "open") ELSE Step(p, "alter")
    /\ UNCHANGED <<disk, opens>>

AddParity(p) ==
    /\ pc[p] = "alter"
    /\ IF Parity \in items \/ ~symbols
          THEN Fail(p) /\ UNCHANGED items
          ELSE Return(p, "open") /\ items' = items \cup {Parity}
    /\ UNCHANGED <<tables, symbols, copy, version, applied, overtaken, opens>>

\* Retry for as long as the writer is held.
BusyForever(p) ==
    /\ pc[p] \in Writing /\ Step(p, "fast")
    /\ UNCHANGED <<disk, opens>>

\* retryOnDBLock: a statement failed with SQLITE_BUSY; migrate starts over.
Busy(p) ==
    /\ pc[p] \in Writing
    /\ \/ /\ attempt[p] < MaxAttempts
          /\ attempt' = [attempt EXCEPT ![p] = @ + 1]
          /\ at' = [at EXCEPT ![p] = 0] /\ stmt' = [stmt EXCEPT ![p] = 0]
          /\ Goto(p, "fast") /\ UNCHANGED <<fresh>>
       \/ attempt[p] = MaxAttempts /\ Fail(p)
    /\ UNCHANGED <<disk, opens>>

\* The process is killed, anywhere.
Crash(p) ==
    /\ pc[p] # "closed" /\ Fail(p)
    /\ UNCHANGED <<disk, opens>>

-----------------------------------------------------------------------------
(* The server on an open store *)

\* startSchemaDriftWatcher finds a schema newer than the binary: exitFn(1).
DriftTick(p) ==
    /\ pc[p] = "open" /\ version > Known[p] /\ Fail(p)
    /\ UNCHANGED <<disk, opens>>

Migrate(p) == \/ FastRead(p) \/ CountTables(p) \/ Baseline(p) \/ InitVersion(p)
              \/ ReadVersion(p) \/ ExecStatement(p) \/ BumpVersion(p)
              \/ CheckParity(p) \/ AddParity(p)

\* Nobody opens the store any more, and nobody is opening it.
Idle == opens = MaxOpens /\ \A p \in Procs : ~Opening(p)

Next ==
    \/ \E p \in Procs : Open(p) \/ Migrate(p) \/ Busy(p) \/ Crash(p) \/ DriftTick(p)
    \/ Idle /\ UNCHANGED vars

Spec == Init /\ [][Next]_vars

\* The statements of an Open follow one another, also when each ends busy.
FairSpec ==
    /\ Spec
    /\ \A p \in Procs : WF_vars(Migrate(p) \/ Busy(p))

-----------------------------------------------------------------------------
\* Every variable stays in its domain; the version row never exceeds what
\* some binary knows, and a process executes statements that exist.
TypeOK ==
    /\ tables \in BOOLEAN /\ symbols \in BOOLEAN /\ copy \in BOOLEAN
    /\ version = 0 \/ \E p \in Procs : version \in 1 .. Known[p]
    /\ items \subseteq Items
    /\ applied \subseteq Nat /\ overtaken \in BOOLEAN
    /\ pc \in [Procs -> Labels]
    /\ at \in [Procs -> Nat] /\ stmt \in [Procs -> Nat]
    /\ \A p \in Procs : pc[p] = "ddl" => at[p] \in DOMAIN Script /\ stmt[p] \in DOMAIN Script[at[p]]
    /\ attempt \in [Procs -> 0 .. MaxAttempts]
    /\ opens \in 0 .. MaxOpens
    /\ fresh \in [Procs -> BOOLEAN]

\* schema_version never claims a migration that did not run, whatever the
\* interleaving of the migrators, their crashes and their retries, and even
\* when a slow one sets the row back.
VersionIsHonest == 1 .. version - 1 \subseteq applied

\* A store that Open returned has everything its binary relies on, and keeps
\* it while other processes migrate, crash and set the version back.  The
\* exception is the table symbols, whose columns are gone while a rebuild is
\* under way, after one that was interrupted (symbols_new stays), and when a
\* migrator rebuilt symbols, or took the row back, after others had passed it.
OpenIsComplete ==
    \A p \in Procs : pc[p] = "open" =>
        /\ Needed(Known[p]) \ OnSymbols \subseteq items
        /\ overtaken \/ copy \/ Needed(Known[p]) \subseteq items

\* The consent gate: a binary without consent changes the schema only of a
\* file that held no table when its Open began, never of an existing store.
ConsentGate ==
    \A p \in Procs : pc[p] \in {"init", "read", "ddl", "bump"} => p \in Consent \/ fresh[p]

\* Every Open returns, however often the writer is busy.
OpenReturns == \A p \in Procs : Opening(p) ~> ~Opening(p)
=============================================================================
