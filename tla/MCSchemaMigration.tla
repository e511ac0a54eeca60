-------------------------- MODULE MCSchemaMigration --------------------------
(* Small instances of SchemaMigration for TLC: a release build, a newer      *)
(* release build and a development build at the newest schema.  Symbols gets *)
(* two columns, is rebuilt, and gets a third one together with edges.        *)
EXTENDS SchemaMigration

CONSTANTS old, new, dev

MCKnown == [p \in Procs |-> CASE p = dev -> 2 [] p = old -> 3 [] p = new -> 4]

Do(o, i) == [op |-> o, item |-> i]
MCScript ==
    << <<Do("add", "symbol_id")>>,
       <<Do("create", "symbols"), Do("drop", "symbols"), Do("rename", "symbols")>>,
       <<Do("add", "branch"), Do("add", "edges.branch")>> >>
MCItems == {"symbol_id", "branch", "edges.branch"}
MCOnSymbols == {"symbol_id", "branch"}
=============================================================================
