----------------------------- MODULE GraphTrace -----------------------------
(***************************************************************************)
(* Reachability questions about the symbol graph: the closure table        *)
(* (internal/db/closure.go), the recursive-CTE trace (internal/db/db.go),  *)
(* the dispatch between them (internal/index/indexer.go) and the           *)
(* variable-length patterns of the query language                          *)
(* (internal/cypher/engine.go).                                            *)
(*                                                                         *)
(* The closure table is a cache of the edges table: an index pass changes  *)
(* the edges, and only its tail pass, when it runs and succeeds, replaces  *)
(* the rows.  Traces read both tables at any time, without the project     *)
(* lock.  A trace answers pairs <<symbol, depth>>.                         *)
(*                                                                         *)
(* Left out: the kind of the edge a hop was reached by (via), the limits   *)
(* on the number of rows (500 hops, 100 start nodes, MaxRows), the other   *)
(* predicates of a query, several projects.                                *)
(***************************************************************************)
EXTENDS Naturals, FiniteSets, FiniteSetsExt

CONSTANTS
    Nodes,      \* symbol identities
    Label,      \* Label[n]: the symbol's kind
    Labels,     \* the kinds a query may ask for
    Kinds,      \* edge kinds
    TraceKinds, \* CALLS, HTTP_CALLS, ASYNC_CALLS: the default of a trace
    Depths,     \* values of PINCHER_CLOSURE_MAX_DEPTH, clamped
    TraceLimit, \* the deepest trace a caller may ask for (5)
    HopLimit,   \* the longest path of a query (10)
    MaxEdges,   \* bound: edges of a graph
    MaxPasses   \* bound: index passes

Edge  == [from : Nodes, to : Nodes, kind : Kinds]
Graph == UNION {kSubset(n, Edge) : n \in 0 .. MaxEdges}

ASSUME TraceAssumption ==
    /\ Label \in [Nodes -> Labels] /\ TraceKinds \subseteq Kinds
    /\ Depths \subseteq Nat \ {0}
    /\ {TraceLimit, HopLimit, MaxEdges, MaxPasses} \subseteq Nat

VARIABLES
    symbols, edges,  \* rows of the two tables
    closure, depth,  \* rows of the closure table, and the depth they reach
    pc,              \* "idle", or a pass before its "extract" or "tail"
    passes,
    missed           \* history: the edges changed and no build followed

vars == <<symbols, edges, closure, depth, pc, passes, missed>>

-----------------------------------------------------------------------------
(* Walks *)

Of(E, kinds) == {e \in E : e.kind \in kinds}
Reversed(E)  == {[e EXCEPT !.from = e.to, !.to = e.from] : e \in E}
Succ(E, S)   == {e.to : e \in {f \in E : f.from \in S}}

\* The recursive part of the CTEs: reach[k] are the ends of the walks of k
\* edges from s.  UNION ALL removes no walk.
Reach(E, s, max) ==
    LET reach[k \in 0 .. max] == IF k = 0 THEN {s} ELSE Succ(E, reach[k - 1])
    IN  reach

\* SELECT id, MIN(depth) ... WHERE id != start AND depth >= min GROUP BY id.
MinDepth(E, s, min, max) ==
    LET reach == Reach(E, s, max)
        ends  == (UNION {reach[k] : k \in min .. max}) \ {s}
    IN  {<<x, Min({k \in min .. max : x \in reach[k]})>> : x \in ends}

-----------------------------------------------------------------------------
(* The closure table *)

\* The BFS of BuildClosure from one source: level k holds what level k - 1
\* reaches and no level has seen.
Bfs(E, s, max) ==
    LET bfs[k \in 0 .. max] ==
            IF k = 0 THEN [seen |-> {s}, frontier |-> {s}]
            ELSE LET next == Succ(E, bfs[k - 1].frontier) \ bfs[k - 1].seen
                 IN  [seen |-> bfs[k - 1].seen \cup next, frontier |-> next]
    IN  UNION {{[from |-> s, to |-> x, depth |-> k] : x \in bfs[k].frontier} : k \in 1 .. max}

\* The closure over edges of every kind.
RowsAllKinds(E, max) == UNION {Bfs(E, s, max) : s \in {e.from : e \in E}}

\* The rows BuildClosure writes: a BFS from every node with an edge.
Rows(E, max) ==
    LET adj == Of(E, TraceKinds)
    IN  UNION {Bfs(adj, s, max) : s \in {e.from : e \in adj}}

\* TraceViaClosure, in one direction.
ViaClosure(s, dir, max) ==
    IF dir = "outbound"
    THEN {<<r.to, r.depth>> : r \in {q \in closure : q.from = s /\ q.depth <= max}}
    ELSE {<<r.from, r.depth>> : r \in {q \in closure : q.to = s /\ q.depth <= max}}

\* traceViaCTE, in one direction.
ViaCTE(s, dir, kinds, max) ==
    MinDepth(IF dir = "outbound" THEN Of(edges, kinds) ELSE Reversed(Of(edges, kinds)), s, 1, max)

\* The merge of two directions keeps the smaller depth.
Merge(S, T) == {p \in S \cup T : \A q \in S \cup T : q[1] = p[1] => p[2] <= q[2]}

\* materializeHops: a row whose symbol is gone is skipped.
Hops(results) == {p \in results : p[1] \in symbols}

\* TraceByID, for a caller with PINCHER_CLOSURE_TABLES (on) or without it.
\* With the closure "both" lists a symbol once for each direction.
Trace(s, dir, kinds, max, on) ==
    LET dirs == IF dir = "both" THEN {"outbound", "inbound"} ELSE {dir}
        d    == IF max \in 1 .. TraceLimit THEN max ELSE 3
    IN  Hops(IF on /\ kinds = TraceKinds /\ closure # {}
             THEN UNION {ViaClosure(s, r, d) : r \in dirs}
             ELSE LET both == {ViaCTE(s, r, kinds, d) : r \in dirs} IN Merge(UNION both, {}))

-----------------------------------------------------------------------------
(* Variable-length patterns of the query language *)

\* The bounds as written: <<>> for none, <<n>> for *n, <<lo, hi>> for *lo..hi,
\* with 0 for a bound left out.  Written backwards they collapse to the
\* lower one.
HopsCollapsed(spec) ==
    LET lo == CASE spec = <<>> -> 1 [] OTHER -> spec[1]
        hi == CASE spec = <<>> -> 1 [] OTHER -> spec[Cardinality(DOMAIN spec)]
    IN  <<Max({lo, 1}), Max({lo, hi, 1})>>

\* parseHops: bounds written backwards are swapped, a lower bound of 0 is
\* taken for 1.
ParseHops(spec) ==
    LET lo == CASE spec = <<>> -> 1 [] OTHER -> spec[1]
        hi == CASE spec = <<>> -> 1 [] OTHER -> spec[Cardinality(DOMAIN spec)]
    IN  <<Max({Min({lo, hi}), 1}), Max({lo, hi, 1})>>

\* bfsViaCTE; a node without a symbol row is dropped by the join.
BfsViaCTE(s, kinds, min, max, inbound) ==
    Hops(MinDepth(IF inbound THEN Reversed(Of(edges, kinds)) ELSE Of(edges, kinds), s, min, max))

\* The start nodes of a plan: symbols of the start end's label, if it has one.
StartNodes(label) == {s \in symbols : label = {} \/ Label[s] \in label}

\* runBFS for MATCH (a:la)-[:kinds spec]->(b:lb): rows <<a, b, depth>>.  The
\* plan walks from a, or, inverted (shouldInvertBFS), from b; the label of
\* the other end is not looked at.
RunBFS(la, lb, kinds, spec, inverted) ==
    LET hops == ParseHops(spec)
        max  == Min({hops[2], HopLimit})
        walk(s) == BfsViaCTE(s, kinds, hops[1], max, inverted)
    IN  UNION {{IF inverted THEN <<h[1], s, h[2]>> ELSE <<s, h[1], h[2]>> : h \in walk(s)}
                   : s \in StartNodes(IF inverted THEN lb ELSE la)}

-----------------------------------------------------------------------------
(* Index passes *)

Sound(E, S) == \A e \in E : e.from \in S /\ e.to \in S

\* A store some earlier passes have left, with a closure table or without.
Init ==
    /\ symbols = Nodes /\ edges \in Graph
    /\ \/ closure = {} /\ depth = 0
       \/ depth \in Depths /\ closure = Rows(edges, depth)
    /\ pc = "idle" /\ passes = 0 /\ missed = FALSE

\* BulkUpsertEdges: a pass resolves an edge between two symbols.
UpsertEdge ==
    /\ pc = "idle" /\ passes < MaxPasses /\ Cardinality(edges) < MaxEdges
    /\ \E e \in Edge \ edges : Sound({e}, symbols) /\ edges' = edges \cup {e}
    /\ pc' = "tail" /\ passes' = passes + 1 /\ missed' = TRUE
    /\ UNCHANGED <<symbols, closure, depth>>

\* DeleteSymbolsForFile: a pass removes a file's symbols and their edges,
\* both ways.  Without its file's symbols back, the file is gone.
DeleteSymbols ==
    /\ pc = "idle" /\ passes < MaxPasses
    /\ \E x \in symbols :
          /\ symbols' = symbols \ {x}
          /\ edges' = {e \in edges : e.from # x /\ e.to # x}
    /\ pc' = "tail" /\ passes' = passes + 1 /\ missed' = TRUE
    /\ UNCHANGED <<closure, depth>>

\* ClearProjectIndexData and DeleteProject empty the closure table too.
DropClosure == closure' = {} /\ depth' = 0

\* A forced pass: ClearProjectIndexData, one transaction, comes first.
ForceClear ==
    /\ pc = "idle" /\ passes < MaxPasses
    /\ symbols' = {} /\ edges' = {} /\ DropClosure
    /\ pc' = "extract" /\ passes' = passes + 1 /\ missed' = TRUE

\* The rest of a forced pass, up to the tail: here the graph is one edge.
Extract ==
    /\ pc = "extract"
    /\ symbols' = Nodes
    /\ \E e \in Edge : edges' = {e}
    /\ pc' = "tail"
    /\ UNCHANGED <<closure, depth, passes, missed>>

\* DeleteProject, one transaction.
DeleteProject ==
    /\ pc = "idle" /\ symbols # {}
    /\ symbols' = {} /\ edges' = {} /\ DropClosure /\ missed' = FALSE
    /\ UNCHANGED <<pc, passes>>

\* The tail pass: BuildClosure replaces the rows in one transaction.
BuildClosure ==
    /\ pc = "tail"
    /\ \E d \in Depths : depth' = d /\ closure' = Rows(edges, d)
    /\ pc' = "idle" /\ missed' = FALSE
    /\ UNCHANGED <<symbols, edges, passes>>

\* The build fails, or the pass runs in a process without
\* PINCHER_CLOSURE_TABLES, or it is killed, or ends with an error: the rows
\* of the earlier graph stay.
SkipBuild ==
    /\ pc # "idle"
    /\ pc' = "idle"
    /\ UNCHANGED <<symbols, edges, closure, depth, passes, missed>>

Next ==
    \/ UpsertEdge \/ DeleteSymbols \/ ForceClear \/ Extract \/ DeleteProject \/ BuildClosure \/ SkipBuild
    \/ pc = "idle" /\ passes = MaxPasses /\ UNCHANGED vars

Spec == Init /\ [][Next]_vars

-----------------------------------------------------------------------------
(* What the answers should be *)

\* A simple path of n edges from a to b, as a function.
Path(E, a, b, n) ==
    \E p \in [0 .. n -> Nodes] :
        /\ p[0] = a /\ p[n] = b /\ IsInjective(p)
        /\ \A i \in 1 .. n : \E e \in E : e.from = p[i - 1] /\ e.to = p[i]

\* The distances from s, up to max.
Distances(E, s, max) ==
    {<<b, Min({n \in 1 .. max : Path(E, s, b, n)})>> :
        b \in {c \in Nodes : \E n \in 1 .. max : Path(E, s, c, n)}}

Reference(s, dir, max) ==
    LET E   == Of(edges, TraceKinds)
        out == IF dir = "inbound" THEN {} ELSE Distances(E, s, max)
        inb == IF dir = "outbound" THEN {} ELSE Distances(Reversed(E), s, max)
    IN  Merge(out, inb)

Dirs  == {"outbound", "inbound", "both"}
Specs == {<<>>} \cup {<<n>> : n \in 0 .. HopLimit + 1} \cup (0 .. HopLimit + 1) \X (0 .. HopLimit + 1)

\* A closure table that is behind the edges never brings back a symbol that
\* was removed.  When the last pass has rebuilt it, or there is none, a trace
\* answers the symbols at distance 1 to max and their distances, in each
\* direction and in both, whichever way it goes; the depth of the closure
\* caps it.  The breadth-first search with its set of nodes seen, read from
\* either end, and the minimum over all walks of the CTE are the same.
TraceExact ==
    \A s \in symbols, dir \in Dirs, max \in 1 .. TraceLimit, on \in BOOLEAN :
        LET hops == Trace(s, dir, TraceKinds, max, on)
        IN  /\ \A h \in hops : h[1] \in symbols
            /\ pc = "idle" /\ ~missed =>
                  Merge(hops, {}) =
                      Reference(s, dir, IF on /\ closure # {} THEN Min({max, depth}) ELSE max)

\* The lengths a written range asks for, in either order of its bounds; the
\* engine follows no path longer than HopLimit.
Lengths(spec) ==
    LET lo == IF spec = <<>> THEN 1 ELSE Min({spec[i] : i \in DOMAIN spec})
        hi == IF spec = <<>> THEN 1 ELSE Max({spec[i] : i \in DOMAIN spec})
    IN  {n \in 1 .. HopLimit : n >= lo /\ n <= Max({hi, 1})}

\* A pattern answers the pairs of different symbols that a walk of a length
\* it asks for connects, each with the least such length, also when the
\* bounds are written backwards, are 0, or exceed what the engine follows.
\* The inverted plan, which finds each pair from its other end, answers the
\* same, and a label on the end a plan starts from selects the pairs with it.
PatternExact ==
    \A spec \in Specs, k \in (SUBSET Kinds) \ {{}} :
        LET joined(a, b) == {n \in Lengths(spec) : b \in Reach(Of(edges, k), a, n)[n]}
            pairs  == {p \in symbols \X symbols : p[1] # p[2] /\ joined(p[1], p[2]) # {}}
            answer == {<<p[1], p[2], Min(joined(p[1], p[2]))>> : p \in pairs}
        IN  \A l \in {{}} \cup {{x} : x \in Labels} :
                /\ RunBFS(l, {}, k, spec, FALSE) = {p \in answer : l = {} \/ Label[p[1]] \in l}
                /\ RunBFS({}, l, k, spec, TRUE) = {p \in answer : l = {} \/ Label[p[2]] \in l}
=============================================================================
