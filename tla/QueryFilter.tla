---------------------------- MODULE QueryFilter ----------------------------
(***************************************************************************)
(* How pinchQL answers MATCH (n) WHERE ... RETURN ... and the one-hop      *)
(* MATCH (a)-[e]->(n) WHERE ... RETURN ... (internal/cypher/engine.go).    *)
(*                                                                         *)
(* A WHERE is evaluated by two evaluators that must agree: SQLite, which   *)
(* gets what the planner can push (three-valued logic), and the engine's   *)
(* own evaluator over the fetched rows (two-valued, NULL is Go's nil).     *)
(* Between the two stands a LIMIT on the scan.  What is left out of the    *)
(* data: text is compared for equality, in the order of texts, or by the   *)
(* set of texts that the literal of a pattern or of CONTAINS, STARTS WITH  *)
(* and ENDS WITH matches, none of which spells a number; and one number    *)
(* stands for the numeric columns.                                         *)
(*                                                                         *)
(* A WHERE tree is the sequence of its nodes in the order the parser       *)
(* completes them: a connective names its operands by their positions, and *)
(* the last node is the root.  No WHERE is the empty sequence.             *)
(***************************************************************************)
EXTENDS Integers, SequencesExt

CONSTANTS
    Rows,           \* the rows the tables may hold
    Wheres,         \* the WHERE clauses asked
    Limits,         \* the LIMIT clauses asked; -1 when there is none
    Threshold,      \* what a comparison by order compares with
    Rank,           \* the texts in SQLite's order: their place, Threshold's scale
    Lower,          \* the texts in lower case, as LIKE compares them
    DefaultLimit,   \* 200, the LIMIT of a query without one
    MaxRows,        \* Executor.MaxRows
    FilterFactor,   \* 50, how far a scan with a filter in Go may look
    FilterCap       \* 10000, the most such a scan may fetch

Null == "<nil>"

VARIABLES
    corpus,     \* the stored rows
    q,          \* the query being answered
    pc,         \* "idle" | "asked" | "scanned" | "built"
    kept,       \* the rows of the scan that passed the filter in Go
    res,        \* the rows of the answer
    warn        \* the warnings that go with it

vars == <<corpus, q, pc, kept, res, warn>>

Shapes == {"rows", "distinct", "count", "countdoc", "group"}
Queries == [where: Wheres, join: BOOLEAN, shape: Shapes,
            order: {"none", "ASC", "DESC"}, limit: Limits]

NoWhere == <<>>
Leaf(c) == <<[t |-> "leaf", c |-> c]>>

\* The positions of a tree that follows n other nodes.
Shift(w, n) ==
    [i \in DOMAIN w |->
        CASE w[i].t = "leaf" -> w[i]
          [] w[i].t = "NOT"  -> [w[i] EXCEPT !.e = @ + n]
          [] OTHER           -> [w[i] EXCEPT !.l = @ + n, !.r = @ + n]]
Binary(op, v, w) ==
    v \o Shift(w, Len(v)) \o <<[t |-> op, l |-> Len(v), r |-> Len(v) + Len(w)]>>
And(v, w) == Binary("AND", v, w)
Or(v, w) == Binary("OR", v, w)
Not(w) == Append(w, [t |-> "NOT", e |-> Len(w)])

Operands(node) == CASE node.t = "leaf" -> {}
                    [] node.t = "NOT"  -> {node.e}
                    [] OTHER           -> {node.l, node.r}

Leaves(w) == {w[i].c : i \in {j \in DOMAIN w : w[j].t = "leaf"}}

Comparisons == {">", "<", ">=", "<="}
TextOps == {"CONTAINS", "STARTS WITH", "ENDS WITH"}
Ops == {"=", "<>", "=~", "IN", "IS NULL", "IS NOT NULL", "cross"} \cup Comparisons \cup TextOps

\* A condition: = and <> have one literal, and nil is none; of a pattern and a
\* text operator vals are the texts that match, "<nil>" perhaps one of them.  Of
\* the numeric columns only the comparison by order is modelled.
IsCondition(c) ==
    /\ c.op \in Ops /\ c.neg \in BOOLEAN
    /\ c.op \in {"=", "<>"} => \E v \in c.vals : c.vals = {v}
    /\ c.op \in {"=", "<>", "IN"} => Null \notin c.vals
    /\ c.col = "num" => c.op \in Comparisons \cup {"cross"}

\* Operands come before their connective, and every node is part of the tree.
IsTree(w) ==
    /\ w \in Seq({w[i] : i \in DOMAIN w})
    /\ \A i \in DOMAIN w :
          /\ w[i].t \in {"leaf", "AND", "OR", "NOT"}
          /\ w[i].t = "leaf" => IsCondition(w[i].c)
          /\ \A k \in Operands(w[i]) : k \in 1 .. i - 1
          /\ i < Len(w) => \E j \in DOMAIN w : i \in Operands(w[j])

ASSUME QueryAssumption ==
    /\ \A w \in Wheres : IsTree(w)
    /\ Limits \subseteq Int /\ Threshold \in Int
    /\ {DefaultLimit, MaxRows, FilterFactor, FilterCap} \subseteq Nat

\* Columns have their types; a node is one row, and the copies of one edge
\* differ in their source and confidence only.
ASSUME RowsAssumption ==
    /\ IsFiniteSet(Rows)
    /\ \A r \in Rows : r.test \in {"0", "1", Null} /\ r.num \in Int /\ r.conf \in Int
    /\ \A r, s \in Rows : r.key = s.key =>
          /\ r.doc = s.doc /\ r.test = s.test /\ r.num = s.num
          /\ r.src = s.src => r = s

\* cypherPropToCol: a property that is no column maps to none.
Cols == {"doc", "test", "num"}
Bound(c) == c.var = "n"

IsBoolCol(col) == col = "test"
\* "True" stands for every spelling but the two that boolNorm knows.
CoerceBoolLiteral(col, v) ==
    CASE IsBoolCol(col) /\ v \in {"true", "TRUE", "True"}    -> "1"
      [] IsBoolCol(col) /\ v \in {"false", "FALSE", "False"} -> "0"
      [] OTHER -> v
Lits(c) == {CoerceBoolLiteral(c.col, v) : v \in c.vals}
Lit(c) == CHOOSE v \in Lits(c) : TRUE

\* #606: col = "" and flag = false also ask for the rows without a value.
IsZeroValuePredicate(col, v) == v = "" \/ (IsBoolCol(col) /\ v = "0")

---------------------------------------------------------------------------
(* SQLite's evaluator: "T", "F" or "U", and a row is selected on "T".      *)

Truth(b) == IF b THEN "T" ELSE "F"
Not3(x) == CASE x = "T" -> "F" [] x = "F" -> "T" [] OTHER -> "U"
And3(x, y) == IF "F" \in {x, y} THEN "F" ELSE IF "U" \in {x, y} THEN "U" ELSE "T"
Or3(x, y) == Not3(And3(Not3(x), Not3(y)))

\* before #892 such a row matched both col = "" and col <> ""
NotEqualOrNull(x, v, zero) == x # v

\* <> of a literal finds the rows without a value, unless = already does.
NotEqualInSQL(x, v, zero) == x # v /\ (zero => x # Null)

Compare(op, x, y) ==
    CASE op = ">" -> x > y [] op = "<" -> x < y [] op = ">=" -> x >= y [] op = "<=" -> x <= y

\* What a comparison by order finds in a row: a flag is the number 0 or 1.
Sorted(c, r) == CASE c.col = "num"  -> r.num
                  [] c.col = "test" -> IF r.test = "1" THEN 1 ELSE 0
                  [] OTHER          -> Rank[r.doc]

\* LIKE ignores case, of the ASCII letters.
Like(x, vals) == \E v \in vals : Lower[x] = Lower[v]

CondLeafToSQL(c, r) ==
    LET x == r[c.col]
        known(b) == IF c.col # "num" /\ x = Null THEN "U" ELSE Truth(b)
        zero == IsZeroValuePredicate(c.col, Lit(c))
    IN CASE c.op = "="  -> IF zero THEN Truth(x \in {Null, Lit(c)})
                                   ELSE known(x = Lit(c))
         [] c.op = "<>" -> Truth(NotEqualInSQL(x, Lit(c), zero))
         [] c.op \in Comparisons -> known(Compare(c.op, Sorted(c, r), Threshold))
         [] c.op \in TextOps     -> known(Like(x, c.vals))
         [] c.op = "IS NULL"     -> Truth(x \in {Null, ""})
         [] c.op = "IS NOT NULL" -> Truth(x \notin {Null, ""})
         [] c.op = "IN" -> known(x \in Lits(c))

WhereExprToSQL(w, r) ==
    LET val[i \in DOMAIN w] ==
            CASE w[i].t = "leaf" -> IF w[i].c.neg THEN Not3(CondLeafToSQL(w[i].c, r))
                                                  ELSE CondLeafToSQL(w[i].c, r)
              [] w[i].t = "AND"  -> And3(val[w[i].l], val[w[i].r])
              [] w[i].t = "OR"   -> Or3(val[w[i].l], val[w[i].r])
              [] OTHER           -> Not3(val[w[i].e])
    IN  IF w = NoWhere THEN "T" ELSE val[Len(w)]

---------------------------------------------------------------------------
(* The engine's evaluator over a fetched row.  A variable that the pattern *)
(* does not bind, or a property that is no column, reads as nil, and nil   *)
(* prints as "<nil>".  A flag without a value scans as false.              *)

Flag(r) == IF r.test = "1" THEN "true" ELSE "false"

ScanSymRow(c, r) ==
    CASE ~Bound(c) \/ c.col \notin Cols -> Null
      [] c.col = "test" -> Flag(r)
      [] OTHER -> r[c.col]
SameBool(a, b) == \/ {a, b} \subseteq {"1", "true", "TRUE"}
                  \/ {a, b} \subseteq {"0", "false", "FALSE"}

EvalCondition(c, r) ==
    LET actual == ScanSymRow(c, r)
        same(v) == actual = v \/ SameBool(actual, v)
        asksForNone == \E v \in c.vals : v = "" \/ (IsBoolCol(c.col) /\ v \in {"false", "0"})
    IN CASE c.op = "cross" -> TRUE      \* column against column: ignored
         [] c.op = "="  -> \/ actual = Null /\ asksForNone
                           \/ \E v \in c.vals : same(v)
         [] c.op = "<>" -> IF actual = Null THEN ~asksForNone
                                            ELSE \A v \in c.vals : ~same(v)
         [] c.op \in TextOps \cup {"=~"} -> actual \in c.vals
            \* only a number compares with one
         [] c.op \in Comparisons -> Bound(c) /\ c.col = "num" /\ Compare(c.op, r.num, Threshold)
         [] c.op = "IS NULL"     -> actual \in {Null, ""}
         [] c.op = "IS NOT NULL" -> actual \notin {Null, ""}
         [] c.op = "IN" -> actual # Null /\ \E v \in c.vals : same(v)

MatchesWhere(w, r) ==
    LET val[i \in DOMAIN w] ==
            CASE w[i].t = "leaf" -> EvalCondition(w[i].c, r) # w[i].c.neg
              [] w[i].t = "AND"  -> val[w[i].l] /\ val[w[i].r]
              [] w[i].t = "OR"   -> val[w[i].l] \/ val[w[i].r]
              [] OTHER           -> ~val[w[i].e]
    IN  w = NoWhere \/ val[Len(w)]

---------------------------------------------------------------------------
(* The planner.                                                            *)

PushableOp(op) == op \in {"=", "<>", "IS NULL", "IS NOT NULL"} \cup Comparisons \cup TextOps

\* a planner that takes a chain of leaves for an AND chain whatever joins them
FlatChain(w) == \A i \in DOMAIN w : \/ w[i].t = "leaf"
                                    \/ w[i].t \in {"AND", "OR"} /\ w[w[i].r].t = "leaf"

WhereIsAndChainOfLeaves(w) ==
    \A i \in DOMAIN w : w[i].t = "leaf" \/ (w[i].t = "AND" /\ w[w[i].r].t = "leaf")

\* What SQL gets and what stays in Go, each a set of trees that must all hold.
\* An AND chain is split leaf by leaf; a scan of nodes drops the leaves on a
\* variable it does not bind, a join keeps them for Go.  Anything richer goes
\* to SQL as a whole or not at all.
Plan(query) ==
    LET w == query.where
        leaves == Leaves(w)
        pushed == {c \in leaves : Bound(c) /\ c.col \in Cols /\ PushableOp(c.op)}
        left == {c \in leaves \ pushed : Bound(c) \/ c.op = "cross" \/ query.join}
        translates == \A c \in leaves : /\ Bound(c) /\ c.col \in Cols
                                        /\ PushableOp(c.op) \/ c.op = "IN"
    IN CASE WhereIsAndChainOfLeaves(w) ->
                [sql |-> {Leaf(c) : c \in pushed}, go |-> {Leaf(c) : c \in left}]
         [] ~WhereIsAndChainOfLeaves(w) /\ translates -> [sql |-> {w}, go |-> {}]
         [] OTHER -> [sql |-> {}, go |-> {w}]

HasAggregation(query) == query.shape \in {"count", "countdoc", "group"}

\* before #308 and #929 the safety LIMIT also cut these scans
ScanLimitAlways(query) ==
    IF Plan(query).go = {} THEN MaxRows * 2 ELSE Min({MaxRows * FilterFactor, FilterCap})

\* The LIMIT of the scan: none for an aggregate or DISTINCT.
ScanLimit(query) ==
    IF HasAggregation(query) \/ query.shape = "distinct" THEN Cardinality(corpus)
    ELSE IF Plan(query).go = {} THEN MaxRows * 2
    ELSE Min({MaxRows * FilterFactor, FilterCap})

\* A node has one row; an edge has one row for each pass that found it.
Stored(query) == IF query.join THEN corpus ELSE {r \in corpus : r.src = 1}

Selected(query) ==
    LET sql == Plan(query).sql
    IN  {r \in Stored(query) : \A w \in sql : WhereExprToSQL(w, r) = "T"}

Before(order, r, s) ==
    CASE order = "ASC" -> r.num < s.num
      [] order = "DESC" -> r.num > s.num
      [] OTHER -> FALSE

\* before #847 the rows came in any order and were sorted after the LIMIT
OrdersUnpushed(query) == SetToSeqs(Selected(query))

\* The orders SQLite may return the selected rows in: ORDER BY is pushed
\* except for an aggregate, and equal rows come in any order.
Orders(query) ==
    {s \in SetToSeqs(Selected(query)) :
        HasAggregation(query) \/
        \A i, j \in DOMAIN s : i < j => ~Before(query.order, s[j], s[i])}

Take(s, n) == SubSeq(s, 1, Min({n, Len(s)}))

\* One row for each edge: the copy of highest confidence, where the first was.
KeepEdge(acc, r) ==
    IF \E i \in DOMAIN acc : acc[i].key = r.key
    THEN [i \in DOMAIN acc |->
            IF acc[i].key = r.key /\ r.conf > acc[i].conf THEN r ELSE acc[i]]
    ELSE Append(acc, r)

\* The loop over the fetched rows: the filter in Go, and the edges of a join once.
Filtered(query, s) ==
    LET go == Plan(query).go
        passes(r) == \A w \in go : MatchesWhere(w, r)
        out[i \in 0 .. Len(s)] ==
            CASE i = 0             -> <<>>
              [] i > 0 /\ ~passes(s[i]) -> out[i - 1]
              [] OTHER             -> IF query.join THEN KeepEdge(out[i - 1], s[i])
                                                    ELSE Append(out[i - 1], s[i])
    IN  out[Len(s)]

---------------------------------------------------------------------------
\* before #1116 a variable that no pattern binds went unnoticed
WarningsOfColumns(query) ==
    LET leaves == Leaves(query.where)
    IN (IF \E c \in leaves : c.col \notin Cols THEN {"property"} ELSE {})
       \cup (IF \E c \in leaves : c.op = "cross" THEN {"cross-column"} ELSE {})

\* What Execute collects before it runs the query: warnings of properties that
\* are no column, of variables no pattern binds and of comparisons of two
\* columns, anywhere in the tree.
Warnings(query) ==
    LET leaves == Leaves(query.where)
    IN (IF \E c \in leaves : c.col \notin Cols THEN {"property"} ELSE {})
       \cup (IF \E c \in leaves : ~Bound(c) THEN {"variable"} ELSE {})
       \cup (IF \E c \in leaves : c.op = "cross" THEN {"cross-column"} ELSE {})

NoQuery == [where |-> NoWhere, join |-> FALSE, shape |-> "rows",
            order |-> "none", limit |-> -1]

Init == /\ corpus \in SUBSET Rows
        /\ q = NoQuery
        /\ pc = "idle"
        /\ kept = <<>> /\ res = <<>> /\ warn = {}

\* Execute: a query arrives.
Ask == /\ pc = "idle"
       /\ q' \in Queries
       /\ pc' = "asked" /\ warn' = Warnings(q')
       /\ UNCHANGED <<corpus, kept, res>>

\* runNodeScan, runJoinQuery: plan, fetch up to the limit, filter, dedup.
Scan == /\ pc = "asked"
        /\ \E s \in Orders(q) : kept' = Filtered(q, Take(s, ScanLimit(q)))
        /\ pc' = "scanned"
        /\ UNCHANGED <<corpus, q, res, warn>>

\* computeAgg: COUNT(n) counts rows, COUNT(n.doc) those with a value.
ComputeAgg(shape, s) ==
    IF shape = "countdoc" THEN Cardinality({i \in DOMAIN s : s[i].doc # Null}) ELSE Len(s)

\* sort.SliceStable: a row comes after those before it in the order, and after
\* its equals that were before it.
UpTo(s, order, i) ==
    {j \in DOMAIN s : Before(order, s[j], s[i]) \/ (j <= i /\ ~Before(order, s[i], s[j]))}
OrderBy(s, order) ==
    [k \in DOMAIN s |-> s[CHOOSE i \in DOMAIN s : Cardinality(UpTo(s, order, i)) = k]]

\* The values of a sequence, each where it is first seen.
FirstSeen(vals) ==
    LET first == {i \in DOMAIN vals : \A j \in 1 .. i - 1 : vals[j] # vals[i]}
    IN  [k \in 1 .. Cardinality(first) |->
            vals[CHOOSE i \in first : Cardinality({j \in first : j <= i}) = k]]

Limit(query) == IF query.limit < 0 THEN DefaultLimit ELSE query.limit

\* buildResult, then the trim to MaxRows that Execute makes.
BuildResult(query, rows) ==
    LET nums    == FirstSeen([i \in DOMAIN rows |-> rows[i].num])
        numbers == [k \in DOMAIN nums |-> [num |-> nums[k]]]
        flags   == FirstSeen([i \in DOMAIN rows |-> Flag(rows[i])])
        counted == [k \in DOMAIN flags |->
                      [test |-> flags[k], n |-> Cardinality({i \in DOMAIN rows : Flag(rows[i]) = flags[k]})]]
    IN  CASE query.shape = "rows" ->
                Take(Take(OrderBy(rows, query.order), Limit(query)), MaxRows)
          [] query.shape = "distinct" ->
                Take(Take(OrderBy(numbers, query.order), Limit(query)), MaxRows)
          [] query.shape = "group" -> Take(counted, Limit(query))
          [] OTHER -> IF query.limit = 0 THEN <<>> ELSE <<[n |-> ComputeAgg(query.shape, rows)]>>

Build == /\ pc = "scanned"
         /\ res' = BuildResult(q, kept)
         /\ pc' = "built"
         /\ UNCHANGED <<corpus, q, kept, warn>>

\* The answer goes to the caller; an executor keeps nothing of a query.
Reply == /\ pc = "built"
         /\ q' = NoQuery /\ pc' = "idle" /\ kept' = <<>> /\ res' = <<>> /\ warn' = {}
         /\ UNCHANGED corpus

Next == Ask \/ Scan \/ Build \/ Reply

Spec == Init /\ [][Next]_vars

---------------------------------------------------------------------------
Has(s, r) == \E i \in DOMAIN s : s[i].key = r.key
Matching == {r \in Stored(q) : MatchesWhere(q.where, r)}
Cut(query) == Cardinality(Selected(query)) > ScanLimit(query)

Negates(w) == \E i \in DOMAIN w : w[i].t = "NOT" \/ (w[i].t = "leaf" /\ w[i].c.neg)

HasValues(r) == r.doc # Null /\ r.test # Null

\* What the two evaluators read alike in a row.  They differ on
\*  - a text such as "true", which Go takes for equal to 1, and a literal such as
\*    "True", which only SQL takes for one;
\*  - a text that matches only when case is ignored, as LIKE does; a text
\*    operator on a flag, which SQL reads as 0 or 1; one that matches "<nil>";
\*  - an order of texts or flags, which Go does not know;
\*  - a flag without a value, which Go reads as false.
ReadAlike(c, r) ==
    /\ c.op \in {"=", "<>", "IN"} =>
          /\ c.col = "doc" => \A v \in c.vals : SameBool(r.doc, v) => r.doc = v
          /\ c.col = "test" => c.vals \cap {"True", "False"} = {}
    /\ c.op \in TextOps =>
          /\ c.col # "test"
          /\ c.col = "doc" => IF r.doc = Null THEN Null \notin c.vals
                              ELSE \A v \in c.vals : Lower[v] = Lower[r.doc] => r.doc \in c.vals
    /\ c.op \in Comparisons => c.col \notin {"doc", "test"}
    /\ (c.col = "test" /\ r.test = Null) => c.op \in {"=", "<>"} /\ "" \notin c.vals

\* Nor do they agree on a negation over a row without a value; and a scan of
\* nodes drops the leaves of an AND chain that are on a variable it does not
\* bind.  Everywhere else they must agree.
SameMeaning(r) ==
    /\ Negates(q.where) => HasValues(r)
    /\ \A c \in Leaves(q.where) : ReadAlike(c, r)
Comparable(r) ==
    /\ SameMeaning(r)
    /\ (\A c \in Leaves(q.where) : Bound(c)) \/ q.join
          \/ ~WhereIsAndChainOfLeaves(q.where)

\* The keys the WHERE selects, as the plan evaluates it on the whole table.
Answer == LET go == Plan(q).go
          IN  {r \in Selected(q) : \A w \in go : MatchesWhere(w, r)}
Keys(S) == {r.key : r \in S}

\* Whatever the planner pushes to SQL, a kept row satisfies the WHERE as Go
\* evaluates it, and when the scan was not cut every such row is kept: "boolean
\* composition is honoured exactly" (runNodeScan, #358, #362, #430).  A join
\* keeps a logical edge once, as its copy of highest confidence when the scan
\* saw them all (#591).
WhereExact ==
    pc = "scanned" =>
        LET cut == Cut(q) IN
        /\ \A r \in Stored(q) : Comparable(r) =>
              /\ Has(kept, r) => r \in Matching
              /\ (r \in Matching /\ ~cut) => Has(kept, r)
        /\ \A i, j \in DOMAIN kept : kept[i].key = kept[j].key => i = j
        /\ ~cut => \A r \in Answer : \A i \in DOMAIN kept :
              r.key = kept[i].key => r.conf <= kept[i].conf

\* Where the engine ignores a part of the WHERE, so that a row passes that the
\* part excludes, the answer carries a warning (#473, #1116).
IgnoredIsTold ==
    (pc = "built" /\ warn = {}) =>
        \A r \in Stored(q) :
            (Has(kept, r) /\ SameMeaning(r)) => r \in Matching

Condition(col, op, v) == [var |-> "n", col |-> col, op |-> op, vals |-> {v}, neg |-> FALSE]

\* For every column and literal, = and <> split the stored rows in two, by
\* both evaluators: the row without a value is on exactly one side (#606, #892).
\* No query changes the rows, so they are looked at between queries.
EqNePartition ==
    pc = "idle" => \A r \in corpus : \A p \in {"doc"} \X {"", "x"} \cup {"test"} \X {"true", "false", "1", "0"} :
        LET eq == Condition(p[1], "=", p[2])
            ne == Condition(p[1], "<>", p[2])
        IN /\ (CondLeafToSQL(eq, r) = "T") # (CondLeafToSQL(ne, r) = "T")
           /\ EvalCondition(eq, r) # EvalCondition(ne, r)
           /\ EvalCondition(eq, r) <=> CondLeafToSQL(eq, r) = "T"

\* A node query whose WHERE is all in SQL answers with the true first rows of
\* its ORDER BY, as many as LIMIT and MaxRows allow, though the scan fetched
\* only some of the matching rows (#847).
TopN ==
    (pc = "built" /\ q.shape = "rows" /\ ~q.join /\ Plan(q).go = {}) =>
        /\ Len(res) = Min({Limit(q), MaxRows, Cardinality(Selected(q))})
        /\ \A i \in DOMAIN res : \A r \in Selected(q) :
              Before(q.order, r, res[i]) => \E j \in 1..i-1 : res[j] = r

\* An aggregate or DISTINCT speaks of the whole table and never of the part a
\* scan budget lets through; an edge found by several passes counts once
\* (#308, #348, #591, #906, #929).
AggregatesExact ==
    pc = "built" =>
        /\ q.shape = "count" /\ q.limit # 0 => res[1].n = Cardinality(Keys(Answer))
        /\ q.shape = "countdoc" /\ q.limit # 0 =>
              res[1].n = Cardinality(Keys({r \in Answer : r.doc # Null}))
        /\ q.shape = "group" =>
              \A i \in DOMAIN res :
                 res[i].n = Cardinality(Keys({r \in Answer : Flag(r) = res[i].test}))
        /\ q.shape = "distinct" =>
              LET nums == {r.num : r \in Answer}
              IN /\ Len(res) = Min({Limit(q), MaxRows, Cardinality(nums)})
                 /\ q.order # "none" => \A i \in DOMAIN res : \A n \in nums :
                      Before(q.order, [num |-> n], res[i])
                         => \E j \in 1..i-1 : res[j].num = n

============================================================================
