-------------------------- MODULE QueryFilterProofs --------------------------
(***************************************************************************)
(* What the two evaluators of a WHERE, the scan limit and buildResult      *)
(* promise together, for every table, every WHERE tree and every limit.    *)
(***************************************************************************)
EXTENDS QueryFilter, FiniteSetTheorems, SequenceTheorems, WellFoundedInduction, TLAPS

-----------------------------------------------------------------------------
(* One condition *)

\* The leaves of a tree are read alike in a row by both evaluators.
Alike(w, r) == \A c \in Leaves(w) : ReadAlike(c, r)

\* A condition of a bound variable and a column that SQL can be given.
Translates(c) == Bound(c) /\ c.col \in Cols /\ (PushableOp(c.op) \/ c.op = "IN")

LEMMA SingleLit ==
    ASSUME NEW c, IsCondition(c), c.op \in {"=", "<>"}
    PROVE  \E v : c.vals = {v} /\ v # Null /\ Lit(c) = CoerceBoolLiteral(c.col, v)
<1>1. PICK v : c.vals = {v} /\ v # Null
  BY DEF IsCondition
<1>2. Lits(c) = {CoerceBoolLiteral(c.col, v)}
  BY <1>1 DEF Lits
<1> QED
  BY <1>1, <1>2 DEF Lit

\* Only of a row without a value a condition is neither true nor false.
LEMMA LeafValue ==
    ASSUME NEW c, IsCondition(c), Translates(c), NEW r \in Rows
    PROVE  /\ CondLeafToSQL(c, r) \in {"T", "F", "U"}
           /\ HasValues(r) => CondLeafToSQL(c, r) \in {"T", "F"}
<1>1. c.col \in {"doc", "test", "num"}
  BY DEF Translates, Cols
<1> DEFINE known(b) == IF c.col # "num" /\ r[c.col] = Null THEN "U" ELSE Truth(b)
<1>2. ASSUME NEW b
      PROVE  /\ Truth(b) \in {"T", "F"} /\ known(b) \in {"T", "F", "U"}
             /\ HasValues(r) => known(b) \in {"T", "F"}
  BY <1>1 DEF Truth, HasValues
<1> HIDE DEF known
<1>3. CASE c.op \in Comparisons
  <2>1. CondLeafToSQL(c, r) = known(Compare(c.op, Sorted(c, r), Threshold))
    BY <1>3 DEF CondLeafToSQL, Comparisons, TextOps, known
  <2> QED
    BY <1>2, <2>1
<1>4. CASE c.op \in TextOps
  <2>1. CondLeafToSQL(c, r) = known(Like(r[c.col], c.vals))
    BY <1>4 DEF CondLeafToSQL, Comparisons, TextOps, known
  <2> QED
    BY <1>2, <2>1
<1>5. CASE c.op = "IS NULL"
  <2>1. CondLeafToSQL(c, r) = Truth(r[c.col] \in {Null, ""})
    BY <1>5 DEF CondLeafToSQL, Comparisons, TextOps
  <2> QED
    BY <1>2, <2>1
<1>6. CASE c.op = "IS NOT NULL"
  <2>1. CondLeafToSQL(c, r) = Truth(r[c.col] \notin {Null, ""})
    BY <1>6 DEF CondLeafToSQL, Comparisons, TextOps
  <2> QED
    BY <1>2, <2>1
<1>7. CASE c.op = "IN"
  <2>1. CondLeafToSQL(c, r) = known(r[c.col] \in Lits(c))
    BY <1>7 DEF CondLeafToSQL, Comparisons, TextOps, known
  <2> QED
    BY <1>2, <2>1
<1>8. CASE c.op = "="
  <2>1. CondLeafToSQL(c, r) = IF IsZeroValuePredicate(c.col, Lit(c)) THEN Truth(r[c.col] \in {Null, Lit(c)})
                              ELSE known(r[c.col] = Lit(c))
    BY <1>8 DEF CondLeafToSQL, Comparisons, TextOps, known
  <2> QED
    BY <1>2, <2>1
<1>9. CASE c.op = "<>"
  <2>1. CondLeafToSQL(c, r) = Truth(NotEqualInSQL(r[c.col], Lit(c), IsZeroValuePredicate(c.col, Lit(c))))
    BY <1>9 DEF CondLeafToSQL, Comparisons, TextOps
  <2> QED
    BY <1>2, <2>1
<1> QED
  BY <1>3, <1>4, <1>5, <1>6, <1>7, <1>8, <1>9 DEF Translates, PushableOp

LEMMA EvalIsBoolean ==
    ASSUME NEW c, IsCondition(c), NEW r
    PROVE  EvalCondition(c, r) \in BOOLEAN
<1>1. c.op \in Ops
  BY DEF IsCondition
<1> USE DEF Comparisons, TextOps
<1>2. CASE c.op = "cross"
  BY <1>2 DEF EvalCondition
<1>3. CASE c.op = "="
  BY <1>3 DEF EvalCondition
<1>4. CASE c.op = "<>"
  BY <1>4 DEF EvalCondition
<1>5. CASE c.op \in TextOps \cup {"=~"}
  <2>1. EvalCondition(c, r) = (ScanSymRow(c, r) \in c.vals)
    BY <1>5 DEF EvalCondition
  <2>2. (ScanSymRow(c, r) \in c.vals) \in BOOLEAN
    OBVIOUS
  <2> QED
    BY <2>1, <2>2, Zenon
<1>6. CASE c.op \in Comparisons
  <2>1. EvalCondition(c, r) = (Bound(c) /\ c.col = "num" /\ Compare(c.op, r.num, Threshold))
    BY <1>6 DEF EvalCondition
  <2> QED
    BY <2>1
<1>7. CASE c.op = "IS NULL"
  <2>1. EvalCondition(c, r) = (ScanSymRow(c, r) \in {Null, ""})
    BY <1>7 DEF EvalCondition
  <2>2. (ScanSymRow(c, r) \in {Null, ""}) \in BOOLEAN
    OBVIOUS
  <2> QED
    BY <2>1, <2>2, Zenon
<1>8. CASE c.op = "IS NOT NULL"
  BY <1>8 DEF EvalCondition
<1>9. CASE c.op = "IN"
  BY <1>9 DEF EvalCondition
<1> QED
  BY <1>1, <1>2, <1>3, <1>4, <1>5, <1>6, <1>7, <1>8, <1>9 DEF Ops

\* SQL selects a row by a condition exactly when Go lets it pass.
LEMMA LeafAgrees ==
    ASSUME NEW c, IsCondition(c), Translates(c), NEW r \in Rows, ReadAlike(c, r)
    PROVE  CondLeafToSQL(c, r) = "T" <=> EvalCondition(c, r)
<1> USE RowsAssumption
<1>1. /\ c.col \in {"doc", "test", "num"} /\ (c.col = "num" => c.op \in Comparisons)
      /\ c.op \in {"=", "<>", "IN", "IS NULL", "IS NOT NULL"} \cup Comparisons \cup TextOps
  BY DEF IsCondition, Translates, Cols, PushableOp, Comparisons, TextOps
<1> DEFINE x == r[c.col]
           a == ScanSymRow(c, r)
           known(b) == IF c.col # "num" /\ x = Null THEN "U" ELSE Truth(b)
<1>2. CASE c.op \in Comparisons
  <2>1. c.col = "num"
    BY <1>1, <1>2 DEF ReadAlike
  <2>2. CondLeafToSQL(c, r) = known(Compare(c.op, Sorted(c, r), Threshold))
    BY <1>2 DEF CondLeafToSQL, Comparisons, TextOps
  <2>3. Sorted(c, r) = r.num
    BY <2>1 DEF Sorted
  <2>4. EvalCondition(c, r) = (Bound(c) /\ c.col = "num" /\ Compare(c.op, r.num, Threshold))
    BY <1>2 DEF EvalCondition, Comparisons, TextOps
  <2> QED
    BY <2>1, <2>2, <2>3, <2>4 DEF Truth, Translates
<1>3. c.col = "doc" => x = r.doc /\ a = r.doc
  BY DEF ScanSymRow, Translates, Cols
<1>4. c.col = "test" => x = r.test /\ a = IF r.test = "1" THEN "true" ELSE "false"
  BY DEF ScanSymRow, Flag, Translates, Cols
<1>t. CASE c.op \in TextOps
  <2>1. c.col = "doc" /\ IF r.doc = Null THEN Null \notin c.vals
                                          ELSE \A v \in c.vals : Lower[v] = Lower[r.doc] => r.doc \in c.vals
    BY <1>1, <1>t DEF ReadAlike, Comparisons, TextOps
  <2>2. CondLeafToSQL(c, r) = known(Like(x, c.vals)) /\ EvalCondition(c, r) = (a \in c.vals)
    BY <1>t DEF CondLeafToSQL, EvalCondition, Comparisons, TextOps
  <2>3. r.doc \in c.vals => Like(r.doc, c.vals)
    BY DEF Like
  <2>4. Like(r.doc, c.vals) => \E v \in c.vals : Lower[v] = Lower[r.doc]
    BY DEF Like
  <2> QED
    BY <1>3, <2>1, <2>2, <2>3, <2>4 DEF Truth
<1>5. CASE c.op = "IS NULL"
  <2>1. CondLeafToSQL(c, r) = Truth(x \in {Null, ""}) /\ EvalCondition(c, r) = (a \in {Null, ""})
    BY <1>5 DEF CondLeafToSQL, EvalCondition, Comparisons, TextOps
  <2>2. c.col \in {"doc", "test"} /\ (c.col = "test" => r.test # Null)
    BY <1>1, <1>5 DEF ReadAlike, Comparisons
  <2> QED
    BY <1>3, <1>4, <2>1, <2>2 DEF Truth, Null
<1>6. CASE c.op = "IS NOT NULL"
  <2>1. CondLeafToSQL(c, r) = Truth(x \notin {Null, ""}) /\ EvalCondition(c, r) = (a \notin {Null, ""})
    BY <1>6 DEF CondLeafToSQL, EvalCondition, Comparisons, TextOps
  <2>2. c.col \in {"doc", "test"} /\ (c.col = "test" => r.test # Null)
    BY <1>1, <1>6 DEF ReadAlike, Comparisons
  <2> QED
    BY <1>3, <1>4, <2>1, <2>2 DEF Truth, Null
\* A literal means the same to both, on a text and on a boolean column.
<1> DEFINE same(v) == a = v \/ SameBool(a, v)
           Literals == c.op \in {"=", "<>", "IN"}
<1>l. Literals => c.col \in {"doc", "test"}
  BY <1>1 DEF Comparisons
<1>7. ASSUME NEW v, v \in c.vals, v # Null, Literals
      PROVE  x # Null => (x = CoerceBoolLiteral(c.col, v) <=> same(v))
  <2>1. CASE c.col = "doc"
    <3>1. SameBool(r.doc, v) => r.doc = v
      BY <1>7, <2>1 DEF ReadAlike
    <3> QED
      BY <1>3, <2>1, <3>1 DEF CoerceBoolLiteral, IsBoolCol
  <2>2. CASE c.col = "test"
    <3>1. v \notin {"True", "False"}
      BY <1>7, <2>2 DEF ReadAlike
    <3> QED
      BY <1>4, <2>2, <3>1 DEF CoerceBoolLiteral, IsBoolCol, SameBool, Null
  <2> QED
    BY <1>7, <1>l, <2>1, <2>2
<1>8. ASSUME x = Null, c.col = "doc" PROVE a = Null /\ \A v : v # Null => ~same(v)
  BY <1>3, <1>8 DEF Null, SameBool
<1>9. ASSUME x # Null, Literals PROVE a # Null
  BY <1>3, <1>4, <1>9, <1>l DEF Null
\* A flag without a value is false to Go, and to SQL asks for false.
<1>f. ASSUME x = Null, c.col = "test", Literals
      PROVE  /\ a # Null /\ c.op \in {"=", "<>"}
             /\ \A v \in c.vals : same(v) <=> IsZeroValuePredicate(c.col, CoerceBoolLiteral(c.col, v))
  <2>1. c.op \in {"=", "<>"} /\ "" \notin c.vals /\ c.vals \cap {"True", "False"} = {}
    BY <1>4, <1>f DEF ReadAlike
  <2>2. a = "false"
    BY <1>4, <1>f DEF Null
  <2> HIDE DEF a
  <2> QED
    BY <1>f, <2>1, <2>2 DEF CoerceBoolLiteral, IsBoolCol, SameBool, IsZeroValuePredicate, Null
<1> HIDE DEF x, a, same
<1>10. CASE c.op = "IN"
  <2>1. CondLeafToSQL(c, r) = IF x = Null THEN "U" ELSE Truth(x \in Lits(c))
    BY <1>10, <1>l DEF CondLeafToSQL, Comparisons, TextOps, x
  <2>2. EvalCondition(c, r) = (a # Null /\ \E v \in c.vals : same(v))
    BY <1>10 DEF EvalCondition, Comparisons, TextOps, a, same
  <2>3. \A v \in c.vals : v # Null
    BY <1>10 DEF IsCondition
  <2>4. CASE x = Null
    BY <1>8, <1>10, <1>f, <1>l, <2>1, <2>2, <2>4
  <2>5. CASE x # Null
    <3>1. x \in Lits(c) <=> \E v \in c.vals : x = CoerceBoolLiteral(c.col, v)
      BY DEF Lits
    <3> QED
      BY <1>7, <1>9, <1>10, <2>1, <2>2, <2>3, <2>5, <3>1 DEF Truth
  <2> QED
    BY <2>4, <2>5
<1>11. ASSUME c.op \in {"=", "<>"}
       PROVE  \E v : c.vals = {v} /\ v # Null /\ Lit(c) = CoerceBoolLiteral(c.col, v)
  BY <1>11, SingleLit
<1>12. ASSUME NEW v, c.vals = {v}, v # Null, Lit(c) = CoerceBoolLiteral(c.col, v), c.col = "doc"
       PROVE  IsZeroValuePredicate(c.col, Lit(c)) <=> v = ""
  BY <1>12 DEF IsZeroValuePredicate, CoerceBoolLiteral, IsBoolCol
<1>0. ASSUME NEW v, v # Null PROVE CoerceBoolLiteral(c.col, v) # Null
  BY <1>0 DEF CoerceBoolLiteral, Null
<1> DEFINE none == \E v \in c.vals : v = "" \/ (IsBoolCol(c.col) /\ v \in {"false", "0"})
           zero == IsZeroValuePredicate(c.col, Lit(c))
<1>13. CASE c.op = "="
  <2>1. CondLeafToSQL(c, r) = IF zero THEN Truth(x \in {Null, Lit(c)})
                              ELSE IF x = Null THEN "U" ELSE Truth(x = Lit(c))
    BY <1>13, <1>l DEF CondLeafToSQL, Comparisons, TextOps, x
  <2>2. EvalCondition(c, r) = ((a = Null /\ none) \/ \E v \in c.vals : same(v))
    BY <1>13 DEF EvalCondition, Comparisons, TextOps, a, same
  <2>3. PICK v : c.vals = {v} /\ v # Null /\ Lit(c) = CoerceBoolLiteral(c.col, v)
    BY <1>11, <1>13
  <2>4. CASE x = Null /\ c.col = "doc"
    <3>1. zero <=> v = ""
      BY <1>12, <1>13, <2>3, <2>4
    <3>2. none <=> v = ""
      BY <1>8, <1>13, <2>3, <2>4 DEF IsBoolCol
    <3> HIDE DEF none, zero
    <3> QED
      BY <1>8, <1>13, <2>1, <2>2, <2>3, <2>4, <3>1, <3>2 DEF Truth
  <2>f. CASE x = Null /\ c.col = "test"
    <3> HIDE DEF none, zero
    <3>1. a # Null /\ (same(v) <=> zero)
      BY <1>f, <1>13, <2>3, <2>f DEF zero
    <3>2. x # Lit(c)
      BY <1>0, <2>3, <2>f
    <3> QED
      BY <1>13, <2>1, <2>2, <2>3, <2>f, <3>1, <3>2 DEF Truth
  <2>5. CASE x # Null
    <3> HIDE DEF none, zero
    <3>1. x = Lit(c) <=> same(v)
      BY <1>7, <1>13, <2>3, <2>5
    <3> QED
      BY <1>9, <1>13, <2>1, <2>2, <2>3, <2>5, <3>1 DEF Truth
  <2> QED
    BY <1>13, <1>l, <2>4, <2>5, <2>f
<1>14. CASE c.op = "<>"
  <2>1. CondLeafToSQL(c, r) = Truth(x # Lit(c) /\ (zero => x # Null))
    BY <1>14 DEF CondLeafToSQL, NotEqualInSQL, Comparisons, TextOps, x
  <2>2. EvalCondition(c, r) = IF a = Null THEN ~none ELSE \A v \in c.vals : ~same(v)
    BY <1>14 DEF EvalCondition, Comparisons, TextOps, a, same
  <2>3. PICK v : c.vals = {v} /\ v # Null /\ Lit(c) = CoerceBoolLiteral(c.col, v)
    BY <1>11, <1>14
  <2>4. CASE x = Null /\ c.col = "doc"
    <3>1. zero <=> v = ""
      BY <1>12, <1>14, <2>3, <2>4
    <3>2. none <=> v = ""
      BY <1>8, <1>14, <2>3, <2>4 DEF IsBoolCol
    <3>3. x # Lit(c)
      BY <1>8, <1>14, <2>3, <2>4 DEF CoerceBoolLiteral, IsBoolCol, Null
    <3> HIDE DEF none, zero
    <3> QED
      BY <1>8, <1>14, <2>1, <2>2, <2>3, <2>4, <3>1, <3>2, <3>3 DEF Truth
  <2>f. CASE x = Null /\ c.col = "test"
    <3> HIDE DEF none, zero
    <3>1. a # Null /\ (same(v) <=> zero)
      BY <1>f, <1>14, <2>3, <2>f DEF zero
    <3>2. x # Lit(c)
      BY <1>0, <2>3, <2>f
    <3> QED
      BY <1>14, <2>1, <2>2, <2>3, <2>f, <3>1, <3>2 DEF Truth
  <2>5. CASE x # Null
    <3> HIDE DEF none, zero
    <3>1. x = Lit(c) <=> same(v)
      BY <1>7, <1>14, <2>3, <2>5
    <3> QED
      BY <1>9, <1>14, <2>1, <2>2, <2>3, <2>5, <3>1 DEF Truth
  <2> QED
    BY <1>14, <1>l, <2>4, <2>5, <2>f
<1> QED
  BY <1>1, <1>2, <1>t, <1>5, <1>6, <1>10, <1>13, <1>14

\* = and <> of a literal: a row is on one side, by both evaluators.
LEMMA EitherSide ==
    ASSUME NEW r \in Rows, NEW col \in {"doc", "test"}, NEW v \in {"", "x", "true", "false", "1", "0"},
           col = "doc" => v \in {"", "x"}, col = "test" => v \in {"true", "false", "1", "0"}
    PROVE  LET eq == Condition(col, "=", v)
               ne == Condition(col, "<>", v)
           IN  /\ (CondLeafToSQL(eq, r) = "T") # (CondLeafToSQL(ne, r) = "T")
               /\ EvalCondition(eq, r) # EvalCondition(ne, r)
               /\ EvalCondition(eq, r) <=> CondLeafToSQL(eq, r) = "T"
<1> DEFINE eq == Condition(col, "=", v)
           ne == Condition(col, "<>", v)
<1>1. /\ eq.var = "n" /\ eq.col = col /\ eq.op = "=" /\ eq.vals = {v} /\ eq.neg = FALSE
      /\ ne.var = "n" /\ ne.col = col /\ ne.op = "<>" /\ ne.vals = {v} /\ ne.neg = FALSE
  BY DEF Condition
<1> HIDE DEF eq, ne
<1>2. IsCondition(eq) /\ IsCondition(ne)
  BY <1>1 DEF IsCondition, Ops, Null
<1>3. Translates(eq) /\ Translates(ne)
  BY <1>1 DEF Translates, Bound, Cols, PushableOp
<1>4. ReadAlike(eq, r) /\ ReadAlike(ne, r)
  BY <1>1 DEF ReadAlike, SameBool, Comparisons, TextOps
<1>5. CondLeafToSQL(eq, r) = "T" <=> EvalCondition(eq, r)
  BY <1>1, <1>2, <1>3, <1>4, LeafAgrees
<1>6. CondLeafToSQL(ne, r) = "T" <=> EvalCondition(ne, r)
  BY <1>1, <1>2, <1>3, <1>4, LeafAgrees
<1> DEFINE a == ScanSymRow(eq, r)
           same(u) == a = u \/ SameBool(a, u)
           none == v = "" \/ (IsBoolCol(col) /\ v \in {"false", "0"})
<1>7. ScanSymRow(ne, r) = a
  BY <1>1 DEF ScanSymRow, Bound
<1>8. EvalCondition(eq, r) = ((a = Null /\ none) \/ same(v))
  BY <1>1 DEF EvalCondition, Comparisons, TextOps
<1>9. EvalCondition(ne, r) = IF a = Null THEN ~none ELSE ~same(v)
  BY <1>1, <1>7 DEF EvalCondition, Comparisons, TextOps
<1>10. a = Null => ~same(v)
  BY DEF SameBool, Null
<1> HIDE DEF a, same, none
<1>11. EvalCondition(eq, r) # EvalCondition(ne, r)
  BY <1>8, <1>9, <1>10
<1> QED
  <2>1. EvalCondition(eq, r) <=> ~ EvalCondition(ne, r)
    BY <1>8, <1>9, <1>10
  <2>2. (CondLeafToSQL(eq, r) = "T") # (CondLeafToSQL(ne, r) = "T")
    BY <1>5, <1>6, <2>1
  <2> QED
    BY <1>5, <1>11, <2>2 DEF eq, ne

-----------------------------------------------------------------------------
(* The evaluators over a tree *)

\* A nonempty set of numbers has a least one.
LEMMA LeastOf ==
    ASSUME NEW S \in SUBSET Nat, S # {}
    PROVE  \E m \in S : \A k \in S : m <= k
<1> DEFINE R == OpToRel(<, Nat)
<1>1. IsWellFoundedOn(R, Nat)
  BY NatLessThanWellFounded
<1>2. PICK m \in S : \A k \in S : ~ (<<k, m>> \in R)
  BY <1>1, WFMin
<1>3. ASSUME NEW k \in S PROVE m <= k
  <2>1. ~ (k < m)
    BY <1>2, <1>3 DEF R, OpToRel
  <2> QED
    BY <2>1
<1> QED
  BY <1>3

\* The first n positions are n.
LEMMA Positions == \A n \in Nat : IsFiniteSet(1 .. n) /\ Cardinality(1 .. n) = n
<1> SUFFICES ASSUME NEW n \in Nat PROVE IsFiniteSet(1 .. n) /\ Cardinality(1 .. n) = n
  OBVIOUS
<1>1. IsFiniteSet(1 .. n) /\ Cardinality(1 .. n) = IF 1 > n THEN 0 ELSE n - 1 + 1
  BY FS_Interval
<1> QED
  BY <1>1

LEMMA TreeFacts ==
    ASSUME NEW w, IsTree(w)
    PROVE  /\ Len(w) \in Nat /\ DOMAIN w = 1 .. Len(w) /\ (w = <<>> <=> Len(w) = 0)
           /\ \A i \in 1 .. Len(w) :
                 /\ w[i].t \in {"leaf", "AND", "OR", "NOT"}
                 /\ w[i].t = "leaf" => IsCondition(w[i].c) /\ w[i].c \in Leaves(w)
                 /\ w[i].t \in {"AND", "OR"} => w[i].l \in 1 .. i - 1 /\ w[i].r \in 1 .. i - 1
                 /\ w[i].t = "NOT" => w[i].e \in 1 .. i - 1
<1> DEFINE S == {w[i] : i \in DOMAIN w}
<1>1. w \in Seq(S)
  BY DEF IsTree
<1> HIDE DEF S
<1>2. Len(w) \in Nat /\ DOMAIN w = 1 .. Len(w) /\ (w = <<>> <=> Len(w) = 0)
  BY <1>1
<1>3. ASSUME NEW i \in 1 .. Len(w)
      PROVE  /\ w[i].t \in {"leaf", "AND", "OR", "NOT"}
             /\ w[i].t = "leaf" => IsCondition(w[i].c) /\ w[i].c \in Leaves(w)
             /\ w[i].t \in {"AND", "OR"} => w[i].l \in 1 .. i - 1 /\ w[i].r \in 1 .. i - 1
             /\ w[i].t = "NOT" => w[i].e \in 1 .. i - 1
  <2>1. /\ w[i].t \in {"leaf", "AND", "OR", "NOT"}
        /\ w[i].t = "leaf" => IsCondition(w[i].c)
        /\ \A k \in Operands(w[i]) : k \in 1 .. i - 1
    BY <1>2 DEF IsTree
  <2>2. w[i].t = "leaf" => w[i].c \in Leaves(w)
    BY <1>2 DEF Leaves
  <2>3. w[i].t \in {"AND", "OR"} => Operands(w[i]) = {w[i].l, w[i].r}
    BY DEF Operands
  <2>4. w[i].t = "NOT" => Operands(w[i]) = {w[i].e}
    BY DEF Operands
  <2> QED
    BY <2>1, <2>2, <2>3, <2>4
<1> QED
  BY <1>2, <1>3

\* What MatchesWhere computes at a node from the values of its operands.
GoNode(w, r, val, i) ==
    CASE w[i].t = "leaf" -> EvalCondition(w[i].c, r) # w[i].c.neg
      [] w[i].t = "AND"  -> val[w[i].l] /\ val[w[i].r]
      [] w[i].t = "OR"   -> val[w[i].l] \/ val[w[i].r]
      [] OTHER           -> ~val[w[i].e]

LEMMA GoNodeLocal ==
    ASSUME NEW w, IsTree(w), NEW r, NEW i \in 1 .. Len(w), NEW f, NEW g,
           \A k \in 1 .. i - 1 : f[k] \in BOOLEAN /\ f[k] = g[k]
    PROVE  GoNode(w, r, f, i) = GoNode(w, r, g, i) /\ GoNode(w, r, f, i) \in BOOLEAN
<1>1. /\ w[i].t \in {"leaf", "AND", "OR", "NOT"}
      /\ w[i].t \in {"AND", "OR"} => w[i].l \in 1 .. i - 1 /\ w[i].r \in 1 .. i - 1
      /\ w[i].t = "NOT" => w[i].e \in 1 .. i - 1
  BY TreeFacts
<1>2. CASE w[i].t = "leaf"
  BY <1>2 DEF GoNode
<1>3. CASE w[i].t = "AND"
  <2>1. f[w[i].l] = g[w[i].l] /\ f[w[i].r] = g[w[i].r]
    BY <1>1, <1>3
  <2>2. GoNode(w, r, f, i) = (f[w[i].l] /\ f[w[i].r]) /\ GoNode(w, r, g, i) = (g[w[i].l] /\ g[w[i].r])
    BY <1>3 DEF GoNode
  <2> QED
    BY <2>1, <2>2
<1>4. CASE w[i].t = "OR"
  <2>1. f[w[i].l] = g[w[i].l] /\ f[w[i].r] = g[w[i].r]
    BY <1>1, <1>4
  <2>2. GoNode(w, r, f, i) = (f[w[i].l] \/ f[w[i].r]) /\ GoNode(w, r, g, i) = (g[w[i].l] \/ g[w[i].r])
    BY <1>4 DEF GoNode
  <2> QED
    BY <2>1, <2>2
<1>5. CASE w[i].t = "NOT"
  <2>1. f[w[i].e] = g[w[i].e]
    BY <1>1, <1>5
  <2>2. GoNode(w, r, f, i) = (~ f[w[i].e]) /\ GoNode(w, r, g, i) = (~ g[w[i].e])
    BY <1>5 DEF GoNode
  <2> QED
    BY <2>1, <2>2
<1> QED
  BY <1>1, <1>2, <1>3, <1>4, <1>5

\* Every tree has its values: were there a first node without one, it would
\* get it from its operands.
LEMMA GoExists ==
    ASSUME NEW w, IsTree(w), NEW r
    PROVE  \E f \in [1 .. Len(w) -> BOOLEAN] : \A i \in 1 .. Len(w) : f[i] = GoNode(w, r, f, i)
<1> DEFINE n == Len(w)
           Val(k, f) == \A i \in 1 .. k : f[i] = GoNode(w, r, f, i)
           S == {k \in 0 .. n : ~ \E f \in [1 .. k -> BOOLEAN] : Val(k, f)}
<1>1. n \in Nat
  BY TreeFacts
<1>2. CASE S = {}
  <2>1. n \in 0 .. n
    BY <1>1
  <2> QED
    BY <1>2, <2>1
<1>3. CASE S # {}
  <2>1. S \in SUBSET Nat
    OBVIOUS
  <2> HIDE DEF S
  <2>2. PICK m \in S : \A k \in S : m <= k
    BY <1>3, <2>1, LeastOf
  <2>3. m \in 0 .. n /\ ~ \E f \in [1 .. m -> BOOLEAN] : Val(m, f)
    BY DEF S
  <2>4. CASE m = 0
    <3> DEFINE f == [i \in 1 .. 0 |-> TRUE]
    <3>1. f \in [1 .. m -> BOOLEAN] /\ Val(m, f)
      BY <2>4
    <3> QED
      BY <2>3, <3>1
  <2>5. CASE m # 0
    <3>1. m \in Nat /\ m - 1 \in 0 .. n /\ m - 1 < m /\ m \in 1 .. n
      BY <1>1, <2>3, <2>5
    <3>2. m - 1 \notin S
      BY <2>2, <3>1
    <3>3. PICK f \in [1 .. m - 1 -> BOOLEAN] : Val(m - 1, f)
      BY <3>1, <3>2 DEF S
    <3> DEFINE g == [i \in 1 .. m |-> IF i = m THEN GoNode(w, r, f, m) ELSE f[i]]
    <3>4. \A k \in 1 .. m - 1 : f[k] \in BOOLEAN /\ f[k] = g[k]
      BY <3>1
    <3>5. ASSUME NEW i \in 1 .. m PROVE GoNode(w, r, f, i) = GoNode(w, r, g, i) /\ GoNode(w, r, f, i) \in BOOLEAN
      <4>1. i \in 1 .. Len(w) /\ \A k \in 1 .. i - 1 : k \in 1 .. m - 1
        BY <3>1
      <4> HIDE DEF g
      <4> QED
        BY <3>4, <4>1, GoNodeLocal
    <3>6. g[m] = GoNode(w, r, f, m) /\ m \in 1 .. m
      BY <3>1
    <3>7. g \in [1 .. m -> BOOLEAN]
      <4>1. ASSUME NEW i \in 1 .. m PROVE g[i] \in BOOLEAN
        <5>1. CASE i = m
          BY <3>5, <3>6, <5>1
        <5>2. CASE i # m
          <6>1. i \in 1 .. m - 1
            BY <3>1, <5>2
          <6> QED
            BY <3>4, <6>1
        <5> QED
          BY <5>1, <5>2
      <4> QED
        BY <4>1
    <3>8. ASSUME NEW i \in 1 .. m PROVE g[i] = GoNode(w, r, g, i)
      <4>1. CASE i = m
        BY <3>5, <3>6, <4>1
      <4>2. CASE i # m
        <5>1. i \in 1 .. m - 1
          BY <3>1, <4>2
        <5>2. f[i] = GoNode(w, r, f, i)
          BY <3>3, <5>1
        <5> HIDE DEF g
        <5> QED
          BY <3>4, <3>5, <5>1, <5>2
      <4> QED
        BY <4>1, <4>2
    <3> QED
      BY <2>3, <3>7, <3>8
  <2> QED
    BY <2>4, <2>5
<1> QED
  BY <1>2, <1>3

LEMMA GoValues ==
    ASSUME NEW w, IsTree(w), NEW r
    PROVE  \E f \in [1 .. Len(w) -> BOOLEAN] :
               /\ \A i \in 1 .. Len(w) : f[i] = GoNode(w, r, f, i)
               /\ MatchesWhere(w, r) <=> (w = <<>> \/ f[Len(w)])
<1> DEFINE n == Len(w)
           Rec(f) == [i \in DOMAIN w |-> CASE w[i].t = "leaf" -> EvalCondition(w[i].c, r) # w[i].c.neg
                                           [] w[i].t = "AND"  -> f[w[i].l] /\ f[w[i].r]
                                           [] w[i].t = "OR"   -> f[w[i].l] \/ f[w[i].r]
                                           [] OTHER           -> ~f[w[i].e]]
<1>1. n \in Nat /\ DOMAIN w = 1 .. n
  BY TreeFacts
<1>2. \A f : Rec(f) = [i \in 1 .. n |-> GoNode(w, r, f, i)]
  BY <1>1, Zenon DEF GoNode
<1>3. PICK f \in [1 .. n -> BOOLEAN] : \A i \in 1 .. n : f[i] = GoNode(w, r, f, i)
  BY GoExists
<1> DEFINE u == CHOOSE g : g = Rec(g)
<1>4. MatchesWhere(w, r) = (w = <<>> \/ u[n])
  BY Zenon DEF MatchesWhere, NoWhere
<1> HIDE DEF Rec
<1>5. f = Rec(f)
  <2>1. f = [i \in 1 .. n |-> f[i]]
    OBVIOUS
  <2> QED
    BY <1>2, <1>3, <2>1
<1>6. u = Rec(u)
  BY <1>5, Zenon
<1> HIDE DEF u, n
<1>7. u = [i \in 1 .. n |-> GoNode(w, r, u, i)]
  BY <1>2, <1>6
\* There is only one solution.
<1>8. ASSUME NEW i \in 1 .. n PROVE u[i] = f[i]
  <2> DEFINE S == {k \in 1 .. n : u[k] # f[k]}
  <2>1. CASE S = {}
    BY <2>1
  <2>2. CASE S # {}
    <3>1. S \in SUBSET Nat
      OBVIOUS
    <3> HIDE DEF S
    <3>2. PICK m \in S : \A k \in S : m <= k
      BY <2>2, <3>1, LeastOf
    <3>3. m \in 1 .. n /\ u[m] # f[m]
      BY DEF S
    <3>4. \A k \in 1 .. m - 1 : k \in 1 .. n /\ ~ (m <= k)
      BY <1>1, <3>3
    <3>5. \A k \in 1 .. m - 1 : f[k] \in BOOLEAN /\ f[k] = u[k]
      BY <3>2, <3>4 DEF S
    <3>6. GoNode(w, r, f, m) = GoNode(w, r, u, m)
      BY <3>3, <3>5, GoNodeLocal DEF n
    <3>7. u[m] = GoNode(w, r, u, m)
      BY <1>7, <3>3
    <3> QED
      BY <1>3, <3>3, <3>6, <3>7
  <2> QED
    BY <2>1, <2>2
<1>9. w # <<>> => u[n] = f[n]
  <2>1. w # <<>> => n \in 1 .. n
    BY <1>1, TreeFacts DEF n
  <2> QED
    BY <1>8, <2>1
<1>10. MatchesWhere(w, r) <=> (w = <<>> \/ f[n])
  BY <1>4, <1>9
<1> QED
  BY <1>3, <1>10 DEF n

\* The same for the expression SQL is given.
SQLNode(w, r, val, i) ==
    CASE w[i].t = "leaf" -> IF w[i].c.neg THEN Not3(CondLeafToSQL(w[i].c, r))
                                          ELSE CondLeafToSQL(w[i].c, r)
      [] w[i].t = "AND"  -> And3(val[w[i].l], val[w[i].r])
      [] w[i].t = "OR"   -> Or3(val[w[i].l], val[w[i].r])
      [] OTHER           -> Not3(val[w[i].e])

LEMMA SQLNodeIs ==
    ASSUME NEW w, NEW r, NEW f, NEW i
    PROVE  /\ w[i].t = "leaf" => SQLNode(w, r, f, i) = IF w[i].c.neg THEN Not3(CondLeafToSQL(w[i].c, r))
                                                                     ELSE CondLeafToSQL(w[i].c, r)
           /\ w[i].t = "AND" => SQLNode(w, r, f, i) = And3(f[w[i].l], f[w[i].r])
           /\ w[i].t = "OR" => SQLNode(w, r, f, i) = Or3(f[w[i].l], f[w[i].r])
           /\ w[i].t = "NOT" => SQLNode(w, r, f, i) = Not3(f[w[i].e])
<1>1. CASE w[i].t = "leaf"
  BY <1>1 DEF SQLNode
<1>2. CASE w[i].t = "AND"
  BY <1>2 DEF SQLNode
<1>3. CASE w[i].t = "OR"
  BY <1>3 DEF SQLNode
<1>4. CASE w[i].t = "NOT"
  BY <1>4 DEF SQLNode
<1> QED
  BY <1>1, <1>2, <1>3, <1>4

LEMMA SQLNodeLocal ==
    ASSUME NEW w, IsTree(w), NEW r, NEW i \in 1 .. Len(w), NEW f, NEW g,
           \A k \in 1 .. i - 1 : f[k] = g[k]
    PROVE  SQLNode(w, r, f, i) = SQLNode(w, r, g, i)
<1>1. /\ w[i].t \in {"leaf", "AND", "OR", "NOT"}
      /\ w[i].t \in {"AND", "OR"} => w[i].l \in 1 .. i - 1 /\ w[i].r \in 1 .. i - 1
      /\ w[i].t = "NOT" => w[i].e \in 1 .. i - 1
  BY TreeFacts
<1>2. CASE w[i].t = "leaf"
  BY <1>2, SQLNodeIs
<1>3. CASE w[i].t \in {"AND", "OR"}
  <2>1. f[w[i].l] = g[w[i].l] /\ f[w[i].r] = g[w[i].r]
    BY <1>1, <1>3
  <2> QED
    BY <1>3, <2>1, SQLNodeIs
<1>4. CASE w[i].t = "NOT"
  <2>1. f[w[i].e] = g[w[i].e]
    BY <1>1, <1>4
  <2> QED
    BY <1>4, <2>1, SQLNodeIs
<1> QED
  BY <1>1, <1>2, <1>3, <1>4

LEMMA SQLExists ==
    ASSUME NEW w, IsTree(w), NEW r
    PROVE  \E f : f = [i \in 1 .. Len(w) |-> SQLNode(w, r, f, i)]
<1> DEFINE n == Len(w)
           Val(k, f) == f = [i \in 1 .. k |-> SQLNode(w, r, f, i)]
           S == {k \in 0 .. n : ~ \E f : Val(k, f)}
<1>1. n \in Nat
  BY TreeFacts
<1>2. CASE S = {}
  <2>1. n \in 0 .. n
    BY <1>1
  <2> QED
    BY <1>2, <2>1
<1>3. CASE S # {}
  <2>1. S \in SUBSET Nat
    OBVIOUS
  <2> HIDE DEF S
  <2>2. PICK m \in S : \A k \in S : m <= k
    BY <1>3, <2>1, LeastOf
  <2>3. m \in 0 .. n /\ ~ \E f : Val(m, f)
    BY DEF S
  <2>4. CASE m = 0
    <3> DEFINE f == [i \in 1 .. 0 |-> TRUE]
    <3>1. Val(m, f)
      BY <2>4
    <3> QED
      BY <2>3, <3>1
  <2>5. CASE m # 0
    <3>1. m \in Nat /\ m - 1 \in 0 .. n /\ m - 1 < m /\ m \in 1 .. n
      BY <1>1, <2>3, <2>5
    <3>2. m - 1 \notin S
      BY <2>2, <3>1
    <3>3. PICK f : Val(m - 1, f)
      BY <3>1, <3>2 DEF S
    <3>a. \A i \in 1 .. m - 1 : f[i] = SQLNode(w, r, f, i)
      BY <3>3
    <3> DEFINE g == [i \in 1 .. m |-> SQLNode(w, r, f, i)]
    <3>4. \A k \in 1 .. m - 1 : f[k] = g[k]
      <4> TAKE k \in 1 .. m - 1
      <4>1. k \in 1 .. m
        BY <3>1
      <4> QED
        BY <3>a, <4>1
    <3>5. ASSUME NEW i \in 1 .. m PROVE SQLNode(w, r, f, i) = SQLNode(w, r, g, i)
      <4>1. i \in 1 .. Len(w) /\ \A k \in 1 .. i - 1 : k \in 1 .. m - 1
        BY <3>1
      <4> HIDE DEF g
      <4> QED
        BY <3>4, <4>1, SQLNodeLocal
    <3>6. g = [i \in 1 .. m |-> SQLNode(w, r, g, i)]
      BY <3>5
    <3> QED
      BY <2>3, <3>6
  <2> QED
    BY <2>4, <2>5
<1> QED
  BY <1>2, <1>3

LEMMA SQLValues ==
    ASSUME NEW w, IsTree(w), NEW r
    PROVE  \E f : /\ \A i \in 1 .. Len(w) : f[i] = SQLNode(w, r, f, i)
                  /\ WhereExprToSQL(w, r) = IF w = <<>> THEN "T" ELSE f[Len(w)]
<1> DEFINE n == Len(w)
           Rec(f) == [i \in DOMAIN w |-> CASE w[i].t = "leaf" -> IF w[i].c.neg THEN Not3(CondLeafToSQL(w[i].c, r))
                                                                               ELSE CondLeafToSQL(w[i].c, r)
                                           [] w[i].t = "AND"  -> And3(f[w[i].l], f[w[i].r])
                                           [] w[i].t = "OR"   -> Or3(f[w[i].l], f[w[i].r])
                                           [] OTHER           -> Not3(f[w[i].e])]
<1>1. n \in Nat /\ DOMAIN w = 1 .. n
  BY TreeFacts
<1>2. \A f : Rec(f) = [i \in 1 .. n |-> SQLNode(w, r, f, i)]
  BY <1>1, Zenon DEF SQLNode
<1>3. PICK f : f = [i \in 1 .. n |-> SQLNode(w, r, f, i)]
  BY SQLExists
<1> DEFINE u == CHOOSE g : g = Rec(g)
<1>4. WhereExprToSQL(w, r) = IF w = <<>> THEN "T" ELSE u[n]
  BY Zenon DEF WhereExprToSQL, NoWhere
<1> HIDE DEF Rec
<1>5. f = Rec(f)
  BY <1>2, <1>3
<1>6. u = Rec(u)
  BY <1>5, Zenon
<1> HIDE DEF u
<1>7. u = [i \in 1 .. n |-> SQLNode(w, r, u, i)]
  BY <1>2, <1>6
<1>8. \A i \in 1 .. n : u[i] = SQLNode(w, r, u, i)
  BY <1>7
<1> QED
  BY <1>4, <1>8

\* Where every leaf goes to SQL, a row is selected by the expression exactly
\* when Go would let it pass.  By induction along the nodes, together with: on a
\* row with its values no node is unknown.
LEMMA TreeAgrees ==
    ASSUME NEW w, IsTree(w), NEW r \in Rows, \A c \in Leaves(w) : Translates(c),
           Negates(w) => HasValues(r), Alike(w, r)
    PROVE  WhereExprToSQL(w, r) = "T" <=> MatchesWhere(w, r)
<1> DEFINE n == Len(w)
<1>1. n \in Nat /\ DOMAIN w = 1 .. n /\ (w = <<>> <=> n = 0)
  BY TreeFacts
<1>2. PICK f \in [1 .. n -> BOOLEAN] :
         /\ \A i \in 1 .. n : f[i] = GoNode(w, r, f, i)
         /\ MatchesWhere(w, r) <=> (w = <<>> \/ f[n])
  BY GoValues
<1>3. PICK s : /\ \A i \in 1 .. n : s[i] = SQLNode(w, r, s, i)
               /\ WhereExprToSQL(w, r) = IF w = <<>> THEN "T" ELSE s[n]
  BY SQLValues
<1> DEFINE Agree(i) == /\ s[i] = "T" <=> f[i]
                       /\ s[i] \in {"T", "F", "U"}
                       /\ HasValues(r) => s[i] \in {"T", "F"}
           S == {i \in 1 .. n : ~ Agree(i)}
<1>4. ASSUME NEW i \in 1 .. n, \A k \in 1 .. i - 1 : Agree(k) PROVE Agree(i)
  <2>1. /\ w[i].t \in {"leaf", "AND", "OR", "NOT"}
        /\ w[i].t = "leaf" => IsCondition(w[i].c) /\ w[i].c \in Leaves(w)
        /\ w[i].t \in {"AND", "OR"} => w[i].l \in 1 .. i - 1 /\ w[i].r \in 1 .. i - 1
        /\ w[i].t = "NOT" => w[i].e \in 1 .. i - 1
    BY TreeFacts
  <2>2. f[i] = GoNode(w, r, f, i) /\ s[i] = SQLNode(w, r, s, i)
    BY <1>2, <1>3
  <2>3. CASE w[i].t = "leaf"
    <3> DEFINE c == w[i].c
    <3>1. IsCondition(c) /\ Translates(c) /\ c.neg \in BOOLEAN
      BY <2>1, <2>3 DEF IsCondition
    <3>2. ReadAlike(c, r)
      BY <2>1, <2>3 DEF Alike
    <3>3. c.neg => HasValues(r)
      BY <1>1, <2>3 DEF Negates
    <3>4. f[i] = (EvalCondition(c, r) # c.neg)
      BY <2>2, <2>3 DEF GoNode
    <3>5. s[i] = IF c.neg THEN Not3(CondLeafToSQL(c, r)) ELSE CondLeafToSQL(c, r)
      BY <2>2, <2>3, SQLNodeIs
    <3> HIDE DEF c
    <3>6. CondLeafToSQL(c, r) = "T" <=> EvalCondition(c, r)
      BY <3>1, <3>2, LeafAgrees
    <3>7. /\ CondLeafToSQL(c, r) \in {"T", "F", "U"}
          /\ HasValues(r) => CondLeafToSQL(c, r) \in {"T", "F"}
      BY <3>1, LeafValue
    <3>8. CASE c.neg
      <4>1. CondLeafToSQL(c, r) \in {"T", "F"} /\ s[i] = Not3(CondLeafToSQL(c, r))
        BY <3>3, <3>5, <3>7, <3>8
      <4>2. c.neg = TRUE
        BY <3>1, <3>8
      <4>3. f[i] <=> ~ EvalCondition(c, r)
        BY <3>4, <4>2
      <4> QED
        BY <3>6, <4>1, <4>3 DEF Not3
    <3>9. CASE ~ c.neg
      <4>1. s[i] = CondLeafToSQL(c, r)
        BY <3>5, <3>9
      <4>2. c.neg = FALSE
        BY <3>1, <3>9
      <4>3. f[i] <=> EvalCondition(c, r)
        BY <3>1, <3>4, <4>2, EvalIsBoolean
      <4> QED
        BY <3>6, <3>7, <4>1, <4>3
    <3> QED
      BY <3>8, <3>9
  <2>4. CASE w[i].t = "AND"
    <3> DEFINE j == w[i].l
               k == w[i].r
    <3>1. Agree(j) /\ Agree(k)
      BY <1>4, <2>1, <2>4
    <3>2. f[i] = (f[j] /\ f[k])
      BY <2>2, <2>4 DEF GoNode
    <3>3. s[i] = And3(s[j], s[k])
      BY <2>2, <2>4, SQLNodeIs
    <3> HIDE DEF j, k
    <3> QED
      BY <3>1, <3>2, <3>3 DEF And3
  <2>5. CASE w[i].t = "OR"
    <3> DEFINE j == w[i].l
               k == w[i].r
    <3>1. Agree(j) /\ Agree(k)
      BY <1>4, <2>1, <2>5
    <3>2. f[i] = (f[j] \/ f[k])
      BY <2>2, <2>5 DEF GoNode
    <3>3. s[i] = Or3(s[j], s[k])
      BY <2>2, <2>5, SQLNodeIs
    <3> HIDE DEF j, k
    <3> QED
      BY <3>1, <3>2, <3>3 DEF Or3, And3, Not3
  <2>6. CASE w[i].t = "NOT"
    <3> DEFINE j == w[i].e
    <3>1. Agree(j)
      BY <1>4, <2>1, <2>6
    <3>2. f[i] = (~ f[j])
      BY <2>2, <2>6 DEF GoNode
    <3>3. s[i] = Not3(s[j])
      BY <2>2, <2>6, SQLNodeIs
    <3>4. HasValues(r)
      BY <1>1, <2>6 DEF Negates
    <3> HIDE DEF j
    <3> QED
      BY <3>1, <3>2, <3>3, <3>4 DEF Not3
  <2> QED
    BY <2>1, <2>3, <2>4, <2>5, <2>6
<1>5. S = {}
  <2> SUFFICES ASSUME S # {} PROVE FALSE
    OBVIOUS
  <2>1. S \in SUBSET Nat
    OBVIOUS
  <2> HIDE DEF S
  <2>2. PICK m \in S : \A k \in S : m <= k
    BY <2>1, LeastOf
  <2>3. m \in 1 .. n /\ ~ Agree(m)
    BY DEF S
  <2>4. \A k \in 1 .. m - 1 : k \in 1 .. n /\ ~ (m <= k)
    BY <1>1, <2>3
  <2> HIDE DEF Agree
  <2>5. \A k \in 1 .. m - 1 : Agree(k)
    BY <2>2, <2>4 DEF S
  <2> QED
    BY <1>4, <2>3, <2>5
<1>6. w # <<>> => Agree(n)
  <2>1. w # <<>> => n \in 1 .. n
    BY <1>1
  <2> QED
    BY <1>5, <2>1
<1> QED
  BY <1>2, <1>3, <1>6

\* What Go evaluates depends on the conditions only.
LEMMA GoDepends ==
    ASSUME NEW w, IsTree(w), NEW r, NEW s,
           \A c \in Leaves(w) : EvalCondition(c, r) = EvalCondition(c, s)
    PROVE  MatchesWhere(w, r) <=> MatchesWhere(w, s)
<1> DEFINE n == Len(w)
<1>1. n \in Nat /\ (w = <<>> <=> n = 0)
  BY TreeFacts
<1>2. PICK f \in [1 .. n -> BOOLEAN] :
         /\ \A i \in 1 .. n : f[i] = GoNode(w, r, f, i)
         /\ MatchesWhere(w, r) <=> (w = <<>> \/ f[n])
  BY GoValues
<1>3. PICK g \in [1 .. n -> BOOLEAN] :
         /\ \A i \in 1 .. n : g[i] = GoNode(w, s, g, i)
         /\ MatchesWhere(w, s) <=> (w = <<>> \/ g[n])
  BY GoValues
<1> DEFINE S == {i \in 1 .. n : f[i] # g[i]}
<1>4. S = {}
  <2> SUFFICES ASSUME S # {} PROVE FALSE
    OBVIOUS
  <2>1. S \in SUBSET Nat
    OBVIOUS
  <2> HIDE DEF S
  <2>2. PICK m \in S : \A k \in S : m <= k
    BY <2>1, LeastOf
  <2>3. m \in 1 .. n /\ f[m] # g[m]
    BY DEF S
  <2>4. \A k \in 1 .. m - 1 : k \in 1 .. n /\ ~ (m <= k)
    BY <1>1, <2>3
  <2>5. \A k \in 1 .. m - 1 : f[k] \in BOOLEAN /\ f[k] = g[k]
    BY <2>2, <2>4 DEF S
  <2>6. GoNode(w, r, f, m) = GoNode(w, r, g, m)
    BY <2>3, <2>5, GoNodeLocal
  <2>7. GoNode(w, r, g, m) = GoNode(w, s, g, m)
    <3>1. w[m].t = "leaf" => w[m].c \in Leaves(w)
      BY <2>3, TreeFacts
    <3>2. CASE w[m].t = "leaf"
      BY <3>1, <3>2 DEF GoNode
    <3>3. CASE w[m].t # "leaf"
      BY <3>3 DEF GoNode
    <3> QED
      BY <3>2, <3>3
  <2> QED
    BY <1>2, <1>3, <2>3, <2>6, <2>7
<1>5. w # <<>> => f[n] = g[n]
  <2>1. w # <<>> => n \in 1 .. n
    BY <1>1
  <2> QED
    BY <1>4, <2>1
<1> QED
  BY <1>2, <1>3, <1>5

\* A tree of one condition.
LEMMA LeafTree ==
    ASSUME NEW c, IsCondition(c)
    PROVE  /\ IsTree(Leaf(c)) /\ Leaves(Leaf(c)) = {c} /\ (Negates(Leaf(c)) <=> c.neg)
           /\ \A r : MatchesWhere(Leaf(c), r) <=> (EvalCondition(c, r) # c.neg)
<1> DEFINE w == Leaf(c)
<1>1. Len(w) = 1 /\ DOMAIN w = {1} /\ w[1].t = "leaf" /\ w[1].c = c /\ w # <<>>
  BY DEF Leaf
<1>2. Leaves(w) = {c}
  <2> HIDE DEF w
  <2> QED
    BY <1>1 DEF Leaves
<1>3. Negates(w) <=> c.neg
  <2> HIDE DEF w
  <2> QED
    BY <1>1 DEF Negates
<1>4. IsTree(w)
  <2>1. w \in Seq({w[1]})
    BY DEF Leaf
  <2> HIDE DEF w
  <2>2. {w[i] : i \in DOMAIN w} = {w[1]}
    BY <1>1
  <2>3. Operands(w[1]) = {}
    BY <1>1 DEF Operands
  <2> QED
    BY <1>1, <2>1, <2>2, <2>3 DEF IsTree
<1> HIDE DEF w
<1>5. ASSUME NEW r PROVE MatchesWhere(w, r) <=> (EvalCondition(c, r) # c.neg)
  <2>1. PICK f \in [1 .. Len(w) -> BOOLEAN] :
           /\ \A i \in 1 .. Len(w) : f[i] = GoNode(w, r, f, i)
           /\ MatchesWhere(w, r) <=> (w = <<>> \/ f[Len(w)])
    BY <1>4, GoValues
  <2>2. f[1] = GoNode(w, r, f, 1)
    BY <1>1, <2>1
  <2>3. GoNode(w, r, f, 1) = (EvalCondition(c, r) # c.neg)
    BY <1>1 DEF GoNode
  <2> QED
    BY <1>1, <2>1, <2>2, <2>3
<1> QED
  BY <1>2, <1>3, <1>4, <1>5 DEF w

\* A chain of ANDs holds when all of its conditions hold: upwards from the leaves,
\* and downwards since every node is an operand of a later one.
LEMMA ChainMeans ==
    ASSUME NEW w, IsTree(w), WhereIsAndChainOfLeaves(w), NEW r
    PROVE  MatchesWhere(w, r) <=> \A c \in Leaves(w) : EvalCondition(c, r) # c.neg
<1> DEFINE n == Len(w)
<1>1. n \in Nat /\ DOMAIN w = 1 .. n /\ (w = <<>> <=> n = 0)
  BY TreeFacts
<1>2. PICK f \in [1 .. n -> BOOLEAN] :
         /\ \A i \in 1 .. n : f[i] = GoNode(w, r, f, i)
         /\ MatchesWhere(w, r) <=> (w = <<>> \/ f[n])
  BY GoValues
<1>3. \A i \in 1 .. n : w[i].t = "leaf" => (f[i] <=> EvalCondition(w[i].c, r) # w[i].c.neg)
  BY <1>2 DEF GoNode
<1>4. ASSUME NEW i \in 1 .. n, w[i].t # "leaf"
      PROVE  w[i].l \in 1 .. i - 1 /\ w[i].r \in 1 .. i - 1 /\ (f[i] <=> f[w[i].l] /\ f[w[i].r]) /\ Operands(w[i]) = {w[i].l, w[i].r}
  <2>1. w[i].t = "AND"
    BY <1>1, <1>4 DEF WhereIsAndChainOfLeaves
  <2>2. w[i].l \in 1 .. i - 1 /\ w[i].r \in 1 .. i - 1
    BY <2>1, TreeFacts
  <2>3. f[i] = (f[w[i].l] /\ f[w[i].r])
    BY <1>2, <2>1 DEF GoNode
  <2>4. Operands(w[i]) = {w[i].l, w[i].r}
    BY <2>1 DEF Operands
  <2> QED
    BY <2>2, <2>3, <2>4
<1>5. \A c : c \in Leaves(w) <=> \E i \in 1 .. n : w[i].t = "leaf" /\ w[i].c = c
  BY <1>1 DEF Leaves
<1>6. ASSUME \A c \in Leaves(w) : EvalCondition(c, r) # c.neg PROVE w # <<>> => f[n]
  <2> DEFINE S == {i \in 1 .. n : ~ f[i]}
  <2>1. S = {}
    <3> SUFFICES ASSUME S # {} PROVE FALSE
      OBVIOUS
    <3>1. S \in SUBSET Nat
      OBVIOUS
    <3> HIDE DEF S
    <3>2. PICK m \in S : \A k \in S : m <= k
      BY <3>1, LeastOf
    <3>3. m \in 1 .. n /\ ~ f[m]
      BY DEF S
    <3>4. \A k \in 1 .. m - 1 : k \in 1 .. n /\ ~ (m <= k)
      BY <1>1, <3>3
    <3>5. \A k \in 1 .. m - 1 : f[k]
      BY <3>2, <3>4 DEF S
    <3>6. CASE w[m].t = "leaf"
      BY <1>3, <1>5, <1>6, <3>3, <3>6
    <3>7. CASE w[m].t # "leaf"
      BY <1>4, <3>3, <3>5, <3>7
    <3> QED
      BY <3>6, <3>7
  <2>2. w # <<>> => n \in 1 .. n
    BY <1>1
  <2> QED
    BY <2>1, <2>2
<1>7. ASSUME f[n], n # 0, NEW i \in 1 .. n PROVE f[i]
  <2> DEFINE S == {k \in Nat : n - k \in 1 .. n /\ ~ f[n - k]}
  <2>1. S = {}
    <3> SUFFICES ASSUME S # {} PROVE FALSE
      OBVIOUS
    <3>1. S \in SUBSET Nat
      OBVIOUS
    <3> HIDE DEF S
    <3>2. PICK m \in S : \A k \in S : m <= k
      BY <3>1, LeastOf
    <3>3. m \in Nat /\ n - m \in 1 .. n /\ ~ f[n - m]
      BY DEF S
    <3> DEFINE a == n - m
    <3>4. a \in 1 .. n /\ ~ f[a]
      BY <3>3
    <3>5. \A b \in 1 .. n : a < b => f[b]
      <4> TAKE b \in 1 .. n
      <4> SUFFICES ASSUME a < b PROVE f[b]
        OBVIOUS
      <4>1. n - b \in Nat /\ n - (n - b) = b /\ ~ (m <= n - b)
        BY <1>1, <3>3
      <4>2. n - b \notin S
        BY <3>2, <4>1
      <4> QED
        BY <4>1, <4>2 DEF S
    <3> HIDE DEF a
    <3>6. a # n
      BY <1>7, <3>4
    <3>7. a < n
      <4>1. n \in Nat /\ a \in 1 .. n /\ a # n
        BY <1>1, <3>4, <3>6
      <4> HIDE DEF n
      <4> QED
        BY <4>1
    <3>8. PICK b \in 1 .. n : a \in Operands(w[b])
      BY <1>1, <3>4, <3>7 DEF IsTree
    <3>9. w[b].t # "leaf"
      BY <3>8 DEF Operands
    <3>10. (a = w[b].l \/ a = w[b].r) /\ a < b
      BY <1>1, <1>4, <3>4, <3>8, <3>9
    <3> QED
      BY <1>4, <3>4, <3>5, <3>9, <3>10
  <2>2. n - i \in Nat /\ n - (n - i) = i
    BY <1>1
  <2>3. n - i \notin S
    BY <2>1
  <2> QED
    BY <2>2, <2>3
<1>8. ASSUME MatchesWhere(w, r), NEW c \in Leaves(w) PROVE EvalCondition(c, r) # c.neg
  <2>1. PICK i \in 1 .. n : w[i].t = "leaf" /\ w[i].c = c
    BY <1>5
  <2>2. n # 0
    BY <1>1, <2>1
  <2>3. f[i]
    BY <1>1, <1>2, <1>7, <1>8, <2>2
  <2> QED
    BY <1>3, <2>1, <2>3
<1> QED
  BY <1>1, <1>2, <1>6, <1>8

-----------------------------------------------------------------------------
(* The plan *)

\* A row that SQL selects and the filter in Go lets pass.
PlanPasses(query, r) ==
    /\ \A w \in Plan(query).sql : WhereExprToSQL(w, r) = "T"
    /\ \A w \in Plan(query).go : MatchesWhere(w, r)

\* No leaf of an AND chain is dropped.
NothingDropped(query) ==
    \/ \A c \in Leaves(query.where) : Bound(c)
    \/ query.join
    \/ ~WhereIsAndChainOfLeaves(query.where)

\* One leaf of a WHERE, given to SQL.
LEMMA LeafPushed ==
    ASSUME NEW w, IsTree(w), NEW c \in Leaves(w), NEW r \in Rows, Translates(c),
           Negates(w) => HasValues(r), Alike(w, r)
    PROVE  WhereExprToSQL(Leaf(c), r) = "T" <=> (EvalCondition(c, r) # c.neg)
<1>1. PICK i \in DOMAIN w : w[i].t = "leaf" /\ w[i].c = c
  BY DEF Leaves
<1>2. IsCondition(c)
  BY <1>1 DEF IsTree
<1>3. c.neg => Negates(w)
  BY <1>1 DEF Negates
<1> DEFINE v == Leaf(c)
<1>4. /\ IsTree(v) /\ Leaves(v) = {c} /\ (Negates(v) <=> c.neg)
      /\ MatchesWhere(v, r) <=> (EvalCondition(c, r) # c.neg)
  BY <1>2, LeafTree
<1> HIDE DEF v
<1>5. Alike(v, r)
  BY <1>4 DEF Alike
<1>6. WhereExprToSQL(v, r) = "T" <=> MatchesWhere(v, r)
  BY <1>3, <1>4, <1>5, TreeAgrees
<1> QED
  BY <1>4, <1>6 DEF v

\* The plan lets a row through that satisfies the WHERE, and only those when no
\* part of it is dropped.
LEMMA PlanExact ==
    ASSUME NEW query \in Queries, NEW r \in Rows,
           Negates(query.where) => HasValues(r), Alike(query.where, r)
    PROVE  /\ MatchesWhere(query.where, r) => PlanPasses(query, r)
           /\ PlanPasses(query, r) /\ NothingDropped(query) => MatchesWhere(query.where, r)
<1> DEFINE w == query.where
           leaves == Leaves(w)
           pushed == {c \in leaves : Bound(c) /\ c.col \in Cols /\ PushableOp(c.op)}
           left == {c \in leaves \ pushed : Bound(c) \/ c.op = "cross" \/ query.join}
           translates == \A c \in leaves : /\ Bound(c) /\ c.col \in Cols
                                           /\ PushableOp(c.op) \/ c.op = "IN"
<1>1. IsTree(w)
  BY QueryAssumption DEF Queries
<1>2. Plan(query) = CASE WhereIsAndChainOfLeaves(w) ->
                [sql |-> {Leaf(c) : c \in pushed}, go |-> {Leaf(c) : c \in left}]
         [] ~WhereIsAndChainOfLeaves(w) /\ translates -> [sql |-> {w}, go |-> {}]
         [] OTHER -> [sql |-> {}, go |-> {w}]
  BY DEF Plan
<1>3. Negates(w) => HasValues(r)
  OBVIOUS
<1>4. Alike(w, r)
  OBVIOUS
<1>5. ~ WhereIsAndChainOfLeaves(w) /\ translates => Plan(query).sql = {w} /\ Plan(query).go = {}
  BY <1>2
<1>6. ~ WhereIsAndChainOfLeaves(w) /\ ~ translates => Plan(query).sql = {} /\ Plan(query).go = {w}
  BY <1>2
<1>7. CASE ~ WhereIsAndChainOfLeaves(w) /\ translates
  <2>1. \A c \in Leaves(w) : Translates(c)
    BY <1>7 DEF Translates
  <2>2. WhereExprToSQL(w, r) = "T" <=> MatchesWhere(w, r)
    BY <1>1, <1>3, <1>4, <2>1, TreeAgrees
  <2> HIDE DEF translates
  <2> QED
    BY <1>5, <1>7, <2>2 DEF PlanPasses
<1>8. CASE ~ WhereIsAndChainOfLeaves(w) /\ ~ translates
  <2> HIDE DEF translates
  <2> QED
    BY <1>6, <1>8 DEF PlanPasses
<1>9. CASE WhereIsAndChainOfLeaves(w)
  <2> DEFINE holds(c) == EvalCondition(c, r) # c.neg
  <2>1. Plan(query) = [sql |-> {Leaf(c) : c \in pushed}, go |-> {Leaf(c) : c \in left}]
    BY <1>2, <1>9
  <2>2. \A c \in pushed : WhereExprToSQL(Leaf(c), r) = "T" <=> holds(c)
    BY <1>1, <1>3, <1>4, LeafPushed DEF Translates
  <2>3. \A c \in leaves : MatchesWhere(Leaf(c), r) <=> holds(c)
    <3> TAKE c \in leaves
    <3>1. IsCondition(c)
      BY <1>1 DEF Leaves, IsTree
    <3> QED
      BY <3>1, LeafTree
  <2>4. MatchesWhere(w, r) <=> \A c \in leaves : holds(c)
    BY <1>1, <1>9, ChainMeans
  <2>5. \A c \in left : c \in leaves
    OBVIOUS
  <2>6. \A c \in pushed : c \in leaves
    OBVIOUS
  <2>7. PlanPasses(query, r) <=> (\A c \in pushed : holds(c)) /\ (\A c \in left : holds(c))
    <3> HIDE DEF pushed, left, leaves, holds, w
    <3> QED
      BY <2>1, <2>2, <2>3, <2>5 DEF PlanPasses
  <2>8. NothingDropped(query) => leaves \subseteq pushed \cup left
    BY <1>9 DEF NothingDropped
  <2> HIDE DEF pushed, left, leaves, holds
  <2> QED
    BY <2>4, <2>5, <2>6, <2>7, <2>8
<1> QED
  BY <1>7, <1>8, <1>9

-----------------------------------------------------------------------------
(* The loop over the fetched rows *)

PassesGo(query, r) == \A w \in Plan(query).go : MatchesWhere(w, r)

\* One round of the loop.
Round(query, acc, r) ==
    IF ~PassesGo(query, r) THEN acc
    ELSE IF query.join THEN KeepEdge(acc, r) ELSE Append(acc, r)

DistinctKeys(s) == \A i, j \in DOMAIN s : s[i].key = s[j].key => i = j

\* s stands for the row r: it has the row's key, with at least its confidence.
StandsFor(s, r) == \E j \in DOMAIN s : s[j].key = r.key /\ r.conf <= s[j].conf

\* The outcomes of the first n rounds.
Rounds(query, s, n, f) ==
    /\ f = [i \in 0 .. n |-> f[i]]
    /\ f[0] = <<>>
    /\ \A i \in 1 .. n : f[i] = Round(query, f[i - 1], s[i])

LEMMA RoundsExist ==
    ASSUME NEW query, NEW s, NEW n \in Nat
    PROVE  \E f : Rounds(query, s, n, f)
<1> DEFINE Runs(k, f) == Rounds(query, s, k, f)
           S == {k \in 0 .. n : ~ \E f : Runs(k, f)}
<1>1. CASE S = {}
  <2>1. n \in 0 .. n
    OBVIOUS
  <2> QED
    BY <1>1, <2>1
<1>2. CASE S # {}
  <2>1. S \in SUBSET Nat
    OBVIOUS
  <2> HIDE DEF S
  <2>2. PICK m \in S : \A k \in S : m <= k
    BY <1>2, <2>1, LeastOf
  <2>3. m \in 0 .. n /\ ~ \E f : Runs(m, f)
    BY DEF S
  <2>4. CASE m = 0
    <3> DEFINE f == [i \in 0 .. 0 |-> <<>>]
    <3>1. Runs(0, f)
      <4>1. f[0] = <<>>
        OBVIOUS
      <4>2. f = [i \in 0 .. 0 |-> f[i]]
        OBVIOUS
      <4>3. \A i \in 1 .. 0 : FALSE
        OBVIOUS
      <4> HIDE DEF f
      <4> QED
        BY <4>1, <4>2, <4>3 DEF Rounds
    <3> HIDE DEF f, Runs
    <3> QED
      BY <2>3, <2>4, <3>1
  <2>5. CASE m # 0
    <3>1. m \in Nat /\ m - 1 \in 0 .. n /\ m - 1 < m /\ m \in 1 .. n
      BY <2>3, <2>5
    <3>2. m - 1 \notin S
      BY <2>2, <3>1
    <3>3. PICK f : Runs(m - 1, f)
      <4> HIDE DEF Runs
      <4> QED
        BY <3>1, <3>2 DEF S
    <3> DEFINE g == [i \in 0 .. m |-> IF i = m THEN Round(query, f[m - 1], s[m]) ELSE f[i]]
    <3>4. g = [i \in 0 .. m |-> g[i]]
      OBVIOUS
    <3>5. \A i \in 0 .. m - 1 : g[i] = f[i]
      BY <3>1
    <3>6. g[m] = Round(query, f[m - 1], s[m])
      BY <3>1
    <3> HIDE DEF g
    <3>7. g[0] = <<>>
      BY <3>1, <3>3, <3>5 DEF Rounds
    <3>8. ASSUME NEW i \in 1 .. m PROVE g[i] = Round(query, g[i - 1], s[i])
      <4>1. CASE i = m
        <5>1. g[i - 1] = f[m - 1]
          BY <3>1, <3>5, <4>1
        <5> QED
          BY <3>6, <4>1, <5>1
      <4>2. CASE i # m
        <5>1. i \in 1 .. m - 1 /\ i - 1 \in 0 .. m - 1 /\ i \in 0 .. m - 1
          BY <3>1, <4>2
        <5>2. f[i] = Round(query, f[i - 1], s[i])
          BY <3>3, <5>1 DEF Rounds
        <5> QED
          BY <3>5, <5>1, <5>2
      <4> QED
        BY <4>1, <4>2
    <3>9. Rounds(query, s, m, g)
      BY <3>4, <3>7, <3>8 DEF Rounds
    <3> QED
      BY <2>3, <3>9
  <2> QED
    BY <2>4, <2>5
<1> QED
  BY <1>1, <1>2

\* What the loop computes, round by round.
LEMMA FilteredIs ==
    ASSUME NEW query, NEW s, Len(s) \in Nat
    PROVE  \E f : /\ f[0] = <<>> /\ Filtered(query, s) = f[Len(s)]
                  /\ \A i \in 1 .. Len(s) : f[i] = Round(query, f[i - 1], s[i])
<1> DEFINE n == Len(s)
           passes(r) == \A w \in Plan(query).go : MatchesWhere(w, r)
           Rec(f) == [i \in 0 .. n |->
                        CASE i = 0 -> <<>>
                          [] i > 0 /\ ~passes(s[i]) -> f[i - 1]
                          [] OTHER -> IF query.join THEN KeepEdge(f[i - 1], s[i])
                                                    ELSE Append(f[i - 1], s[i])]
           u == CHOOSE g : g = Rec(g)
<1>1. Filtered(query, s) = u[n]
  BY Zenon DEF Filtered
<1>2. ASSUME NEW f PROVE Rec(f)[0] = <<>>
  OBVIOUS
<1>3. ASSUME NEW f, NEW i \in 1 .. n PROVE Rec(f)[i] = Round(query, f[i - 1], s[i])
  <2>1. i \in 0 .. n /\ i # 0 /\ i > 0
    OBVIOUS
  <2>2. Rec(f)[i] = CASE i = 0 -> <<>>
                      [] i > 0 /\ ~passes(s[i]) -> f[i - 1]
                      [] OTHER -> IF query.join THEN KeepEdge(f[i - 1], s[i]) ELSE Append(f[i - 1], s[i])
    BY <2>1, Zenon
  <2>3. passes(s[i]) <=> PassesGo(query, s[i])
    BY DEF PassesGo
  <2> HIDE DEF passes, Rec
  <2> QED
    BY <2>1, <2>2, <2>3 DEF Round
<1>4. PICK f : Rounds(query, s, n, f)
  BY RoundsExist
<1>5. f = Rec(f)
  <2>1. ASSUME NEW i \in 0 .. n PROVE f[i] = Rec(f)[i]
    <3> HIDE DEF Rec
    <3>1. i = 0 \/ i \in 1 .. n
      OBVIOUS
    <3> QED
      BY <1>2, <1>3, <1>4, <3>1 DEF Rounds
  <2>3. Rec(f) = [i \in 0 .. n |-> Rec(f)[i]]
    OBVIOUS
  <2> HIDE DEF Rec, n
  <2>4. f = [i \in 0 .. n |-> f[i]]
    BY <1>4 DEF Rounds
  <2>5. [i \in 0 .. n |-> f[i]] = [i \in 0 .. n |-> Rec(f)[i]]
    BY <2>1
  <2> QED
    BY <2>3, <2>4, <2>5
<1>6. u = Rec(u)
  BY <1>5, Zenon
<1> HIDE DEF u, Rec
<1>7. u[0] = <<>>
  BY <1>2, <1>6, Zenon
<1>8. \A i \in 1 .. n : u[i] = Round(query, u[i - 1], s[i])
  BY <1>3, <1>6, Zenon
<1> QED
  BY <1>1, <1>7, <1>8

\* What one round does to the rows kept so far.
Grown(old, new, r) ==
    /\ new \in Seq(Rows) /\ DistinctKeys(new)
    /\ \A j \in DOMAIN new : new[j] = r \/ \E l \in DOMAIN old : new[j] = old[l]
    /\ \A l \in DOMAIN old : StandsFor(new, old[l])
    /\ StandsFor(new, r)

LEMMA Appended ==
    ASSUME NEW acc \in Seq(Rows), DistinctKeys(acc), NEW r \in Rows,
           \A i \in DOMAIN acc : acc[i].key # r.key
    PROVE  Grown(acc, Append(acc, r), r)
<1> DEFINE new == Append(acc, r)
           n == Len(acc)
<1>1. n \in Nat /\ DOMAIN acc = 1 .. n /\ \A i \in 1 .. n : acc[i] \in Rows
  OBVIOUS
<1>2. /\ new \in Seq(Rows) /\ DOMAIN new = 1 .. n + 1 /\ new[n + 1] = r
      /\ \A i \in 1 .. n : new[i] = acc[i]
  OBVIOUS
<1> HIDE DEF new, n
<1>3. \A i \in DOMAIN new : i = n + 1 \/ i \in 1 .. n
  BY <1>1, <1>2
<1>4. n + 1 \in DOMAIN new /\ \A i \in 1 .. n : i \in DOMAIN new
  BY <1>1, <1>2
<1>5. DistinctKeys(new)
  <2> SUFFICES ASSUME NEW i \in DOMAIN new, NEW j \in DOMAIN new, new[i].key = new[j].key PROVE i = j
    BY DEF DistinctKeys
  <2> QED
    BY <1>1, <1>2, <1>3 DEF DistinctKeys
<1>6. \A s \in Rows : s.conf <= s.conf
  BY RowsAssumption
<1>7. \A l \in DOMAIN acc : StandsFor(new, acc[l])
  BY <1>1, <1>2, <1>4, <1>6 DEF StandsFor
<1>8. StandsFor(new, r)
  BY <1>2, <1>4, <1>6 DEF StandsFor
<1>9. \A j \in DOMAIN new : new[j] = r \/ \E l \in DOMAIN acc : new[j] = acc[l]
  BY <1>1, <1>2, <1>3
<1> QED
  BY <1>2, <1>5, <1>7, <1>8, <1>9 DEF Grown, new

LEMMA EdgeKept ==
    ASSUME NEW acc \in Seq(Rows), DistinctKeys(acc), NEW r \in Rows
    PROVE  Grown(acc, KeepEdge(acc, r), r)
<1>1. CASE \A i \in DOMAIN acc : acc[i].key # r.key
  BY <1>1, Appended DEF KeepEdge
<1>2. CASE \E i \in DOMAIN acc : acc[i].key = r.key
  <2> DEFINE new == [i \in DOMAIN acc |-> IF acc[i].key = r.key /\ r.conf > acc[i].conf THEN r ELSE acc[i]]
             n == Len(acc)
  <2>1. KeepEdge(acc, r) = new
    BY <1>2 DEF KeepEdge
  <2>2. n \in Nat /\ DOMAIN acc = 1 .. n /\ DOMAIN new = 1 .. n /\ \A i \in 1 .. n : acc[i] \in Rows
    OBVIOUS
  <2>3. \A i \in 1 .. n : new[i] = IF acc[i].key = r.key /\ r.conf > acc[i].conf THEN r ELSE acc[i]
    OBVIOUS
  <2>4. new = [i \in 1 .. n |-> new[i]]
    BY <2>2
  <2> HIDE DEF new, n
  <2>5. \A i \in 1 .. n : new[i] \in Rows /\ new[i].key = acc[i].key
    BY <2>2, <2>3
  <2>6. new \in Seq(Rows)
    BY <2>2, <2>4, <2>5
  <2>7. DistinctKeys(new)
    BY <2>2, <2>5 DEF DistinctKeys
  <2>8. \A i \in 1 .. n : acc[i].conf <= new[i].conf /\ (acc[i].key = r.key => r.conf <= new[i].conf)
    BY <2>2, <2>3, RowsAssumption
  <2>9. \A l \in DOMAIN acc : StandsFor(new, acc[l])
    BY <2>2, <2>5, <2>8 DEF StandsFor
  <2>10. StandsFor(new, r)
    BY <1>2, <2>2, <2>5, <2>8 DEF StandsFor
  <2>11. \A j \in DOMAIN new : new[j] = r \/ \E l \in DOMAIN acc : new[j] = acc[l]
    BY <2>2, <2>3
  <2> QED
    BY <2>1, <2>6, <2>7, <2>9, <2>10, <2>11 DEF Grown
<1> QED
  BY <1>1, <1>2

\* What is kept of the first n fetched rows: each key once, only rows that pass,
\* and something for each of those.
KeptOf(query, s, n, k) ==
    /\ k \in Seq(Rows) /\ DistinctKeys(k)
    /\ \A j \in DOMAIN k : \E i \in 1 .. n : k[j] = s[i] /\ PassesGo(query, s[i])
    /\ \A i \in 1 .. n : PassesGo(query, s[i]) => StandsFor(k, s[i])
    /\ (~query.join /\ Plan(query).go = {}) => Len(k) = n /\ \A i \in 1 .. n : k[i] = s[i]

LEMMA RoundKeeps ==
    ASSUME NEW query, NEW s \in Seq(Rows), query.join \/ DistinctKeys(s),
           NEW n \in 1 .. Len(s), NEW k, KeptOf(query, s, n - 1, k)
    PROVE  KeptOf(query, s, n, Round(query, k, s[n]))
<1> DEFINE new == Round(query, k, s[n])
<1>1. /\ n \in Nat /\ n - 1 \in Nat /\ n \in 1 .. n /\ (\A i \in 1 .. n - 1 : i \in 1 .. n /\ i # n)
      /\ \A i \in 1 .. n : i \in 1 .. Len(s) /\ s[i] \in Rows /\ (i = n \/ i \in 1 .. n - 1)
  OBVIOUS
<1>2. CASE ~ PassesGo(query, s[n])
  <2>1. new = k
    BY <1>2 DEF Round
  <2>2. Plan(query).go # {}
    BY <1>2 DEF PassesGo
  <2> QED
    BY <1>1, <1>2, <2>1, <2>2 DEF KeptOf
<1>3. CASE PassesGo(query, s[n])
  <2>1. Grown(k, new, s[n])
    <3>1. CASE query.join
      <4>1. new = KeepEdge(k, s[n])
        BY <1>3, <3>1 DEF Round
      <4> QED
        BY <1>1, <4>1, EdgeKept DEF KeptOf
    <3>2. CASE ~ query.join
      <4>1. new = Append(k, s[n])
        BY <1>3, <3>2 DEF Round
      <4>2. \A j \in DOMAIN k : k[j].key # s[n].key
        <5> SUFFICES ASSUME NEW j \in DOMAIN k PROVE k[j].key # s[n].key
          OBVIOUS
        <5>1. PICK i \in 1 .. n - 1 : k[j] = s[i]
          BY DEF KeptOf
        <5>2. i \in DOMAIN s /\ n \in DOMAIN s /\ i # n
          BY <1>1
        <5> QED
          BY <3>2, <5>1, <5>2 DEF DistinctKeys
      <4> QED
        BY <1>1, <4>1, <4>2, Appended DEF KeptOf
    <3> QED
      BY <3>1, <3>2
  <2>2. ASSUME ~ query.join, Plan(query).go = {} PROVE Len(new) = n /\ \A i \in 1 .. n : new[i] = s[i]
    <3>1. new = Append(k, s[n])
      BY <1>3, <2>2 DEF Round
    <3>2. k \in Seq(Rows) /\ Len(k) = n - 1 /\ \A i \in 1 .. n - 1 : k[i] = s[i]
      BY <2>2 DEF KeptOf
    <3> HIDE DEF new
    <3> QED
      BY <1>1, <3>1, <3>2
  <2> HIDE DEF new
  <2>3. \A j \in DOMAIN new : \E i \in 1 .. n : new[j] = s[i] /\ PassesGo(query, s[i])
    <3> SUFFICES ASSUME NEW j \in DOMAIN new PROVE \E i \in 1 .. n : new[j] = s[i] /\ PassesGo(query, s[i])
      OBVIOUS
    <3>1. CASE new[j] = s[n]
      BY <1>1, <1>3, <3>1
    <3>2. CASE \E l \in DOMAIN k : new[j] = k[l]
      BY <1>1, <3>2 DEF KeptOf
    <3> QED
      BY <2>1, <3>1, <3>2 DEF Grown
  <2>4. \A i \in 1 .. n : PassesGo(query, s[i]) => StandsFor(new, s[i])
    <3> SUFFICES ASSUME NEW i \in 1 .. n, PassesGo(query, s[i]) PROVE StandsFor(new, s[i])
      OBVIOUS
    <3>1. CASE i = n
      BY <2>1, <3>1 DEF Grown
    <3>2. CASE i # n
      <4>1. StandsFor(k, s[i])
        BY <1>1, <3>2 DEF KeptOf
      <4>2. PICK l \in DOMAIN k : k[l].key = s[i].key /\ s[i].conf <= k[l].conf
        BY <4>1 DEF StandsFor
      <4>3. PICK j \in DOMAIN new : new[j].key = k[l].key /\ k[l].conf <= new[j].conf
        BY <2>1 DEF Grown, StandsFor
      <4>4. s[i].conf \in Int /\ k[l].conf \in Int /\ new[j].conf \in Int
        <5>1. s[i] \in Rows
          BY <1>1
        <5>2. k[l] \in Rows
          BY DEF KeptOf
        <5>3. new[j] \in Rows
          BY <2>1 DEF Grown
        <5> QED
          BY <5>1, <5>2, <5>3, RowsAssumption
      <4>5. s[i].conf <= new[j].conf
        BY <4>2, <4>3, <4>4
      <4> QED
        BY <4>2, <4>3, <4>5 DEF StandsFor
    <3> QED
      BY <3>1, <3>2
  <2>5. KeptOf(query, s, n, new)
    BY <2>1, <2>2, <2>3, <2>4 DEF KeptOf, Grown
  <2> QED
    BY <2>5 DEF new
<1> QED
  BY <1>2, <1>3

\* So the whole loop, by induction on the rounds.
LEMMA LoopKeeps ==
    ASSUME NEW query, NEW s \in Seq(Rows), query.join \/ DistinctKeys(s)
    PROVE  KeptOf(query, s, Len(s), Filtered(query, s))
<1> DEFINE n == Len(s)
<1>1. n \in Nat
  OBVIOUS
<1>2. PICK f : /\ f[0] = <<>> /\ Filtered(query, s) = f[n]
               /\ \A i \in 1 .. n : f[i] = Round(query, f[i - 1], s[i])
  BY <1>1, FilteredIs
<1>3. KeptOf(query, s, 0, f[0])
  <2> DEFINE e == <<>>
  <2>1. e \in Seq(Rows) /\ Len(e) = 0 /\ DOMAIN e = {}
    OBVIOUS
  <2>2. f[0] = e
    BY <1>2
  <2> HIDE DEF e
  <2>3. \A i \in 1 .. 0 : FALSE
    OBVIOUS
  <2> QED
    BY <2>1, <2>2, <2>3 DEF KeptOf, DistinctKeys
<1> DEFINE S == {i \in 0 .. n : ~ KeptOf(query, s, i, f[i])}
<1>4. CASE S = {}
  <2>1. n \in 0 .. n
    BY <1>1
  <2> QED
    BY <1>2, <1>4, <2>1
<1>5. CASE S # {}
  <2>1. S \in SUBSET Nat
    OBVIOUS
  <2> HIDE DEF S
  <2>2. PICK m \in S : \A k \in S : m <= k
    BY <1>5, <2>1, LeastOf
  <2>3. m \in 0 .. n /\ ~ KeptOf(query, s, m, f[m])
    BY DEF S
  <2>4. m # 0
    BY <1>3, <2>3
  <2>5. m \in 1 .. n /\ m - 1 \in 0 .. n /\ ~ (m <= m - 1)
    BY <1>1, <2>3, <2>4
  <2>6. KeptOf(query, s, m - 1, f[m - 1])
    BY <2>2, <2>5 DEF S
  <2> QED
    BY <1>2, <2>3, <2>5, <2>6, RoundKeeps
<1> QED
  BY <1>4, <1>5

-----------------------------------------------------------------------------
(* Ranks: the sort and the first occurrences of buildResult *)

\* Where the elements of a finite set are in a total order, U[i] those up to i,
\* the size of U[i] numbers them from 1.
LEMMA Ranks ==
    ASSUME NEW S, IsFiniteSet(S), NEW U \in [S -> SUBSET S], \A i \in S : i \in U[i],
           \A i, j \in S : i # j => \/ U[i] \subseteq U[j] /\ j \notin U[i]
                                    \/ U[j] \subseteq U[i] /\ i \notin U[j]
    PROVE  /\ \A i \in S : Cardinality(U[i]) \in 1 .. Cardinality(S)
           /\ \A i, j \in S : Cardinality(U[i]) = Cardinality(U[j]) => i = j
           /\ \A k \in 1 .. Cardinality(S) : \E i \in S : Cardinality(U[i]) = k
           /\ \A i, j \in S : i \in U[j] /\ i # j => Cardinality(U[i]) < Cardinality(U[j])
<1> DEFINE n == Cardinality(S)
           rank == [i \in S |-> Cardinality(U[i])]
<1>1. n \in Nat
  BY FS_CardinalityType
<1>2. ASSUME NEW i \in S
      PROVE  IsFiniteSet(U[i]) /\ Cardinality(U[i]) \in Nat /\ Cardinality(U[i]) <= n /\ Cardinality(U[i]) # 0
  <2>1. U[i] \in SUBSET S
    OBVIOUS
  <2>2. IsFiniteSet(U[i]) /\ Cardinality(U[i]) <= n
    BY <2>1, FS_Subset
  <2>3. Cardinality(U[i]) \in Nat
    BY <2>2, FS_CardinalityType
  <2>4. Cardinality(U[i]) # 0
    BY <2>2, FS_EmptySet
  <2> QED
    BY <2>2, <2>3, <2>4
<1>3. ASSUME NEW i \in S, NEW j \in S, U[i] \subseteq U[j], j \notin U[i]
      PROVE  Cardinality(U[i]) < Cardinality(U[j])
  <2>1. U[i] \in SUBSET U[j]
    BY <1>3
  <2>2. Cardinality(U[i]) <= Cardinality(U[j]) /\ Cardinality(U[i]) # Cardinality(U[j])
    BY <1>2, <1>3, <2>1, FS_Subset
  <2> QED
    BY <1>2, <2>2
<1>4. ASSUME NEW i \in S, NEW j \in S, i # j PROVE Cardinality(U[i]) # Cardinality(U[j])
  <2>1. CASE U[i] \subseteq U[j] /\ j \notin U[i]
    BY <1>2, <1>3, <2>1
  <2>2. CASE U[j] \subseteq U[i] /\ i \notin U[j]
    BY <1>2, <1>3, <2>2
  <2> QED
    BY <1>4, <2>1, <2>2
<1>5. \A i \in S : Cardinality(U[i]) \in 1 .. n
  BY <1>1, <1>2
<1>6. rank \in Injection(S, 1 .. n)
  <2>1. rank \in [S -> 1 .. n]
    BY <1>5
  <2>2. \A i \in S : rank[i] = Cardinality(U[i])
    OBVIOUS
  <2> HIDE DEF rank, n
  <2> QED
    BY <1>4, <2>1, <2>2 DEF Injection, IsInjective
<1>7. IsFiniteSet(1 .. n) /\ Cardinality(1 .. n) = n
  BY <1>1, Positions
<1>8. rank \in Surjection(S, 1 .. n)
  <2> HIDE DEF rank
  <2> QED
    BY <1>6, <1>7, FS_Injection
<1>9. \A k \in 1 .. n : \E i \in S : Cardinality(U[i]) = k
  BY <1>8 DEF Surjection
<1>10. ASSUME NEW i \in S, NEW j \in S, i \in U[j], i # j PROVE Cardinality(U[i]) < Cardinality(U[j])
  BY <1>3, <1>10
<1> QED
  BY <1>4, <1>5, <1>9, <1>10

\* The stable sort of m rows: a permutation that moves a row after those before it
\* in the order.
SortsRows(s, order, m) ==
    /\ OrderBy(s, order) = [k \in 1 .. m |-> OrderBy(s, order)[k]]
    /\ \A i \in 1 .. m : /\ Cardinality(UpTo(s, order, i)) \in 1 .. m
                         /\ OrderBy(s, order)[Cardinality(UpTo(s, order, i))] = s[i]
    /\ \A k \in 1 .. m : \E i \in 1 .. m : Cardinality(UpTo(s, order, i)) = k
    /\ \A i, j \in 1 .. m : Before(order, s[i], s[j]) =>
          Cardinality(UpTo(s, order, i)) < Cardinality(UpTo(s, order, j))

LEMMA OrderByIs ==
    ASSUME NEW m \in Nat, NEW s, DOMAIN s = 1 .. m, \A i \in 1 .. m : s[i].num \in Int,
           NEW order \in {"none", "ASC", "DESC"}
    PROVE  SortsRows(s, order, m)
<1> DEFINE S == 1 .. m
           U == [i \in S |-> UpTo(s, order, i)]
           before(i, j) == Before(order, s[i], s[j])
<1>1. IsFiniteSet(S) /\ Cardinality(S) = m
  BY Positions
<1>2. \A i \in S : U[i] = {j \in S : before(j, i) \/ (j <= i /\ ~ before(i, j))}
  BY DEF UpTo
<1>3. U \in [S -> SUBSET S]
  BY DEF UpTo
<1>4. /\ \A i \in S : ~ before(i, i)
      /\ \A i, j \in S : before(i, j) => ~ before(j, i)
      /\ \A i, j, k \in S : before(i, j) /\ before(j, k) => before(i, k)
      /\ \A i, j, k \in S : ~ before(i, j) /\ ~ before(j, k) => ~ before(i, k)
  <2>1. CASE order = "ASC"
    BY <2>1 DEF Before
  <2>2. CASE order = "DESC"
    BY <2>2 DEF Before
  <2>3. CASE order = "none"
    BY <2>3 DEF Before
  <2> QED
    BY <2>1, <2>2, <2>3
<1> HIDE DEF before, U
<1>5. \A i \in S : i \in U[i]
  BY <1>2, <1>4
<1>6. ASSUME NEW i \in S, NEW j \in S, i # j, i \in U[j] PROVE U[i] \subseteq U[j] /\ j \notin U[i]
  <2>1. j \notin U[i]
    BY <1>2, <1>4, <1>6
  <2>2. ASSUME NEW k \in U[i] PROVE k \in U[j]
    <3>1. k \in S /\ (before(k, i) \/ (k <= i /\ ~ before(i, k)))
      BY <1>2
    <3>2. before(i, j) \/ (i <= j /\ ~ before(j, i))
      BY <1>2, <1>6
    <3>3. before(k, j) \/ (k <= j /\ ~ before(j, k))
      <4>1. CASE before(k, i)
        BY <1>4, <3>1, <3>2, <4>1
      <4>2. CASE ~ before(k, i)
        <5>1. k <= i /\ ~ before(i, k)
          BY <3>1, <4>2
        <5>2. CASE before(i, j)
          BY <1>4, <3>1, <5>1, <5>2
        <5>3. CASE ~ before(i, j)
          <6>1. i <= j /\ ~ before(j, i)
            BY <3>2, <5>3
          <6>2. k <= j
            BY <3>1, <5>1, <6>1
          <6>3. ~ before(j, k)
            BY <1>4, <3>1, <5>1, <6>1
          <6> QED
            BY <6>2, <6>3
        <5> QED
          BY <5>2, <5>3
      <4> QED
        BY <4>1, <4>2
    <3> QED
      BY <1>2, <3>1, <3>3
  <2> QED
    BY <2>1, <2>2
<1>7. \A i, j \in S : i # j => i \in U[j] \/ j \in U[i]
  BY <1>2, <1>4
<1>8. \A i, j \in S : i # j => \/ U[i] \subseteq U[j] /\ j \notin U[i]
                               \/ U[j] \subseteq U[i] /\ i \notin U[j]
  BY <1>6, <1>7
<1>9. /\ \A i \in S : Cardinality(U[i]) \in 1 .. m
      /\ \A i, j \in S : Cardinality(U[i]) = Cardinality(U[j]) => i = j
      /\ \A k \in 1 .. m : \E i \in S : Cardinality(U[i]) = k
      /\ \A i, j \in S : i \in U[j] /\ i # j => Cardinality(U[i]) < Cardinality(U[j])
  <2> HIDE DEF S
  <2> QED
    BY <1>1, <1>3, <1>5, <1>8, Ranks
<1>10. \A i \in S : U[i] = UpTo(s, order, i)
  BY DEF U
<1> DEFINE O == OrderBy(s, order)
<1>11. O = [k \in S |-> s[CHOOSE i \in S : Cardinality(UpTo(s, order, i)) = k]]
  BY DEF OrderBy
<1>12. DOMAIN O = S /\ O = [k \in S |-> O[k]]
  BY <1>11
<1>13. \A k \in S : O[k] = s[CHOOSE i \in S : Cardinality(UpTo(s, order, i)) = k]
  BY <1>11
<1> HIDE DEF O
<1>14. ASSUME NEW i \in S PROVE O[Cardinality(U[i])] = s[i]
  <2> DEFINE k == Cardinality(U[i])
             c == CHOOSE j \in S : Cardinality(UpTo(s, order, j)) = k
  <2>1. k \in S
    BY <1>9
  <2>2. \E j \in S : Cardinality(UpTo(s, order, j)) = k
    BY <1>10
  <2>3. c \in S /\ Cardinality(UpTo(s, order, c)) = k
    BY <2>2
  <2>4. O[k] = s[c]
    BY <1>13, <2>1
  <2> HIDE DEF k, c
  <2>5. Cardinality(U[c]) = Cardinality(U[i])
    BY <1>10, <2>3 DEF k
  <2>6. c = i
    BY <1>9, <2>3, <2>5
  <2> QED
    BY <2>4, <2>6 DEF k
<1>15. ASSUME NEW i \in S, NEW j \in S, before(i, j) PROVE Cardinality(U[i]) < Cardinality(U[j])
  <2>1. i \in U[j] /\ i # j
    BY <1>2, <1>4, <1>15
  <2> QED
    BY <1>9, <2>1
<1> DEFINE at(i) == Cardinality(UpTo(s, order, i))
<1>16. \A i \in S : at(i) = Cardinality(U[i])
  BY <1>10
<1> HIDE DEF at
<1>17. \A i \in S : at(i) \in 1 .. m /\ O[at(i)] = s[i]
  BY <1>9, <1>14, <1>16
<1>18. \A k \in 1 .. m : \E i \in S : at(i) = k
  BY <1>9, <1>16
<1>19. \A i, j \in S : Before(order, s[i], s[j]) => at(i) < at(j)
  BY <1>15, <1>16 DEF before
<1> QED
  BY <1>12, <1>17, <1>18, <1>19, Zenon DEF O, at, SortsRows

\* F lists the members of V, each in one place.
Lists(F, V) ==
    /\ Cardinality(V) \in Nat /\ DOMAIN F = 1 .. Cardinality(V)
    /\ \A k \in DOMAIN F : F[k] \in V
    /\ \A v \in V : \E k \in DOMAIN F : F[k] = v

LEMMA FirstSeenIs ==
    ASSUME NEW m \in Nat, NEW vals, DOMAIN vals = 1 .. m
    PROVE  Lists(FirstSeen(vals), {vals[i] : i \in 1 .. m})
<1> DEFINE V == {vals[i] : i \in 1 .. m}
           S == {i \in 1 .. m : \A j \in 1 .. i - 1 : vals[j] # vals[i]}
           U == [i \in S |-> {j \in S : j <= i}]
           F == FirstSeen(vals)
           c == Cardinality(S)
<1>1. IsFiniteSet(S)
  <2>1. S \in SUBSET (1 .. m) /\ IsFiniteSet(1 .. m)
    BY Positions
  <2> QED
    BY <2>1, FS_Subset
<1>2. c \in Nat
  BY <1>1, FS_CardinalityType
<1>3. \A i \in S : i \in Nat /\ i \in 1 .. m
  OBVIOUS
<1>4. \A i, j \in S : vals[i] = vals[j] => i = j
  <2> SUFFICES ASSUME NEW i \in S, NEW j \in S, vals[i] = vals[j], i < j PROVE FALSE
    BY <1>3
  <2>1. i \in 1 .. j - 1
    BY <1>3
  <2> QED
    BY <2>1
<1>5. \A v \in V : \E i \in S : vals[i] = v
  <2> SUFFICES ASSUME NEW v \in V PROVE \E i \in S : vals[i] = v
    OBVIOUS
  <2> DEFINE T == {i \in 1 .. m : vals[i] = v}
  <2>1. T \in SUBSET Nat /\ T # {}
    OBVIOUS
  <2> HIDE DEF T
  <2>2. PICK i \in T : \A k \in T : i <= k
    BY <2>1, LeastOf
  <2>3. i \in 1 .. m /\ vals[i] = v
    BY DEF T
  <2>4. ASSUME NEW j \in 1 .. i - 1 PROVE vals[j] # vals[i]
    <3>1. j \in 1 .. m /\ ~ (i <= j)
      BY <2>3
    <3>2. j \notin T
      BY <2>2, <3>1
    <3> QED
      BY <2>3, <3>1, <3>2 DEF T
  <2> QED
    BY <2>3, <2>4
<1>6. \A i \in S : vals[i] \in V
  OBVIOUS
<1>7. F = [k \in 1 .. c |-> vals[CHOOSE i \in S : Cardinality({j \in S : j <= i}) = k]]
  <2> DEFINE D == {i \in DOMAIN vals : \A j \in 1 .. i - 1 : vals[j] # vals[i]}
  <2>1. F = [k \in 1 .. Cardinality(D) |-> vals[CHOOSE i \in D : Cardinality({j \in D : j <= i}) = k]]
    BY Zenon DEF FirstSeen
  <2>2. D = S
    OBVIOUS
  <2> HIDE DEF D, S, F
  <2> QED
    BY <2>1, <2>2
<1>8. U \in [S -> SUBSET S] /\ \A i \in S : U[i] = {j \in S : j <= i}
  OBVIOUS
<1> HIDE DEF S, V, U, F
<1>9. \A i \in S : i \in U[i]
  BY <1>3, <1>8
<1>10. \A i, j \in S : i # j => \/ U[i] \subseteq U[j] /\ j \notin U[i]
                                \/ U[j] \subseteq U[i] /\ i \notin U[j]
  BY <1>3, <1>8
<1>11. /\ \A i \in S : Cardinality(U[i]) \in 1 .. c
       /\ \A i, j \in S : Cardinality(U[i]) = Cardinality(U[j]) => i = j
       /\ \A k \in 1 .. c : \E i \in S : Cardinality(U[i]) = k
  BY <1>1, <1>8, <1>9, <1>10, Ranks
<1>12. Cardinality(V) = c
  <2> DEFINE b == [i \in S |-> vals[i]]
  <2>1. b \in [S -> V] /\ \A i \in S : b[i] = vals[i]
    BY <1>6
  <2> HIDE DEF b
  <2>2. b \in Injection(S, V)
    BY <1>4, <2>1 DEF Injection, IsInjective
  <2>3. b \in Surjection(S, V)
    BY <1>5, <2>1 DEF Surjection
  <2>4. b \in Bijection(S, V)
    BY <2>2, <2>3 DEF Bijection
  <2>5. ExistsBijection(S, V)
    BY <2>4 DEF ExistsBijection
  <2> QED
    BY <1>1, <2>5, FS_Bijection
<1>13. DOMAIN F = 1 .. c
  BY <1>7
<1>14. ASSUME NEW k \in 1 .. c
       PROVE  \E i \in S : Cardinality(U[i]) = k /\ F[k] = vals[i]
  <2> DEFINE i == CHOOSE i \in S : Cardinality({j \in S : j <= i}) = k
  <2>1. F[k] = vals[i]
    BY <1>7
  <2>2. \E j \in S : Cardinality({l \in S : l <= j}) = k
    BY <1>8, <1>11
  <2>3. i \in S /\ Cardinality({l \in S : l <= i}) = k
    BY <2>2, Zenon
  <2> HIDE DEF i
  <2> QED
    BY <1>8, <2>1, <2>3
<1>15. \A k \in 1 .. c : F[k] \in V
  BY <1>6, <1>14
<1>16. ASSUME NEW v \in V PROVE \E k \in 1 .. c : F[k] = v
  <2>1. PICK i \in S : vals[i] = v
    BY <1>5
  <2>2. Cardinality(U[i]) \in 1 .. c
    BY <1>11
  <2>3. PICK j \in S : Cardinality(U[j]) = Cardinality(U[i]) /\ F[Cardinality(U[i])] = vals[j]
    BY <1>14, <2>2
  <2>4. j = i
    BY <1>11, <2>3
  <2> QED
    BY <2>1, <2>2, <2>3, <2>4
<1> HIDE DEF c
<1>17. Lists(F, V)
  BY <1>2, <1>12, <1>13, <1>15, <1>16 DEF Lists
<1> QED
  BY <1>17 DEF V, F

-----------------------------------------------------------------------------
(* The scan *)

LEMMA MinOfTwo ==
    ASSUME NEW a \in Int, NEW b \in Int
    PROVE  Min({a, b}) = IF a <= b THEN a ELSE b
<1> DEFINE m == IF a <= b THEN a ELSE b
<1>1. m \in {a, b} /\ \A y \in {a, b} : m <= y
  OBVIOUS
<1>2. \A x \in {a, b} : (\A y \in {a, b} : x <= y) => x = m
  OBVIOUS
<1> HIDE DEF m
<1>3. (CHOOSE x \in {a, b} : \A y \in {a, b} : x <= y) = m
  BY <1>1, <1>2
<1> QED
  BY <1>3 DEF Min, m

LEMMA MinOfThree ==
    ASSUME NEW a \in Int, NEW b \in Int, NEW c \in Int, NEW m \in {a, b, c}, m <= a, m <= b, m <= c
    PROVE  Min({a, b, c}) = m
<1>1. \A y \in {a, b, c} : m <= y
  OBVIOUS
<1>2. \A x \in {a, b, c} : (\A y \in {a, b, c} : x <= y) => x = m
  OBVIOUS
<1>3. (CHOOSE x \in {a, b, c} : \A y \in {a, b, c} : x <= y) = m
  BY <1>1, <1>2
<1> QED
  BY <1>3 DEF Min

\* The first n of a sequence.
LEMMA TakeIs ==
    ASSUME NEW T, NEW s \in Seq(T), NEW n \in Nat
    PROVE  LET m == IF n <= Len(s) THEN n ELSE Len(s)
           IN  /\ Take(s, n) \in Seq(T) /\ Len(Take(s, n)) = m /\ DOMAIN Take(s, n) = 1 .. m
               /\ \A i \in 1 .. m : i \in DOMAIN s /\ Take(s, n)[i] = s[i]
<1> DEFINE m == IF n <= Len(s) THEN n ELSE Len(s)
<1>1. Len(s) \in Nat /\ DOMAIN s = 1 .. Len(s)
  OBVIOUS
<1>2. Take(s, n) = SubSeq(s, 1, m)
  <2>1. Min({n, Len(s)}) = m
    BY <1>1, MinOfTwo
  <2> QED
    BY <2>1 DEF Take
<1>3. m \in Nat /\ m <= Len(s)
  BY <1>1
<1>4. m = 0 \/ m \in 1 .. Len(s)
  BY <1>1, <1>3
<1> HIDE DEF m
<1>5. /\ SubSeq(s, 1, m) \in Seq(T) /\ Len(SubSeq(s, 1, m)) = m
      /\ \A i \in 1 .. m : SubSeq(s, 1, m)[i] = s[i]
  <2>1. 1 \in 1 .. Len(s) + 1 /\ m \in 0 .. Len(s)
    BY <1>1, <1>3
  <2>2. \A i \in 1 .. m : s[i] \in T
    BY <1>1, <1>3
  <2> QED
    BY <1>1, <1>3, <2>1, <2>2
<1>6. DOMAIN SubSeq(s, 1, m) = 1 .. m
  BY <1>5
<1>7. \A i \in 1 .. m : i \in DOMAIN s
  BY <1>1, <1>3
<1> QED
  BY <1>2, <1>5, <1>6, <1>7 DEF m

\* The selected rows are a finite set of rows.
LEMMA SelectedFacts ==
    ASSUME corpus \subseteq Rows, NEW query
    PROVE  /\ Selected(query) \subseteq Rows /\ IsFiniteSet(Selected(query))
           /\ Cardinality(Selected(query)) \in Nat
           /\ Selected(query) \subseteq Stored(query)
           /\ \A r \in Selected(query) : \A w \in Plan(query).sql : WhereExprToSQL(w, r) = "T"
<1>1. Selected(query) \subseteq Stored(query) /\ Stored(query) \subseteq corpus
  BY DEF Selected, Stored
<1>2. Selected(query) \in SUBSET Rows
  BY <1>1
<1>3. IsFiniteSet(Selected(query))
  BY <1>2, RowsAssumption, FS_Subset
<1>4. Cardinality(Selected(query)) \in Nat
  BY <1>3, FS_CardinalityType
<1> QED
  BY <1>1, <1>2, <1>3, <1>4 DEF Selected

\* An order of the selected rows has each of them once.
LEMMA OrderFacts ==
    ASSUME corpus \subseteq Rows, NEW query, NEW s \in Orders(query)
    PROVE  /\ s \in Seq(Rows) /\ Len(s) = Cardinality(Selected(query))
           /\ \A i \in DOMAIN s : s[i] \in Selected(query)
           /\ \A i, j \in DOMAIN s : s[i] = s[j] => i = j
           /\ \A r \in Selected(query) : \E i \in DOMAIN s : s[i] = r
           /\ query.join \/ DistinctKeys(s)
<1> DEFINE S == Selected(query)
           n == Cardinality(S)
<1>1. S \subseteq Rows /\ IsFiniteSet(S) /\ n \in Nat /\ S \subseteq Stored(query)
  BY SelectedFacts
<1>2. s \in [1 .. n -> S] /\ \A i, j \in 1 .. n : i # j => s[i] # s[j]
  BY DEF Orders, SetToSeqs
<1> HIDE DEF S, n
<1>3. s \in [1 .. n -> Rows]
  BY <1>1, <1>2
<1>4. s \in Seq(Rows) /\ Len(s) = n /\ DOMAIN s = 1 .. n
  BY <1>1, <1>3
<1>5. s \in Injection(1 .. n, S)
  BY <1>2 DEF Injection, IsInjective
<1>6. IsFiniteSet(1 .. n) /\ Cardinality(1 .. n) = n
  BY <1>1, Positions
<1>7. s \in Surjection(1 .. n, S)
  BY <1>1, <1>5, <1>6, FS_Injection DEF n
<1>8. \A r \in S : \E i \in 1 .. n : s[i] = r
  BY <1>7 DEF Surjection
<1>9. query.join \/ DistinctKeys(s)
  <2> SUFFICES ASSUME ~ query.join, NEW i \in 1 .. n, NEW j \in 1 .. n, s[i].key = s[j].key PROVE i = j
    BY <1>4 DEF DistinctKeys
  <2>1. s[i].src = 1 /\ s[j].src = 1
    BY <1>1, <1>2 DEF Stored
  <2>2. s[i] = s[j]
    BY <1>3, <2>1, RowsAssumption
  <2> QED
    BY <1>2, <2>2
<1> QED
  BY <1>2, <1>4, <1>8, <1>9 DEF S, n

LEMMA ScanLimitFacts ==
    ASSUME corpus \subseteq Rows, NEW query
    PROVE  /\ ScanLimit(query) \in Nat
           /\ HasAggregation(query) \/ query.shape = "distinct" => ~ Cut(query)
<1>1. IsFiniteSet(corpus) /\ Cardinality(corpus) \in Nat
  BY RowsAssumption, FS_Subset, FS_CardinalityType
<1>2. MaxRows * 2 \in Nat /\ MaxRows * FilterFactor \in Nat /\ FilterCap \in Nat
  BY QueryAssumption
<1>3. Min({MaxRows * FilterFactor, FilterCap}) \in Nat
  BY <1>2, MinOfTwo
<1>4. ScanLimit(query) \in Nat
  BY <1>1, <1>2, <1>3 DEF ScanLimit
<1>5. Selected(query) \in SUBSET corpus
  BY DEF Selected, Stored
<1>6. Cardinality(Selected(query)) <= Cardinality(corpus) /\ Cardinality(Selected(query)) \in Nat
  BY <1>1, <1>5, FS_Subset, FS_CardinalityType
<1> QED
  BY <1>1, <1>4, <1>6 DEF Cut, ScanLimit

\* The rows a scan fetches: selected rows, all of them unless it was cut.
Fetched(query, t) ==
    /\ t \in Seq(Rows)
    /\ query.join \/ DistinctKeys(t)
    /\ \A i \in DOMAIN t : t[i] \in Selected(query)
    /\ ~Cut(query) => \A r \in Selected(query) : \E i \in DOMAIN t : t[i] = r

LEMMA FetchFacts ==
    ASSUME corpus \subseteq Rows, NEW query, NEW s \in Orders(query)
    PROVE  Fetched(query, Take(s, ScanLimit(query)))
<1> DEFINE n == ScanLimit(query)
           m == IF n <= Len(s) THEN n ELSE Len(s)
           t == Take(s, n)
<1>1. n \in Nat
  BY ScanLimitFacts
<1>2. /\ s \in Seq(Rows) /\ Len(s) = Cardinality(Selected(query))
      /\ \A i \in DOMAIN s : s[i] \in Selected(query)
      /\ \A r \in Selected(query) : \E i \in DOMAIN s : s[i] = r
      /\ query.join \/ DistinctKeys(s)
  BY OrderFacts
<1>3. Len(s) \in Nat /\ DOMAIN s = 1 .. Len(s)
  BY <1>2
<1>4. /\ t \in Seq(Rows) /\ Len(t) = m /\ DOMAIN t = 1 .. m
      /\ \A i \in 1 .. m : i \in DOMAIN s /\ t[i] = s[i]
  BY <1>1, <1>2, TakeIs
<1>5. ~ Cut(query) => m = Len(s)
  BY <1>1, <1>2, <1>3 DEF Cut
<1> HIDE DEF m, t, n
<1>6. query.join \/ DistinctKeys(t)
  BY <1>2, <1>4 DEF DistinctKeys
<1>7. \A i \in DOMAIN t : t[i] \in Selected(query)
  BY <1>2, <1>4
<1>8. ~ Cut(query) => \A r \in Selected(query) : \E i \in DOMAIN t : t[i] = r
  BY <1>2, <1>3, <1>4, <1>5
<1> QED
  BY <1>4, <1>6, <1>7, <1>8 DEF Fetched, t, n

\* The rows a scan of the query may leave.
Scanned(query, k) == \E s \in Orders(query) : k = Filtered(query, Take(s, ScanLimit(query)))

\* What the loop keeps of a scan: selected rows that pass in Go, each key once, and
\* something for every such row unless the scan was cut.
LEMMA ScanKeeps ==
    ASSUME corpus \subseteq Rows, NEW query, NEW k, Scanned(query, k)
    PROVE  /\ k \in Seq(Rows) /\ DistinctKeys(k)
           /\ \A j \in DOMAIN k : k[j] \in Selected(query) /\ PassesGo(query, k[j])
           /\ ~Cut(query) => \A r \in Selected(query) : PassesGo(query, r) => StandsFor(k, r)
<1>1. PICK s \in Orders(query) : k = Filtered(query, Take(s, ScanLimit(query)))
  BY DEF Scanned
<1> DEFINE t == Take(s, ScanLimit(query))
<1>2. Fetched(query, t)
  BY FetchFacts
<1> HIDE DEF t
<1>3. t \in Seq(Rows) /\ (query.join \/ DistinctKeys(t))
  BY <1>2 DEF Fetched
<1>4. KeptOf(query, t, Len(t), k)
  BY <1>1, <1>3, LoopKeeps DEF t
<1>5. DOMAIN t = 1 .. Len(t)
  BY <1>3
<1>6. \A j \in DOMAIN k : k[j] \in Selected(query) /\ PassesGo(query, k[j])
  BY <1>2, <1>4, <1>5 DEF KeptOf, Fetched
<1>7. ASSUME ~ Cut(query), NEW r \in Selected(query), PassesGo(query, r) PROVE StandsFor(k, r)
  <2>1. PICK i \in 1 .. Len(t) : t[i] = r
    BY <1>2, <1>5, <1>7 DEF Fetched
  <2> QED
    BY <1>4, <1>7, <2>1 DEF KeptOf
<1> QED
  BY <1>4, <1>6, <1>7 DEF KeptOf

-----------------------------------------------------------------------------
(* The invariant *)

QInv ==
    /\ corpus \subseteq Rows
    /\ pc \in {"idle", "asked", "scanned", "built"}
    /\ pc # "idle" => q \in Queries /\ warn = Warnings(q)
    /\ pc \in {"scanned", "built"} => Scanned(q, kept)
    /\ pc = "built" => res = BuildResult(q, kept)

LEMMA QInit == Init => QInv
  BY DEF Init, QInv

LEMMA QStep == QInv /\ [Next]_vars => QInv'
<1> SUFFICES ASSUME QInv, [Next]_vars PROVE QInv'
  OBVIOUS
<1>1. ASSUME corpus' = corpus, q' = q
      PROVE  Orders(q)' = Orders(q) /\ ScanLimit(q)' = ScanLimit(q)
  BY <1>1 DEF Orders, Selected, Stored, ScanLimit
<1>2. ASSUME corpus' = corpus, q' = q, kept' = kept, Scanned(q, kept)
      PROVE  Scanned(q, kept)'
  BY <1>1, <1>2 DEF Scanned
<1>3. CASE Ask
  BY <1>3 DEF Ask, QInv
<1>4. CASE Scan
  <2>1. corpus' = corpus /\ q' = q /\ pc' = "scanned" /\ warn' = warn /\ pc = "asked"
    BY <1>4 DEF Scan
  <2>2. Scanned(q, kept)'
    BY <1>1, <1>4, <2>1 DEF Scan, Scanned
  <2> QED
    BY <2>1, <2>2 DEF QInv
<1>5. CASE Build
  <2>1. /\ corpus' = corpus /\ q' = q /\ kept' = kept /\ warn' = warn
        /\ pc = "scanned" /\ pc' = "built" /\ res' = BuildResult(q, kept)
    BY <1>5 DEF Build
  <2>2. Scanned(q, kept)'
    BY <1>2, <2>1 DEF QInv
  <2>3. BuildResult(q, kept)' = BuildResult(q, kept)
    BY <2>1
  <2> QED
    BY <2>1, <2>2, <2>3 DEF QInv
<1>6. CASE Reply
  BY <1>6 DEF Reply, QInv
<1>7. CASE UNCHANGED vars
  <2>1. corpus' = corpus /\ q' = q /\ kept' = kept /\ warn' = warn /\ pc' = pc /\ res' = res
    BY <1>7 DEF vars
  <2>2. Scanned(q, kept) => Scanned(q, kept)'
    BY <1>2, <2>1
  <2>3. BuildResult(q, kept)' = BuildResult(q, kept) /\ Warnings(q)' = Warnings(q)
    BY <2>1
  <2> QED
    BY <2>1, <2>2, <2>3 DEF QInv
<1> QED
  BY <1>3, <1>4, <1>5, <1>6, <1>7 DEF Next

LEMMA QInvariance == Spec => []QInv
<1>1. Init => QInv
  BY QInit
<1>2. QInv /\ [Next]_vars => QInv'
  BY QStep
<1> QED
  BY <1>1, <1>2, PTL DEF Spec

\* The copies of one edge have the same columns, so Go evaluates them alike.
LEMMA CopiesAlike ==
    ASSUME NEW w \in Wheres, NEW r \in Rows, NEW s \in Rows, r.key = s.key
    PROVE  /\ MatchesWhere(w, r) <=> MatchesWhere(w, s)
           /\ r.doc = s.doc /\ r.test = s.test /\ r.num = s.num
           /\ Alike(w, r) <=> Alike(w, s)
<1>1. r.doc = s.doc /\ r.test = s.test /\ r.num = s.num
  BY RowsAssumption
<1>2. IsTree(w)
  BY QueryAssumption
<1>3. \A c : ScanSymRow(c, r) = ScanSymRow(c, s)
  <2> TAKE c
  <2>1. c.col \in Cols => c.col \in {"doc", "test", "num"}
    BY DEF Cols
  <2>2. c.col \in Cols => r[c.col] = s[c.col]
    BY <1>1, <2>1
  <2> QED
    BY <1>1, <2>1, <2>2 DEF ScanSymRow, Flag
<1>4. \A c \in Leaves(w) : EvalCondition(c, r) = EvalCondition(c, s)
  BY <1>1, <1>3 DEF EvalCondition
<1>5. MatchesWhere(w, r) <=> MatchesWhere(w, s)
  BY <1>2, <1>4, GoDepends
<1>6. Alike(w, r) <=> Alike(w, s)
  <2>1. \A c : ReadAlike(c, r) <=> ReadAlike(c, s)
    BY <1>1, Zenon DEF ReadAlike
  <2> QED
    BY <2>1 DEF Alike
<1> QED
  BY <1>1, <1>5, <1>6

\* A row with the key of a kept one satisfies the WHERE, when no leaf is dropped.
LEMMA KeptMatches ==
    ASSUME QInv, pc \in {"scanned", "built"}, NEW r \in Stored(q), Has(kept, r),
           SameMeaning(r), NothingDropped(q)
    PROVE  r \in Matching
<1>1. q \in Queries /\ q.where \in Wheres /\ corpus \subseteq Rows /\ Scanned(q, kept)
  BY DEF QInv, Queries
<1>2. r \in Rows
  BY <1>1 DEF Stored
<1>3. PICK i \in DOMAIN kept : kept[i].key = r.key
  BY DEF Has
<1> DEFINE k == kept[i]
<1>4. kept \in Seq(Rows) /\ k \in Selected(q) /\ PassesGo(q, k)
  BY <1>1, ScanKeeps
<1>5. k \in Rows
  BY <1>4
<1>6. PlanPasses(q, k)
  BY <1>4 DEF PlanPasses, PassesGo, Selected
<1>7. k.key = r.key
  BY <1>3
<1> HIDE DEF k
<1>8. /\ MatchesWhere(q.where, k) <=> MatchesWhere(q.where, r)
      /\ HasValues(k) <=> HasValues(r)
      /\ Alike(q.where, k) <=> Alike(q.where, r)
  BY <1>1, <1>2, <1>5, <1>7, CopiesAlike DEF HasValues
<1>9. MatchesWhere(q.where, k)
  BY <1>1, <1>5, <1>6, <1>8, PlanExact DEF SameMeaning, Alike
<1> QED
  BY <1>8, <1>9 DEF Matching

\* A row that satisfies the WHERE is kept, as itself or as another copy.
LEMMA MatchingKept ==
    ASSUME QInv, pc \in {"scanned", "built"}, NEW r \in Matching, SameMeaning(r), ~Cut(q)
    PROVE  Has(kept, r)
<1>1. q \in Queries /\ corpus \subseteq Rows /\ Scanned(q, kept)
  BY DEF QInv
<1>2. r \in Rows /\ r \in Stored(q) /\ MatchesWhere(q.where, r)
  BY <1>1 DEF Matching, Stored
<1>3. PlanPasses(q, r)
  BY <1>1, <1>2, PlanExact DEF SameMeaning, Alike
<1>4. r \in Selected(q) /\ PassesGo(q, r)
  BY <1>2, <1>3 DEF PlanPasses, Selected, PassesGo
<1>5. StandsFor(kept, r)
  BY <1>1, <1>4, ScanKeeps
<1> QED
  BY <1>5 DEF StandsFor, Has

\* Whatever the planner gives to SQL, and for every WHERE tree, table and limit,
\* the scan keeps exactly the rows for which the WHERE holds as Go evaluates it,
\* and a join keeps each edge once, as its best copy.
THEOREM WheresAreExact == Spec => []WhereExact
<1>1. QInv => WhereExact
  <2> SUFFICES ASSUME QInv, pc = "scanned" PROVE WhereExact
    BY DEF WhereExact
  <2>1. corpus \subseteq Rows /\ Scanned(q, kept)
    BY DEF QInv
  <2>2. /\ kept \in Seq(Rows) /\ DistinctKeys(kept)
        /\ ~Cut(q) => \A r \in Selected(q) : PassesGo(q, r) => StandsFor(kept, r)
    BY <2>1, ScanKeeps
  <2>3. ASSUME NEW r \in Stored(q), Comparable(r), Has(kept, r) PROVE r \in Matching
    BY <2>3, KeptMatches DEF Comparable, NothingDropped
  <2>4. ASSUME NEW r \in Matching, Comparable(r), ~Cut(q) PROVE Has(kept, r)
    BY <2>4, MatchingKept DEF Comparable
  <2>5. ASSUME NEW i \in DOMAIN kept, NEW j \in DOMAIN kept, kept[i].key = kept[j].key PROVE i = j
    BY <2>2, <2>5 DEF DistinctKeys
  <2>6. ASSUME ~Cut(q), NEW i \in DOMAIN kept, NEW r \in Answer, r.key = kept[i].key
        PROVE  r.conf <= kept[i].conf
    <3>1. r \in Selected(q) /\ PassesGo(q, r)
      BY DEF Answer, PassesGo
    <3>2. PICK j \in DOMAIN kept : kept[j].key = r.key /\ r.conf <= kept[j].conf
      BY <2>2, <2>6, <3>1 DEF StandsFor
    <3> QED
      BY <2>5, <2>6, <3>2
  <2> QED
    BY <2>3, <2>4, <2>5, <2>6 DEF WhereExact
<1> QED
  BY <1>1, QInvariance, PTL

\* A row passes that some part of the WHERE excludes only when the answer carries
\* a warning.
THEOREM NothingIsIgnoredSilently == Spec => []IgnoredIsTold
<1>1. QInv => IgnoredIsTold
  <2> SUFFICES ASSUME QInv, pc = "built", warn = {}, NEW r \in Stored(q), Has(kept, r), SameMeaning(r)
               PROVE  r \in Matching
    BY DEF IgnoredIsTold
  <2>1. Warnings(q) = {}
    BY DEF QInv
  <2>2. \A c \in Leaves(q.where) : Bound(c)
    BY <2>1 DEF Warnings
  <2> QED
    BY <2>2, KeptMatches DEF NothingDropped
<1> QED
  BY <1>1, QInvariance, PTL

\* For every stored row, = and <> of a literal are opposites, in SQL and in Go, and
\* the two evaluators agree.
THEOREM EqNeSplit == Spec => []EqNePartition
<1>1. QInv => EqNePartition
  <2> DEFINE P == {"doc"} \X {"", "x"} \cup {"test"} \X {"true", "false", "1", "0"}
  <2> SUFFICES ASSUME QInv, NEW r \in corpus, NEW p \in P
               PROVE  LET eq == Condition(p[1], "=", p[2])
                          ne == Condition(p[1], "<>", p[2])
                      IN /\ (CondLeafToSQL(eq, r) = "T") # (CondLeafToSQL(ne, r) = "T")
                         /\ EvalCondition(eq, r) # EvalCondition(ne, r)
                         /\ EvalCondition(eq, r) <=> CondLeafToSQL(eq, r) = "T"
    BY Zenon DEF EqNePartition
  <2>1. r \in Rows
    BY DEF QInv
  <2>2. p[1] \in {"doc", "test"} /\ p[2] \in {"", "x", "true", "false", "1", "0"} 
        /\ (p[1] = "doc" => p[2] \in {"", "x"})
        /\ (p[1] = "test" => p[2] \in {"true", "false", "1", "0"})
    OBVIOUS
  <2> HIDE DEF P
  <2> QED
    BY <2>1, <2>2, EitherSide
<1> QED
  BY <1>1, QInvariance, PTL

\* A sequence in the order already is left alone by the sort.
LEMMA SortedStays ==
    ASSUME NEW s \in Seq(Rows), NEW order \in {"none", "ASC", "DESC"},
           \A i, j \in DOMAIN s : i < j => ~Before(order, s[j], s[i])
    PROVE  OrderBy(s, order) = s
<1> DEFINE m == Len(s)
<1>1. m \in Nat /\ DOMAIN s = 1 .. m /\ s = [i \in 1 .. m |-> s[i]]
  OBVIOUS
<1>2. \A i \in 1 .. m : s[i] \in Rows /\ s[i].num \in Int
  BY RowsAssumption
<1>3. \A i \in 1 .. m : ~Before(order, s[i], s[i])
  BY <1>2 DEF Before
<1>4. ASSUME NEW i \in 1 .. m PROVE Cardinality(UpTo(s, order, i)) = i
  <2>1. UpTo(s, order, i) = 1 .. i
    <3> HIDE DEF m
    <3>1. \A j \in 1 .. m : j < i \/ j = i \/ i < j
      OBVIOUS
    <3>2. \A j \in 1 .. m : (Before(order, s[j], s[i]) \/ (j <= i /\ ~Before(order, s[i], s[j]))) <=> j <= i
      BY <1>1, <1>3, <3>1
    <3>3. \A j : j \in 1 .. i <=> j \in 1 .. m /\ j <= i
      BY <1>1
    <3> QED
      BY <1>1, <3>2, <3>3 DEF UpTo
  <2> QED
    BY <2>1, Positions
<1> DEFINE O == OrderBy(s, order)
<1>5. /\ O = [k \in 1 .. m |-> O[k]]
      /\ \A i \in 1 .. m : O[Cardinality(UpTo(s, order, i))] = s[i]
  <2> HIDE DEF m
  <2>1. SortsRows(s, order, m)
    BY <1>1, <1>2, OrderByIs
  <2> QED
    BY <2>1 DEF SortsRows, O
<1> HIDE DEF O, m
<1>6. \A i \in 1 .. m : O[i] = s[i]
  BY <1>4, <1>5
<1>7. O = s
  BY <1>1, <1>5, <1>6
<1> QED
  BY <1>7 DEF O

\* The LIMIT, then the trim to MaxRows.
LEMMA Trimmed ==
    ASSUME NEW query \in Queries, NEW T, NEW s \in Seq(T)
    PROVE  LET t == Take(Take(s, Limit(query)), MaxRows)
           IN  /\ Len(t) \in Nat /\ DOMAIN t = 1 .. Len(t)
               /\ \A n \in Nat : (n = Len(s) \/ (Len(s) <= n /\ MaxRows <= Len(s))) => Len(t) = Min({Limit(query), MaxRows, n})
               /\ \A i \in 1 .. Len(t) : i \in 1 .. Len(s) /\ t[i] = s[i]
<1> DEFINE l == Limit(query)
           u == Take(s, l)
           t == Take(u, MaxRows)
           a == IF l <= Len(s) THEN l ELSE Len(s)
           b == IF MaxRows <= a THEN MaxRows ELSE a
<1>1. l \in Nat /\ MaxRows \in Nat /\ Len(s) \in Nat
  <2>1. query.limit \in Int
    BY QueryAssumption DEF Queries
  <2>2. DefaultLimit \in Nat /\ MaxRows \in Nat
    BY QueryAssumption
  <2> QED
    BY <2>1, <2>2 DEF Limit
<1> HIDE DEF l
<1>2. a \in Nat /\ a <= Len(s) /\ b \in Nat /\ b <= a
  BY <1>1
<1>3. u \in Seq(T) /\ Len(u) = a /\ \A i \in 1 .. a : u[i] = s[i]
  BY <1>1, TakeIs
<1> HIDE DEF u
<1>4. Len(t) = b /\ DOMAIN t = 1 .. b /\ \A i \in 1 .. b : t[i] = u[i]
  BY <1>1, <1>3, TakeIs
<1> HIDE DEF t
<1>5. ASSUME NEW n \in Nat, n = Len(s) \/ (Len(s) <= n /\ MaxRows <= Len(s)) PROVE b = Min({l, MaxRows, n})
  <2>1. b \in {l, MaxRows, n} /\ b <= l /\ b <= MaxRows /\ b <= n
    BY <1>1, <1>5
  <2> HIDE DEF b
  <2> QED
    BY <1>1, <2>1, MinOfThree
<1> HIDE DEF a, b
<1>6. \A i \in 1 .. b : i \in 1 .. a /\ i \in 1 .. Len(s)
  BY <1>1, <1>2
<1>7. \A i \in 1 .. b : i \in 1 .. Len(s) /\ t[i] = s[i]
  BY <1>3, <1>4, <1>6
<1>8. /\ Len(t) \in Nat /\ DOMAIN t = 1 .. Len(t)
      /\ \A n \in Nat : (n = Len(s) \/ (Len(s) <= n /\ MaxRows <= Len(s))) => Len(t) = Min({l, MaxRows, n})
      /\ \A i \in 1 .. Len(t) : i \in 1 .. Len(s) /\ t[i] = s[i]
  BY <1>2, <1>4, <1>5, <1>7
<1> QED
  BY <1>8, Zenon DEF t, u, l

LEMMA QueryFields ==
    ASSUME NEW query \in Queries
    PROVE  /\ query.order \in {"none", "ASC", "DESC"} /\ query.shape \in Shapes
           /\ query.limit \in Int /\ query.join \in BOOLEAN /\ query.where \in Wheres
           /\ Limit(query) \in Nat /\ MaxRows \in Nat
<1>1. /\ query.order \in {"none", "ASC", "DESC"} /\ query.shape \in Shapes
      /\ query.limit \in Limits /\ query.join \in BOOLEAN /\ query.where \in Wheres
  BY DEF Queries
<1>2. query.limit \in Int /\ DefaultLimit \in Nat /\ MaxRows \in Nat
  BY <1>1, QueryAssumption
<1> QED
  BY <1>1, <1>2 DEF Limit

\* For every table and limit: the scan fetches 2 * MaxRows rows of the pushed order,
\* the sort leaves them, and the answer is the first of the whole table.
THEOREM AnswersAreTopN == Spec => []TopN
<1>1. QInv => TopN
  <2> SUFFICES ASSUME QInv, pc = "built", q.shape = "rows", ~q.join, Plan(q).go = {}
               PROVE  /\ Len(res) = Min({Limit(q), MaxRows, Cardinality(Selected(q))})
                      /\ \A i \in DOMAIN res : \A r \in Selected(q) :
                            Before(q.order, r, res[i]) => \E j \in 1..i-1 : res[j] = r
    BY DEF TopN
  <2> DEFINE n == Cardinality(Selected(q))
             order == q.order
  <2>1. q \in Queries /\ corpus \subseteq Rows /\ Scanned(q, kept) /\ res = BuildResult(q, kept)
    BY DEF QInv
  <2>2. order \in {"none", "ASC", "DESC"} /\ Limit(q) \in Nat /\ MaxRows \in Nat
    BY <2>1, QueryFields
  <2>3. PICK s \in Orders(q) : kept = Filtered(q, Take(s, ScanLimit(q)))
    BY <2>1 DEF Scanned
  <2>4. /\ s \in Seq(Rows) /\ Len(s) = n /\ n \in Nat /\ DOMAIN s = 1 .. n
        /\ \A r \in Selected(q) : \E i \in DOMAIN s : s[i] = r
    BY <2>1, OrderFacts
  <2>5. \A i, j \in DOMAIN s : i < j => ~Before(order, s[j], s[i])
    BY DEF Orders, HasAggregation
  <2>6. ScanLimit(q) = MaxRows * 2
    BY DEF ScanLimit, HasAggregation
  <2> DEFINE t == Take(s, ScanLimit(q))
             l == MaxRows * 2
             m == IF l <= n THEN l ELSE n
  <2>7. Fetched(q, t)
    BY <2>1, FetchFacts
  <2>8. KeptOf(q, t, Len(t), kept)
    <3> HIDE DEF t
    <3>1. t \in Seq(Rows) /\ (q.join \/ DistinctKeys(t))
      BY <2>7 DEF Fetched
    <3> QED
      BY <2>3, <3>1, LoopKeeps DEF t
  <2>9. l \in Nat /\ m \in Nat /\ m <= n /\ (n = m \/ (m <= n /\ MaxRows <= m))
    BY <2>2, <2>4
  <2>10. Len(t) = m /\ \A i \in 1 .. m : t[i] = s[i]
    <3>1. l \in Nat /\ s \in Seq(Rows) /\ Len(s) = n
      BY <2>4, <2>9
    <3>2. t = Take(s, l)
      BY <2>6
    <3> HIDE DEF l, n, t
    <3> QED
      BY <3>1, <3>2, TakeIs
  <2> HIDE DEF t, l, m, n
  <2>11. kept \in Seq(Rows) /\ Len(kept) = m /\ \A i \in 1 .. m : kept[i] = s[i]
    BY <2>8, <2>10 DEF KeptOf
  <2>12. DOMAIN kept = 1 .. m /\ \A i \in 1 .. m : i \in DOMAIN s
    BY <2>4, <2>9, <2>11
  <2>13. \A i, j \in DOMAIN kept : i < j => ~Before(order, kept[j], kept[i])
    BY <2>5, <2>11, <2>12
  <2>14. OrderBy(kept, order) = kept
    BY <2>2, <2>11, <2>13, SortedStays
  <2>15. res = Take(Take(kept, Limit(q)), MaxRows)
    BY <2>1, <2>14 DEF BuildResult
  <2>16. /\ Len(res) \in Nat /\ DOMAIN res = 1 .. Len(res)
         /\ Len(res) = Min({Limit(q), MaxRows, n})
         /\ \A i \in 1 .. Len(res) : i \in 1 .. m /\ res[i] = kept[i]
    BY <2>1, <2>4, <2>9, <2>11, <2>15, Trimmed
  <2>17. ASSUME NEW i \in DOMAIN res, NEW r \in Selected(q), Before(order, r, res[i])
         PROVE  \E j \in 1 .. i - 1 : res[j] = r
    <3>1. i \in 1 .. m /\ i \in DOMAIN s /\ res[i] = s[i]
      BY <2>11, <2>12, <2>16
    <3>2. PICK k \in DOMAIN s : s[k] = r
      BY <2>4
    <3>3. ~ (i < k)
      BY <2>5, <2>17, <3>1, <3>2
    <3>4. i # k
      <4>1. s[i].num \in Int
        BY <2>4, <3>1, RowsAssumption
      <4> QED
        BY <2>17, <3>1, <3>2, <4>1 DEF Before
    <3>5. k \in 1 .. i - 1
      BY <2>4, <3>1, <3>3, <3>4
    <3>6. k \in 1 .. Len(res) /\ k \in 1 .. m
      BY <2>9, <2>16, <3>1, <3>5
    <3> QED
      BY <2>11, <2>16, <3>2, <3>5, <3>6
  <2> QED
    BY <2>16, <2>17 DEF n
<1> QED
  BY <1>1, QInvariance, PTL

\* As many rows are kept of a class of rows as it has keys, when the scan was not
\* cut: a kept row stands for all copies of its edge.
LEMMA KeptCounts ==
    ASSUME QInv, pc = "built", ~Cut(q), NEW A \in SUBSET Answer,
           \A r \in A, s \in Answer : r.key = s.key => s \in A
    PROVE  LET I == {i \in DOMAIN kept : kept[i] \in A}
           IN  IsFiniteSet(I) /\ Cardinality(I) = Cardinality(Keys(A))
<1> DEFINE I == {i \in DOMAIN kept : kept[i] \in A}
           b == [i \in I |-> kept[i].key]
<1>1. corpus \subseteq Rows /\ Scanned(q, kept)
  BY DEF QInv
<1>2. /\ kept \in Seq(Rows) /\ DistinctKeys(kept)
      /\ \A j \in DOMAIN kept : kept[j] \in Selected(q) /\ PassesGo(q, kept[j])
      /\ \A r \in Selected(q) : PassesGo(q, r) => StandsFor(kept, r)
  BY <1>1, ScanKeeps
<1>3. \A r : r \in Answer <=> r \in Selected(q) /\ PassesGo(q, r)
  BY DEF Answer, PassesGo
<1>4. IsFiniteSet(I)
  <2>1. I \in SUBSET (1 .. Len(kept)) /\ IsFiniteSet(1 .. Len(kept))
    BY <1>2, Positions
  <2> QED
    BY <2>1, FS_Subset
<1>5. \A i \in I : i \in DOMAIN kept /\ kept[i] \in A
  OBVIOUS
<1>6. b \in [I -> Keys(A)] /\ \A i \in I : b[i] = kept[i].key
  BY <1>5 DEF Keys
<1>7. ASSUME NEW k \in Keys(A) PROVE \E i \in I : b[i] = k
  <2>1. PICK r \in A : k = r.key
    BY DEF Keys
  <2>2. StandsFor(kept, r)
    BY <1>2, <1>3
  <2>3. PICK i \in DOMAIN kept : kept[i].key = r.key
    BY <2>2 DEF StandsFor
  <2>4. i \in I
    BY <1>2, <1>3, <2>3
  <2> QED
    BY <1>6, <2>1, <2>3, <2>4
<1> HIDE DEF b, I
<1>8. b \in Injection(I, Keys(A))
  BY <1>2, <1>5, <1>6 DEF Injection, IsInjective, DistinctKeys
<1>9. b \in Surjection(I, Keys(A))
  BY <1>6, <1>7 DEF Surjection
<1>10. ExistsBijection(I, Keys(A))
  BY <1>8, <1>9 DEF Bijection, ExistsBijection
<1>11. Cardinality(I) = Cardinality(Keys(A))
  BY <1>4, <1>10, FS_Bijection
<1> QED
  BY <1>4, <1>11 DEF I

\* The kept rows are of the answer, and have all of its columns' values.
LEMMA KeptAnswer ==
    ASSUME QInv, pc = "built", ~Cut(q)
    PROVE  /\ kept \in Seq(Rows) /\ Answer \subseteq Rows
           /\ \A i \in DOMAIN kept : kept[i] \in Answer
           /\ \A r \in Answer : \E i \in DOMAIN kept : kept[i].num = r.num
           /\ \A r, s \in Answer : r.key = s.key => r.doc = s.doc /\ r.test = s.test
<1>1. corpus \subseteq Rows /\ Scanned(q, kept)
  BY DEF QInv
<1>2. /\ kept \in Seq(Rows)
      /\ \A j \in DOMAIN kept : kept[j] \in Selected(q) /\ PassesGo(q, kept[j])
      /\ \A r \in Selected(q) : PassesGo(q, r) => StandsFor(kept, r)
  BY <1>1, ScanKeeps
<1>3. \A r : r \in Answer <=> r \in Selected(q) /\ PassesGo(q, r)
  BY DEF Answer, PassesGo
<1>4. Answer \subseteq Rows
  BY <1>1, <1>3, SelectedFacts
<1>5. ASSUME NEW r \in Answer PROVE \E i \in DOMAIN kept : kept[i].num = r.num
  <2>1. PICK i \in DOMAIN kept : kept[i].key = r.key
    BY <1>2, <1>3 DEF StandsFor
  <2>2. kept[i] \in Rows /\ r \in Rows
    BY <1>2, <1>4
  <2> QED
    BY <2>1, <2>2, RowsAssumption
<1>6. \A r, s \in Answer : r.key = s.key => r.doc = s.doc /\ r.test = s.test
  BY <1>4, RowsAssumption
<1> QED
  BY <1>2, <1>3, <1>4, <1>5, <1>6

\* DISTINCT: the values in order, as many as LIMIT and MaxRows allow.
LEMMA DistinctExact ==
    ASSUME QInv, pc = "built", ~Cut(q), q.shape = "distinct"
    PROVE  LET nums == {r.num : r \in Answer}
           IN  /\ Len(res) = Min({Limit(q), MaxRows, Cardinality(nums)})
               /\ q.order # "none" => \A i \in DOMAIN res : \A n \in nums :
                     Before(q.order, [num |-> n], res[i]) => \E j \in 1..i-1 : res[j].num = n
<1> DEFINE m == Len(kept)
           vals == [i \in DOMAIN kept |-> kept[i].num]
           V == {r.num : r \in Answer}
           c == Cardinality(V)
           F == FirstSeen(vals)
           N == [k \in DOMAIN F |-> [num |-> F[k]]]
           O == OrderBy(N, q.order)
           T == {[num |-> v] : v \in Int}
<1>1. q \in Queries /\ res = BuildResult(q, kept)
  BY DEF QInv
<1>2. q.order \in {"none", "ASC", "DESC"}
  BY <1>1, QueryFields
<1>3. /\ kept \in Seq(Rows) /\ Answer \subseteq Rows
      /\ \A i \in DOMAIN kept : kept[i] \in Answer
      /\ \A r \in Answer : \E i \in DOMAIN kept : kept[i].num = r.num
  BY KeptAnswer
<1>4. m \in Nat /\ DOMAIN kept = 1 .. m /\ DOMAIN vals = 1 .. m /\ \A i \in 1 .. m : vals[i] = kept[i].num
  BY <1>3
<1>5. res = Take(Take(O, Limit(q)), MaxRows)
  BY <1>1, Zenon DEF BuildResult
<1> HIDE DEF m, vals
<1>6. V = {vals[i] : i \in 1 .. m}
  <2>1. ASSUME NEW r \in Answer PROVE r.num \in {vals[i] : i \in 1 .. m}
    BY <1>3, <1>4
  <2>2. ASSUME NEW i \in 1 .. m PROVE vals[i] \in V
    <3>1. vals[i] = kept[i].num /\ kept[i] \in Answer
      BY <1>3, <1>4
    <3> QED
      BY <3>1
  <2> QED
    BY <2>1, <2>2
<1>7. V \subseteq Int
  BY <1>3, RowsAssumption
<1> HIDE DEF V, F, c
<1>8. /\ c \in Nat /\ DOMAIN F = 1 .. c
      /\ \A k \in DOMAIN F : F[k] \in V
      /\ \A v \in V : \E k \in DOMAIN F : F[k] = v
  <2>1. Lists(F, V)
    BY <1>4, <1>6, FirstSeenIs DEF F
  <2> QED
    BY <2>1 DEF Lists, c
<1>9. /\ DOMAIN N = 1 .. c
      /\ \A k \in 1 .. c : N[k] = [num |-> F[k]] /\ N[k].num = F[k] /\ N[k] \in T /\ N[k].num \in Int
  BY <1>7, <1>8
<1> HIDE DEF N, T
<1>10. SortsRows(N, q.order, c)
  BY <1>2, <1>8, <1>9, OrderByIs
<1> DEFINE at(i) == Cardinality(UpTo(N, q.order, i))
<1>11. /\ O = [k \in 1 .. c |-> O[k]]
       /\ \A i \in 1 .. c : at(i) \in 1 .. c /\ O[at(i)] = N[i]
       /\ \A k \in 1 .. c : \E i \in 1 .. c : at(i) = k
       /\ \A i, j \in 1 .. c : Before(q.order, N[i], N[j]) => at(i) < at(j)
  BY <1>10 DEF SortsRows
<1> HIDE DEF O, at
<1>12. \A k \in 1 .. c : O[k] \in T
  BY <1>9, <1>11
<1>13. O \in Seq(T) /\ Len(O) = c
  <2>1. O \in [1 .. c -> T]
    BY <1>11, <1>12
  <2> QED
    BY <1>8, <2>1
<1>14. /\ Len(res) \in Nat /\ DOMAIN res = 1 .. Len(res)
       /\ Len(res) = Min({Limit(q), MaxRows, c})
       /\ \A i \in 1 .. Len(res) : i \in 1 .. c /\ res[i] = O[i]
  BY <1>1, <1>5, <1>8, <1>13, Trimmed
<1>15. ASSUME NEW i \in DOMAIN res, NEW n \in V, Before(q.order, [num |-> n], res[i])
       PROVE  \E j \in 1 .. i - 1 : res[j].num = n
  <2>1. i \in 1 .. c /\ i \in 1 .. Len(res) /\ res[i] = O[i]
    BY <1>14
  <2>2. PICK l \in 1 .. c : F[l] = n
    BY <1>8
  <2>3. PICK j \in 1 .. c : at(j) = i
    BY <1>11, <2>1
  <2>4. O[i] = N[j] /\ N[l] = [num |-> n]
    BY <1>9, <1>11, <2>2, <2>3
  <2>5. Before(q.order, N[l], N[j])
    BY <1>15, <2>1, <2>4
  <2>6. at(l) < i /\ at(l) \in 1 .. c /\ O[at(l)] = N[l]
    BY <1>11, <2>3, <2>5
  <2>7. at(l) \in 1 .. i - 1 /\ at(l) \in 1 .. Len(res)
    BY <1>8, <1>14, <2>1, <2>6
  <2>8. res[at(l)].num = n
    BY <1>9, <1>14, <2>2, <2>6, <2>7
  <2> QED
    BY <2>7, <2>8
<1> QED
  BY <1>14, <1>15 DEF V, c

\* For every table and scan budget, a count or DISTINCT speaks of all rows that
\* satisfy the WHERE, and of each edge once.
THEOREM AggregatesAreExact == Spec => []AggregatesExact
<1>1. QInv => AggregatesExact
  <2> SUFFICES ASSUME QInv, pc = "built" PROVE AggregatesExact
    BY DEF AggregatesExact
  <2>1. q \in Queries /\ corpus \subseteq Rows /\ res = BuildResult(q, kept)
    BY DEF QInv
  <2>2. HasAggregation(q) \/ q.shape = "distinct" => ~Cut(q)
    BY <2>1, ScanLimitFacts
  <2>3. ASSUME q.shape = "count", q.limit # 0 PROVE res[1].n = Cardinality(Keys(Answer))
    <3>1. ~Cut(q)
      BY <2>2, <2>3 DEF HasAggregation
    <3>2. kept \in Seq(Rows) /\ \A i \in DOMAIN kept : kept[i] \in Answer
      BY <3>1, KeptAnswer
    <3>3. Cardinality({i \in DOMAIN kept : kept[i] \in Answer}) = Cardinality(Keys(Answer))
      BY <3>1, KeptCounts
    <3>4. {i \in DOMAIN kept : kept[i] \in Answer} = 1 .. Len(kept) /\ Len(kept) \in Nat
      BY <3>2
    <3>5. Cardinality(1 .. Len(kept)) = Len(kept)
      <4>1. Len(kept) \in Nat
        BY <3>4
      <4> QED
        BY <4>1, Positions
    <3>6. res = <<[n |-> Len(kept)]>>
      BY <2>1, <2>3 DEF BuildResult, ComputeAgg
    <3> QED
      BY <3>3, <3>4, <3>5, <3>6
  <2>4. ASSUME q.shape = "countdoc", q.limit # 0
        PROVE  res[1].n = Cardinality(Keys({r \in Answer : r.doc # Null}))
    <3> DEFINE A == {r \in Answer : r.doc # Null}
    <3>1. ~Cut(q)
      BY <2>2, <2>4 DEF HasAggregation
    <3>2. /\ \A i \in DOMAIN kept : kept[i] \in Answer
          /\ \A r, s \in Answer : r.key = s.key => r.doc = s.doc
      BY <3>1, KeptAnswer
    <3>3. A \in SUBSET Answer /\ \A r \in A, s \in Answer : r.key = s.key => s \in A
      BY <3>2
    <3>4. {i \in DOMAIN kept : kept[i] \in A} = {i \in DOMAIN kept : kept[i].doc # Null}
      BY <3>2
    <3> HIDE DEF A
    <3>5. Cardinality({i \in DOMAIN kept : kept[i] \in A}) = Cardinality(Keys(A))
      BY <3>1, <3>3, KeptCounts
    <3>6. res = <<[n |-> Cardinality({i \in DOMAIN kept : kept[i].doc # Null})]>>
      BY <2>1, <2>4 DEF BuildResult, ComputeAgg
    <3> QED
      BY <3>4, <3>5, <3>6 DEF A
  <2>5. ASSUME q.shape = "group", NEW i \in DOMAIN res
        PROVE  res[i].n = Cardinality(Keys({r \in Answer : Flag(r) = res[i].test}))
    <3> DEFINE vals == [j \in DOMAIN kept |-> Flag(kept[j])]
               flags == FirstSeen(vals)
               cnt(v) == Cardinality({j \in DOMAIN kept : Flag(kept[j]) = v})
               counted == [k \in DOMAIN flags |-> [test |-> flags[k], n |-> cnt(flags[k])]]
               T == {counted[k] : k \in DOMAIN flags}
    <3>1. ~Cut(q)
      BY <2>2, <2>5 DEF HasAggregation
    <3>2. /\ kept \in Seq(Rows) /\ \A j \in DOMAIN kept : kept[j] \in Answer
          /\ \A r, s \in Answer : r.key = s.key => Flag(r) = Flag(s)
      BY <3>1, KeptAnswer DEF Flag
    <3>3. res = Take(counted, Limit(q))
      BY <2>1, <2>5, Zenon DEF BuildResult
    <3>4. Len(kept) \in Nat /\ DOMAIN vals = 1 .. Len(kept)
      BY <3>2
    <3> HIDE DEF vals
    <3>5. PICK c \in Nat : DOMAIN flags = 1 .. c
      BY <3>4, FirstSeenIs DEF Lists
    <3> HIDE DEF flags, cnt
    <3>6. DOMAIN counted = 1 .. c /\ \A k \in 1 .. c : counted[k] \in T /\ counted[k].n = cnt(counted[k].test)
      BY <3>5
    <3>7. counted = [k \in 1 .. c |-> counted[k]]
      BY <3>5
    <3> HIDE DEF counted, T
    <3>8. counted \in Seq(T) /\ Len(counted) = c
      BY <3>5, <3>6, <3>7
    <3>9. i \in 1 .. c /\ res[i] = counted[i]
      <4>1. Limit(q) \in Nat
        BY <2>1, QueryFields
      <4>2. PICK d : DOMAIN res = 1 .. d /\ \A j \in 1 .. d : j \in DOMAIN counted /\ res[j] = counted[j]
        BY <3>3, <3>8, <4>1, TakeIs
      <4> QED
        BY <3>6, <4>2
    <3> DEFINE v == res[i].test
               A == {r \in Answer : Flag(r) = v}
    <3>10. res[i].n = cnt(v)
      BY <3>6, <3>9
    <3> HIDE DEF v
    <3>11. A \in SUBSET Answer /\ \A r \in A, s \in Answer : r.key = s.key => s \in A
      BY <3>2
    <3>12. {j \in DOMAIN kept : kept[j] \in A} = {j \in DOMAIN kept : Flag(kept[j]) = v}
      BY <3>2
    <3> HIDE DEF A
    <3>13. Cardinality({j \in DOMAIN kept : kept[j] \in A}) = Cardinality(Keys(A))
      BY <3>1, <3>11, KeptCounts
    <3> QED
      BY <3>10, <3>12, <3>13 DEF A, v, cnt
  <2>6. ASSUME q.shape = "distinct"
        PROVE  LET nums == {r.num : r \in Answer}
               IN  /\ Len(res) = Min({Limit(q), MaxRows, Cardinality(nums)})
                   /\ q.order # "none" => \A i \in DOMAIN res : \A n \in nums :
                        Before(q.order, [num |-> n], res[i])
                           => \E j \in 1..i-1 : res[j].num = n
    BY <2>2, <2>6, DistinctExact
  <2> QED
    BY <2>3, <2>4, <2>5, <2>6 DEF AggregatesExact
<1> QED
  BY <1>1, QInvariance, PTL
=============================================================================
