--------------------------- MODULE MCQueryFilter ---------------------------
(* Four symbols, one of them also the end of an edge found by two passes. *)
EXTENDS QueryFilter

Row(key, src, conf, doc, test, num) ==
    [key |-> key, src |-> src, conf |-> conf, doc |-> doc, test |-> test, num |-> num]

MCRows == {Row(1, 1, 4, Null, "0", 2), Row(1, 2, 7, Null, "0", 2),
           Row(2, 1, 4, "", "1", 1), Row(3, 1, 7, "true", "0", 3),
           Row(4, 1, 4, "TRUE", Null, 1)}

\* The texts in the order of their bytes, around the literal of a comparison.
Texts == <<"", "0", "1", Null, "TRUE", "true", "x">>
MCRank == [t \in ToSet(Texts) |-> (CHOOSE i \in DOMAIN Texts : Texts[i] = t) - 4]
MCLower == [t \in ToSet(Texts) |-> IF t = "TRUE" THEN "true" ELSE t]

Cond(var, col, op, vals, neg) ==
    [var |-> var, col |-> col, op |-> op, vals |-> vals, neg |-> neg]

Yes == Cond("n", "test", "=", {"true"}, FALSE)
Undocumented == Cond("n", "doc", "=", {""}, FALSE)
Conds == {Undocumented, Cond("n", "doc", "<>", {"x"}, FALSE), Yes,
          Cond("n", "doc", "=~", {"true", Null}, FALSE),
          Cond("n", "doc", "IN", {"true", "1"}, FALSE),
          Cond("n", "doc", "CONTAINS", {"true"}, FALSE),
          Cond("n", "doc", "ENDS WITH", {"", "true", "TRUE"}, TRUE)}
Mixed == {Cond("n", "doc", "cross", {}, FALSE), Cond("m", "doc", "=", {"x"}, FALSE),
          Cond("n", "doc", "=", {"true"}, TRUE)}
\* These are asked alone only.
Odd == {Cond("n", "num", ">", {}, FALSE), Cond("n", "test", "<>", {"0"}, FALSE),
        Cond("n", "typo", "=", {"x"}, FALSE),
        Cond("n", "doc", "IS NULL", {}, FALSE), Cond("n", "doc", "IS NOT NULL", {}, TRUE),
        Cond("n", "num", "<=", {}, FALSE), Cond("n", "doc", "<", {}, FALSE),
        Cond("n", "test", ">=", {}, FALSE), Cond("n", "test", "IS NOT NULL", {}, FALSE),
        Cond("n", "doc", "STARTS WITH", {Null}, FALSE),
        Cond("n", "test", "STARTS WITH", {"true"}, FALSE), Cond("n", "test", "=", {"True"}, FALSE)}

MCLimits == {-1, 0, 1}

MCWheres ==
    {NoWhere} \cup {Leaf(c) : c \in Conds \cup Mixed \cup Odd}
    \cup {And(Leaf(Yes), Leaf(c)) : c \in (Conds \cup Mixed) \ {Yes}}
    \cup {Or(Leaf(Undocumented), Leaf(c)) : c \in Conds \cup Mixed}
    \cup {Not(Or(Leaf(Cond("n", "num", ">", {}, FALSE)), Leaf(Cond("n", "doc", "=", {"true"}, FALSE)))),
          LET c == Cond("n", "doc", "<>", {"x"}, FALSE)
          IN  And(Leaf(c), Or(Leaf(c), Leaf(Cond("n", "test", "IN", {"false"}, FALSE))))}
============================================================================
