------------------------------ MODULE LoopBrief ------------------------------
(***************************************************************************)
(* What the loop tool tells a fresh session: the brief of resume           *)
(* (internal/server/loop_tool.go) and the document of export               *)
(* (internal/server/loop_handoff.go), as functions of the ledger.  Of the  *)
(* document the trigger sections and the header are left out.              *)
(***************************************************************************)
EXTENDS LoopLedger, SequencesExt

CONSTANTS
    ResumeWindow,   \* rows resume lists (20)
    ExportWindow,   \* loopHandoffWindow (100)
    Budgets,        \* values of max_tokens, the defaults included
    Headroom,       \* tokens an export keeps for its trigger sections (150)
    MinBody         \* tokens its checkpoints get at least (100)

ASSUME BriefAssumption ==
    /\ {ResumeWindow, ExportWindow} \subseteq Nat \ {0}
    /\ Budgets \subseteq Nat /\ Headroom \in Nat /\ MinBody \in Nat

IsHandoff(r) == r.entry.kind = "handoff"

\* ListLoopCheckpoints: ... ORDER BY seq DESC LIMIT n, as a set and in its order.
Window(l, n) == {r \in OfLoop(l) : Cardinality({q \in OfLoop(l) : q.seq > r.seq}) < n}
Descending(w) ==
    [i \in 1 .. Cardinality(w) |-> CHOOSE r \in w : Cardinality({q \in w : q.seq > r.seq}) = i - 1]
Newest(l, n) == Descending(Window(l, n))

\* Spent(es)[i]: the tokens of the first i entries.
Spent(es) ==
    LET used[i \in 0 .. Len(es)] == IF i = 0 THEN 0 ELSE used[i - 1] + es[i].entry.cost
    IN  used

\* A newest checkpoint above the budget is left out as well.
IncludedStrict(es, budget) == SubSeq(es, 1, Max({0} \cup {i \in 1 .. Len(es) : Spent(es)[i] <= budget}))

\* Newest first while the budget lasts; the newest always.
Included(es, budget) ==
    SubSeq(es, 1, Max({0} \cup {i \in 1 .. Len(es) : \A j \in 2 .. i : Spent(es)[j] <= budget}))

\* resume: oldest first, but a hand-off that is the newest leads.
Brief(l, budget) ==
    LET inc == Included(Newest(l, ResumeWindow), budget)
        asc == Reverse(inc)
    IN  IF Len(inc) > 1 /\ IsHandoff(inc[1]) THEN <<inc[1]>> \o SubSeq(asc, 1, Len(asc) - 1) ELSE asc

\* A span that starts with the previous hand-off.
SpanOverlaps(l, end) ==
    LET es    == Window(l, ExportWindow)
        after == Max({0} \cup {r.seq : r \in {q \in es : IsHandoff(q) /\ q.seq < end}})
    IN  {r \in es : r.seq >= after /\ r.seq <= end}

\* What an export up to the checkpoint end is about: all that follows the
\* previous hand-off.
Span(l, end) ==
    LET es    == Window(l, ExportWindow)
        after == Max({0} \cup {r.seq : r \in {q \in es : IsHandoff(q) /\ q.seq < end}})
    IN  {r \in es : r.seq > after /\ r.seq <= end}

BodyBudget(m) == IF m > Headroom + MinBody THEN m - Headroom ELSE MinBody

\* The document: the newest of its span that the budget admits, oldest first,
\* and how many it omits.
Export(l, end, m) ==
    LET span == Span(l, end)
        inc  == Included(Descending(span), BodyBudget(m))
    IN  [iterations |-> Reverse(inc), omitted |-> Cardinality(span) - Len(inc)]

\* export without seq: up to the latest hand-off, or to the newest checkpoint.
DefaultEnd(l) ==
    LET es       == Window(l, ExportWindow)
        handoffs == {r \in es : IsHandoff(r)}
    IN  Max({0} \cup {r.seq : r \in IF handoffs = {} THEN es ELSE handoffs})

-----------------------------------------------------------------------------
Cost(b) == Spent(b)[Len(b)]

\* Whatever sessions wrote the ledger, the brief is its tail without a gap: it
\* ends with the newest checkpoint, costs no more than the budget unless it
\* is one checkpoint, and leaves out only what would not fit or is outside the
\* window; a hand-off that is the newest comes first, the others in order.
BriefIsTail ==
    \A l \in Loops, budget \in Budgets :
        LET b     == Brief(l, budget)
            n     == Cardinality(OfLoop(l))
            asc   == IF Len(b) > 1 /\ b[1].seq = n THEN Tail(b) \o <<b[1]>> ELSE b
            older == {r \in OfLoop(l) : r.seq = n - Len(b)}
        IN  n > 0 =>
                /\ Len(b) \in 1 .. ResumeWindow
                /\ \A i \in DOMAIN asc : asc[i].seq = n - Len(b) + i
                /\ Len(b) > 1 =>
                       /\ Cost(b) <= budget
                       /\ b[1].seq = n <=> \E r \in OfLoop(l) : r.seq = n /\ IsHandoff(r)
                /\ Len(b) < ResumeWindow => \A r \in older : Cost(b) + r.entry.cost > budget

\* The exports of a loop's hand-offs divide the window up to the last hand-off
\* among them: each checkpoint, also one that another session wrote while a
\* hand-off was being composed, is told of by exactly one, that lists it or
\* counts it as omitted.  An export lists the newest of its checkpoints without
\* a gap, within the budget unless it lists one, and omits only what would not
\* have fitted.
ExportsPartition ==
    \A l \in Loops, m \in Budgets :
        LET es      == Window(l, ExportWindow)
            ends    == {r.seq : r \in {q \in es : IsHandoff(q)}}
            its(h)  == Export(l, h, m).iterations
            told(h) == h - Len(its(h)) - Export(l, h, m).omitted + 1 .. h
        IN  /\ \A g, h \in ends : g # h => told(g) \cap told(h) = {}
            /\ ends # {} => UNION {told(h) : h \in ends} = {r.seq : r \in {q \in es : q.seq <= DefaultEnd(l)}}
            /\ \A h \in ends :
                  /\ Len(its(h)) > 0
                  /\ \A i \in DOMAIN its(h) : its(h)[i] \in es /\ its(h)[i].seq = h - Len(its(h)) + i
                  /\ Len(its(h)) > 1 => Cost(its(h)) <= BodyBudget(m)
                  /\ Export(l, h, m).omitted > 0 =>
                        \A r \in es : r.seq = h - Len(its(h)) => Cost(its(h)) + r.entry.cost > BodyBudget(m)
=============================================================================
