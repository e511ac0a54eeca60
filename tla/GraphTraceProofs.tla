-------------------------- MODULE GraphTraceProofs --------------------------
(* For every graph: the closure table and the recursive CTE answer the     *)
(* distances along simple paths, and a variable-length pattern the least   *)
(* lengths of walks, from either end.                                      *)
EXTENDS GraphTrace, FiniteSetTheorems, WellFoundedInduction, TLAPS

-----------------------------------------------------------------------------
(* Numbers *)

\* A nonempty set of numbers has a least one; this stands for induction.
LEMMA LeastOf ==
    ASSUME NEW S \in SUBSET Nat, S # {}
    PROVE  \E m \in S : \A k \in S : m <= k
<1> DEFINE R == OpToRel(<, Nat)
<1>1. IsWellFoundedOn(R, Nat)
  BY NatLessThanWellFounded
<1> HIDE DEF R
<1>2. PICK m \in S : \A k \in S : ~ (<<k, m>> \in R)
  BY <1>1, WFMin
<1>3. ASSUME NEW k \in S PROVE m <= k
  <2>1. ~ (k < m)
    BY <1>2, <1>3 DEF R, OpToRel
  <2> QED
    BY <2>1
<1> QED
  BY <1>3

LEMMA MinOf ==
    ASSUME NEW S \in SUBSET Nat, S # {}
    PROVE  Min(S) \in S /\ Min(S) \in Nat /\ \A k \in S : Min(S) <= k
<1>1. PICK m \in S : \A k \in S : m <= k
  BY LeastOf
<1> QED
  BY <1>1 DEF Min

\* The least element is the one that is there and has none below it.
LEMMA MinIs ==
    ASSUME NEW S \in SUBSET Nat, NEW m \in S, \A k \in S : m <= k
    PROVE  Min(S) = m
<1>1. Min(S) \in S /\ Min(S) <= m /\ m <= Min(S) /\ Min(S) \in Nat /\ m \in Nat
  BY MinOf
<1> QED
  BY <1>1

-----------------------------------------------------------------------------
(* Walks *)

Link(E, a, b) == \E e \in E : e.from = a /\ e.to = b

\* p is a walk of n edges from a to b.
Along(E, p, a, b, n) ==
    /\ p \in [0 .. n -> Nodes] /\ p[0] = a /\ p[n] = b
    /\ \A i \in 1 .. n : Link(E, p[i - 1], p[i])

Walk(E, a, b, n) == \E p \in [0 .. n -> Nodes] : Along(E, p, a, b, n)

LEMMA WalkZero ==
    ASSUME NEW E, NEW a \in Nodes, NEW b PROVE Walk(E, a, b, 0) <=> a = b
<1>1. ASSUME a = b PROVE Walk(E, a, b, 0)
  <2> DEFINE p == [i \in 0 .. 0 |-> a]
  <2>1. Along(E, p, a, b, 0)
    BY <1>1 DEF Along
  <2> QED
    BY <2>1 DEF Along, Walk
<1> QED
  BY <1>1 DEF Walk, Along

\* A walk is a shorter walk and one more edge.
LEMMA WalkStep ==
    ASSUME NEW E \in SUBSET Edge, NEW a \in Nodes, NEW b, NEW n \in Nat \ {0}
    PROVE  Walk(E, a, b, n) <=> \E c \in Nodes : Walk(E, a, c, n - 1) /\ Link(E, c, b)
<1>1. ASSUME Walk(E, a, b, n) PROVE \E c \in Nodes : Walk(E, a, c, n - 1) /\ Link(E, c, b)
  <2>1. PICK p \in [0 .. n -> Nodes] : Along(E, p, a, b, n)
    BY <1>1 DEF Walk
  <2> DEFINE q == [i \in 0 .. n - 1 |-> p[i]]
  <2>2. Along(E, q, a, p[n - 1], n - 1)
    BY <2>1 DEF Along
  <2>3. p[n - 1] \in Nodes /\ Link(E, p[n - 1], b)
    BY <2>1 DEF Along
  <2> QED
    BY <2>2, <2>3 DEF Walk, Along
<1>2. ASSUME NEW c \in Nodes, Walk(E, a, c, n - 1), Link(E, c, b) PROVE Walk(E, a, b, n)
  <2>1. PICK p \in [0 .. n - 1 -> Nodes] : Along(E, p, a, c, n - 1)
    BY <1>2 DEF Walk
  <2> DEFINE q == [i \in 0 .. n |-> IF i = n THEN b ELSE p[i]]
  <2>2. b \in Nodes
    BY <1>2 DEF Link, Edge
  <2>3. Along(E, q, a, b, n)
    <3>1. q \in [0 .. n -> Nodes] /\ q[0] = a /\ q[n] = b
      BY <2>1, <2>2 DEF Along
    <3>2. ASSUME NEW i \in 1 .. n PROVE Link(E, q[i - 1], q[i])
      <4>1. CASE i = n
        BY <1>2, <2>1, <4>1 DEF Along
      <4>2. CASE i # n
        BY <2>1, <4>2 DEF Along
      <4> QED
        BY <4>1, <4>2
    <3> QED
      BY <3>1, <3>2 DEF Along
  <2> QED
    BY <2>3 DEF Walk, Along
<1> QED
  BY <1>1, <1>2

\* A walk ends at nodes.
LEMMA WalkEnds ==
    ASSUME NEW E, NEW a, NEW b, NEW n \in Nat, Walk(E, a, b, n) PROVE a \in Nodes /\ b \in Nodes
  BY DEF Walk, Along

\* The first edge of a walk, and the symbols at its end.
LEMMA WalkEdges ==
    ASSUME NEW E \in SUBSET Edge, NEW a, NEW b, NEW n \in Nat \ {0}, Walk(E, a, b, n)
    PROVE  (\E e \in E : e.from = a) /\ (\E e \in E : e.to = b)
<1>1. PICK p \in [0 .. n -> Nodes] : Along(E, p, a, b, n)
  BY DEF Walk
<1>2. Link(E, p[1 - 1], p[1]) /\ Link(E, p[n - 1], p[n])
  BY <1>1 DEF Along
<1> QED
  BY <1>1, <1>2 DEF Along, Link

\* Against the edges the same nodes are walked in the other order.
LEMMA LinkReversed ==
    ASSUME NEW E \in SUBSET Edge, NEW a, NEW b
    PROVE  Link(Reversed(E), a, b) <=> Link(E, b, a)
<1>1. \A e \in E : [e EXCEPT !.from = e.to, !.to = e.from].from = e.to
                   /\ [e EXCEPT !.from = e.to, !.to = e.from].to = e.from
  BY DEF Edge
<1> DEFINE Turn(e) == [e EXCEPT !.from = e.to, !.to = e.from]
<1>2. \A f : f \in Reversed(E) <=> \E e \in E : f = Turn(e)
  BY DEF Reversed
<1>3. \A e \in E : Turn(e).from = e.to /\ Turn(e).to = e.from
  BY <1>1
<1> HIDE DEF Turn
<1> QED
  BY <1>2, <1>3 DEF Link

LEMMA ReversedEdges ==
    ASSUME NEW E \in SUBSET Edge PROVE Reversed(E) \in SUBSET Edge
  BY DEF Reversed, Edge

LEMMA WalkTurned ==
    ASSUME NEW E \in SUBSET Edge, NEW a, NEW b, NEW n \in Nat, NEW F \in SUBSET Edge,
           \A x, y \in Nodes : Link(E, x, y) => Link(F, y, x),
           Walk(E, a, b, n)
    PROVE  Walk(F, b, a, n)
<1>1. PICK p \in [0 .. n -> Nodes] : Along(E, p, a, b, n)
  BY DEF Walk
<1> DEFINE q == [i \in 0 .. n |-> p[n - i]]
<1>2. q \in [0 .. n -> Nodes] /\ q[0] = b /\ q[n] = a
  BY <1>1 DEF Along
<1>3. ASSUME NEW i \in 1 .. n PROVE Link(F, q[i - 1], q[i])
  <2>1. n - i + 1 \in 1 .. n /\ (n - i + 1) - 1 = n - i /\ n - (i - 1) = n - i + 1
    OBVIOUS
  <2>2. Link(E, p[n - i], p[n - i + 1])
    BY <1>1, <2>1 DEF Along
  <2>3. q[i - 1] = p[n - i + 1] /\ q[i] = p[n - i]
    BY <2>1
  <2>4. p[n - i] \in Nodes /\ p[n - i + 1] \in Nodes
    BY <2>1
  <2> QED
    BY <2>2, <2>3, <2>4
<1> QED
  BY <1>2, <1>3 DEF Walk, Along

LEMMA WalkReversed ==
    ASSUME NEW E \in SUBSET Edge, NEW a, NEW b, NEW n \in Nat
    PROVE  Walk(Reversed(E), a, b, n) <=> Walk(E, b, a, n)
<1>1. Reversed(E) \in SUBSET Edge
  BY ReversedEdges
<1>2. Walk(Reversed(E), a, b, n) => Walk(E, b, a, n)
  BY <1>1, LinkReversed, WalkTurned
<1>3. Walk(E, b, a, n) => Walk(Reversed(E), a, b, n)
  BY <1>1, LinkReversed, WalkTurned
<1> QED
  BY <1>2, <1>3

-----------------------------------------------------------------------------
(* Shortest walks and simple paths *)

\* b is at distance k from a, and not a itself.
Shortest(E, a, b, k) ==
    k \in Nat \ {0} /\ Walk(E, a, b, k) /\ \A j \in 0 .. k - 1 : ~Walk(E, a, b, j)

LEMMA PathIsWalk ==
    ASSUME NEW E, NEW a, NEW b, NEW n \in Nat, Path(E, a, b, n) PROVE Walk(E, a, b, n)
<1>1. PICK p \in [0 .. n -> Nodes] :
         /\ p[0] = a /\ p[n] = b
         /\ \A i \in 1 .. n : \E e \in E : e.from = p[i - 1] /\ e.to = p[i]
  BY DEF Path
<1>2. Along(E, p, a, b, n)
  BY <1>1 DEF Along, Link
<1> QED
  BY <1>2 DEF Walk

\* A walk that visits a node twice can be shortened.
LEMMA ShortestIsSimple ==
    ASSUME NEW E, NEW a, NEW b, NEW n \in Nat, Walk(E, a, b, n),
           \A j \in 0 .. n - 1 : ~Walk(E, a, b, j)
    PROVE  Path(E, a, b, n)
<1>1. PICK p \in [0 .. n -> Nodes] : Along(E, p, a, b, n)
  BY DEF Walk
<1>2. ASSUME NEW i \in 0 .. n, NEW j \in 0 .. n, p[i] = p[j], i < j PROVE FALSE
  <2> DEFINE m == n - (j - i)
             q == [h \in 0 .. m |-> IF h <= i THEN p[h] ELSE p[h + (j - i)]]
  <2>1. m \in 0 .. n - 1 /\ m \in Nat /\ i <= m
    BY <1>2
  <2>2. \A h \in 0 .. m : h \in 0 .. n /\ h + (j - i) \in 0 .. n
    BY <1>2
  <2>3. q \in [0 .. m -> Nodes]
    BY <2>2
  <2>4. q[0] = a
    BY <1>1, <2>1 DEF Along
  <2>5. q[m] = b
    <3>1. m + (j - i) = n
      OBVIOUS
    <3>2. CASE m <= i
      <4>1. m = i /\ n = j
        BY <2>1, <3>2
      <4> QED
        BY <1>1, <1>2, <2>1, <4>1 DEF Along
    <3>3. CASE ~(m <= i)
      BY <1>1, <2>1, <3>1, <3>3 DEF Along
    <3> QED
      BY <3>2, <3>3
  <2>6. ASSUME NEW h \in 1 .. m PROVE Link(E, q[h - 1], q[h])
    <3>1. CASE h <= i
      <4>1. q[h - 1] = p[h - 1] /\ q[h] = p[h] /\ h \in 1 .. n
        BY <2>1, <3>1
      <4> QED
        BY <1>1, <4>1 DEF Along
    <3>2. CASE h = i + 1
      <4>1. h + (j - i) = j + 1 /\ j + 1 \in 1 .. n /\ (j + 1) - 1 = j /\ h - 1 = i
        BY <1>2, <3>2
      <4>2. q[h - 1] = p[i] /\ q[h] = p[j + 1]
        BY <2>1, <3>2, <4>1
      <4>3. Link(E, p[j], p[j + 1])
        BY <1>1, <4>1 DEF Along
      <4> QED
        BY <1>2, <4>2, <4>3
    <3>3. CASE h > i + 1
      <4> DEFINE k == h + (j - i)
      <4>1. k \in 1 .. n /\ (h - 1) + (j - i) = k - 1
        BY <1>2, <2>1
      <4>2. q[h - 1] = p[k - 1] /\ q[h] = p[k]
        BY <2>1, <3>3, <4>1
      <4>3. Link(E, p[k - 1], p[k])
        BY <1>1, <4>1 DEF Along
      <4> QED
        BY <4>2, <4>3
    <3> QED
      BY <3>1, <3>2, <3>3
  <2>7. Walk(E, a, b, m)
    <3> HIDE DEF m, q
    <3> QED
      BY <2>3, <2>4, <2>5, <2>6 DEF Walk, Along
  <2> QED
    BY <2>1, <2>7
<1>3. IsInjective(p)
  <2> SUFFICES ASSUME NEW i \in 0 .. n, NEW j \in 0 .. n, p[i] = p[j] PROVE i = j
    BY DEF IsInjective
  <2>1. ~(i < j) /\ ~(j < i)
    BY <1>2
  <2> QED
    BY <2>1
<1> QED
  BY <1>1, <1>3 DEF Path, Along, Link

\* No simple path returns to its start.
LEMMA SimplePathLeaves ==
    ASSUME NEW E, NEW a, NEW b, NEW n \in Nat \ {0}, Path(E, a, b, n) PROVE a # b
<1>1. PICK p \in [0 .. n -> Nodes] : p[0] = a /\ p[n] = b /\ IsInjective(p)
  BY DEF Path
<1> QED
  BY <1>1 DEF IsInjective

\* The shortest simple path is the shortest walk.
LEMMA ShortestPath ==
    ASSUME NEW E \in SUBSET Edge, NEW a \in Nodes, NEW b, NEW k \in Nat \ {0}
    PROVE  Shortest(E, a, b, k) <=> Path(E, a, b, k) /\ \A j \in 1 .. k - 1 : ~Path(E, a, b, j)
<1>1. ASSUME Shortest(E, a, b, k)
      PROVE  Path(E, a, b, k) /\ \A j \in 1 .. k - 1 : ~Path(E, a, b, j)
  <2>1. Path(E, a, b, k)
    BY <1>1, ShortestIsSimple DEF Shortest
  <2>2. ASSUME NEW j \in 1 .. k - 1, Path(E, a, b, j) PROVE FALSE
    <3>1. j \in Nat /\ j \in 0 .. k - 1
      OBVIOUS
    <3> QED
      BY <1>1, <2>2, <3>1, PathIsWalk DEF Shortest
  <2> QED
    BY <2>1, <2>2
<1>2. ASSUME Path(E, a, b, k), \A j \in 1 .. k - 1 : ~Path(E, a, b, j)
      PROVE  Shortest(E, a, b, k)
  <2>1. Walk(E, a, b, k) /\ a # b
    BY <1>2, PathIsWalk, SimplePathLeaves
  <2>2. ASSUME NEW j \in 0 .. k - 1, Walk(E, a, b, j) PROVE FALSE
    <3> DEFINE S == {i \in Nat : Walk(E, a, b, i)}
    <3>1. S \in SUBSET Nat /\ j \in S
      BY <2>2
    <3>2. PICK m \in S : \A i \in S : m <= i
      BY <3>1, LeastOf
    <3>3. m \in Nat /\ Walk(E, a, b, m) /\ m <= j
      BY <3>1, <3>2
    <3>4. \A i \in 0 .. m - 1 : ~Walk(E, a, b, i)
      <4> SUFFICES ASSUME NEW i \in 0 .. m - 1, Walk(E, a, b, i) PROVE FALSE
        OBVIOUS
      <4>1. i \in Nat /\ ~(m <= i)
        BY <3>3
      <4> QED
        BY <3>2, <4>1
    <3>5. Path(E, a, b, m)
      BY <3>3, <3>4, ShortestIsSimple
    <3>6. m # 0
      BY <2>1, <3>3, WalkZero
    <3>7. m \in 1 .. k - 1
      BY <2>2, <3>3, <3>6
    <3> QED
      BY <1>2, <3>5, <3>7
  <2> QED
    BY <2>1, <2>2 DEF Shortest
<1> QED
  BY <1>1, <1>2

LEMMA ShortestReversed ==
    ASSUME NEW E \in SUBSET Edge, NEW a, NEW b, NEW k
    PROVE  Shortest(Reversed(E), a, b, k) <=> Shortest(E, b, a, k)
<1>1. k \in Nat => \A j \in 0 .. k : j \in Nat
  OBVIOUS
<1> QED
  BY <1>1, WalkReversed DEF Shortest

-----------------------------------------------------------------------------
(* What the recursive CTE computes *)

\* Where walks of k edges from s end.
WalksTo(E, s, k) == {x \in Nodes : Walk(E, s, x, k)}

LEMMA WalksToStep ==
    ASSUME NEW E \in SUBSET Edge, NEW s \in Nodes
    PROVE  /\ WalksTo(E, s, 0) = {s}
           /\ \A k \in Nat \ {0} : WalksTo(E, s, k) = Succ(E, WalksTo(E, s, k - 1))
<1>1. WalksTo(E, s, 0) = {s}
  BY WalkZero DEF WalksTo
<1>2. ASSUME NEW k \in Nat \ {0}, NEW x
      PROVE  x \in WalksTo(E, s, k) <=> x \in Succ(E, WalksTo(E, s, k - 1))
  <2>1. x \in Succ(E, WalksTo(E, s, k - 1)) <=> \E c \in WalksTo(E, s, k - 1) : Link(E, c, x)
    BY DEF Succ, Link
  <2>2. Link(E, s, x) => x \in Nodes
    BY DEF Link, Edge
  <2>3. \A c : Link(E, c, x) => x \in Nodes
    BY DEF Link, Edge
  <2>4. Walk(E, s, x, k) <=> \E c \in Nodes : Walk(E, s, c, k - 1) /\ Link(E, c, x)
    BY WalkStep
  <2> QED
    BY <2>1, <2>3, <2>4 DEF WalksTo
<1> QED
  BY <1>1, <1>2

\* The recursion of the CTE has one solution: it follows all walks.
LEMMA ReachIsWalks ==
    ASSUME NEW E \in SUBSET Edge, NEW s \in Nodes, NEW max \in Nat
    PROVE  Reach(E, s, max) = [k \in 0 .. max |-> WalksTo(E, s, k)]
<1> DEFINE F(f) == f = [k \in 0 .. max |-> IF k = 0 THEN {s} ELSE Succ(E, f[k - 1])]
           g == [k \in 0 .. max |-> WalksTo(E, s, k)]
           r == Reach(E, s, max)
<1>1. r = CHOOSE f : F(f)
  BY Zenon DEF Reach
<1>2. F(g)
  <2>1. \A k \in 0 .. max : k # 0 => k \in Nat \ {0} /\ k - 1 \in 0 .. max
    OBVIOUS
  <2>2. ASSUME NEW k \in 0 .. max PROVE g[k] = IF k = 0 THEN {s} ELSE Succ(E, g[k - 1])
    BY <2>1, WalksToStep
  <2> QED
    BY <2>2
<1>3. F(r)
  <2> HIDE DEF F
  <2> QED
    BY <1>1, <1>2
<1> HIDE DEF r
<1>4. ASSUME NEW k \in 0 .. max, r[k] # WalksTo(E, s, k) PROVE FALSE
  <2> DEFINE S == {j \in 0 .. max : r[j] # WalksTo(E, s, j)}
  <2>1. S \in SUBSET Nat /\ S # {}
    BY <1>4
  <2>2. PICK m \in S : \A j \in S : m <= j
    BY <2>1, LeastOf
  <2>3. m # 0
    BY <1>3, WalksToStep
  <2>4. m - 1 \in 0 .. max /\ m \in Nat \ {0} /\ m - 1 \notin S
    BY <2>2, <2>3
  <2>5. r[m] = Succ(E, r[m - 1])
    BY <1>3, <2>3
  <2>6. r[m - 1] = WalksTo(E, s, m - 1)
    BY <2>4
  <2>7. WalksTo(E, s, m) = Succ(E, WalksTo(E, s, m - 1))
    BY <2>4, WalksToStep
  <2> QED
    BY <2>2, <2>5, <2>6, <2>7, Zenon
<1> QED
  BY <1>3, <1>4 DEF r

\* MIN(depth) ... GROUP BY: the least lengths of walks that are asked for.
LEMMA MinDepthIs ==
    ASSUME NEW E \in SUBSET Edge, NEW s \in Nodes, NEW min \in Nat, NEW max \in Nat,
           NEW x, NEW k
    PROVE  <<x, k>> \in MinDepth(E, s, min, max)
             <=> /\ x # s /\ k \in min .. max /\ Walk(E, s, x, k)
                 /\ \A j \in min .. k - 1 : ~Walk(E, s, x, j)
<1> DEFINE S(y) == {j \in min .. max : y \in Reach(E, s, max)[j]}
           all == UNION {Reach(E, s, max)[j] : j \in min .. max}
           ends == all \ {s}
<1>1. ASSUME NEW y PROVE S(y) = {j \in min .. max : Walk(E, s, y, j)}
  <2>1. \A j \in min .. max : Reach(E, s, max)[j] = WalksTo(E, s, j) /\ j \in Nat
    BY ReachIsWalks
  <2>2. \A j \in min .. max : Walk(E, s, y, j) => y \in Nodes
    BY <2>1, WalkEnds
  <2> QED
    BY <2>1, <2>2 DEF WalksTo
<1>2. \A y : y \in ends <=> y # s /\ S(y) # {}
  <2> DEFINE r == Reach(E, s, max)
  <2>1. \A y : y \in all <=> \E j \in min .. max : y \in r[j]
    BY Zenon
  <2>2. \A y : S(y) # {} <=> \E j \in min .. max : y \in r[j]
    BY Zenon
  <2>3. \A y : y \in ends <=> y \in all /\ y # s
    <3> HIDE DEF all
    <3> QED
      OBVIOUS
  <2> QED
    BY <2>1, <2>2, <2>3, Zenon
<1>3. <<x, k>> \in MinDepth(E, s, min, max) <=> x \in ends /\ k = Min(S(x))
  <2>1. MinDepth(E, s, min, max) = {<<y, Min(S(y))>> : y \in ends}
    BY Zenon DEF MinDepth
  <2> HIDE DEF S, ends
  <2> QED
    BY <2>1
<1> HIDE DEF S, ends
<1>4. S(x) \in SUBSET Nat
  BY <1>1
<1>5. ASSUME x # s, k \in S(x), \A j \in min .. k - 1 : ~Walk(E, s, x, j)
      PROVE  <<x, k>> \in MinDepth(E, s, min, max)
  <2>1. \A j \in S(x) : k <= j
    BY <1>1, <1>5
  <2>2. Min(S(x)) = k
    BY <1>4, <1>5, <2>1, MinIs
  <2> QED
    BY <1>2, <1>3, <1>5, <2>2
<1>6. ASSUME <<x, k>> \in MinDepth(E, s, min, max)
      PROVE  x # s /\ k \in S(x) /\ \A j \in min .. k - 1 : ~Walk(E, s, x, j)
  <2>1. x # s /\ S(x) # {} /\ k = Min(S(x))
    BY <1>2, <1>3, <1>6
  <2>2. k \in S(x) /\ \A j \in S(x) : k <= j
    BY <1>4, <2>1, MinOf
  <2>3. ASSUME NEW j \in min .. k - 1, Walk(E, s, x, j) PROVE FALSE
    <3>1. k \in min .. max
      BY <1>1, <2>2
    <3>2. j \in min .. max /\ ~(k <= j)
      BY <3>1
    <3> QED
      BY <1>1, <2>2, <2>3, <3>2
  <2> QED
    BY <2>1, <2>2, <2>3
<1> QED
  BY <1>1, <1>5, <1>6

\* From depth 1 these are the distances.
LEMMA MinDepthIsShortest ==
    ASSUME NEW E \in SUBSET Edge, NEW s \in Nodes, NEW max \in Nat, NEW x, NEW k
    PROVE  <<x, k>> \in MinDepth(E, s, 1, max) <=> k \in 1 .. max /\ Shortest(E, s, x, k)
<1>1. <<x, k>> \in MinDepth(E, s, 1, max)
        <=> /\ x # s /\ k \in 1 .. max /\ Walk(E, s, x, k)
            /\ \A j \in 1 .. k - 1 : ~Walk(E, s, x, j)
  BY MinDepthIs
<1>2. x # s <=> ~Walk(E, s, x, 0)
  BY WalkZero
<1>3. k \in 1 .. max => \A j \in 0 .. k - 1 : j = 0 \/ j \in 1 .. k - 1
  OBVIOUS
<1>4. k \in 1 .. max => 0 \in 0 .. k - 1 /\ \A j \in 1 .. k - 1 : j \in 0 .. k - 1
  OBVIOUS
<1>5. k \in 1 .. max => k \in Nat \ {0}
  OBVIOUS
<1> QED
  BY <1>1, <1>2, <1>3, <1>4, <1>5 DEF Shortest

\* So are the distances of the reference, along simple paths.
LEMMA DistancesIs ==
    ASSUME NEW E \in SUBSET Edge, NEW s \in Nodes, NEW max \in Nat, NEW x, NEW k
    PROVE  <<x, k>> \in Distances(E, s, max) <=> k \in 1 .. max /\ Shortest(E, s, x, k)
<1> DEFINE S(y) == {n \in 1 .. max : Path(E, s, y, n)}
<1>1. <<x, k>> \in Distances(E, s, max) <=> x \in Nodes /\ S(x) # {} /\ k = Min(S(x))
  BY DEF Distances
<1>2. S(x) \in SUBSET Nat
  OBVIOUS
<1>3. ASSUME S(x) # {}, k = Min(S(x)) PROVE k \in 1 .. max /\ Shortest(E, s, x, k)
  <2>1. k \in S(x) /\ \A n \in S(x) : k <= n
    BY <1>2, <1>3, MinOf
  <2>2. \A n \in 1 .. k - 1 : ~Path(E, s, x, n)
    <3> SUFFICES ASSUME NEW n \in 1 .. k - 1, Path(E, s, x, n) PROVE FALSE
      OBVIOUS
    <3>1. n \in 1 .. max /\ ~(k <= n)
      BY <2>1
    <3> QED
      BY <2>1, <3>1
  <2>3. k \in Nat \ {0} /\ Path(E, s, x, k)
    BY <2>1
  <2> QED
    BY <2>1, <2>2, <2>3, ShortestPath
<1>4. ASSUME k \in 1 .. max, Shortest(E, s, x, k) PROVE x \in Nodes /\ S(x) # {} /\ k = Min(S(x))
  <2>1. k \in Nat \ {0}
    BY <1>4
  <2>2. Path(E, s, x, k) /\ \A j \in 1 .. k - 1 : ~Path(E, s, x, j)
    BY <1>4, <2>1, ShortestPath
  <2>3. k \in S(x) /\ \A n \in S(x) : k <= n
    BY <1>4, <2>2
  <2>4. Min(S(x)) = k
    <3> HIDE DEF S
    <3> QED
      BY <1>2, <2>3, MinIs
  <2>5. x \in Nodes
    BY <1>4, <2>1, WalkEnds DEF Shortest
  <2> QED
    BY <2>3, <2>4, <2>5
<1> QED
  BY <1>1, <1>3, <1>4

-----------------------------------------------------------------------------
(* What the closure table holds *)

\* The nodes a breadth-first search has seen after k levels, and those of
\* level k.
SeenBy(E, s, k) == {x \in Nodes : \E j \in 0 .. k : Walk(E, s, x, j)}
LevelOf(E, s, k) == {x \in Nodes : Walk(E, s, x, k) /\ \A j \in 0 .. k - 1 : ~Walk(E, s, x, j)}

\* The successors of a level that no level has seen are the next level: a node
\* at distance k has a predecessor at distance k - 1.
LEMMA NextLevel ==
    ASSUME NEW E \in SUBSET Edge, NEW s \in Nodes, NEW k \in Nat \ {0}
    PROVE  /\ Succ(E, LevelOf(E, s, k - 1)) \ SeenBy(E, s, k - 1) = LevelOf(E, s, k)
           /\ SeenBy(E, s, k) = SeenBy(E, s, k - 1) \cup LevelOf(E, s, k)
<1>1. \A x : x \in SeenBy(E, s, k - 1) <=> x \in Nodes /\ \E j \in 0 .. k - 1 : Walk(E, s, x, j)
  BY DEF SeenBy
<1>2. ASSUME NEW x \in Succ(E, LevelOf(E, s, k - 1)), x \notin SeenBy(E, s, k - 1)
      PROVE  x \in LevelOf(E, s, k)
  <2>1. PICK c \in LevelOf(E, s, k - 1) : Link(E, c, x)
    BY <1>2 DEF Succ, Link
  <2>2. x \in Nodes
    BY <2>1 DEF Link, Edge
  <2>3. c \in Nodes /\ Walk(E, s, c, k - 1)
    BY <2>1 DEF LevelOf
  <2>4. Walk(E, s, x, k)
    BY <2>1, <2>3, WalkStep
  <2> QED
    BY <1>1, <1>2, <2>2, <2>4 DEF LevelOf
<1>3. ASSUME NEW x \in LevelOf(E, s, k)
      PROVE  x \in Succ(E, LevelOf(E, s, k - 1)) /\ x \notin SeenBy(E, s, k - 1)
  <2>1. x \in Nodes /\ Walk(E, s, x, k) /\ \A j \in 0 .. k - 1 : ~Walk(E, s, x, j)
    BY <1>3 DEF LevelOf
  <2>2. PICK c \in Nodes : Walk(E, s, c, k - 1) /\ Link(E, c, x)
    BY <2>1, WalkStep
  <2>3. ASSUME NEW j \in 0 .. (k - 1) - 1, Walk(E, s, c, j) PROVE FALSE
    <3>1. j + 1 \in Nat \ {0} /\ (j + 1) - 1 = j /\ j + 1 \in 0 .. k - 1
      OBVIOUS
    <3>2. Walk(E, s, x, j + 1)
      <4> DEFINE n == j + 1
      <4>1. n \in Nat \ {0} /\ n - 1 = j
        BY <3>1
      <4> HIDE DEF n
      <4>2. Walk(E, s, x, n)
        BY <2>2, <2>3, <4>1, WalkStep
      <4> QED
        BY <4>2 DEF n
    <3> QED
      BY <2>1, <3>1, <3>2
  <2>4. c \in LevelOf(E, s, k - 1)
    BY <2>2, <2>3 DEF LevelOf
  <2> QED
    BY <1>1, <2>1, <2>2, <2>4 DEF Succ, Link
<1>4. ASSUME NEW x \in SeenBy(E, s, k) PROVE x \in SeenBy(E, s, k - 1) \cup LevelOf(E, s, k)
  <2>1. PICK j \in 0 .. k : Walk(E, s, x, j)
    BY <1>4 DEF SeenBy
  <2>2. x \in Nodes /\ (j = k \/ j \in 0 .. k - 1)
    BY <1>4 DEF SeenBy
  <2> QED
    BY <1>1, <2>1, <2>2 DEF LevelOf
<1>5. ASSUME NEW x \in SeenBy(E, s, k - 1) \cup LevelOf(E, s, k) PROVE x \in SeenBy(E, s, k)
  <2>1. k \in 0 .. k /\ \A j \in 0 .. k - 1 : j \in 0 .. k
    OBVIOUS
  <2> QED
    BY <1>5, <2>1 DEF SeenBy, LevelOf
<1> QED
  BY <1>2, <1>3, <1>4, <1>5

\* The breadth-first search of BuildClosure finds every node at its distance.
LEMMA BfsIs ==
    ASSUME NEW E \in SUBSET Edge, NEW s \in Nodes, NEW max \in Nat
    PROVE  Bfs(E, s, max) = UNION {{[from |-> s, to |-> x, depth |-> k] : x \in LevelOf(E, s, k)}
                                       : k \in 1 .. max}
<1> DEFINE Grow(v) == LET next == Succ(E, v.frontier) \ v.seen
                      IN  [seen |-> v.seen \cup next, frontier |-> next]
           F(f) == f = [k \in 0 .. max |-> IF k = 0 THEN [seen |-> {s}, frontier |-> {s}] ELSE Grow(f[k - 1])]
           At(k) == [seen |-> SeenBy(E, s, k), frontier |-> LevelOf(E, s, k)]
           g == [k \in 0 .. max |-> At(k)]
           b == CHOOSE f : F(f)
<1>1. Bfs(E, s, max) = UNION {{[from |-> s, to |-> x, depth |-> k] : x \in b[k].frontier} : k \in 1 .. max}
  BY Zenon DEF Bfs
<1>2. At(0) = [seen |-> {s}, frontier |-> {s}]
  <2>1. 0 .. 0 = {0} /\ 0 .. 0 - 1 = {}
    OBVIOUS
  <2>2. SeenBy(E, s, 0) = {s}
    BY <2>1, WalkZero DEF SeenBy
  <2>3. LevelOf(E, s, 0) = {s}
    BY <2>1, WalkZero DEF LevelOf
  <2> QED
    BY <2>2, <2>3
<1>3. ASSUME NEW k \in Nat \ {0} PROVE At(k) = Grow(At(k - 1))
  <2>1. Succ(E, LevelOf(E, s, k - 1)) \ SeenBy(E, s, k - 1) = LevelOf(E, s, k)
    BY NextLevel
  <2>2. SeenBy(E, s, k) = SeenBy(E, s, k - 1) \cup LevelOf(E, s, k)
    BY NextLevel
  <2>3. At(k - 1).frontier = LevelOf(E, s, k - 1) /\ At(k - 1).seen = SeenBy(E, s, k - 1)
    OBVIOUS
  <2> HIDE DEF At
  <2>4. Grow(At(k - 1)) = [seen |-> SeenBy(E, s, k - 1) \cup LevelOf(E, s, k), frontier |-> LevelOf(E, s, k)]
    BY <2>1, <2>3
  <2> QED
    BY <2>2, <2>4 DEF At
<1> HIDE DEF Grow, At
<1>4. F(g)
  <2>1. ASSUME NEW k \in 0 .. max
        PROVE  g[k] = IF k = 0 THEN [seen |-> {s}, frontier |-> {s}] ELSE Grow(g[k - 1])
    <3>1. CASE k = 0
      BY <1>2, <3>1
    <3>2. CASE k # 0
      <4>1. k \in Nat \ {0} /\ k - 1 \in 0 .. max
        BY <3>2
      <4>2. g[k] = At(k) /\ g[k - 1] = At(k - 1)
        BY <4>1
      <4> QED
        BY <1>3, <3>2, <4>1, <4>2, Zenon
    <3> QED
      BY <3>1, <3>2
  <2> QED
    BY <2>1
<1>5. F(b)
  <2> HIDE DEF F
  <2> QED
    BY <1>4
<1> HIDE DEF b
<1>6. ASSUME NEW k \in 0 .. max, b[k] # At(k) PROVE FALSE
  <2> DEFINE S == {j \in 0 .. max : b[j] # At(j)}
  <2>1. S \in SUBSET Nat /\ S # {}
    BY <1>6
  <2>2. PICK m \in S : \A j \in S : m <= j
    BY <2>1, LeastOf
  <2>3. m # 0
    BY <1>2, <1>5
  <2>4. m - 1 \in 0 .. max /\ m \in Nat \ {0} /\ m - 1 \notin S
    BY <2>2, <2>3
  <2>5. b[m] = Grow(b[m - 1])
    BY <1>5, <2>3
  <2>6. b[m - 1] = At(m - 1)
    BY <2>4
  <2>7. At(m) = Grow(At(m - 1))
    BY <1>3, <2>4
  <2> QED
    BY <2>2, <2>5, <2>6, <2>7, Zenon
<1>7. \A k \in 1 .. max : b[k].frontier = LevelOf(E, s, k)
  <2> TAKE k \in 1 .. max
  <2>1. k \in 0 .. max
    OBVIOUS
  <2>2. b[k] = At(k)
    BY <1>6, <2>1
  <2> QED
    BY <2>2 DEF At
<1> QED
  BY <1>1, <1>7

\* A row of the closure table is a pair of nodes and their distance.
LEMMA RowsIs ==
    ASSUME NEW G \in SUBSET Edge, NEW max \in Nat
    PROVE  \A r : r \in Rows(G, max) <=>
               \E a \in Nodes : \E x \in Nodes : \E k \in 1 .. max :
                   r = [from |-> a, to |-> x, depth |-> k] /\ Shortest(Of(G, TraceKinds), a, x, k)
<1> DEFINE adj == Of(G, TraceKinds)
           from == {e.from : e \in adj}
<1>1. adj \in SUBSET Edge /\ from \subseteq Nodes
  BY DEF Of, Edge
<1>2. ASSUME NEW r PROVE r \in Rows(G, max) <=> \E a \in from : r \in Bfs(adj, a, max)
  BY DEF Rows
<1> HIDE DEF adj, from
<1>3. \A a, x : \A k \in 1 .. max : x \in LevelOf(adj, a, k) <=> x \in Nodes /\ Shortest(adj, a, x, k)
  BY DEF LevelOf, Shortest
<1>4. ASSUME NEW a \in from, NEW r
      PROVE  r \in Bfs(adj, a, max) <=>
                 \E k \in 1 .. max : \E x \in Nodes :
                     r = [from |-> a, to |-> x, depth |-> k] /\ Shortest(adj, a, x, k)
  <2>1. Bfs(adj, a, max) = UNION {{[from |-> a, to |-> x, depth |-> k] : x \in LevelOf(adj, a, k)}
                                       : k \in 1 .. max}
    BY <1>1, BfsIs
  <2>2. r \in Bfs(adj, a, max) <=>
            \E k \in 1 .. max : \E x \in LevelOf(adj, a, k) : r = [from |-> a, to |-> x, depth |-> k]
    <3> DEFINE L(k) == {[from |-> a, to |-> x, depth |-> k] : x \in LevelOf(adj, a, k)}
    <3>1. r \in Bfs(adj, a, max) <=> \E k \in 1 .. max : r \in L(k)
      BY <2>1
    <3>2. \A k \in 1 .. max : r \in L(k) <=>
              \E x \in LevelOf(adj, a, k) : r = [from |-> a, to |-> x, depth |-> k]
      OBVIOUS
    <3> HIDE DEF L
    <3> QED
      BY <3>1, <3>2
  <2> QED
    BY <1>3, <2>2
<1>5. ASSUME NEW a, NEW x, NEW k \in 1 .. max, Shortest(adj, a, x, k) PROVE a \in from
  <2>1. k \in Nat \ {0} /\ Walk(adj, a, x, k)
    BY <1>5 DEF Shortest
  <2> QED
    BY <1>1, <2>1, WalkEdges DEF from
<1> QED
  BY <1>1, <1>2, <1>4, <1>5 DEF adj

\* The CTE from depth 1 and the reference agree, as sets.
LEMMA CTEIsDistances ==
    ASSUME NEW E \in SUBSET Edge, NEW s \in Nodes, NEW max \in Nat
    PROVE  MinDepth(E, s, 1, max) = Distances(E, s, max)
<1>1. \A h \in MinDepth(E, s, 1, max) : \E x, k : h = <<x, k>>
  BY DEF MinDepth
<1>2. \A h \in Distances(E, s, max) : \E x, k : h = <<x, k>>
  BY DEF Distances
<1>3. \A x, k : <<x, k>> \in MinDepth(E, s, 1, max) <=> <<x, k>> \in Distances(E, s, max)
  BY MinDepthIsShortest, DistancesIs
<1>4. ASSUME NEW h \in MinDepth(E, s, 1, max) PROVE h \in Distances(E, s, max)
  <2>1. PICK x, k : h = <<x, k>>
    BY <1>1
  <2> QED
    BY <1>3, <2>1
<1>5. ASSUME NEW h \in Distances(E, s, max) PROVE h \in MinDepth(E, s, 1, max)
  <2>1. PICK x, k : h = <<x, k>>
    BY <1>2
  <2> QED
    BY <1>3, <2>1
<1> QED
  BY <1>4, <1>5, Zenon

LEMMA MinTwo ==
    ASSUME NEW m \in Nat, NEW n \in Nat
    PROVE  Min({m, n}) \in Nat /\ \A k \in Nat : k <= Min({m, n}) <=> k <= m /\ k <= n
<1>1. Min({m, n}) \in {m, n} /\ Min({m, n}) <= m /\ Min({m, n}) <= n
  BY MinOf
<1> QED
  BY <1>1

\* Read from either end the rows are the distances, up to their depth.
LEMMA ClosureIsDistances ==
    ASSUME edges \in SUBSET Edge, depth \in Nat, closure = Rows(edges, depth),
           NEW s \in Nodes, NEW max \in Nat
    PROVE  /\ ViaClosure(s, "outbound", max) = Distances(Of(edges, TraceKinds), s, Min({max, depth}))
           /\ ViaClosure(s, "inbound", max) = Distances(Reversed(Of(edges, TraceKinds)), s, Min({max, depth}))
<1> DEFINE E == Of(edges, TraceKinds)
           m == Min({max, depth})
<1>1. E \in SUBSET Edge /\ Reversed(E) \in SUBSET Edge
  BY ReversedEdges DEF Of
<1>2. m \in Nat /\ \A k \in Nat : k <= m <=> k <= max /\ k <= depth
  BY MinTwo
<1>3. \A r : r \in closure <=>
          \E a \in Nodes : \E x \in Nodes : \E k \in 1 .. depth :
              r = [from |-> a, to |-> x, depth |-> k] /\ Shortest(E, a, x, k)
  BY RowsIs
<1> HIDE DEF E, m
<1>4. \A a, x, k : [from |-> a, to |-> x, depth |-> k] \in closure
          <=> a \in Nodes /\ x \in Nodes /\ k \in 1 .. depth /\ Shortest(E, a, x, k)
  <2> TAKE a, x, k
  <2>1. \A a1, x1, k1 : [from |-> a, to |-> x, depth |-> k] = [from |-> a1, to |-> x1, depth |-> k1]
            => a = a1 /\ x = x1 /\ k = k1
    OBVIOUS
  <2> QED
    BY <1>3, <2>1
<1>5. \A r \in closure : r = [from |-> r.from, to |-> r.to, depth |-> r.depth]
  BY <1>3
<1>6. \A k : k \in 1 .. m <=> k \in 1 .. depth /\ k <= max
  BY <1>2
<1>7. \A a, x, k : Shortest(E, a, x, k) /\ k \in 1 .. depth => a \in Nodes /\ x \in Nodes
  BY WalkEnds DEF Shortest
<1>8. ViaClosure(s, "outbound", max) = Distances(E, s, m)
  <2>1. \A h : h \in ViaClosure(s, "outbound", max) <=>
            \E r \in closure : r.from = s /\ r.depth <= max /\ h = <<r.to, r.depth>>
    BY DEF ViaClosure
  <2>2. \A x, k : <<x, k>> \in Distances(E, s, m) <=> k \in 1 .. m /\ Shortest(E, s, x, k)
    BY <1>1, <1>2, DistancesIs
  <2>3. ASSUME NEW h \in ViaClosure(s, "outbound", max) PROVE h \in Distances(E, s, m)
    <3>1. PICK r \in closure : r.from = s /\ r.depth <= max /\ h = <<r.to, r.depth>>
      BY <2>1
    <3>2. r.depth \in 1 .. depth /\ Shortest(E, s, r.to, r.depth)
      BY <1>4, <1>5, <3>1
    <3> QED
      BY <1>6, <2>2, <3>1, <3>2
  <2>4. ASSUME NEW h \in Distances(E, s, m) PROVE h \in ViaClosure(s, "outbound", max)
    <3>1. PICK x, k : h = <<x, k>>
      BY DEF Distances
    <3>2. k \in 1 .. depth /\ k <= max /\ Shortest(E, s, x, k)
      BY <1>6, <2>2, <3>1
    <3>3. [from |-> s, to |-> x, depth |-> k] \in closure
      BY <1>4, <1>7, <3>2
    <3> QED
      BY <2>1, <3>1, <3>2, <3>3
  <2> QED
    BY <2>3, <2>4
<1>9. ViaClosure(s, "inbound", max) = Distances(Reversed(E), s, m)
  <2>1. \A h : h \in ViaClosure(s, "inbound", max) <=>
            \E r \in closure : r.to = s /\ r.depth <= max /\ h = <<r.from, r.depth>>
    BY DEF ViaClosure
  <2>2. \A x, k : <<x, k>> \in Distances(Reversed(E), s, m) <=> k \in 1 .. m /\ Shortest(E, x, s, k)
    BY <1>1, <1>2, DistancesIs, ShortestReversed
  <2>3. ASSUME NEW h \in ViaClosure(s, "inbound", max) PROVE h \in Distances(Reversed(E), s, m)
    <3>1. PICK r \in closure : r.to = s /\ r.depth <= max /\ h = <<r.from, r.depth>>
      BY <2>1
    <3>2. r.depth \in 1 .. depth /\ Shortest(E, r.from, s, r.depth)
      BY <1>4, <1>5, <3>1
    <3> QED
      BY <1>6, <2>2, <3>1, <3>2
  <2>4. ASSUME NEW h \in Distances(Reversed(E), s, m) PROVE h \in ViaClosure(s, "inbound", max)
    <3>1. PICK x, k : h = <<x, k>>
      BY DEF Distances
    <3>2. k \in 1 .. depth /\ k <= max /\ Shortest(E, x, s, k)
      BY <1>6, <2>2, <3>1
    <3>3. [from |-> x, to |-> s, depth |-> k] \in closure
      BY <1>4, <1>7, <3>2
    <3> QED
      BY <2>1, <3>1, <3>2, <3>3
  <2> QED
    BY <2>3, <2>4
<1> QED
  BY <1>8, <1>9 DEF E, m

-----------------------------------------------------------------------------
(* The tables *)

\* Edges join symbols, and unless a build was missed the closure table is that
\* of the edges, or there is none.  A pass that is under way has changed them.
Cached ==
    /\ symbols \subseteq Nodes /\ edges \in SUBSET Edge /\ Sound(edges, symbols)
    /\ missed \in BOOLEAN /\ (pc # "idle" => missed)
    /\ ~missed => \/ closure = {} /\ depth = 0
                  \/ depth \in Depths /\ closure = Rows(edges, depth)

LEMMA CachedInit == Init => Cached
<1> SUFFICES ASSUME Init PROVE Cached
  OBVIOUS
<1>1. edges \in SUBSET Edge
  BY DEF Init, Graph, kSubset
<1> QED
  BY <1>1 DEF Init, Cached, Sound, Edge

LEMMA CachedStep == Cached /\ [Next]_vars => Cached'
<1> SUFFICES ASSUME Cached, [Next]_vars PROVE Cached'
  OBVIOUS
<1>1. CASE UpsertEdge
  BY <1>1 DEF Cached, UpsertEdge, Sound
<1>2. CASE DeleteSymbols
  BY <1>2 DEF Cached, DeleteSymbols, Sound
<1>3. CASE ForceClear
  BY <1>3 DEF Cached, ForceClear, DropClosure, Sound
<1>4. CASE Extract
  BY <1>4 DEF Cached, Extract, Sound, Edge
<1>5. CASE DeleteProject
  BY <1>5 DEF Cached, DeleteProject, DropClosure, Sound
<1>6. CASE BuildClosure
  BY <1>6 DEF Cached, BuildClosure, Sound
<1>7. CASE SkipBuild
  BY <1>7 DEF Cached, SkipBuild, Sound
<1>8. CASE UNCHANGED vars
  BY <1>8 DEF Cached, vars, Sound
<1> QED
  BY <1>1, <1>2, <1>3, <1>4, <1>5, <1>6, <1>7, <1>8 DEF Next

LEMMA AlwaysCached == Spec => []Cached
  BY CachedInit, CachedStep, PTL DEF Spec

\* What a trace finds are symbols.
LEMMA DistancesSound ==
    ASSUME Cached, NEW s \in Nodes, NEW max \in Nat, NEW kinds
    PROVE  /\ \A h \in Distances(Of(edges, kinds), s, max) : h[1] \in symbols
           /\ \A h \in Distances(Reversed(Of(edges, kinds)), s, max) : h[1] \in symbols
<1> DEFINE E == Of(edges, kinds)
<1>1. E \in SUBSET Edge /\ Reversed(E) \in SUBSET Edge /\ E \subseteq edges
  BY ReversedEdges DEF Of, Cached
<1>2. \A e \in E : e.from \in symbols /\ e.to \in symbols
  BY <1>1 DEF Cached, Sound
<1> HIDE DEF E
<1>3. ASSUME NEW h \in Distances(E, s, max) PROVE h[1] \in symbols
  <2>1. PICK x, k : h = <<x, k>>
    BY DEF Distances
  <2>2. k \in Nat \ {0} /\ Walk(E, s, x, k)
    BY <1>1, <2>1, DistancesIs DEF Shortest
  <2>3. \E e \in E : e.to = x
    BY <1>1, <2>2, WalkEdges
  <2> QED
    BY <1>2, <2>1, <2>3
<1>4. ASSUME NEW h \in Distances(Reversed(E), s, max) PROVE h[1] \in symbols
  <2>1. PICK x, k : h = <<x, k>>
    BY DEF Distances
  <2>2. k \in Nat \ {0} /\ Walk(E, x, s, k)
    BY <1>1, <2>1, DistancesIs, WalkReversed DEF Shortest
  <2>3. \E e \in E : e.from = x
    BY <1>1, <2>2, WalkEdges
  <2> QED
    BY <1>2, <2>1, <2>3
<1> QED
  BY <1>3, <1>4 DEF E

\* What is found in the directions of a trace.
Found(s, dir, max) ==
    (IF dir = "inbound" THEN {} ELSE Distances(Of(edges, TraceKinds), s, max))
        \cup (IF dir = "outbound" THEN {} ELSE Distances(Reversed(Of(edges, TraceKinds)), s, max))

LEMMA MergeTwice ==
    ASSUME NEW S
    PROVE  Merge(Merge(S, {}), {}) = Merge(S, {})
<1>1. S \cup {} = S /\ Merge(S, {}) \cup {} = Merge(S, {})
  OBVIOUS
<1> QED
  BY <1>1 DEF Merge

\* The invariant makes every trace exact.
LEMMA CachedIsExact == Cached => TraceExact
<1> USE TraceAssumption
<1> SUFFICES ASSUME Cached, NEW s \in symbols, NEW dir \in Dirs, NEW max \in 1 .. TraceLimit, NEW on \in BOOLEAN
             PROVE  /\ \A h \in Trace(s, dir, TraceKinds, max, on) : h[1] \in symbols
                    /\ pc = "idle" /\ ~missed =>
                          Merge(Trace(s, dir, TraceKinds, max, on), {}) =
                              Reference(s, dir, IF on /\ closure # {} THEN Min({max, depth}) ELSE max)
  BY DEF TraceExact
<1> DEFINE dirs == IF dir = "both" THEN {"outbound", "inbound"} ELSE {dir}
           E == Of(edges, TraceKinds)
           S == UNION {ViaClosure(s, r, max) : r \in dirs}
           C == UNION {ViaCTE(s, r, TraceKinds, max) : r \in dirs}
<1>1. max \in Nat /\ s \in Nodes
  BY DEF Cached
<1>2. E \in SUBSET Edge /\ Reversed(E) \in SUBSET Edge
  BY ReversedEdges DEF Of, Cached
<1>3. Trace(s, dir, TraceKinds, max, on) = Hops(IF on /\ closure # {} THEN S ELSE Merge(C, {}))
  BY DEF Trace
<1>4. \A h \in Trace(s, dir, TraceKinds, max, on) : h[1] \in symbols
  BY <1>3 DEF Hops
<1>5. C = Found(s, dir, max)
  <2>1. ViaCTE(s, "outbound", TraceKinds, max) = Distances(E, s, max)
    BY <1>1, <1>2, CTEIsDistances DEF ViaCTE
  <2>2. ViaCTE(s, "inbound", TraceKinds, max) = Distances(Reversed(E), s, max)
    BY <1>1, <1>2, CTEIsDistances DEF ViaCTE
  <2> QED
    BY <2>1, <2>2 DEF Dirs, Found
<1>6. ASSUME depth \in Nat, closure = Rows(edges, depth) PROVE S = Found(s, dir, Min({max, depth}))
  <2>1. /\ ViaClosure(s, "outbound", max) = Distances(E, s, Min({max, depth}))
        /\ ViaClosure(s, "inbound", max) = Distances(Reversed(E), s, Min({max, depth}))
    BY <1>1, <1>6, ClosureIsDistances DEF Cached
  <2> QED
    BY <2>1 DEF Dirs, Found
<1> HIDE DEF E, S, C
<1>7. ASSUME NEW m \in Nat PROVE \A h \in Found(s, dir, m) : h[1] \in symbols
  BY <1>1, DistancesSound DEF Found
<1>8. ASSUME NEW m PROVE Reference(s, dir, m) = Merge(Found(s, dir, m), {})
  <2>1. Found(s, dir, m) \cup {} = Found(s, dir, m)
    OBVIOUS
  <2> QED
    BY <2>1 DEF Reference, Found, Merge
<1>9. ASSUME NEW m \in Nat PROVE Hops(Found(s, dir, m)) = Found(s, dir, m)
                                 /\ Hops(Merge(Found(s, dir, m), {})) = Merge(Found(s, dir, m), {})
  BY <1>7 DEF Hops, Merge
<1>10. ASSUME ~missed
       PROVE  Merge(Trace(s, dir, TraceKinds, max, on), {}) =
                  Reference(s, dir, IF on /\ closure # {} THEN Min({max, depth}) ELSE max)
  <2>1. CASE on /\ closure # {}
    <3>1. depth \in Nat /\ closure = Rows(edges, depth)
      BY <1>10, <2>1 DEF Cached
    <3>2. Min({max, depth}) \in Nat
      BY <1>1, <3>1, MinTwo
    <3>3. Trace(s, dir, TraceKinds, max, on) = Found(s, dir, Min({max, depth}))
      BY <1>3, <1>6, <1>9, <2>1, <3>1, <3>2
    <3> QED
      BY <1>8, <2>1, <3>3
  <2>2. CASE ~(on /\ closure # {})
    <3>1. Trace(s, dir, TraceKinds, max, on) = Merge(Found(s, dir, max), {})
      BY <1>1, <1>3, <1>5, <1>9, <2>2
    <3> QED
      BY <1>8, <2>2, <3>1, MergeTwice
  <2> QED
    BY <2>1, <2>2
<1> QED
  BY <1>4, <1>10

\* For every graph, whatever passes ran, failed or were skipped: a trace
\* answers no removed symbol, and when the closure table is current or absent
\* it answers the distances along simple paths.
THEOREM TracesAreExact == Spec => []TraceExact
  BY CachedIsExact, AlwaysCached, PTL

-----------------------------------------------------------------------------
(* Variable-length patterns *)

LEMMA MaxTwo ==
    ASSUME NEW m \in Nat, NEW n \in Nat
    PROVE  Max({m, n}) = IF m <= n THEN n ELSE m
<1> DEFINE x == IF m <= n THEN n ELSE m
<1>1. x \in {m, n} /\ \A y \in {m, n} : x >= y
  OBVIOUS
<1>2. \A z \in {m, n} : (\A y \in {m, n} : z >= y) => z = x
  OBVIOUS
<1> QED
  BY <1>1, <1>2 DEF Max

LEMMA MinTwoIs ==
    ASSUME NEW m \in Nat, NEW n \in Nat
    PROVE  Min({m, n}) = IF m <= n THEN m ELSE n
  BY MinIs

\* The bounds of a pattern in either order, 0 taken for 1.
LEMMA BoundsAre ==
    ASSUME NEW lo \in Nat, NEW hi \in Nat
    PROVE  /\ Max({Min({lo, hi}), 1}) \in Nat \ {0} /\ Max({lo, hi, 1}) \in Nat
           /\ \A n \in Nat \ {0} : Max({Min({lo, hi}), 1}) <= n <=> Min({lo, hi}) <= n
           /\ Max({lo, hi, 1}) = Max({Max({lo, hi}), 1})
<1>1. Min({lo, hi}) \in Nat
  BY MinTwoIs
<1>2. Max({Min({lo, hi}), 1}) = IF Min({lo, hi}) <= 1 THEN 1 ELSE Min({lo, hi})
  BY <1>1, MaxTwo
<1>3. Max({lo, hi}) \in {lo, hi} /\ lo <= Max({lo, hi}) /\ hi <= Max({lo, hi})
  BY MaxTwo
<1> DEFINE x == Max({Max({lo, hi}), 1})
<1>4. x \in {lo, hi, 1} /\ x \in Nat /\ lo <= x /\ hi <= x /\ 1 <= x
  BY <1>3, MaxTwo
<1> HIDE DEF x
<1>5. x \in {lo, hi, 1} /\ \A y \in {lo, hi, 1} : x >= y
  BY <1>4
<1>6. \A z \in {lo, hi, 1} : (\A y \in {lo, hi, 1} : z >= y) => z = x
  BY <1>4
<1>7. Max({lo, hi, 1}) = x
  BY <1>5, <1>6 DEF Max
<1> QED
  BY <1>1, <1>2, <1>4, <1>7 DEF x

\* A range is given by its two bounds, in either order.
LEMMA HopsOf ==
    ASSUME NEW spec, NEW lo \in Nat, NEW hi \in Nat,
           ParseHops(spec) = <<Max({Min({lo, hi}), 1}), Max({lo, hi, 1})>>,
           Lengths(spec) = {n \in 1 .. HopLimit : n >= Min({lo, hi}) /\ n <= Max({Max({lo, hi}), 1})}
    PROVE  /\ ParseHops(spec)[1] \in Nat \ {0} /\ Min({ParseHops(spec)[2], HopLimit}) \in Nat
           /\ Lengths(spec) = ParseHops(spec)[1] .. Min({ParseHops(spec)[2], HopLimit})
<1> USE TraceAssumption
<1> DEFINE min == Max({Min({lo, hi}), 1})
           max == Max({lo, hi, 1})
           least == Min({lo, hi})
           cap == Min({max, HopLimit})
<1>1. /\ min \in Nat \ {0} /\ max \in Nat
      /\ \A n \in Nat \ {0} : min <= n <=> least <= n
      /\ max = Max({Max({lo, hi}), 1})
  BY BoundsAre
<1>2. least \in Nat
  BY MinTwoIs
<1>3. ParseHops(spec)[1] = min /\ ParseHops(spec)[2] = max
  OBVIOUS
<1>4. Lengths(spec) = {n \in 1 .. HopLimit : n >= least /\ n <= max}
  BY <1>1
<1> HIDE DEF min, max, least
<1>5. cap \in Nat /\ \A k \in Nat : k <= cap <=> k <= max /\ k <= HopLimit
  BY <1>1, MinTwo
<1> HIDE DEF cap
<1>6. ASSUME NEW n PROVE n \in {k \in 1 .. HopLimit : k >= least /\ k <= max} <=> n \in min .. cap
  BY <1>1, <1>2, <1>5
<1>7. {k \in 1 .. HopLimit : k >= least /\ k <= max} = min .. cap
  BY <1>6
<1> QED
  BY <1>1, <1>3, <1>4, <1>5, <1>7 DEF cap

\* parseHops and the cap of the engine give the lengths that are asked for.
LEMMA HopsAreLengths ==
    ASSUME NEW spec \in Specs
    PROVE  /\ ParseHops(spec)[1] \in Nat \ {0} /\ Min({ParseHops(spec)[2], HopLimit}) \in Nat
           /\ Lengths(spec) = ParseHops(spec)[1] .. Min({ParseHops(spec)[2], HopLimit})
<1> USE TraceAssumption
<1>1. CASE spec = <<>>
  <2>1. ParseHops(spec) = <<Max({Min({1, 1}), 1}), Max({1, 1, 1})>>
    BY <1>1 DEF ParseHops
  <2>2. Min({1, 1}) = 1 /\ Max({1, 1}) = 1
    BY MinTwoIs, MaxTwo
  <2>3. Lengths(spec) = {n \in 1 .. HopLimit : n >= 1 /\ n <= Max({1, 1})}
    BY <1>1 DEF Lengths
  <2>4. Lengths(spec) = {n \in 1 .. HopLimit : n >= Min({1, 1}) /\ n <= Max({Max({1, 1}), 1})}
    BY <2>2, <2>3
  <2> QED
    BY <2>1, <2>4, HopsOf
<1>2. ASSUME NEW m \in 0 .. HopLimit + 1, spec = <<m>>
      PROVE  /\ ParseHops(spec)[1] \in Nat \ {0} /\ Min({ParseHops(spec)[2], HopLimit}) \in Nat
             /\ Lengths(spec) = ParseHops(spec)[1] .. Min({ParseHops(spec)[2], HopLimit})
  <2>1. spec # <<>> /\ DOMAIN spec = {1} /\ spec[1] = m /\ m \in Nat
    BY <1>2
  <2>2. Cardinality({1}) = 1
    BY FS_Singleton
  <2>3. ParseHops(spec) = <<Max({Min({m, m}), 1}), Max({m, m, 1})>>
    BY <2>1, <2>2 DEF ParseHops
  <2>4. {spec[i] : i \in DOMAIN spec} = {m, m}
    BY <2>1
  <2>5. Lengths(spec) = {n \in 1 .. HopLimit : n >= Min({m, m}) /\ n <= Max({Max({m, m}), 1})}
    BY <2>1, <2>4 DEF Lengths
  <2> QED
    BY <2>1, <2>3, <2>5, HopsOf
<1>3. ASSUME NEW a \in 0 .. HopLimit + 1, NEW b \in 0 .. HopLimit + 1, spec = <<a, b>>
      PROVE  /\ ParseHops(spec)[1] \in Nat \ {0} /\ Min({ParseHops(spec)[2], HopLimit}) \in Nat
             /\ Lengths(spec) = ParseHops(spec)[1] .. Min({ParseHops(spec)[2], HopLimit})
  <2>1. spec # <<>> /\ DOMAIN spec = {1, 2} /\ spec[1] = a /\ spec[2] = b /\ a \in Nat /\ b \in Nat
    BY <1>3
  <2>2. Cardinality({1, 2}) = 2
    <3>1. Cardinality({1}) = 1 /\ IsFiniteSet({1})
      BY FS_Singleton
    <3>2. Cardinality({1} \cup {2}) = Cardinality({1}) + 1
      <4>1. ~ (2 \in {1})
        OBVIOUS
      <4>2. Cardinality({1} \cup {2}) = IF 2 \in {1} THEN Cardinality({1}) ELSE Cardinality({1}) + 1
        BY <3>1, FS_AddElement, Zenon
      <4> QED
        BY <4>1, <4>2
    <3>3. {1} \cup {2} = {1, 2}
      OBVIOUS
    <3> QED
      BY <3>1, <3>2, <3>3
  <2>3. ParseHops(spec) = <<Max({Min({a, b}), 1}), Max({a, b, 1})>>
    BY <2>1, <2>2 DEF ParseHops
  <2>4. {spec[i] : i \in DOMAIN spec} = {a, b}
    BY <2>1
  <2>5. Lengths(spec) = {n \in 1 .. HopLimit : n >= Min({a, b}) /\ n <= Max({Max({a, b}), 1})}
    BY <2>1, <2>4 DEF Lengths
  <2> QED
    BY <2>1, <2>3, <2>5, HopsOf
<1>4. CASE spec \in {<<n>> : n \in 0 .. HopLimit + 1}
  BY <1>2, <1>4
<1>5. CASE spec \in (0 .. HopLimit + 1) \X (0 .. HopLimit + 1)
  <2>1. PICK a \in 0 .. HopLimit + 1, b \in 0 .. HopLimit + 1 : spec = <<a, b>>
    BY <1>5
  <2> QED
    BY <1>3, <2>1
<1> QED
  BY <1>1, <1>4, <1>5 DEF Specs

\* A walk of d edges from a to b, none of the lengths lo to d - 1.
Joins(E, a, b, lo, hi, d) ==
    /\ a # b /\ d \in lo .. hi /\ Walk(E, a, b, d)
    /\ \A j \in lo .. d - 1 : ~Walk(E, a, b, j)

\* The rows of a plan, found from its start end.
LEMMA RunBFSIs ==
    ASSUME Cached, NEW spec \in Specs, NEW k, NEW la, NEW lb, NEW inverted \in BOOLEAN, NEW t
    PROVE  t \in RunBFS(la, lb, k, spec, inverted) <=>
               \E a \in symbols : \E b \in symbols : \E d :
                   /\ t = <<a, b, d>>
                   /\ Joins(Of(edges, k), a, b, ParseHops(spec)[1], Min({ParseHops(spec)[2], HopLimit}), d)
                   /\ (IF inverted THEN b ELSE a) \in StartNodes(IF inverted THEN lb ELSE la)
<1> DEFINE E == Of(edges, k)
           F == IF inverted THEN Reversed(E) ELSE E
           lo == ParseHops(spec)[1]
           hi == Min({ParseHops(spec)[2], HopLimit})
           start == StartNodes(IF inverted THEN lb ELSE la)
           row(s, h) == IF inverted THEN <<h[1], s, h[2]>> ELSE <<s, h[1], h[2]>>
<1>1. lo \in Nat /\ hi \in Nat
  BY HopsAreLengths
<1>2. E \in SUBSET Edge /\ Reversed(E) \in SUBSET Edge /\ F \in SUBSET Edge
  BY ReversedEdges DEF Of, Cached
<1>3. start \subseteq symbols /\ symbols \subseteq Nodes
  BY DEF StartNodes, Cached
<1>4. t \in RunBFS(la, lb, k, spec, inverted) <=>
          \E s \in start : \E h \in BfsViaCTE(s, k, lo, hi, inverted) : t = row(s, h)
  <2> DEFINE walk(s) == BfsViaCTE(s, k, lo, hi, inverted)
  <2>1. RunBFS(la, lb, k, spec, inverted) = UNION {{row(s, h) : h \in walk(s)} : s \in start}
    BY DEF RunBFS
  <2> HIDE DEF walk, row, start
  <2> DEFINE rows(s) == {row(s, h) : h \in walk(s)}
  <2>2. \A s : t \in rows(s) <=> \E h \in walk(s) : t = row(s, h)
    BY Zenon
  <2>3. RunBFS(la, lb, k, spec, inverted) = UNION {rows(s) : s \in start}
    BY <2>1
  <2> HIDE DEF rows
  <2>4. t \in UNION {rows(s) : s \in start} <=> \E s \in start : t \in rows(s)
    BY Zenon
  <2> QED
    BY <2>2, <2>3, <2>4, Zenon DEF walk
<1>5. \A s : BfsViaCTE(s, k, lo, hi, inverted) = {h \in MinDepth(F, s, lo, hi) : h[1] \in symbols}
  BY Zenon DEF BfsViaCTE, Hops
<1> HIDE DEF lo, hi, start
<1>6. \A s, h : h \in MinDepth(F, s, lo, hi) => h = <<h[1], h[2]>>
  <2> TAKE s, h
  <2>1. h \in MinDepth(F, s, lo, hi) => \E x, y : h = <<x, y>>
    BY Zenon DEF MinDepth
  <2> QED
    BY <2>1
<1> HIDE DEF F
<1>7. ASSUME NEW s \in start, NEW x, NEW d
      PROVE  <<x, d>> \in MinDepth(F, s, lo, hi) <=> Joins(F, s, x, lo, hi, d)
  BY <1>1, <1>2, <1>3, MinDepthIs DEF Joins
<1>8. ASSUME NEW s, NEW x, NEW d PROVE Joins(Reversed(E), s, x, lo, hi, d) <=> Joins(E, x, s, lo, hi, d)
  <2> HIDE DEF E
  <2>1. d \in lo .. hi => d \in Nat /\ \A j \in lo .. d - 1 : j \in Nat
    BY <1>1
  <2> QED
    BY <1>2, <2>1, WalkReversed DEF Joins
<1>9. t \in RunBFS(la, lb, k, spec, inverted) <=>
          \E s \in start : \E x \in symbols : \E d : t = row(s, <<x, d>>) /\ Joins(F, s, x, lo, hi, d)
  <2> HIDE DEF row
  <2>1. ASSUME NEW s \in start, NEW h \in BfsViaCTE(s, k, lo, hi, inverted), t = row(s, h)
        PROVE  \E z \in start : \E x \in symbols : \E d : t = row(z, <<x, d>>) /\ Joins(F, z, x, lo, hi, d)
    <3>1. h[1] \in symbols /\ h \in MinDepth(F, s, lo, hi) /\ h = <<h[1], h[2]>>
      BY <1>5, <1>6
    <3>2. Joins(F, s, h[1], lo, hi, h[2])
      BY <1>7, <3>1, Zenon
    <3>3. t = row(s, <<h[1], h[2]>>)
      BY <2>1, <3>1, Zenon
    <3> QED
      BY <3>1, <3>2, <3>3, Zenon
  <2>2. ASSUME NEW s \in start, NEW x \in symbols, NEW d, t = row(s, <<x, d>>), Joins(F, s, x, lo, hi, d)
        PROVE  \E z \in start : \E h \in BfsViaCTE(z, k, lo, hi, inverted) : t = row(z, h)
    <3>1. <<x, d>> \in MinDepth(F, s, lo, hi)
      BY <1>7, <2>2
    <3>2. <<x, d>> \in BfsViaCTE(s, k, lo, hi, inverted)
      BY <1>5, <3>1
    <3> QED
      BY <2>2, <3>2, Zenon
  <2> QED
    BY <1>4, <2>1, <2>2, Zenon
<1>10. CASE inverted
  <2>1. \A s, x, d : row(s, <<x, d>>) = <<x, s, d>>
    BY <1>10
  <2>2. \A s, x, d : Joins(F, s, x, lo, hi, d) <=> Joins(E, x, s, lo, hi, d)
    BY <1>8, <1>10 DEF F
  <2> HIDE DEF row, E
  <2>3. t \in RunBFS(la, lb, k, spec, inverted) <=>
            \E s \in start : \E x \in symbols : \E d : t = <<x, s, d>> /\ Joins(E, x, s, lo, hi, d)
    BY <1>9, <2>1, <2>2, Zenon
  <2>4. t \in RunBFS(la, lb, k, spec, inverted) <=>
            \E x \in symbols : \E s \in symbols : \E d : t = <<x, s, d>> /\ Joins(E, x, s, lo, hi, d) /\ s \in start
    BY <1>3, <2>3, Zenon
  <2> QED
    BY <1>10, <2>4, Zenon DEF E, lo, hi, start
<1>11. CASE ~inverted
  <2>1. \A s, x, d : row(s, <<x, d>>) = <<s, x, d>>
    BY <1>11
  <2>2. F = E
    BY <1>11 DEF F
  <2> HIDE DEF row, E
  <2> QED
    BY <1>3, <1>9, <1>11, <2>1, <2>2, Zenon DEF E, lo, hi, start
<1> QED
  BY <1>10, <1>11

\* The pairs a walk of a length asked for connects, with the least length.
LEMMA AnswerIs ==
    ASSUME Cached, NEW spec \in Specs, NEW k, NEW a \in symbols, NEW b \in symbols, NEW d
    PROVE  LET joined == {n \in Lengths(spec) : b \in Reach(Of(edges, k), a, n)[n]}
           IN  a # b /\ joined # {} /\ d = Min(joined) <=>
                   Joins(Of(edges, k), a, b, ParseHops(spec)[1], Min({ParseHops(spec)[2], HopLimit}), d)
<1> DEFINE E == Of(edges, k)
           lo == ParseHops(spec)[1]
           hi == Min({ParseHops(spec)[2], HopLimit})
           joined == {n \in Lengths(spec) : b \in Reach(E, a, n)[n]}
<1>1. lo \in Nat \ {0} /\ hi \in Nat /\ Lengths(spec) = lo .. hi
  BY HopsAreLengths
<1>2. E \in SUBSET Edge /\ a \in Nodes /\ b \in Nodes
  BY DEF Of, Cached
<1> HIDE DEF E, lo, hi
<1>3. ASSUME NEW n \in Nat PROVE b \in Reach(E, a, n)[n] <=> Walk(E, a, b, n)
  <2>1. Reach(E, a, n)[n] = WalksTo(E, a, n)
    BY <1>2, ReachIsWalks
  <2> QED
    BY <1>2, <2>1 DEF WalksTo
<1>4. \A n : n \in joined <=> n \in lo .. hi /\ Walk(E, a, b, n)
  BY <1>1, <1>3
<1>5. joined \in SUBSET Nat
  BY <1>1
<1> HIDE DEF joined
<1>6. ASSUME a # b, joined # {}, d = Min(joined) PROVE Joins(E, a, b, lo, hi, d)
  <2>1. d \in joined /\ \A n \in joined : d <= n
    BY <1>5, <1>6, MinOf
  <2>2. ASSUME NEW j \in lo .. d - 1, Walk(E, a, b, j) PROVE FALSE
    <3>1. d \in lo .. hi
      BY <1>4, <2>1
    <3>2. j \in lo .. hi /\ ~(d <= j)
      BY <1>1, <3>1
    <3> QED
      BY <1>4, <2>1, <2>2, <3>2
  <2> QED
    BY <1>4, <1>6, <2>1, <2>2 DEF Joins
<1>7. ASSUME Joins(E, a, b, lo, hi, d) PROVE a # b /\ joined # {} /\ d = Min(joined)
  <2>1. d \in joined
    BY <1>4, <1>7 DEF Joins
  <2>2. ASSUME NEW n \in joined PROVE d <= n
    <3>1. d \in lo .. hi /\ n \in lo .. hi /\ ~(n \in lo .. d - 1)
      BY <1>4, <1>7 DEF Joins
    <3> QED
      BY <1>1, <3>1
  <2>3. Min(joined) = d
    BY <1>5, <2>1, <2>2, MinIs
  <2> QED
    BY <1>7, <2>1, <2>3 DEF Joins
<1> QED
  BY <1>6, <1>7 DEF E, lo, hi, joined

\* The plan from either end answers every pattern as it is written.
LEMMA CachedIsPatterns == Cached => PatternExact
<1> SUFFICES ASSUME Cached, NEW spec \in Specs, NEW k \in (SUBSET Kinds) \ {{}},
                    NEW l \in {{}} \cup {{x} : x \in Labels}
             PROVE  LET joined(a, b) == {n \in Lengths(spec) : b \in Reach(Of(edges, k), a, n)[n]}
                        pairs  == {p \in symbols \X symbols : p[1] # p[2] /\ joined(p[1], p[2]) # {}}
                        answer == {<<p[1], p[2], Min(joined(p[1], p[2]))>> : p \in pairs}
                    IN  /\ RunBFS(l, {}, k, spec, FALSE) = {p \in answer : l = {} \/ Label[p[1]] \in l}
                        /\ RunBFS({}, l, k, spec, TRUE) = {p \in answer : l = {} \/ Label[p[2]] \in l}
  BY Zenon DEF PatternExact
<1> DEFINE joined(a, b) == {n \in Lengths(spec) : b \in Reach(Of(edges, k), a, n)[n]}
           pairs  == {p \in symbols \X symbols : p[1] # p[2] /\ joined(p[1], p[2]) # {}}
           answer == {<<p[1], p[2], Min(joined(p[1], p[2]))>> : p \in pairs}
           joins(a, b, d) == Joins(Of(edges, k), a, b, ParseHops(spec)[1], Min({ParseHops(spec)[2], HopLimit}), d)
<1>1. \A a, b \in symbols : \A d : a # b /\ joined(a, b) # {} /\ d = Min(joined(a, b)) <=> joins(a, b, d)
  BY AnswerIs
<1>2. \A t : t \in RunBFS(l, {}, k, spec, FALSE) <=>
          \E a \in symbols : \E b \in symbols : \E d : t = <<a, b, d>> /\ joins(a, b, d) /\ a \in StartNodes(l)
  <2> TAKE t
  <2>1. t \in RunBFS(l, {}, k, spec, FALSE) <=>
            \E a \in symbols : \E b \in symbols : \E d :
                /\ t = <<a, b, d>> /\ joins(a, b, d)
                /\ (IF FALSE THEN b ELSE a) \in StartNodes(IF FALSE THEN {} ELSE l)
    <3>1. ASSUME NEW inv \in BOOLEAN
          PROVE  t \in RunBFS(l, {}, k, spec, inv) <=>
                     \E a \in symbols : \E b \in symbols : \E d :
                         /\ t = <<a, b, d>> /\ joins(a, b, d)
                         /\ (IF inv THEN b ELSE a) \in StartNodes(IF inv THEN {} ELSE l)
      BY RunBFSIs
    <3>2. FALSE \in BOOLEAN
      OBVIOUS
    <3> QED
      BY <3>1, <3>2, Zenon
  <2>2. StartNodes(IF FALSE THEN {} ELSE l) = StartNodes(l) /\ \A a, b : (IF FALSE THEN b ELSE a) = a
    BY Zenon
  <2> HIDE DEF joins
  <2> QED
    BY <2>1, <2>2, Zenon
<1>3. \A t : t \in RunBFS({}, l, k, spec, TRUE) <=>
          \E a \in symbols : \E b \in symbols : \E d : t = <<a, b, d>> /\ joins(a, b, d) /\ b \in StartNodes(l)
  <2> TAKE t
  <2>1. t \in RunBFS({}, l, k, spec, TRUE) <=>
            \E a \in symbols : \E b \in symbols : \E d :
                /\ t = <<a, b, d>> /\ joins(a, b, d)
                /\ (IF TRUE THEN b ELSE a) \in StartNodes(IF TRUE THEN l ELSE {})
    <3>1. ASSUME NEW inv \in BOOLEAN
          PROVE  t \in RunBFS({}, l, k, spec, inv) <=>
                     \E a \in symbols : \E b \in symbols : \E d :
                         /\ t = <<a, b, d>> /\ joins(a, b, d)
                         /\ (IF inv THEN b ELSE a) \in StartNodes(IF inv THEN l ELSE {})
      BY RunBFSIs
    <3>2. TRUE \in BOOLEAN
      OBVIOUS
    <3> QED
      BY <3>1, <3>2, Zenon
  <2>2. StartNodes(IF TRUE THEN l ELSE {}) = StartNodes(l) /\ \A a, b : (IF TRUE THEN b ELSE a) = b
    BY Zenon
  <2> HIDE DEF joins
  <2> QED
    BY <2>1, <2>2, Zenon
<1> HIDE DEF joined, joins
<1>4. ASSUME NEW t
      PROVE  t \in answer <=> \E a \in symbols : \E b \in symbols : \E d : t = <<a, b, d>> /\ joins(a, b, d)
  <2>1. ASSUME NEW p \in pairs, t = <<p[1], p[2], Min(joined(p[1], p[2]))>>
        PROVE  \E a \in symbols : \E b \in symbols : \E d : t = <<a, b, d>> /\ joins(a, b, d)
    <3>1. p[1] \in symbols /\ p[2] \in symbols /\ p[1] # p[2] /\ joined(p[1], p[2]) # {}
      OBVIOUS
    <3>2. joins(p[1], p[2], Min(joined(p[1], p[2])))
      BY <1>1, <3>1
    <3> QED
      BY <2>1, <3>1, <3>2
  <2>2. ASSUME NEW a \in symbols, NEW b \in symbols, NEW d, t = <<a, b, d>>, joins(a, b, d)
        PROVE  \E p \in pairs : t = <<p[1], p[2], Min(joined(p[1], p[2]))>>
    <3>1. a # b /\ joined(a, b) # {} /\ d = Min(joined(a, b))
      BY <1>1, <2>2
    <3>2. <<a, b>> \in pairs
      BY <3>1
    <3>3. t = <<<<a, b>>[1], <<a, b>>[2], Min(joined(<<a, b>>[1], <<a, b>>[2]))>>
      BY <2>2, <3>1
    <3> HIDE DEF pairs
    <3> QED
      BY <3>2, <3>3
  <2>3. t \in answer <=> \E p \in pairs : t = <<p[1], p[2], Min(joined(p[1], p[2]))>>
    <3> HIDE DEF pairs
    <3> QED
      BY Zenon
  <2> QED
    BY <2>1, <2>2, <2>3, Zenon
<1> HIDE DEF answer
<1>5. \A s \in symbols : s \in StartNodes(l) <=> l = {} \/ Label[s] \in l
  BY DEF StartNodes
<1>6. RunBFS(l, {}, k, spec, FALSE) = {p \in answer : l = {} \/ Label[p[1]] \in l}
  <2>1. ASSUME NEW t PROVE t \in RunBFS(l, {}, k, spec, FALSE) <=> t \in answer /\ (l = {} \/ Label[t[1]] \in l)
    <3>1. ASSUME NEW a \in symbols, NEW b \in symbols, NEW d, t = <<a, b, d>>, joins(a, b, d)
          PROVE  a \in StartNodes(l) <=> l = {} \/ Label[t[1]] \in l
      <4>1. t[1] = a
        BY <3>1
      <4> QED
        BY <1>5, <4>1, Zenon
    <3> QED
      BY <1>2, <1>4, <3>1, Zenon
  <2> QED
    BY <2>1
<1>7. RunBFS({}, l, k, spec, TRUE) = {p \in answer : l = {} \/ Label[p[2]] \in l}
  <2>1. ASSUME NEW t PROVE t \in RunBFS({}, l, k, spec, TRUE) <=> t \in answer /\ (l = {} \/ Label[t[2]] \in l)
    <3>1. ASSUME NEW a \in symbols, NEW b \in symbols, NEW d, t = <<a, b, d>>, joins(a, b, d)
          PROVE  b \in StartNodes(l) <=> l = {} \/ Label[t[2]] \in l
      <4>1. t[2] = b
        BY <3>1
      <4> QED
        BY <1>5, <4>1, Zenon
    <3> QED
      BY <1>3, <1>4, <3>1, Zenon
  <2> QED
    BY <2>1
<1> QED
  BY <1>6, <1>7 DEF answer, joined

\* For every graph, behind its closure table or not: a variable-length
\* pattern answers the pairs that a walk of a length it asks for connects,
\* with the least length, whichever end the plan starts from.
THEOREM PatternsAreExact == Spec => []PatternExact
  BY CachedIsPatterns, AlwaysCached, PTL
=============================================================================
