------------------------- MODULE PolicyBlockProofs -------------------------
(* For every text: where init puts its block, what it leaves alone, and    *)
(* that a second run only replaces the block.                              *)
EXTENDS PolicyBlock, FiniteSetTheorems, SequenceTheorems, WellFoundedInduction, TLAPS

---------------------------------------------------------------------------
(* Positions *)

\* A nonempty set of positions has a first one.
LEMMA MinOf ==
    ASSUME NEW S \in SUBSET Nat, S # {}
    PROVE  Min(S) \in S /\ \A k \in S : Min(S) <= k
<1> DEFINE R == OpToRel(<, Nat)
<1>1. IsWellFoundedOn(R, Nat)
  BY NatLessThanWellFounded
<1> HIDE DEF R
<1>2. PICK m \in S : \A k \in S : ~ (<<k, m>> \in R)
  BY <1>1, WFMin
<1>3. ASSUME NEW k \in S PROVE m <= k
  <2>1. ~ (k < m)
    BY <1>2, <1>3 DEF R, OpToRel
  <2> QED
    BY <2>1
<1> QED
  BY <1>3 DEF Min

\* strings.Index finds the first paragraph of a text, if there is one.
LEMMA IndexIs ==
    ASSUME NEW doc \in Seq(Para), NEW t
    PROVE  /\ Index(doc, t) \in 0 .. Len(doc)
           /\ Index(doc, t) > 0 => doc[Index(doc, t)].t = t
           /\ \A i \in 1 .. Len(doc) : doc[i].t = t => Index(doc, t) > 0 /\ Index(doc, t) <= i
<1> DEFINE S == {i \in DOMAIN doc : doc[i].t = t}
<1>1. DOMAIN doc = 1 .. Len(doc) /\ Len(doc) \in Nat /\ S \in SUBSET Nat
  OBVIOUS
<1>2. Index(doc, t) = IF S # {} THEN Min(S) ELSE 0
  BY DEF Index
<1>3. S # {} => Min(S) \in S /\ \A k \in S : Min(S) <= k
  BY <1>1, MinOf
<1>4. \A i : i \in S <=> i \in 1 .. Len(doc) /\ doc[i].t = t
  BY <1>1
<1> HIDE DEF S
<1>5. CASE S = {}
  BY <1>1, <1>2, <1>4, <1>5
<1>6. CASE S # {}
  <2>1. Index(doc, t) \in S /\ \A k \in S : Index(doc, t) <= k
    BY <1>2, <1>3, <1>6
  <2> QED
    BY <1>1, <1>4, <2>1
<1> QED
  BY <1>5, <1>6

\* s is the one start marker of a text and e, behind it, the one end marker.
Marks(doc, s, e) ==
    /\ s \in 1 .. Len(doc) /\ e \in 1 .. Len(doc) /\ s < e
    /\ \A i \in 1 .. Len(doc) : (doc[i].t = "start" <=> i = s) /\ (doc[i].t = "end" <=> i = e)

Unmarked(doc) == \A i \in 1 .. Len(doc) : doc[i].t # "start" /\ doc[i].t # "end"

LEMMA MarksFound ==
    ASSUME NEW doc \in Seq(Para), NEW s, NEW e, Marks(doc, s, e)
    PROVE  /\ Index(doc, "start") = s /\ Index(doc, "end") = e /\ HasMarkers(doc)
           /\ Sane(doc) /\ doc # <<>>
<1>1. Index(doc, "start") = s /\ Index(doc, "end") = e
  BY IndexIs DEF Marks
<1>2. HasMarkers(doc)
  BY <1>1 DEF HasMarkers, Marks
<1>3. {i \in DOMAIN doc : doc[i].t = "start"} = {s} /\ {i \in DOMAIN doc : doc[i].t = "end"} = {e}
  BY DEF Marks
<1>4. Count(doc, "start") = 1 /\ Count(doc, "end") = 1
  BY <1>3, FS_Singleton DEF Count
<1> QED
  BY <1>1, <1>2, <1>4 DEF Sane, Marks

LEMMA NoneFound ==
    ASSUME NEW doc \in Seq(Para), Unmarked(doc)
    PROVE  ~HasMarkers(doc)
  BY IndexIs DEF HasMarkers, Unmarked

\* A text is sane when it has no markers or one pair.
LEMMA SaneIs ==
    ASSUME NEW doc \in Seq(Para), Sane(doc)
    PROVE  Unmarked(doc) \/ Marks(doc, Index(doc, "start"), Index(doc, "end"))
<1> DEFINE At(t) == {i \in DOMAIN doc : doc[i].t = t}
<1>1. DOMAIN doc = 1 .. Len(doc) /\ Len(doc) \in Nat
  OBVIOUS
<1>2. \A t : IsFiniteSet(At(t))
  <2> TAKE t
  <2>1. IsFiniteSet(1 .. Len(doc))
    BY <1>1, FS_Interval
  <2>2. At(t) \in SUBSET (1 .. Len(doc))
    BY <1>1
  <2> QED
    BY <2>1, <2>2, FS_Subset
<1>3. CASE Count(doc, "start") = 0 /\ Count(doc, "end") = 0
  <2>1. At("start") = {} /\ At("end") = {}
    BY <1>2, <1>3, FS_EmptySet DEF Count
  <2> QED
    BY <1>1, <2>1 DEF Unmarked
<1>4. CASE Count(doc, "start") = 1 /\ Count(doc, "end") = 1 /\ HasMarkers(doc)
  <2>1. PICK a, b : At("start") = {a} /\ At("end") = {b}
    <3>1. Cardinality(At("start")) = 1 /\ Cardinality(At("end")) = 1
      BY <1>4 DEF Count
    <3> HIDE DEF At
    <3>2. (\E x : At("start") = {x}) /\ (\E x : At("end") = {x})
      BY <1>2, <3>1, FS_Singleton, Zenon
    <3> QED
      BY <3>2, Zenon
  <2>2. \A i \in 1 .. Len(doc) : (doc[i].t = "start" <=> i = a) /\ (doc[i].t = "end" <=> i = b)
    BY <1>1, <2>1
  <2>3. Index(doc, "start") = a /\ Index(doc, "end") = b
    BY <2>2, <1>4, IndexIs DEF HasMarkers
  <2> QED
    BY <1>1, <1>4, <2>2, <2>3, IndexIs DEF Marks, HasMarkers
<1> QED
  BY <1>3, <1>4 DEF Sane

---------------------------------------------------------------------------
(* The block in a text *)

\* out is doc with a block of the texts b in the place of the paragraphs s to e,
\* up to line endings.
Put(doc, s, e, b, out) ==
    /\ s \in 1 .. Len(doc) + 1 /\ e \in s - 1 .. Len(doc) /\ Len(b) \in Nat
    /\ out \in Seq(Para) /\ Len(out) = Len(doc) - e + s - 1 + Len(b)
    /\ \A i \in 1 .. s - 1 : out[i].t = doc[i].t
    /\ \A k \in 1 .. Len(b) : out[s - 1 + k].t = b[k]
    /\ \A i \in s + Len(b) .. Len(out) : out[i].t = doc[i - (s - 1 + Len(b)) + e].t

\* One part behind the other.
LEMMA Joined ==
    ASSUME NEW a \in Seq(Para), NEW b \in Seq(Para)
    PROVE  /\ a \o b \in Seq(Para) /\ Len(a \o b) = Len(a) + Len(b)
           /\ \A i \in 1 .. Len(a) : (a \o b)[i] = a[i]
           /\ \A i \in Len(a) + 1 .. Len(a) + Len(b) : (a \o b)[i] = b[i - Len(a)]
<1>1. /\ a \o b \in Seq(Para) /\ Len(a \o b) = Len(a) + Len(b)
      /\ \A i \in 1 .. Len(a) + Len(b) : (a \o b)[i] = IF i <= Len(a) THEN a[i] ELSE b[i - Len(a)]
  BY ConcatProperties, Zenon
<1> DEFINE c == a \o b
<1>2. /\ c \in Seq(Para) /\ Len(c) = Len(a) + Len(b) /\ Len(a) \in Nat /\ Len(b) \in Nat
      /\ \A i \in 1 .. Len(a) + Len(b) : c[i] = IF i <= Len(a) THEN a[i] ELSE b[i - Len(a)]
  BY <1>1
<1> HIDE DEF c
<1>3. (\A i \in 1 .. Len(a) : c[i] = a[i]) /\ \A i \in Len(a) + 1 .. Len(a) + Len(b) : c[i] = b[i - Len(a)]
  BY <1>2
<1> QED
  BY <1>2, <1>3 DEF c

\* A block starts and ends with its markers and has none in between.
LEMMA BlockIs ==
    ASSUME NEW p \in Payload
    PROVE  /\ Block(p) \in Seq(Policy \cup {"start", "preface", "end"})
           /\ Len(Block(p)) \in Nat /\ Len(Block(p)) >= 2
           /\ Block(p)[1] = "start" /\ Block(p)[Len(Block(p))] = "end"
           /\ \A k \in 2 .. Len(Block(p)) - 1 : Block(p)[k] # "start" /\ Block(p)[k] # "end"
           /\ BuildPolicyBlock(p) \in Seq(Para) /\ Len(BuildPolicyBlock(p)) = Len(Block(p))
           /\ \A k \in 1 .. Len(Block(p)) : /\ BuildPolicyBlock(p)[k].t = Block(p)[k]
                                            /\ ~BuildPolicyBlock(p)[k].crlf
<1> DEFINE T == Policy \cup {"start", "preface", "end"}
           b == Block(p)
<1>1. p \in Seq(T) /\ Len(p) \in Nat /\ \A k \in 1 .. Len(p) : p[k] # "start" /\ p[k] # "end"
  <2>1. CASE p = Plain
    <3>1. <<"usage">> \in Seq(T) /\ Len(<<"usage">>) = 1 /\ <<"usage">>[1] = "usage"
      BY DEF Policy
    <3> QED
      BY <2>1, <3>1 DEF Plain
  <2>2. CASE p = WithRouter
    <3> DEFINE q == <<"usage", "routing">>
    <3>1. q \in Seq(T) /\ Len(q) = 2 /\ q[1] = "usage" /\ q[2] = "routing"
      BY DEF Policy
    <3>2. p = q
      BY <2>2 DEF WithRouter
    <3> HIDE DEF q, T
    <3> QED
      BY <3>1, <3>2
  <2> QED
    BY <2>1, <2>2 DEF Payload
<1>2. /\ b \in Seq(T) /\ Len(b) = Len(p) + 3
      /\ \A k \in 1 .. Len(b) : b[k] = IF k = 1 THEN "start" ELSE IF k = 2 THEN "preface"
                                       ELSE IF k <= Len(p) + 2 THEN p[k - 2] ELSE "end"
  <2> DEFINE x == <<"start", "preface">>
             y == <<"end">>
             z == x \o p
  <2>1. x \in Seq(T) /\ Len(x) = 2 /\ x[1] = "start" /\ x[2] = "preface"
    OBVIOUS
  <2>2. y \in Seq(T) /\ Len(y) = 1 /\ y[1] = "end"
    OBVIOUS
  <2>3. b = z \o y
    BY Zenon DEF Block
  <2> HIDE DEF x, y, b, T
  <2>4. /\ z \in Seq(T) /\ Len(z) = Len(x) + Len(p)
        /\ \A k \in 1 .. Len(x) + Len(p) : z[k] = IF k <= Len(x) THEN x[k] ELSE p[k - Len(x)]
    BY <1>1, <2>1, ConcatProperties, Zenon
  <2> HIDE DEF z
  <2>5. /\ b \in Seq(T) /\ Len(b) = Len(z) + Len(y)
        /\ \A k \in 1 .. Len(z) + Len(y) : b[k] = IF k <= Len(z) THEN z[k] ELSE y[k - Len(z)]
    <3>1. /\ z \o y \in Seq(T) /\ Len(z \o y) = Len(z) + Len(y)
          /\ \A k \in 1 .. Len(z) + Len(y) : (z \o y)[k] = IF k <= Len(z) THEN z[k] ELSE y[k - Len(z)]
      <4>1. y \in Seq(T) /\ z \in Seq(T)
        BY <2>2, <2>4, Zenon
      <4> QED
        BY <4>1, ConcatProperties, Zenon
    <3> QED
      BY <2>3, <3>1, Zenon
  <2>6. \A k \in 1 .. Len(p) + 2 : z[k] = IF k = 1 THEN "start" ELSE IF k = 2 THEN "preface" ELSE p[k - 2]
    BY <1>1, <2>1, <2>4
  <2> QED
    BY <1>1, <2>1, <2>2, <2>4, <2>5, <2>6
<1>3. \A x \in T : [t |-> x, crlf |-> FALSE] \in Para
  BY DEF Para
<1>4. BuildPolicyBlock(p) = [k \in 1 .. Len(b) |-> [t |-> b[k], crlf |-> FALSE]]
  BY <1>2 DEF BuildPolicyBlock, Lines
<1> HIDE DEF b
<1>5. \A k \in 1 .. Len(b) : b[k] \in T
  BY <1>2
<1> HIDE DEF T
<1> DEFINE M == [k \in 1 .. Len(b) |-> [t |-> b[k], crlf |-> FALSE]]
<1>6. M \in Seq(Para) /\ Len(M) = Len(b)
  BY <1>1, <1>2, <1>3, <1>5
<1>7. \A k \in 1 .. Len(b) : M[k].t = b[k] /\ ~M[k].crlf
  OBVIOUS
<1>8. Len(b) \in Nat /\ Len(b) >= 2 /\ b[1] = "start" /\ b[Len(b)] = "end"
  BY <1>1, <1>2
<1>9. \A k \in 2 .. Len(b) - 1 : b[k] # "start" /\ b[k] # "end"
  BY <1>1, <1>2
<1> QED
  BY <1>2, <1>4, <1>6, <1>7, <1>8, <1>9 DEF b, T

\* A block between two parts of a text.
LEMMA Spliced ==
    ASSUME NEW doc \in Seq(Para), NEW p \in Payload,
           NEW s \in 1 .. Len(doc) + 1, NEW e \in s - 1 .. Len(doc)
    PROVE  Put(doc, s, e, Block(p),
               SubSeq(doc, 1, s - 1) \o BuildPolicyBlock(p) \o SubSeq(doc, e + 1, Len(doc)))
<1> DEFINE A == SubSeq(doc, 1, s - 1)
           M == BuildPolicyBlock(p)
           B == SubSeq(doc, e + 1, Len(doc))
           X == A \o M
           Y == X \o B
           b == Block(p)
<1>1. A \in Seq(Para) /\ Len(A) = s - 1 /\ \A i \in 1 .. s - 1 : A[i] = doc[i]
  BY SubSeqProperties
<1>2. B \in Seq(Para) /\ Len(B) = Len(doc) - e /\ \A i \in 1 .. Len(doc) - e : B[i] = doc[e + i]
  BY SubSeqProperties
<1>3. M \in Seq(Para) /\ Len(M) = Len(b) /\ Len(b) \in Nat /\ \A k \in 1 .. Len(b) : M[k].t = b[k]
  BY BlockIs
<1> HIDE DEF A, M, B, b
<1> DEFINE m == s - 1
           n == s - 1 + Len(b)
           k == Len(doc) - e
<1>4. m \in Nat /\ n \in Nat /\ k \in Nat /\ Len(A) = m /\ Len(B) = k
  BY <1>1, <1>2, <1>3
<1>5. /\ X \in Seq(Para) /\ Len(X) = n
      /\ \A i \in 1 .. m : X[i] = A[i]
      /\ \A i \in m + 1 .. n : X[i] = M[i - m]
  <2>1. /\ X \in Seq(Para) /\ Len(X) = Len(A) + Len(M)
        /\ \A i \in 1 .. Len(A) : X[i] = A[i]
        /\ \A i \in Len(A) + 1 .. Len(A) + Len(M) : X[i] = M[i - Len(A)]
    BY <1>1, <1>3, Joined, Zenon
  <2> HIDE DEF X
  <2> QED
    BY <1>1, <1>3, <2>1
<1> HIDE DEF X
<1>6. /\ Y \in Seq(Para) /\ Len(Y) = n + k
      /\ \A i \in 1 .. n : Y[i] = X[i]
      /\ \A i \in n + 1 .. n + k : Y[i] = B[i - n]
  <2>1. /\ Y \in Seq(Para) /\ Len(Y) = Len(X) + Len(B)
        /\ \A i \in 1 .. Len(X) : Y[i] = X[i]
        /\ \A i \in Len(X) + 1 .. Len(X) + Len(B) : Y[i] = B[i - Len(X)]
    BY <1>2, <1>5, Joined, Zenon
  <2> HIDE DEF Y, m, n, k
  <2>2. Len(X) = n /\ Len(B) = k
    BY <1>4, <1>5
  <2> QED
    BY <2>1, <2>2, ZenonT(40)
<1> HIDE DEF Y
<1>7. \A i \in 1 .. s - 1 : Y[i] = doc[i]
  <2>1. \A i \in 1 .. m : i \in 1 .. n
    BY <1>3
  <2> HIDE DEF n, k
  <2> QED
    BY <1>1, <1>5, <1>6, <2>1
<1>8. ASSUME NEW j \in 1 .. Len(b) PROVE Y[s - 1 + j].t = b[j]
  <2>1. s - 1 + j \in m + 1 .. n /\ s - 1 + j \in 1 .. n /\ (s - 1 + j) - m = j
    BY <1>3
  <2>2. Y[s - 1 + j] = M[j]
    BY <1>5, <1>6, <2>1
  <2> QED
    BY <1>3, <2>2
<1>9. ASSUME NEW i \in s + Len(b) .. Len(Y) PROVE Y[i] = doc[i - (s - 1 + Len(b)) + e]
  <2>1. i - n \in 1 .. Len(doc) - e /\ e + (i - n) = i - (s - 1 + Len(b)) + e /\ i \in n + 1 .. n + k
    BY <1>3, <1>6
  <2> QED
    BY <1>2, <1>6, <2>1
<1>10. Len(Y) = Len(doc) - e + s - 1 + Len(b)
  BY <1>3, <1>6
<1>11. Put(doc, s, e, b, Y)
  BY <1>3, <1>6, <1>7, <1>8, <1>9, <1>10 DEF Put
<1> QED
  BY <1>11 DEF Y, X, A, M, B, b

\* Replace puts the block in the place of the old one, or at the end.
LEMMA ReplaceMarked ==
    ASSUME NEW doc \in Seq(Para), NEW p \in Payload, NEW s, NEW e, Marks(doc, s, e)
    PROVE  Put(doc, s, e, Block(p), Replace(doc, p))
<1>1. HasMarkers(doc) /\ Index(doc, "start") = s /\ Index(doc, "end") = e
  BY MarksFound
<1>2. s \in 1 .. Len(doc) + 1 /\ e \in s - 1 .. Len(doc)
  BY DEF Marks
<1> QED
  BY <1>1, <1>2, Spliced DEF Replace

LEMMA ReplaceUnmarked ==
    ASSUME NEW doc \in Seq(Para), NEW p \in Payload, Unmarked(doc)
    PROVE  Put(doc, Len(doc) + 1, Len(doc), Block(p), Replace(doc, p))
<1> DEFINE M == BuildPolicyBlock(p)
           b == Block(p)
<1>1. Replace(doc, p) = doc \o M
  BY NoneFound DEF Replace
<1>2. M \in Seq(Para) /\ Len(M) = Len(b) /\ Len(b) \in Nat /\ \A k \in 1 .. Len(b) : M[k].t = b[k]
  BY BlockIs
<1> HIDE DEF M, b
<1> DEFINE Y == doc \o M
<1>3. /\ Y \in Seq(Para) /\ Len(Y) = Len(doc) + Len(b)
      /\ \A i \in 1 .. Len(doc) : Y[i] = doc[i]
      /\ \A i \in Len(doc) + 1 .. Len(doc) + Len(b) : Y[i] = M[i - Len(doc)]
  <2>1. /\ Y \in Seq(Para) /\ Len(Y) = Len(doc) + Len(M)
        /\ \A i \in 1 .. Len(doc) : Y[i] = doc[i]
        /\ \A i \in Len(doc) + 1 .. Len(doc) + Len(M) : Y[i] = M[i - Len(doc)]
    BY <1>2, Joined, Zenon
  <2> HIDE DEF Y
  <2> QED
    BY <1>2, <2>1, Zenon
<1> HIDE DEF Y
<1>4. ASSUME NEW k \in 1 .. Len(b) PROVE Y[(Len(doc) + 1) - 1 + k].t = b[k]
  <2>1. /\ (Len(doc) + 1) - 1 + k \in Len(doc) + 1 .. Len(doc) + Len(b)
        /\ ((Len(doc) + 1) - 1 + k) - Len(doc) = k
    BY <1>2
  <2>2. Y[(Len(doc) + 1) - 1 + k] = M[k]
    BY <1>3, <2>1
  <2> QED
    BY <1>2, <2>2
<1>5. Put(doc, Len(doc) + 1, Len(doc), b, Y)
  BY <1>2, <1>3, <1>4 DEF Put
<1> QED
  BY <1>1, <1>5 DEF Y, b

\* No marker is left of s or right of e.
Clear(doc, s, e) ==
    \A i \in 1 .. Len(doc) : i < s \/ i > e => doc[i].t # "start" /\ doc[i].t # "end"

\* Put in the place of all markers, the block's own are the only ones.
LEMMA PutMarks ==
    ASSUME NEW doc \in Seq(Para), NEW p \in Payload, NEW s, NEW e, NEW out,
           Put(doc, s, e, Block(p), out), Clear(doc, s, e)
    PROVE  Marks(out, s, s - 1 + Len(Block(p)))
<1> DEFINE b == Block(p)
           last == s - 1 + Len(b)
<1>1. /\ s \in 1 .. Len(doc) + 1 /\ e \in s - 1 .. Len(doc) /\ Len(doc) \in Nat
      /\ Len(out) = Len(doc) - e + s - 1 + Len(b)
  BY DEF Put
<1>2. /\ Len(b) \in Nat /\ Len(b) >= 2 /\ b[1] = "start" /\ b[Len(b)] = "end"
      /\ \A k \in 2 .. Len(b) - 1 : b[k] # "start" /\ b[k] # "end"
  BY BlockIs
<1>3. \A k \in 1 .. Len(b) : out[s - 1 + k].t = b[k]
  BY DEF Put
<1> HIDE DEF b
<1>4. s \in 1 .. Len(out) /\ last \in 1 .. Len(out) /\ s < last
  BY <1>1, <1>2
<1>5. ASSUME NEW i \in 1 .. Len(out)
      PROVE  (out[i].t = "start" <=> i = s) /\ (out[i].t = "end" <=> i = last)
  <2>1. CASE i < s
    <3>1. i \in 1 .. s - 1 /\ i \in 1 .. Len(doc) /\ i # s /\ i # last
      BY <1>1, <1>4, <2>1
    <3>2. out[i].t = doc[i].t /\ doc[i].t # "start" /\ doc[i].t # "end"
      BY <2>1, <3>1 DEF Put, Clear
    <3> QED
      BY <3>1, <3>2
  <2>2. CASE i \in s .. last
    <3> DEFINE k == i - s + 1
    <3>1. k \in 1 .. Len(b) /\ s - 1 + k = i /\ (i = s <=> k = 1) /\ (i = last <=> k = Len(b))
      BY <1>1, <1>2, <2>2
    <3> HIDE DEF k
    <3>2. out[i].t = b[k]
      BY <1>3, <3>1
    <3>3. (b[k] = "start" <=> k = 1) /\ (b[k] = "end" <=> k = Len(b))
      <4>1. k = 1 \/ k = Len(b) \/ k \in 2 .. Len(b) - 1
        BY <1>2, <3>1
      <4> QED
        BY <1>2, <4>1
    <3> QED
      BY <3>1, <3>2, <3>3
  <2>3. CASE i > last
    <3> DEFINE j == i - (s - 1 + Len(b)) + e
    <3>1. i \in s + Len(b) .. Len(out) /\ j \in 1 .. Len(doc) /\ j > e /\ i # s /\ i # last
      BY <1>1, <1>2, <2>3
    <3>2. out[i].t = doc[j].t
      BY <3>1 DEF Put, b
    <3> HIDE DEF j
    <3>3. doc[j].t # "start" /\ doc[j].t # "end"
      BY <3>1 DEF Clear
    <3> QED
      BY <3>1, <3>2, <3>3
  <2> QED
    BY <1>1, <1>2, <2>1, <2>2, <2>3
<1>6. Marks(out, s, last)
  <2> HIDE DEF last
  <2> QED
    BY <1>4, <1>5 DEF Marks
<1> QED
  BY <1>6 DEF b

LEMMA TextsEqual ==
    ASSUME NEW x \in Seq(Para), NEW y \in Seq(Para), Len(x) = Len(y),
           \A i \in 1 .. Len(x) : x[i].t = y[i].t
    PROVE  Texts(x) = Texts(y)
  BY DEF Texts

\* Place and block say what the text is.
LEMMA PutSame ==
    ASSUME NEW doc \in Seq(Para), NEW s, NEW e, NEW b, NEW x, NEW y,
           Put(doc, s, e, b, x), Put(doc, s, e, b, y)
    PROVE  Texts(x) = Texts(y)
<1>1. x \in Seq(Para) /\ y \in Seq(Para) /\ Len(x) = Len(y) /\ s \in Nat /\ Len(b) \in Nat
  BY DEF Put
<1>2. ASSUME NEW i \in 1 .. Len(x) PROVE x[i].t = y[i].t
  <2>1. CASE i \in s .. s - 1 + Len(b)
    <3>1. i - s + 1 \in 1 .. Len(b) /\ s - 1 + (i - s + 1) = i
      BY <1>1, <2>1
    <3>2. x[s - 1 + (i - s + 1)].t = b[i - s + 1] /\ y[s - 1 + (i - s + 1)].t = b[i - s + 1]
      BY <3>1 DEF Put
    <3> QED
      BY <3>1, <3>2
  <2>2. CASE i \in 1 .. s - 1 \/ i \in s + Len(b) .. Len(x)
    BY <1>1, <2>2 DEF Put
  <2> QED
    BY <1>1, <2>1, <2>2
<1> QED
  BY <1>1, <1>2, TextsEqual

\* The second block takes the place of the first.
LEMMA PutPut ==
    ASSUME NEW doc \in Seq(Para), NEW s, NEW e, NEW b, NEW c, NEW x, NEW y,
           Put(doc, s, e, b, x), Put(x, s, s - 1 + Len(b), c, y)
    PROVE  Put(doc, s, e, c, y)
<1>1. /\ s \in 1 .. Len(doc) + 1 /\ e \in s - 1 .. Len(doc) /\ Len(doc) \in Nat
      /\ Len(b) \in Nat /\ Len(c) \in Nat
      /\ Len(x) = Len(doc) - e + s - 1 + Len(b)
      /\ y \in Seq(Para) /\ Len(y) = Len(x) - (s - 1 + Len(b)) + s - 1 + Len(c)
  BY DEF Put
<1>2. Len(y) = Len(doc) - e + s - 1 + Len(c)
  BY <1>1
<1>3. ASSUME NEW i \in s + Len(c) .. Len(y) PROVE y[i].t = doc[i - (s - 1 + Len(c)) + e].t
  <2> DEFINE j == i - (s - 1 + Len(c)) + (s - 1 + Len(b))
  <2>1. j \in s + Len(b) .. Len(x) /\ j - (s - 1 + Len(b)) = i - (s - 1 + Len(c))
    <3> DEFINE m == s - 1 + Len(b)
               n == s - 1 + Len(c)
               k == Len(doc) - e
    <3>1. /\ m \in Nat /\ n \in Nat /\ k \in Nat /\ s + Len(b) = m + 1 /\ Len(x) = k + m
          /\ i \in n + 1 .. k + n
      <4>1. s \in Nat /\ e \in Nat /\ s >= 1 /\ e <= Len(doc) /\ Len(b) \in Nat /\ Len(c) \in Nat
        BY <1>1
      <4>2. m \in Nat /\ n \in Nat /\ k \in Nat
        BY <1>1, <4>1
      <4>3. s + Len(b) = m + 1 /\ s + Len(c) = n + 1
        BY <4>1
      <4>4. Len(x) = k + m /\ Len(y) = k + n
        BY <1>1, <1>2, <4>1
      <4> QED
        BY <4>2, <4>3, <4>4
    <3> HIDE DEF m, n, k
    <3>2. i - n + m \in m + 1 .. k + m /\ (i - n + m) - m = i - n
      BY <3>1
    <3>3. j = i - n + m
      BY Zenon DEF m, n
    <3>4. j \in s + Len(b) .. Len(x) /\ j - m = i - n
      <4> HIDE DEF j
      <4> QED
        BY <3>1, <3>2, <3>3
    <3> QED
      BY <3>4, Zenon DEF m, n
  <2>2. y[i].t = x[j].t
    BY <1>1 DEF Put
  <2> HIDE DEF j
  <2>3. x[j].t = doc[j - (s - 1 + Len(b)) + e].t
    BY <2>1 DEF Put
  <2> QED
    BY <2>1, <2>2, <2>3
<1>4. \A i \in 1 .. s - 1 : y[i].t = doc[i].t
  BY DEF Put
<1>5. \A k \in 1 .. Len(c) : y[s - 1 + k].t = c[k]
  BY DEF Put
<1> QED
  BY <1>1, <1>2, <1>3, <1>4, <1>5 DEF Put

\* Two texts that differ in their line endings only.
Alike(x, y) == x \in Seq(Para) /\ y \in Seq(Para) /\ Len(x) = Len(y) /\ \A i \in 1 .. Len(x) : x[i].t = y[i].t

LEMMA LinesAlike ==
    ASSUME NEW doc \in Seq(Para), NEW crlf \in BOOLEAN
    PROVE  /\ Alike(doc, LF(doc)) /\ Alike(doc, Restore(crlf, doc))
           /\ \A i \in 1 .. Len(doc) : Restore(crlf, doc)[i].crlf = crlf
<1>1. DOMAIN doc = 1 .. Len(doc) /\ Len(doc) \in Nat /\ \A i \in 1 .. Len(doc) : doc[i] \in Para
  OBVIOUS
<1>2. ASSUME NEW c \in BOOLEAN, NEW i \in 1 .. Len(doc)
      PROVE  /\ [doc[i] EXCEPT !.crlf = c] \in Para
             /\ [doc[i] EXCEPT !.crlf = c].t = doc[i].t /\ [doc[i] EXCEPT !.crlf = c].crlf = c
  BY <1>1 DEF Para
<1> DEFINE f(c) == [i \in 1 .. Len(doc) |-> [doc[i] EXCEPT !.crlf = c]]
<1>3. ASSUME NEW c \in BOOLEAN
      PROVE  Alike(doc, f(c)) /\ \A i \in 1 .. Len(doc) : f(c)[i].crlf = c
  <2>1. f(c) \in Seq(Para) /\ Len(f(c)) = Len(doc)
    BY <1>1, <1>2
  <2> QED
    BY <1>2, <2>1 DEF Alike
<1>4. LF(doc) = f(FALSE) /\ Restore(crlf, doc) = f(crlf)
  BY <1>1 DEF LF, Restore
<1> QED
  BY <1>3, <1>4, ZenonT(40)

LEMMA PutAlike ==
    ASSUME NEW doc, NEW text, NEW s, NEW e, NEW b, NEW x, NEW y,
           Alike(doc, text), Alike(x, y), Put(text, s, e, b, x)
    PROVE  Put(doc, s, e, b, y)
<1>1. /\ s \in 1 .. Len(text) + 1 /\ e \in s - 1 .. Len(text) /\ Len(text) \in Nat /\ Len(b) \in Nat
      /\ Len(doc) = Len(text) /\ Len(x) = Len(y) /\ y \in Seq(Para)
      /\ Len(x) = Len(text) - e + s - 1 + Len(b)
  BY DEF Put, Alike
<1>2. \A i \in 1 .. s - 1 : i \in 1 .. Len(x) /\ i \in 1 .. Len(text)
  BY <1>1
<1>3. \A i \in s + Len(b) .. Len(x) : i \in 1 .. Len(x) /\ i - (s - 1 + Len(b)) + e \in 1 .. Len(text)
  BY <1>1
<1>4. \A k \in 1 .. Len(b) : s - 1 + k \in 1 .. Len(x)
  BY <1>1
<1>5. \A i \in 1 .. s - 1 : y[i].t = doc[i].t
  BY <1>1, <1>2 DEF Put, Alike
<1>6. ASSUME NEW i \in s + Len(b) .. Len(y) PROVE y[i].t = doc[i - (s - 1 + Len(b)) + e].t
  <2>1. x[i].t = text[i - (s - 1 + Len(b)) + e].t /\ x[i].t = y[i].t
    BY <1>1, <1>3 DEF Put, Alike
  <2>2. text[i - (s - 1 + Len(b)) + e].t = doc[i - (s - 1 + Len(b)) + e].t
    BY <1>1, <1>3 DEF Alike
  <2> QED
    BY <2>1, <2>2
<1>7. \A k \in 1 .. Len(b) : y[s - 1 + k].t = b[k]
  BY <1>4 DEF Put, Alike
<1> QED
  BY <1>1, <1>5, <1>6, <1>7 DEF Put

---------------------------------------------------------------------------
(* What a merge does *)

\* The section starts at a heading and ends before the next one.
LEMMA SectionIs ==
    ASSUME NEW doc \in Seq(Para), HasSection(doc)
    PROVE  /\ Section(doc)[1] \in 1 .. Len(doc) /\ Section(doc)[2] \in Section(doc)[1] .. Len(doc)
<1> DEFINE S == {k \in DOMAIN doc : Mentions(doc[k])}
           i == Min(S)
           next == {k \in i + 1 .. Len(doc) : Heading(doc[k])}
           j == IF next = {} THEN Len(doc) ELSE Min(next) - 1
<1>1. S \in SUBSET (1 .. Len(doc)) /\ S # {} /\ Len(doc) \in Nat
  BY DEF HasSection
<1>2. i \in 1 .. Len(doc)
  <2>1. S \in SUBSET Nat
    BY <1>1
  <2> HIDE DEF S
  <2>2. i \in S
    BY <1>1, <2>1, MinOf
  <2> QED
    BY <1>1, <2>2
<1>3. Section(doc) = <<i, j>>
  BY Zenon DEF Section
<1> HIDE DEF i
<1>4. j \in i .. Len(doc)
  <2>1. next \in SUBSET (i + 1 .. Len(doc)) /\ next \in SUBSET Nat
    BY <1>1, <1>2
  <2> HIDE DEF next
  <2>2. next # {} => Min(next) \in i + 1 .. Len(doc)
    BY <2>1, MinOf
  <2> QED
    BY <1>1, <1>2, <2>2
<1> HIDE DEF j
<1> QED
  BY <1>2, <1>3, <1>4

\* A marker on a line of its own.
LEMMA LineIs ==
    ASSUME NEW t \in {"start", "end"}
    PROVE  Lines(<<t>>) \in Seq(Para) /\ Len(Lines(<<t>>)) = 1 /\ Lines(<<t>>)[1].t = t
<1> DEFINE x == [t |-> t, crlf |-> FALSE]
<1>1. x \in Para /\ x.t = t
  BY DEF Para
<1>2. Lines(<<t>>) = [i \in 1 .. 1 |-> x]
  <2>1. DOMAIN <<t>> = 1 .. 1 /\ \A i \in 1 .. 1 : <<t>>[i] = t
    OBVIOUS
  <2> QED
    BY <2>1, Zenon DEF Lines
<1> HIDE DEF x
<1>3. [i \in 1 .. 1 |-> x] \in Seq(Para) /\ Len([i \in 1 .. 1 |-> x]) = 1
  BY <1>1
<1>4. [i \in 1 .. 1 |-> x][1] = x
  OBVIOUS
<1> QED
  BY <1>1, <1>2, <1>3, <1>4, Zenon

\* A section without markers gets them, and its text stays between them.
LEMMA WrappedIs ==
    ASSUME NEW doc \in Seq(Para), HasSection(doc), Unmarked(doc),
           NEW s, NEW e, Section(doc) = <<s, e>>
    PROVE  /\ Wrapped(doc) \in Seq(Para) /\ Len(Wrapped(doc)) = Len(doc) + 2
           /\ Marks(Wrapped(doc), s, e + 2)
           /\ \A i \in 1 .. s - 1 : Wrapped(doc)[i] = doc[i]
           /\ \A i \in e + 3 .. Len(doc) + 2 : Wrapped(doc)[i] = doc[i - 2]
<1>1. s \in 1 .. Len(doc) /\ e \in s .. Len(doc) /\ Len(doc) \in Nat
  BY SectionIs
<1> DEFINE A == SubSeq(doc, 1, s - 1)
           xx == Lines(<<"start">>)
           yy == Lines(<<"end">>)
           x == xx[1]
           y == yy[1]
           C == SubSeq(doc, s, e)
           B == SubSeq(doc, e + 1, Len(doc))
           X == A \o xx
           Y == X \o C
           Z == Y \o yy
           W == Z \o B
<1>2. Wrapped(doc) = W
  <2>1. Section(doc)[1] = s /\ Section(doc)[2] = e
    OBVIOUS
  <2> QED
    BY <2>1, Zenon DEF Wrapped
<1>3. A \in Seq(Para) /\ Len(A) = s - 1 /\ \A i \in 1 .. s - 1 : A[i] = doc[i]
  BY <1>1, SubSeqProperties
<1>4. C \in Seq(Para) /\ Len(C) = e - s + 1 /\ \A i \in 1 .. e - s + 1 : C[i] = doc[s + i - 1]
  BY <1>1, SubSeqProperties
<1>5. B \in Seq(Para) /\ Len(B) = Len(doc) - e /\ \A i \in 1 .. Len(doc) - e : B[i] = doc[e + i]
  BY <1>1, SubSeqProperties
<1>6. xx \in Seq(Para) /\ Len(xx) = 1 /\ xx[1] = x /\ x.t = "start"
  BY LineIs
<1>8. yy \in Seq(Para) /\ Len(yy) = 1 /\ yy[1] = y /\ y.t = "end"
  BY LineIs
<1> HIDE DEF A, B, C, x, y, xx, yy
<1>7. /\ X \in Seq(Para) /\ Len(X) = s /\ X[s] = x /\ \A i \in 1 .. s - 1 : X[i] = doc[i]
  <2>1. /\ X \in Seq(Para) /\ Len(X) = Len(A) + Len(xx)
        /\ \A i \in 1 .. Len(A) : X[i] = A[i]
        /\ \A i \in Len(A) + 1 .. Len(A) + Len(xx) : X[i] = xx[i - Len(A)]
    BY <1>3, <1>6, Joined, Zenon
  <2> HIDE DEF X
  <2>2. s \in Len(A) + 1 .. Len(A) + Len(xx) /\ s - Len(A) = 1
    BY <1>1, <1>3, <1>6
  <2> QED
    BY <1>1, <1>3, <1>6, <2>1, <2>2
<1> HIDE DEF X
<1>9. /\ Y \in Seq(Para) /\ Len(Y) = e + 1 /\ Y[s] = x
      /\ \A i \in 1 .. s - 1 : Y[i] = doc[i]
      /\ \A i \in s + 1 .. e + 1 : Y[i] = doc[i - 1]
  <2>1. /\ Y \in Seq(Para) /\ Len(Y) = Len(X) + Len(C)
        /\ \A i \in 1 .. Len(X) : Y[i] = X[i]
        /\ \A i \in Len(X) + 1 .. Len(X) + Len(C) : Y[i] = C[i - Len(X)]
    BY <1>4, <1>7, Joined, Zenon
  <2> HIDE DEF Y
  <2>2. Len(Y) = e + 1
    BY <1>1, <1>4, <1>7, <2>1
  <2>3. Y[s] = x /\ \A i \in 1 .. s - 1 : Y[i] = doc[i]
    BY <1>1, <1>7, <2>1
  <2>4. ASSUME NEW i \in s + 1 .. e + 1 PROVE Y[i] = doc[i - 1]
    <3>1. i - s \in 1 .. e - s + 1 /\ s + (i - s) - 1 = i - 1 /\ i \in Len(X) + 1 .. Len(X) + Len(C)
      BY <1>1, <1>4, <1>7
    <3> QED
      BY <1>4, <1>7, <2>1, <3>1
  <2> QED
    BY <2>1, <2>2, <2>3, <2>4
<1> HIDE DEF Y
<1>10. /\ Z \in Seq(Para) /\ Len(Z) = e + 2 /\ Z[e + 2] = y
       /\ \A i \in 1 .. e + 1 : Z[i] = Y[i]
  <2>1. yy \in Seq(Para) /\ Len(yy) = 1 /\ yy[1] = y
    BY <1>8
  <2>3. /\ Z \in Seq(Para) /\ Len(Z) = Len(Y) + Len(yy)
        /\ \A i \in 1 .. Len(Y) : Z[i] = Y[i]
        /\ \A i \in Len(Y) + 1 .. Len(Y) + Len(yy) : Z[i] = yy[i - Len(Y)]
    BY <1>9, <2>1, Joined, Zenon
  <2> HIDE DEF Z
  <2>4. e + 2 \in Len(Y) + 1 .. Len(Y) + Len(yy) /\ (e + 2) - Len(Y) = 1
    BY <1>1, <1>9, <2>1
  <2> QED
    BY <1>1, <1>9, <2>1, <2>3, <2>4
<1> HIDE DEF Z
<1>11. /\ W \in Seq(Para) /\ Len(W) = Len(doc) + 2
       /\ \A i \in 1 .. e + 2 : W[i] = Z[i]
       /\ \A i \in e + 3 .. Len(doc) + 2 : W[i] = doc[i - 2]
  <2>1. /\ W \in Seq(Para) /\ Len(W) = Len(Z) + Len(B)
        /\ \A i \in 1 .. Len(Z) : W[i] = Z[i]
        /\ \A i \in Len(Z) + 1 .. Len(Z) + Len(B) : W[i] = B[i - Len(Z)]
    BY <1>5, <1>10, Joined, Zenon
  <2> HIDE DEF W
  <2>2. Len(W) = Len(doc) + 2
    BY <1>1, <1>5, <1>10, <2>1
  <2>3. ASSUME NEW i \in e + 3 .. Len(doc) + 2 PROVE W[i] = doc[i - 2]
    <3>1. /\ i - (e + 2) \in 1 .. Len(doc) - e /\ e + (i - (e + 2)) = i - 2
          /\ i \in Len(Z) + 1 .. Len(Z) + Len(B)
      BY <1>1, <1>5, <1>10
    <3> QED
      BY <1>5, <1>10, <2>1, <3>1, SMTT(40)
  <2> QED
    BY <1>10, <2>1, <2>2, <2>3
<1> HIDE DEF W
<1>12. \A i \in 1 .. s - 1 : W[i] = doc[i]
  BY <1>1, <1>9, <1>10, <1>11
<1>13. W[s] = x /\ W[e + 2] = y /\ \A i \in s + 1 .. e + 1 : W[i] = doc[i - 1]
  BY <1>1, <1>9, <1>10, <1>11
<1>14. Marks(W, s, e + 2)
  <2>1. s \in 1 .. Len(W) /\ e + 2 \in 1 .. Len(W) /\ s < e + 2
    BY <1>1, <1>11
  <2>2. ASSUME NEW i \in 1 .. Len(W)
        PROVE  (W[i].t = "start" <=> i = s) /\ (W[i].t = "end" <=> i = e + 2)
    <3>1. CASE i \in 1 .. s - 1
      <4>1. i \in 1 .. Len(doc) /\ i # s /\ i # e + 2
        BY <1>1, <3>1
      <4> QED
        BY <1>12, <3>1, <4>1 DEF Unmarked
    <3>2. CASE i \in s + 1 .. e + 1
      <4>1. i - 1 \in 1 .. Len(doc) /\ i # s /\ i # e + 2
        BY <1>1, <3>2
      <4> QED
        BY <1>13, <3>2, <4>1 DEF Unmarked
    <3>3. CASE i \in e + 3 .. Len(doc) + 2
      <4>1. i - 2 \in 1 .. Len(doc) /\ i # s /\ i # e + 2
        BY <1>1, <3>3
      <4> QED
        BY <1>11, <3>3, <4>1 DEF Unmarked
    <3>4. CASE i = s
      BY <1>1, <1>6, <1>13, <3>4
    <3>5. CASE i = e + 2
      BY <1>1, <1>8, <1>13, <3>5
    <3> QED
      BY <1>1, <1>11, <3>1, <3>2, <3>3, <3>4, <3>5
  <2> QED
    BY <2>1, <2>2 DEF Marks
<1> QED
  BY <1>2, <1>11, <1>12, <1>14

\* The paragraphs a merge replaces, as in Outside.
Place(doc) ==
    CASE HasMarkers(doc) -> <<Index(doc, "start"), Index(doc, "end")>>
      [] ~HasMarkers(doc) /\ ~json /\ HasSection(doc) -> Section(doc)
      [] OTHER -> <<Len(doc) + 1, Len(doc)>>

\* Line endings move nothing.
LEMMA AlikeFound ==
    ASSUME NEW x, NEW y, Alike(x, y)
    PROVE  /\ \A s, e : Marks(x, s, e) <=> Marks(y, s, e)
           /\ Unmarked(x) <=> Unmarked(y)
           /\ HasSection(x) <=> HasSection(y)
           /\ HasSection(x) => Section(x) = Section(y)
<1>1. /\ DOMAIN x = 1 .. Len(x) /\ DOMAIN y = 1 .. Len(x) /\ Len(x) = Len(y)
      /\ \A i \in 1 .. Len(x) : x[i].t = y[i].t
  BY DEF Alike
<1>2. \A s, e : Marks(x, s, e) <=> Marks(y, s, e)
  BY <1>1 DEF Marks
<1>3. Unmarked(x) <=> Unmarked(y)
  BY <1>1 DEF Unmarked
<1>4. \A i \in 1 .. Len(x) : (Mentions(x[i]) <=> Mentions(y[i])) /\ (Heading(x[i]) <=> Heading(y[i]))
  BY <1>1 DEF Mentions, Heading
<1>5. HasSection(x) <=> HasSection(y)
  BY <1>1, <1>4 DEF HasSection
<1> DEFINE S(d) == {k \in DOMAIN d : Mentions(d[k])}
           N(d, i) == {k \in i + 1 .. Len(d) : Heading(d[k])}
           E(d, i) == IF N(d, i) = {} THEN Len(d) ELSE Min(N(d, i)) - 1
<1>6. \A d : Section(d) = <<Min(S(d)), E(d, Min(S(d)))>>
  BY Zenon DEF Section
<1>7. S(x) = S(y)
  BY <1>1, <1>4
<1>8. HasSection(x) => N(x, Min(S(x))) = N(y, Min(S(x)))
  <2>1. HasSection(x) => Min(S(x)) \in 1 .. Len(x)
    <3>1. S(x) \in SUBSET (1 .. Len(x)) /\ S(x) \in SUBSET Nat /\ (HasSection(x) => S(x) # {})
      BY <1>1 DEF HasSection
    <3> HIDE DEF S
    <3> QED
      BY <3>1, MinOf
  <2> DEFINE i == Min(S(x))
  <2> HIDE DEF i, S
  <2>2. HasSection(x) => i \in 1 .. Len(x)
    BY <2>1 DEF i
  <2>3. HasSection(x) => \A k \in i + 1 .. Len(x) : k \in 1 .. Len(x)
    BY <2>2
  <2>4. HasSection(x) => N(x, i) = N(y, i)
    BY <1>1, <1>4, <2>3
  <2> QED
    BY <2>4 DEF i
<1>9. HasSection(x) => Section(x) = Section(y)
  <2> HIDE DEF S, N
  <2> QED
    BY <1>1, <1>6, <1>7, <1>8, Zenon
<1> QED
  BY <1>2, <1>3, <1>5, <1>9

LEMMA PlaceIs ==
    ASSUME NEW doc \in Seq(Para), Sane(doc)
    PROVE  \/ \E s, e : Marks(doc, s, e) /\ Place(doc) = <<s, e>>
           \/ Unmarked(doc) /\ ~json /\ HasSection(doc) /\ Place(doc) = Section(doc)
           \/ Unmarked(doc) /\ ~(~json /\ HasSection(doc)) /\ Place(doc) = <<Len(doc) + 1, Len(doc)>>
<1>1. CASE Unmarked(doc)
  <2>1. ~HasMarkers(doc)
    BY <1>1, NoneFound
  <2> QED
    BY <1>1, <2>1 DEF Place
<1>2. CASE Marks(doc, Index(doc, "start"), Index(doc, "end"))
  <2>1. HasMarkers(doc)
    BY <1>2, MarksFound
  <2> QED
    BY <1>2, <2>1 DEF Place
<1> QED
  BY <1>1, <1>2, SaneIs

\* Every merge puts the block in the place of the old one, of the section or at
\* the end; no marker is outside.
LEMMA WriteFnPuts ==
    ASSUME NEW doc \in Seq(Para), Sane(doc), NEW p \in Payload
    PROVE  /\ Put(doc, Place(doc)[1], Place(doc)[2], Block(p), WriteFn(doc, p))
           /\ Clear(doc, Place(doc)[1], Place(doc)[2])
<1>1. CASE doc = <<>>
  <2>1. WriteFn(doc, p) = BuildPolicyBlock(p)
    BY <1>1 DEF WriteFn, MergePolicyBlock
  <2>2. Len(doc) = 0 /\ Unmarked(doc) /\ ~HasSection(doc)
    BY <1>1 DEF Unmarked, HasSection
  <2>3. Place(doc) = <<1, 0>>
    <3>1. ~HasMarkers(doc)
      BY <2>2, NoneFound
    <3> QED
      BY <2>2, <3>1 DEF Place
  <2>4. Put(doc, 1, 0, Block(p), BuildPolicyBlock(p))
    <3> DEFINE b == Block(p)
               M == BuildPolicyBlock(p)
    <3>1. M \in Seq(Para) /\ Len(M) = Len(b) /\ Len(b) \in Nat /\ \A k \in 1 .. Len(b) : M[k].t = b[k]
      BY BlockIs
    <3> HIDE DEF b, M
    <3>2. Put(doc, 1, 0, b, M)
      BY <2>2, <3>1 DEF Put
    <3> QED
      BY <3>2 DEF b, M
  <2> QED
    BY <2>1, <2>2, <2>3, <2>4 DEF Clear
<1>2. ASSUME doc # <<>>, NEW s, NEW e, Marks(doc, s, e), Place(doc) = <<s, e>>
      PROVE  Put(doc, s, e, Block(p), WriteFn(doc, p)) /\ Clear(doc, s, e)
  <2>1. Clear(doc, s, e)
    BY <1>2 DEF Clear, Marks
  <2>2. CASE json
    <3>1. WriteFn(doc, p) = Replace(doc, p)
      BY <1>2, <2>2 DEF WriteFn
    <3>2. Put(doc, s, e, Block(p), Replace(doc, p))
      BY <1>2, ReplaceMarked
    <3> QED
      BY <2>1, <3>1, <3>2
  <2>3. CASE ~json
    <3> DEFINE text == LF(doc)
               crlf == \E i \in DOMAIN doc : doc[i].crlf
    <3>1. Alike(doc, text) /\ text \in Seq(Para) /\ crlf \in BOOLEAN
      BY LinesAlike DEF Alike
    <3> HIDE DEF crlf, text
    <3>2. Marks(text, s, e) /\ HasMarkers(text)
      BY <1>2, <3>1, AlikeFound, MarksFound
    <3>3. WriteFn(doc, p) = Restore(crlf, Replace(text, p))
      BY <1>2, <2>3, <3>2 DEF WriteFn, MergePolicyBlock, text, crlf
    <3>4. Put(text, s, e, Block(p), Replace(text, p))
      BY <3>1, <3>2, ReplaceMarked
    <3>5. Alike(Replace(text, p), Restore(crlf, Replace(text, p)))
      BY <3>1, <3>4, LinesAlike DEF Put
    <3> QED
      BY <2>1, <3>1, <3>3, <3>4, <3>5, PutAlike
  <2> QED
    BY <2>1, <2>2, <2>3
<1>3. ASSUME doc # <<>>, Unmarked(doc), ~(~json /\ HasSection(doc))
      PROVE  Put(doc, Len(doc) + 1, Len(doc), Block(p), WriteFn(doc, p))
  <2>1. CASE json
    BY <1>3, <2>1, ReplaceUnmarked DEF WriteFn
  <2>2. CASE ~json
    <3> DEFINE text == LF(doc)
               crlf == \E i \in DOMAIN doc : doc[i].crlf
    <3>1. Alike(doc, text) /\ text \in Seq(Para) /\ crlf \in BOOLEAN
      BY LinesAlike DEF Alike
    <3> HIDE DEF crlf, text
    <3>2. Unmarked(text) /\ ~HasSection(text) /\ Len(text) = Len(doc)
      BY <1>3, <2>2, <3>1, AlikeFound DEF Alike
    <3>3. WriteFn(doc, p) = Restore(crlf, Replace(text, p))
      BY <1>3, <2>2, <3>2 DEF WriteFn, MergePolicyBlock, text, crlf
    <3>4. Put(text, Len(doc) + 1, Len(doc), Block(p), Replace(text, p))
      BY <3>1, <3>2, ReplaceUnmarked
    <3>5. Alike(Replace(text, p), Restore(crlf, Replace(text, p)))
      BY <3>1, <3>4, LinesAlike DEF Put
    <3> QED
      BY <3>1, <3>3, <3>4, <3>5, PutAlike
  <2> QED
    BY <2>1, <2>2
<1>4. ASSUME doc # <<>>, Unmarked(doc), ~json, HasSection(doc), NEW s, NEW e, Section(doc) = <<s, e>>
      PROVE  Put(doc, s, e, Block(p), WriteFn(doc, p))
  <2> DEFINE text == LF(doc)
             crlf == \E i \in DOMAIN doc : doc[i].crlf
  <2>1. Alike(doc, text) /\ text \in Seq(Para) /\ crlf \in BOOLEAN
    BY LinesAlike DEF Alike
  <2> HIDE DEF crlf, text
  <2>2. Unmarked(text) /\ ~HasMarkers(text) /\ HasSection(text) /\ Len(text) = Len(doc) /\ Section(text) = <<s, e>>
    BY <1>4, <2>1, AlikeFound, NoneFound DEF Alike
  <2> DEFINE W == Wrapped(text)
             R == Replace(W, p)
  <2>3. WriteFn(doc, p) = Restore(crlf, R)
    BY <1>4, <2>2 DEF WriteFn, MergePolicyBlock, text, crlf
  <2>4. /\ W \in Seq(Para) /\ Len(W) = Len(text) + 2 /\ Marks(W, s, e + 2)
        /\ \A i \in 1 .. s - 1 : W[i] = text[i]
        /\ \A i \in e + 3 .. Len(text) + 2 : W[i] = text[i - 2]
    BY <2>1, <2>2, WrappedIs
  <2> HIDE DEF W
  <2>5. Put(W, s, e + 2, Block(p), R)
    BY <2>4, ReplaceMarked
  <2> HIDE DEF R
  <2>6. s \in 1 .. Len(text) /\ e \in s .. Len(text) /\ Len(text) \in Nat
    BY <2>1, <2>2, SectionIs
  <2>7. Put(text, s, e, Block(p), R)
    <3> DEFINE b == Block(p)
    <3>0. Put(W, s, e + 2, b, R)
      BY <2>5
    <3> HIDE DEF b
    <3>1. Len(b) \in Nat /\ R \in Seq(Para) /\ Len(R) = Len(text) - e + s - 1 + Len(b)
      BY <2>4, <2>6, <3>0 DEF Put
    <3>2. \A i \in 1 .. s - 1 : R[i].t = text[i].t
      BY <2>4, <3>0 DEF Put
    <3>3. ASSUME NEW i \in s + Len(b) .. Len(R) PROVE R[i].t = text[i - (s - 1 + Len(b)) + e].t
      <4>1. R[i].t = W[i - (s - 1 + Len(b)) + (e + 2)].t
        BY <3>0 DEF Put
      <4>2. /\ i - (s - 1 + Len(b)) + (e + 2) \in e + 3 .. Len(text) + 2
            /\ (i - (s - 1 + Len(b)) + (e + 2)) - 2 = i - (s - 1 + Len(b)) + e
        BY <2>6, <3>1
      <4> QED
        BY <2>4, <4>1, <4>2
    <3>4. \A k \in 1 .. Len(b) : R[s - 1 + k].t = b[k]
      BY <3>0 DEF Put
    <3>5. s \in 1 .. Len(text) + 1 /\ e \in s - 1 .. Len(text)
      BY <2>6
    <3>6. Put(text, s, e, b, R)
      BY <3>1, <3>2, <3>3, <3>4, <3>5 DEF Put
    <3> QED
      BY <3>6 DEF b
  <2>8. Alike(R, Restore(crlf, R))
    BY <2>1, <2>7, LinesAlike DEF Put
  <2> QED
    BY <2>1, <2>3, <2>7, <2>8, PutAlike
<1>5. ASSUME Unmarked(doc), NEW s, NEW e PROVE Clear(doc, s, e)
  BY <1>5 DEF Unmarked, Clear
<1>6. CASE \E s, e : Marks(doc, s, e) /\ Place(doc) = <<s, e>>
  <2>1. PICK s, e : Marks(doc, s, e) /\ Place(doc) = <<s, e>>
    BY <1>6
  <2>2. Place(doc)[1] = s /\ Place(doc)[2] = e
    BY <2>1
  <2> QED
    BY <1>1, <1>2, <2>1, <2>2
<1>7. CASE Unmarked(doc) /\ ~json /\ HasSection(doc) /\ Place(doc) = Section(doc)
  <2>1. PICK s, e : Section(doc) = <<s, e>>
    BY Zenon DEF Section
  <2>2. Place(doc)[1] = s /\ Place(doc)[2] = e
    BY <1>7, <2>1
  <2> QED
    BY <1>1, <1>4, <1>5, <1>7, <2>1, <2>2
<1>8. CASE Unmarked(doc) /\ ~(~json /\ HasSection(doc)) /\ Place(doc) = <<Len(doc) + 1, Len(doc)>>
  <2>1. Place(doc)[1] = Len(doc) + 1 /\ Place(doc)[2] = Len(doc)
    BY <1>8
  <2> QED
    BY <1>1, <1>3, <1>5, <1>8, <2>1
<1> QED
  BY <1>6, <1>7, <1>8, PlaceIs

\* What is left of s and right of e.
Rest(doc, s, e) == SubSeq(doc, 1, s - 1) \o SubSeq(doc, e + 1, Len(doc))

LEMMA RestIs ==
    ASSUME NEW doc \in Seq(Para), NEW s \in 1 .. Len(doc) + 1, NEW e \in s - 1 .. Len(doc)
    PROVE  /\ Rest(doc, s, e) \in Seq(Para) /\ Len(Rest(doc, s, e)) = s - 1 + (Len(doc) - e)
           /\ \A i \in 1 .. s - 1 : Rest(doc, s, e)[i] = doc[i]
           /\ \A i \in s .. s - 1 + (Len(doc) - e) : Rest(doc, s, e)[i] = doc[i - s + 1 + e]
<1> DEFINE A == SubSeq(doc, 1, s - 1)
           B == SubSeq(doc, e + 1, Len(doc))
           X == A \o B
<1>1. A \in Seq(Para) /\ Len(A) = s - 1 /\ \A i \in 1 .. s - 1 : A[i] = doc[i]
  BY SubSeqProperties
<1>2. B \in Seq(Para) /\ Len(B) = Len(doc) - e /\ \A i \in 1 .. Len(doc) - e : B[i] = doc[e + i]
  BY SubSeqProperties
<1> HIDE DEF A, B
<1>3. /\ X \in Seq(Para) /\ Len(X) = Len(A) + Len(B)
      /\ \A i \in 1 .. Len(A) : X[i] = A[i]
      /\ \A i \in Len(A) + 1 .. Len(A) + Len(B) : X[i] = B[i - Len(A)]
  BY <1>1, <1>2, Joined, Zenon
<1> HIDE DEF X
<1>4. \A i \in 1 .. s - 1 : X[i] = doc[i]
  BY <1>1, <1>3
<1>5. ASSUME NEW i \in s .. s - 1 + (Len(doc) - e) PROVE X[i] = doc[i - s + 1 + e]
  <2>1. /\ i - (s - 1) \in 1 .. Len(doc) - e /\ e + (i - (s - 1)) = i - s + 1 + e
        /\ i \in Len(A) + 1 .. Len(A) + Len(B)
    BY <1>1, <1>2
  <2> QED
    BY <1>1, <1>2, <1>3, <2>1
<1>6. X = Rest(doc, s, e)
  BY DEF X, A, B, Rest
<1> QED
  BY <1>1, <1>2, <1>3, <1>4, <1>5, <1>6

LEMMA OutsideIs ==
    ASSUME NEW doc PROVE Outside(doc) = Texts(Rest(doc, Place(doc)[1], Place(doc)[2]))
  BY Zenon DEF Outside, Rest, Place

\* The block touches nothing outside its place.
LEMMA PutRest ==
    ASSUME NEW doc \in Seq(Para), NEW s, NEW e, NEW b, NEW out, Put(doc, s, e, b, out)
    PROVE  Texts(Rest(out, s, s - 1 + Len(b))) = Texts(Rest(doc, s, e))
<1> DEFINE n == s - 1 + Len(b)
<1>1. /\ s \in 1 .. Len(doc) + 1 /\ e \in s - 1 .. Len(doc) /\ Len(doc) \in Nat
      /\ out \in Seq(Para) /\ Len(out) = Len(doc) - e + n /\ Len(b) \in Nat
      /\ n \in Nat /\ n + 1 = s + Len(b)
  BY DEF Put
<1>0. \A i \in n + 1 .. Len(out) : out[i].t = doc[i - n + e].t
  BY <1>1 DEF Put
<1>2. s \in 1 .. Len(out) + 1 /\ n \in s - 1 .. Len(out)
  BY <1>1
<1> HIDE DEF n
<1> DEFINE x == Rest(out, s, n)
           y == Rest(doc, s, e)
<1>3. /\ x \in Seq(Para) /\ Len(x) = s - 1 + (Len(out) - n)
      /\ \A i \in 1 .. s - 1 : x[i] = out[i]
      /\ \A i \in s .. s - 1 + (Len(out) - n) : x[i] = out[i - s + 1 + n]
  BY <1>1, <1>2, RestIs
<1>4. /\ y \in Seq(Para) /\ Len(y) = s - 1 + (Len(doc) - e)
      /\ \A i \in 1 .. s - 1 : y[i] = doc[i]
      /\ \A i \in s .. s - 1 + (Len(doc) - e) : y[i] = doc[i - s + 1 + e]
  BY <1>1, RestIs
<1> HIDE DEF x, y
<1>5. Len(x) = Len(y)
  BY <1>1, <1>3, <1>4
<1>6. ASSUME NEW i \in 1 .. Len(x) PROVE x[i].t = y[i].t
  <2>1. CASE i \in 1 .. s - 1
    BY <1>3, <1>4, <2>1 DEF Put
  <2>2. CASE i \in s .. Len(x)
    <3> DEFINE j == i - s + 1 + n
    <3>1. j \in n + 1 .. Len(out) /\ j - n + e = i - s + 1 + e
      <4>1. s \in Nat /\ e \in Nat /\ Len(out) \in Nat /\ n \in Nat /\ i \in Nat
        BY <1>1, <2>2
      <4>2. i >= s /\ i <= s - 1 + (Len(out) - n)
        BY <1>1, <1>3, <2>2
      <4> QED
        BY <4>1, <4>2
    <3>2. x[i] = out[j]
      BY <1>3, <2>2
    <3> HIDE DEF j
    <3>3. out[j].t = doc[j - n + e].t
      BY <1>0, <3>1
    <3>4. y[i] = doc[i - s + 1 + e]
      BY <1>4, <1>5, <2>2
    <3> QED
      BY <3>1, <3>2, <3>3, <3>4
  <2> QED
    BY <1>1, <1>3, <2>1, <2>2
<1>7. Texts(x) = Texts(y)
  BY <1>3, <1>4, <1>5, <1>6, TextsEqual
<1> QED
  BY <1>7 DEF x, y, n

\* What a merge returns, on a text with no marker or one pair of them.
LEMMA MergeIs ==
    ASSUME NEW doc \in Seq(Para), Sane(doc), NEW p \in Payload
    PROVE  /\ WriteFn(doc, p) \in Seq(Para) /\ Sane(WriteFn(doc, p)) /\ HasMarkers(WriteFn(doc, p))
           /\ Outside(WriteFn(doc, p)) = Outside(doc)
           /\ Texts(SubSeq(WriteFn(doc, p), Index(WriteFn(doc, p), "start"), Index(WriteFn(doc, p), "end")))
                = Block(p)
           /\ \A r \in Payload : Texts(WriteFn(WriteFn(doc, p), r)) = Texts(WriteFn(doc, r))
<1> DEFINE s == Place(doc)[1]
           e == Place(doc)[2]
           out == WriteFn(doc, p)
           b == Block(p)
           last == s - 1 + Len(b)
<1>1. \A r \in Payload : Put(doc, s, e, Block(r), WriteFn(doc, r))
  BY WriteFnPuts
<1>2. Clear(doc, s, e)
  BY WriteFnPuts
<1> HIDE DEF s, e, out
<1>3. Put(doc, s, e, b, out)
  BY <1>1 DEF out
<1>4. out \in Seq(Para) /\ Marks(out, s, last)
  BY <1>2, <1>3, PutMarks DEF Put
<1> HIDE DEF last
<1>5. Sane(out) /\ HasMarkers(out) /\ Index(out, "start") = s /\ Index(out, "end") = last
  BY <1>4, MarksFound
<1>6. Place(out) = <<s, last>>
  BY <1>5 DEF Place
<1>7. Place(out)[1] = s /\ Place(out)[2] = last
  BY <1>6
<1>8. Outside(out) = Outside(doc)
  <2>1. Outside(out) = Texts(Rest(out, s, last))
    BY <1>7, OutsideIs
  <2>2. Outside(doc) = Texts(Rest(doc, s, e))
    BY OutsideIs DEF s, e
  <2> QED
    BY <1>3, <2>1, <2>2, PutRest DEF last
<1>9. ASSUME NEW r \in Payload PROVE Texts(WriteFn(out, r)) = Texts(WriteFn(doc, r))
  <2>1. Put(out, s, last, Block(r), WriteFn(out, r))
    BY <1>4, <1>5, <1>7, WriteFnPuts
  <2>2. Put(doc, s, e, Block(r), WriteFn(out, r))
    BY <1>3, <2>1, PutPut DEF last
  <2> QED
    BY <1>1, <2>2, PutSame
<1>10. Texts(SubSeq(out, s, last)) = b
  <2>1. b \in Seq(Policy \cup {"start", "preface", "end"}) /\ Len(b) \in Nat
    BY BlockIs
  <2> HIDE DEF b
  <2>2. s \in 1 .. Len(out) /\ last \in s .. Len(out) /\ last - s + 1 = Len(b)
    BY <1>4, <2>1 DEF Marks, last
  <2> DEFINE in == SubSeq(out, s, last)
  <2>3. in \in Seq(Para) /\ Len(in) = Len(b) /\ \A k \in 1 .. Len(b) : in[k] = out[s + k - 1]
    BY <1>4, <2>2, SubSeqProperties
  <2> HIDE DEF in
  <2>4. ASSUME NEW k \in 1 .. Len(b) PROVE in[k].t = b[k]
    <3>1. s + k - 1 = s - 1 + k
      BY <2>1, <2>2
    <3> QED
      BY <1>3, <2>3, <3>1 DEF Put
  <2>5. Texts(in) = [k \in 1 .. Len(b) |-> in[k].t]
    BY <2>3 DEF Texts
  <2>6. b = [k \in 1 .. Len(b) |-> b[k]]
    BY <2>1
  <2>7. Texts(in) = b
    BY <2>4, <2>5, <2>6
  <2> QED
    BY <2>7 DEF in
<1> QED
  BY <1>4, <1>5, <1>8, <1>9, <1>10 DEF out, b

---------------------------------------------------------------------------
(* The file *)

\* The result of a merge is a text, whatever the file was.
LEMMA WriteFnType ==
    ASSUME NEW doc \in Seq(Para), NEW p \in Payload
    PROVE  WriteFn(doc, p) \in Seq(Para)
<1>1. ASSUME NEW d \in Seq(Para) PROVE Replace(d, p) \in Seq(Para)
  <2>1. CASE ~HasMarkers(d)
    BY <2>1, BlockIs DEF Replace
  <2>2. CASE HasMarkers(d)
    <3>1. Index(d, "start") \in 1 .. Len(d) + 1 /\ Index(d, "end") \in Index(d, "start") - 1 .. Len(d)
      BY <2>2, IndexIs DEF HasMarkers
    <3>2. \E q, s, e : Put(d, s, e, q, Replace(d, p))
      BY <2>2, <3>1, Spliced DEF Replace
    <3> QED
      BY <3>2 DEF Put
  <2> QED
    BY <2>1, <2>2
<1>2. ASSUME NEW d \in Seq(Para), HasSection(d) PROVE Wrapped(d) \in Seq(Para)
  <2>1. PICK s, e : Section(d) = <<s, e>>
    BY Zenon DEF Section
  <2>2. s \in 1 .. Len(d) /\ e \in s .. Len(d) /\ Len(d) \in Nat
    BY <1>2, <2>1, SectionIs
  <2> DEFINE A == SubSeq(d, 1, s - 1)
             C == SubSeq(d, s, e)
             B == SubSeq(d, e + 1, Len(d))
             x == Lines(<<"start">>)
             y == Lines(<<"end">>)
  <2>3. A \in Seq(Para) /\ C \in Seq(Para) /\ B \in Seq(Para)
    BY <2>2, SubSeqProperties
  <2>4. x \in Seq(Para) /\ y \in Seq(Para)
    BY LineIs
  <2>5. Section(d)[1] = s /\ Section(d)[2] = e
    BY <2>1
  <2>6. Wrapped(d) = A \o x \o C \o y \o B
    BY <2>5, Zenon DEF Wrapped
  <2> HIDE DEF A, B, C, x, y
  <2> QED
    BY <2>3, <2>4, <2>6
<1>3. CASE doc = <<>>
  BY <1>3, BlockIs DEF WriteFn, MergePolicyBlock
<1>4. CASE json /\ doc # <<>>
  BY <1>1, <1>4 DEF WriteFn
<1>5. CASE ~json /\ doc # <<>>
  <2> DEFINE text == LF(doc)
             crlf == \E i \in DOMAIN doc : doc[i].crlf
             marked == IF ~HasMarkers(text) /\ HasSection(text) THEN Wrapped(text) ELSE text
  <2>1. text \in Seq(Para) /\ crlf \in BOOLEAN
    BY LinesAlike DEF Alike
  <2>2. WriteFn(doc, p) = Restore(crlf, Replace(marked, p))
    BY <1>5, Zenon DEF WriteFn, MergePolicyBlock
  <2> HIDE DEF text, crlf
  <2>3. marked \in Seq(Para)
    BY <1>2, <2>1
  <2> HIDE DEF marked
  <2> QED
    BY <1>1, <2>1, <2>2, <2>3, LinesAlike DEF Alike
<1> QED
  BY <1>3, <1>4, <1>5

\* The merge with the kind of the file as a parameter.
MergedAs(j, doc, p) ==
    IF j THEN IF doc = <<>> THEN BuildPolicyBlock(p) ELSE Replace(doc, p) ELSE MergePolicyBlock(doc, p)

LEMMA WriteFnIs == \A doc, p : WriteFn(doc, p) = MergedAs(json, doc, p)
  BY Zenon DEF WriteFn, MergedAs

Pending == [pc : {"planned", "writing"}, seen : Seq(Para), out : Seq(Para), stale : BOOLEAN]

\* The file is a text, and a run writes the merge of what it has read.
Kept ==
    /\ file \in Seq(Para) /\ faults \in Nat
    /\ run \in [Runs -> {Idle} \cup Pending]
    /\ \A i \in Runs : run[i] # Idle => \E p \in Payload : run[i].out = MergedAs(json, run[i].seen, p)

LEMMA KeptInit == Init => Kept
  BY PolicyAssumption DEF Init, Kept

\* An edit leaves a text.
LEMMA EditType ==
    ASSUME file \in Seq(Para), UserEdit PROVE file' \in Seq(Para)
<1>1. ASSUME NEW t \in User \cup {"broken"}, NEW c \in BOOLEAN
      PROVE  [t |-> t, crlf |-> c] \in Para
  BY DEF Para
<1>2. ASSUME NEW x \in Para PROVE <<x>> \o file \in Seq(Para) /\ Append(file, x) \in Seq(Para)
  OBVIOUS
<1>3. ASSUME NEW i \in DOMAIN file PROVE RemoveAt(file, i) \in Seq(Para)
  <2>1. SubSeq(file, 1, i - 1) \in Seq(Para) /\ SubSeq(file, i + 1, Len(file)) \in Seq(Para)
    BY SubSeqProperties
  <2> QED
    BY <2>1 DEF RemoveAt
<1>4. CASE \E t \in User \cup {"broken"} :
               LET x == [t |-> t, crlf |-> \E i \in DOMAIN file : file[i].crlf]
               IN  file' = <<x>> \o file \/ file' = Append(file, x)
  <2>1. PICK t \in User \cup {"broken"} :
            LET x == [t |-> t, crlf |-> \E i \in DOMAIN file : file[i].crlf]
            IN  file' = <<x>> \o file \/ file' = Append(file, x)
    BY <1>4
  <2> DEFINE x == [t |-> t, crlf |-> \E i \in DOMAIN file : file[i].crlf]
  <2>2. x \in Para
    BY <1>1
  <2> HIDE DEF x
  <2>3. file' = <<x>> \o file \/ file' = Append(file, x)
    BY <2>1, Zenon DEF x
  <2> QED
    BY <1>2, <2>2, <2>3
<1>5. CASE \E i \in DOMAIN file : file' = RemoveAt(file, i)
  BY <1>3, <1>5
<1> QED
  BY <1>4, <1>5 DEF UserEdit

LEMMA KeptStep == Kept /\ [Next]_vars => Kept'
<1> SUFFICES ASSUME Kept, [Next]_vars PROVE Kept'
  OBVIOUS
<1>1. Idle \notin Pending /\ Idle.pc = "idle" /\ \A r \in Pending : r.pc # "idle"
  BY DEF Idle, Pending
<1> DEFINE Good(j, r) == r \in {Idle} \cup Pending /\ (r # Idle => \E p \in Payload : r.out = MergedAs(j, r.seen, p))
<1>2. ASSUME file' \in Seq(Para), faults' \in Nat, json' = json,
             NEW i \in Runs, NEW r, run' = [run EXCEPT ![i] = r], Good(json, r)
      PROVE  Kept'
  BY <1>2 DEF Kept
<1>3. ASSUME NEW doc \in Seq(Para), NEW i \in Runs, NEW p \in Payloads(i), NEW b \in BOOLEAN
      PROVE  Good(json, [pc |-> "planned", seen |-> doc, out |-> WriteFn(doc, p), stale |-> b])
  <2>1. p \in Payload
    BY DEF Payloads, Payload
  <2>2. WriteFn(doc, p) \in Seq(Para) /\ WriteFn(doc, p) = MergedAs(json, doc, p)
    BY <2>1, WriteFnType, WriteFnIs
  <2> DEFINE w == WriteFn(doc, p)
             r == [pc |-> "planned", seen |-> doc, out |-> w, stale |-> b]
  <2> HIDE DEF w
  <2>3. r \in Pending /\ r.out = w /\ r.seen = doc
    BY <2>2 DEF w, Pending
  <2> HIDE DEF r
  <2>4. r.out = MergedAs(json, r.seen, p)
    BY <2>2, <2>3 DEF w
  <2>5. Good(json, r)
    BY <2>1, <2>3, <2>4
  <2> QED
    BY <2>5 DEF r, w
<1>4. Good(json, Idle)
  OBVIOUS
<1> HIDE DEF Good
<1>5. ASSUME NEW i \in Runs, Plan(i) PROVE Kept'
  <2>1. PICK p \in Payloads(i), dry \in BOOLEAN :
            run' = [run EXCEPT ![i] = IF dry \/ Refused(file) THEN Idle ELSE
                      [pc |-> "planned", seen |-> file, out |-> WriteFn(file, p), stale |-> FALSE]]
    BY <1>5 DEF Plan
  <2>2. file' = file /\ json' = json /\ faults' = faults /\ file \in Seq(Para) /\ faults \in Nat
    BY <1>5 DEF Plan, Kept
  <2>3. CASE dry \/ Refused(file)
    BY <1>2, <1>4, <2>1, <2>2, <2>3
  <2>4. CASE ~(dry \/ Refused(file))
    <3>1. run' = [run EXCEPT ![i] = [pc |-> "planned", seen |-> file, out |-> WriteFn(file, p), stale |-> FALSE]]
      BY <2>1, <2>4
    <3>2. Good(json, [pc |-> "planned", seen |-> file, out |-> WriteFn(file, p), stale |-> FALSE])
      BY <1>3, <2>2
    <3> QED
      BY <1>2, <2>2, <3>1, <3>2
  <2> QED
    BY <2>3, <2>4
<1>6. ASSUME NEW i \in Runs, PlanUnread(i) PROVE Kept'
  <2>1. PICK p \in Payloads(i) :
            run' = [run EXCEPT ![i] =
                      [pc |-> "planned", seen |-> <<>>, out |-> WriteFn(<<>>, p), stale |-> TRUE]]
    BY <1>6 DEF PlanUnread
  <2>2. file' = file /\ json' = json /\ faults' = faults + 1 /\ file \in Seq(Para) /\ faults \in Nat
    BY <1>6 DEF PlanUnread, Kept
  <2>3. Good(json, [pc |-> "planned", seen |-> <<>>, out |-> WriteFn(<<>>, p), stale |-> TRUE])
    <3>1. <<>> \in Seq(Para)
      OBVIOUS
    <3> QED
      BY <1>3, <3>1
  <2> DEFINE r == [pc |-> "planned", seen |-> <<>>, out |-> WriteFn(<<>>, p), stale |-> TRUE]
  <2>4. run' = [run EXCEPT ![i] = r] /\ Good(json, r)
    BY <2>1, <2>3, Zenon
  <2> HIDE DEF r
  <2>5. file' \in Seq(Para) /\ faults' \in Nat /\ json' = json
    BY <2>2
  <2> QED
    BY <1>2, <2>4, <2>5
<1>7. ASSUME NEW i \in Runs, Skip(i) PROVE Kept'
  BY <1>2, <1>4, <1>7 DEF Skip, Kept
<1>8. ASSUME NEW i \in Runs, Truncate(i) PROVE Kept'
  <2>1. run[i] \in Pending /\ \E p \in Payload : run[i].out = MergedAs(json, run[i].seen, p)
    BY <1>1, <1>8 DEF Truncate, Kept
  <2> DEFINE r == [run[i] EXCEPT !.pc = "writing", !.stale = @ \/ file # run[i].seen]
  <2>2. run' = [run EXCEPT ![i] = r]
    BY <1>8 DEF Truncate, Kept
  <2>3. r \in Pending /\ r.out = run[i].out /\ r.seen = run[i].seen
    BY <2>1 DEF Pending
  <2> HIDE DEF r
  <2>4. Good(json, r)
    BY <2>1, <2>3 DEF Good
  <2>5. file' = <<>> /\ json' = json /\ faults' = faults /\ faults \in Nat /\ <<>> \in Seq(Para)
    BY <1>8 DEF Truncate, Kept
  <2> QED
    BY <1>2, <2>2, <2>4, <2>5
<1>9. ASSUME NEW i \in Runs, Write(i) PROVE Kept'
  <2>1. run[i].out \in Seq(Para) /\ file \in Seq(Para)
    BY <1>1, <1>9 DEF Write, Kept, Pending
  <2>2. SubSeq(file, Len(run[i].out) + 1, Len(file)) \in Seq(Para)
    BY <2>1, SubSeqProperties
  <2>3. file' \in Seq(Para)
    BY <1>9, <2>1, <2>2 DEF Write
  <2> QED
    BY <1>2, <1>4, <1>9, <2>3 DEF Write, Kept
<1>10. ASSUME NEW i \in Runs, Crash(i) PROVE Kept'
  BY <1>2, <1>4, <1>10 DEF Crash, Kept
<1>11. CASE UserEdit
  BY <1>11, EditType DEF UserEdit, Kept
<1>12. CASE UNCHANGED vars
  BY <1>12 DEF vars, Kept
<1> QED
  BY <1>5, <1>6, <1>7, <1>8, <1>9, <1>10, <1>11, <1>12 DEF Next, Done

LEMMA AlwaysKept == Spec => []Kept
  BY KeptInit, KeptStep, PTL DEF Spec

\* Whatever users and other runs did to the file: init leaves one block with its
\* payload, a second init replaces it and nothing else, and a section of the
\* policy is left beside it exactly if one was outside of what init takes over.
THEOREM RerunOnlyReplaces == Spec => []RerunSettles
<1>1. Kept => RerunSettles
  <2> SUFFICES ASSUME Kept, Sane(file), NEW p \in Payload, NEW r \in Payload
               PROVE  /\ Sane(WriteFn(file, p)) /\ HasMarkers(WriteFn(file, p))
                      /\ Texts(SubSeq(WriteFn(file, p), Index(WriteFn(file, p), "start"),
                                      Index(WriteFn(file, p), "end"))) = Block(p)
                      /\ Texts(WriteFn(WriteFn(file, p), r)) = Texts(WriteFn(file, r))
                      /\ Stray(WriteFn(file, p)) <=> Stray(file)
    BY Zenon DEF RerunSettles
  <2>1. file \in Seq(Para)
    BY DEF Kept
  <2>2. Outside(WriteFn(file, p)) = Outside(file)
    BY <2>1, MergeIs
  <2>3. Stray(WriteFn(file, p)) <=> Stray(file)
    BY <2>2, Zenon DEF Stray
  <2> QED
    BY <2>1, <2>3, MergeIs
<1> QED
  BY <1>1, AlwaysKept, PTL

\* A merge keeps the line ending of a text that has one kind.
LEMMA EndingsKept ==
    ASSUME NEW doc \in Seq(Para), NEW p \in Payload, ~json, Uniform(doc)
    PROVE  Uniform(doc \o WriteFn(doc, p))
<1> DEFINE out == WriteFn(doc, p)
           crlf == \E i \in DOMAIN doc : doc[i].crlf
<1>1. \A i \in DOMAIN doc : doc[i].crlf \in BOOLEAN
  <2>1. \A x \in Para : x.crlf \in BOOLEAN
    BY DEF Para
  <2>2. \A i \in DOMAIN doc : doc[i] \in Para
    OBVIOUS
  <2> QED
    BY <2>1, <2>2, Zenon
<1>2. \A i \in 1 .. Len(doc) : doc[i].crlf = crlf
  <2>1. \A i \in DOMAIN doc : doc[i].crlf = crlf
    BY <1>1, Zenon DEF Uniform
  <2>2. DOMAIN doc = 1 .. Len(doc)
    OBVIOUS
  <2> QED
    BY <2>1, <2>2, Zenon
<1>3. out \in Seq(Para) /\ Len(out) \in Nat /\ Len(doc) \in Nat
  BY WriteFnType
<1>4. \A i \in 1 .. Len(out) : out[i].crlf = crlf
  <2>1. CASE doc = <<>>
    <3>1. out = BuildPolicyBlock(p) /\ crlf = FALSE
      BY <2>1 DEF WriteFn, MergePolicyBlock
    <3>2. \A x \in Para : x.crlf \in BOOLEAN
      BY DEF Para
    <3> HIDE DEF out, crlf
    <3>3. Len(out) = Len(Block(p))
      BY <3>1, BlockIs
    <3>4. \A i \in 1 .. Len(out) : out[i] \in Para
      BY <1>3
    <3>5. \A i \in 1 .. Len(Block(p)) : ~out[i].crlf
      BY <3>1, BlockIs, Zenon
    <3> QED
      BY <3>1, <3>2, <3>3, <3>4, <3>5, Zenon
  <2>2. CASE doc # <<>>
    <3>1. PICK d : out = Restore(crlf, d)
      BY <2>2, Zenon DEF WriteFn, MergePolicyBlock
    <3>2. \A i \in DOMAIN d : Restore(crlf, d)[i] = [d[i] EXCEPT !.crlf = crlf]
      BY DEF Restore
    <3> HIDE DEF crlf, out
    <3>3. DOMAIN out = DOMAIN d
      BY <3>1 DEF Restore
    <3>4. DOMAIN out = 1 .. Len(out) /\ \A i \in 1 .. Len(out) : out[i] \in Para
      BY <1>3
    <3>5. \A x : [x EXCEPT !.crlf = crlf] \in Para => [x EXCEPT !.crlf = crlf].crlf = crlf
      BY DEF Para
    <3>6. ASSUME NEW i \in 1 .. Len(out) PROVE out[i].crlf = crlf
      <4>1. out[i] = [d[i] EXCEPT !.crlf = crlf]
        BY <3>1, <3>2, <3>3, <3>4, Zenon
      <4>2. out[i] \in Para
        BY <3>4
      <4> QED
        BY <3>5, <4>1, <4>2, Zenon
    <3> QED
      BY <3>6
  <2> QED
    BY <2>1, <2>2
<1> HIDE DEF out, crlf
<1> DEFINE all == doc \o out
<1>5. /\ all \in Seq(Para) /\ Len(all) = Len(doc) + Len(out)
      /\ \A i \in 1 .. Len(doc) : all[i] = doc[i]
      /\ \A i \in Len(doc) + 1 .. Len(doc) + Len(out) : all[i] = out[i - Len(doc)]
  BY <1>3, Joined, Zenon
<1> HIDE DEF all
<1>6. DOMAIN all = 1 .. Len(doc) + Len(out)
  BY <1>5
<1>7. ASSUME NEW i \in DOMAIN all PROVE all[i].crlf = crlf
  <2>1. CASE i \in 1 .. Len(doc)
    BY <1>2, <1>5, <2>1
  <2>2. CASE i \in Len(doc) + 1 .. Len(doc) + Len(out)
    <3>1. i - Len(doc) \in 1 .. Len(out)
      BY <1>3, <2>2
    <3> QED
      BY <1>4, <1>5, <2>2, <3>1
  <2> QED
    BY <1>3, <1>6, <2>1, <2>2
<1>8. Uniform(all)
  BY <1>7 DEF Uniform
<1> QED
  BY <1>8 DEF all, out

\* A write of init that nobody interferes with keeps the user's text and its
\* line endings, for every text with no marker or one pair.
THEOREM UserTextSurvives == Spec => KeepsUserText
<1> DEFINE Quiet(i) == /\ run[i].pc = "writing" /\ run'[i].pc = "idle" /\ faults' = faults
                       /\ file = <<>> /\ ~run[i].stale /\ Sane(run[i].seen)
           Safe(i) == /\ Outside(file') = Outside(run[i].seen)
                      /\ ~json /\ Uniform(run[i].seen) => Uniform(run[i].seen \o file')
<1>1. ASSUME Kept, [Next]_vars, NEW i \in Runs, Quiet(i) PROVE Safe(i)
  <2>1. /\ run[i] \in Pending /\ run \in [Runs -> {Idle} \cup Pending] /\ faults \in Nat
        /\ \E p \in Payload : run[i].out = MergedAs(json, run[i].seen, p)
    BY <1>1 DEF Kept, Idle
  <2>2. ASSUME NEW r, NEW j \in Runs, run' = [run EXCEPT ![j] = r], j # i PROVE FALSE
    BY <1>1, <2>1, <2>2
  <2>3. Write(i)
    <3>1. ~UserEdit /\ ~Done /\ ~UNCHANGED vars
      BY <1>1 DEF UserEdit, Done, vars
    <3>2. PICK j \in Runs : Plan(j) \/ PlanUnread(j) \/ Skip(j) \/ Truncate(j) \/ Write(j) \/ Crash(j)
      BY <1>1, <3>1 DEF Next
    <3>3. j = i
      <4>1. \E r : run' = [run EXCEPT ![j] = r]
        BY <3>2 DEF Plan, PlanUnread, Skip, Truncate, Write, Crash
      <4> QED
        BY <2>2, <4>1
    <3>4. ~Plan(i) /\ ~PlanUnread(i)
      BY <1>1 DEF Plan, PlanUnread, May
    <3>5. ~Skip(i) /\ ~Truncate(i)
      BY <1>1 DEF Skip, Truncate
    <3>6. ~Crash(i)
      BY <1>1, <2>1 DEF Crash
    <3> QED
      BY <3>2, <3>3, <3>4, <3>5, <3>6
  <2>4. run[i].out \in Seq(Para) /\ run[i].seen \in Seq(Para)
    BY <2>1 DEF Pending
  <2> DEFINE out == run[i].out
             seen == run[i].seen
  <2>5. file' = out
    <3>1. file' = out \o SubSeq(<<>>, Len(out) + 1, Len(<<>>))
      BY <1>1, <2>3 DEF Write
    <3> HIDE DEF out
    <3>2. Len(out) \in Nat /\ out \in Seq(Para) /\ Len(<<>>) = 0
      BY <2>4 DEF out
    <3>3. SubSeq(<<>>, Len(out) + 1, Len(<<>>)) = <<>>
      BY <3>2, SubSeqEmpty
    <3>4. out \o <<>> = out
      BY <3>2, ConcatEmptySeq
    <3> QED
      BY <3>1, <3>3, <3>4, Zenon
  <2>6. PICK p \in Payload : out = WriteFn(seen, p)
    BY <2>1, WriteFnIs
  <2>7. Sane(seen)
    BY <1>1
  <2> HIDE DEF out, seen
  <2>8. seen \in Seq(Para)
    BY <2>4 DEF seen
  <2>9. Outside(out) = Outside(seen)
    BY <2>6, <2>7, <2>8, MergeIs
  <2>10. ~json /\ Uniform(seen) => Uniform(seen \o out)
    BY <2>6, <2>8, EndingsKept
  <2> QED
    BY <2>5, <2>9, <2>10, Zenon DEF seen
<1>2. Kept /\ [Next]_vars =>
          [\A i \in Runs :
              (run[i].pc = "writing" /\ run'[i].pc = "idle" /\ faults' = faults
                 /\ file = <<>> /\ ~run[i].stale /\ Sane(run[i].seen))
              => /\ Outside(file') = Outside(run[i].seen)
                 /\ ~json /\ Uniform(run[i].seen) => Uniform(run[i].seen \o file')]_vars
  BY <1>1, Zenon
<1> QED
  BY <1>2, AlwaysKept, PTL DEF Spec, KeepsUserText
============================================================================
