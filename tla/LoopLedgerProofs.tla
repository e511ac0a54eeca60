-------------------------- MODULE LoopLedgerProofs --------------------------
(* The loop ledger is dense, and implements the append-only log, for every *)
(* set of sessions and loops.                                              *)
EXTENDS LoopBrief, FiniteSetTheorems, SequenceTheorems, WellFoundedInduction, TLAPS

\* A call that waits for its seq has inserted its own row, whoever has inserted
\* rows since.
OwnRow ==
    \A s \in Sessions : pc[s] = "read" =>
        \E r \in rows : \E t \in todo[s] : r.id = rowid[s] /\ r.loop = t.loop /\ r.entry = t.entry

Inv == TypeOK /\ OwnRow /\ SeqsAreDense

Row == [id : Nat, loop : Loops, seq : Nat \ {0}, entry : Entries]

\* The subselect of the INSERT: one more than the number of the loop's rows.
LEMMA NextSeqIs ==
    ASSUME NEW l \in Loops, NEW n \in Nat, Seqs(l) = 1 .. n
    PROVE  NextSeq(l) = n + 1
<1>1. CASE OfLoop(l) = {}
  <2>1. n = 0
    BY <1>1 DEF Seqs
  <2> QED
    BY <1>1, <2>1 DEF NextSeq
<1>2. CASE OfLoop(l) # {}
  <2>1. n \in Seqs(l) /\ \A m \in Seqs(l) : m <= n
    BY <1>2 DEF Seqs
  <2>2. (CHOOSE m \in Seqs(l) : \A k \in Seqs(l) : k <= m) = n
    BY <2>1
  <2>3. NextSeq(l) = 1 + n
    BY <1>2, <2>2, Zenon DEF NextSeq
  <2> QED
    BY <2>3
<1> QED
  BY <1>1, <1>2

LEMMA InitInv == Init => Inv
<1> USE LedgerAssumption
<1> SUFFICES ASSUME Init PROVE Inv
  OBVIOUS
<1>1. TypeOK
  BY DEF Init, TypeOK
<1>2. OwnRow
  BY DEF Init, OwnRow
<1>3. SeqsAreDense
  <2>1. \A l \in Loops : OfLoop(l) = {} /\ Seqs(l) = 1 .. 0
    BY DEF Init, OfLoop, Seqs
  <2> QED
    BY <2>1 DEF SeqsAreDense, Init
<1> QED
  BY <1>1, <1>2, <1>3 DEF Inv

\* What an INSERT adds, and that it keeps the seqs of every loop dense.
LEMMA InsertStep ==
    ASSUME Inv, NEW s \in Sessions, Insert(s)
    PROVE  Inv'
<1> USE LedgerAssumption DEF Inv
<1>1. PICK t \in todo[s] :
         rows' = rows \cup {[id |-> lastId + 1, loop |-> t.loop, seq |-> NextSeq(t.loop), entry |-> t.entry]}
  BY DEF Insert
<1>2. t.loop \in Loops /\ t.entry \in Entries /\ todo[s] = {t}
  BY DEF Insert, TypeOK
<1>3. PICK n \in 0 .. lastId : Seqs(t.loop) = 1 .. n
  BY <1>2 DEF SeqsAreDense
<1>4. n \in Nat /\ lastId \in Nat /\ NextSeq(t.loop) = n + 1
  BY <1>2, <1>3, NextSeqIs DEF TypeOK
<1> DEFINE new == [id |-> lastId + 1, loop |-> t.loop, seq |-> n + 1, entry |-> t.entry]
<1>5. rows' = rows \cup {new} /\ new \in Row
  BY <1>1, <1>2, <1>4 DEF Row
<1>6. TypeOK'
  <2> HIDE DEF new
  <2>1. new.id = lastId + 1
    BY DEF new
  <2>2. rows' \subseteq Row
    BY <1>5 DEF TypeOK, Row
  <2>3. \A r \in rows' : r.id \in 1 .. lastId'
    BY <1>4, <1>5, <2>1 DEF TypeOK, Insert
  <2>4. \A q, r \in rows' : q.id = r.id => q = r
    BY <1>4, <1>5, <2>1 DEF TypeOK
  <2>5. \A u \in Sessions : IF pc'[u] = "idle" THEN todo'[u] = {}
          ELSE \E l \in Loops, e \in Entries : todo'[u] = {[loop |-> l, entry |-> e]}
    BY DEF TypeOK, Insert
  <2>6. /\ lastId' \in Nat /\ calls' \in 0 .. MaxCalls
        /\ pc' \in [Sessions -> {"idle", "list", "insert", "read"}]
        /\ rowid' \in [Sessions -> Nat] /\ tries' \in [Sessions -> 0 .. MaxTries - 1]
        /\ reply' \in [Sessions -> Nat] /\ todo' \in [Sessions -> SUBSET [loop : Loops, entry : Entries]]
    BY <1>4 DEF TypeOK, Insert
  <2> QED
    BY <2>2, <2>3, <2>4, <2>5, <2>6 DEF TypeOK, Row
<1>7. OwnRow'
  <2> SUFFICES ASSUME NEW u \in Sessions, pc'[u] = "read"
               PROVE  \E r \in rows' : \E x \in todo'[u] :
                         r.id = rowid'[u] /\ r.loop = x.loop /\ r.entry = x.entry
    BY DEF OwnRow
  <2>1. CASE u = s
    BY <1>2, <1>5, <2>1 DEF Insert, TypeOK
  <2>2. CASE u # s
    <3>1. pc[u] = "read" /\ rowid'[u] = rowid[u] /\ todo'[u] = todo[u]
      BY <2>2 DEF Insert, TypeOK
    <3> QED
      BY <1>5, <3>1 DEF OwnRow
  <2> QED
    BY <2>1, <2>2
<1>8. SeqsAreDense'
  <2> SUFFICES ASSUME NEW l \in Loops
               PROVE  /\ \E k \in 0 .. lastId' : Seqs(l)' = 1 .. k
                      /\ \A q, r \in OfLoop(l)' : q.seq = r.seq => q = r
    BY DEF SeqsAreDense
  <2>1. CASE l = t.loop
    <3>1. OfLoop(l)' = OfLoop(l) \cup {new}
      BY <1>5, <2>1 DEF OfLoop
    <3>2. Seqs(l)' = Seqs(l) \cup {n + 1}
      <4>1. new.seq = n + 1
        OBVIOUS
      <4>2. ASSUME NEW x \in Seqs(l)' PROVE x \in Seqs(l) \cup {n + 1}
        <5>1. PICK r \in OfLoop(l)' : x = r.seq
          BY <4>2 DEF Seqs
        <5> QED
          BY <3>1, <4>1, <5>1 DEF Seqs
      <4>3. ASSUME NEW x \in Seqs(l) \cup {n + 1} PROVE x \in Seqs(l)'
        <5>1. PICK r \in OfLoop(l) \cup {new} : x = r.seq
          BY <4>1, <4>3 DEF Seqs
        <5> QED
          BY <3>1, <5>1 DEF Seqs
      <4> QED
        BY <4>2, <4>3
    <3>3. Seqs(l)' = 1 .. n + 1 /\ n + 1 \in 0 .. lastId'
      BY <1>3, <1>4, <2>1, <3>2 DEF Insert
    <3>4. \A r \in OfLoop(l) : r.seq \in 1 .. n
      BY <1>3, <2>1 DEF Seqs
    <3>5. \A q, r \in OfLoop(l)' : q.seq = r.seq => q = r
      BY <1>4, <2>1, <3>1, <3>4 DEF SeqsAreDense
    <3> QED
      BY <3>3, <3>5
  <2>2. CASE l # t.loop
    <3>1. OfLoop(l)' = OfLoop(l)
      BY <1>5, <2>2 DEF OfLoop
    <3>2. Seqs(l)' = Seqs(l)
      BY <3>1 DEF Seqs
    <3>3. PICK k \in 0 .. lastId : Seqs(l) = 1 .. k
      BY DEF SeqsAreDense
    <3>4. k \in 0 .. lastId'
      BY <1>4, <3>3 DEF Insert
    <3> QED
      BY <3>1, <3>2, <3>3, <3>4 DEF SeqsAreDense
  <2> QED
    BY <2>1, <2>2
<1> QED
  BY <1>6, <1>7, <1>8

\* The other steps leave the table alone.
LEMMA OtherStep ==
    ASSUME Inv, NEW s \in Sessions, rows' = rows, lastId' = lastId, TypeOK',
           \A u \in Sessions : pc'[u] = "read" =>
               pc[u] = "read" /\ rowid'[u] = rowid[u] /\ todo'[u] = todo[u]
    PROVE  Inv'
<1>1. OwnRow'
  BY DEF Inv, OwnRow
<1>2. SeqsAreDense'
  BY DEF Inv, SeqsAreDense, Seqs, OfLoop
<1> QED
  BY <1>1, <1>2 DEF Inv

\* An answer ends the call of its session and touches no other.
LEMMA AnswerStep ==
    ASSUME Inv, NEW s \in Sessions, NEW n \in Nat, Answer(s, n), UNCHANGED <<rows, lastId, calls>>
    PROVE  Inv'
<1> USE LedgerAssumption
<1>1. TypeOK'
  <2>1. \A u \in Sessions : IF pc'[u] = "idle" THEN todo'[u] = {}
          ELSE \E l \in Loops, e \in Entries : todo'[u] = {[loop |-> l, entry |-> e]}
    <3> SUFFICES ASSUME NEW u \in Sessions, pc'[u] = "idle" => todo'[u] # {}
                 PROVE  \E l \in Loops, e \in Entries : todo'[u] = {[loop |-> l, entry |-> e]}
      BY DEF Inv, TypeOK, Answer
    <3>1. u # s /\ pc'[u] = pc[u] /\ todo'[u] = todo[u]
      BY DEF Inv, TypeOK, Answer
    <3> QED
      BY <3>1 DEF Inv, TypeOK
  <2>2. /\ pc' \in [Sessions -> {"idle", "list", "insert", "read"}]
        /\ rowid' \in [Sessions -> Nat] /\ tries' \in [Sessions -> 0 .. MaxTries - 1]
        /\ reply' \in [Sessions -> Nat] /\ todo' \in [Sessions -> SUBSET [loop : Loops, entry : Entries]]
    BY DEF Inv, TypeOK, Answer
  <2> QED
    BY <2>1, <2>2 DEF Inv, TypeOK
<1> QED
  BY <1>1, OtherStep DEF Inv, TypeOK, Answer

LEMMA StepInv == Inv /\ [Next]_vars => Inv'
<1> USE LedgerAssumption
<1> SUFFICES ASSUME Inv, [Next]_vars PROVE Inv'
  OBVIOUS
<1>1. ASSUME NEW s \in Sessions, NEW l \in Loops, NEW k \in {"checkpoint", "handoff"},
             NEW c \in Costs, Call(s, l, k, c)
      PROVE  Inv'
  <2>1. TypeOK'
    <3>1. [call |-> calls + 1, kind |-> k, cost |-> c] \in Entries
      BY <1>1 DEF Call, Inv, TypeOK, Entries
    <3>2. \A u \in Sessions : IF pc'[u] = "idle" THEN todo'[u] = {}
            ELSE \E m \in Loops, e \in Entries : todo'[u] = {[loop |-> m, entry |-> e]}
      <4> TAKE u \in Sessions
      <4>1. CASE u = s
        <5>1. pc'[u] # "idle" /\ todo'[u] = {[loop |-> l, entry |-> [call |-> calls + 1, kind |-> k, cost |-> c]]}
          BY <1>1, <4>1 DEF Call, Inv, TypeOK
        <5> QED
          BY <3>1, <5>1
      <4>2. CASE u # s
        <5>1. pc'[u] = pc[u] /\ todo'[u] = todo[u]
          BY <1>1, <4>2 DEF Call, Inv, TypeOK
        <5> QED
          BY <5>1 DEF Inv, TypeOK
      <4> QED
        BY <4>1, <4>2
    <3>3. todo' \in [Sessions -> SUBSET [loop : Loops, entry : Entries]]
      <4>1. {[loop |-> l, entry |-> [call |-> calls + 1, kind |-> k, cost |-> c]]}
              \in SUBSET [loop : Loops, entry : Entries]
        BY <3>1
      <4> QED
        BY <1>1, <4>1 DEF Call, Inv, TypeOK
    <3>4. /\ pc' \in [Sessions -> {"idle", "list", "insert", "read"}]
          /\ reply' \in [Sessions -> Nat] /\ calls' \in 0 .. MaxCalls
      BY <1>1 DEF Call, Inv, TypeOK
    <3> QED
      BY <1>1, <3>2, <3>3, <3>4 DEF Call, Inv, TypeOK
  <2> QED
    BY <1>1, <2>1, OtherStep DEF Call, Inv, TypeOK
<1>2. ASSUME NEW s \in Sessions, List(s) PROVE Inv'
  <2>1. CASE Answer(s, 0)
    BY <1>2, <2>1, AnswerStep DEF List
  <2>2. CASE pc' = [pc EXCEPT ![s] = "insert"] /\ UNCHANGED <<todo, rowid, tries, reply>>
    <3>1. TypeOK'
      BY <1>2, <2>2 DEF List, Inv, TypeOK
    <3> QED
      BY <1>2, <2>2, <3>1, OtherStep DEF List, Inv, TypeOK
  <2> QED
    BY <1>2, <2>1, <2>2 DEF List
<1>3. ASSUME NEW s \in Sessions, Busy(s) PROVE Inv'
  <2>1. CASE Answer(s, 0)
    BY <1>3, <2>1, AnswerStep DEF Busy
  <2>2. CASE /\ tries[s] + 1 < MaxTries
             /\ tries' = [tries EXCEPT ![s] = @ + 1]
             /\ UNCHANGED <<pc, todo, rowid, reply>>
    <3>1. TypeOK'
      BY <1>3, <2>2 DEF Busy, Inv, TypeOK
    <3> QED
      BY <1>3, <2>2, <3>1, OtherStep DEF Busy
  <2> QED
    BY <1>3, <2>1, <2>2 DEF Busy
<1>4. ASSUME NEW s \in Sessions, ReadSeq(s) PROVE Inv'
  <2>1. PICK r \in rows : Answer(s, r.seq)
    BY <1>4 DEF ReadSeq
  <2>2. r.seq \in Nat
    BY <2>1 DEF Inv, TypeOK
  <2> QED
    BY <1>4, <2>1, <2>2, AnswerStep DEF ReadSeq
<1>5. ASSUME NEW s \in Sessions, Fault(s) PROVE Inv'
  BY <1>5, AnswerStep DEF Fault
<1>6. CASE UNCHANGED vars
  BY <1>6 DEF vars, Inv, TypeOK, OwnRow, SeqsAreDense, Seqs, OfLoop
<1> QED
  BY <1>1, <1>2, <1>3, <1>4, <1>5, <1>6, InsertStep DEF Next, Step

LEMMA Invariance == Spec => []Inv
  BY InitInv, StepInv, PTL DEF Spec

\* The loop tool keeps the types of the ledger's state: row ids stay unique and
\* a call never tries the INSERT more often than the budget of retryBusy lets it.
THEOREM LedgerTypeCorrect == Spec => []TypeOK
  BY Invariance, PTL DEF Inv

\* Whatever the number of sessions and loops: the seqs of a loop are 1 to n,
\* each once, though no constraint of the table says so.
THEOREM Dense == Spec => []SeqsAreDense
  BY Invariance, PTL DEF Inv

-----------------------------------------------------------------------------
(* The refinement *)

LEMMA FunIsSeq ==
    ASSUME NEW S, NEW n \in Nat, NEW f \in [1 .. n -> S]
    PROVE  f \in Seq(S) /\ Len(f) = n
  OBVIOUS

\* What the mapped log of a loop is: a sequence of entries, in which a row's
\* entry is at the row's seq.
LEMMA MappedLog ==
    ASSUME Inv, NEW l \in Loops, NEW n \in Nat, Seqs(l) = 1 .. n
    PROVE  /\ SeqLog[l] \in Seq(Entries) /\ Len(SeqLog[l]) = n
           /\ \A r \in OfLoop(l) : SeqLog[l][r.seq] = r.entry
<1> DEFINE At(k) == CHOOSE r \in OfLoop(l) : r.seq = k
<1>1. \A k \in 1 .. n : At(k) \in OfLoop(l) /\ At(k).seq = k
  BY DEF Seqs
<1>2. \A r \in OfLoop(l) : r.seq \in 1 .. n /\ r.entry \in Entries
  BY DEF Seqs, OfLoop, Inv, TypeOK
<1>3. SeqLog[l] = [k \in 1 .. n |-> At(k).entry]
  BY DEF SeqLog
<1>4. SeqLog[l] \in [1 .. n -> Entries]
  <2> HIDE DEF At
  <2> QED
    BY <1>1, <1>2, <1>3
<1>5. \A r \in OfLoop(l) : At(r.seq) = r
  <2> TAKE r \in OfLoop(l)
  <2>1. At(r.seq) \in OfLoop(l) /\ At(r.seq).seq = r.seq
    BY <1>1, <1>2
  <2> HIDE DEF At
  <2> QED
    BY <2>1 DEF Inv, SeqsAreDense
<1>6. \A r \in OfLoop(l) : SeqLog[l][r.seq] = r.entry
  <2> HIDE DEF At
  <2> QED
    BY <1>2, <1>3, <1>5
<1> QED
  BY <1>4, <1>6, FunIsSeq

\* Where a call's row is: the id names one row.
LEMMA MappedPos ==
    ASSUME Inv, NEW s \in Sessions, pc[s] = "read", NEW r \in rows, r.id = rowid[s]
    PROVE  SeqPos[s] = r.seq
<1>1. (CHOOSE q \in rows : q.id = rowid[s]) = r
  BY DEF Inv, TypeOK
<1> QED
  BY <1>1, Zenon DEF SeqPos

\* Both facts as state predicates, which hold before and after a step.
RowsAreLogged ==
    \A l \in Loops : \A n \in Nat : Seqs(l) = 1 .. n =>
        /\ SeqLog[l] \in Seq(Entries) /\ Len(SeqLog[l]) = n
        /\ \A r \in OfLoop(l) : SeqLog[l][r.seq] = r.entry
PosIsOfRow ==
    \A s \in Sessions : \A r \in rows : pc[s] = "read" /\ r.id = rowid[s] => SeqPos[s] = r.seq

LEMMA Mapped == Inv => RowsAreLogged /\ PosIsOfRow
<1> SUFFICES ASSUME Inv PROVE RowsAreLogged /\ PosIsOfRow
  OBVIOUS
<1>1. RowsAreLogged
  BY MappedLog DEF RowsAreLogged
<1>2. PosIsOfRow
  BY MappedPos DEF PosIsOfRow
<1> QED
  BY <1>1, <1>2

LEMMA MappedNext == Inv' => RowsAreLogged' /\ PosIsOfRow'
  BY Mapped, PTL

LEMMA InitRefines == Init => Log!Init
<1> SUFFICES ASSUME Init PROVE Log!Init
  OBVIOUS
<1>1. Inv
  BY InitInv
<1>2. SeqLog = [l \in Loops |-> <<>>]
  <2>1. ASSUME NEW l \in Loops PROVE SeqLog[l] = <<>>
    <3>1. Seqs(l) = 1 .. 0
      BY DEF Init, Seqs, OfLoop
    <3>2. SeqLog[l] \in Seq(Entries) /\ Len(SeqLog[l]) = 0
      BY <1>1, <3>1, MappedLog
    <3> HIDE DEF SeqLog
    <3> QED
      BY <3>2, EmptySeq
  <2> QED
    BY <2>1 DEF SeqLog
<1>3. SeqPos = [s \in Sessions |-> 0]
  BY DEF Init, SeqPos
<1> QED
  BY <1>2, <1>3 DEF Init, Log!Init

\* The INSERT is the append.
LEMMA InsertRefines ==
    ASSUME Inv, Inv', NEW s \in Sessions, Insert(s)
    PROVE  Log!AppendEntry(s)
<1> USE LedgerAssumption
<1>1. PICK t \in todo[s] :
         rows' = rows \cup {[id |-> lastId + 1, loop |-> t.loop, seq |-> NextSeq(t.loop), entry |-> t.entry]}
  BY DEF Insert
<1>2. t.loop \in Loops /\ t.entry \in Entries /\ todo[s] = {t}
  BY DEF Insert, Inv, TypeOK
<1>3. PICK n \in 0 .. lastId : Seqs(t.loop) = 1 .. n
  BY <1>2 DEF Inv, SeqsAreDense
<1>4. n \in Nat /\ lastId \in Nat /\ NextSeq(t.loop) = n + 1
  BY <1>2, <1>3, NextSeqIs DEF Inv, TypeOK
<1> DEFINE new == [id |-> lastId + 1, loop |-> t.loop, seq |-> n + 1, entry |-> t.entry]
<1>5. rows' = rows \cup {new}
  BY <1>1, <1>4
<1>6. SeqLog' = [SeqLog EXCEPT ![t.loop] = Append(@, t.entry)]
  <2>1. ASSUME NEW l \in Loops, l # t.loop PROVE SeqLog'[l] = SeqLog[l]
    <3>1. OfLoop(l)' = OfLoop(l)
      BY <1>5, <2>1 DEF OfLoop
    <3> QED
      BY <3>1 DEF SeqLog, Seqs
  <2>2. SeqLog'[t.loop] = Append(SeqLog[t.loop], t.entry)
    <3> DEFINE l == t.loop
    <3>1. OfLoop(l)' = OfLoop(l) \cup {new} /\ new.seq = n + 1 /\ new.entry = t.entry
      BY <1>5 DEF OfLoop
    <3>2. Seqs(l)' = 1 .. n + 1
      <4>1. n + 1 \in Seqs(l)'
        BY <3>1 DEF Seqs
      <4>2. \A r \in OfLoop(l)' : r.seq \in 1 .. n + 1
        BY <1>3, <1>4, <3>1 DEF Seqs
      <4>3. \A k \in 1 .. n : k \in Seqs(l)'
        <5> TAKE k \in 1 .. n
        <5>1. PICK r \in OfLoop(l) : r.seq = k
          BY <1>3 DEF Seqs
        <5> QED
          BY <3>1, <5>1 DEF Seqs
      <4>4. Seqs(l)' \subseteq 1 .. n + 1
        BY <4>2 DEF Seqs
      <4>5. \A k \in 1 .. n + 1 : k \in Seqs(l)'
        <5> TAKE k \in 1 .. n + 1
        <5>1. k \in 1 .. n \/ k = n + 1
          BY <1>4
        <5> QED
          BY <4>1, <4>3, <5>1
      <4> HIDE DEF l
      <4> QED
        BY <4>4, <4>5, Zenon
    <3>3. /\ SeqLog[l] \in Seq(Entries) /\ Len(SeqLog[l]) = n
          /\ \A r \in OfLoop(l) : SeqLog[l][r.seq] = r.entry
      BY <1>2, <1>3, <1>4, MappedLog
    <3>4. /\ SeqLog'[l] \in Seq(Entries) /\ Len(SeqLog'[l]) = n + 1
          /\ \A r \in OfLoop(l)' : SeqLog'[l][r.seq] = r.entry
      BY <1>2, <1>4, <3>2, MappedNext DEF RowsAreLogged
    <3>5. \A k \in 1 .. n : SeqLog'[l][k] = SeqLog[l][k]
      <4> TAKE k \in 1 .. n
      <4>1. PICK r \in OfLoop(l) : r.seq = k
        BY <1>3 DEF Seqs
      <4> QED
        BY <3>1, <3>3, <3>4, <4>1
    <3>6. SeqLog'[l][n + 1] = t.entry
      BY <3>1, <3>4
    <3> DEFINE old == SeqLog[l]
               nxt == SeqLog'[l]
    <3>7. /\ Append(old, t.entry) \in Seq(Entries) /\ Len(Append(old, t.entry)) = n + 1
          /\ \A k \in 1 .. n : Append(old, t.entry)[k] = old[k]
          /\ Append(old, t.entry)[n + 1] = t.entry
      BY <1>2, <3>3, AppendProperties
    <3>8. \A k \in 1 .. n + 1 : nxt[k] = Append(old, t.entry)[k]
      BY <1>4, <3>5, <3>6, <3>7
    <3> HIDE DEF old, nxt
    <3> QED
      BY <3>4, <3>7, <3>8, SeqEqual DEF old, nxt
  <2> QED
    BY <1>2, <2>1, <2>2 DEF SeqLog
<1>7. SeqPos' = [SeqPos EXCEPT ![s] = Len(SeqLog[t.loop]) + 1]
  <2>1. Len(SeqLog[t.loop]) = n
    BY <1>2, <1>3, <1>4, MappedLog
  <2>2. SeqPos'[s] = n + 1
    <3>1. new \in rows' /\ new.id = rowid'[s] /\ pc'[s] = "read" /\ new.seq = n + 1
      BY <1>5 DEF Insert, Inv, TypeOK
    <3> QED
      BY <3>1, MappedNext DEF PosIsOfRow
  <2>3. ASSUME NEW u \in Sessions, u # s PROVE SeqPos'[u] = SeqPos[u]
    <3>1. pc'[u] = pc[u] /\ rowid'[u] = rowid[u]
      BY <2>3 DEF Insert, Inv, TypeOK
    <3>2. CASE pc[u] = "read"
      <4>1. PICK r \in rows : r.id = rowid[u]
        BY <3>2 DEF Inv, OwnRow
      <4>2. SeqPos[u] = r.seq
        BY <3>2, <4>1, MappedPos
      <4>3. SeqPos'[u] = r.seq
        BY <1>5, <3>1, <3>2, <4>1, MappedNext DEF PosIsOfRow
      <4> QED
        BY <4>2, <4>3
    <3>3. CASE pc[u] # "read"
      BY <3>1, <3>3 DEF SeqPos
    <3> QED
      BY <3>2, <3>3
  <2>4. SeqPos = [u \in Sessions |-> SeqPos[u]] /\ SeqPos' = [u \in Sessions |-> SeqPos'[u]]
    BY DEF SeqPos
  <2> QED
    BY <2>1, <2>2, <2>3, <2>4
<1>8. SeqPos[s] = 0
  BY DEF SeqPos, Insert
<1> QED
  BY <1>2, <1>6, <1>7, <1>8 DEF Insert, Log!AppendEntry

\* The end of a call is the answer.
LEMMA AnswerRefines ==
    ASSUME Inv, NEW s \in Sessions, NEW n \in {0, SeqPos[s]}, pc[s] # "idle",
           Answer(s, n), UNCHANGED <<rows, lastId, calls>>
    PROVE  Log!Return(s)
<1>1. todo[s] # {}
  BY DEF Inv, TypeOK
<1>2. SeqLog' = SeqLog
  BY DEF SeqLog, Seqs, OfLoop
<1>3. SeqPos' = [SeqPos EXCEPT ![s] = 0]
  <2>1. SeqPos'[s] = 0
    BY DEF SeqPos, Answer, Inv, TypeOK
  <2>2. ASSUME NEW u \in Sessions, u # s PROVE SeqPos'[u] = SeqPos[u]
    <3>1. pc'[u] = pc[u] /\ rowid'[u] = rowid[u] /\ rows' = rows
      BY <2>2 DEF Answer, Inv, TypeOK
    <3>2. SeqPos[u] = IF pc[u] = "read" THEN (CHOOSE r \in rows : r.id = rowid[u]).seq ELSE 0
      BY DEF SeqPos
    <3>3. SeqPos'[u] = IF pc'[u] = "read" THEN (CHOOSE r \in rows' : r.id = rowid'[u]).seq ELSE 0
      BY DEF SeqPos
    <3>4. (CHOOSE r \in rows' : r.id = rowid'[u]) = (CHOOSE r \in rows : r.id = rowid[u])
      BY <3>1, Zenon
    <3> QED
      BY <3>1, <3>2, <3>3, <3>4, Zenon
  <2>3. SeqPos = [u \in Sessions |-> SeqPos[u]] /\ SeqPos' = [u \in Sessions |-> SeqPos'[u]]
    BY DEF SeqPos
  <2> QED
    BY <2>1, <2>2, <2>3
<1> QED
  BY <1>1, <1>2, <1>3 DEF Log!Return, Answer

\* A step that changes neither the table nor what a session has asked for or
\* was told is invisible.
LEMMA Invisible ==
    ASSUME Inv, rows' = rows, todo' = todo, reply' = reply, rowid' = rowid,
           \A s \in Sessions : (pc'[s] = "read") <=> (pc[s] = "read")
    PROVE  UNCHANGED Log!vars
<1>1. SeqLog' = SeqLog
  BY DEF SeqLog, Seqs, OfLoop
<1>2. SeqPos' = SeqPos
  BY DEF SeqPos
<1> QED
  BY <1>1, <1>2 DEF Log!vars

LEMMA StepRefines == Inv /\ Inv' /\ [Next]_vars => [Log!Next]_Log!vars
<1> SUFFICES ASSUME Inv, Inv', [Next]_vars PROVE [Log!Next]_Log!vars
  OBVIOUS
<1>1. ASSUME NEW s \in Sessions, NEW l \in Loops, NEW k \in {"checkpoint", "handoff"},
             NEW c \in Costs, Call(s, l, k, c)
      PROVE  Log!Next
  <2> DEFINE e == [call |-> calls + 1, kind |-> k, cost |-> c]
  <2>1. e \in Entries
    BY <1>1 DEF Call, Inv, TypeOK, Entries
  <2>2. SeqLog' = SeqLog
    BY <1>1 DEF Call, SeqLog, Seqs, OfLoop
  <2>3. SeqPos' = SeqPos
    BY <1>1 DEF Call, SeqPos, Inv, TypeOK
  <2>4. todo[s] = {}
    BY <1>1 DEF Call, Inv, TypeOK
  <2>5. Log!Ask(s, l, e)
    BY <1>1, <2>2, <2>3, <2>4 DEF Call, Log!Ask
  <2> QED
    BY <2>1, <2>5 DEF Log!Next
<1>2. ASSUME NEW s \in Sessions, List(s) PROVE [Log!Next]_Log!vars
  <2>1. CASE Answer(s, 0)
    BY <1>2, <2>1, AnswerRefines DEF List, Log!Next
  <2>2. CASE pc' = [pc EXCEPT ![s] = "insert"] /\ UNCHANGED <<todo, rowid, tries, reply>>
    BY <1>2, <2>2, Invisible DEF List, Inv, TypeOK
  <2> QED
    BY <1>2, <2>1, <2>2 DEF List
<1>3. ASSUME NEW s \in Sessions, Insert(s) PROVE Log!Next
  BY <1>3, InsertRefines DEF Log!Next
<1>4. ASSUME NEW s \in Sessions, Busy(s) PROVE [Log!Next]_Log!vars
  <2>1. CASE Answer(s, 0)
    BY <1>4, <2>1, AnswerRefines DEF Busy, Log!Next
  <2>2. CASE UNCHANGED <<pc, todo, rowid, reply>>
    BY <1>4, <2>2, Invisible DEF Busy
  <2> QED
    BY <1>4, <2>1, <2>2 DEF Busy
<1>5. ASSUME NEW s \in Sessions, ReadSeq(s) PROVE Log!Next
  <2>1. PICK r \in rows : r.id = rowid[s] /\ Answer(s, r.seq)
    BY <1>5 DEF ReadSeq
  <2>2. pc[s] = "read" /\ SeqPos[s] = r.seq
    BY <1>5, <2>1, MappedPos DEF ReadSeq
  <2>3. Log!Return(s)
    BY <1>5, <2>1, <2>2, AnswerRefines DEF ReadSeq
  <2> QED
    BY <2>3 DEF Log!Next
<1>6. ASSUME NEW s \in Sessions, Fault(s) PROVE Log!Next
  BY <1>6, AnswerRefines DEF Fault, Log!Next
<1>7. CASE UNCHANGED vars
  BY <1>7, Invisible DEF vars
<1> QED
  BY <1>1, <1>2, <1>3, <1>4, <1>5, <1>6, <1>7 DEF Next, Step

\* Whatever the number of sessions and loops: the INSERT with its subselect and
\* the SELECT by rowid implement an append that answers the caller's position.
THEOREM LedgerImplementsLog == Spec => LogSpec
<1>1. Spec => []Inv
  BY Invariance
<1> QED
  BY <1>1, InitRefines, StepRefines, PTL DEF Spec, LogSpec, Log!Spec

-----------------------------------------------------------------------------
(* Numbers *)

\* A nonempty set of numbers has a least one.
LEMMA LeastOf ==
    ASSUME NEW S \in SUBSET Nat, S # {}
    PROVE  \E m \in S : \A k \in S : m <= k
<1> DEFINE R == OpToRel(<, Nat)
<1>1. IsWellFoundedOn(R, Nat)
  BY NatLessThanWellFounded
<1> HIDE DEF R
<1>2. PICK m \in S : \A k \in S : ~ (<<k, m>> \in R)
  BY <1>1, WFMin
<1>3. ASSUME NEW k \in S PROVE m <= k
  <2>1. ~ (k < m)
    BY <1>2, <1>3 DEF R, OpToRel
  <2> QED
    BY <2>1
<1> QED
  BY <1>3

\* A nonempty set of numbers up to n has a greatest one.
LEMMA GreatestOf ==
    ASSUME NEW n \in Nat, NEW S \in SUBSET (0 .. n), S # {}
    PROVE  Max(S) \in S /\ \A k \in S : k <= Max(S)
<1> DEFINE T == {n - k : k \in S}
<1>1. T \in SUBSET Nat /\ T # {}
  <2>1. \A k \in S : k \in 0 .. n /\ n - k \in Nat
    OBVIOUS
  <2> QED
    BY <2>1
<1>2. PICK m \in T : \A j \in T : m <= j
  BY <1>1, LeastOf
<1>3. PICK k \in S : m = n - k
  BY <1>2
<1>4. \A j \in S : k >= j
  <2> TAKE j \in S
  <2>1. n - j \in T
    OBVIOUS
  <2>2. n - k <= n - j
    BY <1>2, <1>3, <2>1
  <2> QED
    BY <2>2
<1> QED
  BY <1>4 DEF Max

-----------------------------------------------------------------------------
(* The brief of resume *)

\* Rows of consecutive seqs, each once, are as many as their seqs.
LEMMA CountRows ==
    ASSUME NEW S, NEW a \in Nat, NEW n \in Nat,
           \A q, r \in S : q.seq = r.seq => q = r,
           {r.seq : r \in S} = a + 1 .. a + n
    PROVE  Cardinality(S) = n
<1> DEFINE f == [i \in 1 .. n |-> CHOOSE r \in S : r.seq = a + i]
<1>1. \A i \in 1 .. n : f[i] \in S /\ f[i].seq = a + i
  <2> TAKE i \in 1 .. n
  <2>1. a + i \in {r.seq : r \in S}
    OBVIOUS
  <2> QED
    BY <2>1
<1>2. \A r \in S : r.seq - a \in 1 .. n /\ a + (r.seq - a) = r.seq
  <2> TAKE r \in S
  <2>1. r.seq \in a + 1 .. a + n
    OBVIOUS
  <2> QED
    BY <2>1
<1>3. f \in [1 .. n -> S]
  BY <1>1
<1> HIDE DEF f
<1>4. \A i, j \in 1 .. n : f[i] = f[j] => i = j
  BY <1>1
<1>5. \A r \in S : \E i \in 1 .. n : f[i] = r
  BY <1>1, <1>2
<1>6. f \in Bijection(1 .. n, S)
  BY <1>3, <1>4, <1>5 DEF Bijection, Injection, Surjection, IsInjective
<1>7. ExistsBijection(1 .. n, S)
  BY <1>6 DEF ExistsBijection
<1> QED
  BY <1>7, FS_CountingElements

\* A loop of n checkpoints: its rows, and those after a seq.
HasRows(l, n) ==
    /\ Cardinality(OfLoop(l)) = n
    /\ \A r \in OfLoop(l) : r \in Row /\ r.seq \in 1 .. n
    /\ \A k \in 1 .. n : \E r \in OfLoop(l) : r.seq = k
    /\ \A q, r \in OfLoop(l) : q.seq = r.seq => q = r
    /\ \A k \in 0 .. n : Cardinality({q \in OfLoop(l) : q.seq > k}) = n - k

LEMMA LoopRows ==
    ASSUME Inv, NEW l \in Loops
    PROVE  \E n \in Nat : HasRows(l, n)
<1>1. PICK n \in 0 .. lastId : Seqs(l) = 1 .. n
  BY DEF Inv, SeqsAreDense
<1>2. n \in Nat
  BY DEF Inv, TypeOK
<1>3. \A q, r \in OfLoop(l) : q.seq = r.seq => q = r
  BY DEF Inv, SeqsAreDense
<1>4. \A r \in OfLoop(l) : r \in Row /\ r.seq \in 1 .. n
  BY <1>1 DEF Inv, TypeOK, OfLoop, Seqs, Row
<1>5. \A k \in 1 .. n : \E r \in OfLoop(l) : r.seq = k
  BY <1>1 DEF Seqs
<1>6. ASSUME NEW k \in 0 .. n PROVE Cardinality({q \in OfLoop(l) : q.seq > k}) = n - k
  <2> DEFINE S == {q \in OfLoop(l) : q.seq > k}
  <2>1. k \in Nat /\ n - k \in Nat /\ k + (n - k) = n
    BY <1>2
  <2>2. ASSUME NEW x PROVE x \in {r.seq : r \in S} <=> x \in k + 1 .. k + (n - k)
    BY <1>2, <1>4, <1>5, <2>1
  <2>3. {r.seq : r \in S} = k + 1 .. k + (n - k)
    BY <2>2
  <2>4. \A q, r \in S : q.seq = r.seq => q = r
    BY <1>3
  <2> HIDE DEF S
  <2>5. Cardinality(S) = n - k
    BY <2>1, <2>3, <2>4, CountRows
  <2> QED
    BY <2>5 DEF S
<1>7. Cardinality(OfLoop(l)) = n
  <2>1. {q \in OfLoop(l) : q.seq > 0} = OfLoop(l)
    BY <1>4
  <2>2. 0 \in 0 .. n /\ n - 0 = n
    BY <1>2
  <2> QED
    BY <1>6, <2>1, <2>2
<1> QED
  BY <1>2, <1>3, <1>4, <1>5, <1>6, <1>7 DEF HasRows

\* Rows of consecutive seqs, downwards.
LEMMA DescendingIs ==
    ASSUME NEW W \in SUBSET Row, NEW a \in Nat, NEW c \in Nat,
           \A q, r \in W : q.seq = r.seq => q = r,
           {r.seq : r \in W} = a + 1 .. a + c
    PROVE  /\ Cardinality(W) = c
           /\ Descending(W) \in Seq(Row) /\ Len(Descending(W)) = c
           /\ \A i \in 1 .. c : Descending(W)[i] \in W /\ Descending(W)[i].seq + i = a + c + 1
<1> DEFINE Above(r) == {q \in W : q.seq > r.seq}
           N == Descending(W)
<1>1. Cardinality(W) = c
  BY CountRows
<1>2. \A r \in W : r.seq \in a + 1 .. a + c
  OBVIOUS
<1>3. ASSUME NEW r \in W PROVE Cardinality(Above(r)) = a + c - r.seq
  <2> DEFINE S == Above(r)
             d == a + c - r.seq
  <2>1. r.seq \in Nat /\ d \in Nat /\ r.seq + d = a + c /\ r.seq >= a + 1
    BY <1>2
  <2>2. \A q, z \in S : q.seq = z.seq => q = z
    OBVIOUS
  <2>3. ASSUME NEW x PROVE x \in {q.seq : q \in S} <=> x \in r.seq + 1 .. r.seq + d
    <3>1. x \in r.seq + 1 .. r.seq + d => x \in {q.seq : q \in W} /\ x > r.seq
      BY <2>1
    <3>2. x \in {q.seq : q \in S} => x \in a + 1 .. a + c /\ x > r.seq
      BY <1>2
    <3>3. x \in a + 1 .. a + c /\ x > r.seq => x \in r.seq + 1 .. r.seq + d
      BY <2>1
    <3> QED
      BY <3>1, <3>2, <3>3
  <2>4. {q.seq : q \in S} = r.seq + 1 .. r.seq + d
    BY <2>3
  <2> HIDE DEF S, d
  <2>5. Cardinality(S) = d
    BY <2>1, <2>2, <2>4, CountRows
  <2> QED
    BY <2>5 DEF S, d
<1>4. N = [i \in 1 .. c |-> CHOOSE r \in W : Cardinality(Above(r)) = i - 1]
  BY <1>1, Zenon DEF Descending
<1>5. ASSUME NEW i \in 1 .. c PROVE \E r \in W : Cardinality(Above(r)) = i - 1
  <2>1. a + c - i + 1 \in a + 1 .. a + c /\ a + c - (a + c - i + 1) = i - 1
    OBVIOUS
  <2>2. PICK r \in W : r.seq = a + c - i + 1
    BY <2>1
  <2> QED
    BY <1>3, <2>1, <2>2
<1> HIDE DEF Above
<1>6. \A i \in 1 .. c : N[i] \in W /\ Cardinality(Above(N[i])) = i - 1
  BY <1>4, <1>5
<1>7. DOMAIN N = 1 .. c /\ N = [i \in 1 .. c |-> N[i]]
  BY <1>4
<1> HIDE DEF N
<1>8. ASSUME NEW i \in 1 .. c PROVE N[i] \in W /\ N[i].seq + i = a + c + 1
  <2>1. N[i] \in W /\ N[i].seq \in a + 1 .. a + c /\ a + c - N[i].seq = i - 1
    BY <1>2, <1>3, <1>6
  <2> QED
    BY <2>1
<1>9. N \in [1 .. c -> Row]
  BY <1>7, <1>8
<1>10. N \in Seq(Row) /\ Len(N) = c
  BY <1>9
<1> QED
  BY <1>1, <1>8, <1>10 DEF N

\* What LIMIT w leaves: the last w seqs, or all.
LEMMA WindowIs ==
    ASSUME NEW l \in Loops, NEW w \in Nat \ {0}, NEW n \in Nat, HasRows(l, n)
    PROVE  /\ Window(l, w) \subseteq OfLoop(l) /\ Window(l, w) \in SUBSET Row
           /\ \A q, r \in Window(l, w) : q.seq = r.seq => q = r
           /\ \E c \in 0 .. n : /\ c = IF n <= w THEN n ELSE w
                               /\ {r.seq : r \in Window(l, w)} = (n - c) + 1 .. (n - c) + c
<1> USE DEF HasRows
<1> DEFINE W == Window(l, w)
           c == IF n <= w THEN n ELSE w
<1>1. \A r \in OfLoop(l) : Cardinality({q \in OfLoop(l) : q.seq > r.seq}) = n - r.seq /\ r.seq \in Nat
  OBVIOUS
<1>2. \A r : r \in W <=> r \in OfLoop(l) /\ n - r.seq < w
  BY <1>1 DEF Window
<1>3. c \in Nat /\ c <= n /\ c <= w /\ n - c \in Nat /\ (n - c) + c = n
  OBVIOUS
<1>4. \A k \in 1 .. n : n - k < w <=> k \in (n - c) + 1 .. (n - c) + c
  BY <1>3
<1>5. c = IF n <= w THEN n ELSE w
  OBVIOUS
<1> HIDE DEF c
<1>6. ASSUME NEW x PROVE x \in {r.seq : r \in W} <=> x \in (n - c) + 1 .. (n - c) + c
  <2>1. x \in (n - c) + 1 .. (n - c) + c => x \in 1 .. n
    BY <1>3
  <2> QED
    BY <1>2, <1>4, <2>1
<1>7. {r.seq : r \in W} = (n - c) + 1 .. (n - c) + c
  BY <1>6
<1>8. W \subseteq OfLoop(l) /\ W \in SUBSET Row /\ \A q, r \in W : q.seq = r.seq => q = r
  BY <1>2
<1> QED
  BY <1>3, <1>5, <1>7, <1>8

\* ORDER BY seq DESC LIMIT w: the last w seqs, or all, downwards.
LEMMA NewestIs ==
    ASSUME NEW l \in Loops, NEW w \in Nat \ {0}, NEW n \in Nat, HasRows(l, n)
    PROVE  /\ Newest(l, w) \in Seq(Row)
           /\ Len(Newest(l, w)) = IF n <= w THEN n ELSE w
           /\ \A i \in 1 .. Len(Newest(l, w)) : Newest(l, w)[i] \in OfLoop(l) /\ Newest(l, w)[i].seq = n - i + 1
<1> DEFINE win == Window(l, w)
<1>1. win \subseteq OfLoop(l) /\ win \in SUBSET Row /\ \A q, r \in win : q.seq = r.seq => q = r
  BY WindowIs
<1>2. PICK c \in 0 .. n : /\ c = IF n <= w THEN n ELSE w
                         /\ {r.seq : r \in win} = (n - c) + 1 .. (n - c) + c
  BY WindowIs
<1> DEFINE low == n - c
<1>3. low \in Nat /\ c \in Nat /\ low + c = n /\ {r.seq : r \in win} = low + 1 .. low + c
  BY <1>2
<1> HIDE DEF win, low
<1>4. /\ Descending(win) \in Seq(Row) /\ Len(Descending(win)) = c
      /\ \A i \in 1 .. c : Descending(win)[i] \in win /\ Descending(win)[i].seq + i = low + c + 1
  BY <1>1, <1>3, DescendingIs
<1>5. Newest(l, w) = Descending(win)
  BY DEF Newest, win
<1> HIDE DEF Newest
<1>6. \A i \in 1 .. c : Newest(l, w)[i] \in OfLoop(l) /\ Newest(l, w)[i].seq = n - i + 1
  <2> TAKE i \in 1 .. c
  <2>1. Descending(win)[i] \in win /\ Descending(win)[i].seq + i = n + 1 /\ i \in Nat
    BY <1>3, <1>4
  <2>2. Descending(win)[i].seq \in Nat /\ Descending(win)[i] \in OfLoop(l)
    BY <1>1, <2>1 DEF Row
  <2> QED
    BY <1>5, <2>1, <2>2
<1> QED
  BY <1>2, <1>4, <1>5, <1>6

\* The running costs exist for every list of rows: were there a shortest list
\* without them, those of the list before it would extend to it.
LEMMA SumsExist ==
    ASSUME NEW n \in Nat, NEW c \in [1 .. n -> Nat]
    PROVE  \E f \in [0 .. n -> Nat] : f[0] = 0 /\ \A i \in 1 .. n : f[i] = f[i - 1] + c[i]
<1> DEFINE Sums(k, f) == f[0] = 0 /\ \A i \in 1 .. k : f[i] = f[i - 1] + c[i]
           S == {k \in 0 .. n : ~ \E f \in [0 .. k -> Nat] : Sums(k, f)}
<1>1. CASE S = {}
  <2>1. n \in 0 .. n
    OBVIOUS
  <2> QED
    BY <1>1, <2>1
<1>2. CASE S # {}
  <2>1. S \in SUBSET Nat
    OBVIOUS
  <2> HIDE DEF S
  <2>2. PICK m \in S : \A k \in S : m <= k
    BY <1>2, <2>1, LeastOf
  <2>3. m \in 0 .. n /\ ~ \E f \in [0 .. m -> Nat] : Sums(m, f)
    BY DEF S
  <2>4. CASE m = 0
    <3> DEFINE f == [i \in 0 .. 0 |-> 0]
    <3>1. f \in [0 .. m -> Nat] /\ Sums(m, f)
      BY <2>4
    <3> QED
      BY <2>3, <3>1
  <2>5. CASE m # 0
    <3>1. m \in Nat /\ m - 1 \in 0 .. n /\ m - 1 < m /\ m \in 1 .. n
      BY <2>3, <2>5
    <3>2. m - 1 \notin S
      BY <2>2, <3>1
    <3>3. PICK f \in [0 .. m - 1 -> Nat] : Sums(m - 1, f)
      BY <3>1, <3>2 DEF S
    <3> DEFINE g == [i \in 0 .. m |-> IF i = m THEN f[m - 1] + c[m] ELSE f[i]]
    <3>4. g \in [0 .. m -> Nat]
      BY <3>1
    <3>5. g[0] = 0
      BY <3>1, <3>3
    <3>6. ASSUME NEW i \in 1 .. m PROVE g[i] = g[i - 1] + c[i]
      <4>1. CASE i = m
        BY <3>1, <4>1
      <4>2. CASE i # m
        <5>1. i \in 1 .. m - 1 /\ i - 1 \in 0 .. m /\ i - 1 # m /\ i \in 0 .. m
          BY <3>1, <4>2
        <5>2. f[i] = f[i - 1] + c[i]
          BY <3>3, <5>1
        <5> QED
          BY <4>2, <5>1, <5>2
      <4> QED
        BY <4>1, <4>2
    <3> QED
      BY <2>3, <3>4, <3>5, <3>6
  <2> QED
    BY <2>4, <2>5
<1> QED
  BY <1>1, <1>2

\* The budget loop's running costs, entry by entry.
LEMMA SpentIs ==
    ASSUME NEW es \in Seq(Row)
    PROVE  /\ Spent(es) \in [0 .. Len(es) -> Nat]
           /\ Spent(es)[0] = 0
           /\ \A i \in 1 .. Len(es) : Spent(es)[i] = Spent(es)[i - 1] + es[i].entry.cost
<1> DEFINE n == Len(es)
           c == [i \in 1 .. n |-> es[i].entry.cost]
           Rec(f) == [i \in 0 .. n |-> IF i = 0 THEN 0 ELSE f[i - 1] + es[i].entry.cost]
<1>1. n \in Nat
  OBVIOUS
<1>2. \A i \in 1 .. n : es[i] \in Row /\ es[i].entry.cost \in Nat
  <2>1. \A i \in 1 .. n : es[i] \in Row
    OBVIOUS
  <2>2. \A r \in Row : r.entry.cost \in Nat
    BY LedgerAssumption DEF Row, Entries
  <2> HIDE DEF n
  <2> QED
    BY <2>1, <2>2
<1>3. c \in [1 .. n -> Nat]
  BY <1>2
<1>4. \A i \in 1 .. n : c[i] = es[i].entry.cost
  OBVIOUS
<1> HIDE DEF c, n
<1>5. PICK f \in [0 .. n -> Nat] : f[0] = 0 /\ \A i \in 1 .. n : f[i] = f[i - 1] + c[i]
  BY <1>1, <1>3, SumsExist
<1>6. f = Rec(f)
  <2>1. ASSUME NEW i \in 0 .. n PROVE f[i] = Rec(f)[i]
    <3>1. CASE i = 0
      BY <1>5, <3>1
    <3>2. CASE i # 0
      <4>1. i \in 1 .. n
        BY <1>1, <3>2
      <4> QED
        BY <1>4, <1>5, <3>2, <4>1
    <3> QED
      BY <3>1, <3>2
  <2> QED
    BY <2>1
<1> DEFINE u == CHOOSE g : g = Rec(g)
<1>7. Spent(es) = u
  BY Zenon DEF Spent, n
<1>8. u = Rec(u)
  BY <1>6, Zenon
<1> HIDE DEF u
<1>9. u[0] = 0 /\ \A i \in 1 .. n : u[i] = u[i - 1] + es[i].entry.cost
  <2> HIDE DEF Rec
  <2>1. 0 \in 0 .. n
    BY <1>1
  <2>2. Rec(u)[0] = 0
    BY <2>1 DEF Rec
  <2>3. ASSUME NEW i \in 1 .. n PROVE Rec(u)[i] = u[i - 1] + es[i].entry.cost
    <3>1. i \in 0 .. n /\ i # 0
      BY <1>1
    <3> QED
      BY <3>1 DEF Rec
  <2> QED
    BY <1>8, <2>2, <2>3, Zenon
<1>10. ASSUME NEW i \in 0 .. n PROVE u[i] \in Nat
  <2> DEFINE S == {k \in 0 .. n : u[k] \notin Nat}
  <2>1. CASE S = {}
    BY <2>1
  <2>2. CASE S # {}
    <3>1. S \in SUBSET Nat
      OBVIOUS
    <3> HIDE DEF S
    <3>2. PICK m \in S : \A k \in S : m <= k
      BY <2>2, <3>1, LeastOf
    <3>3. m \in 0 .. n /\ u[m] \notin Nat
      BY DEF S
    <3>4. m # 0
      BY <1>9, <3>3
    <3>5. m \in 1 .. n /\ m - 1 \in 0 .. n /\ ~ (m <= m - 1)
      BY <1>1, <3>3, <3>4
    <3>6. u[m - 1] \in Nat
      BY <3>2, <3>5 DEF S
    <3>7. u[m] = u[m - 1] + es[m].entry.cost
      BY <1>9, <3>5
    <3> QED
      BY <1>2, <3>3, <3>5, <3>6, <3>7
  <2> QED
    BY <2>1, <2>2
<1>11. u \in [0 .. n -> Nat]
  <2>1. u = [i \in 0 .. n |-> u[i]]
    BY <1>8
  <2> QED
    BY <1>10, <2>1
<1> QED
  BY <1>7, <1>9, <1>11 DEF n

\* What satisfies the recursion on the first k entries is what was spent on them.
LEMMA SpentSteps ==
    ASSUME NEW b \in Seq(Row), NEW k \in 0 .. Len(b), NEW g \in [0 .. k -> Int], g[0] = 0,
           \A i \in 1 .. k : g[i] = g[i - 1] + b[i].entry.cost
    PROVE  \A i \in 0 .. k : Spent(b)[i] = g[i]
<1> DEFINE S == {i \in 0 .. k : Spent(b)[i] # g[i]}
<1>1. CASE S = {}
  BY <1>1
<1>2. CASE S # {}
  <2>1. S \in SUBSET Nat
    OBVIOUS
  <2> HIDE DEF S
  <2>2. PICK m \in S : \A i \in S : m <= i
    BY <1>2, <2>1, LeastOf
  <2>3. m \in 0 .. k /\ Spent(b)[m] # g[m]
    BY DEF S
  <2>4. m # 0
    BY <2>3, SpentIs
  <2>5. m \in 1 .. k /\ m - 1 \in 0 .. k /\ ~ (m <= m - 1) /\ m \in 1 .. Len(b)
    BY <2>3, <2>4
  <2>6. Spent(b)[m - 1] = g[m - 1]
    BY <2>2, <2>5 DEF S
  <2>7. Spent(b)[m] = Spent(b)[m - 1] + b[m].entry.cost
    BY <2>5, SpentIs
  <2> QED
    BY <2>3, <2>5, <2>6, <2>7
<1> QED
  BY <1>1, <1>2

\* The entries a budget admits: the first N, N at least one, and the next one
\* would not fit.
LEMMA IncludedIs ==
    ASSUME NEW es \in Seq(Row), Len(es) > 0, NEW budget \in Nat
    PROVE  \E N \in 1 .. Len(es) :
               /\ Included(es, budget) = SubSeq(es, 1, N)
               /\ \A j \in 2 .. N : Spent(es)[j] <= budget
               /\ N < Len(es) => Spent(es)[N + 1] > budget
<1> DEFINE U == Spent(es)
           c == Len(es)
           F == {i \in 1 .. c : \A j \in 2 .. i : U[j] <= budget}
           S == {0} \cup F
           N == Max(S)
<1>1. c \in Nat /\ c > 0 /\ U \in [0 .. c -> Nat]
  BY SpentIs
<1>2. Included(es, budget) = SubSeq(es, 1, N)
  BY Zenon DEF Included
<1> HIDE DEF c, U
<1>3. 1 \in F
  BY <1>1
<1>4. S \in SUBSET (0 .. c) /\ S # {}
  BY <1>1
<1>5. N \in S /\ \A k \in S : k <= N
  BY <1>1, <1>4, GreatestOf
<1> HIDE DEF N
<1>6. N \in F
  <2>1. 1 <= N
    BY <1>3, <1>5
  <2> QED
    BY <1>5, <2>1
<1>7. N \in 1 .. c /\ \A j \in 2 .. N : U[j] <= budget
  BY <1>6
<1>8. ASSUME N < c PROVE U[N + 1] > budget
  <2>1. N + 1 \in 1 .. c /\ ~ (N + 1 <= N)
    BY <1>1, <1>7, <1>8
  <2>2. N + 1 \notin F
    BY <1>5, <2>1
  <2>3. PICK j \in 2 .. N + 1 : ~ (U[j] <= budget)
    BY <2>1, <2>2
  <2>4. j = N + 1
    BY <1>7, <2>3
  <2>5. U[N + 1] \in Nat
    BY <1>1, <2>1
  <2> QED
    BY <2>3, <2>4, <2>5
<1> QED
  BY <1>2, <1>7, <1>8 DEF c, U

\* Oldest first costs what newest first costs.
LEMMA ReversedCost ==
    ASSUME NEW es \in Seq(Row), NEW N \in 1 .. Len(es), NEW b \in Seq(Row), Len(b) = N,
           \A i \in 1 .. N : b[i] = es[N + 1 - i]
    PROVE  Cost(b) = Spent(es)[N]
<1> DEFINE U == Spent(es)
           g == [j \in 0 .. N |-> U[N] - U[N - j]]
<1>1. U \in [0 .. Len(es) -> Nat] /\ U[0] = 0 /\ \A i \in 1 .. Len(es) : U[i] = U[i - 1] + es[i].entry.cost
  BY SpentIs
<1> HIDE DEF U
<1>2. N \in Nat /\ N \in 0 .. Len(b) /\ U[N] \in Nat /\ \A j \in 0 .. N : U[N - j] \in Nat
  <2>1. N \in Nat /\ N \in 0 .. Len(b) /\ N \in 0 .. Len(es)
    OBVIOUS
  <2>2. \A j \in 0 .. N : N - j \in 0 .. Len(es)
    BY <2>1
  <2>3. \A k \in 0 .. Len(es) : U[k] \in Nat
    BY <1>1
  <2> QED
    BY <2>1, <2>2, <2>3
<1>3. \A j \in 0 .. N : g[j] = U[N] - U[N - j] /\ g[j] \in Int
  BY <1>2
<1>4. g \in [0 .. N -> Int]
  BY <1>3
<1> HIDE DEF g
<1>5. g[0] = 0 /\ g[N] = U[N]
  <2>1. N - 0 = N /\ N - N = 0 /\ 0 \in 0 .. N /\ N \in 0 .. N
    BY <1>2
  <2>2. g[0] = U[N] - U[N] /\ g[N] = U[N] - 0
    BY <1>1, <1>3, <2>1
  <2> QED
    BY <1>2, <2>2
<1>6. ASSUME NEW i \in 1 .. N PROVE g[i] = g[i - 1] + b[i].entry.cost
  <2>1. i \in 0 .. N /\ i - 1 \in 0 .. N /\ N + 1 - i \in 1 .. Len(es)
        /\ N - (i - 1) = N + 1 - i /\ (N + 1 - i) - 1 = N - i
    BY <1>2
  <2>2. U[N + 1 - i] = U[N - i] + b[i].entry.cost
    BY <1>1, <2>1
  <2>3. U[N - i] \in Nat /\ U[N + 1 - i] \in Nat /\ U[N] \in Nat
    <3>1. U[N - (i - 1)] \in Nat
      BY <1>2, <2>1
    <3> QED
      BY <1>2, <2>1, <3>1
  <2>4. g[i] = U[N] - U[N - i] /\ g[i - 1] = U[N] - U[N + 1 - i]
    BY <1>3, <2>1
  <2>5. b[i].entry.cost \in Nat
    <3>1. b[i] \in Row
      OBVIOUS
    <3> QED
      BY <3>1, LedgerAssumption DEF Row, Entries
  <2> QED
    BY <2>2, <2>3, <2>4, <2>5
<1>7. Spent(b)[N] = g[N]
  BY <1>2, <1>4, <1>5, <1>6, SpentSteps
<1> QED
  BY <1>5, <1>7 DEF Cost, U

\* And so does the order in which the newest leads.
LEMMA RotatedCost ==
    ASSUME NEW es \in Seq(Row), NEW N \in 1 .. Len(es), NEW b \in Seq(Row), Len(b) = N,
           b[1] = es[1], \A i \in 2 .. N : b[i] = es[N + 2 - i]
    PROVE  Cost(b) = Spent(es)[N]
<1> DEFINE U == Spent(es)
           g == [j \in 0 .. N |-> IF j = 0 THEN 0 ELSE U[1] + U[N] - U[N - j + 1]]
<1>1. U \in [0 .. Len(es) -> Nat] /\ U[0] = 0 /\ \A i \in 1 .. Len(es) : U[i] = U[i - 1] + es[i].entry.cost
  BY SpentIs
<1> HIDE DEF U
<1>2. /\ N \in Nat /\ N \in 0 .. Len(b) /\ 1 \in 1 .. N /\ 1 \in 1 .. Len(es)
      /\ U[1] \in Nat /\ U[N] \in Nat /\ \A j \in 1 .. N : U[N - j + 1] \in Nat
  <2>1. N \in Nat /\ N \in 0 .. Len(b) /\ 1 \in 1 .. N /\ 1 \in 1 .. Len(es) /\ 1 \in 0 .. Len(es) /\ N \in 0 .. Len(es)
    OBVIOUS
  <2>2. \A j \in 1 .. N : N - j + 1 \in 0 .. Len(es)
    BY <2>1
  <2>3. \A k \in 0 .. Len(es) : U[k] \in Nat
    BY <1>1
  <2> QED
    BY <2>1, <2>2, <2>3
<1>3. \A j \in 1 .. N : g[j] = U[1] + U[N] - U[N - j + 1] /\ g[j] \in Int
  BY <1>1, <1>2
<1>4. g[0] = 0
  BY <1>2
<1>5. g \in [0 .. N -> Int]
  BY <1>2, <1>3, <1>4
<1> HIDE DEF g
<1>6. g[1] = U[1] /\ g[N] = U[N]
  <2>1. N - 1 + 1 = N /\ N - N + 1 = 1 /\ N \in 1 .. N
    BY <1>2
  <2>2. g[1] = U[1] + U[N] - U[N] /\ g[N] = U[1] + U[N] - U[1]
    BY <1>2, <1>3, <2>1
  <2> QED
    BY <1>2, <2>2
<1>7. ASSUME NEW i \in 1 .. N PROVE g[i] = g[i - 1] + b[i].entry.cost
  <2>1. b[i].entry.cost \in Nat
    <3>1. b[i] \in Row
      OBVIOUS
    <3> QED
      BY <3>1, LedgerAssumption DEF Row, Entries
  <2>2. CASE i = 1
    <3>1. U[1] = U[1 - 1] + es[1].entry.cost
      BY <1>1, <1>2
    <3>2. 1 - 1 = 0
      OBVIOUS
    <3> QED
      BY <1>1, <1>4, <1>6, <2>1, <2>2, <3>1, <3>2
  <2>3. CASE i # 1
    <3>1. /\ i \in 2 .. N /\ i - 1 \in 1 .. N /\ N + 2 - i \in 1 .. Len(es)
          /\ N - (i - 1) + 1 = N + 2 - i /\ (N + 2 - i) - 1 = N - i + 1
      BY <1>2, <2>3
    <3>2. U[N + 2 - i] = U[N - i + 1] + b[i].entry.cost
      BY <1>1, <3>1
    <3>3. g[i] = U[1] + U[N] - U[N - i + 1] /\ g[i - 1] = U[1] + U[N] - U[N + 2 - i]
      BY <1>3, <3>1
    <3>4. U[N - i + 1] \in Nat /\ U[N + 2 - i] \in Nat
      BY <1>1, <1>2, <3>1
    <3> DEFINE x == U[1]
               y == U[N]
               z == U[N - i + 1]
               d == b[i].entry.cost
    <3>5. x \in Nat /\ y \in Nat /\ z \in Nat /\ d \in Nat
      BY <1>2, <2>1, <3>4
    <3>6. g[i] = x + y - z /\ g[i - 1] = x + y - (z + d)
      BY <3>2, <3>3
    <3> HIDE DEF x, y, z, d
    <3>7. g[i] = g[i - 1] + d
      BY <3>5, <3>6
    <3> QED
      BY <3>7 DEF d
  <2> QED
    BY <2>2, <2>3
<1>8. Spent(b)[N] = g[N]
  BY <1>2, <1>4, <1>5, <1>7, SpentSteps
<1> QED
  BY <1>6, <1>8 DEF Cost, U

\* The included rows, oldest first, or with the newest in front.
LEMMA BriefRows ==
    ASSUME NEW es \in Seq(Row), NEW N \in 1 .. Len(es)
    PROVE  LET inc == SubSeq(es, 1, N)
               asc == Reverse(inc)
               rot == <<inc[1]>> \o SubSeq(asc, 1, Len(asc) - 1)
           IN  /\ Len(inc) = N /\ inc[1] = es[1]
               /\ asc \in Seq(Row) /\ Len(asc) = N /\ \A i \in 1 .. N : asc[i] = es[N + 1 - i]
               /\ rot \in Seq(Row) /\ Len(rot) = N /\ rot[1] = es[1]
               /\ \A i \in 2 .. N : rot[i] = es[N + 2 - i]
<1> DEFINE inc == SubSeq(es, 1, N)
           asc == Reverse(inc)
           up  == SubSeq(asc, 1, Len(asc) - 1)
           rot == <<inc[1]>> \o up
<1>1. N \in Nat /\ N >= 1 /\ 1 \in 1 .. N /\ 1 \in 1 .. Len(es) /\ N <= Len(es)
  OBVIOUS
<1>2. inc \in Seq(Row) /\ Len(inc) = N /\ \A i \in 1 .. N : inc[i] = es[i]
  BY <1>1
<1> HIDE DEF inc
<1>3. asc = [i \in 1 .. N |-> inc[(N - i) + 1]]
  BY <1>2 DEF Reverse
<1>4. \A i \in 1 .. N : (N - i) + 1 \in 1 .. N /\ (N - i) + 1 = N + 1 - i
  BY <1>1
<1> HIDE DEF asc
<1>5. \A i \in 1 .. N : asc[i] = es[N + 1 - i] /\ asc[i] \in Row
  <2> TAKE i \in 1 .. N
  <2>1. asc[i] = inc[(N - i) + 1]
    BY <1>3
  <2>2. asc[i] = es[(N - i) + 1] /\ (N - i) + 1 \in 1 .. Len(es)
    BY <1>1, <1>2, <1>4, <2>1
  <2> QED
    BY <1>4, <2>2
<1>6. asc \in Seq(Row) /\ Len(asc) = N
  <2>1. asc \in [1 .. N -> Row]
    BY <1>3, <1>5
  <2> QED
    BY <1>1, <2>1
<1>7. up \in Seq(Row) /\ Len(up) = N - 1 /\ \A i \in 1 .. N - 1 : up[i] = asc[i]
  BY <1>1, <1>6
<1> HIDE DEF up
<1> DEFINE h == <<inc[1]>>
<1>8. h \in Seq(Row) /\ Len(h) = 1 /\ h[1] = es[1]
  BY <1>1, <1>2
<1>9. rot = h \o up
  OBVIOUS
<1> HIDE DEF h, rot
<1>10. rot \in Seq(Row) /\ Len(rot) = N /\ rot[1] = es[1] /\ \A i \in 2 .. N : rot[i] = up[i - 1]
  <2>1. /\ rot \in Seq(Row) /\ Len(rot) = Len(h) + Len(up)
        /\ \A i \in 1 .. Len(h) + Len(up) : rot[i] = IF i <= Len(h) THEN h[i] ELSE up[i - Len(h)]
    BY <1>7, <1>8, <1>9, ConcatProperties, Zenon
  <2>2. Len(h) + Len(up) = N
    BY <1>1, <1>7, <1>8
  <2>3. \A i \in 1 .. N : rot[i] = IF i <= 1 THEN h[i] ELSE up[i - 1]
    BY <1>8, <2>1, <2>2, Zenon
  <2>4. rot[1] = h[1]
    BY <1>1, <2>3
  <2>5. ASSUME NEW i \in 2 .. N PROVE rot[i] = up[i - 1]
    <3>1. i \in 1 .. N /\ ~ (i <= 1)
      BY <1>1
    <3> QED
      BY <2>3, <3>1, Zenon
  <2> QED
    BY <1>8, <2>1, <2>2, <2>4, <2>5
<1>11. ASSUME NEW i \in 2 .. N PROVE rot[i] = es[N + 2 - i]
  <2>1. i - 1 \in 1 .. N - 1 /\ i - 1 \in 1 .. N /\ N + 1 - (i - 1) = N + 2 - i
    BY <1>1
  <2> QED
    BY <1>5, <1>7, <1>10, <2>1
<1> QED
  BY <1>1, <1>2, <1>5, <1>6, <1>10, <1>11 DEF inc, asc, up, rot, h

\* Put back behind the others, a row that leads is where its seq belongs.
LEMMA PutBack ==
    ASSUME NEW b \in Seq(Row), NEW N \in Nat, N > 1, Len(b) = N
    PROVE  LET asc == Tail(b) \o <<b[1]>>
           IN  /\ DOMAIN asc = 1 .. N /\ asc[N] = b[1]
               /\ \A i \in 1 .. N - 1 : asc[i] = b[i + 1]
<1> DEFINE t == Tail(b)
           e == <<b[1]>>
           asc == t \o e
<1>1. t \in Seq(Row) /\ Len(t) = N - 1 /\ \A i \in 1 .. N - 1 : t[i] = b[i + 1]
  OBVIOUS
<1>2. e \in Seq(Row) /\ Len(e) = 1 /\ e[1] = b[1]
  OBVIOUS
<1> HIDE DEF t, e
<1>3. /\ asc \in Seq(Row) /\ Len(asc) = Len(t) + Len(e)
      /\ \A i \in 1 .. Len(t) + Len(e) : asc[i] = IF i <= Len(t) THEN t[i] ELSE e[i - Len(t)]
  BY <1>1, <1>2, ConcatProperties, Zenon
<1> HIDE DEF asc
<1>4. Len(t) + Len(e) = N /\ N - Len(t) = 1 /\ N \in 1 .. N /\ ~ (N <= Len(t))
  BY <1>1, <1>2
<1>5. asc[N] = b[1]
  BY <1>2, <1>3, <1>4
<1>6. ASSUME NEW i \in 1 .. N - 1 PROVE asc[i] = b[i + 1]
  <2>1. i \in 1 .. N /\ i <= Len(t)
    BY <1>1
  <2> QED
    BY <1>1, <1>3, <1>4, <2>1
<1>7. DOMAIN asc = 1 .. N
  BY <1>3, <1>4
<1> QED
  BY <1>5, <1>6, <1>7 DEF asc, t, e

LEMMA InvBrief == Inv => BriefIsTail
<1> SUFFICES ASSUME Inv, NEW l \in Loops, NEW budget \in Budgets
             PROVE  LET b     == Brief(l, budget)
                        n     == Cardinality(OfLoop(l))
                        asc   == IF Len(b) > 1 /\ b[1].seq = n THEN Tail(b) \o <<b[1]>> ELSE b
                        older == {r \in OfLoop(l) : r.seq = n - Len(b)}
                    IN  n > 0 =>
                            /\ Len(b) \in 1 .. ResumeWindow
                            /\ \A i \in DOMAIN asc : asc[i].seq = n - Len(b) + i
                            /\ Len(b) > 1 =>
                                   /\ Cost(b) <= budget
                                   /\ b[1].seq = n <=> \E r \in OfLoop(l) : r.seq = n /\ IsHandoff(r)
                            /\ Len(b) < ResumeWindow => \A r \in older : Cost(b) + r.entry.cost > budget
  BY Zenon DEF BriefIsTail
<1> DEFINE b     == Brief(l, budget)
           asc   == IF Len(b) > 1 /\ b[1].seq = Cardinality(OfLoop(l)) THEN Tail(b) \o <<b[1]>> ELSE b
           es    == Newest(l, ResumeWindow)
<1>1. budget \in Nat /\ ResumeWindow \in Nat \ {0}
  BY BriefAssumption
<1>n. PICK n \in Nat : HasRows(l, n)
  BY LoopRows
<1>2. /\ Cardinality(OfLoop(l)) = n
      /\ \A r \in OfLoop(l) : r.seq \in 1 .. n
      /\ \A q, r \in OfLoop(l) : q.seq = r.seq => q = r
  BY <1>n DEF HasRows
<1> SUFFICES ASSUME n > 0
             PROVE  /\ Len(b) \in 1 .. ResumeWindow
                    /\ \A i \in DOMAIN asc : asc[i].seq = n - Len(b) + i
                    /\ Len(b) > 1 =>
                           /\ Cost(b) <= budget
                           /\ b[1].seq = n <=> \E r \in OfLoop(l) : r.seq = n /\ IsHandoff(r)
                    /\ Len(b) < ResumeWindow =>
                           \A r \in OfLoop(l) : r.seq = n - Len(b) => Cost(b) + r.entry.cost > budget
  BY <1>2
<1>3. /\ es \in Seq(Row)
      /\ Len(es) = IF n <= ResumeWindow THEN n ELSE ResumeWindow
      /\ \A i \in 1 .. Len(es) : es[i] \in OfLoop(l) /\ es[i].seq = n - i + 1
  BY <1>1, <1>n, NewestIs, Zenon
<1>4. Brief(l, budget) = LET inc == Included(es, budget)
                             up  == Reverse(inc)
                         IN  IF Len(inc) > 1 /\ IsHandoff(inc[1]) THEN <<inc[1]>> \o SubSeq(up, 1, Len(up) - 1) ELSE up
  BY Zenon DEF Brief
<1> HIDE DEF es
<1>5. Len(es) \in Nat /\ Len(es) > 0 /\ Len(es) <= n /\ Len(es) <= ResumeWindow
  BY <1>1, <1>3
<1>6. PICK N \in 1 .. Len(es) :
         /\ Included(es, budget) = SubSeq(es, 1, N)
         /\ \A j \in 2 .. N : Spent(es)[j] <= budget
         /\ N < Len(es) => Spent(es)[N + 1] > budget
  BY <1>1, <1>3, <1>5, IncludedIs
<1> DEFINE inc == SubSeq(es, 1, N)
           up  == Reverse(inc)
           rot == <<inc[1]>> \o SubSeq(up, 1, Len(up) - 1)
<1>7. b = IF Len(inc) > 1 /\ IsHandoff(inc[1]) THEN rot ELSE up
  BY <1>4, <1>6, Zenon
<1>8. /\ Len(inc) = N /\ inc[1] = es[1]
      /\ up \in Seq(Row) /\ Len(up) = N /\ \A i \in 1 .. N : up[i] = es[N + 1 - i]
      /\ rot \in Seq(Row) /\ Len(rot) = N /\ rot[1] = es[1]
      /\ \A i \in 2 .. N : rot[i] = es[N + 2 - i]
  BY <1>3, BriefRows, Zenon
<1> HIDE DEF inc, up, rot, b
<1>9. N \in Nat /\ N >= 1 /\ N <= n /\ N \in 1 .. ResumeWindow /\ 1 \in 1 .. Len(es)
  BY <1>1, <1>5
<1>10. es[1] \in OfLoop(l) /\ es[1].seq = n
  BY <1>3, <1>9
<1>11. b \in Seq(Row) /\ Len(b) = N /\ Cost(b) = Spent(es)[N]
  <2>1. Cost(up) = Spent(es)[N]
    BY <1>3, <1>8, ReversedCost
  <2>2. Cost(rot) = Spent(es)[N]
    BY <1>3, <1>8, RotatedCost
  <2> QED
    BY <1>7, <1>8, <2>1, <2>2
<1>12. asc = IF N > 1 /\ b[1].seq = n THEN Tail(b) \o <<b[1]>> ELSE b
  BY <1>2, <1>11
<1> HIDE DEF asc
\* The rows, and which leads.
<1>13. /\ \A i \in DOMAIN asc : asc[i].seq = n - N + i
       /\ N > 1 => (b[1].seq = n <=> IsHandoff(es[1]))
  <2>1. CASE N > 1 /\ IsHandoff(es[1])
    <3>1. b = rot
      BY <1>7, <1>8, <2>1
    <3> DEFINE a == Tail(b) \o <<b[1]>>
    <3>2. asc = a /\ b[1].seq = n
      BY <1>8, <1>10, <1>12, <2>1, <3>1
    <3>3. DOMAIN a = 1 .. N /\ a[N] = b[1] /\ \A i \in 1 .. N - 1 : a[i] = b[i + 1]
      BY <1>9, <1>11, <2>1, PutBack
    <3> HIDE DEF a
    <3>4. ASSUME NEW i \in 1 .. N PROVE a[i].seq = n - N + i
      <4>1. CASE i = N
        BY <1>9, <3>2, <3>3, <4>1
      <4>2. CASE i # N
        <5>1. i \in 1 .. N - 1 /\ i + 1 \in 2 .. N /\ N + 2 - (i + 1) = N + 1 - i /\ N + 1 - i \in 1 .. Len(es)
          BY <1>9, <4>2
        <5>2. a[i] = es[N + 1 - i]
          BY <1>8, <3>1, <3>3, <5>1
        <5>3. a[i].seq = n - (N + 1 - i) + 1
          BY <1>3, <5>1, <5>2
        <5> QED
          BY <1>9, <5>3
      <4> QED
        BY <4>1, <4>2
    <3> QED
      BY <2>1, <3>2, <3>3, <3>4
  <2>2. CASE ~ (N > 1 /\ IsHandoff(es[1]))
    <3>1. b = up
      BY <1>7, <1>8, <2>2
    <3>2. ASSUME NEW i \in 1 .. N PROVE b[i].seq = n - N + i
      <4>1. N + 1 - i \in 1 .. Len(es)
        BY <1>9
      <4>2. b[i].seq = n - (N + 1 - i) + 1
        BY <1>3, <1>8, <3>1, <4>1
      <4> QED
        BY <1>9, <4>2
    <3>3. N > 1 => b[1].seq # n
      BY <1>9, <3>2
    <3>4. asc = b /\ DOMAIN b = 1 .. N
      BY <1>11, <1>12, <3>3
    <3> QED
      BY <2>2, <3>2, <3>3, <3>4
  <2> QED
    BY <2>1, <2>2
<1>14. IsHandoff(es[1]) <=> \E r \in OfLoop(l) : r.seq = n /\ IsHandoff(r)
  BY <1>2, <1>10
<1>15. N > 1 => Cost(b) <= budget
  <2>1. N > 1 => N \in 2 .. N
    BY <1>9
  <2> QED
    BY <1>6, <1>11, <2>1
<1>16. ASSUME N < ResumeWindow, NEW r \in OfLoop(l), r.seq = n - N
       PROVE  Cost(b) + r.entry.cost > budget
  <2>1. r.seq \in 1 .. n
    BY <1>2
  <2>2. N < n /\ N < Len(es) /\ N + 1 \in 1 .. Len(es)
    BY <1>1, <1>3, <1>5, <1>9, <1>16, <2>1
  <2>3. es[N + 1] \in OfLoop(l) /\ es[N + 1].seq = n - (N + 1) + 1
    BY <1>3, <2>2
  <2>4. es[N + 1].seq = r.seq
    BY <1>9, <1>16, <2>3
  <2>5. r = es[N + 1]
    BY <1>2, <2>3, <2>4
  <2>6. Spent(es)[N + 1] = Spent(es)[N + 1 - 1] + es[N + 1].entry.cost /\ N + 1 - 1 = N
    BY <1>3, <1>9, <2>2, SpentIs
  <2> QED
    BY <1>6, <1>11, <2>2, <2>5, <2>6
<1> QED
  BY <1>9, <1>11, <1>13, <1>14, <1>15, <1>16

\* For every window, every budget and any interleaving of the sessions: the
\* brief of resume is the tail of the loop's ledger, within the budget, with
\* no checkpoint left out that would have fitted.
THEOREM BriefIsTheTail == Spec => []BriefIsTail
  BY InvBrief, Invariance, PTL

-----------------------------------------------------------------------------
(* The document of export *)

\* The window, its hand-offs, and the seqs of the span of each.
LEMMA SpanIs ==
    ASSUME Inv, NEW l \in Loops
    PROVE  LET es   == Window(l, ExportWindow)
               ends == {r.seq : r \in {q \in es : IsHandoff(q)}}
           IN  /\ es \in SUBSET Row /\ \A q, r \in es : q.seq = r.seq => q = r
               /\ ends # {} => DefaultEnd(l) \in ends /\ \A h \in ends : h <= DefaultEnd(l)
               /\ \E low \in Nat : \E n \in Nat :
                     /\ {r.seq : r \in es} = low + 1 .. n
                     /\ \A h \in ends : h \in low + 1 .. n
                     /\ \A h \in ends : \E m \in Nat :
                           /\ low <= m /\ m < h /\ m \in {low} \cup ends
                           /\ \A g \in ends : g < h => g <= m
                           /\ Span(l, h) \in SUBSET es
                           /\ {r.seq : r \in Span(l, h)} = m + 1 .. h
<1> DEFINE es   == Window(l, ExportWindow)
           ends == {r.seq : r \in {q \in es : IsHandoff(q)}}
           Before(h) == {r.seq : r \in {q \in es : IsHandoff(q) /\ q.seq < h}}
           after(h) == Max({0} \cup Before(h))
<1>w. ExportWindow \in Nat \ {0}
  BY BriefAssumption
<1>n. PICK n \in Nat : HasRows(l, n)
  BY LoopRows
<1>1. es \in SUBSET Row /\ \A q, r \in es : q.seq = r.seq => q = r
  BY <1>w, <1>n, WindowIs
<1>2. PICK c \in 0 .. n : {r.seq : r \in es} = (n - c) + 1 .. (n - c) + c
  BY <1>w, <1>n, WindowIs
<1> DEFINE low == n - c
<1>3. low \in Nat /\ low <= n /\ {r.seq : r \in es} = low + 1 .. n /\ \A r \in es : r.seq \in low + 1 .. n
  <2>1. low \in Nat /\ low <= n /\ low + c = n
    OBVIOUS
  <2>2. {r.seq : r \in es} = low + 1 .. n
    BY <1>2, <2>1
  <2> HIDE DEF low, es
  <2> QED
    BY <2>1, <2>2
<1>4. \A h \in ends : h \in low + 1 .. n /\ h \in Nat /\ h > 0
  BY <1>3
<1>5. \A h : Before(h) = {g \in ends : g < h}
  OBVIOUS
<1>6. \A h : Span(l, h) = {r \in es : r.seq > after(h) /\ r.seq <= h}
  BY DEF Span
<1>7. DefaultEnd(l) = Max({0} \cup {r.seq : r \in IF {r \in es : IsHandoff(r)} = {} THEN es ELSE {r \in es : IsHandoff(r)}})
  BY DEF DefaultEnd
<1>8. ends # {} <=> {r \in es : IsHandoff(r)} # {}
  OBVIOUS
<1>9. ends = {r.seq : r \in {r \in es : IsHandoff(r)}}
  OBVIOUS
<1> HIDE DEF es, Before, low, ends
\* The previous hand-off, or 0.
<1>10. ASSUME NEW h \in ends
       PROVE  /\ after(h) \in {0} \cup ends /\ after(h) < h /\ after(h) \in Nat
              /\ \A g \in ends : g < h => g <= after(h)
  <2> DEFINE S == {0} \cup Before(h)
  <2>1. S \in SUBSET (0 .. n) /\ S # {}
    BY <1>3, <1>4, <1>5
  <2>2. Max(S) \in S /\ \A k \in S : k <= Max(S)
    BY <2>1, GreatestOf
  <2> QED
    BY <1>4, <1>5, <1>10, <2>2
<1>11. ends # {} => DefaultEnd(l) \in ends /\ \A h \in ends : h <= DefaultEnd(l)
  <2> SUFFICES ASSUME ends # {} PROVE DefaultEnd(l) \in ends /\ \A h \in ends : h <= DefaultEnd(l)
    OBVIOUS
  <2> DEFINE S == {0} \cup ends
  <2>1. DefaultEnd(l) = Max(S)
    BY <1>7, <1>8, <1>9
  <2>2. S \in SUBSET (0 .. n) /\ S # {}
    BY <1>3, <1>4
  <2>3. Max(S) \in S /\ \A k \in S : k <= Max(S)
    BY <2>2, GreatestOf
  <2>4. PICK h \in ends : TRUE
    OBVIOUS
  <2>5. h > 0 /\ h <= Max(S) /\ h \in Nat
    BY <1>4, <2>3
  <2>6. Max(S) \in ends
    BY <1>4, <2>3, <2>5
  <2> QED
    BY <2>1, <2>3, <2>6
<1> HIDE DEF after
<1>12. ASSUME NEW h \in ends
       PROVE  \E m \in Nat : /\ low <= m /\ m < h /\ m \in {low} \cup ends
                             /\ \A g \in ends : g < h => g <= m
                             /\ Span(l, h) \in SUBSET es
                             /\ {r.seq : r \in Span(l, h)} = m + 1 .. h
  <2> DEFINE m == IF after(h) = 0 THEN low ELSE after(h)
  <2>1. /\ m \in Nat /\ low <= m /\ m < h /\ m \in {low} \cup ends /\ after(h) <= m
        /\ \A g \in ends : g < h => g <= m
    <3>1. CASE after(h) = 0
      BY <1>3, <1>4, <1>10, <3>1
    <3>2. CASE after(h) # 0
      <4>1. after(h) \in ends /\ after(h) \in low + 1 .. n
        BY <1>4, <1>10, <3>2
      <4> QED
        BY <1>3, <1>10, <3>2, <4>1
    <3> QED
      BY <3>1, <3>2
  <2>2. \A k \in low + 1 .. n : k > after(h) <=> k > m
    BY <1>3, <1>10
  <2>3. h \in low + 1 .. n
    BY <1>4
  <2> HIDE DEF m
  <2>4. ASSUME NEW x PROVE x \in {r.seq : r \in Span(l, h)} <=> x \in m + 1 .. h
    <3>1. x \in {r.seq : r \in Span(l, h)} <=> x \in {r.seq : r \in es} /\ x > after(h) /\ x <= h
      BY <1>6
    <3>2. x \in {r.seq : r \in es} <=> x \in low + 1 .. n
      BY <1>3
    <3>3. x \in low + 1 .. n /\ x > m /\ x <= h <=> x \in m + 1 .. h
      BY <1>3, <2>1, <2>3
    <3> QED
      BY <2>2, <3>1, <3>2, <3>3
  <2>5. {r.seq : r \in Span(l, h)} = m + 1 .. h
    BY <2>4
  <2>6. Span(l, h) \in SUBSET es
    BY <1>6
  <2> QED
    BY <2>1, <2>5, <2>6
<1>13. \A h \in ends : h \in low + 1 .. n
  BY <1>4
<1> QED
  BY <1>1, <1>3, <1>11, <1>12, <1>13 DEF es, ends

\* A list that ends with the checkpoint h and has no gap.
EndsAt(d, h) == \A i \in 1 .. Len(d) : d[i].seq + Len(d) = h + i

\* The document about a span of the seqs m + 1 to h.
LEMMA ExportIs ==
    ASSUME NEW l, NEW h \in Nat, NEW m \in Nat, m < h, NEW budget \in Budgets,
           Span(l, h) \in SUBSET Row, \A q, r \in Span(l, h) : q.seq = r.seq => q = r,
           {r.seq : r \in Span(l, h)} = m + 1 .. h
    PROVE  LET d == Export(l, h, budget).iterations
               o == Export(l, h, budget).omitted
           IN  /\ Len(d) \in 1 .. h - m /\ o = h - m - Len(d) /\ DOMAIN d = 1 .. Len(d)
               /\ \A i \in 1 .. Len(d) : d[i] \in Span(l, h)
               /\ EndsAt(d, h)
               /\ Len(d) > 1 => Cost(d) <= BodyBudget(budget)
               /\ o > 0 => \A r \in Span(l, h) : r.seq = h - Len(d) => Cost(d) + r.entry.cost > BodyBudget(budget)
<1> DEFINE sp == Span(l, h)
           es == Descending(sp)
           c  == h - m
           body == BodyBudget(budget)
           d == Export(l, h, budget).iterations
           o == Export(l, h, budget).omitted
<1>1. body \in Nat
  BY BriefAssumption DEF BodyBudget
<1>2. c \in Nat /\ c > 0 /\ m + c = h
  OBVIOUS
<1>3. sp \in SUBSET Row /\ (\A q, r \in sp : q.seq = r.seq => q = r) /\ {r.seq : r \in sp} = m + 1 .. m + c
  BY <1>2
<1>4. d = Reverse(Included(es, body)) /\ o = Cardinality(sp) - Len(Included(es, body))
  BY DEF Export
<1> HIDE DEF sp, c, body, d, o
<1>5. /\ Cardinality(sp) = c /\ es \in Seq(Row) /\ Len(es) = c
      /\ \A i \in 1 .. c : es[i] \in sp /\ es[i].seq + i = m + c + 1
  BY <1>2, <1>3, DescendingIs
<1> HIDE DEF es
<1>6. PICK N \in 1 .. Len(es) :
         /\ Included(es, body) = SubSeq(es, 1, N)
         /\ \A j \in 2 .. N : Spent(es)[j] <= body
         /\ N < Len(es) => Spent(es)[N + 1] > body
  BY <1>1, <1>2, <1>5, IncludedIs
<1>7. /\ Len(SubSeq(es, 1, N)) = N
      /\ Reverse(SubSeq(es, 1, N)) \in Seq(Row) /\ Len(Reverse(SubSeq(es, 1, N))) = N
      /\ \A i \in 1 .. N : Reverse(SubSeq(es, 1, N))[i] = es[N + 1 - i]
  BY <1>5, BriefRows, Zenon
<1>8. d \in Seq(Row) /\ Len(d) = N /\ (\A i \in 1 .. N : d[i] = es[N + 1 - i]) /\ o = c - N
  BY <1>4, <1>5, <1>6, <1>7
<1>9. N \in 1 .. c /\ N \in Nat
  BY <1>2, <1>5
<1>10. ASSUME NEW i \in 1 .. N PROVE d[i] \in sp /\ d[i].seq + N = h + i
  <2>1. N + 1 - i \in 1 .. c /\ i \in Nat
    BY <1>2, <1>9
  <2>2. d[i] \in sp /\ d[i].seq + (N + 1 - i) = m + c + 1
    BY <1>5, <1>8, <2>1
  <2>3. d[i].seq \in Nat
    BY <1>3, <2>2 DEF Row
  <2> DEFINE x == d[i].seq
  <2>4. x \in Nat /\ x + (N + 1 - i) = m + c + 1 /\ d[i] \in sp
    BY <2>2, <2>3
  <2> HIDE DEF x
  <2>5. x + N = h + i
    BY <1>2, <1>9, <2>1, <2>4
  <2> QED
    BY <2>4, <2>5 DEF x
<1>11. Cost(d) = Spent(es)[N]
  BY <1>5, <1>8, ReversedCost
<1>12. N > 1 => Cost(d) <= body
  <2>1. N > 1 => N \in 2 .. N
    BY <1>9
  <2> QED
    BY <1>6, <1>11, <2>1
<1>13. ASSUME o > 0, NEW r \in sp, r.seq = h - N
       PROVE  Cost(d) + r.entry.cost > body
  <2>1. N < Len(es) /\ N + 1 \in 1 .. c /\ N + 1 \in 1 .. Len(es) /\ N + 1 - 1 = N
    BY <1>2, <1>5, <1>8, <1>9, <1>13
  <2>2. es[N + 1] \in sp /\ es[N + 1].seq + (N + 1) = m + c + 1
    BY <1>5, <2>1
  <2>3. es[N + 1].seq \in Nat /\ r.seq \in Nat
    BY <1>3, <2>2 DEF Row
  <2>4. es[N + 1].seq = r.seq
    BY <1>2, <1>9, <1>13, <2>2, <2>3
  <2>5. r = es[N + 1]
    BY <1>3, <2>2, <2>4
  <2>6. Spent(es)[N + 1] = Spent(es)[N] + es[N + 1].entry.cost
    BY <1>5, <2>1, SpentIs
  <2> QED
    BY <1>6, <1>11, <2>1, <2>5, <2>6
<1>14. DOMAIN d = 1 .. N
  BY <1>8
<1>15. EndsAt(d, h)
  BY <1>8, <1>10 DEF EndsAt
<1> QED
  BY <1>8, <1>9, <1>10, <1>12, <1>13, <1>14, <1>15 DEF sp, c, body, d, o

LEMMA InvPartition == Inv => ExportsPartition
<1> SUFFICES ASSUME Inv, NEW l \in Loops, NEW m \in Budgets
             PROVE  LET es      == Window(l, ExportWindow)
                        ends    == {r.seq : r \in {q \in es : IsHandoff(q)}}
                        its(h)  == Export(l, h, m).iterations
                        told(h) == h - Len(its(h)) - Export(l, h, m).omitted + 1 .. h
                    IN  /\ \A g, h \in ends : g # h => told(g) \cap told(h) = {}
                        /\ ends # {} => UNION {told(h) : h \in ends} = {r.seq : r \in {q \in es : q.seq <= DefaultEnd(l)}}
                        /\ \A h \in ends :
                              /\ Len(its(h)) > 0
                              /\ \A i \in DOMAIN its(h) : its(h)[i] \in es /\ its(h)[i].seq = h - Len(its(h)) + i
                              /\ Len(its(h)) > 1 => Cost(its(h)) <= BodyBudget(m)
                              /\ Export(l, h, m).omitted > 0 =>
                                    \A r \in es : r.seq = h - Len(its(h)) => Cost(its(h)) + r.entry.cost > BodyBudget(m)
  BY DEF ExportsPartition
<1> DEFINE es      == Window(l, ExportWindow)
           ends    == {r.seq : r \in {q \in es : IsHandoff(q)}}
           its(h)  == Export(l, h, m).iterations
           omit(h) == Export(l, h, m).omitted
           told(h) == h - Len(its(h)) - omit(h) + 1 .. h
<1>1. /\ es \in SUBSET Row /\ \A q, r \in es : q.seq = r.seq => q = r
      /\ ends # {} => DefaultEnd(l) \in ends /\ \A h \in ends : h <= DefaultEnd(l)
  BY SpanIs
<1>2. PICK low \in Nat, n \in Nat :
         /\ {r.seq : r \in es} = low + 1 .. n
         /\ \A h \in ends : h \in low + 1 .. n
         /\ \A h \in ends : \E k \in Nat :
               /\ low <= k /\ k < h /\ k \in {low} \cup ends
               /\ \A g \in ends : g < h => g <= k
               /\ Span(l, h) \in SUBSET es
               /\ {r.seq : r \in Span(l, h)} = k + 1 .. h
  BY SpanIs
<1>3. {r.seq : r \in {q \in es : q.seq <= DefaultEnd(l)}} = {k \in low + 1 .. n : k <= DefaultEnd(l)}
  BY <1>2
<1> DEFINE start(h) == CHOOSE k \in Nat :
               /\ low <= k /\ k < h /\ k \in {low} \cup ends
               /\ \A g \in ends : g < h => g <= k
               /\ Span(l, h) \in SUBSET es
               /\ {r.seq : r \in Span(l, h)} = k + 1 .. h
<1> HIDE DEF es, ends
<1>4. ASSUME NEW h \in ends
      PROVE  /\ start(h) \in Nat /\ low <= start(h) /\ start(h) < h /\ start(h) \in {low} \cup ends
             /\ \A g \in ends : g < h => g <= start(h)
             /\ Span(l, h) \in SUBSET es
             /\ {r.seq : r \in Span(l, h)} = start(h) + 1 .. h
  BY <1>2
<1> HIDE DEF start
<1>5. \A h \in ends : h \in low + 1 .. n /\ h \in Nat
  BY <1>2
<1>6. ASSUME NEW h \in ends
      PROVE  /\ Len(its(h)) \in 1 .. h - start(h) /\ omit(h) = h - start(h) - Len(its(h))
             /\ DOMAIN its(h) = 1 .. Len(its(h))
             /\ \A i \in 1 .. Len(its(h)) : its(h)[i] \in Span(l, h) /\ its(h)[i].seq = h - Len(its(h)) + i
             /\ Len(its(h)) > 1 => Cost(its(h)) <= BodyBudget(m)
             /\ omit(h) > 0 => \A r \in Span(l, h) : r.seq = h - Len(its(h)) => Cost(its(h)) + r.entry.cost > BodyBudget(m)
  <2>1. Span(l, h) \in SUBSET Row /\ \A q, r \in Span(l, h) : q.seq = r.seq => q = r
    BY <1>1, <1>4
  <2> DEFINE k == start(h)
  <2>2. h \in Nat /\ k \in Nat /\ k < h /\ {r.seq : r \in Span(l, h)} = k + 1 .. h
    BY <1>4, <1>5
  <2> HIDE DEF k
  <2>3. Len(its(h)) \in 1 .. h - k
    BY <2>1, <2>2, ExportIs
  <2>4. omit(h) = h - k - Len(its(h))
    BY <2>1, <2>2, ExportIs
  <2>5. DOMAIN its(h) = 1 .. Len(its(h))
    BY <2>1, <2>2, ExportIs
  <2>6. ASSUME NEW i \in 1 .. Len(its(h))
        PROVE  its(h)[i] \in Span(l, h) /\ its(h)[i].seq = h - Len(its(h)) + i
    <3>1. its(h)[i] \in Span(l, h) /\ EndsAt(its(h), h)
      BY <2>1, <2>2, ExportIs
    <3>2. its(h)[i].seq \in Nat /\ i \in Nat /\ Len(its(h)) \in Nat
      BY <2>1, <2>2, <2>3, <3>1 DEF Row
    <3> HIDE DEF its
    <3>3. its(h)[i].seq + Len(its(h)) = h + i
      BY <3>1 DEF EndsAt
    <3> QED
      BY <2>2, <3>1, <3>2, <3>3
  <2>7. Len(its(h)) > 1 => Cost(its(h)) <= BodyBudget(m)
    BY <2>1, <2>2, ExportIs
  <2>8. omit(h) > 0 => \A r \in Span(l, h) : r.seq = h - Len(its(h)) => Cost(its(h)) + r.entry.cost > BodyBudget(m)
    BY <2>1, <2>2, ExportIs
  <2> QED
    BY <2>3, <2>4, <2>5, <2>6, <2>7, <2>8 DEF k
<1> HIDE DEF its, omit
<1>7. ASSUME NEW h \in ends PROVE told(h) = start(h) + 1 .. h
  <2>1. Len(its(h)) \in Nat /\ start(h) \in Nat /\ h \in Nat /\ omit(h) = h - start(h) - Len(its(h))
    BY <1>4, <1>5, <1>6
  <2>2. h - Len(its(h)) - omit(h) + 1 = start(h) + 1
    BY <2>1
  <2> QED
    BY <2>2
<1> HIDE DEF told
\* Two spans: the later one starts behind the end of the earlier one.
<1>8. ASSUME NEW g \in ends, NEW h \in ends, g < h PROVE told(g) \cap told(h) = {}
  <2>1. g <= start(h) /\ start(h) \in Nat /\ g \in Nat /\ h \in Nat /\ start(g) \in Nat
    BY <1>4, <1>5, <1>8
  <2> QED
    BY <1>7, <2>1
<1>9. \A g, h \in ends : g # h => told(g) \cap told(h) = {}
  <2> TAKE g, h \in ends
  <2>1. g \in Nat /\ h \in Nat
    BY <1>5
  <2> QED
    BY <1>8, <2>1
\* A seq up to the last hand-off is in the span of the next hand-off.
<1>10. ASSUME NEW k \in low + 1 .. n, ends # {}, k <= DefaultEnd(l)
       PROVE  \E h \in ends : k \in told(h)
  <2> DEFINE S == {h \in ends : k <= h}
  <2>1. DefaultEnd(l) \in S
    BY <1>1, <1>10
  <2>2. S \in SUBSET Nat /\ S # {}
    BY <1>5, <2>1
  <2>3. PICK h \in S : \A j \in S : h <= j
    BY <2>2, LeastOf
  <2>4. start(h) < k
    <3>1. start(h) \in {low} \cup ends /\ start(h) < h /\ start(h) \in Nat /\ h \in Nat /\ k \in Nat
      BY <1>4, <1>5, <2>3
    <3>2. start(h) \notin S
      BY <2>3, <3>1
    <3> QED
      BY <3>1, <3>2
  <2>5. start(h) \in Nat /\ h \in Nat /\ k \in Nat /\ h \in ends /\ k <= h
    BY <1>4, <1>5, <2>3
  <2> QED
    BY <1>7, <2>4, <2>5
<1>11. ASSUME NEW h \in ends, NEW k \in told(h)
       PROVE  k \in low + 1 .. n /\ k <= DefaultEnd(l)
  <2>1. k \in start(h) + 1 .. h /\ low <= start(h) /\ start(h) \in Nat /\ h \in low + 1 .. n
    BY <1>4, <1>5, <1>7
  <2>2. DefaultEnd(l) \in Nat /\ h <= DefaultEnd(l)
    BY <1>1, <1>5
  <2> QED
    BY <2>1, <2>2
<1>12. ends # {} => UNION {told(h) : h \in ends} = {r.seq : r \in {q \in es : q.seq <= DefaultEnd(l)}}
  BY <1>3, <1>10, <1>11 DEF es
<1>13. ASSUME NEW h \in ends
       PROVE  /\ Len(its(h)) > 0
              /\ \A i \in DOMAIN its(h) : its(h)[i] \in es /\ its(h)[i].seq = h - Len(its(h)) + i
              /\ Len(its(h)) > 1 => Cost(its(h)) <= BodyBudget(m)
              /\ omit(h) > 0 =>
                    \A r \in es : r.seq = h - Len(its(h)) => Cost(its(h)) + r.entry.cost > BodyBudget(m)
  <2>1. Len(its(h)) > 0 /\ \A i \in DOMAIN its(h) : its(h)[i] \in es /\ its(h)[i].seq = h - Len(its(h)) + i
    BY <1>4, <1>6
  <2>2. ASSUME omit(h) > 0, NEW r \in es, r.seq = h - Len(its(h))
        PROVE  r \in Span(l, h)
    <3>1. r.seq \in start(h) + 1 .. h
      BY <1>4, <1>5, <1>6, <2>2
    <3>2. PICK q \in Span(l, h) : q.seq = r.seq
      BY <1>4, <3>1
    <3> QED
      BY <1>1, <1>4, <2>2, <3>2
  <2> QED
    BY <1>6, <2>1, <2>2
<1> QED
  BY <1>9, <1>12, <1>13 DEF es, ends, its, omit, told

\* For every window, every budget and any interleaving of the sessions: the
\* exports of a loop's hand-offs share no checkpoint, and each checkpoint of
\* the window is listed or counted as omitted by one of them.
THEOREM ExportsShareNothing == Spec => []ExportsPartition
  BY InvPartition, Invariance, PTL
=============================================================================
