------------------------ MODULE SchemaMigrationProofs ------------------------
(* Safety of SchemaMigration for every set of processes, versions and scripts. *)
EXTENDS SchemaMigration, TLAPS

Migrating(p) == pc[p] \in {"ddl", "bump"}

\* What the first k - 1 statements of script i add; what p has added with the
\* statements of its present script.
Ran(i, k) == {Script[i][n].item : n \in {m \in DOMAIN Script[i] :
                                            m < k /\ Script[i][m].op \in {"add", "ensure"}}}
RanBy(p) == Ran(at[p], stmt[p])

\* p has created symbols_new and not yet renamed it.
InRebuild(p) == pc[p] = "ddl" /\ Rebuilds(Script[at[p]]) /\ stmt[p] \in {2, 3}

\* What an Open between two statements knows of the schema: the migrations its
\* loop has passed have run, whatever the version row says by now.
LoopIsHonest ==
    \A p \in Procs :
        /\ Migrating(p) => at[p] \in 1 .. Known[p] - 1 /\ 1 .. at[p] - 1 \subseteq applied
        /\ pc[p] = "bump" => at[p] \in applied /\ stmt[p] = Len(Script[at[p]]) + 1
        /\ pc[p] \in {"repair", "alter", "open"} => 1 .. Known[p] - 1 \subseteq applied

\* The version row is there once an Open has seen to it.
RowIsThere == \A p \in Procs : pc[p] = "read" => version > 0

\* The decision of the consent gate still holds when the DDL runs.
GateHolds ==
    \A p \in Procs :
        /\ pc[p] \in {"baseline", "init", "read", "ddl", "bump"} => p \in Consent \/ fresh[p]
        /\ Opening(p) /\ ~tables => fresh[p]

\* What is not a column of symbols stays once it is there.
OffSymbolsStay ==
    /\ \A i \in applied : Added(i) \ OnSymbols \subseteq items
    /\ \A p \in Procs : Migrating(p) => RanBy(p) \ OnSymbols \subseteq items

\* Nobody is ahead of the row as long as nobody has been overtaken.
NotPassed ==
    ~overtaken => \A p \in Procs :
        /\ Migrating(p) => at[p] <= version
        /\ pc[p] \in {"repair", "alter", "open"} => Known[p] <= version

\* symbols_new admits one rebuild at a time.
OneRebuild ==
    \A p \in Procs : InRebuild(p) => copy /\ \A q \in Procs : InRebuild(q) => q = p

\* Outside a rebuild symbols has the columns of the version in the row, and
\* those that the migrators under way have added.
ColumnsThere ==
    ~overtaken /\ ~copy =>
        /\ Needed(version) \cap OnSymbols \subseteq items
        /\ \A p \in Procs : Migrating(p) => RanBy(p) \cap OnSymbols \subseteq items

\* From DROP to RENAME symbols_new has all of them: nobody can add a column to
\* a table that is missing.
CopyIsCurrent ==
    ~overtaken /\ ~symbols =>
        \A p \in Procs : InRebuild(p) /\ stmt[p] = 3 =>
            /\ Needed(version) \cap OnSymbols \subseteq Needed(at[p])
            /\ \A q \in Procs : Migrating(q) /\ at[p] <= at[q] => RanBy(q) \cap OnSymbols = {}

Inv == /\ TypeOK /\ VersionIsHonest /\ LoopIsHonest /\ RowIsThere /\ GateHolds
       /\ OffSymbolsStay /\ NotPassed /\ OneRebuild /\ ColumnsThere /\ CopyIsCurrent

-----------------------------------------------------------------------------
(* Scripts *)

LEMMA ScriptTypes ==
    /\ Len(Script) \in Nat /\ DOMAIN Script = 1 .. Len(Script)
    /\ \A p \in Procs : Known[p] \in Nat \ {0} /\ Known[p] - 1 <= Len(Script)
    /\ \A i \in DOMAIN Script :
          /\ Script[i] \in Seq(Statement) /\ Len(Script[i]) \in Nat \ {0}
          /\ DOMAIN Script[i] = 1 .. Len(Script[i])
          /\ \A k \in DOMAIN Script[i] : Script[i][k] \in Statement
<1>1. Script \in Seq(Seq(Statement) \ {<<>>})
  BY ScriptAssumption
<1>2. \A p \in Procs : Known[p] \in 1 .. Len(Script) + 1
  BY MigrationAssumption
<1>3. \A i \in DOMAIN Script : Script[i] \in Seq(Statement) \ {<<>>}
  BY <1>1
<1>4. ASSUME NEW s \in Seq(Statement) \ {<<>>}
      PROVE  Len(s) \in Nat \ {0} /\ DOMAIN s = 1 .. Len(s) /\ \A k \in DOMAIN s : s[k] \in Statement
  BY <1>4
<1> QED
  BY <1>1, <1>2, <1>3, <1>4

\* Where the statements of a rebuild stand, and that it adds no column.
LEMMA ScriptShape ==
    ASSUME NEW i \in DOMAIN Script, NEW k \in DOMAIN Script[i]
    PROVE  /\ Script[i][k].op \in {"add", "ensure", "create", "drop", "rename"}
           /\ Script[i][k].op \in {"add", "ensure"} => Script[i][k].item \in Items
           /\ Script[i][k].op = "ensure" => Script[i][k].item \notin OnSymbols
           /\ Script[i][k].op = "add" => ~Rebuilds(Script[i])
           /\ Script[i][k].op = "create" => Rebuilds(Script[i]) /\ k = 1
           /\ Script[i][k].op = "drop"   => Rebuilds(Script[i]) /\ k = 2
           /\ Script[i][k].op = "rename" => Rebuilds(Script[i]) /\ k = 3
           /\ Rebuilds(Script[i]) /\ k <= 3 =>
                 Len(Script[i]) >= 3 /\ Script[i][k].op = Rebuild[k]
<1>1. Script[i][k] \in Statement /\ DOMAIN Script[i] = 1 .. Len(Script[i]) /\ k \in Nat \ {0}
  BY ScriptTypes
<1>2. /\ Script[i][k].op = "ensure" => Script[i][k].item \notin OnSymbols
      /\ Rebuilds(Script[i]) => IF k <= 3 THEN Len(Script[i]) >= 3 /\ Script[i][k].op = Rebuild[k]
                                          ELSE Script[i][k].op = "ensure"
  BY ScriptAssumption
<1>3. Script[i][k].op \in {"create", "drop", "rename"} => Rebuilds(Script[i])
  BY DEF Rebuilds
<1>4. /\ Script[i][k].op \in {"add", "ensure", "create", "drop", "rename"}
      /\ Script[i][k].op \in {"add", "ensure"} => Script[i][k].item \in Items
  BY <1>1 DEF Statement
<1>5. Rebuild[1] = "create" /\ Rebuild[2] = "drop" /\ Rebuild[3] = "rename"
  BY DEF Rebuild
<1>6. k <= 3 => k \in {1, 2, 3}
  BY <1>1
<1> QED
  BY <1>2, <1>3, <1>4, <1>5, <1>6

LEMMA RanStart == ASSUME NEW i \in DOMAIN Script PROVE Ran(i, 1) = {}
  BY ScriptTypes DEF Ran

\* The next statement, unless it adds something, leaves Ran as it is.
LEMMA RanNext ==
    ASSUME NEW i \in DOMAIN Script, NEW k \in DOMAIN Script[i]
    PROVE  Ran(i, k + 1) = Ran(i, k) \cup (IF Script[i][k].op \in {"add", "ensure"}
                                              THEN {Script[i][k].item} ELSE {})
<1>1. DOMAIN Script[i] \subseteq Nat /\ k \in Nat
  BY ScriptTypes
<1>2. \A m \in DOMAIN Script[i] : m < k + 1 <=> m < k \/ m = k
  BY <1>1
<1> QED
  BY <1>2 DEF Ran

LEMMA RanAll ==
    ASSUME NEW i \in DOMAIN Script
    PROVE  Ran(i, Len(Script[i]) + 1) = Added(i) /\ \A k \in Nat : Ran(i, k) \subseteq Added(i)
<1>1. \A m \in DOMAIN Script[i] : m < Len(Script[i]) + 1
  BY ScriptTypes
<1> QED
  BY <1>1 DEF Ran, Added

\* A rebuild adds no column of symbols.
LEMMA RebuildAdds ==
    ASSUME NEW i \in DOMAIN Script, Rebuilds(Script[i])
    PROVE  Added(i) \cap OnSymbols = {}
<1>1. \A k \in DOMAIN Script[i] :
        Script[i][k].op \in {"add", "ensure"} => Script[i][k].item \notin OnSymbols
  BY ScriptShape
<1> QED
  BY <1>1 DEF Added

LEMMA NeededGrows ==
    ASSUME NEW v \in Nat, NEW w \in Nat, v <= w
    PROVE  Needed(v) \subseteq Needed(w)
<1>1. 1 .. v - 1 \subseteq 1 .. w - 1
  OBVIOUS
<1> QED
  BY <1>1 DEF Needed

LEMMA NeededNext ==
    ASSUME NEW v \in Nat \ {0}
    PROVE  Needed(v + 1) = Needed(v) \cup Added(v)
<1>1. 1 .. (v + 1) - 1 = (1 .. v - 1) \cup {v}
  OBVIOUS
<1> QED
  BY <1>1 DEF Needed

LEMMA NeededNone == Needed(0) = {} /\ Needed(1) = {}
<1>1. 1 .. 0 - 1 = {} /\ 1 .. 1 - 1 = {}
  OBVIOUS
<1> QED
  BY <1>1 DEF Needed

-----------------------------------------------------------------------------
(* Steps that leave the schema as it is *)

LEMMA InitInv == Init => Inv
<1> USE MigrationAssumption
<1> SUFFICES ASSUME Init PROVE Inv
  OBVIOUS
<1>1. TypeOK
  <2>1. tables \in BOOLEAN /\ symbols \in BOOLEAN /\ copy \in BOOLEAN /\ overtaken \in BOOLEAN
    BY Zenon DEF Init
  <2>2. fresh \in [Procs -> BOOLEAN]
    BY Zenon DEF Init
  <2>3. attempt \in [Procs -> 0 .. MaxAttempts] /\ opens \in 0 .. MaxOpens
    BY DEF Init
  <2>4. at \in [Procs -> Nat] /\ stmt \in [Procs -> Nat] /\ pc \in [Procs -> Labels]
    BY DEF Init, Labels
  <2>5. \A p \in Procs : pc[p] # "ddl"
    BY DEF Init
  <2> QED
    BY <2>1, <2>2, <2>3, <2>4, <2>5 DEF Init, TypeOK
<1>2. VersionIsHonest /\ LoopIsHonest /\ RowIsThere /\ GateHolds
  BY DEF Init, VersionIsHonest, LoopIsHonest, RowIsThere, GateHolds, Opening, Migrating
<1>3. OffSymbolsStay /\ NotPassed /\ OneRebuild /\ CopyIsCurrent
  BY DEF Init, OffSymbolsStay, NotPassed, OneRebuild, CopyIsCurrent, Migrating, InRebuild
<1>4. ColumnsThere
  BY NeededNone DEF Init, ColumnsThere, Migrating
<1> QED
  BY <1>1, <1>2, <1>3, <1>4 DEF Inv

\* Where a process may go in a step that leaves items and symbols_new alone:
\* to a label outside the loop, or to the first statement of the script of
\* the version that the row holds.
Begins(p) == /\ pc'[p] = "ddl" /\ at'[p] = version' /\ stmt'[p] = 1
             /\ at'[p] \in 1 .. Known[p] - 1
Leaves(p) == /\ pc'[p] \in Labels \ {"ddl", "bump"}
             /\ pc'[p] \in {"repair", "alter", "open"} =>
                   pc[p] \in {"repair", "alter"} \/ Known[p] <= version

Others(p) == \A q \in Procs \ {p} : pc'[q] = pc[q] /\ at'[q] = at[q] /\ stmt'[q] = stmt[q]

\* What is said of the columns survives every such step, also when it
\* creates the table symbols, adds an item, or writes the first row.
LEMMA QuietStore ==
    ASSUME Inv, NEW p \in Procs, Others(p), Begins(p) \/ Leaves(p),
           UNCHANGED <<copy, applied, overtaken>>,
           version' \in Nat, version' = version \/ (version = 0 /\ version' = 1),
           symbols => symbols', items \subseteq items'
    PROVE  OffSymbolsStay' /\ NotPassed' /\ OneRebuild' /\ ColumnsThere' /\ CopyIsCurrent'
<1> USE DEF Inv
<1>0. version \in Nat
  BY ScriptTypes DEF TypeOK
<1>1. version \in Nat /\ version <= version' /\ Needed(version') = Needed(version)
  BY <1>0, NeededNone
<1>2. \A q \in Procs : Migrating(q)' =>
        \/ q # p /\ Migrating(q) /\ at'[q] = at[q] /\ stmt'[q] = stmt[q] /\ RanBy(q)' = RanBy(q)
        \/ q = p /\ Begins(p) /\ RanBy(q)' = {}
  <2>1. \A q \in Procs : q # p /\ Migrating(q)' =>
           Migrating(q) /\ at'[q] = at[q] /\ stmt'[q] = stmt[q] /\ RanBy(q)' = RanBy(q)
    BY DEF Others, Migrating, RanBy, Ran
  <2>2. Migrating(p)' => Begins(p)
    BY DEF Migrating, Leaves
  <2>3. Begins(p) => RanBy(p)' = {}
    <3> SUFFICES ASSUME Begins(p) PROVE RanBy(p)' = {}
      OBVIOUS
    <3>1. at'[p] \in DOMAIN Script /\ stmt'[p] = 1
      BY ScriptTypes DEF Begins
    <3>2. RanBy(p)' = Ran(at'[p], stmt'[p])
      BY DEF RanBy, Ran
    <3> QED
      BY <3>1, <3>2, RanStart
  <2> QED
    BY <2>1, <2>2, <2>3
<1>3. \A q \in Procs : InRebuild(q)' => q # p /\ InRebuild(q) /\ at'[q] = at[q] /\ stmt'[q] = stmt[q]
  BY DEF InRebuild, Others, Begins, Leaves, Labels
<1>4. OffSymbolsStay'
  BY <1>2 DEF OffSymbolsStay, Added
<1>5. NotPassed'
  <2> SUFFICES ASSUME ~overtaken, NEW q \in Procs
               PROVE  /\ Migrating(q)' => at'[q] <= version'
                      /\ pc'[q] \in {"repair", "alter", "open"} => Known[q] <= version'
    BY DEF NotPassed
  <2>0. Known[q] \in Nat
    BY ScriptTypes
  <2>1. Migrating(q)' => at'[q] <= version'
    BY <1>1, <1>2 DEF NotPassed, Begins, TypeOK
  <2>2. CASE q # p
    BY <2>0, <2>1, <2>2, <1>1 DEF NotPassed, Others
  <2>3. CASE q = p
    BY <2>0, <2>1, <2>3, <1>1 DEF NotPassed, Begins, Leaves
  <2> QED
    BY <2>2, <2>3
<1>6. OneRebuild'
  BY <1>3 DEF OneRebuild
<1>7. ColumnsThere'
  BY <1>1, <1>2 DEF ColumnsThere
<1>8. CopyIsCurrent'
  <2> SUFFICES ASSUME ~overtaken, ~symbols, NEW q \in Procs, InRebuild(q)', stmt'[q] = 3
               PROVE  /\ Needed(version)' \cap OnSymbols \subseteq Needed(at[q])'
                      /\ \A r \in Procs : Migrating(r)' /\ at'[q] <= at'[r] => RanBy(r)' \cap OnSymbols = {}
    BY DEF CopyIsCurrent
  <2>1. q # p /\ InRebuild(q) /\ at'[q] = at[q] /\ stmt[q] = 3
    BY <1>3
  <2>2. Needed(version)' = Needed(version) /\ Needed(at[q])' = Needed(at[q])
    BY <1>1, <2>1 DEF Needed, Added
  <2>3. ASSUME NEW r \in Procs, Migrating(r)', at'[q] <= at'[r]
        PROVE  RanBy(r)' \cap OnSymbols = {}
    <3>1. RanBy(r)' = {} \/ (Migrating(r) /\ at[r] = at'[r] /\ RanBy(r)' = RanBy(r))
      BY <2>3, <1>2
    <3> QED
      BY <2>1, <2>3, <3>1 DEF CopyIsCurrent
  <2> QED
    BY <2>1, <2>2, <2>3 DEF CopyIsCurrent
<1> QED
  BY <1>4, <1>5, <1>6, <1>7, <1>8

\* An Open that returns changes only what its process keeps of the attempt.
LEMMA ReturnStep ==
    ASSUME Inv, NEW p \in Procs, NEW l \in {"closed", "open"},
           Return(p, l), UNCHANGED <<disk, opens>>,
           l = "open" => pc[p] = "repair"
    PROVE  Inv'
<1> USE MigrationAssumption DEF Inv, Return, Goto, disk, schema, TypeOK
<1>1. TypeOK'
  BY DEF Labels
<1>2. VersionIsHonest' /\ LoopIsHonest' /\ RowIsThere'
  BY DEF VersionIsHonest, LoopIsHonest, RowIsThere, Migrating
<1>3. GateHolds'
  BY DEF GateHolds, Opening
<1>4. version \in Nat /\ version' = version
  OBVIOUS
<1>5. Others(p) /\ Leaves(p)
  BY DEF Others, Leaves, Labels
<1>6. OffSymbolsStay' /\ NotPassed' /\ OneRebuild' /\ ColumnsThere' /\ CopyIsCurrent'
  BY <1>4, <1>5, QuietStore
<1> QED
  BY <1>1, <1>2, <1>3, <1>6

\* The loop goes on with, or ends at, version v.
LEMMA LoopStep ==
    ASSUME Inv, NEW p \in Procs, NEW v \in Nat \ {0}, v <= Known[p], Loop(p, v)
    PROVE  /\ pc' \in [Procs -> Labels] /\ at' \in [Procs -> Nat] /\ stmt' \in [Procs -> Nat]
           /\ attempt' = attempt /\ fresh' = fresh
           /\ \A q \in Procs : pc'[q] = "ddl" => at'[q] \in DOMAIN Script /\ stmt'[q] \in DOMAIN Script[at'[q]]
           /\ Others(p) /\ at'[p] = v
           /\ \/ v < Known[p] /\ pc'[p] = "ddl" /\ stmt'[p] = 1
              \/ v = Known[p] /\ pc'[p] = "repair"
<1> USE DEF Inv, Loop, Goto, TypeOK
<1>1. Known[p] \in Nat \ {0} /\ (v < Known[p] => v \in DOMAIN Script /\ 1 \in DOMAIN Script[v])
  BY ScriptTypes
<1>2. pc' \in [Procs -> Labels] /\ at' \in [Procs -> Nat] /\ stmt' \in [Procs -> Nat]
  BY DEF Labels
<1>3. Others(p) /\ at'[p] = v
  BY DEF Others
<1>4. \/ v < Known[p] /\ pc'[p] = "ddl" /\ stmt'[p] = 1
      \/ v = Known[p] /\ pc'[p] = "repair"
  BY <1>1
<1>5. ASSUME NEW q \in Procs, pc'[q] = "ddl"
      PROVE  at'[q] \in DOMAIN Script /\ stmt'[q] \in DOMAIN Script[at'[q]]
  <2>1. CASE q = p
    BY <1>1, <1>3, <1>4, <1>5, <2>1
  <2>2. CASE q # p
    BY <1>3, <1>5, <2>2 DEF Others
  <2> QED
    BY <2>1, <2>2
<1> QED
  BY <1>2, <1>3, <1>4, <1>5

\* A step to another label within the attempt.
LEMMA LabelStep ==
    ASSUME Inv, NEW p \in Procs,
           NEW l \in {"count", "baseline", "init", "read", "repair", "alter"}, Step(p, l),
           l \in {"repair", "alter"} => pc[p] \in {"repair", "alter"} \/ Known[p] <= version
    PROVE  /\ pc' \in [Procs -> Labels]
           /\ UNCHANGED <<at, stmt, attempt, fresh>>
           /\ \A q \in Procs : pc'[q] = IF q = p THEN l ELSE pc[q]
           /\ \A q \in Procs : pc'[q] = "ddl" => at'[q] \in DOMAIN Script /\ stmt'[q] \in DOMAIN Script[at'[q]]
           /\ Others(p) /\ Leaves(p)
  BY DEF Inv, TypeOK, Step, Goto, local, Labels, Others, Leaves

\* Open, and a retry: migrate starts, or starts over.
LEMMA StartStep ==
    ASSUME Inv, NEW p \in Procs, Open(p) \/ Busy(p)
    PROVE  Inv'
<1> USE MigrationAssumption DEF Goto, disk, schema, Inv
<1>1. CASE Busy(p) /\ Fail(p)
  BY <1>1, ReturnStep DEF Busy, Fail
<1>2. CASE \/ Open(p)
           \/ Busy(p) /\ /\ attempt[p] < MaxAttempts
                         /\ attempt' = [attempt EXCEPT ![p] = @ + 1]
                         /\ at' = [at EXCEPT ![p] = 0] /\ stmt' = [stmt EXCEPT ![p] = 0]
                         /\ Goto(p, "fast") /\ UNCHANGED <<fresh>>
  <2> USE <1>2 DEF Open, Busy
  <2>1. pc' = [pc EXCEPT ![p] = "fast"]
    OBVIOUS
  <2>2. TypeOK'
    <3>1. attempt' \in [Procs -> 0 .. MaxAttempts] /\ opens' \in 0 .. MaxOpens
      <4>1. MaxAttempts \in Nat \ {0} /\ attempt \in [Procs -> 0 .. MaxAttempts] /\ opens \in 0 .. MaxOpens
        BY DEF TypeOK
      <4>2. CASE Open(p)
        BY <4>1, <4>2
      <4>3. CASE Busy(p) /\ attempt[p] < MaxAttempts /\ attempt' = [attempt EXCEPT ![p] = @ + 1]
        BY <4>1, <4>3
      <4> QED
        BY <4>2, <4>3
    <3>2. fresh' \in [Procs -> BOOLEAN]
      BY Zenon DEF TypeOK
    <3>3. pc' \in [Procs -> Labels] /\ at' \in [Procs -> Nat] /\ stmt' \in [Procs -> Nat]
      <4>1. pc \in [Procs -> Labels] /\ at \in [Procs -> Nat] /\ stmt \in [Procs -> Nat]
        BY DEF TypeOK
      <4> QED
        BY SMTT(40), <4>1 DEF Labels
    <3>4. \A q \in Procs : pc'[q] = "ddl" => at'[q] \in DOMAIN Script /\ stmt'[q] \in DOMAIN Script[at'[q]]
      BY DEF TypeOK
    <3>5. UNCHANGED <<tables, symbols, copy, version, items, applied, overtaken>>
      OBVIOUS
    <3> HIDE <1>2 DEF Open, Busy
    <3> QED
      BY <3>1, <3>2, <3>3, <3>4, <3>5 DEF TypeOK
  <2>3. VersionIsHonest' /\ LoopIsHonest' /\ RowIsThere'
    BY SMTT(40) DEF TypeOK, VersionIsHonest, LoopIsHonest, RowIsThere, Migrating
  <2>4. GateHolds'
    BY DEF TypeOK, GateHolds, Opening, Writing
  <2>5. Others(p) /\ Leaves(p)
    BY DEF TypeOK, Others, Leaves, Labels
  <2>6. version \in Nat /\ UNCHANGED <<version, items, symbols, copy, applied, overtaken>>
    BY ScriptTypes DEF TypeOK
  <2>7. OffSymbolsStay' /\ NotPassed' /\ OneRebuild' /\ ColumnsThere' /\ CopyIsCurrent'
    BY <2>5, <2>6, QuietStore
  <2> QED
    BY <2>2, <2>3, <2>4, <2>7
<1> QED
  BY <1>1, <1>2 DEF Busy

\* The steps that read the schema, and decide.
LEMMA ReadStep ==
    ASSUME Inv, NEW p \in Procs,
           FastRead(p) \/ CountTables(p) \/ ReadVersion(p) \/ CheckParity(p) \/ Crash(p) \/ DriftTick(p)
    PROVE  Inv'
<1> USE MigrationAssumption
<1>1. UNCHANGED <<disk, opens>>
  BY DEF FastRead, CountTables, ReadVersion, CheckParity, Crash, DriftTick
<1>2. version \in Nat /\ Known[p] \in Nat \ {0}
  BY ScriptTypes DEF Inv, TypeOK
<1>3. CASE Fail(p) \/ (pc[p] = "repair" /\ Return(p, "open"))
  BY <1>1, <1>3, ReturnStep DEF Fail
<1>4. CASE \/ Step(p, "count") /\ pc[p] = "fast"
           \/ Step(p, "baseline") /\ pc[p] \in {"fast", "count"} /\ (p \in Consent \/ ~tables)
           \/ Step(p, "repair") /\ pc[p] = "fast" /\ version = Known[p]
           \/ Step(p, "alter") /\ pc[p] = "repair"
  <2>1. /\ pc' \in [Procs -> Labels] /\ UNCHANGED <<at, stmt, attempt, fresh>>
        /\ \A q \in Procs : q # p => pc'[q] = pc[q]
        /\ pc'[p] \in {"count", "baseline", "repair", "alter"}
        /\ pc'[p] \in {"count", "baseline"} => pc[p] \in {"fast", "count"}
        /\ pc'[p] = "baseline" => p \in Consent \/ ~tables
        /\ pc'[p] = "repair" => version = Known[p] /\ pc[p] = "fast"
        /\ pc'[p] = "alter" => pc[p] = "repair"
        /\ \A q \in Procs : pc'[q] = "ddl" => at'[q] \in DOMAIN Script /\ stmt'[q] \in DOMAIN Script[at'[q]]
        /\ Others(p) /\ Leaves(p)
    BY <1>2, <1>4, LabelStep
  <2> USE <1>1, <2>1 DEF disk, schema, Inv
  <2>2. TypeOK'
    BY DEF TypeOK
  <2>3. VersionIsHonest' /\ LoopIsHonest' /\ RowIsThere'
    BY DEF VersionIsHonest, LoopIsHonest, RowIsThere, Migrating
  <2>4. GateHolds'
    BY DEF GateHolds, Opening
  <2>5. OffSymbolsStay' /\ NotPassed' /\ OneRebuild' /\ ColumnsThere' /\ CopyIsCurrent'
    BY <1>2, QuietStore
  <2> QED
    BY <2>2, <2>3, <2>4, <2>5
<1>5. CASE pc[p] = "read" /\ version <= Known[p] /\ Loop(p, version)
  <2> USE <1>1, <1>5 DEF disk, schema, Inv
  <2>1. version \in Nat \ {0}
    BY <1>2 DEF RowIsThere
  <2>2. /\ pc' \in [Procs -> Labels] /\ at' \in [Procs -> Nat] /\ stmt' \in [Procs -> Nat]
        /\ attempt' = attempt /\ fresh' = fresh
        /\ \A q \in Procs : pc'[q] = "ddl" => at'[q] \in DOMAIN Script /\ stmt'[q] \in DOMAIN Script[at'[q]]
        /\ Others(p) /\ at'[p] = version
        /\ \/ version < Known[p] /\ pc'[p] = "ddl" /\ stmt'[p] = 1
           \/ version = Known[p] /\ pc'[p] = "repair"
    BY <2>1, LoopStep
  <2>3. TypeOK'
    BY <2>2 DEF TypeOK
  <2>4. VersionIsHonest' /\ LoopIsHonest' /\ RowIsThere'
    <3>1. VersionIsHonest' /\ RowIsThere'
      BY <2>1 DEF VersionIsHonest, RowIsThere
    <3>2. LoopIsHonest'
      <4> SUFFICES ASSUME NEW q \in Procs
                   PROVE  /\ Migrating(q)' => at'[q] \in 1 .. Known[q] - 1 /\ 1 .. at'[q] - 1 \subseteq applied
                          /\ pc'[q] = "bump" => at'[q] \in applied /\ stmt'[q] = Len(Script[at'[q]]) + 1
                          /\ pc'[q] \in {"repair", "alter", "open"} => 1 .. Known[q] - 1 \subseteq applied
        BY DEF LoopIsHonest
      <4>1. CASE q = p
        BY <4>1, <1>2, <2>1, <2>2 DEF VersionIsHonest, Migrating
      <4>2. CASE q # p
        BY <4>2, <2>2 DEF LoopIsHonest, Migrating, Others
      <4> QED
        BY <4>1, <4>2
    <3> QED
      BY <3>1, <3>2
  <2>5. GateHolds'
    BY <2>2 DEF GateHolds, Opening, Others
  <2>6. Begins(p) \/ Leaves(p)
    BY <1>2, <2>1, <2>2 DEF Begins, Leaves, Labels
  <2>7. OffSymbolsStay' /\ NotPassed' /\ OneRebuild' /\ ColumnsThere' /\ CopyIsCurrent'
    BY <1>2, <2>2, <2>6, QuietStore
  <2> QED
    BY <2>3, <2>4, <2>5, <2>7
<1> QED
  BY <1>3, <1>4, <1>5 DEF FastRead, CountTables, ReadVersion, CheckParity, Crash, DriftTick

\* The statements that neither belong to a script nor move an existing row.
LEMMA PlainWriteStep ==
    ASSUME Inv, NEW p \in Procs, Baseline(p) \/ InitVersion(p) \/ AddParity(p)
    PROVE  Inv'
<1> USE MigrationAssumption
<1>1. version \in Nat /\ Known[p] \in Nat \ {0}
  BY ScriptTypes DEF Inv, TypeOK
<1>2. CASE Baseline(p)
  <2> USE <1>2 DEF Baseline, Inv
  <2>1. /\ pc' \in [Procs -> Labels] /\ UNCHANGED <<at, stmt, attempt, fresh>>
        /\ \A q \in Procs : pc'[q] = IF q = p THEN "init" ELSE pc[q]
        /\ \A q \in Procs : pc'[q] = "ddl" => at'[q] \in DOMAIN Script /\ stmt'[q] \in DOMAIN Script[at'[q]]
        /\ Others(p) /\ Leaves(p)
    BY LabelStep
  <2>2. TypeOK'
    BY <2>1 DEF TypeOK
  <2>3. VersionIsHonest' /\ LoopIsHonest' /\ RowIsThere' /\ GateHolds'
    BY <2>1 DEF VersionIsHonest, LoopIsHonest, RowIsThere, GateHolds, Opening, Migrating
  <2>4. OffSymbolsStay' /\ NotPassed' /\ OneRebuild' /\ ColumnsThere' /\ CopyIsCurrent'
    BY <1>1, <2>1, QuietStore
  <2> QED
    BY <2>2, <2>3, <2>4
<1>3. CASE InitVersion(p)
  <2> USE <1>3 DEF InitVersion, schema, Inv
  <2>1. /\ pc' \in [Procs -> Labels] /\ UNCHANGED <<at, stmt, attempt, fresh>>
        /\ \A q \in Procs : pc'[q] = IF q = p THEN "read" ELSE pc[q]
        /\ \A q \in Procs : pc'[q] = "ddl" => at'[q] \in DOMAIN Script /\ stmt'[q] \in DOMAIN Script[at'[q]]
        /\ Others(p) /\ Leaves(p)
    BY LabelStep
  <2>2. version' \in Nat \ {0} /\ (version' = version \/ (version = 0 /\ version' = 1))
    BY <1>1
  <2>3. TypeOK'
    BY <1>1, <2>1, <2>2 DEF TypeOK
  <2>4. VersionIsHonest' /\ LoopIsHonest' /\ RowIsThere' /\ GateHolds'
    BY <2>1, <2>2 DEF VersionIsHonest, LoopIsHonest, RowIsThere, GateHolds, Opening, Migrating
  <2>5. OffSymbolsStay' /\ NotPassed' /\ OneRebuild' /\ ColumnsThere' /\ CopyIsCurrent'
    BY <2>1, <2>2, QuietStore
  <2> QED
    BY <2>3, <2>4, <2>5
<1>4. CASE AddParity(p)
  <2> USE <1>4 DEF AddParity, Inv
  <2>1. PICK l \in {"open", "closed"} : Return(p, l)
    BY DEF Fail
  <2>2. items \subseteq items' /\ items' \subseteq Items
    BY DEF TypeOK
  <2>3. TypeOK'
    BY SMTT(40), <2>1, <2>2 DEF Return, Goto, TypeOK, Labels
  <2>4. VersionIsHonest' /\ LoopIsHonest' /\ RowIsThere' /\ GateHolds'
    BY <2>1 DEF Return, Goto, TypeOK, VersionIsHonest, LoopIsHonest, RowIsThere, GateHolds, Opening, Migrating
  <2>5. Others(p) /\ Leaves(p)
    BY <2>1 DEF Return, Goto, TypeOK, Others, Leaves, Labels
  <2>6. OffSymbolsStay' /\ NotPassed' /\ OneRebuild' /\ ColumnsThere' /\ CopyIsCurrent'
    BY <1>1, <2>2, <2>5, QuietStore
  <2> QED
    BY <2>3, <2>4, <2>6
<1> QED
  BY <1>2, <1>3, <1>4

-----------------------------------------------------------------------------
(* A statement of a script *)

\* Where a statement takes the process that executes it.
LEMMA ExecFacts ==
    ASSUME Inv, NEW p \in Procs, pc[p] = "ddl",
           stmt' = [stmt EXCEPT ![p] = @ + 1],
           IF stmt[p] < Len(Script[at[p]])
              THEN Goto(p, "ddl") /\ UNCHANGED applied
              ELSE Goto(p, "bump") /\ applied' = applied \cup {at[p]},
           UNCHANGED <<at, attempt, fresh>>
    PROVE  /\ at[p] \in DOMAIN Script /\ stmt[p] \in DOMAIN Script[at[p]]
           /\ at[p] \in 1 .. Known[p] - 1
           /\ Others(p) /\ at'[p] = at[p] /\ stmt'[p] = stmt[p] + 1
           /\ pc'[p] \in {"ddl", "bump"}
           /\ pc' \in [Procs -> Labels] /\ stmt' \in [Procs -> Nat]
           /\ pc'[p] = "ddl" => stmt'[p] \in DOMAIN Script[at[p]] /\ applied' = applied
           /\ pc'[p] = "bump" => stmt'[p] = Len(Script[at[p]]) + 1 /\ applied' = applied \cup {at[p]}
           /\ applied' \subseteq Nat /\ applied \subseteq applied'
<1> USE DEF Inv
<1>1. at[p] \in DOMAIN Script /\ stmt[p] \in DOMAIN Script[at[p]] /\ at[p] \in 1 .. Known[p] - 1
  BY DEF TypeOK, LoopIsHonest, Migrating
<1>2. /\ Len(Script[at[p]]) \in Nat /\ DOMAIN Script[at[p]] = 1 .. Len(Script[at[p]])
      /\ stmt[p] \in Nat /\ at[p] \in Nat
  BY <1>1, ScriptTypes DEF TypeOK
<1>3. pc' \in [Procs -> Labels] /\ stmt' \in [Procs -> Nat]
  <2>1. stmt \in [Procs -> Nat] /\ pc \in [Procs -> Labels] /\ stmt[p] + 1 \in Nat
    BY <1>2 DEF TypeOK
  <2>2. pc' = [pc EXCEPT ![p] = "ddl"] \/ pc' = [pc EXCEPT ![p] = "bump"]
    BY DEF Goto
  <2>3. pc' \in [Procs -> Labels]
    BY <2>1, <2>2 DEF Labels
  <2> QED
    BY <2>1, <2>3
<1>4. Others(p) /\ stmt'[p] = stmt[p] + 1 /\ pc'[p] \in {"ddl", "bump"}
  BY DEF TypeOK, Others, Goto
<1>5. pc'[p] = "ddl" => stmt[p] < Len(Script[at[p]]) /\ applied' = applied
  BY DEF TypeOK, Goto
<1>6. pc'[p] = "bump" => ~(stmt[p] < Len(Script[at[p]])) /\ applied' = applied \cup {at[p]}
  BY DEF TypeOK, Goto
<1>7. applied' = applied \/ applied' = applied \cup {at[p]}
  OBVIOUS
<1>8. applied' \subseteq Nat /\ applied \subseteq applied'
  BY <1>2, <1>7 DEF TypeOK
<1>9. stmt[p] < Len(Script[at[p]]) => stmt[p] + 1 \in DOMAIN Script[at[p]]
  BY <1>2
<1>10. ~(stmt[p] < Len(Script[at[p]])) => stmt[p] + 1 = Len(Script[at[p]]) + 1
  BY <1>1, <1>2
<1> QED
  BY <1>1, <1>3, <1>4, <1>5, <1>6, <1>8, <1>9, <1>10

LEMMA ExecStep ==
    ASSUME Inv, NEW p \in Procs, ExecStatement(p)
    PROVE  Inv'
<1> USE MigrationAssumption DEF Inv
<1> DEFINE i == at[p]
           k == stmt[p]
           s == Script[i][k]
<1>1. CASE Fail(p) /\ UNCHANGED <<schema, applied, overtaken>>
  BY <1>1, ReturnStep DEF ExecStatement, Fail, disk
<1>2. CASE /\ ~Refused(s) /\ Alter(s, i)
           /\ stmt' = [stmt EXCEPT ![p] = @ + 1]
           /\ IF stmt[p] < Len(Script[i])
                 THEN Goto(p, "ddl") /\ UNCHANGED applied
                 ELSE Goto(p, "bump") /\ applied' = applied \cup {i}
           /\ overtaken' = (overtaken \/ (s.op = "drop" /\ version > i))
           /\ UNCHANGED <<at, attempt, fresh>>
  <2>1. pc[p] = "ddl" /\ UNCHANGED <<version, opens>>
    BY DEF ExecStatement
  <2>2. /\ i \in DOMAIN Script /\ k \in DOMAIN Script[i] /\ i \in 1 .. Known[p] - 1
        /\ Others(p) /\ at'[p] = i /\ stmt'[p] = k + 1 /\ pc'[p] \in {"ddl", "bump"}
        /\ pc' \in [Procs -> Labels] /\ stmt' \in [Procs -> Nat]
        /\ pc'[p] = "ddl" => stmt'[p] \in DOMAIN Script[i] /\ applied' = applied
        /\ pc'[p] = "bump" => stmt'[p] = Len(Script[i]) + 1 /\ applied' = applied \cup {i}
        /\ applied' \subseteq Nat /\ applied \subseteq applied'
    BY <1>2, <2>1, ExecFacts
  <2>3. /\ version \in Nat /\ i \in Nat \ {0} /\ k \in Nat \ {0} /\ Known[p] \in Nat
        /\ at \in [Procs -> Nat] /\ items \subseteq Items
    BY SMTT(40), <2>2, ScriptTypes DEF TypeOK
  <2>4. /\ s.op \in {"add", "ensure", "create", "drop", "rename"}
        /\ s.op \in {"add", "ensure"} => s.item \in Items
        /\ s.op = "ensure" => s.item \notin OnSymbols
        /\ s.op = "add" => ~Rebuilds(Script[i])
        /\ s.op = "create" => Rebuilds(Script[i]) /\ k = 1
        /\ s.op = "drop"   => Rebuilds(Script[i]) /\ k = 2
        /\ s.op = "rename" => Rebuilds(Script[i]) /\ k = 3
        /\ Rebuilds(Script[i]) /\ k <= 3 => Len(Script[i]) >= 3 /\ s.op = Rebuild[k]
    BY <2>2, ScriptShape
  <2>5. Ran(i, k + 1) = Ran(i, k) \cup (IF s.op \in {"add", "ensure"} THEN {s.item} ELSE {})
    BY <2>2, RanNext
  <2>6. /\ RanBy(p) = Ran(i, k) /\ RanBy(p)' = Ran(i, k + 1)
        /\ \A q \in Procs \ {p} : RanBy(q)' = RanBy(q) /\ at'[q] = at[q] /\ stmt'[q] = stmt[q]
                                  /\ Migrating(q)' = Migrating(q) /\ InRebuild(q)' = InRebuild(q)
    <3>1. RanBy(p)' = Ran(at'[p], stmt'[p])
      BY DEF RanBy, Ran
    <3>2. \A q \in Procs \ {p} : pc'[q] = pc[q] /\ at'[q] = at[q] /\ stmt'[q] = stmt[q]
      BY <2>2 DEF Others
    <3>3. \A q \in Procs \ {p} : RanBy(q)' = RanBy(q)
      BY <3>2 DEF RanBy, Ran
    <3>4. \A q \in Procs \ {p} : Migrating(q)' = Migrating(q) /\ InRebuild(q)' = InRebuild(q)
      BY <3>2 DEF Migrating, InRebuild, Rebuilds
    <3> QED
      BY <2>2, <3>1, <3>2, <3>3, <3>4 DEF RanBy
  <2>7. /\ Migrating(p) /\ Migrating(p)'
        /\ InRebuild(p) <=> Rebuilds(Script[i]) /\ k \in {2, 3}
        /\ InRebuild(p)' => Rebuilds(Script[i]) /\ k \in {1, 2}
    BY <2>1, <2>2, <2>3 DEF Migrating, InRebuild, Rebuilds
  <2>8. /\ items' = CASE s.op \in {"add", "ensure"} -> items \cup {s.item}
                      [] s.op = "create" -> items
                      [] s.op = "drop" -> items \ OnSymbols
                      [] s.op = "rename" -> items \cup RebuiltColumns(i)
        /\ symbols' = CASE s.op = "drop" -> FALSE [] s.op = "rename" -> TRUE [] OTHER -> symbols
        /\ copy' = CASE s.op = "create" -> TRUE [] s.op = "rename" -> FALSE [] OTHER -> copy
        /\ tables' = tables
    BY <1>2 DEF Alter
  <2>9. Rebuild[1] = "create" /\ Rebuild[2] = "drop" /\ Rebuild[3] = "rename"
    BY DEF Rebuild
  <2>10. s.op \in {"add", "ensure"} => items' = items \cup {s.item} /\ symbols' = symbols /\ copy' = copy
    BY <2>8, Zenon
  <2>11. s.op = "create" => items' = items /\ symbols' = symbols /\ copy' = TRUE /\ ~copy
    BY <1>2, <2>8 DEF Refused
  <2>12. s.op = "drop" => /\ items' = items \ OnSymbols /\ symbols' = FALSE /\ copy' = copy
                          /\ ~overtaken' => version <= i /\ ~overtaken
    <3>1. s.op = "drop" /\ ~overtaken' => ~(version > i) /\ ~overtaken
      BY <1>2, Zenon
    <3>2. ~(version > i) => version <= i
      BY <2>3
    <3> QED
      BY <2>8, <3>1, <3>2, Zenon
  <2>13. s.op = "rename" => items' = items \cup RebuiltColumns(i) /\ copy' = FALSE /\ ~symbols
    BY <1>2, <2>8 DEF Refused
  <2>14. overtaken => overtaken'
    BY <1>2
  <2> HIDE DEF i, k, s
  <2>15. RebuiltColumns(i) = Needed(i) \cap OnSymbols
    BY DEF RebuiltColumns
  <2>16. TypeOK'
    <3>1. items' \subseteq Items
      <4>1. Needed(i) \subseteq Items
        <5>1. \A j \in 1 .. i - 1 : j \in DOMAIN Script
          BY <2>2, <2>3, ScriptTypes
        <5> QED
          BY <5>1, ScriptShape DEF Needed, Added
      <4> QED
        BY <2>3, <2>4, <2>10, <2>11, <2>12, <2>13, <2>15, <4>1
    <3>2. symbols' \in BOOLEAN /\ copy' \in BOOLEAN /\ tables' \in BOOLEAN /\ overtaken' \in BOOLEAN
      <4>1. symbols \in BOOLEAN /\ copy \in BOOLEAN /\ tables \in BOOLEAN /\ overtaken \in BOOLEAN
        BY DEF TypeOK
      <4>2. symbols' \in BOOLEAN
        BY <2>4, <2>8, <4>1
      <4>3. copy' \in BOOLEAN
        BY <2>4, <2>8, <4>1
      <4>4. tables' \in BOOLEAN
        BY <2>8, <4>1
      <4>5. overtaken' \in BOOLEAN
        BY <1>2, <4>1
      <4> QED
        BY <4>2, <4>3, <4>4, <4>5
    <3>3. ASSUME NEW q \in Procs, pc'[q] = "ddl"
          PROVE  at'[q] \in DOMAIN Script /\ stmt'[q] \in DOMAIN Script[at'[q]]
      <4>1. CASE q = p
        BY <2>2, <3>3, <4>1
      <4>2. CASE q # p
        BY <2>2, <3>3, <4>2 DEF TypeOK, Others
      <4> QED
        BY <4>1, <4>2
    <3> QED
      BY <1>2, <2>1, <2>2, <3>1, <3>2, <3>3 DEF TypeOK
  <2>17. VersionIsHonest' /\ RowIsThere'
    BY <2>1, <2>2 DEF VersionIsHonest, RowIsThere, Others
  <2>18. LoopIsHonest'
    <3> SUFFICES ASSUME NEW q \in Procs
                 PROVE  /\ Migrating(q)' => at'[q] \in 1 .. Known[q] - 1 /\ 1 .. at'[q] - 1 \subseteq applied'
                        /\ pc'[q] = "bump" => at'[q] \in applied' /\ stmt'[q] = Len(Script[at'[q]]) + 1
                        /\ pc'[q] \in {"repair", "alter", "open"} => 1 .. Known[q] - 1 \subseteq applied'
      BY DEF LoopIsHonest
    <3>1. CASE q = p
      BY <2>2, <2>7, <3>1 DEF LoopIsHonest, i
    <3>2. CASE q # p
      BY <2>2, <2>6, <3>2 DEF LoopIsHonest, Others
    <3> QED
      BY <3>1, <3>2
  <2>19. GateHolds'
    BY <1>2, <2>1, <2>2, <2>8 DEF GateHolds, Opening, Others
  <2>20. OffSymbolsStay'
    <3>1. items \ OnSymbols \subseteq items'
      BY <2>4, <2>10, <2>11, <2>12, <2>13
    <3>2. \A q \in Procs : Migrating(q)' => RanBy(q)' \ OnSymbols \subseteq items'
      <4> SUFFICES ASSUME NEW q \in Procs, Migrating(q)' PROVE RanBy(q)' \ OnSymbols \subseteq items'
        OBVIOUS
      <4>1. CASE q = p
        BY <2>5, <2>6, <2>7, <2>10, <3>1, <4>1 DEF OffSymbolsStay
      <4>2. CASE q # p
        BY <2>6, <3>1, <4>2 DEF OffSymbolsStay
      <4> QED
        BY <4>1, <4>2
    <3>3. ASSUME NEW j \in applied' PROVE Added(j) \ OnSymbols \subseteq items'
      <4>1. CASE j \in applied
        BY <3>1, <4>1 DEF OffSymbolsStay
      <4>2. CASE j \notin applied
        <5>1. j = i /\ pc'[p] = "bump" /\ stmt'[p] = Len(Script[i]) + 1
          BY <2>2, <3>3, <4>2
        <5>2. RanBy(p)' = Added(i)
          BY <2>2, <2>6, <5>1, RanAll
        <5> QED
          BY <2>7, <3>2, <5>1, <5>2
      <4> QED
        BY <4>1, <4>2
    <3>4. \A j \in applied' : Added(j)' = Added(j)
      BY DEF Added
    <3> QED
      BY <3>2, <3>3, <3>4 DEF OffSymbolsStay
  <2>21. NotPassed'
    BY <2>1, <2>2, <2>6, <2>7, <2>14 DEF NotPassed, Others, i
  <2>22. OneRebuild'
    <3> SUFFICES ASSUME NEW q \in Procs, InRebuild(q)'
                 PROVE  copy' /\ \A r \in Procs : InRebuild(r)' => r = q
      BY DEF OneRebuild
    <3>1. CASE Rebuilds(Script[i]) /\ k = 1
      <4>1. \A r \in Procs : ~InRebuild(r)
        BY <2>4, <2>9, <2>11, <3>1 DEF OneRebuild
      <4> QED
        BY <2>4, <2>6, <2>9, <2>11, <3>1, <4>1
    <3>2. CASE Rebuilds(Script[i]) /\ k = 2
      <4>1. InRebuild(p) /\ copy /\ \A r \in Procs : InRebuild(r) => r = p
        BY <2>7, <3>2 DEF OneRebuild
      <4>2. s.op = "drop"
        BY <2>4, <2>9, <3>2
      <4>3. copy' /\ \A r \in Procs : InRebuild(r)' => r = p
        BY <2>6, <2>12, <4>1, <4>2
      <4> QED
        BY <4>3
    <3>3. CASE Rebuilds(Script[i]) /\ k = 3
      <4>1. InRebuild(p) /\ \A r \in Procs : InRebuild(r) => r = p
        BY <2>7, <3>3 DEF OneRebuild
      <4> QED
        BY <2>6, <2>7, <3>3, <4>1
    <3>4. CASE ~(Rebuilds(Script[i]) /\ k \in {1, 2, 3})
      <4>1. \A r \in Procs : InRebuild(r)' => r # p /\ InRebuild(r)
        BY <2>6, <2>7, <3>4
      <4>2. copy' = copy
        BY <2>4, <2>10, <3>4
      <4> QED
        BY <4>1, <4>2 DEF OneRebuild
    <3> QED
      BY <3>1, <3>2, <3>3, <3>4
  <2>23. ColumnsThere'
    <3> SUFFICES ASSUME ~overtaken', ~copy'
                 PROVE  /\ Needed(version) \cap OnSymbols \subseteq items'
                        /\ \A q \in Procs : Migrating(q)' => RanBy(q)' \cap OnSymbols \subseteq items'
      BY <2>1 DEF ColumnsThere, Needed, Added
    <3>1. CASE s.op \in {"add", "ensure"}
      <4>1. /\ Needed(version) \cap OnSymbols \subseteq items
            /\ \A q \in Procs : Migrating(q) => RanBy(q) \cap OnSymbols \subseteq items
        BY <2>10, <2>14, <3>1 DEF ColumnsThere
      <4> QED
        BY <2>5, <2>6, <2>7, <2>10, <3>1, <4>1
    <3>2. CASE s.op = "create"
      BY <2>11, <3>2
    <3>3. CASE s.op = "drop"
      BY <2>4, <2>7, <2>12, <3>3 DEF OneRebuild
    <3>4. CASE s.op = "rename"
      <4>1. InRebuild(p) /\ k = 3 /\ ~symbols /\ ~overtaken
        BY <2>4, <2>7, <2>13, <2>14, <3>4
      <4>2. /\ Needed(version) \cap OnSymbols \subseteq Needed(i)
            /\ \A q \in Procs : Migrating(q) /\ i <= at[q] => RanBy(q) \cap OnSymbols = {}
        BY <4>1 DEF CopyIsCurrent, i, k
      <4>3. ASSUME NEW q \in Procs, Migrating(q), ~(i <= at[q])
            PROVE  RanBy(q) \subseteq Needed(i)
        <5>1. at[q] \in 1 .. i - 1 /\ at[q] \in DOMAIN Script /\ stmt[q] \in Nat
          BY SMTT(40), <2>2, <2>3, <4>3, ScriptTypes DEF LoopIsHonest, TypeOK
        <5>2. RanBy(q) \subseteq Added(at[q])
          BY <5>1, RanAll DEF RanBy
        <5> QED
          BY <5>1, <5>2 DEF Needed
      <4>4. ASSUME NEW q \in Procs, Migrating(q)'
            PROVE  RanBy(q)' \cap OnSymbols \subseteq Needed(i)
        <5>1. Migrating(q) /\ RanBy(q)' = RanBy(q)
          BY <2>5, <2>6, <2>7, <3>4, <4>4
        <5> QED
          BY <4>2, <4>3, <5>1
      <4> QED
        BY <2>13, <2>15, <3>4, <4>2, <4>4
    <3> QED
      BY <2>4, <3>1, <3>2, <3>3, <3>4
  <2>24. CopyIsCurrent'
    <3> SUFFICES ASSUME ~overtaken', ~symbols', NEW r \in Procs, InRebuild(r)', stmt'[r] = 3
                 PROVE  /\ Needed(version) \cap OnSymbols \subseteq Needed(at'[r])
                        /\ \A q \in Procs : Migrating(q)' /\ at'[r] <= at'[q] => RanBy(q)' \cap OnSymbols = {}
      BY <2>1 DEF CopyIsCurrent, Needed, Added
    <3>1. CASE r = p
      <4>1. s.op = "drop" /\ Rebuilds(Script[i]) /\ k = 2 /\ version <= i /\ ~overtaken
        BY <2>2, <2>3, <2>4, <2>7, <2>9, <2>12, <3>1
      <4>2. Needed(version) \subseteq Needed(i)
        BY <2>3, <4>1, NeededGrows
      <4>3. ASSUME NEW q \in Procs, Migrating(q)', i <= at'[q]
            PROVE  RanBy(q)' \cap OnSymbols = {}
        <5>1. Migrating(q) /\ at[q] = at'[q] /\ RanBy(q)' = RanBy(q) /\ stmt[q] \in Nat
          BY <2>2, <2>5, <2>6, <2>7, <4>1, <4>3 DEF TypeOK, i
        <5>2. at[q] = i
          BY <2>3, <4>1, <4>3, <5>1 DEF NotPassed
        <5>3. RanBy(q) \subseteq Added(i)
          BY <2>2, <5>1, <5>2, RanAll DEF RanBy
        <5> QED
          BY <2>2, <4>1, <5>1, <5>3, RebuildAdds
      <4> QED
        BY <2>2, <3>1, <4>2, <4>3
    <3>2. CASE r # p
      <4>1. InRebuild(r) /\ stmt[r] = 3 /\ at'[r] = at[r] /\ ~InRebuild(p) /\ copy
        BY <2>6, <3>2 DEF OneRebuild
      <4>2. s.op \in {"add", "ensure"}
        BY <2>4, <2>7, <2>11, <4>1
      <4>3. ~symbols /\ ~overtaken
        BY <2>10, <2>14, <4>2
      <4>4. s.item \notin OnSymbols
        BY <1>2, <2>4, <4>2, <4>3 DEF Refused, i, k, s
      <4>5. RanBy(p)' \cap OnSymbols = RanBy(p) \cap OnSymbols
        BY <2>5, <2>6, <4>2, <4>4
      <4>6. /\ Needed(version) \cap OnSymbols \subseteq Needed(at[r])
            /\ \A q \in Procs : Migrating(q) /\ at[r] <= at[q] => RanBy(q) \cap OnSymbols = {}
        BY <4>1, <4>3 DEF CopyIsCurrent
      <4>7. ASSUME NEW q \in Procs, Migrating(q)', at'[r] <= at'[q]
            PROVE  RanBy(q)' \cap OnSymbols = {}
        <5>1. CASE q = p
          BY <2>2, <2>7, <4>1, <4>5, <4>6, <4>7, <5>1 DEF i
        <5>2. CASE q # p
          BY <2>6, <4>1, <4>6, <4>7, <5>2
        <5> QED
          BY <5>1, <5>2
      <4> QED
        BY <4>1, <4>6, <4>7
    <3> QED
      BY <3>1, <3>2
  <2> QED
    BY <2>16, <2>17, <2>18, <2>19, <2>20, <2>21, <2>22, <2>23, <2>24
<1> QED
  BY <1>1, <1>2 DEF ExecStatement

-----------------------------------------------------------------------------
(* The row *)

LEMMA BumpStep ==
    ASSUME Inv, NEW p \in Procs, BumpVersion(p)
    PROVE  Inv'
<1> USE MigrationAssumption DEF Inv
<1> DEFINE i == at[p]
<1>1. /\ pc[p] = "bump" /\ version' = i + 1 /\ Loop(p, i + 1)
      /\ overtaken' = (overtaken \/ version > i + 1)
      /\ UNCHANGED <<tables, items, symbols, copy, applied, opens>>
  BY DEF BumpVersion, schema
<1>2. /\ Migrating(p) /\ i \in 1 .. Known[p] - 1 /\ 1 .. i - 1 \subseteq applied /\ i \in applied
      /\ stmt[p] = Len(Script[i]) + 1
  BY <1>1 DEF LoopIsHonest, Migrating
<1>3. i \in DOMAIN Script /\ i \in Nat \ {0} /\ version \in Nat /\ Known[p] \in Nat \ {0}
  BY <1>2, ScriptTypes DEF TypeOK
<1>4. /\ pc' \in [Procs -> Labels] /\ at' \in [Procs -> Nat] /\ stmt' \in [Procs -> Nat]
      /\ attempt' = attempt /\ fresh' = fresh
      /\ \A q \in Procs : pc'[q] = "ddl" => at'[q] \in DOMAIN Script /\ stmt'[q] \in DOMAIN Script[at'[q]]
      /\ Others(p) /\ at'[p] = i + 1
      /\ \/ i + 1 < Known[p] /\ pc'[p] = "ddl" /\ stmt'[p] = 1
         \/ i + 1 = Known[p] /\ pc'[p] = "repair"
  BY SMTT(40), <1>1, <1>2, <1>3, LoopStep
<1>5. ~overtaken' => ~overtaken /\ version <= i + 1 /\ i <= version
  <2>1. ~overtaken' => ~overtaken /\ ~(version > i + 1)
    BY <1>1, Zenon
  <2> QED
    BY <1>2, <1>3, <2>1 DEF NotPassed
<1>6. /\ \A q \in Procs \ {p} : /\ RanBy(q)' = RanBy(q) /\ at'[q] = at[q] /\ stmt'[q] = stmt[q]
                                /\ Migrating(q)' = Migrating(q) /\ InRebuild(q)' = InRebuild(q)
      /\ ~InRebuild(p)'
      /\ Migrating(p)' => RanBy(p)' = {} /\ at'[p] = i + 1
  <2>1. \A q \in Procs \ {p} : pc'[q] = pc[q] /\ at'[q] = at[q] /\ stmt'[q] = stmt[q]
    BY <1>4 DEF Others
  <2>2. \A q \in Procs \ {p} : RanBy(q)' = RanBy(q)
    BY <2>1 DEF RanBy, Ran
  <2>3. \A q \in Procs \ {p} : Migrating(q)' = Migrating(q) /\ InRebuild(q)' = InRebuild(q)
    BY <2>1 DEF Migrating, InRebuild, Rebuilds
  <2>4. ASSUME Migrating(p)' PROVE RanBy(p)' = {}
    <3>1. pc'[p] = "ddl" /\ stmt'[p] = 1 /\ at'[p] \in DOMAIN Script
      BY <1>4, <2>4 DEF Migrating
    <3>2. RanBy(p)' = Ran(at'[p], stmt'[p])
      BY DEF RanBy, Ran
    <3> QED
      BY <3>1, <3>2, RanStart
  <2>5. ~InRebuild(p)'
    BY <1>4 DEF InRebuild
  <2> QED
    BY <1>4, <2>1, <2>2, <2>3, <2>4, <2>5
<1>7. RanBy(p) = Added(i) /\ Needed(version') = Needed(i) \cup Added(i)
  BY <1>1, <1>2, <1>3, RanAll, NeededNext DEF RanBy
<1> HIDE DEF i
<1>8. TypeOK'
  BY <1>1, <1>2, <1>3, <1>4 DEF TypeOK
<1>9. VersionIsHonest' /\ RowIsThere'
  BY <1>1, <1>2, <1>3, <1>4 DEF VersionIsHonest, RowIsThere, Others
<1>10. LoopIsHonest'
  <2> SUFFICES ASSUME NEW q \in Procs
               PROVE  /\ Migrating(q)' => at'[q] \in 1 .. Known[q] - 1 /\ 1 .. at'[q] - 1 \subseteq applied
                      /\ pc'[q] = "bump" => at'[q] \in applied /\ stmt'[q] = Len(Script[at'[q]]) + 1
                      /\ pc'[q] \in {"repair", "alter", "open"} => 1 .. Known[q] - 1 \subseteq applied
    BY <1>1 DEF LoopIsHonest
  <2>1. CASE q = p
    BY <1>2, <1>3, <1>4, <2>1 DEF Migrating
  <2>2. CASE q # p
    BY <1>4, <1>6, <2>2 DEF LoopIsHonest, Others
  <2> QED
    BY <2>1, <2>2
<1>11. GateHolds'
  BY <1>1, <1>4 DEF GateHolds, Opening, Others
<1>12. OffSymbolsStay'
  BY <1>1, <1>6 DEF OffSymbolsStay, Added
<1>13. NotPassed'
  <2> SUFFICES ASSUME ~overtaken', NEW q \in Procs
               PROVE  /\ Migrating(q)' => at'[q] <= version'
                      /\ pc'[q] \in {"repair", "alter", "open"} => Known[q] <= version'
    BY DEF NotPassed
  <2>1. CASE q = p
    BY <1>1, <1>3, <1>4, <2>1
  <2>2. CASE q # p
    <3>1. at[q] \in Nat /\ Known[q] \in Nat /\ version <= version'
      BY <1>1, <1>5, ScriptTypes DEF TypeOK
    <3>2. /\ Migrating(q) => at[q] <= version
          /\ pc[q] \in {"repair", "alter", "open"} => Known[q] <= version
      BY <1>5 DEF NotPassed
    <3>3. version' \in Nat /\ pc'[q] = pc[q] /\ at'[q] = at[q]
      BY <1>1, <1>3, <1>4, <2>2 DEF Others
    <3>4. pc'[q] \in {"repair", "alter", "open"} => Known[q] <= version'
      BY <1>3, <3>1, <3>2, <3>3
    <3>5. Migrating(q)' => at'[q] <= version'
      BY <1>3, <3>1, <3>2, <3>3 DEF Migrating
    <3> QED
      BY <3>4, <3>5
  <2> QED
    BY <2>1, <2>2
<1>14. OneRebuild'
  BY <1>1, <1>6 DEF OneRebuild
<1>15. ASSUME ~overtaken' PROVE Needed(i) \subseteq Needed(version)
  BY <1>3, <1>5, <1>15, NeededGrows
<1>16. ColumnsThere'
  <2> SUFFICES ASSUME ~overtaken', ~copy
               PROVE  /\ Needed(version') \cap OnSymbols \subseteq items
                      /\ \A q \in Procs : Migrating(q)' => RanBy(q)' \cap OnSymbols \subseteq items
    BY <1>1 DEF ColumnsThere, Needed, Added
  <2> QED
    BY <1>2, <1>5, <1>6, <1>7, <1>15 DEF ColumnsThere
<1>17. CopyIsCurrent'
  <2> SUFFICES ASSUME ~overtaken', ~symbols, NEW r \in Procs, InRebuild(r)', stmt'[r] = 3
               PROVE  /\ Needed(version') \cap OnSymbols \subseteq Needed(at'[r])
                      /\ \A q \in Procs : Migrating(q)' /\ at'[r] <= at'[q] => RanBy(q)' \cap OnSymbols = {}
    BY <1>1 DEF CopyIsCurrent, Needed, Added
  <2>1. r # p /\ InRebuild(r) /\ stmt[r] = 3 /\ at'[r] = at[r] /\ at[r] \in Nat
    BY <1>6 DEF TypeOK
  <2>2. /\ Needed(version) \cap OnSymbols \subseteq Needed(at[r])
        /\ \A q \in Procs : Migrating(q) /\ at[r] <= at[q] => RanBy(q) \cap OnSymbols = {}
    BY <1>5, <2>1 DEF CopyIsCurrent
  <2>3. Needed(version') \cap OnSymbols \subseteq Needed(at[r])
    <3>1. CASE at[r] <= i
      BY <1>2, <1>7, <1>15, <2>2, <3>1 DEF i
    <3>2. CASE ~(at[r] <= i)
      <4>1. i + 1 <= at[r]
        BY <1>3, <2>1, <3>2
      <4> QED
        BY <1>1, <1>3, <2>1, <4>1, NeededGrows
    <3> QED
      BY <3>1, <3>2
  <2>4. ASSUME NEW q \in Procs, Migrating(q)', at'[r] <= at'[q]
        PROVE  RanBy(q)' \cap OnSymbols = {}
    BY <1>6, <2>1, <2>2, <2>4
  <2> QED
    BY <2>1, <2>3, <2>4
<1> QED
  BY <1>8, <1>9, <1>10, <1>11, <1>12, <1>13, <1>14, <1>16, <1>17

-----------------------------------------------------------------------------
(* The theorems *)

LEMMA StepInv == Inv /\ [Next]_vars => Inv'
<1> SUFFICES ASSUME Inv, [Next]_vars PROVE Inv'
  OBVIOUS
<1>1. CASE UNCHANGED vars
  <2> USE <1>1 DEF vars, disk, schema, local, Inv
  <2>1. TypeOK' /\ VersionIsHonest' /\ LoopIsHonest' /\ RowIsThere' /\ GateHolds'
    BY DEF TypeOK, VersionIsHonest, LoopIsHonest, RowIsThere, GateHolds, Opening, Migrating
  <2>2. OffSymbolsStay' /\ NotPassed' /\ OneRebuild'
    BY DEF OffSymbolsStay, NotPassed, OneRebuild, Migrating, InRebuild, RanBy, Ran, Added
  <2>3. ColumnsThere' /\ CopyIsCurrent'
    BY DEF ColumnsThere, CopyIsCurrent, Migrating, InRebuild, RanBy, Ran, Needed, Added
  <2> QED
    BY <2>1, <2>2, <2>3
<1>2. CASE Next
  <2>1. ASSUME NEW p \in Procs, Open(p) \/ Migrate(p) \/ Busy(p) \/ Crash(p) \/ DriftTick(p)
        PROVE  Inv'
    BY <2>1, StartStep, ReadStep, PlainWriteStep, ExecStep, BumpStep DEF Migrate
  <2> QED
    BY <1>1, <1>2, <2>1 DEF Next
<1> QED
  BY <1>1, <1>2

LEMMA Invariance == Spec => []Inv
  BY InitInv, StepInv, PTL DEF Spec

\* Open and migrate keep the types of the store's state; in particular no
\* binary writes a version it does not know, or runs off the end of a script.
THEOREM MigrationTypeCorrect == Spec => []TypeOK
  BY Invariance, PTL DEF Inv

\* Whatever the number of processes, their versions and their scripts:
\* schema_version claims no migration that did not run to its end.
THEOREM VersionHonest == Spec => []VersionIsHonest
  BY Invariance, PTL DEF Inv

\* Whatever the processes, versions and scripts: an open store has the schema
\* its binary relies on, however the statements of the migrators interleave,
\* rebuilds of symbols included, as long as none is overtaken and no rebuild
\* is under way or was left unfinished; what is not on symbols it always has.
THEOREM OpenComplete == Spec => []OpenIsComplete
<1>1. Inv => OpenIsComplete
  <2> SUFFICES ASSUME Inv, NEW p \in Procs, pc[p] = "open"
               PROVE  /\ Needed(Known[p]) \ OnSymbols \subseteq items
                      /\ overtaken \/ copy \/ Needed(Known[p]) \subseteq items
    BY DEF OpenIsComplete
  <2>1. Needed(Known[p]) \ OnSymbols \subseteq items
    BY DEF Inv, LoopIsHonest, OffSymbolsStay, Needed
  <2>2. ASSUME ~overtaken, ~copy PROVE Needed(Known[p]) \cap OnSymbols \subseteq items
    <3>1. Known[p] <= version /\ Known[p] \in Nat /\ version \in Nat
      BY <2>2, ScriptTypes DEF Inv, NotPassed, TypeOK
    <3> QED
      BY <2>2, <3>1, NeededGrows DEF Inv, ColumnsThere
  <2> QED
    BY <2>1, <2>2
<1> QED
  BY <1>1, Invariance, PTL

\* Whatever the processes and versions: no binary without consent executes a
\* statement of a migration on a store that was there when its Open began.
THEOREM ConsentRespected == Spec => []ConsentGate
<1>1. Inv => ConsentGate
  BY DEF Inv, GateHolds, ConsentGate
<1> QED
  BY <1>1, Invariance, PTL
=============================================================================
