------------------------- MODULE TemplateCatalogProofs -------------------------
(***************************************************************************)
(* Proofs about TemplateCatalog, for every set of tenants, slots and       *)
(* requests and every quota.                                               *)
(*                                                                         *)
(* Every step keeps what identifies the rows there are (lemma RowsStep)    *)
(* and adds at most the row of one call.  The inductive invariant says     *)
(* what a call between its queries knows about the rows up to its          *)
(* snapshots; a row that is younger than the snapshot is a race.           *)
(***************************************************************************)
EXTENDS TemplateCatalog, FiniteSetTheorems, TLAPS

-----------------------------------------------------------------------------
(* The rows of one step *)

\* Rows that differ in is_active at most.
Same(r, s) ==
    /\ r.id = s.id /\ r.version = s.version
    /\ r.owner = s.owner /\ r.slot = s.slot /\ r.scope = s.scope

\* The row a call inserts has the type of rows.
LEMMA NewRowType ==
    ASSUME TypeOK, NEW c \in Calls
    PROVE  NewRow(c) \in Row
<1>1. /\ args[c] \in Args
      /\ found[c] \in 0 .. Len(rows)
      /\ found[c] # 0 => rows[found[c]] \in Row
  BY DEF TypeOK
<1>2. /\ args[c].owner \in Owners
      /\ args[c].slot \in Slots
      /\ args[c].scope \in Scopes
  BY <1>1 DEF Args, AdminArgs, TenantArgs, Owners, Scopes
<1>. QED
  BY <1>1, <1>2 DEF NewRow, Row

\* Switching a version on or off changes is_active only.
LEMMA SetActiveRows ==
    ASSUME TypeOK, NEW i \in 1 .. Len(rows), NEW b \in BOOLEAN, SetActive(i, b)
    PROVE  /\ rows' \in Seq(Row)
           /\ Len(rows') = Len(rows)
           /\ \A j \in 1 .. Len(rows) : rows'[j] \in Row /\ Same(rows'[j], rows[j])
<1>1. rows \in Seq(Row)
  BY DEF TypeOK
<1>2. rows[i] \in Row
  BY <1>1
<1>3. PICK r \in Row : r = [rows[i] EXCEPT !.is_active = b]
  BY <1>2 DEF Row
<1>4. Same(r, rows[i])
  BY <1>2, <1>3 DEF Same, Row
<1>5. rows' = [rows EXCEPT ![i] = r]
  BY <1>3 DEF SetActive
<1>. QED
  BY <1>1, <1>2, <1>4, <1>5 DEF Same

\* What exists stays what it is, in its place, and a step adds at most one row.
LEMMA RowsStep ==
    ASSUME TypeOK, [Next]_vars
    PROVE  /\ rows' \in Seq(Row)
           /\ Len(rows) \in Nat
           /\ \A i \in 1 .. Len(rows) : Same(rows'[i], rows[i])
           /\ \/ Len(rows') = Len(rows)
              \/ \E c \in Calls :
                    /\ Create(c)
                    /\ Len(rows') = Len(rows) + 1
                    /\ rows'[Len(rows) + 1] = NewRow(c)
<1>1. rows \in Seq(Row) /\ Len(rows) \in Nat
  BY DEF TypeOK
<1>2. CASE rows' = rows
  BY <1>1, <1>2 DEF Same
<1>3. CASE \E c \in Calls : Create(c)
  <2>1. PICK c \in Calls : Create(c)
    BY <1>3
  <2>2. rows' = Append(rows, NewRow(c)) /\ NewRow(c) \in Row
    BY <2>1, NewRowType DEF Create
  <2>. QED
    BY <1>1, <2>1, <2>2 DEF Same
<1>4. CASE \E i \in 1 .. Len(rows), b \in BOOLEAN : SetActive(i, b)
  BY <1>1, <1>4, SetActiveRows
<1>. QED
  BY <1>2, <1>3, <1>4
     DEF Next, vars, FindLatest, CheckQuota, Conflict, Abort, Deactivate, Reactivate
-----------------------------------------------------------------------------
(* Type correctness *)

PrimaryKey ==
    \A i, j \in 1 .. Len(rows) :
        rows[i].id = rows[j].id /\ rows[i].version = rows[j].version => i = j

\* No INSERT duplicates a primary key.
LEMMA KeyStep ==
    ASSUME TypeOK, [Next]_vars
    PROVE  PrimaryKey'
<1>1. PrimaryKey /\ rows \in Seq(Row) /\ Len(rows) \in Nat
  BY DEF TypeOK, PrimaryKey
<1>2. \A i \in 1 .. Len(rows) : Same(rows'[i], rows[i])
  BY RowsStep
<1>3. CASE Len(rows') = Len(rows)
  BY <1>1, <1>2, <1>3 DEF PrimaryKey, Same
<1>4. ASSUME NEW c \in Calls, Create(c), Len(rows') = Len(rows) + 1,
             rows'[Len(rows) + 1] = NewRow(c)
      PROVE  PrimaryKey'
  <2>1. \A i \in 1 .. Len(rows) :
           ~(rows[i].id = NewRow(c).id /\ rows[i].version = NewRow(c).version)
    BY <1>4 DEF Create, Taken
  <2>2. \A i \in 1 .. Len(rows) :
           /\ rows'[i].id = rows[i].id
           /\ rows'[i].version = rows[i].version
    BY <1>2 DEF Same
  <2>3. SUFFICES ASSUME NEW i \in 1 .. Len(rows) + 1, NEW j \in 1 .. Len(rows) + 1,
                        rows'[i].id = rows'[j].id, rows'[i].version = rows'[j].version
                 PROVE  i = j
    BY <1>4 DEF PrimaryKey
  <2>4. CASE i \in 1 .. Len(rows) /\ j \in 1 .. Len(rows)
    BY <1>1, <2>2, <2>3, <2>4 DEF PrimaryKey
  <2>5. CASE i = Len(rows) + 1 /\ j \in 1 .. Len(rows)
    BY <1>4, <2>1, <2>2, <2>3, <2>5
  <2>6. CASE i \in 1 .. Len(rows) /\ j = Len(rows) + 1
    BY <1>4, <2>1, <2>2, <2>3, <2>6
  <2>. QED
    BY <1>1, <2>4, <2>5, <2>6
<1>. QED
  BY <1>3, <1>4, RowsStep

\* Every step keeps the types.
LEMMA TypeStep ==
    ASSUME TypeOK, [Next]_vars
    PROVE  TypeOK'
<1>1. PrimaryKey' /\ rows' \in Seq(Row) /\ Len(rows) \in Nat /\ Len(rows') \in Nat
  BY KeyStep, RowsStep
<1>2. Len(rows') >= Len(rows)
  BY <1>1, RowsStep
<1>3. /\ pc' \in [Calls -> {"idle", "quota", "create"} \cup Ended]
      /\ args' \in [Calls -> Args]
      /\ found' \in [Calls -> 0 .. Len(rows)]
      /\ seen' \in [Calls -> 0 .. Len(rows)]
      /\ counted' \in [Calls -> 0 .. Len(rows)]
  <2>. USE <1>1 DEF TypeOK, Ended
  <2>1. ASSUME NEW c \in Calls, FindLatest(c) PROVE <1>3
    <3>1. Latest(Line(args[c])) \subseteq 1 .. Len(rows)
      BY DEF Latest, Line
    <3>2. found' \in [Calls -> 0 .. Len(rows)]
      <4>1. CASE found' = found
        BY <4>1
      <4>2. CASE \E i \in Latest(Line(args[c])) : found' = [found EXCEPT ![c] = i]
        BY <3>1, <4>2
      <4>. QED
        BY <2>1, <4>1, <4>2 DEF FindLatest
    <3>3. PICK p \in {"quota", "create"} : pc' = [pc EXCEPT ![c] = p]
      BY <2>1 DEF FindLatest
    <3>4. seen' = [seen EXCEPT ![c] = Len(rows)] /\ UNCHANGED <<args, counted>>
      BY <2>1 DEF FindLatest
    <3>. QED
      BY <3>2, <3>3, <3>4
  <2>2. ASSUME NEW c \in Calls, CheckQuota(c) PROVE <1>3
    BY <2>2 DEF CheckQuota
  <2>3. ASSUME NEW c \in Calls, Create(c) \/ Conflict(c) \/ Abort(c) PROVE <1>3
    BY <2>3 DEF Create, Conflict, Abort
  <2>4. CASE Deactivate \/ Reactivate
    BY <2>4 DEF Deactivate, Reactivate, SetActive
  <2>5. CASE UNCHANGED vars
    BY <2>5 DEF vars
  <2>. QED
    BY <2>1, <2>2, <2>3, <2>4, <2>5 DEF Next
<1>4. 0 .. Len(rows) \subseteq 0 .. Len(rows')
  BY <1>1, <1>2
<1>. QED
  BY <1>1, <1>3, <1>4 DEF TypeOK, PrimaryKey

\* The rows and the calls always have their types, and no two rows one primary key
\* (schema.prisma:30-47), whatever creations overlap.
THEOREM CatalogTypeCorrect == Spec => []TypeOK
<1>1. Init => TypeOK
  BY DEF Init, TypeOK
<1>. QED
  BY <1>1, TypeStep, PTL DEF Spec

-----------------------------------------------------------------------------
(* The numbering of versions *)

\* What a call knows of the row it found.
FoundIsOfLine ==
    \A c \in Calls : found[c] # 0 =>
        /\ rows[found[c]].owner = args[c].owner
        /\ rows[found[c]].slot = args[c].slot

\* Only a call that has created a row has given its id to any.
IdsAreDrawn ==
    \A c \in Calls : pc[c] # "created" => \A i \in 1 .. Len(rows) : rows[i].id # c

\* The row of a first version is its drawer's.
FirstsAreDrawn ==
    \A i \in 1 .. Len(rows) : First(i) =>
        /\ rows[i].owner = args[rows[i].id].owner
        /\ rows[i].slot = args[rows[i].id].slot
        /\ rows[i].scope = args[rows[i].id].scope

\* A row is inserted after the version it edits.
LEMMA VersionsStep ==
    ASSUME TypeOK, VersionsFollowEdits, IdsAreDrawn, [Next]_vars
    PROVE  VersionsFollowEdits'
<1>1. rows \in Seq(Row) /\ Len(rows) \in Nat
  BY DEF TypeOK
<1>2. \A i \in 1 .. Len(rows) :
         /\ rows'[i].id = rows[i].id
         /\ rows'[i].version = rows[i].version
  BY RowsStep DEF Same
<1>3. \A i \in 1 .. Len(rows) : rows[i].version \in Nat \ {0}
  <2>1. \A i \in 1 .. Len(rows) : rows[i] \in Row
    BY <1>1
  <2>. QED
    BY <2>1 DEF Row
<1>4. \A i \in 1 .. Len(rows) :
         /\ \A v \in 1 .. rows'[i].version :
               \E j \in 1 .. i : rows'[j].id = rows'[i].id /\ rows'[j].version = v
         /\ \A j \in 1 .. i - 1 :
               rows'[j].id = rows'[i].id => rows'[j].version < rows'[i].version
  <2>1. TAKE i \in 1 .. Len(rows)
  <2>2. \A j \in 1 .. i : j \in 1 .. Len(rows)
    BY <1>1
  <2>3. \A j \in 1 .. i - 1 : j \in 1 .. Len(rows)
    BY <1>1
  <2>. QED
    BY <1>2, <2>2, <2>3 DEF VersionsFollowEdits
<1>5. CASE Len(rows') = Len(rows)
  BY <1>4, <1>5 DEF VersionsFollowEdits
<1>6. ASSUME NEW c \in Calls, Create(c), Len(rows') = Len(rows) + 1,
             rows'[Len(rows) + 1] = NewRow(c)
      PROVE  VersionsFollowEdits'
  <2>. DEFINE n == Len(rows) + 1
  <2>1. /\ pc[c] = "create"
        /\ \A i \in 1 .. Len(rows) :
              ~(rows[i].id = NewRow(c).id /\ rows[i].version = NewRow(c).version)
    BY <1>6 DEF Create, Taken
  <2>2. rows'[n] = NewRow(c) /\ n \in Nat
    BY <1>1, <1>6
  <2>3. /\ \A v \in 1 .. rows'[n].version :
              \E j \in 1 .. n : rows'[j].id = rows'[n].id /\ rows'[j].version = v
        /\ \A j \in 1 .. n - 1 :
              rows'[j].id = rows'[n].id => rows'[j].version < rows'[n].version
    <3>1. CASE found[c] = 0
      <4>1. NewRow(c).id = c /\ NewRow(c).version = 1
        BY <3>1 DEF NewRow
      <4>2. \A j \in 1 .. n - 1 : rows'[j].id # c
        BY <1>1, <1>2, <2>1 DEF IdsAreDrawn
      <4>. QED
        BY <1>1, <2>2, <4>1, <4>2
    <3>2. CASE found[c] # 0
      <4>. DEFINE f == found[c]
      <4>1. f \in 1 .. Len(rows)
        BY <1>1, <3>2 DEF TypeOK
      <4>2. NewRow(c).id = rows[f].id /\ NewRow(c).version = rows[f].version + 1
        BY <3>2 DEF NewRow
      <4>3. rows[f].version \in Nat \ {0}
        BY <1>3, <4>1
      <4>4. ASSUME NEW v \in 1 .. rows'[n].version
            PROVE  \E j \in 1 .. n : rows'[j].id = rows'[n].id /\ rows'[j].version = v
        <5>1. CASE v = rows[f].version + 1
          BY <1>1, <2>2, <4>2, <5>1
        <5>2. CASE v \in 1 .. rows[f].version
          <6>1. PICK j \in 1 .. f : rows[j].id = rows[f].id /\ rows[j].version = v
            BY <4>1, <5>2 DEF VersionsFollowEdits
          <6>2. j \in 1 .. Len(rows) /\ j \in 1 .. n
            BY <1>1, <4>1
          <6>. QED
            BY <1>2, <2>2, <4>2, <6>1, <6>2
        <5>. QED
          BY <2>2, <4>2, <4>3, <4>4, <5>1, <5>2
      <4>5. ASSUME NEW j \in 1 .. n - 1, rows'[j].id = rows'[n].id
            PROVE  rows'[j].version < rows'[n].version
        <5>1. j \in 1 .. Len(rows) /\ rows[j].id = NewRow(c).id
          BY <1>1, <1>2, <2>2, <4>5
        <5>2. SUFFICES ASSUME rows[j].version >= rows[f].version + 1
                       PROVE  FALSE
          BY <1>2, <1>3, <2>2, <4>2, <4>3, <5>1
        <5>3. rows[f].version + 1 \in 1 .. rows[j].version
          BY <1>3, <4>3, <5>1, <5>2
        <5>4. PICK k \in 1 .. j :
                 rows[k].id = rows[j].id /\ rows[k].version = rows[f].version + 1
          BY <5>1, <5>3 DEF VersionsFollowEdits
        <5>5. k \in 1 .. Len(rows)
          BY <1>1, <5>1
        <5>. QED
          BY <2>1, <4>2, <5>1, <5>4, <5>5
      <4>. QED
        BY <4>4, <4>5
    <3>. QED
      BY <3>1, <3>2
  <2>4. \A i \in 1 .. n : i \in 1 .. Len(rows) \/ i = n
    BY <1>1
  <2>. QED
    BY <1>4, <1>6, <2>3, <2>4 DEF VersionsFollowEdits
<1>. QED
  BY <1>5, <1>6, RowsStep

-----------------------------------------------------------------------------
(* What a call knows *)

\* A call's arguments stay, and its snapshots change where it takes them.
LEMMA CallStep ==
    ASSUME TypeOK, [Next]_vars, NEW c \in Calls
    PROVE  /\ args' = args
           /\ FindLatest(c) \/ (found'[c] = found[c] /\ seen'[c] = seen[c])
           /\ CheckQuota(c) \/ counted'[c] = counted[c]
           /\ \/ pc'[c] = pc[c]
              \/ FindLatest(c) \/ CheckQuota(c) \/ Create(c) \/ Conflict(c) \/ Abort(c)
<1>. DEFINE Goal ==
               /\ args' = args
               /\ FindLatest(c) \/ (found'[c] = found[c] /\ seen'[c] = seen[c])
               /\ CheckQuota(c) \/ counted'[c] = counted[c]
               /\ \/ pc'[c] = pc[c]
                  \/ FindLatest(c) \/ CheckQuota(c) \/ Create(c) \/ Conflict(c) \/ Abort(c)
<1>1. ASSUME NEW d \in Calls, FindLatest(d) PROVE Goal
  <2>1. CASE d = c
    BY <1>1, <2>1 DEF FindLatest
  <2>2. CASE d # c
    <3>1. found'[c] = found[c]
      BY <1>1, <2>2 DEF FindLatest, TypeOK
    <3>2. seen'[c] = seen[c] /\ pc'[c] = pc[c]
      BY <1>1, <2>2 DEF FindLatest, TypeOK
    <3>. QED
      BY <1>1, <3>1, <3>2 DEF FindLatest
  <2>. QED
    BY <2>1, <2>2
<1>2. ASSUME NEW d \in Calls, CheckQuota(d) PROVE Goal
  BY <1>2 DEF CheckQuota, TypeOK
<1>3. ASSUME NEW d \in Calls, Create(d) PROVE Goal
  BY <1>3 DEF Create, TypeOK
<1>4. ASSUME NEW d \in Calls, Conflict(d) \/ Abort(d) PROVE Goal
  BY <1>4 DEF Conflict, Abort, TypeOK
<1>5. CASE Deactivate \/ Reactivate \/ UNCHANGED vars
  BY <1>5 DEF Deactivate, Reactivate, SetActive, vars
<1>. QED
  BY <1>1, <1>2, <1>3, <1>4, <1>5 DEF Next

\* An existing row does not change its line.
LEMMA LineStep ==
    ASSUME TypeOK, [Next]_vars, NEW a
    PROVE  \A i \in 1 .. Len(rows) : i \in Line(a) <=> i \in Line(a)'
<1>1. \A i \in 1 .. Len(rows) : Same(rows'[i], rows[i])
  BY RowsStep
<1>2. Len(rows) \in Nat /\ Len(rows') \in Nat /\ Len(rows') >= Len(rows)
  BY RowsStep
<1>. QED
  BY <1>1, <1>2 DEF Line, Same

\* A call that found nothing had nothing of its line before it.
NothingSeen ==
    \A c \in Calls : pc[c] \in {"quota", "create"} /\ found[c] = 0 =>
        \A i \in 1 .. seen[c] : i \notin Line(args[c])

\* A call that found a row had no later version of its line before it.
LatestSeen ==
    \A c \in Calls : found[c] # 0 =>
        \A i \in 1 .. seen[c] :
            i \in Line(args[c]) => rows[i].version <= rows[found[c]].version

\* What a call knows of the rows stays true while others insert theirs.
LEMMA KnowledgeStep ==
    ASSUME TypeOK, FoundIsOfLine, NothingSeen, LatestSeen, [Next]_vars
    PROVE  FoundIsOfLine' /\ NothingSeen' /\ LatestSeen'
<1>. DEFINE Known(c) ==
               /\ found[c] # 0 =>
                     /\ rows[found[c]].owner = args[c].owner
                     /\ rows[found[c]].slot = args[c].slot
               /\ pc[c] \in {"quota", "create"} /\ found[c] = 0 =>
                     \A i \in 1 .. seen[c] : i \notin Line(args[c])
               /\ found[c] # 0 =>
                     \A i \in 1 .. seen[c] :
                         i \in Line(args[c]) => rows[i].version <= rows[found[c]].version
<1>1. SUFFICES ASSUME NEW c \in Calls PROVE Known(c)'
  BY DEF FoundIsOfLine, NothingSeen, LatestSeen
<1>2. Known(c) /\ args' = args
  BY CallStep DEF FoundIsOfLine, NothingSeen, LatestSeen
<1>3. Len(rows) \in Nat /\ found[c] \in 0 .. Len(rows) /\ seen[c] \in 0 .. Len(rows)
  BY DEF TypeOK
<1>4. CASE FindLatest(c)
  <2>1. rows' = rows /\ seen'[c] = Len(rows)
    BY <1>4 DEF FindLatest, TypeOK
  <2>2. Line(args[c])' = Line(args[c])
    BY <1>2, <2>1 DEF Line
  <2>3. CASE Line(args[c]) = {} /\ UNCHANGED found
    BY <1>2, <2>1, <2>2, <2>3
  <2>4. ASSUME NEW i \in Latest(Line(args[c])), found' = [found EXCEPT ![c] = i]
        PROVE  Known(c)'
    <3>1. /\ i \in Line(args[c]) /\ i \in 1 .. Len(rows)
          /\ \A j \in Line(args[c]) : rows[j].version <= rows[i].version
      BY <2>4 DEF Latest, Line
    <3>2. found'[c] = i /\ i # 0
      BY <1>3, <2>4, <3>1 DEF TypeOK
    <3>3. rows[i].owner = args[c].owner /\ rows[i].slot = args[c].slot
      BY <3>1 DEF Line
    <3>. QED
      BY <1>2, <2>1, <2>2, <3>1, <3>2, <3>3
  <2>. QED
    BY <1>4, <2>3, <2>4 DEF FindLatest
<1>5. CASE ~FindLatest(c)
  <2>1. found'[c] = found[c] /\ seen'[c] = seen[c]
    BY <1>5, CallStep
  <2>2. pc'[c] \in {"quota", "create"} => pc[c] \in {"quota", "create"}
    <3>1. pc'[c] = pc[c] \/ CheckQuota(c) \/ Create(c) \/ Conflict(c) \/ Abort(c)
      BY <1>5, CallStep
    <3>. QED
      BY <3>1 DEF CheckQuota, Create, Conflict, Abort, TypeOK
  <2>3. /\ \A i \in 1 .. Len(rows) : Same(rows'[i], rows[i])
        /\ \A i \in 1 .. Len(rows) : i \in Line(args[c]) <=> i \in Line(args[c])'
    <3>1. \A i \in 1 .. Len(rows) : i \in Line(args[c]) <=> i \in Line(args[c])'
      BY <1>2, LineStep DEF Line
    <3>. QED
      BY <3>1, RowsStep
  <2>4. \A i \in 1 .. seen[c] : i \in 1 .. Len(rows)
    BY <1>3
  <2>5. found[c] # 0 => found[c] \in 1 .. Len(rows)
    BY <1>3
  <2>. QED
    BY <1>2, <2>1, <2>2, <2>3, <2>4, <2>5 DEF Same
<1>. QED
  BY <1>4, <1>5

\* The rows of one template have one owner, one event type and one channel.
LinesAreUniform ==
    \A i, j \in 1 .. Len(rows) :
        rows[i].id = rows[j].id => rows[i].owner = rows[j].owner /\ rows[i].slot = rows[j].slot

\* A call that has created its row has ended.
LEMMA CreatedStays ==
    ASSUME TypeOK, [Next]_vars, NEW c \in Calls, pc[c] = "created"
    PROVE  pc'[c] = "created"
BY CallStep DEF FindLatest, CheckQuota, Create, Conflict, Abort

\* Ids are drawn by the call that inserts the first version, and inherited by later ones.
LEMMA IdsStep ==
    ASSUME TypeOK, FoundIsOfLine, IdsAreDrawn, FirstsAreDrawn, LinesAreUniform, [Next]_vars
    PROVE  IdsAreDrawn' /\ FirstsAreDrawn' /\ LinesAreUniform'
<1>1. /\ Len(rows) \in Nat /\ Len(rows') \in Nat
      /\ \A i \in 1 .. Len(rows) : rows[i] \in Row
      /\ args' = args
  BY RowsStep DEF TypeOK, Next, vars, Deactivate, Reactivate, SetActive,
     FindLatest, CheckQuota, Create, Conflict, Abort
<1>2. \A i \in 1 .. Len(rows) :
         /\ rows[i].id \in Calls /\ pc[rows[i].id] = "created"
         /\ rows[i].version \in Nat \ {0}
  BY <1>1 DEF IdsAreDrawn, Row
<1>3. \A i \in 1 .. Len(rows) :
         Same(rows'[i], rows[i]) /\ pc'[rows[i].id] = "created"
  BY <1>2, RowsStep, CreatedStays
<1>4. CASE Len(rows') = Len(rows)
  BY <1>1, <1>3, <1>4 DEF IdsAreDrawn, FirstsAreDrawn, LinesAreUniform, Same, First
<1>5. ASSUME NEW c \in Calls, Create(c), Len(rows') = Len(rows) + 1,
             rows'[Len(rows) + 1] = NewRow(c)
      PROVE  IdsAreDrawn' /\ FirstsAreDrawn' /\ LinesAreUniform'
  <2>. DEFINE n == Len(rows) + 1
  <2>1. /\ \A i \in 1 .. n : i \in 1 .. Len(rows) \/ i = n
        /\ rows'[n] = NewRow(c)
        /\ pc[c] = "create" /\ pc'[c] = "created"
        /\ NewRow(c).owner = args[c].owner
        /\ NewRow(c).slot = args[c].slot
        /\ NewRow(c).scope = args[c].scope
    BY <1>1, <1>5 DEF Create, NewRow, TypeOK
  <2>2. CASE found[c] = 0
    <3>1. NewRow(c).id = c /\ \A i \in 1 .. Len(rows) : rows[i].id # c
      BY <2>1, <2>2 DEF NewRow, IdsAreDrawn
    <3>2. IdsAreDrawn'
      BY <1>2, <1>3, <1>5, <2>1, <3>1 DEF IdsAreDrawn, Same
    <3>3. FirstsAreDrawn'
      BY <1>1, <1>3, <1>5, <2>1, <3>1 DEF FirstsAreDrawn, First, Same
    <3>4. LinesAreUniform'
      BY <1>3, <1>5, <2>1, <3>1 DEF LinesAreUniform, Same
    <3>. QED
      BY <3>2, <3>3, <3>4
  <2>3. CASE found[c] # 0
    <3>1. found[c] \in 1 .. Len(rows)
      BY <1>1, <2>3 DEF TypeOK
    <3>2. /\ NewRow(c).id = rows[found[c]].id
          /\ NewRow(c).version = rows[found[c]].version + 1
          /\ NewRow(c).version # 1
      BY <1>2, <2>3, <3>1 DEF NewRow
    <3>3. rows[found[c]].owner = args[c].owner /\ rows[found[c]].slot = args[c].slot
      BY <2>3 DEF FoundIsOfLine
    <3>4. IdsAreDrawn'
      BY <1>2, <1>3, <1>5, <2>1, <3>1, <3>2 DEF IdsAreDrawn, Same
    <3>5. FirstsAreDrawn'
      BY <1>1, <1>3, <1>5, <2>1, <3>2 DEF FirstsAreDrawn, First, Same
    <3>6. LinesAreUniform'
      BY <1>3, <1>5, <2>1, <3>1, <3>2, <3>3 DEF LinesAreUniform, Same
    <3>. QED
      BY <3>4, <3>5, <3>6
  <2>. QED
    BY <2>2, <2>3
<1>. QED
  BY <1>4, <1>5, RowsStep
-----------------------------------------------------------------------------
(* The inductive invariant without the quota *)

IInv ==
    /\ TypeOK
    /\ VersionsFollowEdits
    /\ FoundIsOfLine
    /\ NothingSeen
    /\ LatestSeen
    /\ IdsAreDrawn
    /\ FirstsAreDrawn
    /\ LinesAreUniform
    /\ ForksAreExplained
    /\ ConflictIsExplained

\* A second template for an event and channel comes with a race or another scope.
LEMMA ForksStep ==
    ASSUME IInv, [Next]_vars
    PROVE  ForksAreExplained'
<1>. USE DEF IInv
<1>1. /\ Len(rows) \in Nat
      /\ \A i \in 1 .. Len(rows) : rows[i] \in Row
      /\ args' = args
  BY DEF TypeOK, Next, vars, Deactivate, Reactivate, SetActive,
         FindLatest, CheckQuota, Create, Conflict, Abort
<1>2. \A i \in 1 .. Len(rows) :
         rows[i].id \in Calls /\ pc[rows[i].id] = "created" /\ rows[i].version \in Nat \ {0}
  BY <1>1 DEF IdsAreDrawn, Row
<1>3. \A i \in 1 .. Len(rows) :
         Same(rows'[i], rows[i]) /\ seen'[rows[i].id] = seen[rows[i].id]
  BY <1>2, RowsStep, CallStep DEF FindLatest
<1>4. \A i, j \in 1 .. Len(rows) :
         /\ i < j /\ First(i)' /\ First(j)'
         /\ rows'[i].owner = rows'[j].owner /\ rows'[i].slot = rows'[j].slot
         => \/ seen'[rows'[j].id] < i
            \/ args'[rows'[j].id].via = "admin" /\ rows'[i].scope # rows'[j].scope
  BY <1>1, <1>3 DEF ForksAreExplained, Same, First
<1>5. CASE Len(rows') = Len(rows)
  BY <1>4, <1>5 DEF ForksAreExplained
<1>6. ASSUME NEW c \in Calls, Create(c), Len(rows') = Len(rows) + 1,
             rows'[Len(rows) + 1] = NewRow(c)
      PROVE  ForksAreExplained'
  <2>0. PICK n \in Nat : n = Len(rows) + 1
    BY <1>1
  <2>1. /\ \A i \in 1 .. n : i \in 1 .. Len(rows) \/ i = n
        /\ \A i \in 1 .. n : ~(n < i)
        /\ rows'[n] = NewRow(c)
        /\ pc[c] = "create" /\ seen' = seen
        /\ NewRow(c).owner = args[c].owner
        /\ NewRow(c).slot = args[c].slot
        /\ NewRow(c).scope = args[c].scope
    BY <1>1, <1>6, <2>0 DEF Create, NewRow
  <2>2. ASSUME NEW i \in 1 .. Len(rows), First(n)',
               rows'[i].owner = rows'[n].owner, rows'[i].slot = rows'[n].slot
        PROVE  \/ seen'[rows'[n].id] < i
               \/ args'[rows'[n].id].via = "admin" /\ rows'[i].scope # rows'[n].scope
    <3>1. found[c] = 0
      <4>1. SUFFICES ASSUME found[c] # 0 PROVE FALSE
        OBVIOUS
      <4>2. found[c] \in 1 .. Len(rows)
        BY <1>1, <4>1 DEF TypeOK
      <4>3. NewRow(c).version = rows[found[c]].version + 1 /\ rows[found[c]].version \in Nat \ {0}
        BY <1>2, <4>1, <4>2 DEF NewRow
      <4>. QED
        BY <2>1, <2>2, <4>3 DEF First
    <3>2. rows'[n].id = c
      BY <2>1, <3>1 DEF NewRow
    <3>3. seen[c] < i \/ i \notin Line(args[c])
      BY <1>1, <2>1, <3>1 DEF NothingSeen, TypeOK
    <3>4. rows[i].owner = args[c].owner /\ rows[i].slot = args[c].slot
      BY <1>3, <2>1, <2>2 DEF Same
    <3>5. i \notin Line(args[c]) => args[c].via = "admin" /\ rows[i].scope # args[c].scope
      BY <3>4 DEF Line
    <3>. QED
      BY <1>1, <1>3, <2>1, <3>2, <3>3, <3>5 DEF Same
  <2>. QED
    BY <1>4, <1>6, <2>0, <2>1, <2>2 DEF ForksAreExplained
<1>. QED
  BY <1>5, <1>6, RowsStep

\* So does a refused version number.
LEMMA ConflictStep ==
    ASSUME IInv, [Next]_vars
    PROVE  ConflictIsExplained'
<1>. USE DEF IInv
<1>1. SUFFICES ASSUME NEW c \in Calls, pc'[c] = "conflict"
               PROVE  \E i \in 1 .. Len(rows') :
                         KeyOf(i, c)' /\ (seen'[c] < i \/ rows'[i].scope # args'[c].scope)
  BY DEF ConflictIsExplained
<1>2. /\ Len(rows) \in Nat /\ Len(rows') \in Nat /\ Len(rows') >= Len(rows)
      /\ \A i \in 1 .. Len(rows) : rows[i] \in Row /\ Same(rows'[i], rows[i])
      /\ found[c] \in 0 .. Len(rows) /\ seen[c] \in 0 .. Len(rows)
  BY RowsStep DEF TypeOK
<1>3. /\ ~FindLatest(c)
      /\ pc[c] = "conflict" \/ Conflict(c)
  BY <1>1, CallStep DEF FindLatest, CheckQuota, Create, Abort, TypeOK
<1>4. args' = args /\ found'[c] = found[c] /\ seen'[c] = seen[c]
  BY <1>3, CallStep
<1>5. NewRow(c)'.id = NewRow(c).id /\ NewRow(c)'.version = NewRow(c).version
  <2>1. found[c] # 0 => Same(rows'[found[c]], rows[found[c]])
    BY <1>2
  <2>. QED
    BY <1>4, <2>1 DEF NewRow, Same
<1>6. \E i \in 1 .. Len(rows) :
         KeyOf(i, c) /\ (seen[c] < i \/ rows[i].scope # args[c].scope)
  <2>1. CASE pc[c] = "conflict"
    BY <2>1 DEF ConflictIsExplained
  <2>2. CASE Conflict(c)
    <3>1. PICK i \in 1 .. Len(rows) :
             rows[i].id = NewRow(c).id /\ rows[i].version = NewRow(c).version
      BY <2>2 DEF Conflict, Taken
    <3>2. SUFFICES ASSUME i \in 1 .. seen[c]
                   PROVE  rows[i].scope # args[c].scope
      BY <1>2, <3>1 DEF KeyOf
    <3>3. found[c] # 0
      BY <2>2, <3>1 DEF Conflict, IdsAreDrawn, NewRow
    <3>4. found[c] \in 1 .. Len(rows)
      BY <1>2, <3>3
    <3>5. rows[i].id = rows[found[c]].id /\ rows[i].version = rows[found[c]].version + 1
      BY <3>1, <3>3 DEF NewRow
    <3>6. rows[i].owner = args[c].owner /\ rows[i].slot = args[c].slot
      BY <3>3, <3>4, <3>5 DEF FoundIsOfLine, LinesAreUniform
    <3>7. rows[found[c]].version \in Nat
      BY <1>2, <3>4 DEF Row
    <3>8. i \notin Line(args[c])
      BY <3>2, <3>3, <3>5, <3>7 DEF LatestSeen
    <3>. QED
      BY <3>6, <3>8 DEF Line
  <2>. QED
    BY <1>3, <2>1, <2>2
<1>7. PICK i \in 1 .. Len(rows) :
         KeyOf(i, c) /\ (seen[c] < i \/ rows[i].scope # args[c].scope)
  BY <1>6
<1>8. i \in 1 .. Len(rows') /\ Same(rows'[i], rows[i])
  BY <1>2
<1>. QED
  BY <1>4, <1>5, <1>7, <1>8 DEF KeyOf, Same

\* The catalog starts empty.
LEMMA IInvInit == Init => IInv
BY DEF Init, IInv, TypeOK, VersionsFollowEdits, FoundIsOfLine, NothingSeen, LatestSeen,
       IdsAreDrawn, FirstsAreDrawn, LinesAreUniform, ForksAreExplained, ConflictIsExplained

\* Every step keeps the inductive invariant.
LEMMA IInvStep == IInv /\ [Next]_vars => IInv'
<1>. SUFFICES ASSUME IInv, [Next]_vars PROVE IInv'
  OBVIOUS
<1>1. TypeOK' /\ VersionsFollowEdits'
  BY TypeStep, VersionsStep DEF IInv
<1>2. FoundIsOfLine' /\ NothingSeen' /\ LatestSeen'
  BY KnowledgeStep DEF IInv
<1>3. IdsAreDrawn' /\ FirstsAreDrawn' /\ LinesAreUniform'
  BY IdsStep DEF IInv
<1>. QED
  BY <1>1, <1>2, <1>3, ForksStep, ConflictStep DEF IInv

\* However creations overlap, the versions of a template are numbered in the order in
\* which they became visible, without a gap (admin/templates.controller.ts:85).
THEOREM VersionsAreDense == Spec => []VersionsFollowEdits
<1>1. IInv => VersionsFollowEdits
  BY DEF IInv
<1>. QED
  BY IInvInit, IInvStep, <1>1, PTL DEF Spec

\* The router never serves an edit while a newer one of the same template is active
\* (notification.controller.ts:65-90).
THEOREM NewestIsServed == Spec => []ServedIsNewest
<1>1. IInv => ServedIsNewest
  <2>1. SUFFICES ASSUME IInv,
                        NEW t \in Tenants, NEW s \in Slots, NEW i \in Served(t, s),
                        NEW j \in i + 1 .. Len(rows),
                        rows[j].id = rows[i].id, rows[j].is_active
                 PROVE  FALSE
    BY DEF ServedIsNewest
  <2>2. /\ i \in 1 .. Len(rows) /\ Len(rows) \in Nat
        /\ rows[i].owner = t /\ rows[i].slot = s
    BY <2>1 DEF Served, Latest, IInv, TypeOK
  <2>3. /\ j \in 1 .. Len(rows)
        /\ i \in 1 .. j - 1
    BY <2>2
  <2>4. rows[j].owner = t /\ rows[j].slot = s
    BY <2>1, <2>2, <2>3 DEF IInv, LinesAreUniform
  <2>5. rows[j].version <= rows[i].version
    BY <2>1, <2>3, <2>4 DEF Served, Latest
  <2>6. rows[i].version < rows[j].version
    BY <2>1, <2>3 DEF IInv, VersionsFollowEdits
  <2>7. rows[i].version \in Nat /\ rows[j].version \in Nat
    <3>1. rows[i] \in Row /\ rows[j] \in Row
      BY <2>1, <2>2, <2>3 DEF IInv, TypeOK
    <3>. QED
      BY <3>1 DEF Row
  <2>. QED
    BY <2>5, <2>6, <2>7
<1>. QED
  BY IInvInit, IInvStep, <1>1, PTL DEF Spec

\* Two templates for one event and channel come from creations that overlapped or
\* from an operator's choice of another scope, never from a lookup that missed a row
\* (admin/templates.controller.ts:52-60, tenant/templates.controller.ts:41-48).
THEOREM ForksHaveCauses == Spec => []ForksAreExplained
<1>1. IInv => ForksAreExplained
  BY DEF IInv
<1>. QED
  BY IInvInit, IInvStep, <1>1, PTL DEF Spec

\* A version number is refused only to a creation that was overtaken, or that looked
\* at one scope of a template that has two (admin/templates.controller.ts:85-101).
THEOREM ConflictsHaveCauses == Spec => []ConflictIsExplained
<1>1. IInv => ConflictIsExplained
  BY DEF IInv
<1>. QED
  BY IInvInit, IInvStep, <1>1, PTL DEF Spec
-----------------------------------------------------------------------------
(* The quota *)

CountedIds(c) ==
    {rows[i].id : i \in {i \in 1 .. counted[c] : rows[i].owner = args[c].owner}}

\* An operator's first creation goes on only with a count below the quota.
CountsAreBelow ==
    \A c \in Calls :
        /\ pc[c] = "create" /\ found[c] = 0
        /\ args[c].via = "admin" /\ args[c].owner \in Tenants
        => Cardinality(CountedIds(c)) < Quota[args[c].owner]

QInv == IInv /\ CountsAreBelow /\ QuotaIsExplained

\* A call counts its tenant's templates before it goes on.
LEMMA CountsStep ==
    ASSUME IInv, CountsAreBelow, [Next]_vars
    PROVE  CountsAreBelow'
<1>. USE DEF IInv
<1>1. SUFFICES ASSUME NEW c \in Calls, pc'[c] = "create", found'[c] = 0,
                      args'[c].via = "admin", args'[c].owner \in Tenants
               PROVE  Cardinality(CountedIds(c)') < Quota[args'[c].owner]
  BY DEF CountsAreBelow
<1>2. args' = args
  BY CallStep
<1>3. Len(rows) \in Nat /\ counted[c] \in 0 .. Len(rows) /\ found[c] \in 0 .. Len(rows)
  BY DEF TypeOK
<1>4. CASE FindLatest(c)
  <2>1. Line(args[c]) # {}
    BY <1>1, <1>2, <1>4 DEF FindLatest, TypeOK
  <2>2. \E i \in Latest(Line(args[c])) : found' = [found EXCEPT ![c] = i]
    BY <1>4, <2>1 DEF FindLatest
  <2>3. \A i \in Latest(Line(args[c])) : i # 0
    BY DEF Latest, Line
  <2>. QED
    BY <1>1, <2>2, <2>3 DEF TypeOK
<1>5. CASE CheckQuota(c)
  <2>1. /\ counted'[c] = Len(rows) /\ rows' = rows
        /\ ~(Cardinality(Ids(args[c].owner)) >= Quota[args[c].owner])
    BY <1>1, <1>5 DEF CheckQuota, TypeOK
  <2>2. CountedIds(c)' = Ids(args[c].owner)
    BY <1>2, <2>1 DEF CountedIds, Ids
  <2>3. Cardinality(Ids(args[c].owner)) \in Nat /\ Quota[args[c].owner] \in Nat
    <3>1. \A i \in 1 .. Len(rows) : rows[i].id \in Calls
      <4>1. \A i \in 1 .. Len(rows) : rows[i] \in Row
        BY DEF TypeOK
      <4>. QED
        BY <4>1 DEF Row
    <3>2. Ids(args[c].owner) \subseteq Calls
      BY <3>1 DEF Ids
    <3>. QED
      BY <1>1, <1>2, <3>2, FS_Subset, FS_CardinalityType, CallsAssumption, QuotaAssumption
  <2>. QED
    BY <1>2, <2>1, <2>2, <2>3
<1>6. CASE ~FindLatest(c) /\ ~CheckQuota(c)
  <2>1. found'[c] = found[c] /\ counted'[c] = counted[c] /\ pc[c] = "create"
    BY <1>1, <1>6, CallStep DEF Create, Conflict, Abort, TypeOK
  <2>2. \A i \in 1 .. counted[c] : i \in 1 .. Len(rows) /\ Same(rows'[i], rows[i])
    BY <1>3, RowsStep
  <2>3. CountedIds(c)' = CountedIds(c)
    BY <1>2, <2>1, <2>2 DEF CountedIds, Same
  <2>. QED
    BY <1>1, <1>2, <2>1, <2>3 DEF CountsAreBelow
<1>. QED
  BY <1>4, <1>5, <1>6

\* What overtook a creation stays where it is.
LEMMA OvertakenStays ==
    ASSUME IInv, [Next]_vars, NEW t \in Tenants
    PROVE  /\ Ids(t) \subseteq Ids(t)' /\ Ids(t)' \subseteq Calls
           /\ MadeByTenant(t) \subseteq MadeByTenant(t)'
           /\ Overtaken(t) \subseteq Overtaken(t)'
           /\ MadeByTenant(t)' \subseteq Ids(t)' /\ Overtaken(t)' \subseteq Ids(t)'
<1>. USE DEF IInv
<1>1. /\ Len(rows) \in Nat /\ Len(rows') \in Nat /\ Len(rows') >= Len(rows)
      /\ \A i \in 1 .. Len(rows) : i \in 1 .. Len(rows')
      /\ \A i \in 1 .. Len(rows) : rows[i] \in Row
      /\ \A i \in 1 .. Len(rows') : rows'[i] \in Row
      /\ args' = args
  <2>1. /\ Len(rows) \in Nat /\ rows \in Seq(Row) /\ rows' \in Seq(Row)
        /\ Len(rows') = Len(rows) \/ Len(rows') = Len(rows) + 1
    BY RowsStep DEF TypeOK
  <2>2. args' = args
    BY DEF Next, vars, Deactivate, Reactivate, SetActive,
       FindLatest, CheckQuota, Create, Conflict, Abort
  <2>. QED
    BY <2>1, <2>2
<1>2. \A i \in 1 .. Len(rows) : rows[i].id \in Calls /\ pc[rows[i].id] = "created"
  BY <1>1 DEF IdsAreDrawn, Row
<1>3. \A i \in 1 .. Len(rows) :
         Same(rows'[i], rows[i]) /\ counted'[rows[i].id] = counted[rows[i].id]
  BY <1>2, RowsStep, CallStep DEF CheckQuota
<1>4. Ids(t) \subseteq Ids(t)' /\ Ids(t)' \subseteq Calls
  <2>1. \A i \in 1 .. Len(rows) : rows'[i].id = rows[i].id /\ rows'[i].owner = rows[i].owner
    BY <1>3 DEF Same
  <2>2. Ids(t) \subseteq Ids(t)'
    BY <1>1, <2>1 DEF Ids
  <2>3. \A i \in 1 .. Len(rows') : rows'[i].id \in Calls
    BY <1>1 DEF Row
  <2>. QED
    BY <2>2, <2>3 DEF Ids
<1>5. MadeByTenant(t) \subseteq MadeByTenant(t)'
  BY <1>1, <1>4 DEF MadeByTenant
<1>6. ASSUME NEW c \in Overtaken(t) PROVE c \in Overtaken(t)'
  <2>1. c \in Ids(t) /\ args[c].via = "admin"
    BY DEF Overtaken
  <2>2. PICK i \in 1 .. Len(rows), j \in 1 .. Len(rows) :
           /\ i < j /\ First(j) /\ rows[j].id = c
           /\ counted[c] < i
           /\ rows[i].owner = t /\ First(i) /\ args[rows[i].id].via = "admin"
    BY DEF Overtaken
  <2>3. /\ i \in 1 .. Len(rows') /\ j \in 1 .. Len(rows')
        /\ First(j)' /\ rows'[j].id = c /\ counted'[c] = counted[c]
        /\ rows'[i].owner = t /\ First(i)' /\ rows'[i].id = rows[i].id
    BY <1>1, <1>3, <2>2 DEF Same, First
  <2>. QED
    BY <1>1, <1>4, <2>1, <2>2, <2>3 DEF Overtaken
<1>7. MadeByTenant(t)' \subseteq Ids(t)' /\ Overtaken(t)' \subseteq Ids(t)'
  BY DEF MadeByTenant, Overtaken
<1>. QED
  BY <1>4, <1>5, <1>6, <1>7

\* An operator's creation that nobody overtook counted every template but the ones
\* the tenant made.
LEMMA NothingMissed ==
    ASSUME IInv, NEW t \in Tenants, NEW c \in Calls, args[c].owner = t,
           \A i \in 1 .. Len(rows) :
              counted[c] < i /\ rows[i].owner = t /\ First(i)
              => args[rows[i].id].via # "admin"
    PROVE  Ids(t) \subseteq CountedIds(c) \cup MadeByTenant(t)
<1>. USE DEF IInv
<1>1. /\ Len(rows) \in Nat /\ counted[c] \in 0 .. Len(rows)
      /\ \A i \in 1 .. Len(rows) : rows[i] \in Row
  BY DEF TypeOK
<1>2. SUFFICES ASSUME NEW i \in 1 .. Len(rows), rows[i].owner = t
               PROVE  rows[i].id \in CountedIds(c) \cup MadeByTenant(t)
  BY DEF Ids
<1>3. rows[i].version \in Nat \ {0} /\ rows[i].id \in Calls
  BY <1>1 DEF Row
<1>4. PICK j \in 1 .. i : rows[j].id = rows[i].id /\ rows[j].version = 1
  BY <1>3 DEF VersionsFollowEdits
<1>5. j \in 1 .. Len(rows) /\ rows[j].owner = t /\ First(j)
  BY <1>1, <1>2, <1>4 DEF LinesAreUniform, First
<1>6. CASE j \in 1 .. counted[c]
  BY <1>2, <1>4, <1>5, <1>6 DEF CountedIds
<1>7. CASE counted[c] < j
  <2>1. args[rows[i].id].via # "admin"
    BY <1>2, <1>4, <1>5, <1>7
  <2>2. args[rows[i].id] \in Args
    BY <1>3 DEF TypeOK
  <2>3. args[rows[i].id].via = "tenant"
    BY <2>1, <2>2 DEF Args, AdminArgs, TenantArgs
  <2>. QED
    BY <1>2, <2>3 DEF MadeByTenant, Ids
<1>. QED
  BY <1>1, <1>5, <1>6, <1>7

\* A new template is paid for by the count, by its tenant, or by who overtook it.
LEMMA QuotaStep ==
    ASSUME QInv, [Next]_vars
    PROVE  QuotaIsExplained'
<1>. USE DEF IInv, QInv
<1>. DEFINE Bound(t) ==
               Cardinality(Ids(t)) <=
                   Quota[t] + Cardinality(MadeByTenant(t)) + Cardinality(Overtaken(t))
<1>0. SUFFICES ASSUME NEW t \in Tenants PROVE Bound(t)'
  BY DEF QuotaIsExplained
<1>1. /\ Len(rows) \in Nat /\ Len(rows') \in Nat /\ Len(rows') >= Len(rows)
      /\ args' = args
  BY RowsStep DEF TypeOK, Next, vars, Deactivate, Reactivate, SetActive,
     FindLatest, CheckQuota, Create, Conflict, Abort
<1>2. \A i \in 1 .. Len(rows) : Same(rows'[i], rows[i])
  BY RowsStep
<1>3. /\ IsFiniteSet(Ids(t)) /\ Cardinality(Ids(t)) \in Nat
      /\ IsFiniteSet(MadeByTenant(t)) /\ Cardinality(MadeByTenant(t)) \in Nat
      /\ IsFiniteSet(Overtaken(t)) /\ Cardinality(Overtaken(t)) \in Nat
      /\ IsFiniteSet(MadeByTenant(t)') /\ Cardinality(MadeByTenant(t)') \in Nat
      /\ IsFiniteSet(Overtaken(t)') /\ Cardinality(Overtaken(t)') \in Nat
      /\ Quota[t] \in Nat
  <2>1. /\ Ids(t) \subseteq Calls /\ MadeByTenant(t) \subseteq Calls
        /\ Overtaken(t) \subseteq Calls
        /\ MadeByTenant(t)' \subseteq Calls /\ Overtaken(t)' \subseteq Calls
    BY OvertakenStays DEF MadeByTenant, Overtaken
  <2>2. \A S \in SUBSET Calls : IsFiniteSet(S) /\ Cardinality(S) \in Nat
    BY FS_Subset, FS_CardinalityType, CallsAssumption
  <2>. QED
    BY <2>1, <2>2, QuotaAssumption
<1>4. /\ Cardinality(MadeByTenant(t)) <= Cardinality(MadeByTenant(t)')
      /\ Cardinality(Overtaken(t)) <= Cardinality(Overtaken(t)')
  <2>1. MadeByTenant(t) \subseteq MadeByTenant(t)' /\ Overtaken(t) \subseteq Overtaken(t)'
    BY OvertakenStays
  <2>. QED
    BY <1>3, <2>1, FS_Subset
<1>5. Bound(t)
  BY DEF QuotaIsExplained
<1>6. CASE Ids(t)' = Ids(t)
  <2>1. Cardinality(Ids(t)') = Cardinality(Ids(t))
    BY <1>6
  <2>. QED
    BY <1>3, <1>4, <1>5, <2>1
<1>7. CASE Len(rows') = Len(rows)
  <2>1. Ids(t)' = Ids(t)
    BY <1>2, <1>7 DEF Ids, Same
  <2>. QED
    BY <1>6, <2>1
<1>8. ASSUME NEW c \in Calls, Create(c), Len(rows') = Len(rows) + 1,
             rows'[Len(rows) + 1] = NewRow(c), Ids(t)' # Ids(t)
      PROVE  Bound(t)'
  <2>0. PICK n \in Nat : n = Len(rows) + 1
    BY <1>1
  <2>1. /\ 1 .. Len(rows') = 1 .. Len(rows) \cup {n}
        /\ n \in 1 .. Len(rows')
        /\ rows'[n] = NewRow(c)
        /\ pc[c] = "create" /\ counted' = counted
        /\ NewRow(c).owner = args[c].owner
    BY <1>1, <1>8, <2>0 DEF Create, NewRow
  <2>2. \A i \in 1 .. Len(rows) :
           /\ rows'[i].id = rows[i].id /\ rows'[i].owner = rows[i].owner
           /\ rows'[i].version = rows[i].version
    BY <1>2 DEF Same
  <2>3. args[c].owner = t
    BY <1>8, <2>1, <2>2 DEF Ids
  <2>4. Ids(t)' = Ids(t) \cup {NewRow(c).id}
    BY <2>1, <2>2, <2>3 DEF Ids
  <2>5. found[c] = 0
    <3>1. SUFFICES ASSUME found[c] # 0 PROVE NewRow(c).id \in Ids(t)
      BY <1>8, <2>4
    <3>2. found[c] \in 1 .. Len(rows) /\ rows[found[c]].owner = t
      BY <1>1, <2>3, <3>1 DEF TypeOK, FoundIsOfLine
    <3>. QED
      BY <3>1, <3>2 DEF NewRow, Ids
  <2>6. NewRow(c).id = c /\ NewRow(c).version = 1
    BY <2>5 DEF NewRow
  <2>7. c \notin Ids(t) /\ c \in Ids(t)'
    BY <2>1, <2>4, <2>6 DEF IdsAreDrawn, Ids
  <2>8. Cardinality(Ids(t)') = Cardinality(Ids(t)) + 1
    <3>1. Ids(t)' = Ids(t) \cup {c}
      BY <2>4, <2>6
    <3>2. Cardinality(Ids(t) \cup {c}) = Cardinality(Ids(t)) + 1
      BY <1>3, <2>7, FS_AddElement
    <3>. QED
      BY <3>1, <3>2, Zenon
  <2>9. \A S, T : /\ IsFiniteSet(S) /\ IsFiniteSet(T) /\ S \subseteq T
                 /\ c \in T /\ c \notin S
                 => Cardinality(S) + 1 <= Cardinality(T)
    <3>1. SUFFICES ASSUME NEW S, NEW T, IsFiniteSet(S), IsFiniteSet(T), S \subseteq T,
                          c \in T, c \notin S
                   PROVE  Cardinality(S) + 1 <= Cardinality(T)
      OBVIOUS
    <3>2. Cardinality(S \cup {c}) = Cardinality(S) + 1 /\ S \cup {c} \subseteq T
      BY <3>1, FS_AddElement
    <3>3. Cardinality(S \cup {c}) <= Cardinality(T)
      BY <3>1, <3>2, FS_Subset
    <3>. QED
      BY <3>2, <3>3
  <2>10. MadeByTenant(t) \subseteq Ids(t) /\ Overtaken(t) \subseteq Ids(t)
    BY DEF MadeByTenant, Overtaken
  <2>11. CASE args[c].via = "tenant"
    <3>1. c \in MadeByTenant(t)' /\ MadeByTenant(t) \subseteq MadeByTenant(t)'
      BY <1>1, <2>7, <2>11, OvertakenStays DEF MadeByTenant
    <3>2. Cardinality(MadeByTenant(t)) + 1 <= Cardinality(MadeByTenant(t)')
      BY <1>3, <2>7, <2>9, <2>10, <3>1
    <3>. QED
      BY <1>3, <1>4, <1>5, <2>8, <3>2
  <2>12. CASE c \in Overtaken(t)'
    <3>1. Cardinality(Overtaken(t)) + 1 <= Cardinality(Overtaken(t)')
      BY <1>3, <2>7, <2>9, <2>10, <2>12, OvertakenStays
    <3>. QED
      BY <1>3, <1>4, <1>5, <2>8, <3>1
  <2>13. CASE args[c].via = "admin" /\ c \notin Overtaken(t)'
    <3>1. /\ Cardinality(CountedIds(c)) < Quota[t]
          /\ counted[c] \in 0 .. Len(rows)
      BY <2>1, <2>3, <2>5, <2>13 DEF CountsAreBelow, TypeOK
    <3>2. ASSUME NEW i \in 1 .. Len(rows), counted[c] < i, rows[i].owner = t, First(i)
          PROVE  args[rows[i].id].via # "admin"
      <4>1. /\ i \in 1 .. Len(rows') /\ i < n
            /\ rows'[i].owner = t /\ First(i)' /\ rows'[i].id = rows[i].id
        BY <1>1, <2>0, <2>1, <2>2, <3>2 DEF First
      <4>2. First(n)' /\ rows'[n].id = c
        BY <2>1, <2>6 DEF First
      <4>. QED
        BY <1>1, <2>1, <2>7, <2>13, <3>2, <4>1, <4>2 DEF Overtaken
    <3>3. Ids(t) \subseteq CountedIds(c) \cup MadeByTenant(t)
      BY <2>3, <3>2, NothingMissed
    <3>4. CountedIds(c) \subseteq Calls
      <4>1. \A i \in 1 .. counted[c] : i \in 1 .. Len(rows)
        BY <1>1, <3>1
      <4>2. \A i \in 1 .. Len(rows) : rows[i].id \in Calls
        <5>1. rows \in Seq(Row)
          BY DEF TypeOK
        <5>2. \A i \in 1 .. Len(rows) : rows[i] \in Row
          BY <5>1
        <5>. QED
          BY <5>2 DEF Row
      <4>. QED
        BY <4>1, <4>2 DEF CountedIds
    <3>5. IsFiniteSet(CountedIds(c)) /\ Cardinality(CountedIds(c)) \in Nat
      BY <3>4, FS_Subset, FS_CardinalityType, CallsAssumption
    <3>6. /\ IsFiniteSet(CountedIds(c) \cup MadeByTenant(t))
          /\ Cardinality(CountedIds(c) \cup MadeByTenant(t))
               <= Cardinality(CountedIds(c)) + Cardinality(MadeByTenant(t))
      <4>1. CountedIds(c) \cap MadeByTenant(t) \subseteq Calls
        BY <3>4
      <4>2. Cardinality(CountedIds(c) \cap MadeByTenant(t)) \in Nat
        BY <4>1, FS_Subset, FS_CardinalityType, CallsAssumption
      <4>3. /\ IsFiniteSet(CountedIds(c) \cup MadeByTenant(t))
            /\ Cardinality(CountedIds(c) \cup MadeByTenant(t))
                 = Cardinality(CountedIds(c)) + Cardinality(MadeByTenant(t))
                   - Cardinality(CountedIds(c) \cap MadeByTenant(t))
        BY <1>3, <3>5, FS_Union
      <4>. QED
        BY <1>3, <3>5, <4>2, <4>3
    <3>7. /\ Cardinality(CountedIds(c) \cup MadeByTenant(t)) \in Nat
          /\ Cardinality(Ids(t)) <= Cardinality(CountedIds(c) \cup MadeByTenant(t))
      BY <3>3, <3>6, FS_Subset, FS_CardinalityType
    <3>. QED
      BY <1>3, <1>4, <2>8, <3>1, <3>5, <3>6, <3>7
  <2>14. args[c] \in Args
    BY DEF TypeOK
  <2>. QED
    BY <2>11, <2>12, <2>13, <2>14 DEF Args, AdminArgs, TenantArgs
<1>. QED
  BY <1>6, <1>7, <1>8, RowsStep

\* A tenant has at most max_template_count templates, the ones its own admins made, and
\* one for each operator's creation that another's overtook between its count and its
\* INSERT (admin/templates.controller.ts:72-101).
THEOREM QuotaExcessHasCauses == Spec => []QuotaIsExplained
<1>1. Init => QInv
  <2>1. ASSUME Init PROVE CountsAreBelow /\ QuotaIsExplained
    <3>1. \A t \in Tenants : Ids(t) = {} /\ MadeByTenant(t) = {} /\ Overtaken(t) = {}
      BY <2>1 DEF Init, Ids, MadeByTenant, Overtaken
    <3>2. \A t \in Tenants : Quota[t] \in Nat
      BY QuotaAssumption
    <3>3. CountsAreBelow
      BY <2>1 DEF Init, CountsAreBelow
    <3>4. Cardinality({}) = 0
      BY FS_EmptySet
    <3>5. \A t \in Tenants : /\ Cardinality(Ids(t)) = 0
                            /\ Cardinality(MadeByTenant(t)) = 0
                            /\ Cardinality(Overtaken(t)) = 0
      BY <3>1, <3>4, Zenon
    <3>. QED
      BY <3>2, <3>3, <3>5 DEF QuotaIsExplained
  <2>. QED
    BY <2>1, IInvInit DEF QInv
<1>2. QInv /\ [Next]_vars => QInv'
  BY IInvStep, CountsStep, QuotaStep DEF QInv
<1>3. QInv => QuotaIsExplained
  BY DEF QInv
<1>. QED
  BY <1>1, <1>2, <1>3, PTL DEF Spec
===============================================================================
