----------------------------- MODULE RulesProofs -----------------------------
(*****************************************************************************)
(* Proofs about how a rule set is made and kept: its publication by the      *)
(* server (RulesPublish) and the cache of the agent (RulesCache), for any    *)
(* number of requests, items, versions, failing calls and stops.             *)
(*****************************************************************************)
EXTENDS RulesPublish, RulesCache, WellFoundedInduction, TLAPS

-----------------------------------------------------------------------------
(*****************************************************************************)
(* The publication.  A request that overlaps no other one finds the tables   *)
(* as it read them (AloneReads) and a number no row has; the newest row of   *)
(* a table is then its own.  All rows agree in the part no table manages,    *)
(* because a rebuild takes it from the newest row (OneBase).                 *)
(*****************************************************************************)

\* Every set of numbers that is not empty has a least one: the form in which
\* induction is used below.
LEMMA Least == ASSUME NEW T, T \subseteq Nat, T # {} PROVE \E x \in T : \A y \in T : x <= y
<1> DEFINE R == OpToRel(<, Nat)
<1>1. PICK x \in T : \A y \in T : ~(<<y, x>> \in R)
  BY NatLessThanWellFounded, WFMin, Zenon
<1>2. R = {ss \in Nat \X Nat : ss[1] < ss[2]}
  BY Zenon DEF OpToRel
<1> HIDE DEF R
<1>3. ASSUME NEW y \in T PROVE x <= y
  <2>1. x \in Nat /\ y \in Nat
    OBVIOUS
  <2>2. y < x => <<y, x>> \in R
    BY <2>1, <1>2
  <2> QED BY <1>1, <2>1, <2>2
<1> QED BY <1>3

Request == [pc : {"idle", "replace", "comms", "ips", "base", "version", "insert"},
            seen : Tables, body : Tables, comms : SUBSET Items, ips : SUBSET Items,
            short : SUBSET Rebuilt, base : Bases, version : Nat, alone : BOOLEAN]

\* Versions count from 1.
Numbered ==
  /\ \A i \in DOMAIN rows : rows[i].version > 0
  /\ \A r \in Requests : req[r].pc = "insert" => req[r].version > 0

\* All rows have what the first one has in the parts no table manages.
OneBase ==
  /\ \A i \in DOMAIN rows : rows[i].base = rows[1].base
  /\ \A r \in Requests : req[r].pc \in {"version", "insert"} =>
       req[r].base = IF rows = <<>> THEN "default" ELSE rows[1].base

\* Who is alone is; without a server nobody is served.
AloneIs ==
  /\ \A r, q \in Requests :
       req[r].alone /\ req[r].pc # "idle" /\ q # r => req[q].pc = "idle"
  /\ ~up => \A r \in Requests : req[r].pc = "idle"

\* A list holds the table, or part of it when it broke off.
ListOf(t, got, short) ==
  /\ got \subseteq tables[t]
  /\ t \notin short => got = tables[t]

\* What a request that is alone has read is still so.
AloneReads ==
  \A r \in Requests : req[r].alone =>
    /\ req[r].pc \in {"ips", "base", "version", "insert"} =>
         ListOf("comms", req[r].comms, req[r].short)
    /\ req[r].pc \in {"base", "version", "insert"} =>
         ListOf("ips", req[r].ips, req[r].short)
    /\ req[r].pc = "insert" => \A i \in DOMAIN rows : rows[i].version < req[r].version

PubInv == TypeOK /\ Numbered /\ OneBase /\ AloneIs /\ AloneReads

-----------------------------------------------------------------------------
(* The newest row. *)

\* What the rows of the table are.
LEMMA RowTyped ==
  ASSUME TypeOK
  PROVE  /\ Len(rows) \in Nat /\ DOMAIN rows = 1 .. Len(rows)
         /\ \A i \in DOMAIN rows : rows[i] \in Row /\ rows[i].version \in Nat
         /\ ToSet(rows) = {rows[i] : i \in DOMAIN rows}
         /\ rows # <<>> => 1 \in DOMAIN rows
<1>1. rows \in Seq(Row)
  BY DEF TypeOK
<1>2. Len(rows) \in Nat /\ DOMAIN rows = 1 .. Len(rows) /\ (rows # <<>> => Len(rows) > 0)
  BY <1>1
<1>3. \A i \in DOMAIN rows : rows[i] \in Row
  BY <1>1
<1>4. \A row \in Row : row.version \in Nat
  BY DEF Row
<1> QED BY <1>2, <1>3, <1>4 DEF ToSet

\* Of numbers in a sequence one is the largest.
LEMMA Largest ==
  ASSUME NEW N \in Nat, N > 0, NEW v \in [1 .. N -> Nat]
  PROVE  \E i \in 1 .. N : \A j \in 1 .. N : v[j] <= v[i]
<1> DEFINE Top(n) == \E i \in 1 .. n : \A j \in 1 .. n : v[j] <= v[i]
           T == {n \in 1 .. N : ~Top(n)}
<1>1. SUFFICES ASSUME T # {} PROVE FALSE
  <2>1. N \in 1 .. N
    OBVIOUS
  <2> QED BY <2>1
<1>2. PICK n \in T : \A m \in T : n <= m
  <2>1. T \subseteq Nat
    OBVIOUS
  <2> QED BY <1>1, <2>1, Least
<1>3. n \in 1 .. N /\ ~Top(n)
  OBVIOUS
<1>4. n # 1
  <2>1. Top(1)
    <3>1. 1 \in 1 .. 1 /\ \A j \in 1 .. 1 : v[j] <= v[1]
      OBVIOUS
    <3> QED BY <3>1
  <2> QED BY <1>3, <2>1
<1>5. n - 1 \in 1 .. N
  BY <1>3, <1>4
<1>6. Top(n - 1)
  <2>1. n \in Nat /\ \A m \in T : n <= m
    BY <1>2, <1>3
  <2> HIDE DEF T
  <2>2. n - 1 \notin T
    BY <2>1
  <2> QED BY <1>5, <2>2 DEF T
<1>7. PICK i \in 1 .. n - 1 : \A j \in 1 .. n - 1 : v[j] <= v[i]
  BY <1>6
<1>8. \A j \in 1 .. n : j \in 1 .. n - 1 \/ j = n
  BY <1>3
<1>9. \A j \in 1 .. n : v[j] \in Nat
  BY <1>3
<1>10. n \in 1 .. n /\ i \in 1 .. n
  BY <1>3, <1>7
<1> HIDE DEF T
<1>11. CASE v[n] <= v[i]
  <2>1. \A j \in 1 .. n : v[j] <= v[i]
    BY <1>7, <1>8, <1>11
  <2> QED BY <1>3, <1>10, <2>1
<1>12. CASE v[i] <= v[n]
  <2>1. \A j \in 1 .. n : v[j] <= v[n]
    BY <1>7, <1>8, <1>9, <1>10, <1>12
  <2> QED BY <1>3, <1>10, <2>1
<1> QED BY <1>9, <1>10, <1>11, <1>12

\* One of the rows is the newest.
LEMMA SomeNewest ==
  ASSUME TypeOK, rows # <<>>
  PROVE  \E i \in DOMAIN rows : \A j \in DOMAIN rows : rows[j].version <= rows[i].version
<1> DEFINE v == [i \in 1 .. Len(rows) |-> rows[i].version]
<1>1. Len(rows) \in Nat /\ Len(rows) > 0 /\ DOMAIN rows = 1 .. Len(rows)
  BY RowTyped
<1>2. v \in [1 .. Len(rows) -> Nat]
  BY <1>1, RowTyped
<1>3. \E i \in 1 .. Len(rows) : \A j \in 1 .. Len(rows) : v[j] <= v[i]
  BY <1>1, <1>2, Largest
<1> QED BY <1>1, <1>3

\* The current version is that of a row, and of none a newer one.
LEMMA NewestIs ==
  ASSUME TypeOK
  PROVE  /\ CurrentVersion \in Nat
         /\ rows # <<>> => \E i \in DOMAIN rows : rows[i].version = CurrentVersion
         /\ \A i \in DOMAIN rows : rows[i].version <= CurrentVersion
         /\ \A row \in Newest : \E i \in DOMAIN rows : row = rows[i]
<1>1. \A row \in Newest : \E i \in DOMAIN rows : row = rows[i]
  BY RowTyped DEF Newest
<1>2. CASE rows = <<>>
  BY <1>1, <1>2 DEF CurrentVersion
<1>3. CASE rows # <<>>
  <2>1. PICK i \in DOMAIN rows : \A j \in DOMAIN rows : rows[j].version <= rows[i].version
    BY <1>3, SomeNewest
  <2>2. rows[i] \in Newest
    BY <2>1, RowTyped DEF Newest
  <2> DEFINE top == CHOOSE row \in Newest : TRUE
  <2>3. top \in Newest /\ CurrentVersion = top.version
    BY <1>3, <2>2 DEF CurrentVersion
  <2> HIDE DEF top
  <2>4. PICK k \in DOMAIN rows : top = rows[k]
    BY <1>1, <2>3
  <2>5. \A j \in DOMAIN rows : rows[j].version <= top.version
    BY <2>3, RowTyped DEF Newest
  <2> QED BY <1>1, <2>3, <2>4, <2>5, RowTyped
<1> QED BY <1>2, <1>3

-----------------------------------------------------------------------------
(* The requests. *)

\* A request that rests.
LEMMA IdleTyped == Idle \in Request /\ Idle.pc = "idle" /\ Idle.alone = FALSE
BY DEF Idle, Request, Tables, NoTables, Bases

\* A rebuild that begins.
LEMMA RebuildingTyped ==
  /\ Rebuilding \in Request
  /\ Rebuilding.pc \in {"idle", "comms"}
<1>1. Idle \in Request /\ Idle.pc = "idle"
  BY IdleTyped
<1>2. [Idle EXCEPT !.pc = "comms"] \in Request /\ [Idle EXCEPT !.pc = "comms"].pc = "comms"
  BY <1>1 DEF Request
<1> QED BY <1>1, <1>2 DEF Rebuilding

\* A request begins: it is alone if nobody else is served, and nobody else is
\* alone any more.
LEMMA Entered ==
  ASSUME TypeOK, NEW r \in Requests, NEW fields \in Request, Enter(r, fields)
  PROVE  /\ req' \in [Requests -> Request]
         /\ req'[r].pc = fields.pc /\ req'[r].base = fields.base
         /\ req'[r].alone => \A q \in Requests : q # r => req[q].pc = "idle"
         /\ \A q \in Requests : q # r => req'[q].pc = req[q].pc /\ ~req'[q].alone
                                         /\ req'[q].base = req[q].base
                                         /\ req'[q].version = req[q].version
                                         /\ req'[q].comms = req[q].comms /\ req'[q].ips = req[q].ips
                                         /\ req'[q].short = req[q].short
<1> DEFINE b == Active \subseteq {r}
           next(q) == IF q = r THEN [fields EXCEPT !.alone = b] ELSE [req[q] EXCEPT !.alone = FALSE]
<1>1. b \in BOOLEAN /\ (b => \A q \in Requests : q # r => req[q].pc = "idle")
  BY Zenon DEF Active
<1>2. req' = [q \in Requests |-> next(q)]
  BY DEF Enter
<1>3. req \in [Requests -> Request]
  BY DEF TypeOK, Request
<1> HIDE DEF b
<1>4. ASSUME NEW q \in Requests PROVE next(q) \in Request
  BY <1>1, <1>3 DEF Request
<1>5. req' \in [Requests -> Request]
  BY <1>2, <1>4
<1>6. /\ req'[r].pc = fields.pc /\ req'[r].base = fields.base /\ (req'[r].alone <=> b)
  <2>1. req'[r] = [fields EXCEPT !.alone = b]
    BY <1>2
  <2> QED BY <1>1, <2>1 DEF Request
<1>7. ASSUME NEW q \in Requests, q # r
      PROVE  /\ req'[q].pc = req[q].pc /\ ~req'[q].alone
             /\ req'[q].base = req[q].base /\ req'[q].version = req[q].version
             /\ req'[q].comms = req[q].comms /\ req'[q].ips = req[q].ips
             /\ req'[q].short = req[q].short
  <2>1. req'[q] = [req[q] EXCEPT !.alone = FALSE]
    BY <1>2, <1>7
  <2> QED BY <1>3, <2>1 DEF Request
<1> QED BY <1>1, <1>5, <1>6, <1>7

\* Every action keeps the types.
LEMMA PublishTypeStep == TypeOK /\ [Next]_vars => TypeOK'
<1> SUFFICES ASSUME TypeOK, [Next]_vars PROVE TypeOK'
  OBVIOUS
<1>0. /\ tables \in Tables /\ rows \in Seq(Row) /\ up \in BOOLEAN /\ svc \in BOOLEAN
      /\ req \in [Requests -> Request] /\ faults \in 0 .. MaxFaults /\ MaxFaults \in Nat
  BY BoundsAssumption DEF TypeOK, Request
<1>a. Idle \in Request /\ Rebuilding \in Request
  BY IdleTyped, RebuildingTyped
<1>b. ASSUME UNCHANGED <<tables, rows, up, svc>>, req' \in [Requests -> Request],
             faults' = faults \/ Fault
      PROVE  TypeOK'
  <2>1. faults' \in 0 .. MaxFaults
    BY <1>0, <1>b DEF Fault
  <2> QED BY <1>0, <1>b, <2>1 DEF TypeOK, Request
<1>1. CASE Boot
  <2>1. rows' \in Seq(Row)
    <3>1. DefaultRow \in Row
      BY DEF DefaultRow, Row, Bases
    <3> QED BY <1>0, <1>1, <3>1 DEF Boot
  <2>2. svc' \in BOOLEAN /\ up' \in BOOLEAN
    BY <1>1, Zenon DEF Boot
  <2>3. faults' \in 0 .. MaxFaults
    BY <1>0, <1>1 DEF Boot, Fault
  <2>4. tables' = tables /\ req' = req
    BY <1>1 DEF Boot
  <2> QED BY <1>0, <2>1, <2>2, <2>3, <2>4 DEF TypeOK, Request
<1>2. CASE Crash
  <2>1. req' \in [Requests -> Request]
    BY <1>2, <1>a DEF Crash
  <2>2. faults' \in 0 .. MaxFaults
    BY <1>0, <1>2 DEF Crash, Fault
  <2>3. up' \in BOOLEAN /\ svc' \in BOOLEAN
    BY <1>2, Zenon DEF Crash
  <2> QED BY <1>0, <1>2, <2>1, <2>2, <2>3 DEF Crash, TypeOK, Request
<1>3. ASSUME NEW r \in Requests, NEW e \in Edits, AddExclude(r, e[1], e[2]) \/ RemoveExclude(r, e[1], e[2])
      PROVE  TypeOK'
  <2>1. e[1] \in TableNames /\ e[2] \in Items
    BY InputsAssumption
  <2>2. tables' \in Tables
    BY <1>0, <1>3, <2>1 DEF AddExclude, RemoveExclude, Tables
  <2>3. req' \in [Requests -> Request]
    BY <1>3, <1>a, Entered DEF AddExclude, RemoveExclude
  <2>4. UNCHANGED <<rows, up, svc, faults>>
    BY <1>3 DEF AddExclude, RemoveExclude
  <2> QED BY <1>0, <2>2, <2>3, <2>4 DEF TypeOK, Request
<1>4. ASSUME NEW r \in Requests, NEW body \in Bodies, BeginReplace(r, body) PROVE TypeOK'
  <2> DEFINE fields == [Idle EXCEPT !.pc = "replace", !.seen = tables, !.body = body]
  <2>1. fields \in Request
    BY <1>0, <1>a, InputsAssumption DEF Request
  <2> HIDE DEF fields
  <2>2. req' \in [Requests -> Request]
    BY <1>4, <2>1, Entered DEF BeginReplace, fields
  <2> QED BY <1>4, <2>2, <1>b DEF BeginReplace
<1>5. ASSUME NEW r \in Requests, CommitReplace(r) PROVE TypeOK'
  <2>1. tables' \in Tables
    BY <1>0, <1>5 DEF CommitReplace, Tables, Request
  <2>2. [Rebuilding EXCEPT !.alone = req[r].alone] \in Request
    BY <1>0, <1>a DEF Request
  <2>3. req' \in [Requests -> Request]
    BY <1>0, <1>5, <2>2 DEF CommitReplace
  <2> QED BY <1>0, <1>5, <2>1, <2>3 DEF CommitReplace, TypeOK, Request
<1>6. ASSUME NEW r \in Requests, RollbackReplace(r) \/ StatementFails(r) PROVE TypeOK'
  <2>1. req' = [req EXCEPT ![r] = Idle] /\ UNCHANGED <<tables, rows, up, svc>>
    BY <1>6 DEF RollbackReplace, StatementFails
  <2>2. req' \in [Requests -> Request]
    BY <1>0, <1>a, <2>1
  <2> QED BY <1>6, <2>1, <2>2, <1>b DEF RollbackReplace, StatementFails
<1>7. ASSUME NEW r \in Requests, ReadComms(r) \/ ReadIPs(r) \/ ReadBase(r) \/ ReadVersion(r) PROVE TypeOK'
  <2>2. req' \in [Requests -> Request]
    <3>1. CASE ReadComms(r)
      <4>1. PICK got \in SUBSET Items :
              req' = [req EXCEPT ![r].comms = got, ![r].pc = "ips",
                                ![r].short = Short("comms", got)]
        BY <3>1 DEF ReadComms
      <4> DEFINE short == Short("comms", got)
      <4>2. short \in SUBSET Rebuilt
        BY DEF Short, Rebuilt
      <4> HIDE DEF short
      <4>3. req' = [req EXCEPT ![r] = [req[r] EXCEPT !.comms = got, !.pc = "ips", !.short = short]]
        BY <4>1 DEF short
      <4>4. [req[r] EXCEPT !.comms = got, !.pc = "ips", !.short = short] \in Request
        BY <1>0, <4>2 DEF Request
      <4> QED BY <1>0, <4>3, <4>4
    <3>2. CASE ReadIPs(r)
      <4>1. PICK got \in SUBSET Items :
              req' = [req EXCEPT ![r].ips = got, ![r].pc = "base",
                                ![r].short = @ \cup Short("ips", got)]
        BY <3>2 DEF ReadIPs
      <4> DEFINE short == req[r].short \cup Short("ips", got)
      <4>2. short \in SUBSET Rebuilt
        <5>1. req[r].short \in SUBSET Rebuilt
          BY <1>0 DEF Request
        <5> QED BY <5>1 DEF Short, Rebuilt
      <4>3. req' = [req EXCEPT ![r] = [req[r] EXCEPT !.ips = got, !.pc = "base", !.short = short]]
        BY <4>1
      <4> HIDE DEF short
      <4>4. [req[r] EXCEPT !.ips = got, !.pc = "base", !.short = short] \in Request
        BY <1>0, <4>2 DEF Request
      <4> QED BY <1>0, <4>3, <4>4
    <3>3. CASE ReadBase(r)
      <4>1. PICK base \in IF rows = <<>> THEN {"default"} ELSE {row.base : row \in Newest} :
              req' = [req EXCEPT ![r].base = base, ![r].pc = "version"]
        BY <3>3 DEF ReadBase
      <4>2. \A row \in Newest : row.base \in Bases
        BY NewestIs, RowTyped DEF Row
      <4>3. base \in Bases
        BY <4>2 DEF Bases
      <4>4. [req[r] EXCEPT !.base = base, !.pc = "version"] \in Request
        BY <1>0, <4>3 DEF Request
      <4> QED BY <1>0, <4>1, <4>4
    <3>4. CASE ReadVersion(r)
      <4>1. CurrentVersion + 1 \in Nat
        BY NewestIs
      <4> QED BY <1>0, <1>a, <3>4, <4>1 DEF ReadVersion, Request
    <3> QED BY <1>7, <3>1, <3>2, <3>3, <3>4
  <2>3. UNCHANGED <<tables, rows, up, svc>> /\ (faults' = faults \/ Fault)
    BY <1>7 DEF ReadComms, ReadIPs, ReadBase, ReadVersion, List
  <2> QED BY <2>2, <2>3, <1>b
<1>8. ASSUME NEW r \in Requests, Insert(r) PROVE TypeOK'
  <2>1. [version |-> req[r].version, base |-> req[r].base, comms |-> req[r].comms,
         files |-> {}, ips |-> req[r].ips] \in Row
    BY <1>0 DEF Row, Request
  <2>2. rows' \in Seq(Row)
    BY <1>0, <1>8, <2>1 DEF Insert
  <2>3. req' \in [Requests -> Request]
    BY <1>0, <1>a, <1>8 DEF Insert
  <2> QED BY <1>0, <1>8, <2>2, <2>3 DEF Insert, TypeOK, Request
<1>9. CASE UNCHANGED vars
  BY <1>9 DEF vars, TypeOK
<1> QED
  BY <1>1, <1>2, <1>3, <1>4, <1>5, <1>6, <1>7, <1>8, <1>9 DEF Next, Write, Rebuild

-----------------------------------------------------------------------------
(* What the steps of a request do to it and to the others. *)

Same(q) ==
  /\ req'[q].pc = req[q].pc /\ req'[q].base = req[q].base /\ req'[q].version = req[q].version
  /\ req'[q].comms = req[q].comms /\ req'[q].ips = req[q].ips
  /\ req'[q].short = req[q].short

Early == {"idle", "comms", "replace"}

\* The write a request starts with.  Nobody else can be alone meanwhile.
LEMMA WriteStep ==
  ASSUME TypeOK, AloneIs, NEW r \in Requests, Write(r) \/ StatementFails(r)
  PROVE  /\ rows' = rows /\ up' = up
         /\ req'[r].pc \in Early
         /\ \A q \in Requests : q # r =>
              Same(q) /\ (req'[q].alone => req[q].alone /\ (req[q].pc = "idle" \/ tables' = tables))
         /\ req'[r].alone /\ req'[r].pc # "idle" => \A q \in Requests : q # r => req[q].pc = "idle"
         /\ req'[r].pc # "idle" => up
<1>0. req \in [Requests -> Request] /\ Idle \in Request /\ Rebuilding \in Request
  BY IdleTyped, RebuildingTyped DEF TypeOK, Request
<1>1. ASSUME NEW e \in Edits, AddExclude(r, e[1], e[2]) \/ RemoveExclude(r, e[1], e[2])
      PROVE  /\ Enter(r, Rebuilding) /\ Rebuilding.pc \in Early /\ rows' = rows /\ up' = up /\ up
  BY <1>1, RebuildingTyped DEF AddExclude, RemoveExclude, CanStart, Early
<1>2. ASSUME NEW body \in Bodies, BeginReplace(r, body)
      PROVE  \E fields \in Request :
               /\ Enter(r, fields) /\ fields.pc \in Early /\ rows' = rows /\ up' = up /\ up
  <2> DEFINE fields == [Idle EXCEPT !.pc = "replace", !.seen = tables, !.body = body]
  <2>1. fields \in Request /\ fields.pc \in Early
    BY <1>0, InputsAssumption DEF Request, TypeOK, Early
  <2> QED BY <1>2, <2>1 DEF BeginReplace, CanStart
<1>3. ASSUME NEW fields \in Request, Enter(r, fields), fields.pc \in Early, up
      PROVE  /\ req'[r].pc \in Early
             /\ \A q \in Requests : q # r =>
                  Same(q) /\ (req'[q].alone => req[q].alone /\ (req[q].pc = "idle" \/ tables' = tables))
             /\ req'[r].alone /\ req'[r].pc # "idle" => \A q \in Requests : q # r => req[q].pc = "idle"
             /\ req'[r].pc # "idle" => up
  BY <1>3, Entered DEF Same
<1>4. CASE CommitReplace(r)
  <2> DEFINE fields == [Rebuilding EXCEPT !.alone = req[r].alone]
  <2>1. fields.pc \in {"idle", "comms"} /\ (fields.alone <=> req[r].alone)
    BY <1>0, RebuildingTyped DEF Request
  <2>2. req' = [req EXCEPT ![r] = fields] /\ req[r].pc = "replace" /\ rows' = rows /\ up' = up
    BY <1>4 DEF CommitReplace
  <2> HIDE DEF fields
  <2>3. req'[r] = fields /\ \A q \in Requests : q # r => req'[q] = req[q]
    BY <1>0, <2>2
  <2>4. up /\ \A q \in Requests : q # r /\ req[q].alone => req[q].pc = "idle"
    BY <2>2 DEF AloneIs
  <2>5. req[r].alone => \A q \in Requests : q # r => req[q].pc = "idle"
    BY <2>2 DEF AloneIs
  <2> QED BY <2>1, <2>2, <2>3, <2>4, <2>5 DEF Same, Early
<1>5. CASE RollbackReplace(r) \/ StatementFails(r)
  <2>1. req' = [req EXCEPT ![r] = Idle] /\ UNCHANGED <<tables, rows, up, svc>>
    BY <1>5 DEF RollbackReplace, StatementFails
  <2>2. req'[r] = Idle /\ Idle.pc = "idle" /\ \A q \in Requests : q # r => req'[q] = req[q]
    BY <1>0, <2>1, IdleTyped
  <2> QED BY <2>1, <2>2 DEF Same, Early
<1> QED BY <1>0, <1>1, <1>2, <1>3, <1>4, <1>5 DEF Write

\* The statements of a rebuild before the last.
LEMMA ReadStep ==
  ASSUME TypeOK, NEW r \in Requests, ReadComms(r) \/ ReadIPs(r) \/ ReadBase(r) \/ ReadVersion(r)
  PROVE  /\ UNCHANGED <<tables, rows, up>>
         /\ req[r].pc # "idle" /\ req'[r].pc # "replace"
         /\ \A q \in Requests : q # r => req'[q] = req[q]
         /\ \/ req'[r].pc = "idle"
            \/ /\ req[r].pc = "comms" /\ req'[r].pc = "ips" /\ req'[r].alone = req[r].alone
               /\ ListOf("comms", req'[r].comms, req'[r].short)
            \/ /\ req[r].pc = "ips" /\ req'[r].pc = "base" /\ req'[r].alone = req[r].alone
               /\ req'[r].comms = req[r].comms
               /\ "comms" \notin req'[r].short => "comms" \notin req[r].short
               /\ ListOf("ips", req'[r].ips, req'[r].short)
            \/ /\ req[r].pc = "base" /\ req'[r].pc = "version" /\ req'[r].comms = req[r].comms
               /\ req'[r].ips = req[r].ips /\ req'[r].alone = req[r].alone
               /\ req'[r].short = req[r].short
               /\ \/ rows = <<>> /\ req'[r].base = "default"
                  \/ rows # <<>> /\ \E i \in DOMAIN rows : req'[r].base = rows[i].base
            \/ /\ req[r].pc = "version" /\ req'[r].pc = "insert" /\ req'[r].comms = req[r].comms
               /\ req'[r].ips = req[r].ips /\ req'[r].alone = req[r].alone
               /\ req'[r].short = req[r].short
               /\ req'[r].base = req[r].base /\ req'[r].version = CurrentVersion + 1
<1>0. req \in [Requests -> Request] /\ Idle.pc = "idle"
  BY IdleTyped DEF TypeOK, Request
<1>1. CASE ReadComms(r)
  <2>1. PICK got \in SUBSET Items :
          /\ List("comms", got)
          /\ req' = [req EXCEPT ![r].comms = got, ![r].pc = "ips",
                                ![r].short = Short("comms", got)]
    BY <1>1 DEF ReadComms
  <2>2. /\ req'[r].comms = got /\ req'[r].pc = "ips" /\ req'[r].alone = req[r].alone
        /\ req'[r].short = Short("comms", got) /\ \A q \in Requests : q # r => req'[q] = req[q]
    BY <1>0, <2>1 DEF Request
  <2>3. ListOf("comms", req'[r].comms, req'[r].short)
    BY <2>1, <2>2 DEF ListOf, List, Short
  <2> QED BY <1>1, <2>2, <2>3 DEF ReadComms
<1>2. CASE ReadIPs(r)
  <2>1. PICK got \in SUBSET Items :
          /\ List("ips", got)
          /\ req' = [req EXCEPT ![r].ips = got, ![r].pc = "base",
                                ![r].short = @ \cup Short("ips", got)]
    BY <1>2 DEF ReadIPs
  <2>2. /\ req'[r].ips = got /\ req'[r].pc = "base" /\ req'[r].alone = req[r].alone
        /\ req'[r].comms = req[r].comms
        /\ req'[r].short = req[r].short \cup Short("ips", got)
        /\ \A q \in Requests : q # r => req'[q] = req[q]
    BY <1>0, <2>1 DEF Request
  <2>3. ListOf("ips", req'[r].ips, req'[r].short)
    BY <2>1, <2>2 DEF ListOf, List, Short
  <2> QED BY <1>2, <2>2, <2>3 DEF ReadIPs
<1>3. CASE ReadBase(r)
  <2>1. PICK base \in IF rows = <<>> THEN {"default"} ELSE {row.base : row \in Newest} :
          req' = [req EXCEPT ![r].base = base, ![r].pc = "version"]
    BY <1>3 DEF ReadBase
  <2>2. rows # <<>> => \E i \in DOMAIN rows : base = rows[i].base
    BY NewestIs
  <2>3. /\ req'[r].base = base /\ req'[r].pc = "version" /\ req'[r].comms = req[r].comms
        /\ req'[r].ips = req[r].ips /\ req'[r].alone = req[r].alone
        /\ req'[r].short = req[r].short
        /\ \A q \in Requests : q # r => req'[q] = req[q]
    BY <1>0, <2>1 DEF Request
  <2>4. rows = <<>> => base = "default"
    BY <2>1
  <2>5. req[r].pc = "base" /\ UNCHANGED <<tables, rows, up>>
    BY <1>3 DEF ReadBase
  <2> QED BY <2>2, <2>3, <2>4, <2>5
<1>4. CASE ReadVersion(r)
  <2>1. req[r].pc = "version" /\ UNCHANGED <<tables, rows, up>>
    BY <1>4 DEF ReadVersion
  <2> DEFINE n == CurrentVersion + 1
  <2>2. req' \in {[req EXCEPT ![r].version = n, ![r].pc = "insert"], [req EXCEPT ![r] = Idle]}
    BY <1>4 DEF ReadVersion
  <2> HIDE DEF n
  <2>3. CASE req' = [req EXCEPT ![r].version = n, ![r].pc = "insert"]
    BY <1>0, <2>1, <2>3 DEF Request, n
  <2>4. CASE req' = [req EXCEPT ![r] = Idle]
    BY <1>0, <2>1, <2>4
  <2> QED BY <2>2, <2>3, <2>4
<1> QED BY <1>1, <1>2, <1>3, <1>4

\* The last one.
LEMMA InsertStep ==
  ASSUME TypeOK, NEW r \in Requests, Insert(r)
  PROVE  /\ UNCHANGED <<tables, up>> /\ req[r].pc = "insert" /\ req'[r].pc = "idle"
         /\ \A q \in Requests : q # r => req'[q] = req[q]
         /\ Len(rows) \in Nat /\ Len(rows') = Len(rows) + 1 /\ rows' # <<>>
         /\ DOMAIN rows = 1 .. Len(rows) /\ DOMAIN rows' = 1 .. Len(rows) + 1
         /\ \A i \in DOMAIN rows' : i \in DOMAIN rows \/ i = Len(rows) + 1
         /\ \A i \in DOMAIN rows : rows # <<>> /\ rows'[i] = rows[i]
         /\ LET new == rows'[Len(rows) + 1]
            IN  /\ new.version = req[r].version /\ new.base = req[r].base
                /\ new.comms = req[r].comms /\ new.ips = req[r].ips
<1>1. req \in [Requests -> Request] /\ Idle.pc = "idle" /\ rows \in Seq(Row)
  BY IdleTyped DEF TypeOK, Request
<1> DEFINE new == [version |-> req[r].version, base |-> req[r].base,
                   comms |-> req[r].comms, files |-> {}, ips |-> req[r].ips]
<1>2. /\ req' = [req EXCEPT ![r] = Idle] /\ req[r].pc = "insert" /\ UNCHANGED <<tables, up>>
      /\ rows' = Append(rows, new)
  BY DEF Insert
<1>3. req'[r].pc = "idle" /\ \A q \in Requests : q # r => req'[q] = req[q]
  BY <1>1, <1>2
<1>4. /\ new.version = req[r].version /\ new.base = req[r].base
      /\ new.comms = req[r].comms /\ new.ips = req[r].ips
  OBVIOUS
<1> HIDE DEF new
<1>5. /\ Len(rows) \in Nat /\ DOMAIN rows = 1 .. Len(rows)
      /\ Len(rows') = Len(rows) + 1 /\ DOMAIN rows' = 1 .. Len(rows) + 1
      /\ \A i \in DOMAIN rows : rows # <<>> /\ rows'[i] = rows[i]
      /\ rows'[Len(rows) + 1] = new
      /\ rows' # <<>>
  BY <1>1, <1>2
<1>6. \A i \in DOMAIN rows' : i \in DOMAIN rows \/ i = Len(rows) + 1
  BY <1>5
<1> QED BY <1>2, <1>3, <1>4, <1>5, <1>6

\* A start publishes the defaults where there is no rule set.
LEMMA BootStep ==
  ASSUME TypeOK, Numbered, Boot
  PROVE  /\ UNCHANGED <<tables, req>> /\ ~up /\ up'
         /\ \/ rows' = rows
            \/ rows = <<>> /\ rows' = <<DefaultRow>>
<1>1. rows # <<>> => CurrentVersion # 0
  BY NewestIs DEF Numbered
<1>2. UNCHANGED <<tables, req>> /\ ~up /\ up'
  BY Zenon DEF Boot
<1>3. rows' = rows \/ (rows' = Append(rows, DefaultRow) /\ CurrentVersion = 0)
  BY DEF Boot
<1>4. rows = <<>> => Append(rows, DefaultRow) = <<DefaultRow>>
  OBVIOUS
<1> QED BY <1>1, <1>2, <1>3, <1>4

\* Rows survive a crash; requests do not.
LEMMA CrashStep ==
  ASSUME TypeOK, Crash
  PROVE  UNCHANGED <<tables, rows>> /\ up' = FALSE /\ \A r \in Requests : req'[r] = Idle
BY DEF Crash

-----------------------------------------------------------------------------
(* The invariant is inductive. *)

\* No row, and nobody served.
LEMMA PublishInitInv == Init => PubInv
<1> SUFFICES ASSUME Init PROVE PubInv
  OBVIOUS
<1>1. Idle \in Request /\ Idle.pc = "idle" /\ LegacyRow \in Row /\ LegacyRow.version = 1
  BY IdleTyped DEF LegacyRow, Row, Bases
<1>2. rows \in Seq(Row) /\ \A i \in DOMAIN rows : rows[i] = LegacyRow /\ i = 1
  <2>1. CASE rows = <<>>
    BY <2>1
  <2>2. CASE rows = <<LegacyRow>>
    <3>1. DOMAIN rows = {1} /\ rows[1] = LegacyRow
      BY <2>2
    <3>2. rows \in Seq(Row)
      BY <1>1, <2>2
    <3> QED BY <3>1, <3>2
  <2> QED BY <2>1, <2>2 DEF Init
<1>3. req = [r \in Requests |-> Idle] /\ faults \in 0 .. MaxFaults /\ tables \in Tables
  BY BoundsAssumption DEF Init, Tables, NoTables
<1>4. up \in BOOLEAN /\ svc \in BOOLEAN
  BY Zenon DEF Init
<1>5. TypeOK
  BY <1>1, <1>2, <1>3, <1>4 DEF TypeOK, Request
<1>6. Numbered /\ OneBase /\ AloneIs /\ AloneReads
  BY <1>1, <1>2, <1>3 DEF Numbered, OneBase, AloneIs, AloneReads
<1> QED BY <1>5, <1>6 DEF PubInv

\* Whoever acts, the versions are counted from 1.
LEMMA NumberedStep == TypeOK /\ AloneIs /\ Numbered /\ [Next]_vars => Numbered'
<1> SUFFICES ASSUME TypeOK, AloneIs, Numbered, [Next]_vars PROVE Numbered'
  OBVIOUS
<1>1. CASE Boot
  <2>1. DefaultRow.version = 1
    BY DEF DefaultRow
  <2> QED BY <1>1, <2>1, BootStep DEF Numbered
<1>2. CASE Crash
  BY <1>2, CrashStep, IdleTyped DEF Numbered
<1>3. ASSUME NEW r \in Requests, Write(r) \/ StatementFails(r) PROVE Numbered'
  BY <1>3, WriteStep DEF Numbered, Same, Early
<1>4. ASSUME NEW r \in Requests, ReadComms(r) \/ ReadIPs(r) \/ ReadBase(r) \/ ReadVersion(r)
      PROVE  Numbered'
  <2>1. CurrentVersion + 1 > 0
    BY NewestIs
  <2> QED BY <1>4, <2>1, ReadStep DEF Numbered
<1>5. ASSUME NEW r \in Requests, Insert(r) PROVE Numbered'
  <2>1. \A i \in DOMAIN rows' : i \in DOMAIN rows \/ i = Len(rows) + 1
    BY <1>5, InsertStep, RowTyped
  <2>2. \A i \in DOMAIN rows' : rows'[i].version > 0
    BY <1>5, <2>1, InsertStep DEF Numbered
  <2> QED BY <1>5, <2>2, InsertStep DEF Numbered
<1>6. CASE UNCHANGED vars
  BY <1>6 DEF vars, Numbered
<1> QED BY <1>1, <1>2, <1>3, <1>4, <1>5, <1>6 DEF Next, Rebuild

\* The base of the first row is handed on.
LEMMA OneBaseStep == TypeOK /\ AloneIs /\ Numbered /\ OneBase /\ [Next]_vars => OneBase'
<1> SUFFICES ASSUME TypeOK, AloneIs, Numbered, OneBase, [Next]_vars PROVE OneBase'
  OBVIOUS
<1>1. CASE Boot
  <2>1. CASE rows' = rows
    BY <1>1, <2>1, BootStep DEF OneBase
  <2>2. CASE rows = <<>> /\ rows' = <<DefaultRow>>
    <3>1. rows' # <<>> /\ DOMAIN rows' = {1} /\ rows'[1].base = "default"
      BY <2>2 DEF DefaultRow
    <3> QED BY <1>1, <2>2, <3>1, BootStep DEF OneBase
  <2> QED BY <1>1, <2>1, <2>2, BootStep
<1>2. CASE Crash
  BY <1>2, CrashStep, IdleTyped DEF OneBase
<1>3. ASSUME NEW r \in Requests, Write(r) \/ StatementFails(r) PROVE OneBase'
  BY <1>3, WriteStep DEF OneBase, Same, Early
<1>4. ASSUME NEW r \in Requests, ReadComms(r) \/ ReadIPs(r) \/ ReadBase(r) \/ ReadVersion(r)
      PROVE  OneBase'
  BY <1>4, ReadStep DEF OneBase
<1>5. ASSUME NEW r \in Requests, Insert(r) PROVE OneBase'
  <2>1. req[r].base = IF rows = <<>> THEN "default" ELSE rows[1].base
    BY <1>5, InsertStep DEF OneBase
  <2>2. rows'[Len(rows) + 1].base = req[r].base
    BY <1>5, InsertStep
  <2>3. rows'[1].base = req[r].base
    <3>1. CASE rows = <<>>
      BY <2>2, <3>1, RowTyped
    <3>2. CASE rows # <<>>
      BY <1>5, <2>1, <3>2, InsertStep, RowTyped
    <3> QED BY <3>1, <3>2
  <2>4. \A i \in DOMAIN rows' : i \in DOMAIN rows \/ i = Len(rows) + 1
    BY <1>5, InsertStep, RowTyped
  <2>5. \A i \in DOMAIN rows : rows # <<>> /\ rows'[i].base = req[r].base
    BY <1>5, <2>1, InsertStep, RowTyped DEF OneBase
  <2>6. \A i \in DOMAIN rows' : rows'[i].base = rows'[1].base
    BY <2>2, <2>3, <2>4, <2>5
  <2>7. \A q \in Requests : req'[q].pc \in {"version", "insert"} => req'[q].base = rows'[1].base
    BY <1>5, <2>1, <2>3, InsertStep DEF OneBase
  <2> QED BY <1>5, <2>6, <2>7, InsertStep DEF OneBase
<1>6. CASE UNCHANGED vars
  BY <1>6 DEF vars, OneBase
<1> QED BY <1>1, <1>2, <1>3, <1>4, <1>5, <1>6 DEF Next, Rebuild

\* A request stays alone only until another is served.
LEMMA AloneIsStep == TypeOK /\ Numbered /\ AloneIs /\ [Next]_vars => AloneIs'
<1> SUFFICES ASSUME TypeOK, Numbered, AloneIs, [Next]_vars PROVE AloneIs'
  OBVIOUS
<1>1. CASE Boot
  BY <1>1, BootStep DEF AloneIs
<1>2. CASE Crash
  BY <1>2, CrashStep, IdleTyped DEF AloneIs
<1>3. ASSUME NEW r \in Requests, Write(r) \/ StatementFails(r) PROVE AloneIs'
  <2>1. ASSUME NEW p \in Requests, NEW q \in Requests, req'[p].alone, req'[p].pc # "idle", q # p
        PROVE  req'[q].pc = "idle"
    <3>1. CASE p = r
      BY <1>3, <2>1, <3>1, WriteStep DEF Same
    <3>2. CASE p # r
      <4>1. req[p].alone /\ req[p].pc # "idle" /\ req[r].pc = "idle"
        BY <1>3, <2>1, <3>2, WriteStep DEF Same, AloneIs
      <4>2. tables' = tables
        BY <1>3, <3>2, <2>1, <4>1, WriteStep
      <4>3. (\E e \in Edits : AddExclude(r, e[1], e[2]) \/ RemoveExclude(r, e[1], e[2]))
            \/ \E body \in Bodies : BeginReplace(r, body)
        BY <1>3, <4>1 DEF Write, CommitReplace, RollbackReplace, StatementFails
      <4>4. \E fields \in Request : Enter(r, fields)
        <5>1. Idle \in Request
          BY IdleTyped
        <5>2. \A body \in Bodies : [Idle EXCEPT !.pc = "replace", !.seen = tables, !.body = body] \in Request
          BY <5>1, InputsAssumption DEF Request, TypeOK
        <5> QED BY <4>3, <5>2, RebuildingTyped DEF AddExclude, RemoveExclude, BeginReplace
      <4>5. ~req'[p].alone
        BY <3>2, <4>4, Entered
      <4> QED BY <2>1, <4>5
    <3> QED BY <3>1, <3>2
  <2>2. ASSUME ~up', NEW q \in Requests PROVE req'[q].pc = "idle"
    BY <1>3, <2>2, WriteStep DEF AloneIs, Same
  <2> QED BY <2>1, <2>2 DEF AloneIs
<1>4. ASSUME NEW r \in Requests, ReadComms(r) \/ ReadIPs(r) \/ ReadBase(r) \/ ReadVersion(r)
      PROVE  AloneIs'
  BY <1>4, ReadStep DEF AloneIs
<1>5. ASSUME NEW r \in Requests, Insert(r) PROVE AloneIs'
  BY <1>5, InsertStep DEF AloneIs
<1>6. CASE UNCHANGED vars
  BY <1>6 DEF vars, AloneIs
<1> QED BY <1>1, <1>2, <1>3, <1>4, <1>5, <1>6 DEF Next, Rebuild

\* What a request has read while it was alone has not been changed.
LEMMA AloneReadsStep == TypeOK /\ Numbered /\ AloneIs /\ AloneReads /\ [Next]_vars => AloneReads'
<1> SUFFICES ASSUME TypeOK, Numbered, AloneIs, AloneReads, [Next]_vars PROVE AloneReads'
  OBVIOUS
<1>1. CASE Boot
  BY <1>1, BootStep DEF AloneIs, AloneReads
<1>2. CASE Crash
  BY <1>2, CrashStep, IdleTyped DEF AloneReads
<1>3. ASSUME NEW r \in Requests, Write(r) \/ StatementFails(r) PROVE AloneReads'
  <2>1. rows' = rows /\ req'[r].pc \in Early
    BY <1>3, WriteStep
  <2>2. \A q \in Requests : q # r =>
          Same(q) /\ (req'[q].alone => req[q].alone /\ (req[q].pc = "idle" \/ tables' = tables))
    BY <1>3, WriteStep
  <2> QED BY <2>1, <2>2 DEF AloneReads, ListOf, Same, Early
<1>4. ASSUME NEW r \in Requests, ReadComms(r) \/ ReadIPs(r) \/ ReadBase(r) \/ ReadVersion(r)
      PROVE  AloneReads'
  <2>1. \A i \in DOMAIN rows : rows[i].version < CurrentVersion + 1
    BY NewestIs, RowTyped
  <2> QED BY <1>4, <2>1, ReadStep DEF AloneReads, ListOf
<1>5. ASSUME NEW r \in Requests, Insert(r) PROVE AloneReads'
  <2>1. \A q \in Requests : req'[q].alone => req'[q].pc = "idle"
    BY <1>5, InsertStep DEF AloneIs
  <2> QED BY <2>1 DEF AloneReads
<1>6. CASE UNCHANGED vars
  BY <1>6 DEF vars, AloneReads, ListOf
<1> QED BY <1>1, <1>2, <1>3, <1>4, <1>5, <1>6 DEF Next, Rebuild

\* The inductive invariant of the publication.
THEOREM PublishInductive == Spec => []PubInv
<1>1. PubInv /\ [Next]_vars => PubInv'
  BY PublishTypeStep, NumberedStep, OneBaseStep, AloneIsStep, AloneReadsStep DEF PubInv
<1> QED BY PublishInitInv, <1>1, PTL DEF Spec

-----------------------------------------------------------------------------

\* A rebuild that overlaps no other request publishes what the tables hold; a
\* list that broke off lacks entries of its table and changes nothing else.
THEOREM LoneCorrect == Spec => LonePublishIsExact
<1> DEFINE Exact == \A r \in Requests : req[r].alone /\ Insert(r) =>
       \A row \in Newest' : \A t \in Rebuilt :
         /\ row[t] \subseteq tables[t]
         /\ t \notin req[r].short => row[t] = tables[t]
<1>1. PubInv /\ [Next]_vars => [Exact]_vars
  <2> SUFFICES ASSUME PubInv, NEW r \in Requests, req[r].alone, Insert(r), NEW row \in Newest'
               PROVE  \A t \in Rebuilt : /\ row[t] \subseteq tables[t]
                                         /\ t \notin req[r].short => row[t] = tables[t]
    OBVIOUS
  <2> DEFINE n == Len(rows) + 1
  <2>1. TypeOK /\ Numbered /\ AloneReads
    BY DEF PubInv
  <2>2. /\ DOMAIN rows' = 1 .. n /\ \A i \in DOMAIN rows : rows'[i] = rows[i]
        /\ rows'[n].version = req[r].version
        /\ rows'[n].comms = req[r].comms /\ rows'[n].ips = req[r].ips
        /\ req[r].pc = "insert" /\ DOMAIN rows = 1 .. Len(rows) /\ Len(rows) \in Nat
    BY <2>1, InsertStep, RowTyped
  <2>3. Newest' = {x \in ToSet(rows') : \A other \in ToSet(rows') : other.version <= x.version}
    BY DEF Newest
  <2>4. ToSet(rows') = {rows'[i] : i \in DOMAIN rows'}
    BY DEF ToSet
  <2>5. PICK i \in 1 .. n : row = rows'[i]
    BY <2>2, <2>3, <2>4
  <2>6. rows'[n].version <= row.version
    BY <2>2, <2>3, <2>4
  <2>7. i = n
    <3>1. ASSUME i \in DOMAIN rows PROVE FALSE
      <4>1. rows[i].version < req[r].version /\ row.version = rows[i].version
        BY <2>1, <2>2, <2>5, <3>1 DEF AloneReads
      <4>2. rows[i].version \in Nat /\ req[r].version \in Nat
        BY <2>1, <3>1, RowTyped DEF TypeOK
      <4>3. req[r].version <= row.version
        BY <2>2, <2>6
      <4> QED BY <4>1, <4>2, <4>3
    <3> QED BY <2>2, <3>1
  <2>8. ListOf("comms", row.comms, req[r].short) /\ ListOf("ips", row.ips, req[r].short)
    BY <2>1, <2>2, <2>5, <2>7 DEF AloneReads
  <2> QED BY <2>8 DEF ListOf, Rebuilt
<1>2. Spec => [][Exact]_vars
  BY PublishInductive, <1>1, PTL DEF Spec
<1> QED BY <1>2 DEF LonePublishIsExact

\* Nobody loses what no table manages.
THEOREM BaseCorrect == Spec => BaseKept
<1> DEFINE Kept == rows # <<>> /\ rows' # rows => Last(rows').base = Head(rows).base
<1>1. PubInv /\ [Next]_vars => [Kept]_vars
  <2> SUFFICES ASSUME PubInv, [Next]_vars, rows # <<>>, rows' # rows
               PROVE  Last(rows').base = Head(rows).base
    OBVIOUS
  <2>1. TypeOK /\ Numbered /\ AloneIs /\ OneBase
    BY DEF PubInv
  <2>2. PICK r \in Requests : Insert(r)
    BY <2>1, BootStep, CrashStep, WriteStep, ReadStep DEF Next, vars, Rebuild
  <2>3. Last(rows') = rows'[Len(rows) + 1] /\ rows'[Len(rows) + 1].base = req[r].base
    BY <2>1, <2>2, InsertStep DEF Last
  <2>4. req[r].base = rows[1].base
    BY <2>1, <2>2, InsertStep DEF OneBase
  <2>5. Head(rows) = rows[1]
    BY <2>1 DEF TypeOK
  <2> QED BY <2>3, <2>4, <2>5
<1>2. Spec => [][Kept]_vars
  BY PublishInductive, <1>1, PTL DEF Spec
<1> QED BY <1>2 DEF BaseKept

-----------------------------------------------------------------------------
(*****************************************************************************)
(* The cache.  The signature decides.  It is the last file of a rule set     *)
(* that can make it loadable, it only ever goes from torn to the rule set    *)
(* being saved, and a save that returns has written it; so whatever the      *)
(* other files hold, what is accepted is signed, and never older than what   *)
(* was saved.                                                                *)
(*****************************************************************************)

\* No file is of a rule set that has not been given to a save.
Known == \A f \in {enc, json, sig} : f <= content

\* A signature on the disk is at least as new as the last finished save.
SignedIsNew == sig \in {None, Torn} \/ sig >= saved

\* What a save has written when it stands at a step; one that has fallen back
\* to plain text is not clean.
Written ==
  /\ pc # "idle" => saved < content
  /\ pc \in {"sigTrunc", "sigWrite", "removeJson"} => enc = content
  /\ pc = "removeJson" => sig = content
  /\ pc \in {"plainRemoveEnc", "jsonTrunc", "jsonWrite", "plainSigTrunc", "plainSigWrite"}
       => ~clean

CacheInv == CacheTypeOK /\ Known /\ SignedIsNew /\ Written /\ SavedIsLoadable

\* Nothing is on the disk at first.
LEMMA CacheInitInv == CacheInit => CacheInv
BY CacheBounds
   DEF CacheInit, CacheInv, CacheTypeOK, Known, SignedIsNew, Written, SavedIsLoadable, Contents, Steps,
       None, Torn

\* Every call succeeds or counts as a fault.
LEMMA CleanTyped == CacheTypeOK /\ [CacheNext]_cacheVars => clean' \in BOOLEAN
BY Zenon DEF CacheTypeOK, CacheNext, cacheVars, Save, Encrypt, RemoveEnc, OpenEnc, WriteEnc, OpenJson, WriteJson,
             OpenSig, WriteSig, RemoveJson, Stop, CacheFault, Goto, GiveUp, Return, files

\* Every step of a save leads to another, and writes what is being saved.
LEMMA TypeStep == CacheTypeOK /\ [CacheNext]_cacheVars => CacheTypeOK'
<1> SUFFICES ASSUME CacheTypeOK, [CacheNext]_cacheVars PROVE CacheTypeOK'
  OBVIOUS
<1>1. clean' \in BOOLEAN
  BY CleanTyped
<1>2. enc' \in Contents /\ json' \in Contents /\ sig' \in Contents
  BY CacheBounds
     DEF CacheTypeOK, Contents, None, Torn, files, CacheNext, cacheVars, Save, Encrypt, RemoveEnc, OpenEnc, WriteEnc,
         OpenJson, WriteJson, OpenSig, WriteSig, RemoveJson, Stop
<1>3. pc' \in Steps
  BY DEF CacheTypeOK, Steps, CacheNext, cacheVars, Save, Encrypt, RemoveEnc, OpenEnc, WriteEnc,
         OpenJson, WriteJson, OpenSig, WriteSig, RemoveJson, Stop, Goto, GiveUp, Return
<1>4. content' \in 0 .. MaxVersion /\ saved' \in 0 .. content'
  BY CacheBounds
     DEF CacheTypeOK, CacheNext, cacheVars, Save, Encrypt, RemoveEnc, OpenEnc, WriteEnc,
         OpenJson, WriteJson, OpenSig, WriteSig, RemoveJson, Stop, Goto, GiveUp, Return
<1>5. cacheFaults' \in 0 .. MaxCacheFaults /\ stops' \in 0 .. MaxStops
  BY CacheBounds
     DEF CacheTypeOK, CacheNext, cacheVars, Save, Encrypt, RemoveEnc, OpenEnc, WriteEnc,
         OpenJson, WriteJson, OpenSig, WriteSig, RemoveJson, Stop, Goto, GiveUp, Return, CacheFault
<1> QED BY <1>1, <1>2, <1>3, <1>4, <1>5 DEF CacheTypeOK

\* What is written is what is being saved, the newest rule set so far.
LEMMA KnownStep == CacheTypeOK /\ Known /\ [CacheNext]_cacheVars => Known'
BY CacheBounds
   DEF CacheTypeOK, Contents, Known, None, Torn, files, CacheNext, cacheVars, Save, Encrypt, RemoveEnc, OpenEnc,
       WriteEnc, OpenJson, WriteJson, OpenSig, WriteSig, RemoveJson, Stop, Goto, GiveUp, Return

\* A signature is torn before it is written, and written before a save returns.
LEMMA SignedStep == CacheTypeOK /\ SignedIsNew /\ Written /\ [CacheNext]_cacheVars => SignedIsNew'
BY CacheBounds
   DEF CacheTypeOK, Contents, SignedIsNew, Written, None, Torn, files, CacheNext, cacheVars, Save, Encrypt,
       RemoveEnc, OpenEnc, WriteEnc, OpenJson, WriteJson, OpenSig, WriteSig, RemoveJson, Stop,
       Goto, GiveUp, Return

\* The steps of saveRulesCache keep their order.
LEMMA WrittenStep == CacheTypeOK /\ Written /\ [CacheNext]_cacheVars => Written'
<1> SUFFICES ASSUME CacheTypeOK, Written, [CacheNext]_cacheVars PROVE Written'
  OBVIOUS
<1>1. pc' # "idle" => saved' < content'
  BY DEF CacheTypeOK, Contents, Written, None, Torn, files, CacheNext, cacheVars, Save, Encrypt,
       RemoveEnc, OpenEnc, WriteEnc, OpenJson, WriteJson, OpenSig, WriteSig, RemoveJson, Stop,
       Goto, GiveUp, Return
<1>2. pc' \in {"sigTrunc", "sigWrite", "removeJson"} => enc' = content'
  BY DEF CacheTypeOK, Written, files, CacheNext, cacheVars, Save, Encrypt,
       RemoveEnc, OpenEnc, WriteEnc, OpenJson, WriteJson, OpenSig, WriteSig, RemoveJson, Stop,
       Goto, GiveUp, Return
<1>3. pc' = "removeJson" => sig' = content'
  BY DEF CacheTypeOK, Written, files, CacheNext, cacheVars, Save, Encrypt,
       RemoveEnc, OpenEnc, WriteEnc, OpenJson, WriteJson, OpenSig, WriteSig, RemoveJson, Stop,
       Goto, GiveUp, Return
<1>4. pc' \in {"plainRemoveEnc", "jsonTrunc", "jsonWrite", "plainSigTrunc", "plainSigWrite"}
        => ~clean'
  BY DEF CacheTypeOK, Written, files, CacheNext, cacheVars, Save, Encrypt,
       RemoveEnc, OpenEnc, WriteEnc, OpenJson, WriteJson, OpenSig, WriteSig, RemoveJson, Stop,
       Goto, GiveUp, Return, CacheFault
<1> QED BY <1>1, <1>2, <1>3, <1>4 DEF Written

\* Only a save that gets to its last step returns clean.
LEMMA LoadableStep ==
  CacheTypeOK /\ Written /\ SavedIsLoadable /\ [CacheNext]_cacheVars => SavedIsLoadable'
<1> SUFFICES ASSUME CacheTypeOK, Written, SavedIsLoadable, [CacheNext]_cacheVars,
                    pc' = "idle", clean', content' > 0, saved' = content'
             PROVE  Accepted' = content'
  BY DEF SavedIsLoadable
<1>1. CASE RemoveJson
  <2>1. enc' = content' /\ sig' = content' /\ content' \in 1 .. MaxVersion
    BY <1>1 DEF RemoveJson, Written, Return, CacheTypeOK
  <2> QED BY <2>1 DEF Accepted, Chosen, None
<1>2. CASE UNCHANGED <<files, pc, content, saved, clean>>
  BY <1>2 DEF SavedIsLoadable, Accepted, Chosen, files
<1>3. ~RemoveJson => UNCHANGED <<files, pc, content, saved, clean>>
  BY DEF CacheTypeOK, Written, files, CacheNext, cacheVars, Save, Encrypt, RemoveEnc, OpenEnc, WriteEnc,
         OpenJson, WriteJson, OpenSig, WriteSig, Stop, Goto, GiveUp, Return, CacheFault
<1> QED BY <1>1, <1>2, <1>3

\* The inductive invariant holds in every reachable state.
THEOREM CacheInductive == CacheSpec => []CacheInv
<1>1. CacheInv /\ [CacheNext]_cacheVars => CacheInv'
  BY TypeStep, KnownStep, SignedStep, WrittenStep, LoadableStep DEF CacheInv
<1> QED BY CacheInitInv, <1>1, PTL DEF CacheSpec

-----------------------------------------------------------------------------

\* A save that returned without error, and in which no call failed, is what the
\* next start loads.
THEOREM LoadableCorrect == CacheSpec => []SavedIsLoadable
BY CacheInductive, PTL DEF CacheInv

\* Whatever earlier failures left behind, no start brings back a rule set older
\* than the last one saved.
THEOREM NeverStaleCorrect == CacheSpec => []NeverStale
<1>1. CacheInv => NeverStale
  BY DEF CacheInv, CacheTypeOK, Contents, SignedIsNew, NeverStale, Accepted, None, Torn
<1> QED BY <1>1, CacheInductive, PTL

-----------------------------------------------------------------------------
(* The refinement: what can be loaded is the state of CachePromise. *)

\* What can be loaded is signed and known.
LEMMA AcceptedIs == CacheInv => Accepted \in 0 .. content /\ (Accepted # 0 => Accepted = sig)
BY DEF CacheInv, CacheTypeOK, Contents, Known, Accepted, Chosen, None, Torn

\* A step leaves the signature, tears it, or makes it that of the newest rule set.
LEMMA SignatureStep ==
  ASSUME CacheInv, [CacheNext]_cacheVars PROVE sig' \in {sig, Torn, content'}
BY DEF files, CacheNext, cacheVars, Save, Encrypt, RemoveEnc, OpenEnc, WriteEnc, OpenJson, WriteJson,
       OpenSig, WriteSig, RemoveJson, Stop, Goto, GiveUp, Return

\* A save is given a newer rule set and leaves the files alone.
LEMMA ContentStep ==
  ASSUME CacheInv, [CacheNext]_cacheVars
  PROVE  \/ Save /\ content' \in content + 1 .. MaxVersion /\ UNCHANGED files
         \/ UNCHANGED content
BY DEF CacheNext, cacheVars, Save, Encrypt, RemoveEnc, OpenEnc, WriteEnc, OpenJson, WriteJson,
       OpenSig, WriteSig, RemoveJson, Stop, Goto, GiveUp, Return

\* Every step of the files is a step of the promise, or none.
LEMMA PromiseStep ==
  ASSUME CacheInv, CacheInv', [CacheNext]_cacheVars PROVE [Promise!Next]_<<Accepted, content>>
<1>1. CASE Save /\ content' \in content + 1 .. MaxVersion /\ UNCHANGED files
  <2>1. UNCHANGED Accepted
    BY <1>1 DEF files, Accepted, Chosen
  <2>2. content < MaxVersion
    BY <1>1, CacheBounds DEF CacheInv, CacheTypeOK
  <2> QED BY <1>1, <2>1, <2>2 DEF Promise!Next, Promise!Offer
<1>2. CASE UNCHANGED content
  <2>1. Accepted' \in 0 .. content' /\ (Accepted' # 0 => Accepted' = sig')
    BY DEF CacheInv, CacheTypeOK, Contents, Known, Accepted, Chosen, None, Torn
  <2>2. /\ Accepted \in 0 .. content /\ (Accepted # 0 => Accepted = sig)
        /\ content \in Nat
    BY AcceptedIs DEF CacheInv, CacheTypeOK
  <2>3. Accepted' = 0 \/ Accepted' \in Accepted .. content
    BY <1>2, <2>1, <2>2, SignatureStep DEF Torn
  <2> QED BY <1>2, <2>3 DEF Promise!Next, Promise!Store
<1> QED BY <1>1, <1>2, ContentStep

\* The three files, written one after the other with failures and stops in
\* between, implement the cache RulesSync relies on.
THEOREM PromiseCorrect == CacheSpec => KeepsPromise
<1>1. CacheInit => Promise!Init
  BY DEF CacheInit, Promise!Init, Accepted, Chosen, None
<1>2. CacheInv /\ CacheInv' /\ [CacheNext]_cacheVars => [Promise!Next]_<<Accepted, content>>
  BY PromiseStep
<1> QED BY <1>1, <1>2, CacheInductive, PTL DEF CacheSpec, KeepsPromise, Promise!Spec
=============================================================================
