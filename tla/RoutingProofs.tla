------------------------------ MODULE RoutingProofs ------------------------------
(***************************************************************************)
(* Theorems about Routing, for any number of gateways, admins, weights and  *)
(* faults.                                                                 *)
(***************************************************************************)
EXTENDS Routing, DataProofs

--------------------------------------------------------------------------------
(* Types.  RoutingTypeOK says less than its proof needs: a reload that waits  *)
(* to be swapped in holds a table, and a health check is a record.            *)

TablesOf(type) == UNION {[D -> type] : D \in SUBSET GatewayIds}

Failures == 0..FailureCap
CheckedRow == [id : GatewayIds, failures : Failures]
VerdictType == [healthy : BOOLEAN, failures : Failures]
RunningCheck ==
    [pc : {"probe", "write", "patch"}, rows : Seq(CheckedRow) \ {<<>>}, verdict : VerdictType]
ReloadUnderWay == [pc : {"query"}] \cup [pc : {"swap"}, table : TablesOf(MemType)]

RoutingTypes ==
    /\ row \in TablesOf(RowType)
    /\ mem \in TablesOf(MemType)
    /\ up \subseteq GatewayIds
    /\ check \in [Checkers -> {NoCheck} \cup RunningCheck]
    /\ admin \in [Admins -> {NoReload} \cup ReloadUnderWay]
    /\ last \in GatewayIds \cup {0}
    /\ left \in [RoutingKinds -> Nat]

\* A table is a function on some of the gateways.
LEMMA TableOf ==
    ASSUME NEW type, NEW t
    PROVE  t \in TablesOf(type) <=> \E D \in SUBSET GatewayIds : t \in [D -> type]
BY DEF TablesOf

LEMMA TypesSuffice == RoutingTypes => RoutingTypeOK
<1> SUFFICES ASSUME RoutingTypes PROVE RoutingTypeOK
  OBVIOUS
<1>1. IsTable(row, RowType)
  BY TableOf DEF RoutingTypes, IsTable
<1>2. IsTable(mem, MemType)
  BY TableOf DEF RoutingTypes, IsTable
<1>3. ASSUME NEW k \in Checkers PROVE IsCheck(check[k])
  <2>1. check[k] = NoCheck \/ check[k] \in RunningCheck
    BY DEF RoutingTypes
  <2>2. CASE check[k] \in RunningCheck
    BY <2>2 DEF RunningCheck, IsCheck, CheckedRow, VerdictType, Failures
  <2>3. QED
    BY <2>1, <2>2 DEF IsCheck
<1>4. \A a \in Admins : admin[a].pc \in {"idle", "query", "swap"}
  BY DEF RoutingTypes, ReloadUnderWay, NoReload
<1>5. QED
  BY <1>1, <1>2, <1>3, <1>4 DEF RoutingTypes, RoutingTypeOK

LEMMA LoadedIsTable ==
    ASSUME NEW t \in TablesOf(RowType)
    PROVE  Loaded(t) \in TablesOf(MemType)
<1>1. PICK D \in SUBSET GatewayIds : t \in [D -> RowType]
  BY TableOf
<1>2. Loaded(t) \in [D -> MemType]
  BY <1>1 DEF Loaded, RowType, MemType
<1>3. QED
  BY <1>2, TableOf

LEMMA TypesInit == RoutingInit => RoutingTypes
<1> SUFFICES ASSUME RoutingInit PROVE RoutingTypes
  OBVIOUS
<1> DEFINE D == DOMAIN InitialWeights
<1>1. D \in SUBSET GatewayIds /\ \A g \in D : InitialWeights[g] \in Int
  BY RoutingAssumption
<1>2. 0 \in 0..FailureCap
  BY RoutingAssumption
<1>3. \A g \in D : Row(InitialWeights[g]) \in RowType
  BY <1>1, <1>2 DEF Row, RowType
<1>4. row \in [D -> RowType]
  BY <1>3 DEF RoutingInit
<1>5. row \in TablesOf(RowType)
  BY <1>1, <1>4, TableOf
<1>6. mem \in TablesOf(MemType)
  BY <1>5, LoadedIsTable DEF RoutingInit
<1>7. left \in [RoutingKinds -> Nat]
  BY RoutingAssumption DEF RoutingInit
<1>8. QED
  BY <1>5, <1>6, <1>7 DEF RoutingInit, RoutingTypes

\* What is spent stays a number.
LEMMA SpendTypes ==
    ASSUME left \in [RoutingKinds -> Nat], NEW kind \in RoutingKinds, Spend(kind)
    PROVE  left' \in [RoutingKinds -> Nat]
BY DEF Spend

\* One row is read.
LEMMA RowRead ==
    ASSUME NEW type, NEW t \in TablesOf(type), NEW g \in DOMAIN t
    PROVE  t[g] \in type /\ g \in GatewayIds
BY TableOf

\* One row is written.
LEMMA RowWritten ==
    ASSUME NEW type, NEW t \in TablesOf(type), NEW g \in DOMAIN t, NEW r \in type
    PROVE  [t EXCEPT ![g] = r] \in TablesOf(type)
<1>1. PICK D \in SUBSET GatewayIds : t \in [D -> type]
  BY TableOf
<1>2. [t EXCEPT ![g] = r] \in [D -> type]
  BY <1>1
<1>3. QED
  BY <1>1, <1>2, TableOf

LEMMA CreateTypes ==
    ASSUME RoutingTypes, NEW a \in Admins, NEW g \in GatewayIds, NEW w \in Weights,
           CreateGateway(a, g, w)
    PROVE  RoutingTypes'
<1> DEFINE weight == IF w < 1 THEN 1 ELSE w
<1>1. PICK D \in SUBSET GatewayIds : row \in [D -> RowType]
  BY TableOf DEF RoutingTypes
<1>2. Row(weight) \in RowType
  BY RoutingAssumption DEF Row, RowType
<1>3. row' = [h \in D \cup {g} |-> IF h = g THEN Row(weight) ELSE row[h]]
  BY <1>1 DEF CreateGateway
<1> HIDE DEF weight
<1>4. row' \in [D \cup {g} -> RowType] /\ D \cup {g} \in SUBSET GatewayIds
  BY <1>1, <1>2, <1>3
<1>5. row' \in TablesOf(RowType)
  BY <1>4, TableOf
<1>6. admin' \in [Admins -> {NoReload} \cup ReloadUnderWay]
  BY DEF CreateGateway, Reloads, RoutingTypes, ReloadUnderWay
<1>7. left' \in [RoutingKinds -> Nat]
  BY SpendTypes DEF CreateGateway, RoutingTypes, RoutingKinds
<1>8. QED
  BY <1>5, <1>6, <1>7 DEF CreateGateway, RoutingTypes

LEMMA UpdateTypes ==
    ASSUME RoutingTypes, NEW a \in Admins, NEW g \in DOMAIN row, NEW w \in Weights,
           UpdateGateway(a, g, w)
    PROVE  RoutingTypes'
<1>1. row[g] \in RowType
  BY RowRead DEF RoutingTypes
<1>2. [row[g] EXCEPT !.weight = w] \in RowType
  BY <1>1, RoutingAssumption DEF RowType
<1>3. row' = [row EXCEPT ![g] = [row[g] EXCEPT !.weight = w]]
  BY DEF UpdateGateway
<1>4. row' \in TablesOf(RowType)
  BY <1>2, <1>3, RowWritten DEF RoutingTypes
<1>5. admin' \in [Admins -> {NoReload} \cup ReloadUnderWay]
  BY DEF UpdateGateway, Reloads, RoutingTypes, ReloadUnderWay
<1>6. left' \in [RoutingKinds -> Nat]
  BY SpendTypes DEF UpdateGateway, RoutingTypes, RoutingKinds
<1>7. QED
  BY <1>4, <1>5, <1>6 DEF UpdateGateway, RoutingTypes

LEMMA ToggleTypes ==
    ASSUME RoutingTypes, NEW a \in Admins, NEW g \in DOMAIN row,
           NEW enabled \in BOOLEAN, ToggleGateway(a, g, enabled)
    PROVE  RoutingTypes'
<1>1. row[g] \in RowType
  BY RowRead DEF RoutingTypes
<1>2. [row[g] EXCEPT !.enabled = enabled] \in RowType
  BY <1>1 DEF RowType
<1>3. row' = [row EXCEPT ![g] = [row[g] EXCEPT !.enabled = enabled]]
  BY DEF ToggleGateway
<1>4. row' \in TablesOf(RowType)
  BY <1>2, <1>3, RowWritten DEF RoutingTypes
<1>5. admin' \in [Admins -> {NoReload} \cup ReloadUnderWay]
  BY DEF ToggleGateway, Reloads, RoutingTypes, ReloadUnderWay
<1>6. left' \in [RoutingKinds -> Nat]
  BY SpendTypes DEF ToggleGateway, RoutingTypes, RoutingKinds
<1>7. QED
  BY <1>4, <1>5, <1>6 DEF ToggleGateway, RoutingTypes

LEMMA ReloadTypes ==
    ASSUME RoutingTypes, NEW a \in Admins, ReloadQuery(a) \/ ReloadSwap(a)
    PROVE  RoutingTypes'
<1>1. CASE ReloadQuery(a)
  <2>1. Loaded(row) \in TablesOf(MemType)
    BY LoadedIsTable DEF RoutingTypes
  <2>2. [pc |-> "swap", table |-> Loaded(row)] \in ReloadUnderWay
    BY <2>1 DEF ReloadUnderWay
  <2>3. admin' \in [Admins -> {NoReload} \cup ReloadUnderWay]
    BY <1>1, <2>2 DEF ReloadQuery, RoutingTypes
  <2>4. left' \in [RoutingKinds -> Nat]
    BY <1>1, SpendTypes DEF ReloadQuery, RoutingTypes, RoutingKinds
  <2>5. QED
    BY <1>1, <2>3, <2>4 DEF ReloadQuery, RoutingTypes
<1>2. CASE ReloadSwap(a)
  <2>1. admin[a].table \in TablesOf(MemType)
    BY <1>2 DEF ReloadSwap, RoutingTypes, ReloadUnderWay, NoReload
  <2>2. QED
    BY <1>2, <2>1 DEF ReloadSwap, RoutingTypes
<1>3. QED
  BY <1>1, <1>2

LEMMA VerdictTypes ==
    ASSUME NEW reachable, NEW failures \in Failures
    PROVE  Verdict(reachable, failures) \in VerdictType
<1>1. 0 \in Failures /\ Minimum(failures + 1, FailureCap) \in Failures
  BY RoutingAssumption DEF Failures, Minimum
<1>2. QED
  BY <1>1 DEF Verdict, VerdictType

\* The rows a health check starts with are those of the gateways it is for.
LEMMA ProbingTypes ==
    ASSUME RoutingTypes, NEW ids \in Seq(DOMAIN row), ids # <<>>
    PROVE  Probing(ids) \in RunningCheck
<1>1. PICK D \in SUBSET GatewayIds : row \in [D -> RowType]
  BY TableOf DEF RoutingTypes
<1>2. 0 \in Failures
  BY RoutingAssumption DEF Failures
<1> DEFINE rows == [i \in DOMAIN ids |-> [id |-> ids[i], failures |-> row[ids[i]].failures]]
<1>3. \A i \in DOMAIN ids : ids[i] \in D
  BY <1>1
<1>4. \A i \in DOMAIN ids : rows[i] \in CheckedRow
  BY <1>1, <1>3 DEF RowType, CheckedRow, Failures
<1>5. rows \in Seq(CheckedRow) /\ rows # <<>>
  <2>1. DOMAIN ids = 1..Len(ids) /\ Len(ids) \in Nat /\ Len(ids) # 0
    OBVIOUS
  <2>2. rows \in [1..Len(ids) -> CheckedRow]
    BY <1>4, <2>1
  <2> HIDE DEF rows
  <2>3. rows \in Seq(CheckedRow)
    BY <2>1, <2>2
  <2>4. DOMAIN rows # {}
    BY <2>1, <2>2
  <2>5. QED
    BY <2>3, <2>4
<1>6. NoVerdict \in VerdictType
  BY <1>2 DEF NoVerdict, VerdictType
<1> HIDE DEF rows
<1>7. [pc |-> "probe", rows |-> rows, verdict |-> NoVerdict] \in RunningCheck
  BY <1>5, <1>6 DEF RunningCheck
<1>8. QED
  BY <1>7 DEF Probing, rows

LEMMA BeginTypes ==
    ASSUME RoutingTypes,
           RunHealthCheck \/ \E g \in DOMAIN row : ManualHealthCheck(g)
    PROVE  RoutingTypes'
<1>1. CASE RunHealthCheck
  <2>1. PICK ids \in InOrder(Enabled) : check' = [check EXCEPT !["cron"] = Probing(ids)]
    BY <1>1 DEF RunHealthCheck
  <2>2. IsFiniteSet(Enabled) /\ Enabled \subseteq DOMAIN row
    <3>1. DOMAIN row \subseteq GatewayIds
      BY TableOf DEF RoutingTypes
    <3>2. QED
      BY <3>1, FS_Subset, RoutingAssumption DEF Enabled
  <2>3. Cardinality(Enabled) \in Nat \ {0}
    BY <1>1, <2>2, FS_CardinalityType, FS_EmptySet DEF RunHealthCheck
  <2>4. ids \in Seq(DOMAIN row) /\ ids # <<>>
    <3>1. ids \in [1..Cardinality(Enabled) -> DOMAIN row]
      BY <2>1, <2>2 DEF InOrder
    <3>2. DOMAIN ids # {}
      BY <2>3, <3>1
    <3>3. QED
      BY <2>3, <3>1, <3>2
  <2>5. Probing(ids) \in RunningCheck
    BY <2>4, ProbingTypes
  <2>6. QED
    BY <1>1, <2>1, <2>5 DEF RunHealthCheck, RoutingTypes
<1>2. ASSUME NEW g \in DOMAIN row, ManualHealthCheck(g)
      PROVE  RoutingTypes'
  <2>1. <<g>> \in Seq(DOMAIN row) /\ <<g>> # <<>>
    OBVIOUS
  <2>2. Probing(<<g>>) \in RunningCheck
    BY <2>1, ProbingTypes
  <2>3. left' \in [RoutingKinds -> Nat]
    BY <1>2, SpendTypes DEF ManualHealthCheck, RoutingTypes, RoutingKinds
  <2>4. QED
    BY <1>2, <2>2, <2>3 DEF ManualHealthCheck, RoutingTypes
<1>3. QED
  BY <1>1, <1>2

\* A check that is at work has a row to check, and gateways left after it or
\* none.
LEMMA CheckUnderWay ==
    ASSUME RoutingTypes, NEW k \in Checkers, check[k] # NoCheck
    PROVE  /\ check[k] \in RunningCheck
           /\ Head(check[k].rows) \in CheckedRow
           /\ Tail(check[k].rows) \in Seq(CheckedRow)
<1>1. check[k] \in RunningCheck
  BY DEF RoutingTypes
<1>2. check[k].rows \in Seq(CheckedRow) /\ check[k].rows # <<>>
  BY <1>1 DEF RunningCheck
<1>3. QED
  BY <1>1, <1>2

LEMMA NextCheckTypes ==
    ASSUME RoutingTypes, NEW k \in Checkers, check[k] # NoCheck, NextCheck(k)
    PROVE  check' \in [Checkers -> {NoCheck} \cup RunningCheck]
<1>1. Tail(check[k].rows) \in Seq(CheckedRow)
  BY CheckUnderWay
<1>2. NoVerdict \in VerdictType
  BY RoutingAssumption DEF NoVerdict, VerdictType, Failures
<1>3. Tail(check[k].rows) # <<>> =>
        [pc |-> "probe", rows |-> Tail(check[k].rows), verdict |-> NoVerdict] \in RunningCheck
  BY <1>1, <1>2 DEF RunningCheck
<1>4. QED
  BY <1>3 DEF NextCheck, RoutingTypes

LEMMA CheckTypes ==
    ASSUME RoutingTypes, NEW k \in Checkers, CheckStep(k)
    PROVE  RoutingTypes'
<1>1. check[k] # NoCheck
  BY DEF CheckStep, Probe, WriteHealth, PatchMemory, NoCheck
<1>2. check[k] \in RunningCheck /\ Head(check[k].rows) \in CheckedRow
  BY <1>1, CheckUnderWay
<1>3. CASE Probe(k)
  <2> DEFINE gw == Head(check[k].rows)
             v == Verdict(gw.id \in up, gw.failures)
  <2>1. v \in VerdictType
    BY <1>2, VerdictTypes DEF CheckedRow
  <2>2. check' = [check EXCEPT ![k] = [check[k] EXCEPT !.pc = "write", !.verdict = v]]
    BY <1>3 DEF Probe
  <2> HIDE DEF v
  <2>3. [check[k] EXCEPT !.pc = "write", !.verdict = v] \in RunningCheck
    BY <1>2, <2>1 DEF RunningCheck
  <2>4. QED
    BY <1>3, <2>2, <2>3 DEF Probe, RoutingTypes
<1>4. CASE WriteHealth(k)
  <2>1. CASE Spend("db") /\ NextCheck(k) /\ UNCHANGED row
    <3>1. left' \in [RoutingKinds -> Nat]
      BY <2>1, SpendTypes DEF RoutingTypes, RoutingKinds
    <3>2. check' \in [Checkers -> {NoCheck} \cup RunningCheck]
      BY <1>1, <2>1, NextCheckTypes
    <3>3. QED
      BY <1>4, <2>1, <3>1, <3>2 DEF WriteHealth, RoutingTypes
  <2>2. CASE /\ row' = [row EXCEPT ![Checked(k)].healthy = check[k].verdict.healthy,
                                   ![Checked(k)].failures = check[k].verdict.failures]
             /\ check' = [check EXCEPT ![k].pc = "patch"]
             /\ UNCHANGED left
    <3>1. row' \in TablesOf(RowType)
      <4> DEFINE r == [row[Checked(k)] EXCEPT !.healthy = check[k].verdict.healthy,
                                              !.failures = check[k].verdict.failures]
      <4>1. check[k].verdict \in VerdictType
        BY <1>2 DEF RunningCheck
      <4>2. CASE Checked(k) \in DOMAIN row
        <5>1. row[Checked(k)] \in RowType
          BY <4>2, RowRead DEF RoutingTypes
        <5>2. r \in RowType
          BY <4>1, <5>1 DEF RowType, VerdictType, Failures
        <5>3. row' = [row EXCEPT ![Checked(k)] = r]
          BY <2>2, <4>2
        <5> HIDE DEF r
        <5>4. QED
          BY <4>2, <5>2, <5>3, RowWritten DEF RoutingTypes
      <4>3. CASE Checked(k) \notin DOMAIN row
        <5>1. PICK D \in SUBSET GatewayIds : row \in [D -> RowType]
          BY TableOf DEF RoutingTypes
        <5>2. row' \in [D -> RowType]
          BY <2>2, <4>3, <5>1
        <5>3. QED
          BY <5>2, TableOf
      <4>4. QED
        BY <4>2, <4>3
    <3>2. [check[k] EXCEPT !.pc = "patch"] \in RunningCheck
      BY <1>2 DEF RunningCheck
    <3>3. check' = [check EXCEPT ![k] = [check[k] EXCEPT !.pc = "patch"]]
      BY <2>2
    <3>4. QED
      BY <1>4, <2>2, <3>1, <3>2, <3>3 DEF WriteHealth, RoutingTypes
  <2>3. QED
    BY <1>4, <2>1, <2>2 DEF WriteHealth
<1>5. CASE PatchMemory(k)
  <2>1. check' \in [Checkers -> {NoCheck} \cup RunningCheck]
    BY <1>1, <1>5, NextCheckTypes DEF PatchMemory
  <2>2. PICK D \in SUBSET GatewayIds : mem \in [D -> MemType]
    BY TableOf DEF RoutingTypes
  <2>3. check[k].verdict.healthy \in BOOLEAN
    BY <1>2 DEF RunningCheck, VerdictType
  <2>4. mem' \in [D -> MemType]
    BY <1>5, <2>2, <2>3 DEF PatchMemory, MemType
  <2>5. mem' \in TablesOf(MemType)
    BY <2>4, TableOf
  <2>6. QED
    BY <1>5, <2>1, <2>5 DEF PatchMemory, RoutingTypes
<1>6. QED
  BY <1>3, <1>4, <1>5 DEF CheckStep

\* The copy is a finite table of numbers.
LEMMA CopyNumbers ==
    ASSUME RoutingTypes
    PROVE  /\ IsFiniteSet(DOMAIN mem) /\ DOMAIN mem \subseteq GatewayIds
           /\ mem \in [DOMAIN mem -> MemType]
           /\ Candidates \subseteq DOMAIN mem /\ IsFiniteSet(Candidates)
           /\ Numbers(Weight, DOMAIN mem) /\ Numbers(Current, DOMAIN mem)
           /\ TotalWeight \in Int
<1>1. PICK D \in SUBSET GatewayIds : mem \in [D -> MemType]
  BY TableOf DEF RoutingTypes
<1>2. DOMAIN mem = D /\ IsFiniteSet(D)
  BY <1>1, RoutingAssumption, FS_Subset
<1>3. Candidates \subseteq D /\ IsFiniteSet(Candidates)
  BY <1>2, FS_Subset DEF Candidates
<1>4. \A g \in D : mem[g].weight \in Int /\ mem[g].current \in Int
  BY <1>1 DEF MemType
<1>5. Numbers(Weight, D) /\ Numbers(Current, D)
  BY <1>2, <1>4 DEF Numbers, Weight, Current
<1>6. Numbers(Weight, Candidates)
  BY <1>3, <1>5 DEF Numbers
<1>7. TotalWeight \in Int
  BY <1>3, <1>6, SumIsNumber DEF TotalWeight
<1>8. QED
  BY <1>1, <1>2, <1>3, <1>5, <1>7

\* What PickALeg does to the copy, in one piece.
LEMMA PickFacts ==
    ASSUME PickALeg
    PROVE  /\ Candidates # {} /\ last' = Best
           /\ mem' = [g \in DOMAIN mem |->
                        [mem[g] EXCEPT !.current =
                           IF g \notin Candidates THEN mem[g].current
                           ELSE Raised(g) - (IF g = Best THEN TotalWeight ELSE 0)]]
           /\ UNCHANGED <<row, up, check, admin, left>>
BY Zenon DEF PickALeg, PickPaying, Paying

LEMMA PickTypes ==
    ASSUME RoutingTypes, PickALeg, Best \in Candidates
    PROVE  RoutingTypes'
<1>1. /\ mem \in [DOMAIN mem -> MemType] /\ DOMAIN mem \subseteq GatewayIds
      /\ Candidates \subseteq DOMAIN mem /\ TotalWeight \in Int
  BY CopyNumbers
<1> DEFINE after == [g \in DOMAIN mem |->
                       IF g \notin Candidates THEN mem[g].current
                       ELSE Raised(g) - (IF g = Best THEN TotalWeight ELSE 0)]
<1>2. \A g \in DOMAIN mem : mem[g].current \in Int /\ mem[g].weight \in Int
  BY <1>1 DEF MemType
<1>3. \A g \in DOMAIN mem : after[g] \in Int
  BY <1>1, <1>2 DEF Raised
<1>4. mem' = [g \in DOMAIN mem |-> [mem[g] EXCEPT !.current = after[g]]]
  BY PickFacts
<1> HIDE DEF after
<1>5. mem' \in [DOMAIN mem -> MemType]
  BY <1>1, <1>3, <1>4 DEF MemType
<1>6. mem' \in TablesOf(MemType)
  BY <1>1, <1>5, TableOf
<1>7. last' \in GatewayIds
  BY <1>1, PickFacts
<1>8. QED
  BY <1>6, <1>7, PickFacts DEF RoutingTypes

\* The greatest of finitely many raised weights exists, and of several the one
\* that comes first: PickALeg's loop picks a candidate.
LEMMA BestExists ==
    ASSUME RoutingTypes, Candidates # {}
    PROVE  /\ Best \in Candidates
           /\ \A g \in Candidates : Raised(g) \in Int /\ Raised(g) <= Raised(Best)
<1> DEFINE First(T, g) == \A h \in T :
              Raised(g) > Raised(h) \/ (Raised(g) = Raised(h) /\ g <= h)
           Reached == {T \in SUBSET Candidates : T # {} => \E g \in T : First(T, g)}
<1>1. \A g \in Candidates : Raised(g) \in Int /\ g \in Int
  BY CopyNumbers, RoutingAssumption DEF Raised, MemType
<1>2. ASSUME NEW T \in SUBSET Candidates, \A g \in T : T \ {g} \in Reached
      PROVE  T \in Reached
  <2>1. SUFFICES ASSUME T # {} PROVE \E g \in T : First(T, g)
    OBVIOUS
  <2>2. PICK x \in T : TRUE
    BY <2>1
  <2>3. CASE T \ {x} = {}
    <3>1. First(T, x)
      BY <1>1, <2>3
    <3>2. QED
      BY <3>1
  <2>4. CASE T \ {x} # {}
    <3>1. PICK y \in T \ {x} : First(T \ {x}, y)
      BY <1>2, <2>2, <2>4
    <3>2. CASE Raised(y) > Raised(x) \/ (Raised(y) = Raised(x) /\ y <= x)
      <4>1. First(T, y)
        BY <3>1, <3>2
      <4>2. QED
        BY <4>1
    <3>3. CASE ~(Raised(y) > Raised(x) \/ (Raised(y) = Raised(x) /\ y <= x))
      <4>1. First(T, x)
        BY <1>1, <2>2, <3>1, <3>3
      <4>2. QED
        BY <4>1
    <3>4. QED
      BY <3>2, <3>3
  <2>5. QED
    BY <2>3, <2>4
<1>3. IsFiniteSet(Candidates)
  BY CopyNumbers
<1>4. Candidates \in Reached
  <2> HIDE DEF Reached
  <2>1. QED
    BY <1>2, <1>3, SubsetsReached
<1>5. \E g \in Candidates : First(Candidates, g)
  BY <1>4
<1>6. Best \in Candidates /\ First(Candidates, Best)
  BY <1>5 DEF Best
<1>7. QED
  BY <1>1, <1>6

LEMMA RoutingTypesStep == RoutingTypes /\ [RoutingNext]_routingVars => RoutingTypes'
<1> SUFFICES ASSUME RoutingTypes, [RoutingNext]_routingVars PROVE RoutingTypes'
  OBVIOUS
<1>1. CASE PickALeg
  BY <1>1, BestExists, PickTypes, PickFacts
<1>2. ASSUME NEW a \in Admins, AdminStep(a)
      PROVE  RoutingTypes'
  BY <1>2, CreateTypes, UpdateTypes, ReloadTypes, ToggleTypes DEF AdminStep
<1>3. CASE RunHealthCheck \/ \E g \in DOMAIN row : ManualHealthCheck(g)
  BY <1>3, BeginTypes
<1>4. ASSUME NEW k \in Checkers, CheckStep(k)
      PROVE  RoutingTypes'
  BY <1>4, CheckTypes
<1>5. ASSUME NEW g \in Unsteady, Flip(g)
      PROVE  RoutingTypes'
  <2>1. left' \in [RoutingKinds -> Nat]
    BY <1>5, SpendTypes DEF Flip, RoutingTypes, RoutingKinds
  <2>2. QED
    BY <1>5, <2>1, RoutingAssumption DEF Flip, RoutingTypes
<1>6. CASE UNCHANGED routingVars
  BY <1>6 DEF routingVars, RoutingTypes
<1>7. QED
  BY <1>1, <1>2, <1>3, <1>4, <1>5, <1>6 DEF RoutingNext, PickRefused

\* The table, the copy and the work under way have their types, whatever the
\* admins, the health checks and PickALeg do to them in which order: in
\* particular a check never runs past its last gateway (Head and Tail of its
\* rows are defined whenever they are taken).
THEOREM RoutingTypeCorrect == RoutingSpec => []RoutingTypeOK
BY TypesInit, RoutingTypesStep, TypesSuffice, PTL DEF RoutingSpec

--------------------------------------------------------------------------------
(* A reload settles.  ReloadSettles only speaks of the time between reloads;   *)
(* on the way the table an admin has read and not yet swapped in carries the   *)
(* fact.                                                                      *)

\* The gateways, weights and switches of a copy are the table's.
Settled(copy) ==
    /\ DOMAIN copy = DOMAIN row
    /\ \A g \in DOMAIN copy : copy[g].weight = row[g].weight /\ copy[g].enabled = row[g].enabled

Idle == \A a \in Admins : admin[a] = NoReload

SettlesInv ==
    /\ left["db"] <= Budget["db"]
    /\ left["db"] = Budget["db"] =>
          /\ Idle => Settled(mem)
          /\ \A a \in Admins : admin[a].pc = "swap" => Settled(admin[a].table)

\* Statements that fail are counted, and never uncounted.
LEMMA FailuresStay ==
    ASSUME RoutingTypes, [RoutingNext]_routingVars
    PROVE  left'["db"] <= left["db"]
<1>1. left \in [RoutingKinds -> Nat] /\ "db" \in RoutingKinds /\ left["db"] \in Nat
  BY DEF RoutingTypes, RoutingKinds
<1>2. ASSUME NEW kind, Spend(kind)
      PROVE  left'["db"] <= left["db"]
  BY <1>1, <1>2 DEF Spend
<1>3. CASE UNCHANGED left
  BY <1>1, <1>3
<1>4. (\E kind : Spend(kind)) \/ UNCHANGED left
  BY DEF RoutingNext, PickALeg, PickPaying, PickRefused, AdminStep, CreateGateway, UpdateGateway,
         ToggleGateway, ReloadQuery, ReloadSwap, RunHealthCheck, ManualHealthCheck, CheckStep,
         Probe, WriteHealth, PatchMemory, Flip, routingVars
<1>5. QED
  BY <1>2, <1>3, <1>4

\* A step that leaves the admins, the gateways, the weights and the switches
\* alone leaves a copy as settled as it was.
LEMMA SettledKept ==
    ASSUME SettlesInv, UNCHANGED admin, left'["db"] = Budget["db"] => left["db"] = Budget["db"],
           DOMAIN row' = DOMAIN row, DOMAIN mem' = DOMAIN mem,
           \A g \in DOMAIN row : /\ row'[g].weight = row[g].weight
                                 /\ row'[g].enabled = row[g].enabled,
           \A g \in DOMAIN mem : /\ mem'[g].weight = mem[g].weight
                                 /\ mem'[g].enabled = mem[g].enabled,
           left'["db"] <= Budget["db"]
    PROVE  SettlesInv'
<1>1. Settled(mem) => Settled(mem)'
  BY DEF Settled
<1>2. ASSUME NEW a \in Admins, Settled(admin[a].table)
      PROVE  Settled(admin[a].table)'
  BY <1>2 DEF Settled
<1>3. QED
  BY <1>1, <1>2 DEF SettlesInv, Idle

LEMMA SettlesStep ==
    ASSUME \A a, b \in Admins : a = b,
           RoutingTypes, SettlesInv, [RoutingNext]_routingVars
    PROVE  SettlesInv'
<1>1. /\ left["db"] \in Nat /\ Budget["db"] \in Nat /\ left'["db"] \in Nat
      /\ left'["db"] <= left["db"] /\ left["db"] <= Budget["db"]
  BY FailuresStay, RoutingTypesStep, RoutingAssumption
     DEF RoutingTypes, RoutingKinds, SettlesInv
<1>2. /\ left'["db"] <= Budget["db"]
      /\ left'["db"] = Budget["db"] => left["db"] = Budget["db"]
  BY <1>1
<1>3. CASE PickALeg
  <2>1. mem \in [DOMAIN mem -> MemType]
    BY CopyNumbers
  <2>2. /\ DOMAIN mem' = DOMAIN mem
        /\ \A g \in DOMAIN mem : mem'[g].weight = mem[g].weight /\ mem'[g].enabled = mem[g].enabled
    BY <1>3, <2>1, PickFacts DEF MemType
  <2>3. QED
    BY <1>2, <1>3, <2>2, SettledKept, PickFacts
<1>4. ASSUME NEW a \in Admins, AdminStep(a)
      PROVE  SettlesInv'
  <2>1. \A b \in Admins : b = a
    OBVIOUS
  <2>2. admin \in [Admins -> {NoReload} \cup ReloadUnderWay]
    BY DEF RoutingTypes
  <2>3. CASE Reloads(a)
    <3>1. admin'[a] = [pc |-> "query"]
      BY <2>2, <2>3 DEF Reloads
    <3>2. ~Idle' /\ \A b \in Admins : admin'[b].pc = "query"
      BY <2>1, <3>1 DEF Idle, NoReload
    <3>3. QED
      BY <1>2, <3>2 DEF SettlesInv
  <2>4. CASE ReloadQuery(a)
    <3>1. CASE admin' = [admin EXCEPT ![a] = [pc |-> "swap", table |-> Loaded(row)]]
      <4>1. admin'[a] = [pc |-> "swap", table |-> Loaded(row)]
        BY <2>2, <3>1
      <4>2. row' = row
        BY <2>4 DEF ReloadQuery
      <4>3. ~Idle'
        BY <4>1 DEF Idle, NoReload
      <4>4. \A b \in Admins : Settled(admin[b].table)'
        <5>1. SUFFICES Settled(admin[a].table)'
          BY <2>1
        <5>2. QED
          BY <4>1, <4>2 DEF Settled, Loaded
      <4>5. QED
        BY <1>2, <4>3, <4>4 DEF SettlesInv
    <3>2. CASE Spend("db")
      <4>1. left'["db"] = left["db"] - 1
        BY <3>2 DEF Spend, RoutingTypes, RoutingKinds
      <4>2. left'["db"] # Budget["db"]
        BY <1>1, <4>1
      <4>3. QED
        BY <1>2, <4>2 DEF SettlesInv
    <3>3. QED
      BY <2>4, <3>1, <3>2 DEF ReloadQuery
  <2>5. CASE ReloadSwap(a)
    <3>1. admin[a].pc = "swap" /\ mem' = admin[a].table /\ row' = row /\ left' = left
      BY <2>5 DEF ReloadSwap
    <3>2. admin'[a] = NoReload
      BY <2>2, <2>5 DEF ReloadSwap
    <3>3. left["db"] = Budget["db"] => Settled(mem)'
      <4>1. left["db"] = Budget["db"] => Settled(admin[a].table)
        BY <3>1 DEF SettlesInv
      <4>2. QED
        BY <3>1, <4>1 DEF Settled
    <3>4. \A b \in Admins : admin'[b].pc # "swap"
      BY <2>1, <3>2 DEF NoReload
    <3>5. QED
      BY <1>2, <3>3, <3>4 DEF SettlesInv
  <2>6. QED
    BY <1>4, <2>3, <2>4, <2>5 DEF AdminStep, CreateGateway, UpdateGateway, ToggleGateway
<1>5. ASSUME NEW k \in Checkers, CheckStep(k)
      PROVE  SettlesInv'
  <2>1. CASE Probe(k)
    BY <1>2, <2>1, SettledKept DEF Probe
  <2>2. CASE WriteHealth(k)
    <3>1. PICK D \in SUBSET GatewayIds : row \in [D -> RowType]
      BY TableOf DEF RoutingTypes
    <3>2. /\ DOMAIN row' = DOMAIN row
          /\ \A g \in DOMAIN row : /\ row'[g].weight = row[g].weight
                                   /\ row'[g].enabled = row[g].enabled
      BY <2>2, <3>1 DEF WriteHealth, RowType
    <3>3. QED
      BY <1>2, <2>2, <3>2, SettledKept DEF WriteHealth
  <2>3. CASE PatchMemory(k)
    <3>1. mem \in [DOMAIN mem -> MemType]
      BY CopyNumbers
    <3>2. /\ DOMAIN mem' = DOMAIN mem
          /\ \A g \in DOMAIN mem : /\ mem'[g].weight = mem[g].weight
                                   /\ mem'[g].enabled = mem[g].enabled
      BY <2>3, <3>1 DEF PatchMemory, MemType
    <3>3. QED
      BY <1>2, <2>3, <3>2, SettledKept DEF PatchMemory
  <2>4. QED
    BY <1>5, <2>1, <2>2, <2>3 DEF CheckStep
<1>6. CASE RunHealthCheck \/ \E g \in DOMAIN row : ManualHealthCheck(g)
  BY <1>2, <1>6, SettledKept DEF RunHealthCheck, ManualHealthCheck
<1>7. CASE \E g \in Unsteady : Flip(g)
  BY <1>2, <1>7, SettledKept DEF Flip
<1>8. CASE PickRefused \/ UNCHANGED routingVars
  BY <1>2, <1>8, SettledKept DEF PickRefused, routingVars
<1>9. QED
  BY <1>3, <1>4, <1>5, <1>6, <1>7, <1>8 DEF RoutingNext

\* CreateGateway, UpdateGateway and ToggleGateway end with the copy PickALeg
\* works on in step with the table, whatever health checks and picks come
\* between the statement, the query and the swap.  Admins are taken to work
\* one at a time: two reloads may be swapped in against the order of their
\* queries, and the copy then is the older table's.
THEOREM ReloadSettlesHolds ==
    ASSUME \A a, b \in Admins : a = b
    PROVE  RoutingSpec => []ReloadSettles
<1>1. RoutingInit => SettlesInv
  BY RoutingAssumption
     DEF RoutingInit, SettlesInv, Settled, Idle, Loaded, NoReload, RoutingKinds
<1>2. SettlesInv => ReloadSettles
  BY DEF SettlesInv, ReloadSettles, Settled, Idle
<1>3. QED
  BY <1>1, <1>2, SettlesStep, TypesInit, RoutingTypesStep, PTL DEF RoutingSpec

--------------------------------------------------------------------------------
(* Smooth weighted round-robin stays balanced.  That no gateway's current     *)
(* weight leaves its bounds is not inductive: one that is not a candidate may *)
(* be left with any weight, and the others share the counterpart.  What each  *)
(* pick preserves is a bound on the sum over every set of gateways.           *)

\* k gateways of n have together at most M times k times n - k.
Spread(c, D, M) ==
    \A S \in SUBSET D :
        SumFunctionOnSet(c, S) <= M * (Cardinality(S) * (Cardinality(D) - Cardinality(S)))

\* The step in numbers.  Of k gateways m are candidates and not picked; they
\* are given wA, and their raised weights are together rA.  Gateway j is picked.
LEMMA RoundRobinBound ==
    ASSUME NEW n \in Nat, NEW k \in Nat, NEW m \in Nat, NEW M \in Nat, m >= 1,
           NEW cS \in Int, NEW cRest \in Int, NEW wA \in Int, NEW rA \in Int,
           NEW cj \in Int, NEW wj \in Int,
           cRest <= M * ((k - m) * (n - (k - m))),
           cS + cj <= M * ((k + 1) * (n - (k + 1))),
           cS + wA = cRest + rA,
           rA <= m * (cj + wj), wA <= m * M, wj <= M
    PROVE  cS + wA <= M * (k * (n - k))
<1> DEFINE B == M * (k * (n - k))
           X == M * (n - 2 * k - 1)
           Y == M * (n - 2 * k + m)
           mY == m * Y
           mM == m * M
           rj == cj + wj
           mr == m * rj
<1>1. B \in Int /\ X \in Int /\ Y \in Int /\ mY \in Int /\ mM \in Int /\ mr \in Int /\ rj \in Int
  OBVIOUS
<1>2. M * ((k + 1) * (n - (k + 1))) = B + X
  OBVIOUS
<1>3. M * ((k - m) * (n - (k - m))) = B - mY
  OBVIOUS
<1>4. X + mM + M = Y
  OBVIOUS
<1>5. rj <= Y - 1 => mr <= mY - m
  <2>1. rj \in Int /\ Y \in Int
    OBVIOUS
  <2> HIDE DEF rj, Y
  <2>2. ASSUME rj <= Y - 1 PROVE m * rj <= m * (Y - 1)
    BY <2>1, <2>2
  <2>3. m * (Y - 1) = m * Y - m
    BY <2>1
  <2>4. QED
    BY <2>1, <2>2, <2>3
<1>6. /\ cRest <= B - mY /\ cS + cj <= B + X /\ rA <= mr /\ wA <= mM
      /\ rj = cj + wj
  BY <1>2, <1>3
<1> HIDE DEF B, X, Y, mY, mM, rj, mr
<1>7. SUFFICES ASSUME cS + wA > B PROVE FALSE
  BY <1>1 DEF B
<1>8. rj <= Y - 1
  BY <1>1, <1>4, <1>6, <1>7
<1>9. rA > mY
  BY <1>1, <1>6, <1>7
<1>10. QED
  BY <1>1, <1>5, <1>6, <1>8, <1>9

\* The weights c2 after gateway j of the candidates C was picked: all of them
\* are given their weight w, and j pays T.
Picked(D, c, w, C, j, T, c2) ==
    \A g \in D : c2[g] = IF g \notin C THEN c[g]
                         ELSE c[g] + w[g] - (IF g = j THEN T ELSE 0)

\* What a pick does to the sum over a set of gateways: every candidate in it is
\* given its weight, and the one picked, if it is in it, pays all of them.
LEMMA PickSums ==
    ASSUME NEW D, IsFiniteSet(D), NEW c, Numbers(c, D), NEW w, Numbers(w, D),
           NEW C \in SUBSET D, NEW j \in C, NEW T \in Int,
           NEW c2, Picked(D, c, w, C, j, T, c2),
           NEW S \in SUBSET D
    PROVE  /\ j \in S => SumFunctionOnSet(c2, S) =
                             SumFunctionOnSet(c, S) + SumFunctionOnSet(w, S \cap C) - T
           /\ j \notin S => SumFunctionOnSet(c2, S) =
                                SumFunctionOnSet(c, S) + SumFunctionOnSet(w, S \cap C)
           /\ SumFunctionOnSet(c, S) \in Int /\ SumFunctionOnSet(w, S \cap C) \in Int
           /\ SumFunctionOnSet(c2, S) \in Int
<1> DEFINE given == [g \in D |-> IF g \in C THEN w[g] ELSE 0]
           paid == [g \in D |-> IF g = j THEN -T ELSE 0]
           raised == [g \in D |-> c[g] + given[g]]
           minus == [g \in D |-> -T]
<1>1. /\ IsFiniteSet(S) /\ IsFiniteSet(S \cap C) /\ IsFiniteSet(S \cap {j})
      /\ Numbers(c, S) /\ Numbers(w, S) /\ Numbers(w, S \cap C)
  BY FS_Subset DEF Numbers
<1>2. /\ \A g \in S : given[g] = IF g \in C THEN w[g] ELSE 0
      /\ \A g \in S : paid[g] = IF g \in {j} THEN minus[g] ELSE 0
      /\ \A g \in S : raised[g] = c[g] + given[g]
      /\ \A g \in S : minus[g] = -T
  OBVIOUS
<1>3. Numbers(given, S) /\ Numbers(paid, S) /\ Numbers(raised, S) /\ Numbers(minus, S)
  BY <1>1, <1>2 DEF Numbers
<1>4. \A g \in S : c2[g] = raised[g] + paid[g]
  BY <1>1, <1>2 DEF Numbers, Picked
<1> HIDE DEF given, paid, raised, minus
<1>5. SumFunctionOnSet(given, S) = SumFunctionOnSet(w, S \cap C)
  <2>1. \A g \in S : given[g] = IF g \in C THEN w[g] ELSE 0
    BY <1>2
  <2>2. QED
    BY <1>1, <2>1, SumWhere
<1>6. SumFunctionOnSet(paid, S) = IF j \in S THEN -T ELSE 0
  <2>1. SumFunctionOnSet(paid, S) = SumFunctionOnSet(minus, S \cap {j})
    <3>1. \A g \in S : paid[g] = IF g \in {j} THEN minus[g] ELSE 0
      BY <1>2
    <3>2. QED
      BY <1>1, <1>3, <3>1, SumWhere
  <2>2. CASE j \in S
    <3>1. S \cap {j} = {j} /\ {j} \ {j} = {} /\ minus[j] = -T
      BY <1>2, <2>2
    <3>2. IsFiniteSet({j}) /\ Numbers(minus, {j})
      BY <1>3, <2>2, FS_Singleton DEF Numbers
    <3>3. SumFunctionOnSet(minus, {j}) = minus[j] + SumFunctionOnSet(minus, {j} \ {j})
      BY <3>2, SumElement
    <3>4. SumFunctionOnSet(minus, {j} \ {j}) = 0
      BY <3>1, SumEmpty
    <3>5. SumFunctionOnSet(minus, {j}) = -T
      BY <3>1, <3>3, <3>4
    <3>6. QED
      BY <2>1, <2>2, <3>1, <3>5
  <2>3. CASE j \notin S
    <3>1. S \cap {j} = {}
      BY <2>3
    <3>2. QED
      BY <2>1, <2>3, <3>1, SumEmpty
  <2>4. QED
    BY <2>2, <2>3
<1>7. SumFunctionOnSet(raised, S) = SumFunctionOnSet(c, S) + SumFunctionOnSet(given, S)
  BY <1>1, <1>2, <1>3, SumPlus
<1>8. SumFunctionOnSet(c2, S) = SumFunctionOnSet(raised, S) + SumFunctionOnSet(paid, S)
  BY <1>1, <1>3, <1>4, SumPlus
<1>9. SumFunctionOnSet(c, S) \in Int /\ SumFunctionOnSet(w, S \cap C) \in Int
  BY <1>1, SumIsNumber
<1> DEFINE s == SumFunctionOnSet(c, S)
           v == SumFunctionOnSet(w, S \cap C)
<1>10. SumFunctionOnSet(c2, S) = (s + v) + (IF j \in S THEN -T ELSE 0)
  BY <1>5, <1>6, <1>7, <1>8
<1>11. s \in Int /\ v \in Int
  BY <1>9
<1> HIDE DEF s, v
<1>12. /\ j \in S => SumFunctionOnSet(c2, S) = s + v - T
       /\ j \notin S => SumFunctionOnSet(c2, S) = s + v
  BY <1>10, <1>11
<1>13. SumFunctionOnSet(c2, S) \in Int
  BY <1>11, <1>12
<1>14. QED
  BY <1>9, <1>12, <1>13 DEF s, v

\* A pick spreads the weights no further.
LEMMA RoundRobinStep ==
    ASSUME NEW D, IsFiniteSet(D), NEW c, Numbers(c, D), NEW w, Numbers(w, D),
           NEW M \in Nat, \A g \in D : 0 <= w[g] /\ w[g] <= M,
           NEW C \in SUBSET D, NEW j \in C,
           \A g \in C : c[g] + w[g] <= c[j] + w[j],
           NEW c2, Picked(D, c, w, C, j, SumFunctionOnSet(w, C), c2),
           Spread(c, D, M)
    PROVE  Spread(c2, D, M)
<1> DEFINE T == SumFunctionOnSet(w, C)
<1>1. IsFiniteSet(C) /\ Numbers(w, C) /\ T \in Int
  <2>1. IsFiniteSet(C) /\ Numbers(w, C)
    BY FS_Subset DEF Numbers
  <2>2. QED
    BY <2>1, SumIsNumber
<1>2. SUFFICES ASSUME NEW S \in SUBSET D
               PROVE  SumFunctionOnSet(c2, S)
                        <= M * (Cardinality(S) * (Cardinality(D) - Cardinality(S)))
  BY DEF Spread
<1> DEFINE A == S \cap C
           s == SumFunctionOnSet(c, S)
           wA == SumFunctionOnSet(w, A)
           s2 == SumFunctionOnSet(c2, S)
           bound == M * (Cardinality(S) * (Cardinality(D) - Cardinality(S)))
<1>3. /\ j \in S => s2 = s + wA - T
      /\ j \notin S => s2 = s + wA
      /\ s \in Int /\ wA \in Int /\ s2 \in Int
  BY <1>1, PickSums
<1>4. IsFiniteSet(S) /\ IsFiniteSet(A) /\ Cardinality(S) \in Nat /\ Cardinality(D) \in Nat
  BY FS_Subset, FS_CardinalityType
<1>5. s <= bound /\ bound \in Int
  BY <1>4 DEF Spread
<1>6. CASE j \in S
  <2>1. T = wA + SumFunctionOnSet(w, C \ A)
    BY <1>1, SumSplit
  <2>2. SumFunctionOnSet(w, C \ A) >= 0 /\ SumFunctionOnSet(w, C \ A) \in Int
    <3>1. IsFiniteSet(C \ A) /\ Numbers(w, C \ A) /\ \A g \in C \ A : w[g] >= 0
      BY <1>1, FS_Subset DEF Numbers
    <3> HIDE DEF A
    <3>2. QED
      BY <3>1, SumNotNegative, SumIsNumber
  <2> DEFINE others == SumFunctionOnSet(w, C \ A)
  <2>3. s2 = s + wA - T /\ T = wA + others /\ others >= 0 /\ others \in Int
    BY <1>3, <1>6, <2>1, <2>2
  <2> HIDE DEF s, wA, s2, bound, T, others
  <2>4. s2 <= bound
    BY <1>3, <1>5, <2>3
  <2>5. QED
    BY <2>4 DEF s2, bound
<1>7. CASE j \notin S /\ A = {}
  <2>1. wA = 0
    BY <1>7, SumEmpty
  <2> HIDE DEF s, wA, s2, bound, T
  <2>2. s2 <= bound
    BY <1>3, <1>5, <1>7, <2>1
  <2>3. QED
    BY <2>2 DEF s2, bound
<1>8. CASE j \notin S /\ A # {}
  <2> DEFINE n == Cardinality(D)
             k == Cardinality(S)
             m == Cardinality(A)
             R == S \ A
             cA == SumFunctionOnSet(c, A)
             cRest == SumFunctionOnSet(c, R)
             raised == [g \in D |-> c[g] + w[g]]
             rA == SumFunctionOnSet(raised, A)
             cj == c[j]
             wj == w[j]
  <2>1. /\ n \in Nat /\ k \in Nat /\ m \in Nat /\ m >= 1
        /\ IsFiniteSet(R) /\ Cardinality(R) = k - m
    <3>1. S \cap A = A /\ m \in Nat /\ (m = 0 <=> A = {})
      BY <1>4, FS_CardinalityType, FS_EmptySet
    <3>2. IsFiniteSet(R) /\ Cardinality(R) = k - Cardinality(S \cap A)
      <4> HIDE DEF A
      <4>1. QED
        BY <1>4, FS_Difference
    <3>3. m # 0
      BY <1>8, <3>1
    <3> HIDE DEF A, R
    <3>4. QED
      BY <1>4, <3>1, <3>2, <3>3
  <2>2. cj \in Int /\ wj \in Int /\ wj <= M
    BY DEF Numbers
  <2>3. /\ Numbers(c, S) /\ Numbers(c, A) /\ Numbers(c, R) /\ Numbers(w, A)
        /\ Numbers(raised, A) /\ R \in SUBSET D /\ A \in SUBSET D
        /\ \A g \in A : raised[g] = c[g] + w[g] /\ raised[g] <= cj + wj
    BY DEF Numbers
  <2> HIDE DEF raised
  <2>4. s = cA + cRest
    BY <1>4, <2>3, SumSplit
  <2>5. rA = cA + wA
    BY <1>4, <2>3, SumPlus
  <2>6. cA \in Int /\ cRest \in Int /\ rA \in Int
    BY <1>4, <2>1, <2>3, SumIsNumber
  <2>7. rA <= m * (cj + wj)
    <3>1. cj + wj \in Int
      BY <2>2
    <3>2. QED
      BY <1>4, <2>3, <3>1, SumAtMost
  <2>8. wA <= m * M
    <3>1. \A g \in A : w[g] <= M
      OBVIOUS
    <3>2. QED
      BY <1>4, <2>3, <3>1, SumAtMost
  <2>9. cRest <= M * ((k - m) * (n - (k - m)))
    BY <2>1, <2>3 DEF Spread
  <2>10. s + cj <= M * ((k + 1) * (n - (k + 1)))
    <3> DEFINE U == S \cup {j}
    <3>1. U \in SUBSET D /\ IsFiniteSet(U) /\ Cardinality(U) = k + 1
      BY <1>4, <1>8, FS_AddElement
    <3>2. Numbers(c, U) /\ U \ {j} = S /\ j \in U
      BY <1>8 DEF Numbers
    <3>3. SumFunctionOnSet(c, U) = cj + s
      <4>1. SumFunctionOnSet(c, U) = c[j] + SumFunctionOnSet(c, U \ {j})
        BY <3>1, <3>2, SumElement
      <4>2. QED
        BY <3>2, <4>1
    <3>4. SumFunctionOnSet(c, U) <= M * ((k + 1) * (n - (k + 1)))
      BY <3>1 DEF Spread
    <3> HIDE DEF s, cj, U
    <3>5. QED
      BY <1>3, <2>2, <3>3, <3>4
  <2> HIDE DEF A, s, wA, s2, n, k, m, R, cA, cRest, rA, cj, wj, T
  <2>11. s + wA = cRest + rA
    BY <1>3, <2>4, <2>5, <2>6
  <2>12. s + wA <= M * (k * (n - k))
    BY <1>3, <2>1, <2>2, <2>6, <2>7, <2>8, <2>9, <2>10, <2>11, RoundRobinBound
  <2>13. s2 = s + wA
    BY <1>3, <1>8
  <2>14. QED
    BY <2>12, <2>13 DEF s2, k, n
<1>9. QED
  BY <1>6, <1>7, <1>8

\* Weights as large as M
Below(M) == \A g \in DOMAIN mem : 0 <= Weight[g] /\ Weight[g] <= M

BalanceInv ==
    /\ SumFunctionOnSet(Current, DOMAIN mem) = 0
    /\ \A M \in Nat : Below(M) => Spread(Current, DOMAIN mem, M)
    /\ \A a \in Admins : admin[a].pc = "swap" =>
          \A g \in DOMAIN admin[a].table : admin[a].table[g].current = 0

\* A copy that was just loaded is balanced.
LEMMA FreshBalanced ==
    ASSUME NEW D, IsFiniteSet(D), NEW c, \A g \in D : c[g] = 0, NEW M \in Nat
    PROVE  SumFunctionOnSet(c, D) = 0 /\ Spread(c, D, M)
<1>1. SumFunctionOnSet(c, D) = 0
  BY SumZero
<1>2. ASSUME NEW S \in SUBSET D
      PROVE  SumFunctionOnSet(c, S) <= M * (Cardinality(S) * (Cardinality(D) - Cardinality(S)))
  <2> DEFINE k == Cardinality(S)
             d == Cardinality(D) - Cardinality(S)
  <2>1. IsFiniteSet(S) /\ k \in Nat /\ d \in Nat
    BY FS_Subset, FS_CardinalityType
  <2>2. SumFunctionOnSet(c, S) = 0
    BY <2>1, SumZero
  <2> HIDE DEF k, d
  <2>3. k * d >= 0 /\ k * d \in Nat
    BY <2>1
  <2>4. M * (k * d) >= 0
    BY <2>3
  <2>5. QED
    BY <2>2, <2>4 DEF k, d
<1>3. QED
  BY <1>1, <1>2 DEF Spread

LEMMA BalanceInit == RoutingInit => BalanceInv
<1> SUFFICES ASSUME RoutingInit PROVE BalanceInv
  OBVIOUS
<1>1. IsFiniteSet(DOMAIN mem)
  BY CopyNumbers, TypesInit
<1>2. \A g \in DOMAIN mem : Current[g] = 0
  BY DEF RoutingInit, Loaded, Current
<1>3. \A M \in Nat : SumFunctionOnSet(Current, DOMAIN mem) = 0 /\ Spread(Current, DOMAIN mem, M)
  BY <1>1, <1>2, FreshBalanced
<1>4. SumFunctionOnSet(Current, DOMAIN mem) = 0
  BY <1>1, <1>2, SumZero
<1>5. \A a \in Admins : admin[a].pc # "swap"
  BY DEF RoutingInit, NoReload
<1>6. QED
  BY <1>3, <1>4, <1>5 DEF BalanceInv

\* PickALeg is a pick of the round-robin.
LEMMA PickBalanced ==
    ASSUME RoutingTypes, BalanceInv, PickALeg
    PROVE  BalanceInv'
<1> DEFINE D == DOMAIN mem
<1>1. /\ IsFiniteSet(D) /\ Numbers(Current, D) /\ Numbers(Weight, D)
      /\ mem \in [D -> MemType] /\ Candidates \in SUBSET D /\ TotalWeight \in Int
  BY CopyNumbers
<1>2. Best \in Candidates /\ \A g \in Candidates : Raised(g) <= Raised(Best)
  BY BestExists, PickFacts
<1>3. /\ DOMAIN mem' = D
      /\ \A g \in D : /\ mem'[g].weight = mem[g].weight
                      /\ mem'[g].current = IF g \notin Candidates THEN mem[g].current
                           ELSE Raised(g) - (IF g = Best THEN TotalWeight ELSE 0)
  BY <1>1, PickFacts DEF MemType
<1>4. Weight' = Weight
  BY <1>3 DEF Weight
<1>5. Picked(D, Current, Weight, Candidates, Best, SumFunctionOnSet(Weight, Candidates), Current')
  <2>1. \A g \in D : Current'[g] = mem'[g].current
    BY <1>3 DEF Current
  <2>2. \A g \in D : Raised(g) = Current[g] + Weight[g] /\ Current[g] = mem[g].current
    BY DEF Raised, Current, Weight
  <2>3. ASSUME NEW g \in D
        PROVE  Current'[g] = IF g \notin Candidates THEN Current[g]
                 ELSE Current[g] + Weight[g]
                        - (IF g = Best THEN SumFunctionOnSet(Weight, Candidates) ELSE 0)
    <3>1. SumFunctionOnSet(Weight, Candidates) = TotalWeight
      BY DEF TotalWeight
    <3>2. CASE g \notin Candidates
      BY <1>3, <2>1, <2>2, <3>2
    <3>3. CASE g \in Candidates
      <4>1. Current'[g] = Raised(g) - (IF g = Best THEN TotalWeight ELSE 0)
        BY <1>3, <2>1, <3>3
      <4>2. Raised(g) = Current[g] + Weight[g]
        BY <2>2
      <4> DEFINE T == SumFunctionOnSet(Weight, Candidates)
                 r == Raised(g)
      <4>3. /\ Current'[g] = IF g = Best THEN r - T ELSE r - 0
            /\ Current[g] \in Int /\ Weight[g] \in Int /\ T \in Int
        BY <1>1, <3>1, <4>1 DEF Numbers
      <4>4. r = Current[g] + Weight[g]
        BY <4>2
      <4> HIDE DEF T, r
      <4>5. Current'[g] = IF g = Best THEN Current[g] + Weight[g] - T
                          ELSE Current[g] + Weight[g] - 0
        BY <4>3, <4>4
      <4>6. QED
        BY <3>3, <4>5 DEF T
    <3>4. QED
      BY <3>2, <3>3
  <2>4. QED
    BY <2>3 DEF Picked
<1>6. \A g \in Candidates : Current[g] + Weight[g] <= Current[Best] + Weight[Best]
  BY <1>1, <1>2 DEF Raised, Current, Weight
<1>7. SumFunctionOnSet(Current', D) = 0
  <2>1. /\ SumFunctionOnSet(Current', D) = SumFunctionOnSet(Current, D)
             + SumFunctionOnSet(Weight, D \cap Candidates) - TotalWeight
        /\ SumFunctionOnSet(Weight, D \cap Candidates) \in Int
    <3>1. D \in SUBSET D /\ Best \in D
      BY <1>1, <1>2
    <3>2. TotalWeight = SumFunctionOnSet(Weight, Candidates)
      BY DEF TotalWeight
    <3>3. QED
      BY <1>1, <1>2, <1>5, <3>1, <3>2, PickSums
  <2>2. D \cap Candidates = Candidates
    BY <1>1
  <2>3. SumFunctionOnSet(Weight, D \cap Candidates) = TotalWeight
    BY <2>2 DEF TotalWeight
  <2>4. SumFunctionOnSet(Current, D) = 0
    BY DEF BalanceInv
  <2>5. QED
    BY <1>1, <2>1, <2>3, <2>4
<1>8. ASSUME NEW M \in Nat, Below(M)'
      PROVE  Spread(Current', D, M)
  <2>1. \A g \in D : 0 <= Weight[g] /\ Weight[g] <= M
    BY <1>3, <1>4, <1>8 DEF Below
  <2>2. Spread(Current, D, M)
    BY <2>1 DEF BalanceInv, Below
  <2>3. QED
    BY <1>1, <1>2, <1>5, <1>6, <2>1, <2>2, RoundRobinStep
<1>9. QED
  BY <1>3, <1>7, <1>8, PickFacts DEF BalanceInv

\* A step that leaves the copy's weights, and the tables read, alone.
LEMMA BalanceKept ==
    ASSUME BalanceInv, DOMAIN mem' = DOMAIN mem,
           \A g \in DOMAIN mem : /\ mem'[g].weight = mem[g].weight
                                 /\ mem'[g].current = mem[g].current,
           \A a \in Admins : admin'[a].pc = "swap" =>
              \A g \in DOMAIN admin'[a].table : admin'[a].table[g].current = 0
    PROVE  BalanceInv'
<1>1. Current' = Current /\ Weight' = Weight
  BY DEF Current, Weight
<1>2. QED
  BY <1>1 DEF BalanceInv, Below

LEMMA BalanceStep ==
    ASSUME RoutingTypes, BalanceInv, [RoutingNext]_routingVars
    PROVE  BalanceInv'
<1> DEFINE Fresh == \A a \in Admins : admin'[a].pc = "swap" =>
                       \A g \in DOMAIN admin'[a].table : admin'[a].table[g].current = 0
<1>1. UNCHANGED admin => Fresh
  BY DEF BalanceInv
<1>2. CASE PickALeg
  BY <1>2, PickBalanced
<1>3. ASSUME NEW a \in Admins, AdminStep(a)
      PROVE  BalanceInv'
  <2>1. admin \in [Admins -> {NoReload} \cup ReloadUnderWay]
    BY DEF RoutingTypes
  <2>2. CASE Reloads(a) /\ UNCHANGED mem
    <3>1. Fresh
      BY <2>1, <2>2 DEF Reloads, BalanceInv
    <3>2. QED
      BY <2>2, <3>1, BalanceKept
  <2>3. CASE ReloadQuery(a)
    <3>1. Fresh
      BY <2>1, <2>3 DEF ReloadQuery, NoReload, Loaded, BalanceInv
    <3>2. QED
      BY <2>3, <3>1, BalanceKept DEF ReloadQuery
  <2>4. CASE ReloadSwap(a)
    <3>1. Fresh
      BY <2>1, <2>4 DEF ReloadSwap, NoReload, BalanceInv
    <3>2. \A g \in DOMAIN mem' : Current'[g] = 0
      BY <2>4 DEF ReloadSwap, BalanceInv, Current
    <3>3. IsFiniteSet(DOMAIN mem')
      <4>1. RoutingTypes'
        BY RoutingTypesStep
      <4>2. PICK E \in SUBSET GatewayIds : mem' \in [E -> MemType]
        BY <4>1, TableOf DEF RoutingTypes
      <4>3. QED
        BY <4>2, RoutingAssumption, FS_Subset
    <3>4. /\ SumFunctionOnSet(Current', DOMAIN mem') = 0
          /\ \A M \in Nat : Spread(Current', DOMAIN mem', M)
      BY <3>2, <3>3, FreshBalanced
    <3>5. QED
      BY <3>1, <3>4 DEF BalanceInv
  <2>5. QED
    BY <1>3, <2>2, <2>3, <2>4 DEF AdminStep, CreateGateway, UpdateGateway, ToggleGateway
<1>4. ASSUME NEW k \in Checkers, PatchMemory(k)
      PROVE  BalanceInv'
  <2>1. mem \in [DOMAIN mem -> MemType]
    BY CopyNumbers
  <2>2. /\ DOMAIN mem' = DOMAIN mem
        /\ \A g \in DOMAIN mem : /\ mem'[g].weight = mem[g].weight
                                 /\ mem'[g].current = mem[g].current
    BY <1>4, <2>1 DEF PatchMemory, MemType
  <2>3. QED
    BY <1>1, <1>4, <2>2, BalanceKept DEF PatchMemory
<1>5. CASE UNCHANGED <<mem, admin>>
  BY <1>1, <1>5, BalanceKept
<1>6. QED
  BY <1>2, <1>3, <1>4, <1>5
     DEF RoutingNext, PickRefused, RunHealthCheck, ManualHealthCheck, CheckStep, Probe,
         WriteHealth, Flip, routingVars

LEMMA HeaviestExists ==
    ASSUME NEW D, IsFiniteSet(D), D # {}, NEW w, Numbers(w, D)
    PROVE  \E h \in D : \A g \in D : w[g] <= w[h]
<1> DEFINE Reached == {T \in SUBSET D : T # {} => \E h \in T : \A g \in T : w[g] <= w[h]}
<1>1. ASSUME NEW T \in SUBSET D, \A g \in T : T \ {g} \in Reached
      PROVE  T \in Reached
  <2>1. SUFFICES ASSUME T # {} PROVE \E h \in T : \A g \in T : w[g] <= w[h]
    OBVIOUS
  <2>2. PICK x \in T : TRUE
    BY <2>1
  <2>3. CASE T \ {x} = {}
    BY <2>2, <2>3 DEF Numbers
  <2>4. CASE T \ {x} # {}
    <3>1. PICK y \in T \ {x} : \A g \in T \ {x} : w[g] <= w[y]
      BY <1>1, <2>2, <2>4
    <3>2. w[x] \in Int /\ w[y] \in Int /\ \A g \in T : w[g] \in Int
      BY <2>2, <3>1 DEF Numbers
    <3>3. CASE w[x] <= w[y]
      BY <3>1, <3>2, <3>3
    <3>4. CASE w[y] <= w[x]
      BY <3>1, <3>2, <3>4
    <3>5. QED
      BY <3>2, <3>3, <3>4
  <2>5. QED
    BY <2>3, <2>4
<1> HIDE DEF Reached
<1>2. \A T \in SUBSET D : T \in Reached
  BY <1>1, SubsetsReached
<1>3. QED
  BY <1>2 DEF Reached

\* The invariant bounds every weight of the copy.
LEMMA BalanceSuffices == RoutingTypes /\ BalanceInv => CurrentWeightsBalanced
<1> SUFFICES ASSUME RoutingTypes, BalanceInv PROVE CurrentWeightsBalanced
  OBVIOUS
<1> DEFINE D == DOMAIN mem
           n == Cardinality(D)
<1>1. IsFiniteSet(D) /\ Numbers(Current, D) /\ Numbers(Weight, D) /\ n \in Nat
  BY CopyNumbers, FS_CardinalityType
<1>2. SumFunctionOnSet(Current, D) = 0
  BY DEF BalanceInv
<1>3. SumFunction(Current) = 0
  BY <1>2 DEF SumFunction, FoldFunction, SumFunctionOnSet, Current
<1>4. ASSUME \A g \in D : Weight[g] >= 0, NEW g \in D
      PROVE  \E h \in D : Current[g] \in -((n - 1) * Weight[h])..((n - 1) * Weight[h])
  <2>1. PICK h \in D : \A x \in D : Weight[x] <= Weight[h]
    BY <1>1, <1>4, HeaviestExists
  <2> DEFINE M == Weight[h]
             b == (n - 1) * M
  <2>2. M \in Nat
    BY <1>1, <1>4 DEF Numbers
  <2>3. Below(M)
    BY <1>1, <1>4, <2>1, <2>2 DEF Below, Numbers
  <2>4. Spread(Current, D, M)
    BY <2>2, <2>3 DEF BalanceInv
  <2>5. Current[g] \in Int /\ b \in Int
    BY <1>1, <1>4, <2>2 DEF Numbers
  <2>6. Current[g] <= b
    <3>1. SumFunctionOnSet(Current, {g}) = Current[g]
      <4>1. SumFunctionOnSet(Current, {g}) = Current[g] + SumFunctionOnSet(Current, {g} \ {g})
        BY <1>1, <1>4, FS_Singleton, SumElement DEF Numbers
      <4>2. {g} \ {g} = {}
        OBVIOUS
      <4>3. SumFunctionOnSet(Current, {g} \ {g}) = 0
        BY <4>2, SumEmpty
      <4>4. QED
        BY <2>5, <4>1, <4>3
    <3>2. Cardinality({g}) = 1
      BY FS_Singleton
    <3>3. SumFunctionOnSet(Current, {g}) <= M * (1 * (n - 1))
      BY <1>4, <2>4, <3>2 DEF Spread
    <3>4. M * (1 * (n - 1)) = b
      BY <1>1, <2>2
    <3>5. QED
      BY <3>1, <3>3, <3>4
  <2>7. -b <= Current[g]
    <3> DEFINE R == D \ {g}
    <3>1. 0 = Current[g] + SumFunctionOnSet(Current, R)
      BY <1>1, <1>2, <1>4, SumElement
    <3>2. IsFiniteSet(R) /\ Numbers(Current, R)
      BY <1>1, FS_Subset DEF Numbers
    <3>3. SumFunctionOnSet(Current, R) \in Int
      BY <3>2, SumIsNumber
    <3>4. Cardinality(R) = n - 1
      BY <1>1, <1>4, FS_RemoveElement
    <3>5. SumFunctionOnSet(Current, R) <= M * ((n - 1) * (n - (n - 1)))
      BY <2>4, <3>4 DEF Spread
    <3>6. M * ((n - 1) * (n - (n - 1))) = b
      BY <1>1, <2>2
    <3> HIDE DEF R, b, M
    <3>7. SumFunctionOnSet(Current, R) <= b
      BY <3>5, <3>6 DEF M
    <3>8. QED
      BY <2>5, <3>1, <3>3, <3>7
  <2> HIDE DEF b
  <2>8. Current[g] \in -b..b
    BY <2>5, <2>6, <2>7
  <2>9. QED
    BY <2>8 DEF b
<1>5. QED
  BY <1>3, <1>4 DEF CurrentWeightsBalanced

\* The round-robin is fair for every set of gateways, every weight and every
\* schedule of picks, health checks, toggles and reloads: what the picks gave
\* and took adds up to nothing, and no gateway is ahead or behind by more than
\* the greatest weight times the number of the others.
THEOREM CurrentWeightsBalancedHolds == RoutingSpec => []CurrentWeightsBalanced
<1>1. RoutingInit => RoutingTypes /\ BalanceInv
  BY TypesInit, BalanceInit
<1>2. RoutingTypes /\ BalanceInv /\ [RoutingNext]_routingVars => RoutingTypes' /\ BalanceInv'
  BY RoutingTypesStep, BalanceStep
<1>3. RoutingTypes /\ BalanceInv => CurrentWeightsBalanced
  BY BalanceSuffices
<1>4. QED
  BY <1>1, <1>2, <1>3, PTL DEF RoutingSpec

================================================================================
