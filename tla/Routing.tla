-------------------------------- MODULE Routing --------------------------------
(***************************************************************************)
(* The A-leg side of the routing service: the gateways table, the copy of  *)
(* it that PickALeg's smooth weighted round-robin works on, the admin      *)
(* endpoints that change the table and then reload the copy, and the       *)
(* health checks, which write the table and then patch the copy.  A reload *)
(* is a query and, later, a swap under the mutex; a health check is a      *)
(* query, a probe, an UPDATE and a patch.  Nothing orders one operation's  *)
(* steps with another's.                                                   *)
(***************************************************************************)
EXTENDS Integers, Sequences, FiniteSets, Functions

CONSTANTS
    GatewayIds,         \* ids the table may come to hold
    InitialWeights,     \* the gateways at start-up and their weights
    Weights,            \* weights an admin may ask for
    MaxHealthFailures,  \* max_health_failures
    FailureCap,         \* bound of the model on health_check_failures
    DriftCap,           \* bound of the model on current weights, where negative
                        \* weights make them drift
    Unsteady,           \* gateways whose network may fail
    Admins,             \* concurrent requests of admins
    Budget              \* how often each kind of fault or admin step may happen

RoutingKinds == {"admin", "link", "db"}

ASSUME RoutingAssumption ==
    /\ GatewayIds \subseteq Nat /\ IsFiniteSet(GatewayIds)
    /\ DOMAIN InitialWeights \subseteq GatewayIds
    /\ \A g \in DOMAIN InitialWeights : InitialWeights[g] \in Nat \ {0}
    /\ Weights \subseteq Int
    /\ MaxHealthFailures \in Nat /\ FailureCap \in Nat
    /\ FailureCap >= MaxHealthFailures
    /\ DriftCap \in Nat
    /\ Unsteady \subseteq GatewayIds
    /\ Budget \in [RoutingKinds -> Nat]

VARIABLES
    row,    \* the table's A-leg gateways
    mem,    \* aLegGateways, the copy PickALeg uses
    up,     \* gateways that answer a TCP connection
    check,  \* the health checks under way: the cron job's and an admin's
    admin,  \* per admin: the reload it has under way
    last,   \* the gateway picked last, 0 before the first pick
    left    \* what is left of Budget

routingVars == <<row, mem, up, check, admin, last, left>>

Row(w) == [weight |-> w, healthy |-> TRUE, enabled |-> TRUE, failures |-> 0]
RowType == [weight : Int, healthy : BOOLEAN, enabled : BOOLEAN, failures : 0..FailureCap]

\* What loadALegGateways makes of the rows: current weights start again at 0.
Loaded(table) ==
    [g \in DOMAIN table |->
        [weight |-> table[g].weight, current |-> 0,
         healthy |-> table[g].healthy, enabled |-> table[g].enabled]]

Checkers == {"cron", "manual"}
NoCheck == [pc |-> "idle"]
NoReload == [pc |-> "idle"]

IsTable(t, type) == DOMAIN t \subseteq GatewayIds /\ \A g \in DOMAIN t : t[g] \in type

MemType == [weight : Int, current : Int, healthy : BOOLEAN, enabled : BOOLEAN]

IsCheck(k) ==
    \/ k = NoCheck
    \/ /\ k.pc \in {"probe", "write", "patch"}
       /\ k.rows \in Seq([id : GatewayIds, failures : 0..FailureCap]) /\ k.rows # <<>>
       /\ k.verdict \in [healthy : BOOLEAN, failures : 0..FailureCap]

RoutingTypeOK ==
    /\ IsTable(row, RowType)
    /\ IsTable(mem, MemType)
    /\ up \subseteq GatewayIds
    /\ \A k \in Checkers : IsCheck(check[k])
    /\ \A a \in Admins : admin[a].pc \in {"idle", "query", "swap"}
    /\ last \in GatewayIds \cup {0}
    /\ left \in [RoutingKinds -> Nat]

\* initService loads the gateways before the service answers requests.
RoutingInit ==
    /\ row = [g \in DOMAIN InitialWeights |-> Row(InitialWeights[g])]
    /\ mem = Loaded(row)
    /\ up = GatewayIds
    /\ check = [k \in Checkers |-> NoCheck]
    /\ admin = [a \in Admins |-> NoReload]
    /\ last = 0
    /\ left = Budget

Spend(kind) ==
    /\ left[kind] > 0
    /\ left' = [left EXCEPT ![kind] = @ - 1]

--------------------------------------------------------------------------------
(* PickALeg *)

Candidates == {g \in DOMAIN mem : mem[g].healthy /\ mem[g].enabled}
Weight == [g \in DOMAIN mem |-> mem[g].weight]
Current == [g \in DOMAIN mem |-> mem[g].current]
TotalWeight == SumFunctionOnSet(Weight, Candidates)
Raised(g) == mem[g].current + mem[g].weight

\* The first, in the order of the ids, of those with the greatest weight
Best ==
    CHOOSE g \in Candidates : \A h \in Candidates :
        Raised(g) > Raised(h) \/ (Raised(g) = Raised(h) /\ g <= h)

\* The current weights after a pick whose winner pays the given price.
Paying(price) ==
    [g \in DOMAIN mem |->
        IF g \notin Candidates THEN mem[g].current
        ELSE Raised(g) - (IF g = Best THEN price ELSE 0)]

Unsigned == \A g \in Candidates : mem[g].weight >= 0
Bounded(currents) == \A g \in DOMAIN mem : currents[g] \in -DriftCap..DriftCap

PickPaying(price) ==
    /\ Candidates # {}
    /\ Unsigned \/ Bounded(Paying(price))
    /\ mem' = [g \in DOMAIN mem |-> [mem[g] EXCEPT !.current = Paying(price)[g]]]
    /\ last' = Best
    /\ UNCHANGED <<row, up, check, admin, left>>

\* Mutant: the winner pays its own weight, not the total.
PickALegOwnWeight == PickPaying(Weight[Best])

\* Mutant: the current weights are worked out and not kept.
PickALegForgets ==
    /\ Candidates # {}
    /\ last' = Best
    /\ UNCHANGED <<row, mem, up, check, admin, left>>

PickALeg == PickPaying(TotalWeight)

\* With no candidate the request is refused and nothing changes.
PickRefused ==
    /\ Candidates = {}
    /\ UNCHANGED routingVars

--------------------------------------------------------------------------------
(* The admin endpoints: one statement on the table, then a reload *)

Reloads(a) == admin' = [admin EXCEPT ![a] = [pc |-> "query"]]

CreateGateway(a, g, w) ==
    /\ admin[a].pc = "idle"
    /\ g \notin DOMAIN row
    /\ Spend("admin")
    /\ row' = [h \in DOMAIN row \cup {g} |->
                 IF h = g THEN Row(IF w < 1 THEN 1 ELSE w) ELSE row[h]]
    /\ Reloads(a)
    /\ UNCHANGED <<mem, up, check, last>>

\* UpdateGateway takes the weight as it comes: 0 or negative, if that is what
\* the admin sends.
UpdateGateway(a, g, w) ==
    /\ admin[a].pc = "idle"
    /\ Spend("admin")
    /\ row' = [row EXCEPT ![g].weight = w]
    /\ Reloads(a)
    /\ UNCHANGED <<mem, up, check, last>>

\* Mutant: the copy is left for the next reload.
ToggleGatewayNoReload(a, g, enabled) ==
    /\ admin[a].pc = "idle"
    /\ Spend("admin")
    /\ row' = [row EXCEPT ![g].enabled = enabled]
    /\ UNCHANGED <<mem, up, check, admin, last>>

\* The value is the request's, whatever the row says.
ToggleGateway(a, g, enabled) ==
    /\ admin[a].pc = "idle"
    /\ Spend("admin")
    /\ row' = [row EXCEPT ![g].enabled = enabled]
    /\ Reloads(a)
    /\ UNCHANGED <<mem, up, check, last>>

\* loadALegGateways, the query; an error leaves the copy as it was.
ReloadQuery(a) ==
    /\ admin[a].pc = "query"
    /\ \/ /\ admin' = [admin EXCEPT ![a] = [pc |-> "swap", table |-> Loaded(row)]]
          /\ UNCHANGED left
       \/ /\ Spend("db")
          /\ admin' = [admin EXCEPT ![a] = NoReload]
    /\ UNCHANGED <<row, mem, up, check, last>>

ReloadSwap(a) ==
    /\ admin[a].pc = "swap"
    /\ mem' = admin[a].table
    /\ admin' = [admin EXCEPT ![a] = NoReload]
    /\ UNCHANGED <<row, up, check, last, left>>

--------------------------------------------------------------------------------
(* RunHealthCheck and ManualHealthCheck *)

NoVerdict == [healthy |-> TRUE, failures |-> 0]

Probing(ids) ==
    [pc |-> "probe",
     rows |-> [i \in DOMAIN ids |-> [id |-> ids[i], failures |-> row[ids[i]].failures]],
     verdict |-> NoVerdict]

Enabled == {g \in DOMAIN row : row[g].enabled}

\* ORDER BY id
InOrder(ids) ==
    {s \in [1..Cardinality(ids) -> ids] : \A i, j \in DOMAIN s : i < j => s[i] < s[j]}

RunHealthCheck ==
    /\ check["cron"] = NoCheck
    /\ Enabled # {}
    /\ \E ids \in InOrder(Enabled) : check' = [check EXCEPT !["cron"] = Probing(ids)]
    /\ UNCHANGED <<row, mem, up, admin, last, left>>

ManualHealthCheck(g) ==
    /\ check["manual"] = NoCheck
    /\ Spend("admin")
    /\ check' = [check EXCEPT !["manual"] = Probing(<<g>>)]
    /\ UNCHANGED <<row, mem, up, admin, last>>

Minimum(a, b) == IF a < b THEN a ELSE b

\* Mutant: a failed probe is counted, and never held against the gateway.
VerdictLenient(reachable, failures) ==
    [healthy |-> TRUE,
     failures |-> IF reachable THEN 0 ELSE Minimum(failures + 1, FailureCap)]

Verdict(reachable, failures) ==
    IF reachable
    THEN [healthy |-> TRUE, failures |-> 0]
    ELSE [healthy |-> failures + 1 < MaxHealthFailures,
          failures |-> Minimum(failures + 1, FailureCap)]

Checked(k) == Head(check[k].rows).id

\* Mutant: the loop goes on after the last gateway.
NextCheckEndless(k) == check' = [check EXCEPT ![k].pc = "probe", ![k].rows = Tail(@)]

NextCheck(k) ==
    check' = [check EXCEPT ![k] = IF Tail(@.rows) = <<>> THEN NoCheck
                                  ELSE [pc |-> "probe", rows |-> Tail(@.rows), verdict |-> NoVerdict]]

\* checkTCP and the verdict, from the count read when the check began
Probe(k) ==
    LET gw == Head(check[k].rows) IN
    /\ check[k].pc = "probe"
    /\ check' = [check EXCEPT ![k].pc = "write",
                              ![k].verdict = Verdict(gw.id \in up, gw.failures)]
    /\ UNCHANGED <<row, mem, up, admin, last, left>>

\* The UPDATE; after an error the copy is not patched.
WriteHealth(k) ==
    /\ check[k].pc = "write"
    /\ \/ /\ row' = [row EXCEPT ![Checked(k)].healthy = check[k].verdict.healthy,
                                ![Checked(k)].failures = check[k].verdict.failures]
          /\ check' = [check EXCEPT ![k].pc = "patch"]
          /\ UNCHANGED left
       \/ /\ Spend("db")
          /\ NextCheck(k)
          /\ UNCHANGED row
    /\ UNCHANGED <<mem, up, admin, last>>

\* The copy, if it holds the gateway, takes over the verdict.
PatchMemory(k) ==
    /\ check[k].pc = "patch"
    /\ mem' = [g \in DOMAIN mem |->
                 IF g = Checked(k) THEN [mem[g] EXCEPT !.healthy = check[k].verdict.healthy]
                 ELSE mem[g]]
    /\ NextCheck(k)
    /\ UNCHANGED <<row, up, admin, last, left>>

CheckStep(k) == Probe(k) \/ WriteHealth(k) \/ PatchMemory(k)

--------------------------------------------------------------------------------
\* A gateway goes down or comes back.
Flip(g) ==
    /\ Spend("link")
    /\ up' = IF g \in up THEN up \ {g} ELSE up \cup {g}
    /\ UNCHANGED <<row, mem, check, admin, last>>

AdminStep(a) ==
    \/ \E g \in GatewayIds, w \in Weights : CreateGateway(a, g, w)
    \/ \E g \in DOMAIN row, w \in Weights : UpdateGateway(a, g, w)
    \/ \E g \in DOMAIN row, enabled \in BOOLEAN : ToggleGateway(a, g, enabled)
    \/ ReloadQuery(a)
    \/ ReloadSwap(a)

RoutingNext ==
    \/ PickALeg
    \/ PickRefused
    \/ \E a \in Admins : AdminStep(a)
    \/ RunHealthCheck
    \/ \E g \in DOMAIN row : ManualHealthCheck(g)
    \/ \E k \in Checkers : CheckStep(k)
    \/ \E g \in Unsteady : Flip(g)

RoutingSpec == RoutingInit /\ [][RoutingNext]_routingVars

\* Encore fires the cron job every minute, and requests run to their end: the
\* probe has a timeout.  That calls keep coming is the premise under which
\* starvation is a question at all.
RoutingFairness ==
    /\ WF_routingVars(RunHealthCheck)
    /\ \A k \in Checkers : WF_routingVars(CheckStep(k))
    /\ \A a \in Admins : WF_routingVars(ReloadQuery(a) \/ ReloadSwap(a))
    /\ WF_routingVars(PickALeg)

FairRoutingSpec == RoutingSpec /\ RoutingFairness

--------------------------------------------------------------------------------
(* Properties *)

\* PickALeg takes from the winner what it gave to all.  So the current weights
\* of the copy add up to nothing, whatever gateways come and go between picks,
\* and no gateway runs up a debt or a credit beyond the greatest weight times
\* the number of other gateways, however its health changes, as long as no
\* admin makes a weight negative.
CurrentWeightsBalanced ==
    /\ SumFunction(Current) = 0
    /\ (\A g \in DOMAIN mem : Weight[g] >= 0) =>
          \A g \in DOMAIN mem : \E h \in DOMAIN mem :
              LET most == (Cardinality(DOMAIN mem) - 1) * Weight[h]
              IN  Current[g] \in -most..most

\* Once a reload has ended the copy has the table's gateways, weights and
\* switches, whatever health checks ran in between, as long as no query
\* failed and admins work one at a time (two reloads that overlap may be
\* swapped in against the order of their queries).
ReloadSettles ==
    (\A a \in Admins : admin[a] = NoReload) /\ left["db"] = Budget["db"] =>
        /\ DOMAIN mem = DOMAIN row
        /\ \A g \in DOMAIN mem : mem[g].weight = row[g].weight /\ mem[g].enabled = row[g].enabled

\* An enabled gateway that stays unreachable is in the end not picked any
\* more ("跳过不健康网关"), though reloads and manual checks may put a stale
\* "healthy" back into the copy on the way.
UnreachableLeaves ==
    \A g \in GatewayIds :
        <>[](g \in Enabled /\ g \notin up) => <>[](g \notin Candidates)

\* An enabled gateway that answers again is in the end a candidate again, as
\* long as no reload failed.
ReachableReturns ==
    \A g \in GatewayIds :
        <>[](g \in Enabled /\ g \in up) =>
            <>[](g \in Candidates \/ left["db"] < Budget["db"])

\* In the end the candidates of PickALeg are the enabled gateways that answer.
CandidatesFollowNetwork == UnreachableLeaves /\ ReachableReturns

\* Smooth weighted round-robin starves nobody while weights are weights: a
\* gateway of positive weight that stays a candidate is picked again and
\* again, as long as no candidate's weight is negative.  Nothing in the code
\* makes sure of that: CreateGateway raises a weight below 1 to 1, but
\* UpdateGateway stores any integer and the table has no CHECK.  Among the
\* weights 2, 1 and -3, which add up to 0, the winner pays nothing, and the
\* gateway of weight 1 is never picked.
NoStarvation ==
    \A g \in GatewayIds :
        <>[](g \in Candidates /\ mem[g].weight > 0 /\ Unsigned) => []<>(last = g)
================================================================================
