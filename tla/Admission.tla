------------------------------- MODULE Admission -------------------------------
(***************************************************************************)
(* InitiateCallback, from the moment its gates let a request through to    *)
(* the moment the call is launched or rejected, and what finalizeCall does *)
(* to the account and to the concurrency counter when the call ends.       *)
(*                                                                         *)
(* Every call runs in its own goroutine, so the steps of different calls   *)
(* interleave.  The life of a launched call is one phase here, "running";  *)
(* module Callback refines it.                                             *)
(***************************************************************************)
EXTENDS Billing, FiniteSets

CONSTANTS
    Durations,   \* leg durations in seconds a finished call may show
    Budget       \* how often each kind of fault or admin step may happen

FaultKinds == {"client", "evict", "redis", "db", "crash", "topup", "deduct"}

ASSUME AdmissionAssumption ==
    /\ IsFiniteSet(Calls)
    /\ Durations \subseteq Nat /\ 0 \in Durations
    /\ Budget \in [FaultKinds -> Nat]

VARIABLES
    phase,  \* where the call's request (then its finalizeCall) stands
    gone,   \* the client closed the request: its context is cancelled
    left    \* what is left of Budget

admissionVars == <<balance, funded, txs, slots, phase, gone, left>>

Phases ==
    {"idle", "acquire", "rollback", "route", "release", "floor", "refund",
     "rejected", "running", "unslot", "unfloor", "settled", "lost"}

Terminal == {"rejected", "settled", "lost"}

\* Phases of the HTTP handler, whose context dies with the client.
InRequest == {"acquire", "rollback", "route", "release", "floor", "refund"}

AdmissionTypeOK ==
    /\ BillingTypeOK
    /\ phase \in [Calls -> Phases]
    /\ gone \in [Calls -> BOOLEAN]
    /\ left \in [FaultKinds -> Nat]

AdmissionInit ==
    /\ BillingInit
    /\ phase = [c \in Calls |-> "idle"]
    /\ gone = [c \in Calls |-> FALSE]
    /\ left = Budget

Goto(c, p) == phase' = [phase EXCEPT ![c] = p]

Spend(kind) ==
    /\ left[kind] > 0
    /\ left' = [left EXCEPT ![kind] = @ - 1]

\* A statement run with the request's context fails because the client is
\* gone, or because the store it goes to does.
RequestFails(c, store) ==
    \/ gone[c] /\ UNCHANGED left
    \/ ~gone[c] /\ Spend(store)

--------------------------------------------------------------------------------
(* InitiateCallback *)

\* Validation, blacklist, account, daily limit and rate lookups take neither
\* money nor a slot, so a refusal leaves none of these behind.  It does leave
\* behind a count of the day: CheckDailyLimit increments the user's counter of
\* the day before it compares, and neither it nor a gate that refuses later
\* takes the increment back.  That counter is not modelled.
Refuse(c) ==
    /\ phase[c] = "idle"
    /\ Goto(c, "rejected")
    /\ UNCHANGED <<balance, funded, txs, slots, gone, left>>

PreDeduct(c) ==
    /\ phase[c] = "idle"
    /\ PreDeductTx(c)
    /\ Goto(c, "acquire")
    /\ UNCHANGED <<gone, left>>

\* Mutant: the limit is compared with the counter as it was before.
AcquireSlotStale(c) ==
    LET u == UserOf[c] IN
    /\ phase[c] = "acquire"
    /\ ~gone[c]
    /\ SlotIncrement(u, 1)
    /\ Goto(c, IF slots[u] > MaxConcurrent[u] THEN "rollback" ELSE "route")
    /\ UNCHANGED <<gone, left>>

\* AcquireSlot, the increment and the comparison with the limit
AcquireSlot(c) ==
    LET u == UserOf[c] IN
    /\ phase[c] = "acquire"
    /\ ~gone[c]
    /\ SlotIncrement(u, 1)
    /\ Goto(c, IF slots[u] + 1 > MaxConcurrent[u] THEN "rollback" ELSE "route")
    /\ UNCHANGED <<gone, left>>

\* Mutant: the error path gives back a slot it never got.
AcquireSlotFailsReleases(c) ==
    /\ phase[c] = "acquire"
    /\ RequestFails(c, "redis")
    /\ Goto(c, "release")
    /\ UNCHANGED <<balance, funded, txs, slots, gone>>

\* The increment reports an error; Redis may have applied it all the same.
AcquireSlotFails(c) ==
    /\ phase[c] = "acquire"
    /\ \/ /\ RequestFails(c, "redis")
          /\ UNCHANGED slots
       \/ /\ ~gone[c] /\ Spend("redis")
          /\ slots' = [slots EXCEPT ![UserOf[c]] = @ + 1]
    /\ Goto(c, "refund")
    /\ UNCHANGED <<balance, funded, txs, gone>>

\* Mutant: over the limit, the increment stays.
RollbackSlotForgotten(c) ==
    /\ phase[c] = "rollback"
    /\ Goto(c, "refund")
    /\ UNCHANGED <<balance, funded, txs, slots, gone, left>>

\* AcquireSlot, over the limit: take the increment back
RollbackSlot(c) ==
    /\ phase[c] = "rollback"
    /\ \/ ~gone[c] /\ SlotIncrement(UserOf[c], -1) /\ UNCHANGED left
       \/ RequestFails(c, "redis") /\ UNCHANGED billingVars
    /\ Goto(c, "refund")
    /\ UNCHANGED gone

\* PickALeg, PickBLeg, SelectDID and insertCall succeed; the state machine
\* starts under a context of its own.
Launch(c) ==
    /\ phase[c] = "route"
    /\ ~gone[c]
    /\ Goto(c, "running")
    /\ UNCHANGED <<balance, funded, txs, slots, gone, left>>

\* Mutant: the request is answered without release and refund.
RouteFailsAtOnce(c) ==
    /\ phase[c] = "route"
    /\ Goto(c, "rejected")
    /\ UNCHANGED <<balance, funded, txs, slots, gone, left>>

\* No gateway, or the row cannot be inserted.
RouteFails(c) ==
    /\ phase[c] = "route"
    /\ Goto(c, "release")
    /\ UNCHANGED <<balance, funded, txs, slots, gone, left>>

\* ReleaseSlot, the decrement.  Its error is swallowed.
ReleaseSlot(c) ==
    LET u == UserOf[c] IN
    /\ phase[c] = "release"
    /\ \/ /\ ~gone[c]
          /\ SlotIncrement(u, -1)
          /\ Goto(c, IF slots[u] - 1 < 0 THEN "floor" ELSE "refund")
          /\ UNCHANGED left
       \/ /\ RequestFails(c, "redis")
          /\ Goto(c, "refund")
          /\ UNCHANGED billingVars
    /\ UNCHANGED gone

\* ReleaseSlot, the floor at zero
FloorSlot(c) ==
    /\ phase[c] = "floor"
    /\ \/ ~gone[c] /\ SlotFloor(UserOf[c]) /\ UNCHANGED left
       \/ RequestFails(c, "redis") /\ UNCHANGED billingVars
    /\ Goto(c, "refund")
    /\ UNCHANGED gone

\* Mutant: the refund is repeated after an error that hid a commit.
RefundRepeated(c) ==
    /\ phase[c] = "refund"
    /\ FinalizeTx(c, 0)
    /\ \/ Goto(c, "rejected") /\ UNCHANGED left
       \/ Spend("db") /\ UNCHANGED phase
    /\ UNCHANGED gone

\* Finalize with no usage; its error is discarded.
Refund(c) ==
    /\ phase[c] = "refund"
    /\ \/ ~gone[c] /\ FinalizeTx(c, 0) /\ UNCHANGED left
       \/ RequestFails(c, "db") /\ UNCHANGED billingVars
    /\ Goto(c, "rejected")
    /\ UNCHANGED gone

--------------------------------------------------------------------------------
(* finalizeCall, under the background context *)

CallCost(aDur, bDur) == ActualCost(aDur, bDur, ARate, BRate)

Settle(c, aDur, bDur) ==
    /\ phase[c] = "running"
    /\ FinalizeTx(c, CallCost(aDur, bDur))
    /\ Goto(c, "unslot")
    /\ UNCHANGED <<gone, left>>

\* Mutant: an error that hid a commit is answered with a second try.
SettleRepeated(c) ==
    /\ phase[c] = "running"
    /\ Spend("db")
    /\ FinalizeTx(c, 0)
    /\ UNCHANGED <<phase, gone>>

\* billing.Finalize fails: logged, and finalizeCall goes on.
SettleFails(c) ==
    /\ phase[c] = "running"
    /\ Spend("db")
    /\ Goto(c, "unslot")
    /\ UNCHANGED <<balance, funded, txs, slots, gone>>

Unslot(c) ==
    LET u == UserOf[c] IN
    /\ phase[c] = "unslot"
    /\ \/ /\ SlotIncrement(u, -1)
          /\ Goto(c, IF slots[u] - 1 < 0 THEN "unfloor" ELSE "settled")
          /\ UNCHANGED left
       \/ /\ Spend("redis")
          /\ Goto(c, "settled")
          /\ UNCHANGED billingVars
    /\ UNCHANGED gone

Unfloor(c) ==
    /\ phase[c] = "unfloor"
    /\ \/ SlotFloor(UserOf[c]) /\ UNCHANGED left
       \/ Spend("redis") /\ UNCHANGED billingVars
    /\ Goto(c, "settled")
    /\ UNCHANGED gone

--------------------------------------------------------------------------------
(* The environment *)

\* The client closes the connection while the handler runs.
ClientGone(c) ==
    /\ phase[c] \in InRequest
    /\ ~gone[c]
    /\ Spend("client")
    /\ gone' = [gone EXCEPT ![c] = TRUE]
    /\ UNCHANGED <<balance, funded, txs, slots, phase>>

EvictSlots(u) ==
    /\ Spend("evict")
    /\ SlotKeyLost(u)
    /\ UNCHANGED <<phase, gone>>

\* The process dies.  PostgreSQL and Redis keep what they have, and no code
\* looks for the calls that were under way when the process comes back.
ProcessLost ==
    phase' = [c \in Calls |-> IF phase[c] \in Terminal \cup {"idle"} THEN phase[c] ELSE "lost"]

Crash ==
    /\ Spend("crash")
    /\ ProcessLost
    /\ UNCHANGED <<balance, funded, txs, slots, gone>>

Topup(u) ==
    /\ Spend("topup")
    /\ TopupTx(u)
    /\ UNCHANGED <<phase, gone>>

Deduct(u) ==
    /\ Spend("deduct")
    /\ DeductTx(u)
    /\ UNCHANGED <<phase, gone>>

--------------------------------------------------------------------------------
RequestStep(c) ==
    \/ Refuse(c)
    \/ PreDeduct(c)
    \/ AcquireSlot(c)
    \/ AcquireSlotFails(c)
    \/ RollbackSlot(c)
    \/ Launch(c)
    \/ RouteFails(c)
    \/ ReleaseSlot(c)
    \/ FloorSlot(c)
    \/ Refund(c)
    \/ ClientGone(c)

FinalizeStep(c) ==
    \/ \E aDur, bDur \in Durations : Settle(c, aDur, bDur)
    \/ SettleFails(c)
    \/ Unslot(c)
    \/ Unfloor(c)

AccountStep(u) == Topup(u) \/ Deduct(u) \/ EvictSlots(u)

\* Every request has been answered and every call has ended.
AllDone ==
    /\ \A c \in Calls : phase[c] \in Terminal
    /\ UNCHANGED admissionVars

AdmissionNext ==
    \/ \E c \in Calls : RequestStep(c) \/ FinalizeStep(c)
    \/ \E u \in Users : AccountStep(u)
    \/ Crash
    \/ AllDone

AdmissionSpec == AdmissionInit /\ [][AdmissionNext]_admissionVars

--------------------------------------------------------------------------------
(* Properties *)

CallsOf(u) == {c \in Calls : UserOf[c] = u}

\* Calls whose increment of the counter has not been given back.
HoldPhases == {"rollback", "route", "release", "running", "unslot"}
Holding(u) == {c \in CallsOf(u) : phase[c] \in HoldPhases}

\* Calls that AcquireSlot let through and that have not left.
AdmitPhases == {"route", "release", "running", "unslot"}
Admitted(u) == {c \in CallsOf(u) : phase[c] \in AdmitPhases}

\* Redis has not lost a counter so far.
KeysKept == left["evict"] = Budget["evict"]

WithinLimit == \A u \in Users : Cardinality(Admitted(u)) <= MaxConcurrent[u]
CounterCovers == \A u \in Users : slots[u] >= Cardinality(Holding(u))

\* AcquireSlot's limit: as long as Redis keeps the counter, at no time are
\* more of a user's calls between AcquireSlot's success and ReleaseSlot than
\* max_concurrent allows, although the increments and comparisons of several
\* requests interleave and any of them may fail.
ConcurrencyLimit == KeysKept => WithinLimit

\* The counter never undercounts: failed Redis commands, cancelled requests
\* and crashes may leave it too high, and only the loss of the key too low.
SlotsCoverHolders == KeysKept => CounterCovers

\* Where nothing fails the counter is exact: AcquireSlot, its rollback and
\* the ReleaseSlot of InitiateCallback and of finalizeCall give back every
\* increment once.
SlotsExact == \A u \in Users : slots[u] = Cardinality(Holding(u))

\* A request that InitiateCallback rejects leaves no money behind: no row, or
\* the pre-deduction and the refund of all of it ("Release slot and refund").
RejectedKeepsNothing ==
    \A c \in Calls : phase[c] = "rejected" =>
        \/ txs[c] = <<>>
        \/ /\ Len(txs[c]) = 2
           /\ Signed(txs[c][1]) + Signed(txs[c][2]) = 0

\* The transactions table explains every balance: PreDeduct, Finalize, Topup
\* and Deduct change the balance by what the row they insert says, so the
\* balance is the sum of its rows at all times, whichever steps failed.
BalanceMatchesLedger ==
    \A u \in Users :
        balance[u] = funded[u] + SumFunctionOnSet([c \in Calls |-> Net(txs[c])], CallsOf(u))

\* PreDeduct's credit check bounds the account for good: as long as no call
\* outlasts the 30 minutes it pays for in advance and no admin deducts, a
\* balance stays above the credit line whatever calls interleave on it.
CreditRespected == \A u \in Users : balance[u] >= -CreditLimit[u]

\* A call is settled at most once and only after its pre-deduction: its rows
\* are none, the pre-deduction, or the pre-deduction and one settlement,
\* whichever of finalizeCall and InitiateCallback's error paths wrote it.
SettledOnce ==
    \A c \in Calls :
        /\ Len(txs[c]) <= 2
        /\ Len(txs[c]) >= 1 => txs[c][1].type = "pre_deduct"
        /\ Len(txs[c]) = 2 => txs[c][2].type # "pre_deduct"

--------------------------------------------------------------------------------
(* What Admission promises about an account: the escrow of module Escrow. *)

HoldOf(c) ==
    CASE Len(txs[c]) = 0 -> "none"
      [] Len(txs[c]) = 1 -> "held"
      [] OTHER -> "closed"

E == INSTANCE Escrow WITH
        Amount <- PreAmount,
        Costs <- {CallCost(a, b) : a \in Durations, b \in Durations},
        Adjustments <- {AdminAmount, -AdminAmount},
        hold <- [c \in Calls |-> HoldOf(c)]

\* Refinement: through every interleaving, fault and crash the account sees
\* only the atomic steps of Escrow: a hold, one release of that hold, or an
\* admin adjustment.
EscrowSpec == E!EscrowSpec
================================================================================
