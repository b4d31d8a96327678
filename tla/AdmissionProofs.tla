---------------------------- MODULE AdmissionProofs ----------------------------
(***************************************************************************)
(* What holds of Admission for every set of calls and users and every      *)
(* value of its constants.  The slots first: the limit, and the counter    *)
(* against the calls that hold one.  Then the money: a call is settled at  *)
(* most once, the account sees only the steps of Escrow, a balance is the  *)
(* sum of its rows, and the credit line holds as long as calls stay within *)
(* the time paid in advance.                                               *)
(***************************************************************************)
EXTENDS Admission, DataProofs

--------------------------------------------------------------------------------
(* Arithmetic of the billing blocks *)

\* A-leg usage of d <= 30 min costs at most 30 min at the A rate.
LEMMA ALegCostBound ==
    ASSUME NEW d \in Nat, NEW r \in Nat
    PROVE  /\ ALegCost(d, r) \in Nat
           /\ d <= 1800 => ALegCost(d, r) <= 30 * r
<1> DEFINE b == CeilDiv(d, 6) * 6
<1>1. b \in Nat /\ (d <= 1800 => b <= 1800)
  BY DEF CeilDiv
<1>2. b * r \in Nat /\ (b <= 1800 => b * r <= 1800 * r)
  BY <1>1
<1>3. ASSUME NEW x \in Nat PROVE x \div 60 \in Nat /\ (x <= 1800 * r => x \div 60 <= 30 * r)
  BY <1>3
<1>4. (b * r) \div 60 \in Nat /\ (b * r <= 1800 * r => (b * r) \div 60 <= 30 * r)
  BY <1>2, <1>3
<1> HIDE DEF b
<1>5. QED
  BY <1>1, <1>2, <1>4 DEF ALegCost, b

\* B-leg usage of d <= 30 min costs at most 30 min at the B rate.
LEMMA BLegCostBound ==
    ASSUME NEW d \in Nat, NEW r \in Nat
    PROVE  /\ BLegCost(d, r) \in Nat
           /\ d <= 1800 => BLegCost(d, r) <= 30 * r
<1> DEFINE b == CeilDiv(d, 60) * 60
<1>1. b \in Nat /\ (d <= 1800 => b <= 1800)
  BY DEF CeilDiv
<1>2. b * r \in Nat /\ (b <= 1800 => b * r <= 1800 * r)
  BY <1>1
<1>3. ASSUME NEW x \in Nat PROVE x \div 60 \in Nat /\ (x <= 1800 * r => x \div 60 <= 30 * r)
  BY <1>3
<1>4. (b * r) \div 60 \in Nat /\ (b * r <= 1800 * r => (b * r) \div 60 <= 30 * r)
  BY <1>2, <1>3
<1> HIDE DEF b
<1>5. QED
  BY <1>1, <1>2, <1>4 DEF BLegCost, b

\* The cost of a call is an amount, and the pre-deduction covers every call
\* whose legs last no longer than the 30 minutes it is computed from.
LEMMA PreDeductionCovers ==
    ASSUME NEW a \in Nat, NEW b \in Nat
    PROVE  /\ CallCost(a, b) \in Nat
           /\ PreAmount \in Nat
           /\ a <= 1800 /\ b <= 1800 => CallCost(a, b) <= PreAmount
BY ALegCostBound, BLegCostBound, BillingAssumption
   DEF CallCost, ActualCost, PreAmount, PreDeductAmount

--------------------------------------------------------------------------------
(* Type correctness *)

\* The row Finalize inserts is a row, and its signed amount is the difference
\* between the pre-deduction and the cost.
LEMMA FinalizeRowFacts ==
    ASSUME NEW cost \in Nat
    PROVE  /\ FinalizeRow(cost) \in TxRow
           /\ Signed(FinalizeRow(cost)) = PreAmount - cost
           /\ FinalizeRow(cost).type # "pre_deduct"
<1>1. PreAmount \in Nat
  BY PreDeductionCovers
<1>2. QED
  BY <1>1 DEF FinalizeRow, Signed, TxRow

\* Finalize keeps the tables well typed.
LEMMA FinalizeTxType ==
    ASSUME BillingTypeOK, NEW c \in Calls, NEW cost \in Nat, FinalizeTx(c, cost)
    PROVE  BillingTypeOK'
<1>1. /\ UserOf[c] \in Users
      /\ FinalizeRow(cost) \in TxRow
      /\ Signed(FinalizeRow(cost)) \in Int
  BY BillingAssumption, FinalizeRowFacts, PreDeductionCovers
<1>2. balance' \in [Users -> Int] /\ funded' \in [Users -> Int] /\ slots' \in [Users -> Int]
  BY <1>1 DEF FinalizeTx, BillingTypeOK
<1>3. txs' \in [Calls -> Seq(TxRow)]
  BY <1>1 DEF FinalizeTx, BillingTypeOK
<1>4. QED
  BY <1>2, <1>3 DEF BillingTypeOK

\* Spending from the budget leaves a budget.
LEMMA SpendType ==
    ASSUME left \in [FaultKinds -> Nat], NEW kind \in FaultKinds, Spend(kind)
    PROVE  left' \in [FaultKinds -> Nat]
BY DEF Spend

\* A failed statement of a request spends at most a fault of its store.
LEMMA RequestFailsType ==
    ASSUME left \in [FaultKinds -> Nat], NEW c \in Calls, NEW store \in FaultKinds,
           RequestFails(c, store)
    PROVE  left' \in [FaultKinds -> Nat]
BY SpendType DEF RequestFails

\* AdmissionTypeOK is inductive.
LEMMA TypeStep == AdmissionTypeOK /\ [AdmissionNext]_admissionVars => AdmissionTypeOK'
<1> SUFFICES ASSUME AdmissionTypeOK, [AdmissionNext]_admissionVars
             PROVE  AdmissionTypeOK'
  OBVIOUS
<1> USE DEF AdmissionTypeOK, Phases, Goto
<1>u. ASSUME NEW c \in Calls PROVE UserOf[c] \in Users
  BY <1>u, BillingAssumption
<1>p. PreAmount \in Nat
  BY PreDeductionCovers
<1>k. {"client", "evict", "redis", "db", "crash", "topup", "deduct"} = FaultKinds
  BY DEF FaultKinds
<1>1. ASSUME NEW c \in Calls, RequestStep(c) PROVE AdmissionTypeOK'
  <2>1. CASE Refuse(c)
    BY <2>1 DEF Refuse, BillingTypeOK
  <2>2. CASE PreDeduct(c)
    <3>1. [type |-> "pre_deduct", amount |-> PreAmount] \in TxRow
      BY <1>p DEF TxRow
    <3>2. BillingTypeOK'
      BY <2>2, <3>1, <1>u, <1>p DEF PreDeduct, PreDeductTx, BillingTypeOK
    <3>3. QED
      BY <2>2, <3>2 DEF PreDeduct
  <2>3. CASE AcquireSlot(c)
    BY <2>3, <1>u DEF AcquireSlot, SlotIncrement, moneyVars, BillingTypeOK
  <2>4. CASE AcquireSlotFails(c)
    <3>1. left' \in [FaultKinds -> Nat]
      BY <2>4, <1>k, SpendType, RequestFailsType DEF AcquireSlotFails
    <3>2. QED
      BY <2>4, <3>1, <1>u DEF AcquireSlotFails, BillingTypeOK
  <2>5. CASE RollbackSlot(c)
    <3>1. left' \in [FaultKinds -> Nat]
      BY <2>5, <1>k, RequestFailsType DEF RollbackSlot
    <3>2. QED
      BY <2>5, <3>1, <1>u DEF RollbackSlot, SlotIncrement, moneyVars, billingVars, BillingTypeOK
  <2>6. CASE Launch(c)
    BY <2>6 DEF Launch, BillingTypeOK
  <2>7. CASE RouteFails(c)
    BY <2>7 DEF RouteFails, BillingTypeOK
  <2>8. CASE ReleaseSlot(c)
    <3>1. left' \in [FaultKinds -> Nat]
      BY <2>8, <1>k, RequestFailsType DEF ReleaseSlot
    <3>2. BillingTypeOK'
      BY <2>8, <1>u DEF ReleaseSlot, SlotIncrement, moneyVars, billingVars, BillingTypeOK
    <3>3. phase' \in [Calls -> Phases]
      BY <2>8 DEF ReleaseSlot
    <3>4. QED
      BY <2>8, <3>1, <3>2, <3>3 DEF ReleaseSlot
  <2>9. CASE FloorSlot(c)
    <3>1. left' \in [FaultKinds -> Nat]
      BY <2>9, <1>k, RequestFailsType DEF FloorSlot
    <3>2. QED
      BY <2>9, <3>1, <1>u DEF FloorSlot, SlotFloor, moneyVars, billingVars, BillingTypeOK
  <2>10. CASE Refund(c)
    <3>1. CASE FinalizeTx(c, 0) /\ UNCHANGED left
      <4>1. BillingTypeOK'
        BY <3>1, FinalizeTxType
      <4>2. QED
        BY <2>10, <3>1, <4>1 DEF Refund
    <3>2. CASE RequestFails(c, "db") /\ UNCHANGED billingVars
      <4>1. left' \in [FaultKinds -> Nat]
        BY <3>2, <1>k, RequestFailsType
      <4>2. QED
        BY <2>10, <3>2, <4>1 DEF Refund, billingVars, BillingTypeOK
    <3>3. QED
      BY <2>10, <3>1, <3>2 DEF Refund
  <2>11. CASE ClientGone(c)
    <3>1. left' \in [FaultKinds -> Nat]
      BY <2>11, <1>k, SpendType DEF ClientGone
    <3>2. QED
      BY <2>11, <3>1 DEF ClientGone, BillingTypeOK
  <2>12. QED
    BY <1>1, <2>1, <2>2, <2>3, <2>4, <2>5, <2>6, <2>7, <2>8, <2>9, <2>10, <2>11 DEF RequestStep
<1>2. ASSUME NEW c \in Calls, FinalizeStep(c) PROVE AdmissionTypeOK'
  <2>1. ASSUME NEW aDur \in Durations, NEW bDur \in Durations, Settle(c, aDur, bDur)
        PROVE  AdmissionTypeOK'
    <3>1. CallCost(aDur, bDur) \in Nat
      BY PreDeductionCovers, AdmissionAssumption
    <3>2. BillingTypeOK'
      BY <2>1, <3>1, FinalizeTxType DEF Settle
    <3>3. QED
      BY <2>1, <3>2 DEF Settle
  <2>2. CASE SettleFails(c)
    <3>1. left' \in [FaultKinds -> Nat]
      BY <2>2, <1>k, SpendType DEF SettleFails
    <3>2. QED
      BY <2>2, <3>1 DEF SettleFails, BillingTypeOK
  <2>3. CASE Unslot(c)
    <3>1. left' \in [FaultKinds -> Nat]
      BY <2>3, <1>k, SpendType DEF Unslot
    <3>2. BillingTypeOK'
      BY <2>3, <1>u DEF Unslot, SlotIncrement, moneyVars, billingVars, BillingTypeOK
    <3>3. phase' \in [Calls -> Phases]
      BY <2>3 DEF Unslot
    <3>4. QED
      BY <2>3, <3>1, <3>2, <3>3 DEF Unslot
  <2>4. CASE Unfloor(c)
    <3>1. left' \in [FaultKinds -> Nat]
      BY <2>4, <1>k, SpendType DEF Unfloor
    <3>2. QED
      BY <2>4, <1>u, <3>1 DEF Unfloor, SlotFloor, moneyVars, billingVars, BillingTypeOK
  <2>5. QED
    BY <1>2, <2>1, <2>2, <2>3, <2>4 DEF FinalizeStep
<1>3. ASSUME NEW u \in Users, AccountStep(u) PROVE AdmissionTypeOK'
  <2>1. AdminAmount \in Int
    BY BillingAssumption
  <2>2. CASE Topup(u)
    <3>1. left' \in [FaultKinds -> Nat]
      BY <2>2, <1>k, SpendType DEF Topup
    <3>2. QED
      BY <2>1, <2>2, <3>1 DEF Topup, TopupTx, BillingTypeOK
  <2>3. CASE Deduct(u)
    <3>1. left' \in [FaultKinds -> Nat]
      BY <2>3, <1>k, SpendType DEF Deduct
    <3>2. QED
      BY <2>1, <2>3, <3>1 DEF Deduct, DeductTx, BillingTypeOK
  <2>4. CASE EvictSlots(u)
    <3>1. left' \in [FaultKinds -> Nat]
      BY <2>4, <1>k, SpendType DEF EvictSlots
    <3>2. QED
      BY <2>4, <3>1 DEF EvictSlots, SlotKeyLost, SlotFloor, moneyVars, BillingTypeOK
  <2>5. QED
    BY <1>3, <2>2, <2>3, <2>4 DEF AccountStep
<1>4. CASE Crash
  <2>1. left' \in [FaultKinds -> Nat]
    BY <1>4, <1>k, SpendType DEF Crash
  <2>2. QED
    BY <1>4, <2>1 DEF Crash, ProcessLost, Terminal, BillingTypeOK
<1>5. CASE UNCHANGED admissionVars
  BY <1>5 DEF admissionVars, BillingTypeOK
<1>6. QED
  BY <1>1, <1>2, <1>3, <1>4, <1>5 DEF AdmissionNext, AllDone

\* Every reachable state of Admission is well typed, whatever the constants.
THEOREM AdmissionTypeCorrect == AdmissionSpec => []AdmissionTypeOK
<1>1. AdmissionInit => AdmissionTypeOK
  BY BillingAssumption, AdmissionAssumption
     DEF AdmissionInit, BillingInit, AdmissionTypeOK, BillingTypeOK, Phases
<1>2. QED
  BY <1>1, TypeStep, PTL DEF AdmissionSpec

--------------------------------------------------------------------------------
(* The concurrency limit *)

\* While Redis keeps the counters they cover the holders, so ReleaseSlot
\* never finds one at zero and never has to floor it.
LimitInv ==
    /\ AdmissionTypeOK
    /\ left["evict"] <= Budget["evict"]
    /\ KeysKept => /\ CounterCovers
                   /\ WithinLimit
                   /\ \A c \in Calls : phase[c] \notin {"floor", "unfloor"}

\* Both sets are finite, and being admitted is holding.
LEMMA HoldersFinite ==
    ASSUME NEW u \in Users
    PROVE  /\ IsFiniteSet(Holding(u)) /\ IsFiniteSet(Admitted(u))
           /\ Cardinality(Holding(u)) \in Nat /\ Cardinality(Admitted(u)) \in Nat
           /\ Cardinality(Admitted(u)) <= Cardinality(Holding(u))
<1>1. /\ Holding(u) \subseteq Calls /\ IsFiniteSet(Calls)
      /\ Admitted(u) \subseteq Holding(u)
  BY AdmissionAssumption DEF Holding, Admitted, CallsOf, HoldPhases, AdmitPhases
<1>2. IsFiniteSet(Holding(u))
  BY <1>1, FS_Subset
<1>3. QED
  BY <1>1, <1>2, FS_Subset, FS_CardinalityType

\* A set of calls picked by their phases changes by at most the call that
\* moves, and its cardinality accordingly.
LEMMA PickedCardinality ==
    ASSUME NEW S, NEW T, NEW c, IsFiniteSet(S),
           T = S \cup {c} \/ T = S \ {c}
    PROVE  /\ IsFiniteSet(T)
           /\ Cardinality(S) \in Nat
           /\ c \in T => Cardinality(T) = Cardinality(S) + (IF c \in S THEN 0 ELSE 1)
           /\ c \notin T => Cardinality(T) = Cardinality(S) - (IF c \in S THEN 1 ELSE 0)
<1>1. Cardinality(S) \in Nat
  BY FS_CardinalityType
<1>2. CASE T = S \cup {c}
  BY <1>1, <1>2, FS_AddElement
<1>3. CASE T = S \ {c}
  BY <1>1, <1>3, FS_RemoveElement
<1>4. QED
  BY <1>2, <1>3

\* How many calls hold a slot of a user after one of the user's calls moves.
LEMMA HoldersAfter ==
    ASSUME AdmissionTypeOK, NEW u \in Users, NEW c \in Calls, UserOf[c] = u, NEW q,
           phase' = [phase EXCEPT ![c] = q]
    PROVE  /\ Cardinality(Holding(u)) \in Nat
           /\ Cardinality(Holding(u)') =
                Cardinality(Holding(u)) + (IF q \in HoldPhases THEN 1 ELSE 0)
                                        - (IF phase[c] \in HoldPhases THEN 1 ELSE 0)
<1> DEFINE S == Holding(u)
           T == Holding(u)'
<1>1. phase \in [Calls -> Phases] /\ IsFiniteSet(S)
  BY HoldersFinite DEF AdmissionTypeOK
<1>2. /\ T = IF q \in HoldPhases THEN S \cup {c} ELSE S \ {c}
      /\ c \in T <=> q \in HoldPhases
      /\ c \in S <=> phase[c] \in HoldPhases
  BY <1>1 DEF Holding, CallsOf
<1> HIDE DEF S, T
<1>3. T = S \cup {c} \/ T = S \ {c}
  BY <1>2
<1>4. /\ Cardinality(S) \in Nat
      /\ c \in T => Cardinality(T) = Cardinality(S) + (IF c \in S THEN 0 ELSE 1)
      /\ c \notin T => Cardinality(T) = Cardinality(S) - (IF c \in S THEN 1 ELSE 0)
  BY <1>1, <1>3, PickedCardinality
<1>5. /\ Cardinality(S) \in Nat
      /\ Cardinality(T) = Cardinality(S) + (IF q \in HoldPhases THEN 1 ELSE 0)
                                         - (IF phase[c] \in HoldPhases THEN 1 ELSE 0)
  BY <1>2, <1>4
<1>6. QED
  BY <1>5 DEF S, T

\* Call c goes to phase q and the counter changes by n, at least as much as
\* the step moves the call in or out of the holding phases; the call gets in
\* only below the limit.
CounterMove(c, q, n) ==
    /\ q \notin {"floor", "unfloor"}
    /\ n \in Int
    /\ phase' = [phase EXCEPT ![c] = q]
    /\ slots' = [slots EXCEPT ![UserOf[c]] = @ + n]
    /\ n >= (IF q \in HoldPhases THEN 1 ELSE 0) - (IF phase[c] \in HoldPhases THEN 1 ELSE 0)
    /\ q \in AdmitPhases /\ phase[c] \notin AdmitPhases
           => slots[UserOf[c]] + 1 <= MaxConcurrent[UserOf[c]]

\* Such a step keeps the counter above the holders and the admitted calls
\* below the limit.
LEMMA CounterStep ==
    ASSUME AdmissionTypeOK, CounterCovers, WithinLimit,
           NEW c \in Calls, NEW q, NEW n, CounterMove(c, q, n)
    PROVE  CounterCovers' /\ WithinLimit'
<1> USE DEF CounterMove
<1> SUFFICES ASSUME NEW u \in Users
             PROVE  /\ slots'[u] >= Cardinality(Holding(u)')
                    /\ Cardinality(Admitted(u)') <= MaxConcurrent[u]
  BY DEF CounterCovers, WithinLimit
<1>0. /\ UserOf[c] \in Users
      /\ slots \in [Users -> Int] /\ phase \in [Calls -> Phases]
      /\ MaxConcurrent[u] \in Nat
      /\ slots[u] >= Cardinality(Holding(u))
      /\ Cardinality(Admitted(u)) <= MaxConcurrent[u]
  BY BillingAssumption DEF AdmissionTypeOK, BillingTypeOK, CounterCovers, WithinLimit
<1>1. CASE UserOf[c] # u
  <2>1. Holding(u)' = Holding(u) /\ Admitted(u)' = Admitted(u)
    BY <1>0, <1>1 DEF Holding, Admitted, CallsOf
  <2>2. slots'[u] = slots[u]
    BY <1>0, <1>1
  <2>3. QED
    BY <1>0, <2>1, <2>2
<1>2. CASE UserOf[c] = u
  <2>1. slots'[u] = slots[u] + n
    BY <1>0, <1>2
  <2>3. /\ Admitted(u)' = IF q \in AdmitPhases THEN Admitted(u) \cup {c} ELSE Admitted(u) \ {c}
        /\ c \in Admitted(u) <=> phase[c] \in AdmitPhases
    BY <1>0, <1>2 DEF Admitted, CallsOf
  <2>4. /\ Cardinality(Holding(u)) \in Nat
        /\ Cardinality(Holding(u)') =
             Cardinality(Holding(u)) + (IF q \in HoldPhases THEN 1 ELSE 0)
                                     - (IF phase[c] \in HoldPhases THEN 1 ELSE 0)
    BY <1>0, <1>2, HoldersAfter
  <2>5. /\ Cardinality(Admitted(u)) \in Nat
        /\ Cardinality(Admitted(u)') =
             Cardinality(Admitted(u)) + (IF q \in AdmitPhases THEN 1 ELSE 0)
                                      - (IF phase[c] \in AdmitPhases THEN 1 ELSE 0)
    <3> DEFINE S == Admitted(u)
               T == Admitted(u)'
    <3>1. IsFiniteSet(S)
      BY HoldersFinite
    <3>2. /\ T = S \cup {c} \/ T = S \ {c}
          /\ c \in T <=> q \in AdmitPhases
          /\ c \in S <=> phase[c] \in AdmitPhases
      BY <2>3
    <3> HIDE DEF S, T
    <3>3. /\ Cardinality(S) \in Nat
          /\ c \in T => Cardinality(T) = Cardinality(S) + (IF c \in S THEN 0 ELSE 1)
          /\ c \notin T => Cardinality(T) = Cardinality(S) - (IF c \in S THEN 1 ELSE 0)
      BY <3>1, <3>2, PickedCardinality
    <3>4. /\ Cardinality(S) \in Nat
          /\ Cardinality(T) = Cardinality(S) + (IF q \in AdmitPhases THEN 1 ELSE 0)
                                             - (IF phase[c] \in AdmitPhases THEN 1 ELSE 0)
      BY <3>2, <3>3
    <3>5. QED
      BY <3>4 DEF S, T
  <2>6. slots'[u] >= Cardinality(Holding(u)')
    BY <1>0, <2>1, <2>4
  <2>7. Cardinality(Admitted(u)') <= MaxConcurrent[u]
    <3>1. CASE q \in AdmitPhases /\ phase[c] \notin AdmitPhases
      <4>1. Cardinality(Admitted(u)') = Cardinality(Admitted(u)) + 1
        BY <3>1, <2>5
      <4>2. Cardinality(Admitted(u)) <= slots[u]
        BY <1>0, HoldersFinite
      <4>3. slots[u] + 1 <= MaxConcurrent[u]
        BY <3>1, <1>2
      <4>4. QED
        BY <4>1, <4>2, <4>3, <2>5, <1>0
    <3>2. CASE ~(q \in AdmitPhases /\ phase[c] \notin AdmitPhases)
      BY <3>2, <2>5, <1>0
    <3>3. QED
      BY <3>1, <3>2
  <2>8. QED
    BY <2>6, <2>7
<1>3. QED
  BY <1>1, <1>2

\* No step adds to a budget.
LEMMA BudgetFalls ==
    ASSUME left \in [FaultKinds -> Nat], NEW kind \in FaultKinds, AdmissionNext
    PROVE  left'[kind] <= left[kind]
<1>1. ASSUME NEW k \in FaultKinds, Spend(k) PROVE left'[kind] <= left[kind]
  BY <1>1 DEF Spend
<1>2. ASSUME NEW c \in Calls, NEW k \in FaultKinds, RequestFails(c, k)
      PROVE  left'[kind] <= left[kind]
  BY <1>1, <1>2 DEF RequestFails
<1>3. {"client", "evict", "redis", "db", "crash", "topup", "deduct"} = FaultKinds
  BY DEF FaultKinds
<1>4. ASSUME NEW c \in Calls, RequestStep(c) PROVE left'[kind] <= left[kind]
  BY <1>1, <1>2, <1>3, <1>4
     DEF RequestStep, Refuse, PreDeduct, AcquireSlot, AcquireSlotFails, RollbackSlot, Launch,
         RouteFails, ReleaseSlot, FloorSlot, Refund, ClientGone
<1>5. ASSUME NEW c \in Calls, FinalizeStep(c) PROVE left'[kind] <= left[kind]
  BY <1>1, <1>3, <1>5 DEF FinalizeStep, Settle, SettleFails, Unslot, Unfloor
<1>6. ASSUME NEW u \in Users, AccountStep(u) PROVE left'[kind] <= left[kind]
  BY <1>1, <1>3, <1>6 DEF AccountStep, Topup, Deduct, EvictSlots
<1>7. CASE Crash
  BY <1>1, <1>3, <1>7 DEF Crash
<1>8. QED
  BY <1>4, <1>5, <1>6, <1>7 DEF AdmissionNext, AllDone, admissionVars

\* ReleaseSlot finds the counter above zero: the releasing call counts.
LEMMA HolderCounted ==
    ASSUME AdmissionTypeOK, CounterCovers, NEW c \in Calls, phase[c] \in HoldPhases
    PROVE  slots[UserOf[c]] >= 1
<1> DEFINE u == UserOf[c]
<1>1. u \in Users /\ slots[u] \in Int /\ slots[u] >= Cardinality(Holding(u))
  BY BillingAssumption DEF CounterCovers, AdmissionTypeOK, BillingTypeOK
<1>2. c \in Holding(u)
  BY DEF Holding, CallsOf
<1>3. IsFiniteSet(Holding(u)) /\ Cardinality(Holding(u)) \in Nat
  BY <1>1, HoldersFinite
<1>4. Cardinality(Holding(u)) # 0
  BY <1>2, <1>3, FS_EmptySet
<1>5. QED
  BY <1>1, <1>3, <1>4

\* Every step keeps LimitInv.
LEMMA LimitStep == LimitInv /\ [AdmissionNext]_admissionVars => LimitInv'
<1> SUFFICES ASSUME LimitInv, [AdmissionNext]_admissionVars
             PROVE  LimitInv'
  OBVIOUS
<1> DEFINE NoFloor == \A c \in Calls : phase[c] \notin {"floor", "unfloor"}
<1>t. AdmissionTypeOK'
  BY TypeStep DEF LimitInv
<1>b. /\ left \in [FaultKinds -> Nat] /\ "evict" \in FaultKinds
      /\ left["evict"] \in Nat /\ left'["evict"] \in Nat /\ Budget["evict"] \in Nat
  BY <1>t, AdmissionAssumption DEF LimitInv, AdmissionTypeOK, FaultKinds
<1>e. left'["evict"] <= left["evict"] /\ left["evict"] <= Budget["evict"]
  BY <1>b, BudgetFalls DEF admissionVars, LimitInv
<1> SUFFICES ASSUME KeysKept'
             PROVE  CounterCovers' /\ WithinLimit' /\ NoFloor'
  BY <1>t, <1>b, <1>e DEF LimitInv
<1>k. left["evict"] = Budget["evict"] /\ left'["evict"] = left["evict"]
  BY <1>b, <1>e DEF KeysKept
<1>i. /\ AdmissionTypeOK /\ CounterCovers /\ WithinLimit /\ NoFloor
      /\ phase \in [Calls -> Phases] /\ slots \in [Users -> Int]
  BY <1>k DEF LimitInv, KeysKept, AdmissionTypeOK, BillingTypeOK
<1>u. ASSUME NEW c \in Calls PROVE UserOf[c] \in Users
  BY <1>u, BillingAssumption
<1>z. ASSUME NEW c \in Calls, UNCHANGED slots PROVE slots' = [slots EXCEPT ![UserOf[c]] = @ + 0]
  BY <1>i, <1>u, <1>z
<1>c. ASSUME NEW c \in Calls, NEW q, NEW n, CounterMove(c, q, n)
      PROVE  CounterCovers' /\ WithinLimit' /\ NoFloor'
  <2>1. CounterCovers' /\ WithinLimit'
    BY <1>c, <1>i, CounterStep
  <2>2. NoFloor'
    BY <1>c, <1>i DEF CounterMove
  <2>3. QED
    BY <2>1, <2>2
<1> HIDE DEF NoFloor
<1> USE DEF HoldPhases, AdmitPhases, Goto
<1>1. ASSUME NEW c \in Calls, RequestStep(c)
      PROVE  CounterCovers' /\ WithinLimit' /\ NoFloor'
  <2>1. CASE Refuse(c) \/ PreDeduct(c)
    <3>1. PICK q \in {"rejected", "acquire"} :
            phase[c] = "idle" /\ phase' = [phase EXCEPT ![c] = q] /\ UNCHANGED slots
      BY <2>1 DEF Refuse, PreDeduct, PreDeductTx
    <3>2. CounterMove(c, q, 0)
      BY <3>1, <1>z DEF CounterMove
    <3>3. QED
      BY <3>2, <1>c
  <2>3. CASE AcquireSlot(c)
    <3> DEFINE q == IF slots[UserOf[c]] + 1 > MaxConcurrent[UserOf[c]] THEN "rollback" ELSE "route"
    <3>1. /\ phase[c] = "acquire" /\ phase' = [phase EXCEPT ![c] = q]
          /\ slots' = [slots EXCEPT ![UserOf[c]] = @ + 1]
      BY <2>3 DEF AcquireSlot, SlotIncrement
    <3>2. slots[UserOf[c]] \in Int /\ MaxConcurrent[UserOf[c]] \in Nat
      BY <1>i, <1>u, BillingAssumption
    <3>3. CounterMove(c, q, 1)
      BY <3>1, <3>2 DEF CounterMove
    <3>4. QED
      BY <3>3, <1>c
  <2>4. CASE AcquireSlotFails(c)
    <3>1. phase[c] = "acquire" /\ phase' = [phase EXCEPT ![c] = "refund"]
      BY <2>4 DEF AcquireSlotFails
    <3>2. PICK n \in {0, 1} : slots' = [slots EXCEPT ![UserOf[c]] = @ + n]
      BY <2>4, <1>z DEF AcquireSlotFails
    <3>3. CounterMove(c, "refund", n)
      BY <3>1, <3>2 DEF CounterMove
    <3>4. QED
      BY <3>3, <1>c
  <2>5. CASE RollbackSlot(c)
    <3>1. phase[c] = "rollback" /\ phase' = [phase EXCEPT ![c] = "refund"]
      BY <2>5 DEF RollbackSlot
    <3>2. PICK n \in {0, -1} : slots' = [slots EXCEPT ![UserOf[c]] = @ + n]
      BY <2>5, <1>z DEF RollbackSlot, SlotIncrement, billingVars
    <3>3. CounterMove(c, "refund", n)
      BY <3>1, <3>2 DEF CounterMove
    <3>4. QED
      BY <3>3, <1>c
  <2>6. CASE Launch(c) \/ RouteFails(c)
    <3>1. PICK q \in {"running", "release"} :
            phase[c] = "route" /\ phase' = [phase EXCEPT ![c] = q] /\ UNCHANGED slots
      BY <2>6 DEF Launch, RouteFails
    <3>2. CounterMove(c, q, 0)
      BY <3>1, <1>z DEF CounterMove
    <3>3. QED
      BY <3>2, <1>c
  <2>8. CASE ReleaseSlot(c)
    <3>1. phase[c] = "release" /\ slots[UserOf[c]] - 1 >= 0
      BY <2>8, <1>i, <1>u, HolderCounted DEF ReleaseSlot
    <3>2. phase' = [phase EXCEPT ![c] = "refund"]
      BY <2>8, <3>1, <1>i, <1>u DEF ReleaseSlot
    <3>3. PICK n \in {0, -1} : slots' = [slots EXCEPT ![UserOf[c]] = @ + n]
      BY <2>8, <1>z DEF ReleaseSlot, SlotIncrement, billingVars
    <3>4. CounterMove(c, "refund", n)
      BY <3>1, <3>2, <3>3 DEF CounterMove
    <3>5. QED
      BY <3>4, <1>c
  <2>9. CASE FloorSlot(c)
    BY <2>9, <1>i DEF FloorSlot, NoFloor
  <2>10. CASE Refund(c)
    <3>1. phase[c] = "refund" /\ phase' = [phase EXCEPT ![c] = "rejected"] /\ UNCHANGED slots
      BY <2>10 DEF Refund, FinalizeTx, billingVars
    <3>2. CounterMove(c, "rejected", 0)
      BY <3>1, <1>z DEF CounterMove
    <3>3. QED
      BY <3>2, <1>c
  <2>11. CASE ClientGone(c)
    BY <2>11, <1>i DEF NoFloor, ClientGone, CounterCovers, WithinLimit, Holding, Admitted, CallsOf
  <2>12. QED
    BY <1>1, <2>1, <2>3, <2>4, <2>5, <2>6, <2>8, <2>9, <2>10, <2>11 DEF RequestStep
<1>2. ASSUME NEW c \in Calls, FinalizeStep(c)
      PROVE  CounterCovers' /\ WithinLimit' /\ NoFloor'
  <2>1. CASE SettleFails(c) \/ \E aDur, bDur \in Durations : Settle(c, aDur, bDur)
    <3>1. phase[c] = "running" /\ phase' = [phase EXCEPT ![c] = "unslot"] /\ UNCHANGED slots
      BY <2>1 DEF SettleFails, Settle, FinalizeTx
    <3>2. CounterMove(c, "unslot", 0)
      BY <3>1, <1>z DEF CounterMove
    <3>3. QED
      BY <3>2, <1>c
  <2>3. CASE Unslot(c)
    <3>1. phase[c] = "unslot" /\ slots[UserOf[c]] - 1 >= 0
      BY <2>3, <1>i, <1>u, HolderCounted DEF Unslot
    <3>2. phase' = [phase EXCEPT ![c] = "settled"]
      BY <2>3, <3>1, <1>i, <1>u DEF Unslot
    <3>3. PICK n \in {0, -1} : slots' = [slots EXCEPT ![UserOf[c]] = @ + n]
      BY <2>3, <1>z DEF Unslot, SlotIncrement, billingVars
    <3>4. CounterMove(c, "settled", n)
      BY <3>1, <3>2, <3>3 DEF CounterMove
    <3>5. QED
      BY <3>4, <1>c
  <2>4. CASE Unfloor(c)
    BY <2>4, <1>i DEF Unfloor, NoFloor
  <2>5. QED
    BY <1>2, <2>1, <2>3, <2>4 DEF FinalizeStep
<1>3. ASSUME UNCHANGED <<phase, slots>>
      PROVE  CounterCovers' /\ WithinLimit' /\ NoFloor'
  BY <1>3, <1>i DEF NoFloor, CounterCovers, WithinLimit, Holding, Admitted, CallsOf
<1>4. ASSUME NEW u \in Users, AccountStep(u)
      PROVE  CounterCovers' /\ WithinLimit' /\ NoFloor'
  <2>1. ~EvictSlots(u)
    BY <1>b, <1>k DEF EvictSlots, Spend
  <2>2. QED
    BY <1>3, <1>4, <2>1 DEF AccountStep, Topup, Deduct, TopupTx, DeductTx
<1>5. CASE Crash
  <2>1. /\ UNCHANGED slots
        /\ phase' = [c \in Calls |-> IF phase[c] \in Terminal \cup {"idle"}
                                     THEN phase[c] ELSE "lost"]
    BY <1>5 DEF Crash, ProcessLost
  <2>2. NoFloor'
    BY <2>1, <1>i DEF NoFloor
  <2>3. ASSUME NEW u \in Users PROVE Holding(u)' = {} /\ Admitted(u)' = {}
    BY <2>1, <1>i DEF Holding, Admitted, CallsOf, Terminal
  <2>4. ASSUME NEW u \in Users
        PROVE  slots'[u] >= Cardinality(Holding(u)') /\ Cardinality(Admitted(u)') <= MaxConcurrent[u]
    <3>1. /\ slots[u] \in Int /\ slots[u] >= Cardinality(Holding(u)) /\ MaxConcurrent[u] \in Nat
          /\ Cardinality(Holding(u)) \in Nat
      BY <1>i, HoldersFinite, BillingAssumption DEF CounterCovers
    <3>2. QED
      BY <2>1, <2>3, <3>1, FS_EmptySet
  <2>5. QED
    BY <2>2, <2>4 DEF CounterCovers, WithinLimit
<1>6. CASE UNCHANGED admissionVars
  BY <1>3, <1>6 DEF admissionVars
<1>7. QED
  BY <1>1, <1>2, <1>4, <1>5, <1>6 DEF AdmissionNext, AllDone

\* The counters start at zero and nobody holds anything.
LEMMA LimitInit == AdmissionInit => LimitInv
<1> SUFFICES ASSUME AdmissionInit PROVE LimitInv
  OBVIOUS
<1>1. AdmissionTypeOK /\ left = Budget /\ \A c \in Calls : phase[c] = "idle"
  BY BillingAssumption, AdmissionAssumption
     DEF AdmissionInit, BillingInit, AdmissionTypeOK, BillingTypeOK, Phases
<1>2. ASSUME NEW u \in Users PROVE Holding(u) = {} /\ Admitted(u) = {}
  BY <1>1 DEF Holding, Admitted, CallsOf, HoldPhases, AdmitPhases
<1>3. ASSUME NEW u \in Users
      PROVE  slots[u] >= Cardinality(Holding(u)) /\ Cardinality(Admitted(u)) <= MaxConcurrent[u]
  <2>1. slots[u] = 0 /\ MaxConcurrent[u] \in Nat
    BY BillingAssumption DEF AdmissionInit, BillingInit
  <2>2. Cardinality(Holding(u)) = 0 /\ Cardinality(Admitted(u)) = 0
    BY <1>2, FS_EmptySet
  <2>3. QED
    BY <2>1, <2>2
<1>4. left["evict"] \in Nat /\ left["evict"] <= Budget["evict"]
  BY <1>1, AdmissionAssumption DEF FaultKinds
<1>5. QED
  BY <1>1, <1>3, <1>4 DEF LimitInv, CounterCovers, WithinLimit

\* For any number of users and calls, and however requests, failing Redis and
\* database statements, vanishing clients and crashes interleave, no user has
\* more calls admitted than AcquireSlot's max_concurrent as long as Redis has
\* not lost a counter.
THEOREM ConcurrencyLimitHolds == AdmissionSpec => []ConcurrencyLimit
<1>1. LimitInv => ConcurrencyLimit
  BY DEF LimitInv, ConcurrencyLimit
<1>2. QED
  BY <1>1, LimitInit, LimitStep, PTL DEF AdmissionSpec

\* Nor does the counter itself ever fall below the calls that hold a slot.
THEOREM SlotsCovered == AdmissionSpec => []SlotsCoverHolders
<1>1. LimitInv => SlotsCoverHolders
  BY DEF LimitInv, SlotsCoverHolders
<1>2. QED
  BY <1>1, LimitInit, LimitStep, PTL DEF AdmissionSpec

--------------------------------------------------------------------------------
(* Where nothing fails, the counter is exact *)

\* Redis answers and keeps its keys, no client hangs up on its request, and
\* the process does not die.
CounterFaults == {"evict", "redis", "crash", "client"}
NothingFails ==
    /\ \A kind \in CounterFaults : left[kind] = 0
    /\ \A c \in Calls : ~gone[c]

ExactInv ==
    /\ NothingFails
    /\ SlotsExact
    /\ \A c \in Calls : phase[c] \notin {"floor", "unfloor"}

LEMMA NothingFailsStep ==
    ASSUME AdmissionTypeOK, NothingFails, [AdmissionNext]_admissionVars
    PROVE  NothingFails'
<1>1. /\ left' \in [FaultKinds -> Nat] /\ CounterFaults \subseteq FaultKinds
      /\ left \in [FaultKinds -> Nat]
  BY TypeStep DEF AdmissionTypeOK, CounterFaults, FaultKinds
<1>2. ASSUME NEW kind \in CounterFaults PROVE left'[kind] = 0
  <2>1. left[kind] = 0 /\ left'[kind] \in Nat /\ kind \in FaultKinds
    BY <1>1 DEF NothingFails
  <2>2. CASE AdmissionNext
    <3>1. left'[kind] <= left[kind]
      BY <1>1, <2>1, <2>2, BudgetFalls
    <3>2. QED
      BY <2>1, <3>1
  <2>3. CASE UNCHANGED admissionVars
    BY <2>1, <2>3 DEF admissionVars
  <2>4. QED
    BY <2>2, <2>3
<1>3. \A c \in Calls : ~ClientGone(c)
  BY DEF ClientGone, Spend, NothingFails, CounterFaults
<1>4. gone' = gone
  BY <1>3 DEF AdmissionNext, RequestStep, Refuse, PreDeduct, AcquireSlot, AcquireSlotFails,
     RollbackSlot, Launch, RouteFails, ReleaseSlot, FloorSlot, Refund, FinalizeStep, Settle,
     SettleFails, Unslot, Unfloor, AccountStep, Topup, Deduct, EvictSlots, Crash, AllDone,
     admissionVars
<1>5. QED
  BY <1>2, <1>4 DEF NothingFails

\* What a move from phase p to phase q adds to the calls that hold a slot.
Change(p, q) == (IF q \in HoldPhases THEN 1 ELSE 0) - (IF p \in HoldPhases THEN 1 ELSE 0)

\* A call that moves takes the counter along.
LEMMA ExactMove ==
    ASSUME AdmissionTypeOK, SlotsExact, NEW c \in Calls, NEW q,
           phase' = [phase EXCEPT ![c] = q],
           slots' = [slots EXCEPT ![UserOf[c]] = @ + Change(phase[c], q)]
    PROVE  SlotsExact'
<1>1. SUFFICES ASSUME NEW u \in Users
               PROVE  slots'[u] = Cardinality(Holding(u)')
  BY DEF SlotsExact
<1>2. /\ UserOf[c] \in Users /\ slots \in [Users -> Int] /\ phase \in [Calls -> Phases]
      /\ slots[u] = Cardinality(Holding(u))
  BY BillingAssumption DEF AdmissionTypeOK, BillingTypeOK, SlotsExact
<1>3. CASE UserOf[c] # u
  <2>1. Holding(u)' = Holding(u)
    BY <1>2, <1>3 DEF Holding, CallsOf
  <2>2. QED
    BY <1>2, <1>3, <2>1
<1>4. CASE UserOf[c] = u
  <2>1. slots'[u] = slots[u] + Change(phase[c], q)
    BY <1>2, <1>4
  <2>2. /\ Cardinality(Holding(u)) \in Nat
        /\ Cardinality(Holding(u)') =
             Cardinality(Holding(u)) + (IF q \in HoldPhases THEN 1 ELSE 0)
                                     - (IF phase[c] \in HoldPhases THEN 1 ELSE 0)
    BY <1>2, <1>4, HoldersAfter
  <2>3. QED
    BY <1>2, <2>1, <2>2 DEF Change
<1>5. QED
  BY <1>3, <1>4

LEMMA ExactStep ==
    ASSUME AdmissionTypeOK, ExactInv, [AdmissionNext]_admissionVars
    PROVE  ExactInv'
<1> DEFINE NoFloor == \A c \in Calls : phase[c] \notin {"floor", "unfloor"}
<1>n. NothingFails'
  BY NothingFailsStep DEF ExactInv
<1>i. /\ SlotsExact /\ CounterCovers /\ NoFloor
      /\ phase \in [Calls -> Phases] /\ slots \in [Users -> Int]
      /\ \A u \in Users : slots[u] \in Int
      /\ \A c \in Calls : UserOf[c] \in Users
  BY BillingAssumption
     DEF ExactInv, SlotsExact, CounterCovers, AdmissionTypeOK, BillingTypeOK
<1>f. /\ \A c \in Calls : ~gone[c]
      /\ ~Spend("evict") /\ ~Spend("redis") /\ ~Spend("crash") /\ ~Spend("client")
      /\ \A c \in Calls : ~RequestFails(c, "redis")
  BY DEF ExactInv, NothingFails, CounterFaults, Spend, RequestFails
<1>c. ASSUME NEW c \in Calls, NEW q, q \notin {"floor", "unfloor"},
             phase' = [phase EXCEPT ![c] = q],
             slots' = [slots EXCEPT ![UserOf[c]] = @ + Change(phase[c], q)]
      PROVE  SlotsExact' /\ NoFloor'
  <2>1. SlotsExact'
    BY <1>c, <1>i, ExactMove
  <2>2. NoFloor'
    BY <1>c, <1>i
  <2>3. QED
    BY <2>1, <2>2
<1>s. ASSUME NEW c \in Calls, NEW q, q \notin {"floor", "unfloor"}, UNCHANGED slots,
             phase' = [phase EXCEPT ![c] = q], q \in HoldPhases <=> phase[c] \in HoldPhases
      PROVE  SlotsExact' /\ NoFloor'
  <2>1. Change(phase[c], q) = 0
    BY <1>s DEF Change
  <2>2. slots' = [slots EXCEPT ![UserOf[c]] = @ + Change(phase[c], q)]
    BY <1>s, <1>i, <2>1
  <2>3. QED
    BY <1>s, <1>c, <2>2
<1> HIDE DEF NoFloor
<1>1. ASSUME NEW c \in Calls, RequestStep(c) \/ FinalizeStep(c)
      PROVE  SlotsExact' /\ NoFloor'
  <2>1. CASE \/ Refuse(c) \/ PreDeduct(c) \/ Launch(c) \/ RouteFails(c) \/ Refund(c)
             \/ SettleFails(c) \/ \E aDur, bDur \in Durations : Settle(c, aDur, bDur)
    <3>1. UNCHANGED slots
      BY <2>1 DEF Refuse, PreDeduct, PreDeductTx, Launch, RouteFails, Refund, FinalizeTx,
         billingVars, Settle, SettleFails
    <3>2. PICK q : /\ phase' = [phase EXCEPT ![c] = q]
                   /\ q \notin {"floor", "unfloor"}
                   /\ q \in HoldPhases <=> phase[c] \in HoldPhases
      BY <2>1 DEF Refuse, PreDeduct, Launch, RouteFails, Refund, Settle, SettleFails, Goto,
         HoldPhases
    <3>3. QED
      BY <1>s, <3>1, <3>2
  <2>2. CASE AcquireSlot(c)
    <3>1. PICK q \in {"rollback", "route"} :
              /\ phase[c] = "acquire" /\ phase' = [phase EXCEPT ![c] = q]
              /\ slots' = [slots EXCEPT ![UserOf[c]] = @ + 1]
      BY <2>2 DEF AcquireSlot, SlotIncrement, Goto
    <3>2. Change(phase[c], q) = 1
      BY <3>1 DEF Change, HoldPhases
    <3>3. QED
      BY <1>c, <3>1, <3>2
  <2>3. CASE RollbackSlot(c) \/ ReleaseSlot(c) \/ Unslot(c)
    <3>1. PICK q \in {"refund", "floor", "unfloor", "settled"} :
              /\ phase[c] \in HoldPhases /\ phase' = [phase EXCEPT ![c] = q]
              /\ slots' = [slots EXCEPT ![UserOf[c]] = @ + (-1)]
              /\ q \in {"floor", "unfloor"} => slots[UserOf[c]] - 1 < 0
      BY <1>f, <2>3 DEF RollbackSlot, ReleaseSlot, Unslot, SlotIncrement, Goto, HoldPhases
    <3>2. slots[UserOf[c]] >= 1 /\ slots[UserOf[c]] \in Int
      BY <1>i, <3>1, HolderCounted
    <3>3. q \in {"refund", "settled"}
      BY <3>1, <3>2
    <3>4. Change(phase[c], q) = -1
      BY <3>1, <3>3 DEF Change, HoldPhases
    <3>5. QED
      BY <1>c, <3>1, <3>3, <3>4
  <2>4. ~AcquireSlotFails(c) /\ ~ClientGone(c)
    BY <1>f DEF AcquireSlotFails, ClientGone
  <2>5. ~FloorSlot(c) /\ ~Unfloor(c)
    BY <1>i DEF FloorSlot, Unfloor, NoFloor
  <2>6. QED
    BY <1>1, <2>1, <2>2, <2>3, <2>4, <2>5 DEF RequestStep, FinalizeStep
<1>2. ASSUME UNCHANGED <<phase, slots>>
      PROVE  SlotsExact' /\ NoFloor'
  BY <1>2, <1>i DEF NoFloor, SlotsExact, Holding, CallsOf
<1>3. ASSUME NEW u \in Users, AccountStep(u)
      PROVE  UNCHANGED <<phase, slots>>
  BY <1>3, <1>f DEF AccountStep, Topup, Deduct, EvictSlots, TopupTx, DeductTx
<1>4. ~Crash
  BY <1>f DEF Crash
<1>5. SlotsExact' /\ NoFloor'
  BY <1>1, <1>2, <1>3, <1>4 DEF AdmissionNext, AllDone, admissionVars
<1>6. QED
  BY <1>n, <1>5 DEF ExactInv, NoFloor

\* Without faults the counter of a user is the number of calls that hold a
\* slot, for any number of users and calls and every interleaving: no path
\* through InitiateCallback and finalizeCall keeps an increment or gives one
\* back twice, and the floor of ReleaseSlot is never needed.
THEOREM SlotsExactHolds ==
    ASSUME \A kind \in CounterFaults : Budget[kind] = 0
    PROVE  AdmissionSpec => []SlotsExact
<1>1. AdmissionInit => ExactInv
  <2>1. SUFFICES ASSUME AdmissionInit PROVE ExactInv
    OBVIOUS
  <2>2. /\ left = Budget
        /\ \A c \in Calls : phase[c] = "idle"
        /\ \A u \in Users : slots[u] = 0
    BY <2>1 DEF AdmissionInit, BillingInit
  <2>3. \A c \in Calls : ~gone[c]
    BY <2>1, Zenon DEF AdmissionInit
  <2>4. \A u \in Users : Holding(u) = {}
    BY <2>2 DEF Holding, CallsOf, HoldPhases
  <2>5. SlotsExact
    BY <2>2, <2>4, FS_EmptySet DEF SlotsExact
  <2>6. QED
    BY <2>2, <2>5, <2>3 DEF ExactInv, NothingFails
<1>2. ExactInv => SlotsExact
  BY DEF ExactInv
<1>3. QED
  BY <1>1, <1>2, ExactStep, AdmissionTypeCorrect, PTL DEF AdmissionSpec

--------------------------------------------------------------------------------
(* Money *)


Costs == {CallCost(a, b) : a \in Durations, b \in Durations}

\* Phases of a call whose pre-deduction has not been closed yet.
OpenPhases == InRequest \cup {"running"}

--------------------------------------------------------------------------------
(* The four ways in which a step can treat the money *)

Opens(c) ==
    /\ phase[c] = "idle"
    /\ PreDeductTx(c)
    /\ phase' = [phase EXCEPT ![c] = "acquire"]

Closes(c, cost) ==
    /\ phase[c] \in OpenPhases
    /\ FinalizeTx(c, cost)
    /\ phase' \in {[phase EXCEPT ![c] = p] : p \in {"rejected", "unslot"}}

Adjusts(u, amount) ==
    /\ balance' = [balance EXCEPT ![u] = @ + amount]
    /\ funded' = [funded EXCEPT ![u] = @ + amount]
    /\ UNCHANGED <<txs, phase>>

\* The money stays, and no call becomes idle or open again.
Keeps ==
    /\ UNCHANGED <<balance, funded, txs>>
    /\ \A c \in Calls :
        /\ phase'[c] = "idle" => phase[c] = "idle"
        /\ phase'[c] \in OpenPhases => phase[c] \in OpenPhases

\* Adjustments an admin has left to make.
Adjustable ==
    {amount \in {AdminAmount, -AdminAmount} : amount = -AdminAmount => left["deduct"] > 0}

MoneyMove ==
    \/ Keeps
    \/ \E c \in Calls : Opens(c)
    \/ \E c \in Calls, cost \in Costs : Closes(c, cost)
    \/ \E u \in Users, amount \in Adjustable : Adjusts(u, amount)

\* A call that used nothing costs nothing.
LEMMA NoUsageIsFree == 0 \in Costs
<1>1. CallCost(0, 0) = 0
  BY DEF CallCost, ActualCost, ALegCost, BLegCost
<1>2. QED
  BY <1>1, AdmissionAssumption DEF Costs

\* No call costs a negative amount.
LEMMA CostsAreAmounts == \A cost \in Costs : cost \in Nat
BY PreDeductionCovers, AdmissionAssumption DEF Costs

\* A step of the request handler.
LEMMA RequestMoves ==
    ASSUME AdmissionTypeOK, NEW c \in Calls, RequestStep(c)
    PROVE  MoneyMove
<1> USE DEF AdmissionTypeOK, Goto, OpenPhases, InRequest
<1>1. CASE Refuse(c)
  BY <1>1 DEF Refuse, MoneyMove, Keeps
<1>2. CASE PreDeduct(c)
  BY <1>2 DEF PreDeduct, MoneyMove, Opens
<1>3. CASE AcquireSlot(c)
  BY <1>3 DEF AcquireSlot, SlotIncrement, moneyVars, MoneyMove, Keeps
<1>4. CASE AcquireSlotFails(c)
  BY <1>4 DEF AcquireSlotFails, MoneyMove, Keeps
<1>5. CASE RollbackSlot(c)
  BY <1>5 DEF RollbackSlot, SlotIncrement, moneyVars, billingVars, MoneyMove, Keeps
<1>6. CASE Launch(c) \/ RouteFails(c)
  BY <1>6 DEF Launch, RouteFails, MoneyMove, Keeps
<1>7. CASE ReleaseSlot(c)
  BY <1>7 DEF ReleaseSlot, SlotIncrement, moneyVars, billingVars, MoneyMove, Keeps
<1>8. CASE FloorSlot(c)
  BY <1>8 DEF FloorSlot, SlotFloor, moneyVars, billingVars, MoneyMove, Keeps
<1>9. CASE Refund(c)
  <2>1. CASE FinalizeTx(c, 0)
    <3>1. Closes(c, 0)
      BY <1>9, <2>1 DEF Refund, Closes
    <3>2. QED
      BY <3>1, NoUsageIsFree DEF MoneyMove
  <2>2. CASE UNCHANGED billingVars
    BY <1>9, <2>2 DEF Refund, billingVars, MoneyMove, Keeps
  <2>3. QED
    BY <1>9, <2>1, <2>2 DEF Refund
<1>10. CASE ClientGone(c)
  BY <1>10 DEF ClientGone, MoneyMove, Keeps
<1>11. QED
  BY <1>1, <1>2, <1>3, <1>4, <1>5, <1>6, <1>7, <1>8, <1>9, <1>10 DEF RequestStep

\* A step of finalizeCall.
LEMMA FinalizeMoves ==
    ASSUME AdmissionTypeOK, NEW c \in Calls, FinalizeStep(c)
    PROVE  MoneyMove
<1> USE DEF AdmissionTypeOK, Goto, OpenPhases, InRequest
<1>1. ASSUME NEW a \in Durations, NEW b \in Durations, Settle(c, a, b)
      PROVE  MoneyMove
  <2>1. CallCost(a, b) \in Costs
    BY DEF Costs
  <2>2. Closes(c, CallCost(a, b))
    BY <1>1 DEF Settle, Closes
  <2>3. QED
    BY <2>1, <2>2 DEF MoneyMove
<1>2. CASE SettleFails(c)
  BY <1>2 DEF SettleFails, MoneyMove, Keeps
<1>3. CASE Unslot(c)
  BY <1>3 DEF Unslot, SlotIncrement, moneyVars, billingVars, MoneyMove, Keeps
<1>4. CASE Unfloor(c)
  BY <1>4 DEF Unfloor, SlotFloor, moneyVars, billingVars, MoneyMove, Keeps
<1>5. QED
  BY <1>1, <1>2, <1>3, <1>4 DEF FinalizeStep

\* A step of an admin or of Redis.
LEMMA AccountMoves ==
    ASSUME AdmissionTypeOK, NEW u \in Users, AccountStep(u)
    PROVE  MoneyMove
<1> USE DEF AdmissionTypeOK
<1>a. AdminAmount \in Nat \ {0}
  BY BillingAssumption
<1>1. CASE Topup(u)
  <2>1. AdminAmount \in Adjustable
    BY <1>a DEF Adjustable
  <2>2. Adjusts(u, AdminAmount)
    BY <1>1 DEF Topup, TopupTx, Adjusts
  <2>3. QED
    BY <2>1, <2>2 DEF MoneyMove
<1>2. CASE Deduct(u)
  <2>1. -AdminAmount \in Adjustable
    BY <1>2 DEF Adjustable, Deduct, Spend
  <2>2. /\ balance[u] - AdminAmount = balance[u] + (-AdminAmount)
        /\ funded[u] - AdminAmount = funded[u] + (-AdminAmount)
    BY <1>a DEF BillingTypeOK
  <2>3. Adjusts(u, -AdminAmount)
    BY <1>2, <2>2 DEF Deduct, DeductTx, Adjusts
  <2>4. QED
    BY <2>1, <2>3 DEF MoneyMove
<1>3. CASE EvictSlots(u)
  BY <1>3 DEF EvictSlots, SlotKeyLost, SlotFloor, moneyVars, MoneyMove, Keeps
<1>4. QED
  BY <1>1, <1>2, <1>3 DEF AccountStep

\* Every step of the system is one of the four.
LEMMA EveryStepMoves ==
    ASSUME AdmissionTypeOK, [AdmissionNext]_admissionVars
    PROVE  MoneyMove
<1>1. CASE \E c \in Calls : RequestStep(c) \/ FinalizeStep(c)
  BY <1>1, RequestMoves, FinalizeMoves
<1>2. CASE \E u \in Users : AccountStep(u)
  BY <1>2, AccountMoves
<1>3. CASE Crash
  BY <1>3 DEF Crash, ProcessLost, Terminal, MoneyMove, Keeps, OpenPhases, InRequest
<1>4. CASE UNCHANGED admissionVars
  BY <1>4 DEF admissionVars, MoneyMove, Keeps
<1>5. QED
  BY <1>1, <1>2, <1>3, <1>4 DEF AdmissionNext, AllDone

--------------------------------------------------------------------------------
(* The invariant *)

\* SettledOnce is not inductive: nothing in it keeps Refund or Settle from
\* appending a third row.  The phase does: rows are written only on the way
\* out of the phases in which the call has exactly one.
RowsMatchPhase ==
    \A c \in Calls :
        /\ phase[c] = "idle" => txs[c] = <<>>
        /\ phase[c] \in OpenPhases => Len(txs[c]) = 1

MoneyInv == AdmissionTypeOK /\ RowsMatchPhase /\ SettledOnce

\* What SettledOnce says of the rows of one call.
SettledRows(rows) ==
    /\ Len(rows) <= 2
    /\ Len(rows) >= 1 => rows[1].type = "pre_deduct"
    /\ Len(rows) = 2 => rows[2].type # "pre_deduct"

\* SettledOnce, call by call.
LEMMA SettledByCall == SettledOnce <=> \A c \in Calls : SettledRows(txs[c])
BY DEF SettledOnce, SettledRows

\* The first row, the pre-deduction, settles nothing.
LEMMA FirstRow ==
    ASSUME NEW tx, tx.type = "pre_deduct"
    PROVE  /\ SettledRows(Append(<<>>, tx))
           /\ Len(Append(<<>>, tx)) = 1
<1>1. Append(<<>>, tx) = <<tx>>
  OBVIOUS
<1>2. Len(<<tx>>) = 1 /\ <<tx>>[1] = tx
  OBVIOUS
<1>3. QED
  BY <1>1, <1>2 DEF SettledRows

\* Appending puts the element after the sequence and leaves the rest alone.
LEMMA AppendLayout ==
    ASSUME NEW S, NEW seq \in Seq(S), NEW elt \in S
    PROVE  /\ Len(Append(seq, elt)) = Len(seq) + 1
           /\ \A i \in 1..Len(seq) : Append(seq, elt)[i] = seq[i]
           /\ Append(seq, elt)[Len(seq) + 1] = elt
OBVIOUS

\* The second, which Finalize writes, does.
LEMMA SecondRow ==
    ASSUME NEW rows \in Seq(TxRow), NEW tx \in TxRow, Len(rows) = 1,
           SettledRows(rows), tx.type # "pre_deduct"
    PROVE  /\ SettledRows(Append(rows, tx))
           /\ Len(Append(rows, tx)) = 2
<1>a. /\ Len(Append(rows, tx)) = Len(rows) + 1
      /\ \A i \in 1..Len(rows) : Append(rows, tx)[i] = rows[i]
      /\ Append(rows, tx)[Len(rows) + 1] = tx
  BY AppendLayout, Zenon
<1>1. Len(Append(rows, tx)) = 2
  BY <1>a
<1>2. Append(rows, tx)[1] = rows[1]
  BY <1>a
<1>3. Append(rows, tx)[2] = tx
  BY <1>a
<1>4. QED
  BY <1>1, <1>2, <1>3 DEF SettledRows

\* No call has a row before its request arrives.
LEMMA MoneyInit == AdmissionInit => MoneyInv
<1> SUFFICES ASSUME AdmissionInit PROVE MoneyInv
  OBVIOUS
<1>1. AdmissionTypeOK
  BY BillingAssumption, AdmissionAssumption
     DEF AdmissionInit, BillingInit, AdmissionTypeOK, BillingTypeOK, Phases
<1>2. \A c \in Calls : phase[c] = "idle" /\ txs[c] = <<>> /\ Len(txs[c]) = 0
  BY DEF AdmissionInit, BillingInit
<1>3. QED
  BY <1>1, <1>2 DEF MoneyInv, RowsMatchPhase, SettledOnce, OpenPhases, InRequest

\* Each of the four moves keeps rows and phases in step.
LEMMA MoneyStep == MoneyInv /\ [AdmissionNext]_admissionVars => MoneyInv'
<1> SUFFICES ASSUME MoneyInv, [AdmissionNext]_admissionVars
             PROVE  MoneyInv'
  OBVIOUS
<1>1. AdmissionTypeOK'
  BY TypeStep DEF MoneyInv
<1>2. MoneyMove
  BY EveryStepMoves DEF MoneyInv
<1>t. /\ txs \in [Calls -> Seq(TxRow)]
      /\ phase \in [Calls -> Phases]
  BY DEF MoneyInv, AdmissionTypeOK, BillingTypeOK
<1>s. \A c \in Calls : SettledRows(txs[c])
  BY SettledByCall DEF MoneyInv
<1>3. CASE Keeps
  BY <1>1, <1>3 DEF MoneyInv, Keeps, RowsMatchPhase, SettledOnce
<1>4. ASSUME NEW c \in Calls, Opens(c) PROVE MoneyInv'
  <2> DEFINE tx == [type |-> "pre_deduct", amount |-> PreAmount]
  <2>1. txs' = [txs EXCEPT ![c] = Append(@, tx)] /\ txs[c] = <<>>
    BY <1>4 DEF Opens, PreDeductTx, MoneyInv, RowsMatchPhase
  <2>2. tx.type = "pre_deduct"
    OBVIOUS
  <2> HIDE DEF tx
  <2>3. SettledRows(txs'[c]) /\ Len(txs'[c]) = 1
    BY <2>1, <2>2, <1>t, FirstRow
  <2>4. \A d \in Calls \ {c} : txs'[d] = txs[d] /\ phase'[d] = phase[d]
    BY <2>1, <1>4, <1>t DEF Opens
  <2>5. phase'[c] = "acquire"
    BY <1>4, <1>t DEF Opens
  <2>6. RowsMatchPhase'
    BY <2>3, <2>4, <2>5 DEF MoneyInv, RowsMatchPhase
  <2>7. \A d \in Calls : SettledRows(txs'[d])
    BY <1>s, <2>3, <2>4
  <2>8. QED
    BY <1>1, <2>6, <2>7 DEF MoneyInv, SettledOnce, SettledRows
<1>5. ASSUME NEW c \in Calls, NEW cost \in Costs, Closes(c, cost) PROVE MoneyInv'
  <2> DEFINE tx == FinalizeRow(cost)
  <2>1. txs' = [txs EXCEPT ![c] = Append(@, tx)] /\ Len(txs[c]) = 1
    BY <1>5 DEF Closes, FinalizeTx, MoneyInv, RowsMatchPhase
  <2>2. tx.type # "pre_deduct" /\ tx \in TxRow
    BY FinalizeRowFacts, CostsAreAmounts
  <2> HIDE DEF tx
  <2>3. txs[c] \in Seq(TxRow)
    BY <1>t
  <2>4. SettledRows(txs'[c])
    BY <2>1, <2>2, <2>3, <1>t, <1>s, SecondRow
  <2>5. \A d \in Calls \ {c} : txs'[d] = txs[d] /\ phase'[d] = phase[d]
    BY <2>1, <1>5, <1>t DEF Closes
  <2>6. phase'[c] \in {"rejected", "unslot"}
    BY <1>5, <1>t DEF Closes
  <2>7. RowsMatchPhase'
    BY <2>5, <2>6 DEF MoneyInv, RowsMatchPhase, OpenPhases, InRequest
  <2>8. \A d \in Calls : SettledRows(txs'[d])
    BY <1>s, <2>4, <2>5
  <2>9. QED
    BY <1>1, <2>7, <2>8 DEF MoneyInv, SettledOnce, SettledRows
<1>6. ASSUME NEW u \in Users, NEW amount, Adjusts(u, amount) PROVE MoneyInv'
  BY <1>1, <1>6 DEF MoneyInv, Adjusts, RowsMatchPhase, SettledOnce
<1>7. QED
  BY <1>2, <1>3, <1>4, <1>5, <1>6 DEF MoneyMove

\* Rows and phases agree in every reachable state.
LEMMA MoneyAlways == AdmissionSpec => []MoneyInv
BY MoneyInit, MoneyStep, PTL DEF AdmissionSpec

\* A call is settled at most once, and only after its pre-deduction, by
\* whichever of finalizeCall and InitiateCallback's error paths gets there,
\* through every interleaving, fault and crash.
THEOREM SettledOnceHolds == AdmissionSpec => []SettledOnce
<1>1. MoneyInv => SettledOnce
  BY DEF MoneyInv
<1>2. QED
  BY MoneyAlways, <1>1, PTL

--------------------------------------------------------------------------------
(* The refinement of Escrow *)

\* The holds of the accounts, as Escrow sees them.
Holds == [c \in Calls |-> HoldOf(c)]

\* HoldOf, by the number of rows.
HoldFor(n) == CASE n = 0 -> "none" [] n = 1 -> "held" [] OTHER -> "closed"

\* A step that writes rows of one call moves the hold of that call only.
LEMMA HoldMoves ==
    ASSUME NEW c \in Calls, \A d \in Calls \ {c} : txs'[d] = txs[d]
    PROVE  Holds' = [Holds EXCEPT ![c] = HoldFor(Len(txs'[c]))]
<1>1. Holds = [d \in Calls |-> HoldFor(Len(txs[d]))]
  BY DEF Holds, HoldOf, HoldFor
<1>2. Holds' = [d \in Calls |-> HoldFor(Len(txs'[d]))]
  BY DEF Holds, HoldOf, HoldFor
<1>3. QED
  BY <1>1, <1>2

\* Admission starts where Escrow starts.
LEMMA EscrowInitially == AdmissionInit => E!EscrowInit
BY DEF AdmissionInit, BillingInit, E!EscrowInit, HoldOf

\* Every step of Admission is a step of Escrow, or leaves balances and holds
\* alone.
LEMMA EscrowSteps ==
    ASSUME MoneyInv, [AdmissionNext]_admissionVars
    PROVE  [E!EscrowNext]_(E!escrowVars)
<1>t. /\ txs \in [Calls -> Seq(TxRow)]
      /\ balance \in [Users -> Int]
      /\ PreAmount \in Nat
      /\ UserOf \in [Calls -> Users]
  BY PreDeductionCovers, BillingAssumption DEF MoneyInv, AdmissionTypeOK, BillingTypeOK
<1>m. MoneyMove
  BY EveryStepMoves DEF MoneyInv
<1>1. CASE Keeps
  BY <1>1 DEF Keeps, E!escrowVars, HoldOf
<1>2. ASSUME NEW c \in Calls, Opens(c) PROVE E!EscrowNext
  <2>1. txs[c] = <<>> /\ HoldOf(c) = "none"
    BY <1>2 DEF Opens, MoneyInv, RowsMatchPhase, HoldOf
  <2>2. /\ Len(txs'[c]) = 1
        /\ \A d \in Calls \ {c} : txs'[d] = txs[d]
    BY <1>2, <1>t, <2>1 DEF Opens, PreDeductTx
  <2>3. Holds' = [Holds EXCEPT ![c] = "held"]
    BY <2>2, HoldMoves DEF HoldFor
  <2>4. E!Hold(c)
    BY <1>2, <2>1, <2>3 DEF Opens, PreDeductTx, Affordable, E!Hold, Holds
  <2>5. QED
    BY <2>4 DEF E!EscrowNext
<1>3. ASSUME NEW c \in Calls, NEW cost \in Costs, Closes(c, cost) PROVE E!EscrowNext
  <2>1. Len(txs[c]) = 1 /\ HoldOf(c) = "held"
    BY <1>3 DEF Closes, MoneyInv, RowsMatchPhase, HoldOf
  <2>2. cost \in Nat /\ FinalizeRow(cost) \in TxRow /\ Signed(FinalizeRow(cost)) = PreAmount - cost
    BY CostsAreAmounts, FinalizeRowFacts
  <2>3. /\ Len(txs'[c]) = 2
        /\ \A d \in Calls \ {c} : txs'[d] = txs[d]
    <3>1. txs' = [txs EXCEPT ![c] = Append(txs[c], FinalizeRow(cost))]
      BY <1>3 DEF Closes, FinalizeTx
    <3>2. Len(Append(txs[c], FinalizeRow(cost))) = Len(txs[c]) + 1
      <4>1. txs[c] \in Seq(TxRow)
        BY <1>t
      <4>2. FinalizeRow(cost) \in TxRow
        BY <2>2
      <4>3. QED
        BY <4>1, <4>2, AppendLayout, Zenon
    <3>3. QED
      BY <1>t, <2>1, <3>1, <3>2
  <2>4. Holds' = [Holds EXCEPT ![c] = "closed"]
    BY <2>3, HoldMoves DEF HoldFor
  <2>5. balance' = [balance EXCEPT ![UserOf[c]] = @ + PreAmount - cost]
    <3>1. balance[UserOf[c]] + (PreAmount - cost) = balance[UserOf[c]] + PreAmount - cost
      BY <1>t, <2>2
    <3>2. QED
      BY <1>3, <2>2, <3>1 DEF Closes, FinalizeTx
  <2>6. E!Close(c, cost)
    BY <2>1, <2>4, <2>5 DEF E!Close, Holds
  <2>7. QED
    BY <2>6 DEF E!EscrowNext, Costs
<1>4. ASSUME NEW u \in Users, NEW amount \in Adjustable, Adjusts(u, amount) PROVE E!EscrowNext
  <2>1. Holds' = Holds
    BY <1>4 DEF Adjusts, Holds, HoldOf
  <2>2. E!Adjust(u, amount)
    BY <1>4, <2>1 DEF Adjusts, E!Adjust, Holds
  <2>3. amount \in {AdminAmount, -AdminAmount}
    BY DEF Adjustable
  <2>4. QED
    BY <2>2, <2>3 DEF E!EscrowNext
<1>5. QED
  BY <1>m, <1>1, <1>2, <1>3, <1>4 DEF MoneyMove

\* Admission implements Escrow: whatever requests, rejections, settlements,
\* faults and crashes interleave, an account sees a hold, the single release
\* of that hold against the call's cost, or an adjustment by an admin.
THEOREM AdmissionImplementsEscrow == AdmissionSpec => EscrowSpec
<1>1. MoneyInv /\ [AdmissionNext]_admissionVars => [E!EscrowNext]_(E!escrowVars)
  BY EscrowSteps
<1>2. QED
  BY EscrowInitially, <1>1, MoneyAlways, PTL DEF AdmissionSpec, EscrowSpec, E!EscrowSpec

--------------------------------------------------------------------------------
(* The credit line *)

\* Calls stay within the 30 minutes that PreDeduct pays for, no admin deducts,
\* and no account starts below its credit line.
PrepaidOnly ==
    /\ Durations \subseteq 0..1800
    /\ Budget["deduct"] = 0
    /\ \A u \in Users : InitialBalance[u] >= -CreditLimit[u]

CreditInv == MoneyInv /\ CreditRespected /\ left["deduct"] = 0

\* No step increases what is left of the admins' deductions.
LEMMA NoDeduction ==
    ASSUME AdmissionTypeOK, left["deduct"] = 0, [AdmissionNext]_admissionVars
    PROVE  left'["deduct"] = 0
<1> USE DEF AdmissionTypeOK, FaultKinds, Spend, RequestFails
<1>1. ASSUME NEW c \in Calls, RequestStep(c) PROVE left'["deduct"] = 0
  BY <1>1 DEF RequestStep, Refuse, PreDeduct, AcquireSlot, AcquireSlotFails, RollbackSlot,
              Launch, RouteFails, ReleaseSlot, FloorSlot, Refund, ClientGone
<1>2. ASSUME NEW c \in Calls, FinalizeStep(c) PROVE left'["deduct"] = 0
  BY <1>2 DEF FinalizeStep, Settle, SettleFails, Unslot, Unfloor
<1>3. ASSUME NEW u \in Users, AccountStep(u) PROVE left'["deduct"] = 0
  BY <1>3 DEF AccountStep, Topup, Deduct, EvictSlots
<1>4. CASE Crash \/ UNCHANGED admissionVars
  BY <1>4 DEF Crash, admissionVars
<1>5. QED
  BY <1>1, <1>2, <1>3, <1>4 DEF AdmissionNext, AllDone

\* A hold stays above the line by PreDeduct's check; giving back what is left of
\* it and a top-up only raise the balance.
LEMMA CreditStep ==
    ASSUME PrepaidOnly, CreditInv, [AdmissionNext]_admissionVars
    PROVE  CreditInv'
<1>1. MoneyInv' /\ left'["deduct"] = 0
  BY MoneyStep, NoDeduction DEF CreditInv, MoneyInv
<1>t. /\ balance \in [Users -> Int]
      /\ CreditLimit \in [Users -> Nat]
      /\ UserOf \in [Calls -> Users]
      /\ PreAmount \in Nat
      /\ AdminAmount \in Nat
  BY BillingAssumption, PreDeductionCovers DEF CreditInv, MoneyInv, AdmissionTypeOK, BillingTypeOK
<1>m. MoneyMove
  BY EveryStepMoves DEF CreditInv, MoneyInv
<1>2. CASE Keeps
  BY <1>1, <1>2 DEF Keeps, CreditInv, CreditRespected
<1>3. ASSUME NEW c \in Calls, Opens(c) PROVE CreditRespected'
  <2>1. /\ balance' = [balance EXCEPT ![UserOf[c]] = balance[UserOf[c]] - PreAmount]
        /\ balance[UserOf[c]] + CreditLimit[UserOf[c]] >= PreAmount
    BY <1>3 DEF Opens, PreDeductTx, Affordable
  <2>2. \A u \in Users : balance[u] >= -CreditLimit[u]
    BY DEF CreditInv, CreditRespected
  <2>3. \A u \in Users : balance'[u] >= -CreditLimit[u]
    BY <1>t, <2>1, <2>2
  <2>4. QED
    BY <2>3 DEF CreditRespected
<1>4. ASSUME NEW c \in Calls, NEW cost \in Costs, Closes(c, cost) PROVE CreditRespected'
  <2>1. cost \in Nat /\ cost <= PreAmount
    <3>1. PICK a \in Durations, b \in Durations : cost = CallCost(a, b)
      BY DEF Costs
    <3>2. a \in Nat /\ b \in Nat /\ a <= 1800 /\ b <= 1800
      BY <3>1 DEF PrepaidOnly
    <3>3. QED
      BY <3>1, <3>2, PreDeductionCovers
  <2>2. Signed(FinalizeRow(cost)) = PreAmount - cost
    BY <2>1, FinalizeRowFacts
  <2>3. QED
    BY <1>4, <1>t, <2>1, <2>2 DEF Closes, FinalizeTx, CreditInv, CreditRespected
<1>5. ASSUME NEW u \in Users, NEW amount \in Adjustable, Adjusts(u, amount) PROVE CreditRespected'
  <2>1. amount = AdminAmount
    BY DEF Adjustable, CreditInv
  <2>2. QED
    BY <1>5, <1>t, <2>1 DEF Adjusts, CreditInv, CreditRespected
<1>6. QED
  BY <1>1, <1>m, <1>2, <1>3, <1>4, <1>5 DEF MoneyMove, CreditInv

\* PreDeduct's credit check is enough for good: as long as no call outlasts the
\* 30 minutes paid for and no admin deducts, no number of concurrent calls and
\* no fault takes a balance below the credit line.
THEOREM CreditLineHolds ==
    ASSUME PrepaidOnly
    PROVE  AdmissionSpec => []CreditRespected
<1>1. AdmissionInit => CreditInv
  BY MoneyInit, BillingAssumption
     DEF CreditInv, CreditRespected, PrepaidOnly, AdmissionInit, BillingInit
<1>2. CreditInv /\ [AdmissionNext]_admissionVars => CreditInv'
  BY CreditStep
<1>3. CreditInv => CreditRespected
  BY DEF CreditInv
<1>4. QED
  BY <1>1, <1>2, <1>3, PTL DEF AdmissionSpec

--------------------------------------------------------------------------------
(* What the rows of a call add up to *)

\* The first row of a call takes the pre-deduction from the account.
HoldTaken == \A c \in Calls : Len(txs[c]) >= 1 => Signed(txs[c][1]) = -PreAmount

\* A call that was not let in yet has no rows or one; the two rows of a
\* closed one add up to what it cost.
LEMMA ClosedRows ==
    ASSUME MoneyInv, HoldTaken, NEW c \in Calls, NEW cost \in Costs,
           Len(txs[c]) = 1, FinalizeTx(c, cost)
    PROVE  /\ Len(txs'[c]) = 2
           /\ Signed(txs'[c][1]) = -PreAmount
           /\ Signed(txs'[c][1]) + Signed(txs'[c][2]) = -cost
<1> DEFINE tx == FinalizeRow(cost)
<1>1. txs \in [Calls -> Seq(TxRow)] /\ txs[c] \in Seq(TxRow)
  BY DEF MoneyInv, AdmissionTypeOK, BillingTypeOK
<1>2. cost \in Nat /\ PreAmount \in Nat
  BY CostsAreAmounts, PreDeductionCovers
<1>3. tx \in TxRow /\ Signed(tx) = PreAmount - cost
  BY <1>2, FinalizeRowFacts
<1>4. txs'[c] = Append(txs[c], tx)
  BY <1>1 DEF FinalizeTx
<1> HIDE DEF tx
<1>5. /\ Len(txs'[c]) = 2
      /\ txs'[c][1] = txs[c][1]
      /\ txs'[c][2] = tx
  <2>1. /\ Len(Append(txs[c], tx)) = Len(txs[c]) + 1
        /\ \A i \in 1..Len(txs[c]) : Append(txs[c], tx)[i] = txs[c][i]
        /\ Append(txs[c], tx)[Len(txs[c]) + 1] = tx
    BY <1>1, <1>3, AppendLayout, Zenon
  <2>2. QED
    BY <1>4, <2>1
<1>6. Signed(txs[c][1]) = -PreAmount
  BY DEF HoldTaken
<1>7. QED
  BY <1>2, <1>3, <1>5, <1>6

LEMMA HoldTakenStep ==
    ASSUME MoneyInv, HoldTaken, [AdmissionNext]_admissionVars
    PROVE  HoldTaken'
<1>1. MoneyMove
  BY EveryStepMoves DEF MoneyInv
<1>t. txs \in [Calls -> Seq(TxRow)] /\ PreAmount \in Nat
  BY PreDeductionCovers DEF MoneyInv, AdmissionTypeOK, BillingTypeOK
<1>2. ASSUME txs' = txs PROVE HoldTaken'
  BY <1>2 DEF HoldTaken
<1>3. ASSUME NEW c \in Calls, Opens(c) PROVE HoldTaken'
  <2> DEFINE tx == [type |-> "pre_deduct", amount |-> PreAmount]
  <2>1. txs' = [txs EXCEPT ![c] = Append(@, tx)] /\ txs[c] = <<>>
    BY <1>3 DEF Opens, PreDeductTx, MoneyInv, RowsMatchPhase
  <2>2. Signed(tx) = -PreAmount
    BY DEF Signed
  <2> HIDE DEF tx
  <2>3. txs'[c] = <<tx>>
    BY <1>t, <2>1
  <2>4. txs'[c][1] = tx
    BY <2>3
  <2>5. \A d \in Calls \ {c} : txs'[d] = txs[d]
    BY <1>t, <2>1
  <2>6. QED
    BY <2>2, <2>4, <2>5 DEF HoldTaken
<1>4. ASSUME NEW c \in Calls, NEW cost \in Costs, Closes(c, cost) PROVE HoldTaken'
  <2>1. Len(txs[c]) = 1 /\ FinalizeTx(c, cost)
    BY <1>4 DEF Closes, MoneyInv, RowsMatchPhase
  <2>2. Signed(txs'[c][1]) = -PreAmount
    BY <2>1, ClosedRows
  <2>3. \A d \in Calls \ {c} : txs'[d] = txs[d]
    BY <1>t, <2>1 DEF FinalizeTx
  <2>4. QED
    BY <2>2, <2>3 DEF HoldTaken
<1>5. QED
  BY <1>1, <1>2, <1>3, <1>4 DEF MoneyMove, Keeps, Adjusts

LEMMA HoldTakenAlways == AdmissionSpec => []HoldTaken
<1>1. AdmissionInit => HoldTaken
  <2>1. AdmissionInit => \A c \in Calls : Len(txs[c]) = 0
    BY MoneyInit DEF AdmissionInit, BillingInit
  <2>2. QED
    BY <2>1 DEF HoldTaken
<1>2. QED
  BY <1>1, HoldTakenStep, MoneyAlways, PTL DEF AdmissionSpec

--------------------------------------------------------------------------------
(* A rejected request keeps nothing *)

\* No client hangs up on its request and no refund fails.
RefundsWork ==
    /\ left["client"] = 0 /\ left["db"] = 0
    /\ \A c \in Calls : ~gone[c]

RejectedInv == RefundsWork /\ RejectedKeepsNothing

\* A request is rejected before it holds anything, or after its refund.
LEMMA IntoRejected ==
    ASSUME AdmissionTypeOK, [AdmissionNext]_admissionVars, NEW c \in Calls,
           phase'[c] = "rejected", phase[c] # "rejected"
    PROVE  Refuse(c) \/ Refund(c)
<1> USE DEF Goto
<1>0. phase \in [Calls -> Phases]
  BY DEF AdmissionTypeOK
<1>1. ASSUME NEW d \in Calls, RequestStep(d) \/ FinalizeStep(d)
      PROVE  Refuse(c) \/ Refund(c)
  <2>1. CASE d # c
    <3>1. phase' = phase \/ \E p : phase' = [phase EXCEPT ![d] = p]
      BY <1>1 DEF RequestStep, Refuse, PreDeduct, AcquireSlot, AcquireSlotFails, RollbackSlot,
         Launch, RouteFails, ReleaseSlot, FloorSlot, Refund, ClientGone,
         FinalizeStep, Settle, SettleFails, Unslot, Unfloor
    <3>2. QED
      BY <1>0, <2>1, <3>1
  <2>2. CASE d = c
    <3>1. \/ Refuse(c) \/ Refund(c)
          \/ phase' = phase
          \/ \E p \in Phases \ {"rejected"} : phase' = [phase EXCEPT ![c] = p]
      BY <1>1, <2>2 DEF RequestStep, PreDeduct, AcquireSlot, AcquireSlotFails, RollbackSlot,
         Launch, RouteFails, ReleaseSlot, FloorSlot, ClientGone,
         FinalizeStep, Settle, SettleFails, Unslot, Unfloor, Phases
    <3>2. QED
      BY <1>0, <3>1
  <2>3. QED
    BY <2>1, <2>2
<1>2. ASSUME NEW u \in Users, AccountStep(u)
      PROVE  phase' = phase
  BY <1>2 DEF AccountStep, Topup, Deduct, EvictSlots
<1>3. ~Crash
  BY <1>0 DEF Crash, ProcessLost
<1>4. ~(AllDone \/ UNCHANGED admissionVars)
  BY DEF AllDone, admissionVars
<1>5. QED
  BY <1>1, <1>2, <1>3, <1>4 DEF AdmissionNext

LEMMA RefundsWorkStep ==
    ASSUME AdmissionTypeOK, RefundsWork, [AdmissionNext]_admissionVars
    PROVE  RefundsWork'
<1> USE DEF AdmissionTypeOK, FaultKinds, Spend, RequestFails, RefundsWork
<1>1. ASSUME NEW c \in Calls, RequestStep(c) PROVE RefundsWork'
  BY <1>1 DEF RequestStep, Refuse, PreDeduct, AcquireSlot, AcquireSlotFails, RollbackSlot,
              Launch, RouteFails, ReleaseSlot, FloorSlot, Refund, ClientGone
<1>2. ASSUME NEW c \in Calls, FinalizeStep(c) PROVE RefundsWork'
  BY <1>2 DEF FinalizeStep, Settle, SettleFails, Unslot, Unfloor
<1>3. ASSUME NEW u \in Users, AccountStep(u) PROVE RefundsWork'
  BY <1>3 DEF AccountStep, Topup, Deduct, EvictSlots
<1>4. CASE Crash \/ UNCHANGED admissionVars
  BY <1>4 DEF Crash, admissionVars
<1>5. QED
  BY <1>1, <1>2, <1>3, <1>4 DEF AdmissionNext, AllDone

LEMMA RejectedStep ==
    ASSUME MoneyInv, HoldTaken, RejectedInv, [AdmissionNext]_admissionVars
    PROVE  RejectedInv'
<1>1. RefundsWork'
  BY RefundsWorkStep DEF RejectedInv, MoneyInv
<1>t. txs \in [Calls -> Seq(TxRow)]
  BY DEF MoneyInv, AdmissionTypeOK, BillingTypeOK
<1>2. ASSUME NEW c \in Calls, phase[c] = "rejected"
      PROVE  txs'[c] = txs[c]
  <2>1. MoneyMove
    BY EveryStepMoves DEF MoneyInv
  <2>2. ASSUME NEW d \in Calls, NEW cost \in Costs, Opens(d) \/ Closes(d, cost)
        PROVE  txs'[c] = txs[c]
    <3>1. d # c
      BY <1>2, <2>2 DEF Opens, Closes, OpenPhases, InRequest
    <3>2. QED
      BY <1>t, <2>2, <3>1 DEF Opens, Closes, PreDeductTx, FinalizeTx
  <2>3. QED
    BY <2>1, <2>2, NoUsageIsFree DEF MoneyMove, Keeps, Adjusts
<1>3. ASSUME NEW c \in Calls, phase'[c] = "rejected"
      PROVE  \/ txs'[c] = <<>>
             \/ /\ Len(txs'[c]) = 2
                /\ Signed(txs'[c][1]) + Signed(txs'[c][2]) = 0
  <2>1. CASE phase[c] = "rejected"
    BY <1>2, <2>1 DEF RejectedInv, RejectedKeepsNothing
  <2>2. CASE phase[c] # "rejected" /\ Refuse(c)
    BY <2>2 DEF Refuse, MoneyInv, RowsMatchPhase
  <2>3. CASE phase[c] # "rejected" /\ Refund(c)
    <3>1. phase[c] = "refund" /\ FinalizeTx(c, 0)
      BY <2>3 DEF Refund, RequestFails, Spend, RejectedInv, RefundsWork
    <3>2. Len(txs[c]) = 1
      BY <3>1 DEF MoneyInv, RowsMatchPhase, OpenPhases, InRequest
    <3>3. QED
      BY <3>1, <3>2, NoUsageIsFree, ClosedRows
  <2>4. QED
    BY <1>3, <2>1, <2>2, <2>3, IntoRejected DEF MoneyInv
<1>4. QED
  BY <1>1, <1>3 DEF RejectedInv, RejectedKeepsNothing

\* InitiateCallback's error paths leave no money behind: where clients wait
\* for their answers and the refund does not fail, a rejected request has no
\* row or a pre-deduction and a refund of all of it, for any number of calls,
\* rates and accounts, whatever Redis does and whenever the process dies.
THEOREM RejectedKeepsNothingHolds ==
    ASSUME Budget["client"] = 0, Budget["db"] = 0
    PROVE  AdmissionSpec => []RejectedKeepsNothing
<1>1. AdmissionInit => RejectedInv
  BY DEF AdmissionInit, RejectedInv, RefundsWork, RejectedKeepsNothing
<1>2. RejectedInv => RejectedKeepsNothing
  BY DEF RejectedInv
<1>3. QED
  BY <1>1, <1>2, RejectedStep, MoneyAlways, HoldTakenAlways, PTL DEF AdmissionSpec

--------------------------------------------------------------------------------
(* The transactions table explains the balance *)

LEMMA NetOfNone == Net(<<>>) = 0
<1> DEFINE none == [i \in DOMAIN <<>> |-> Signed(<<>>[i])]
<1>1. DOMAIN none = {}
  OBVIOUS
<1> HIDE DEF none
<1>2. SumFunction(none) = 0
  BY <1>1, SumAll, SumEmpty
<1>3. QED
  BY <1>2 DEF Net, none

\* A list of rows adds up to a number, and one row more to that much more.
LEMMA NetOfAppend ==
    ASSUME NEW rows \in Seq(TxRow), NEW tx \in TxRow
    PROVE  /\ Net(rows) \in Int /\ Signed(tx) \in Int
           /\ Net(Append(rows, tx)) = Net(rows) + Signed(tx)
<1>a. /\ Len(Append(rows, tx)) = Len(rows) + 1
      /\ \A i \in 1..Len(rows) : Append(rows, tx)[i] = rows[i]
      /\ Append(rows, tx)[Len(rows) + 1] = tx
  BY AppendLayout, Zenon
<1> DEFINE n == Len(rows)
           more == Append(rows, tx)
           old == [i \in 1..n |-> Signed(rows[i])]
           new == [i \in 1..(n + 1) |-> Signed(more[i])]
<1>0. \A row \in TxRow : Signed(row) \in Int
  BY DEF TxRow, Signed
<1>1. /\ n \in Nat /\ DOMAIN rows = 1..n /\ Len(more) = n + 1
      /\ \A i \in 1..n : rows[i] \in TxRow /\ more[i] = rows[i]
      /\ more[n + 1] = tx
  <2>1. n \in Nat /\ DOMAIN rows = 1..n /\ \A i \in 1..n : rows[i] \in TxRow
    OBVIOUS
  <2>2. /\ Len(more) = n + 1 /\ \A i \in 1..n : more[i] = rows[i]
        /\ more[n + 1] = tx
    BY <1>a
  <2>3. QED
    BY <2>1, <2>2
<1>2. DOMAIN more = 1..(n + 1)
  <2>1. more \in Seq(TxRow)
    OBVIOUS
  <2>2. DOMAIN more = 1..Len(more)
    BY <2>1
  <2>3. QED
    BY <1>1, <2>2
<1>3. Net(rows) = SumFunction(old) /\ Net(more) = SumFunction(new)
  BY <1>1, <1>2 DEF Net
<1>4. /\ \A i \in 1..n : old[i] \in Int /\ new[i] = old[i]
      /\ new[n + 1] = Signed(tx)
      /\ DOMAIN old = 1..n /\ DOMAIN new = 1..(n + 1)
  BY <1>0, <1>1
<1>5. Signed(tx) \in Int
  BY <1>0
<1> HIDE DEF n, more, old, new
<1>6. IsFiniteSet(1..n) /\ IsFiniteSet(1..(n + 1))
  BY <1>1, FS_Interval
<1>7. (1..(n + 1)) \ {n + 1} = 1..n /\ n + 1 \in 1..(n + 1)
  BY <1>1
<1>8. Numbers(old, 1..n) /\ Numbers(new, 1..(n + 1))
  <2>1. \A i \in 1..(n + 1) : i \in 1..n \/ i = n + 1
    BY <1>1
  <2>2. QED
    BY <1>4, <1>5, <2>1 DEF Numbers
<1>9. SumFunctionOnSet(old, 1..n) \in Int
  BY <1>6, <1>8, SumIsNumber
<1>10. SumFunctionOnSet(new, 1..n) = SumFunctionOnSet(old, 1..n)
  BY <1>4, <1>6, <1>8, SumSame
<1>11. SumFunctionOnSet(new, 1..(n + 1)) = new[n + 1] + SumFunctionOnSet(new, (1..(n + 1)) \ {n + 1})
  BY <1>6, <1>7, <1>8, SumElement
<1>12. SumFunctionOnSet(new, 1..(n + 1)) = SumFunctionOnSet(old, 1..n) + Signed(tx)
  <2> DEFINE before == SumFunctionOnSet(old, 1..n)
             after == SumFunctionOnSet(new, 1..(n + 1))
  <2>1. after = new[n + 1] + SumFunctionOnSet(new, 1..n)
    BY <1>7, <1>11
  <2>2. after = Signed(tx) + before
    BY <1>4, <1>10, <2>1
  <2>3. before \in Int
    BY <1>9
  <2> HIDE DEF before, after
  <2>4. after = before + Signed(tx)
    BY <1>5, <2>2, <2>3
  <2>5. QED
    BY <2>4 DEF before, after
<1>13. /\ SumFunction(old) = SumFunctionOnSet(old, 1..n)
       /\ SumFunction(new) = SumFunctionOnSet(new, 1..(n + 1))
  BY <1>4, SumAll
<1>14. QED
  BY <1>3, <1>5, <1>9, <1>12, <1>13 DEF more

\* What the calls have taken from the accounts and given back
Nets == [c \in Calls |-> Net(txs[c])]

LEMMA NetsAreNumbers ==
    ASSUME txs \in [Calls -> Seq(TxRow)], NEW u \in Users
    PROVE  IsFiniteSet(CallsOf(u)) /\ Numbers(Nets, CallsOf(u))
<1>1. IsFiniteSet(CallsOf(u)) /\ CallsOf(u) \in SUBSET Calls
  BY AdmissionAssumption, FS_Subset DEF CallsOf
<1>2. \E tx : tx \in TxRow
  <2>1. [type |-> "refund", amount |-> 0] \in TxRow
    BY DEF TxRow
  <2>2. QED
    BY <2>1
<1>3. \A c \in Calls : Net(txs[c]) \in Int
  BY <1>2, NetOfAppend
<1>4. QED
  BY <1>1, <1>3 DEF Numbers, Nets

\* A statement that inserts a row and changes the balance by its amount
Books(c, tx) ==
    /\ txs' = [txs EXCEPT ![c] = Append(txs[c], tx)]
    /\ balance' = [balance EXCEPT ![UserOf[c]] = balance[UserOf[c]] + Signed(tx)]
    /\ UNCHANGED funded

LEMMA BooksKeepLedger ==
    ASSUME BillingTypeOK, BalanceMatchesLedger,
           NEW c \in Calls, NEW tx \in TxRow, Books(c, tx)
    PROVE  BalanceMatchesLedger'
<1>t. /\ txs \in [Calls -> Seq(TxRow)]
      /\ balance \in [Users -> Int] /\ funded \in [Users -> Int]
      /\ UserOf \in [Calls -> Users]
  BY BillingAssumption DEF BillingTypeOK
<1>1. Signed(tx) \in Int /\ Net(txs'[c]) = Net(txs[c]) + Signed(tx)
  <2>1. txs[c] \in Seq(TxRow)
    BY <1>t
  <2>2. txs'[c] = Append(txs[c], tx)
    BY <1>t DEF Books
  <2>3. QED
    BY <2>1, <2>2, NetOfAppend
<1>2. \A d \in Calls : d # c => txs'[d] = txs[d]
  BY <1>t DEF Books
<1>3. /\ Nets'[c] = Nets[c] + Signed(tx)
      /\ \A d \in Calls : d # c => Nets'[d] = Nets[d]
  BY <1>1, <1>2 DEF Nets
<1>4. ASSUME NEW u \in Users
      PROVE  balance'[u] = funded'[u] + SumFunctionOnSet(Nets', CallsOf(u))
  <2> DEFINE S == CallsOf(u)
             before == SumFunctionOnSet(Nets, S)
             after == SumFunctionOnSet(Nets', S)
  <2>1. IsFiniteSet(S) /\ Numbers(Nets, S) /\ S \in SUBSET Calls
    BY <1>t, NetsAreNumbers DEF CallsOf
  <2>2. (c \in S => after = before + Signed(tx)) /\ (c \notin S => after = before)
    BY <1>1, <1>3, <2>1, SumChanged
  <2>3. before \in Int
    BY <2>1, SumIsNumber
  <2>4. balance[u] = funded[u] + before
    BY DEF BalanceMatchesLedger, Nets
  <2>5. c \in S <=> u = UserOf[c]
    BY DEF CallsOf
  <2> HIDE DEF S, before, after
  <2>6. /\ funded'[u] = funded[u]
        /\ u = UserOf[c] => balance'[u] = balance[u] + Signed(tx)
        /\ u # UserOf[c] => balance'[u] = balance[u]
    BY <1>t DEF Books
  <2>7. balance'[u] = funded'[u] + after
    BY <1>1, <1>t, <2>2, <2>3, <2>4, <2>5, <2>6
  <2>8. QED
    BY <2>7 DEF after, S
<1>5. QED
  BY <1>4 DEF BalanceMatchesLedger, Nets, CallsOf

LEMMA LedgerStep ==
    ASSUME MoneyInv, BalanceMatchesLedger, [AdmissionNext]_admissionVars
    PROVE  BalanceMatchesLedger'
<1>t. BillingTypeOK /\ balance \in [Users -> Int] /\ funded \in [Users -> Int]
  BY DEF MoneyInv, AdmissionTypeOK, BillingTypeOK
<1>m. MoneyMove
  BY EveryStepMoves DEF MoneyInv
<1>1. CASE Keeps
  BY <1>1 DEF Keeps, BalanceMatchesLedger, CallsOf
<1>2. ASSUME NEW c \in Calls, Opens(c) PROVE BalanceMatchesLedger'
  <2> DEFINE tx == [type |-> "pre_deduct", amount |-> PreAmount]
  <2>1. PreAmount \in Nat
    BY PreDeductionCovers
  <2>2. tx \in TxRow /\ Signed(tx) = -PreAmount
    <3>1. tx \in TxRow
      BY <2>1 DEF TxRow
    <3>2. tx.type = "pre_deduct" /\ tx.amount = PreAmount
      OBVIOUS
    <3> HIDE DEF tx
    <3>3. Signed(tx) = -PreAmount
      BY <3>2 DEF Signed
    <3>4. QED
      BY <3>1, <3>3
  <2>3. balance[UserOf[c]] - PreAmount = balance[UserOf[c]] + (-PreAmount)
    BY <1>t, <2>1, BillingAssumption
  <2>4. Books(c, tx)
    BY <1>2, <2>2, <2>3 DEF Opens, PreDeductTx, Books
  <2>5. QED
    BY <1>t, <2>2, <2>4, BooksKeepLedger
<1>3. ASSUME NEW c \in Calls, NEW cost \in Costs, Closes(c, cost) PROVE BalanceMatchesLedger'
  <2>1. FinalizeRow(cost) \in TxRow
    BY FinalizeRowFacts, CostsAreAmounts
  <2>2. Books(c, FinalizeRow(cost))
    BY <1>3 DEF Closes, FinalizeTx, Books
  <2>3. QED
    BY <1>t, <2>1, <2>2, BooksKeepLedger
<1>4. ASSUME NEW u \in Users, NEW amount \in Adjustable, Adjusts(u, amount)
      PROVE  BalanceMatchesLedger'
  <2>1. amount \in Int
    BY BillingAssumption DEF Adjustable
  <2>2. /\ balance' = [balance EXCEPT ![u] = balance[u] + amount]
        /\ funded' = [funded EXCEPT ![u] = funded[u] + amount]
        /\ txs' = txs
    BY <1>4 DEF Adjusts
  <2>3. ASSUME NEW v \in Users
        PROVE  balance'[v] = funded'[v] + SumFunctionOnSet(Nets, CallsOf(v))
    <3> DEFINE sum == SumFunctionOnSet(Nets, CallsOf(v))
    <3>1. balance[v] = funded[v] + sum
      BY DEF BalanceMatchesLedger, Nets
    <3>2. sum \in Int
      BY <1>t, NetsAreNumbers, SumIsNumber DEF BillingTypeOK
    <3> HIDE DEF sum
    <3>3. balance'[v] = funded'[v] + sum
      BY <1>t, <2>1, <2>2, <3>1, <3>2
    <3>4. QED
      BY <3>3 DEF sum
  <2>4. QED
    BY <2>2, <2>3 DEF BalanceMatchesLedger, Nets, CallsOf
<1>5. QED
  BY <1>m, <1>1, <1>2, <1>3, <1>4 DEF MoneyMove

\* Nothing moves a balance without a row of the same amount: for any number of
\* calls, accounts and rates, and whatever fails or dies between the steps, an
\* account's balance is what admins put in and took out and what its calls'
\* rows add up to.
THEOREM BalanceMatchesLedgerHolds == AdmissionSpec => []BalanceMatchesLedger
<1>1. ASSUME AdmissionInit PROVE BalanceMatchesLedger
  <2>1. txs \in [Calls -> Seq(TxRow)]
    BY <1>1, MoneyInit DEF MoneyInv, AdmissionTypeOK, BillingTypeOK
  <2>2. \A c \in Calls : Nets[c] = 0
    BY <1>1, NetOfNone DEF AdmissionInit, BillingInit, Nets
  <2>3. ASSUME NEW u \in Users PROVE SumFunctionOnSet(Nets, CallsOf(u)) = 0
    BY <2>1, <2>2, NetsAreNumbers, SumZero DEF CallsOf
  <2>4. \A u \in Users : balance[u] = funded[u] /\ funded[u] \in Int
    BY <1>1, BillingAssumption DEF AdmissionInit, BillingInit
  <2>5. \A u \in Users : balance[u] = funded[u] + SumFunctionOnSet(Nets, CallsOf(u))
    BY <2>3, <2>4
  <2>6. QED
    BY <2>5 DEF BalanceMatchesLedger, Nets
<1>2. QED
  BY <1>1, LedgerStep, MoneyAlways, PTL DEF AdmissionSpec

================================================================================
