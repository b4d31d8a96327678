-------------------------------- MODULE Billing --------------------------------
(***************************************************************************)
(* The billing service as its callers see it: the accounts and the         *)
(* transactions table in PostgreSQL, and the per-user concurrency counter  *)
(* kept in a Redis cluster.  An operator per endpoint or per statement     *)
(* that other processes can see in between; the modules that call the      *)
(* service conjoin them with their own control state.                      *)
(*                                                                         *)
(* PreDeduct, Finalize, Topup and Deduct lock the account row (SELECT ...  *)
(* FOR UPDATE) in one SQL transaction, hence one step each.  AcquireSlot   *)
(* and ReleaseSlot issue two Redis commands, hence two steps each.         *)
(***************************************************************************)
EXTENDS BillingMath, Sequences, Functions

CONSTANTS
    Users,          \* billing accounts
    Calls,          \* call ids (each InitiateCallback draws a fresh uuid)
    UserOf,         \* the account a call belongs to
    ARate, BRate,   \* the rates resolved for the calls
    CreditLimit,    \* billing_accounts.credit_limit, per user
    MaxConcurrent,  \* billing_accounts.max_concurrent, per user
    InitialBalance, \* balance of each account when the model starts
    AdminAmount     \* what one Topup or Deduct moves

ASSUME BillingAssumption ==
    /\ UserOf \in [Calls -> Users]
    /\ ARate \in Nat /\ BRate \in Nat
    /\ CreditLimit \in [Users -> Nat]
    /\ MaxConcurrent \in [Users -> Nat]
    /\ InitialBalance \in [Users -> Int]
    /\ AdminAmount \in Nat \ {0}

VARIABLES
    balance,  \* billing_accounts.balance, per user
    funded,   \* net amount of the account's topup and deduction rows
    txs,      \* rows of transactions whose reference_id is the call
    slots     \* the Redis counter concurrent/:user (a missing key reads 0)

moneyVars == <<balance, funded, txs>>
billingVars == <<balance, funded, txs, slots>>

PreAmount == PreDeductAmount(ARate, BRate)

\* A transactions row.  amount is never negative: the type gives the sign.
TxRow == [type : {"pre_deduct", "refund", "finalize"}, amount : Nat]
Signed(tx) == IF tx.type = "refund" THEN tx.amount ELSE -tx.amount

\* What a list of rows adds up to
Net(rows) == SumFunction([i \in DOMAIN rows |-> Signed(rows[i])])

BillingTypeOK ==
    /\ balance \in [Users -> Int]
    /\ funded \in [Users -> Int]
    /\ txs \in [Calls -> Seq(TxRow)]
    /\ slots \in [Users -> Int]

BillingInit ==
    /\ balance = InitialBalance
    /\ funded = InitialBalance
    /\ txs = [c \in Calls |-> <<>>]
    /\ slots = [u \in Users |-> 0]

--------------------------------------------------------------------------------
(* Money *)

\* Mutant: the account only has to be in credit, whatever the call may cost.
AffordableIfInCredit(u) == balance[u] + CreditLimit[u] >= 0

Affordable(u) == balance[u] + CreditLimit[u] >= PreAmount

PreDeductTx(c) ==
    LET u == UserOf[c] IN
    /\ Affordable(u)
    /\ balance' = [balance EXCEPT ![u] = @ - PreAmount]
    /\ txs' = [txs EXCEPT ![c] = Append(@, [type |-> "pre_deduct", amount |-> PreAmount])]
    /\ UNCHANGED <<funded, slots>>

\* The row Finalize inserts for a call that cost this much.
FinalizeRow(cost) ==
    IF PreAmount > cost
    THEN [type |-> "refund", amount |-> PreAmount - cost]
    ELSE [type |-> "finalize", amount |-> cost - PreAmount]

\* Mutant: usage beyond the pre-deduction is recorded, not charged.
FinalizeTxUncharged(c, cost) ==
    LET u == UserOf[c]
        tx == FinalizeRow(cost)
    IN  /\ balance' = [balance EXCEPT ![u] = IF tx.type = "refund" THEN @ + tx.amount ELSE @]
        /\ txs' = [txs EXCEPT ![c] = Append(@, tx)]
        /\ UNCHANGED <<funded, slots>>

FinalizeTx(c, cost) ==
    LET u == UserOf[c]
        tx == FinalizeRow(cost)
    IN  /\ balance' = [balance EXCEPT ![u] = @ + Signed(tx)]
        /\ txs' = [txs EXCEPT ![c] = Append(@, tx)]
        /\ UNCHANGED <<funded, slots>>

TopupTx(u) ==
    /\ balance' = [balance EXCEPT ![u] = @ + AdminAmount]
    /\ funded' = [funded EXCEPT ![u] = @ + AdminAmount]
    /\ UNCHANGED <<txs, slots>>

\* Deduct does not look at the balance or the credit limit.
DeductTx(u) ==
    /\ balance' = [balance EXCEPT ![u] = @ - AdminAmount]
    /\ funded' = [funded EXCEPT ![u] = @ - AdminAmount]
    /\ UNCHANGED <<txs, slots>>

--------------------------------------------------------------------------------
(* The concurrency counter *)

\* concurrentSlots.Increment(ctx, user, n)
SlotIncrement(u, n) ==
    /\ slots' = [slots EXCEPT ![u] = @ + n]
    /\ UNCHANGED moneyVars

\* concurrentSlots.Set(ctx, user, 0), the floor of ReleaseSlot
SlotFloor(u) ==
    /\ slots' = [slots EXCEPT ![u] = 0]
    /\ UNCHANGED moneyVars

\* The cluster runs AllKeysLRU and keys expire after 24 hours: the key goes.
SlotKeyLost(u) ==
    /\ slots[u] # 0
    /\ SlotFloor(u)
================================================================================
