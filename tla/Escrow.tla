--------------------------------- MODULE Escrow ---------------------------------
(***************************************************************************)
(* What the billing of calls promises to an account holder, with no        *)
(* requests, retries or counters: a call may set Amount aside once, if the *)
(* balance and the credit line cover it, and at most once give it back in  *)
(* exchange for the call's cost; apart from that only an admin moves the   *)
(* balance.                                                                *)
(***************************************************************************)
EXTENDS Integers

CONSTANTS Users, Calls, UserOf, Amount, CreditLimit, Costs, Adjustments, InitialBalance

VARIABLES balance, hold

escrowVars == <<balance, hold>>

EscrowInit ==
    /\ balance = InitialBalance
    /\ hold = [c \in Calls |-> "none"]

Hold(c) ==
    /\ hold[c] = "none"
    /\ balance[UserOf[c]] + CreditLimit[UserOf[c]] >= Amount
    /\ balance' = [balance EXCEPT ![UserOf[c]] = @ - Amount]
    /\ hold' = [hold EXCEPT ![c] = "held"]

Close(c, cost) ==
    /\ hold[c] = "held"
    /\ balance' = [balance EXCEPT ![UserOf[c]] = @ + Amount - cost]
    /\ hold' = [hold EXCEPT ![c] = "closed"]

Adjust(u, amount) ==
    /\ balance' = [balance EXCEPT ![u] = @ + amount]
    /\ UNCHANGED hold

EscrowNext ==
    \/ \E c \in Calls : Hold(c) \/ \E cost \in Costs : Close(c, cost)
    \/ \E u \in Users, amount \in Adjustments : Adjust(u, amount)

EscrowSpec == EscrowInit /\ [][EscrowNext]_escrowVars
=================================================================================
