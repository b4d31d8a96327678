------------------------------ MODULE BillingMath ------------------------------
(***************************************************************************)
(* The integer arithmetic of the billing service: amounts are fen, rates   *)
(* are fen per minute, durations are whole seconds.  Every operand is      *)
(* non-negative here, so Go's truncating division is \div.                 *)
(***************************************************************************)
EXTENDS Integers

CeilDiv(a, b) == (a + b - 1) \div b

\* A-leg usage is charged in blocks of 6 seconds.
ALegCost(dur, rate) == IF dur > 0 THEN (CeilDiv(dur, 6) * 6 * rate) \div 60 ELSE 0

\* B-leg usage is charged in blocks of 60 seconds.
BLegCost(dur, rate) == IF dur > 0 THEN (CeilDiv(dur, 60) * 60 * rate) \div 60 ELSE 0

\* What Finalize calls actualCost.
ActualCost(aDur, bDur, aRate, bRate) == ALegCost(aDur, aRate) + BLegCost(bDur, bRate)

\* What PreDeduct sets aside: 30 minutes at the combined rate.
PreDeductAmount(aRate, bRate) == (aRate + bRate) * 30
================================================================================
