------------------------------ MODULE MCAdmission ------------------------------
(***************************************************************************)
(* Small instances of Admission.                                           *)
(***************************************************************************)
EXTENDS Admission, TLC

CONSTANTS c1, c2, c3, u1

\* One user, so that all calls contend for the same balance and slots.
ThreeCalls == {c1, c2, c3}
OneUser == {u1}
OneUserOf == [c \in ThreeCalls |-> u1]

Credit5 == [u \in Users |-> 5]
LimitOne == [u \in Users |-> 1]
LimitTwo == [u \in Users |-> 2]

\* Two calls' pre-deductions (90 each) fit, the third does not.
Balance180 == [u \in Users |-> 180]
Balance270 == [u \in Users |-> 270]

\* Within the 30 minutes paid in advance, with both block roundings.
ShortCalls == {0, 7, 1800}
\* The default_max_duration_sec of an hour, past the 30 minutes paid for.
LongCalls == {0, 7, 3600}

Only(kinds) == [k \in FaultKinds |-> IF k \in kinds THEN 1 ELSE 0]
TopupOnly == Only({"topup"})
EveryFault == Only(FaultKinds)

CallSymmetry == Permutations(Calls)
================================================================================
