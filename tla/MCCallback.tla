------------------------------- MODULE MCCallback -------------------------------
(***************************************************************************)
(* Small instances of Callback.                                            *)
(***************************************************************************)
EXTENDS Callback

CONSTANTS c1, u1

OneCall == {c1}
OneUser == {u1}
AllOfU1 == [c \in Calls |-> u1]

Credit0 == [u \in Users |-> 0]
LimitOne == [u \in Users |-> 1]
Balance180 == [u \in Users |-> 180]

\* Nothing, one block of each leg, and more than the 30 minutes paid for.
Usage == {0, 7, 1860}
OneMinute == {0, 60}

Only(kinds) == [k \in FaultKinds |-> IF k \in kinds THEN 1 ELSE 0]
NoFaults == Only({})
SettleFault == Only({"db"})
SlotFaults == Only({"client", "redis", "evict", "crash", "topup", "deduct"})

Once(kinds) == [k \in EventKinds |-> IF k \in kinds THEN 1 ELSE 0]
Undisturbed == Once({})
FlowTrouble == Once({"hangup", "refused", "pubsub", "merge"})
ShutdownOnly == Once({"shutdown"})
RowTrouble == Once({"disconnect", "hangup", "rowdb"})
=================================================================================
