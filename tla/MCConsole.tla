-------------------------------- MODULE MCConsole --------------------------------
(***************************************************************************)
(* A small instance of Console: two rows to open a dialog for, tables of up  *)
(* to six rows on pages of 1, 2, 5 and 10, which stand for 10, 20, 50 and    *)
(* 100, and one file of each kind.                                           *)
(***************************************************************************)
EXTENDS Console

CONSTANTS rowA, rowB, good, bad, addrA, addrB

TwoTargets == {rowA, rowB}
TwoFiles == {good, bad}
TwoAddresses == {addrA, addrB}
OneBad == {bad}
DialogOnly == {"dialog"}
================================================================================
