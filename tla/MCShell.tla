-------------------------------- MODULE MCShell --------------------------------
(***************************************************************************)
(* A small instance of Shell: two users, and two visits of the layout, so   *)
(* that a socket and a timer of the first can meet the second.              *)
(***************************************************************************)
EXTENDS Shell

CONSTANTS alice, bob

TwoUsers == {alice, bob}
TwoMounts == 1 .. 2
ThreeSockets == 1 .. 3
================================================================================
