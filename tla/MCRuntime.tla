------------------------------ MODULE MCRuntime ------------------------------
(***************************************************************************)
(* An instance of Runtime for TLC.                                         *)
(***************************************************************************)
EXTENDS Runtime

CONSTANTS u, v

\* One user with funds and one who does not exist at genesis.
Funds == [x \in Accounts |-> IF x = u THEN 9 ELSE 0]
=============================================================================
