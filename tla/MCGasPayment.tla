---------------------------- MODULE MCGasPayment ----------------------------
(***************************************************************************)
(* Instances of GasPayment for TLC.                                        *)
(***************************************************************************)
EXTENDS GasPayment

CONSTANTS u, v

\* One user with funds for several transactions and one who lives on credit.
Funds == [x \in Users |-> IF x = u THEN 9 ELSE 2]
=============================================================================
