--------------------------- MODULE MCBlockWeights ---------------------------
(***************************************************************************)
(* An instance of BlockWeights for TLC.                                    *)
(***************************************************************************)
EXTENDS BlockWeights

\* Calls of other pallets: one that nearly takes the operational reserve, two
\* that fill the normal share together, and one that no block can hold.
Contracts ==
    {Weight(495000, 1200000), Weight(1399000, 100000), Weight(99000, 2000000), Weight(2500000, 0)}
=============================================================================
