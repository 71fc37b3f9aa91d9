---------------------------- MODULE MCSponsorship ----------------------------
(***************************************************************************)
(* Instances of Sponsorship for TLC.                                       *)
(***************************************************************************)
EXTENDS Sponsorship

CONSTANTS a, b, c

\* Two accounts that can sponsor and one that does not exist at genesis.
Funds == [x \in Accounts |-> CASE x = a -> 8 [] x = b -> 5 [] x = c -> 0]

\* One account can sponsor twice; the other has to be paid before it can
\* sponsor at all.
Means == [x \in Accounts |-> CASE x = a -> 8 [] x = b -> 4 [] x = c -> 0]
=============================================================================
