---------------------------- MODULE MCConversion ----------------------------
(***************************************************************************)
(* An amount leaves for a contract with other decimals and comes back in   *)
(* parts of any size.                                                      *)
(***************************************************************************)
EXTENDS Conversion

CONSTANTS Values, Parts, MaxDecimals, MaxReturns

VARIABLES
    value, erc, local,   \* the amount, and the decimals there and here
    abroad,              \* whether it has left
    out, back,           \* what is abroad, and what has come back
    returns              \* in how many parts

vars == <<value, erc, local, abroad, out, back, returns>>

\* The differences of decimals whose power of ten is a balance.
Covered == erc > local => 10 ^ (erc - local) < 2 ^ Width

Init ==
    /\ value \in Values /\ erc \in 0 .. MaxDecimals /\ local \in 0 .. MaxDecimals
    /\ abroad = FALSE /\ out = 0 /\ back = 0 /\ returns = 0

Leave ==
    /\ ~abroad
    /\ abroad' = TRUE
    /\ out' = convert_to_erc20(value, erc, local)
    /\ UNCHANGED <<value, erc, local, back, returns>>

Return(part) ==
    /\ abroad /\ returns < MaxReturns
    /\ part <= out /\ can_convert(part, erc, local)
    /\ out' = out - part
    /\ returns' = returns + 1
    /\ back' = back + convert_to_balance(part, erc, local)
    /\ UNCHANGED <<value, erc, local, abroad>>

Next == Leave \/ \E part \in Parts \cup {out} : Return(part)

Spec == Init /\ [][Next]_vars

-----------------------------------------------------------------------------
\* impls.rs:33 and :40: an amount that leaves is the same amount again when it
\* comes back, or is refunded, in one piece, and for a contract with as many
\* decimals or more (up to 38 more: 10^38 is the largest power of ten that is a
\* u128) it is worth there what it was worth here.  For a contract with fewer,
\* saturating_sub makes the factor 1: the units are kept, and are worth more.
LeavesWhole ==
    [][ abroad' # abroad /\ Covered =>
            /\ erc >= local => out' * 10 ^ local = value * 10 ^ erc
            /\ can_convert(out', erc, local)
            /\ convert_to_balance(out', erc, local) = value ]_vars

\* In whatever parts it comes back, an amount never grows: what is still abroad
\* and what has come back are together worth no more than what left.
PartsNeverGrow ==
    LET unit == IF erc > local THEN 10 ^ (erc - local) ELSE 1
    IN  abroad /\ Covered => back * unit + out <= value * unit
=============================================================================
