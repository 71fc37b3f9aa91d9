----------------------------- MODULE Conversion -----------------------------
(***************************************************************************)
(* The amounts of pallet-hyper-fungible-token: a local balance and the     *)
(* same amount in the decimals of a token contract.  The power of ten is   *)
(* computed in the width of a balance, and wraps in a release build.       *)
(***************************************************************************)
EXTENDS Integers

CONSTANT Width       \* the bits of a balance: 128 in the code

\* The second conjunct is arithmetic, named because provers know no powers.
ASSUME WidthAssumption == Width \in Nat \ {0} /\ 2 ^ Width \in Nat \ {0}

pow10[n \in Nat] == IF n = 0 THEN 1 ELSE (10 * pow10[n - 1]) % 2 ^ Width

scale(erc_decimals, local_decimals) ==
    IF erc_decimals > local_decimals THEN pow10[erc_decimals - local_decimals] ELSE 1

\* The division does not panic, and its result is a balance.
can_convert(value, erc_decimals, local_decimals) ==
    /\ scale(erc_decimals, local_decimals) # 0
    /\ value \div scale(erc_decimals, local_decimals) < 2 ^ Width

\* Variant: rounds up.
convert_to_balance_up(value, erc_decimals, local_decimals) ==
    (value + scale(erc_decimals, local_decimals) - 1) \div scale(erc_decimals, local_decimals)

convert_to_balance(value, erc_decimals, local_decimals) ==
    value \div scale(erc_decimals, local_decimals)

\* Variant: the product is a balance, too.
convert_to_erc20_narrow(value, erc_decimals, local_decimals) ==
    (value * scale(erc_decimals, local_decimals)) % 2 ^ Width

convert_to_erc20(value, erc_decimals, local_decimals) ==
    value * scale(erc_decimals, local_decimals)
=============================================================================
