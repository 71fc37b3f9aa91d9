-------------------------------- MODULE Escrow --------------------------------
(***************************************************************************)
(* What sponsorship promises, without its mechanism.  Each account has     *)
(* wealth, wherever it is kept; a part of it may be locked in favour of a  *)
(* beneficiary.  Locking and unlocking cost the sponsor nothing, a locked  *)
(* amount is never anybody else's to spend, and wealth moves between       *)
(* accounts only by payments.  An account loses on its own at most a       *)
(* remainder too small to keep, below Dust.                                *)
(***************************************************************************)
EXTENDS Integers, Functions

CONSTANTS Accounts, Amounts, Dust

VARIABLES
    wealth,     \* what each account owns, spendable or not
    locked      \* beneficiary |-> who sponsors it, and with how much

\* What a sponsor has locked.
LockedBy(s) ==
    LET mine == {b \in DOMAIN locked : locked[b].sponsor = s}
    IN  SumFunctionOnSet([b \in mine |-> locked[b].amount], mine)

Lock(s, b, x) ==
    /\ b \notin DOMAIN locked
    /\ LockedBy(s) + x <= wealth[s]
    /\ locked' = [c \in DOMAIN locked \cup {b} |->
                    IF c = b THEN [sponsor |-> s, amount |-> x] ELSE locked[c]]
    /\ UNCHANGED wealth

\* The beneficiary, whose account may cease to exist, may lose a remainder.
Unlock(b, lost) ==
    /\ b \in DOMAIN locked
    /\ locked' = Restrict(locked, DOMAIN locked \ {b})
    /\ wealth' = [wealth EXCEPT ![b] = @ - lost]

\* Only what is not locked can be paid.
Pay(a, b, x, lost) ==
    /\ x + lost <= wealth[a] - LockedBy(a)
    /\ wealth' = [wealth EXCEPT ![a] = @ - x - lost, ![b] = @ + x]
    /\ UNCHANGED locked

Init == locked = <<>> /\ wealth \in [Accounts -> Nat]

Next ==
    \/ \E s, b \in Accounts, x \in Amounts : Lock(s, b, x)
    \/ \E b \in Accounts, lost \in 0 .. Dust - 1 : Unlock(b, lost)
    \/ \E a, b \in Accounts, x \in Amounts, lost \in 0 .. Dust - 1 :
          a # b /\ Pay(a, b, x, lost)

Spec == Init /\ [][Next]_<<wealth, locked>>
=============================================================================
