----------------------------- MODULE PrepaidGas -----------------------------
(***************************************************************************)
(* pallet-prepaid-gas: anyone buys fee credit for a beneficiary.  The      *)
(* price goes to the pallet's account; the credit is a number in storage.  *)
(* Nothing but the calls ties one to the other.                            *)
(***************************************************************************)
EXTENDS Balances, FiniteSets, Functions

CONSTANTS
    Users,
    account_id,      \* the pallet's account, derived from its PalletId
    MinPurchase,
    Endowment,       \* the free balance of each user at genesis
    Amounts          \* the amounts callers buy or transfer

ASSUME PrepaidGasAssumption ==
    /\ IsFiniteSet(Users)
    /\ account_id \notin Users
    /\ MinPurchase \in Nat
    /\ Amounts \subseteq Nat
    /\ Endowment \in [Users -> Nat]
    /\ \A u \in Users : Endowment[u] = 0 \/ Endowment[u] >= ExistentialDeposit

VARIABLES
    accounts,
    PrepaidCredits,
    PalletAccountInitialized

Holders == Users \cup {account_id}

InitPrepaidGas ==
    /\ accounts = [a \in Holders |->
                        IF a = account_id THEN DeadAccount ELSE EndowedAccount(Endowment[a])]
    /\ PrepaidCredits = [u \in Users |-> 0]
    /\ PalletAccountInitialized = FALSE

-----------------------------------------------------------------------------
\* Balances' fungible::Mutate::transfer.
can_transfer(funds, source, dest, amount, preservation) ==
    /\ amount <= reducible_balance(funds[source], preservation)
    /\ can_deposit(funds[dest], amount)

transfer(funds, source, dest, amount) ==
    IF source = dest THEN funds
    ELSE [funds EXCEPT ![source] = decrease_balance(@, amount),
                       ![dest] = increase_balance(@, amount)]

\* Variant: the account exists on its balance alone.
ensure_pallet_account_unreferenced == accounts

\* The pallet's account gets a provider reference once, so that it exists
\* with any balance.
ensure_pallet_account ==
    IF PalletAccountInitialized THEN accounts
    ELSE [accounts EXCEPT ![account_id] = inc_providers(@)]

purchase_for(sponsor, beneficiary, amount) ==
    /\ amount # 0 /\ amount >= MinPurchase
    /\ can_transfer(ensure_pallet_account, sponsor, account_id, amount, "Preserve")
    /\ accounts' = transfer(ensure_pallet_account, sponsor, account_id, amount)
    /\ PrepaidCredits' = [PrepaidCredits EXCEPT ![beneficiary] = @ + amount]
    /\ PalletAccountInitialized' = TRUE

credit(who) == PrepaidCredits[who]

\* withdraw_credit refuses to take more than there is.
can_withdraw_credit(who, amount) == amount <= credit(who)

\* Variants: the credit is not debited; it is debited twice.
withdraw_credit_forgotten(who, amount) == PrepaidCredits

withdraw_credit_twice(who, amount) == [PrepaidCredits EXCEPT ![who] = @ - 2 * amount]

withdraw_credit(who, amount) == [PrepaidCredits EXCEPT ![who] = @ - amount]

\* Variant: the refund overwrites the credit.
refund_credit_overwrites(who, amount) == [PrepaidCredits EXCEPT ![who] = amount]

refund_credit(who, amount) == [PrepaidCredits EXCEPT ![who] = @ + amount]
=============================================================================
