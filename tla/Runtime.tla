------------------------------- MODULE Runtime -------------------------------
(***************************************************************************)
(* The runtime composes the pallets over one set of accounts.  A block     *)
(* runs on_initialize and then its transactions, one after the other; a    *)
(* transaction passes TxExtension (of which CheckNonce and the payment of  *)
(* the fee matter here), dispatches its call and settles its fee.  Among   *)
(* the accounts is the one of the prepaid gas pallet, which anybody may    *)
(* sponsor like any other.                                                 *)
(***************************************************************************)
EXTENDS Sponsorship

CONSTANTS
    account_id,      \* the account of the prepaid gas pallet
    MinPurchase,
    Fees, Tips

ASSUME RuntimeAssumption ==
    /\ account_id \in Accounts /\ Endowment[account_id] = 0
    /\ Fees \subseteq Nat /\ Tips \subseteq Nat

VARIABLES PrepaidCredits, PalletAccountInitialized, liquidity_info, collected, dust_lost

gas == <<PrepaidCredits, PalletAccountInitialized>>
runtime_vars == <<vars, gas, liquidity_info, collected, dust_lost>>

\* A pallet's account has no key.
Users == Accounts \ {account_id}

Gas == INSTANCE GasPayment WITH Endowment <- Restrict(Endowment, Users)

-----------------------------------------------------------------------------
\* CheckNonce: a signer has an account, on whatever references.
CheckNonce(who) == Gas!account_exists(who)

\* The extensions before the call.
prepare(who, inclusion_fee, tip) ==
    /\ phase = "extrinsics"
    /\ CheckNonce(who)
    /\ Gas!withdraw_fee(who, inclusion_fee, tip)
    /\ UNCHANGED <<now, pallet, hook>>

\* What the gas account loses as dust when a sponsorship pallet step ends.
DustIsNoted == dust_lost' = dust_lost + dust(accounts[account_id].free, accounts'[account_id])

\* A call of the sponsorship pallet; force_unlock comes through sudo.
dispatch_sponsorship(who) ==
    /\ Gas!Dispatching(who)
    /\ UNCHANGED gas
    /\ \/ \E b \in Accounts, x \in Amounts, m \in Modes, l \in Leases : sponsor(who, b, x, m, l)
       \/ \E b \in Accounts, m \in Modes, l \in Leases :
            sponsor_minimum(who, b, m, l) \/ set_policy(who, b, m, l)
       \/ \E b \in Accounts : unlock(who, b) \/ force_unlock(b) \/ refresh(b)
    /\ DustIsNoted

dispatch_gas(who) ==
    /\ \E b \in Users, x \in Payments : Gas!purchase(who, b, x)
    /\ UNCHANGED <<now, pallet, hook>>

dispatch_transfer(who) ==
    /\ \E d \in Accounts, x \in Payments : Gas!transfer_allow_death(who, d, x)
    /\ UNCHANGED <<now, pallet, hook>>

\* The extensions after it.
post_dispatch(corrected_fee) ==
    /\ Gas!correct_and_deposit_fee(corrected_fee)
    /\ UNCHANGED <<now, pallet, hook>>

initialize_block ==
    /\ liquidity_info = Gas!NoTransaction
    /\ on_initialize
    /\ DustIsNoted
    /\ UNCHANGED <<gas, liquidity_info, collected>>

genesis ==
    /\ \E s, b \in Accounts, x \in Amounts, m \in Modes, l \in Leases : genesis_build(s, b, x, m, l)
    /\ DustIsNoted
    /\ UNCHANGED <<gas, liquidity_info, collected>>

RuntimeInit ==
    /\ Init
    /\ PrepaidCredits = [u \in Users |-> 0]
    /\ PalletAccountInitialized = FALSE
    /\ liquidity_info = Gas!NoTransaction
    /\ collected = 0
    /\ dust_lost = 0

RuntimeNext ==
    \/ genesis
    \/ initialize_block
    \/ \E who \in Users :
          \/ \E fee \in Fees, tip \in Tips : prepare(who, fee, tip)
          \/ dispatch_sponsorship(who)
          \/ dispatch_gas(who)
          \/ dispatch_transfer(who)
    \/ \E fee \in Fees : post_dispatch(fee)

RuntimeSpec == RuntimeInit /\ [][RuntimeNext]_runtime_vars

-----------------------------------------------------------------------------
(* Properties.                                                             *)

\* The account of the prepaid gas pallet exists from the first purchase on,
\* whatever becomes of its balance and of those who sponsor it: a revocation
\* gives back its own reference (lib.rs:806) and not that of
\* ensure_pallet_account.
GasAccountIsKept ==
    PalletAccountInitialized =>
        accounts[account_id].providers
            >= 1 + OwnProvider(accounts[account_id].free)
                 + (IF is_sponsored(account_id) THEN 1 ELSE 0)

\* Credit stays backed by free balance, which holds in the pallet's account do
\* not touch, but for dust: what a fee leaves there below the existential deposit
\* (at once, or, while somebody sponsors that account, when they revoke) and the
\* balances pallet then drops.
CreditsBackedUpToDust == Gas!BackedUpToDust

\* What the two pallets are for: an account that exists only because it is
\* sponsored, and has credit for a fee and for what the gas account may have lost
\* as dust, can send a transaction.
SponsoredCanTransact ==
    \A u \in Users, fee \in Fees \ {0} :
        /\ liquidity_info = Gas!NoTransaction
        /\ is_sponsored(u) /\ PrepaidCredits[u] >= fee + dust_lost
        => CheckNonce(u) /\ Gas!withdraws_prepaid(u, fee, 0)

\* Fees are never paid with sponsored funds, nor with storage deposits, and
\* every sponsorship stays revocable in the middle of a transaction: what the
\* fee adapter takes and gives back leaves the holds and references alone.
SponsorsArePaidBack == HoldBacksRecord /\ DepositPerSponsorship /\ AlwaysRevocable

\* No money is made: what is in the accounts, in a running transaction, and
\* collected, is what there was at genesis; none is lost where there is no dust.
MoneyConserved ==
    LET kept == SumFunctionOnSet([a \in Accounts |-> TotalBalance(accounts[a])], Accounts)
        taken == IF liquidity_info = Gas!NoTransaction THEN 0
                 ELSE liquidity_info.fee_credit + liquidity_info.tip_credit
        endowed == SumFunctionOnSet(Endowment, Accounts)
    IN  /\ kept + taken + collected <= endowed
        /\ ExistentialDeposit = 1 => kept + taken + collected = endowed
=============================================================================
