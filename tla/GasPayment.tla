----------------------------- MODULE GasPayment -----------------------------
(***************************************************************************)
(* pallet-gas-transaction-payment: how a transaction pays its fee.  The    *)
(* fee is withdrawn before the call is dispatched (from prepaid credit     *)
(* when there is enough for the whole inclusion fee, from the signer's     *)
(* balance otherwise) and corrected afterwards to what the call really     *)
(* used.  In between the call runs, and may empty the accounts the refund  *)
(* should go to.  Transactions of a block run one after the other.  A      *)
(* transaction whose fee cannot be withdrawn is not included.              *)
(***************************************************************************)
EXTENDS PrepaidGas

CONSTANTS
    Fees,       \* the inclusion fees, by weight and length, before dispatch
    Tips

ASSUME GasPaymentAssumption == Fees \subseteq Nat /\ Tips \subseteq Nat

VARIABLES
    liquidity_info,     \* the credits taken by the running transaction
    collected,          \* the fees and tips handed to OnUnbalanced, so far
    dust_lost           \* history: what the pallet's account lost as dust, so far

vars == <<accounts, PrepaidCredits, PalletAccountInitialized, liquidity_info, collected,
          dust_lost>>

LiquidityInfo ==
    [kind: {"NoCharge", "Native", "Prepaid"}, who: Users, fee_credit: Nat, tip_credit: Nat]

NoTransaction == [kind |-> "NoTransaction"]

-----------------------------------------------------------------------------
(* What the adapter asks of the currency.                                  *)

\* WithdrawConsequence::Success: the existential deposit stays.
can_withdraw_native(who, amount) ==
    amount = 0 \/ accounts[who].free - amount >= ExistentialDeposit

\* Variant: the last of the credit is not used.
uses_credit_strictly(who, inclusion_fee) == inclusion_fee # 0 /\ credit(who) > inclusion_fee

uses_credit(who, inclusion_fee) == inclusion_fee # 0 /\ credit(who) >= inclusion_fee

\* Variant: with credit, the tip is not looked at.
can_withdraw_fee_without_tip(who, inclusion_fee, tip) ==
    uses_credit(who, inclusion_fee) \/ can_withdraw_native(who, inclusion_fee + tip)

can_withdraw_fee(who, inclusion_fee, tip) ==
    can_withdraw_native(who, IF uses_credit(who, inclusion_fee) THEN tip ELSE inclusion_fee + tip)

\* F::withdraw of the fee from the pallet's account, which may empty it.
can_withdraw_from_pallet(inclusion_fee) ==
    inclusion_fee <= reducible_balance(accounts[account_id], "Expendable")

\* The checks of withdraw_fee on its two paths.
withdraws_prepaid(who, inclusion_fee, tip) ==
    /\ uses_credit(who, inclusion_fee)
    /\ can_withdraw_native(who, tip)
    /\ can_withdraw_credit(who, inclusion_fee)
    /\ can_withdraw_from_pallet(inclusion_fee)
    /\ tip <= reducible_balance(accounts[who], "Preserve")

withdraws_native(who, inclusion_fee, tip) ==
    /\ ~uses_credit(who, inclusion_fee)
    /\ inclusion_fee + tip <= reducible_balance(accounts[who], "Preserve")

-----------------------------------------------------------------------------
(* Before dispatch.                                                        *)

withdraw_fee(who, inclusion_fee, tip) ==
    /\ liquidity_info = NoTransaction
    /\ \/ /\ inclusion_fee + tip = 0
          /\ liquidity_info' = [kind |-> "NoCharge", who |-> who,
                                fee_credit |-> 0, tip_credit |-> 0]
          /\ UNCHANGED <<accounts, PrepaidCredits, dust_lost>>
       \/ /\ withdraws_prepaid(who, inclusion_fee, tip)
          /\ liquidity_info' = [kind |-> "Prepaid", who |-> who,
                                fee_credit |-> inclusion_fee, tip_credit |-> tip]
          /\ PrepaidCredits' = withdraw_credit(who, inclusion_fee)
          /\ accounts' = [accounts EXCEPT
                ![account_id] = decrease_balance(@, inclusion_fee),
                ![who] = decrease_balance(@, tip)]
          /\ dust_lost' = dust_lost
                + dust(accounts[account_id].free - inclusion_fee, accounts'[account_id])
       \/ /\ inclusion_fee + tip # 0
          /\ withdraws_native(who, inclusion_fee, tip)
          /\ liquidity_info' = [kind |-> "Native", who |-> who,
                                fee_credit |-> inclusion_fee, tip_credit |-> tip]
          /\ accounts' = [accounts EXCEPT ![who] = decrease_balance(@, inclusion_fee + tip)]
          /\ UNCHANGED <<PrepaidCredits, dust_lost>>
    /\ UNCHANGED <<PalletAccountInitialized, collected>>

-----------------------------------------------------------------------------
(* The call.  A call that fails, or a batch of calls, is no call or several *)
(* calls here.                                                             *)

Dispatching(who) ==
    /\ liquidity_info # NoTransaction /\ who = liquidity_info.who
    /\ UNCHANGED <<liquidity_info, collected>>

purchase(sponsor, beneficiary, amount) ==
    /\ Dispatching(sponsor)
    /\ purchase_for(sponsor, beneficiary, amount)
    /\ UNCHANGED dust_lost

transfer_allow_death(source, dest, amount) ==
    /\ Dispatching(source)
    /\ can_transfer(accounts, source, dest, amount, "Expendable")
    /\ accounts' = transfer(accounts, source, dest, amount)
    /\ dust_lost' = dust_lost + dust(accounts[account_id].free, accounts'[account_id])
    /\ UNCHANGED <<PrepaidCredits, PalletAccountInitialized>>

-----------------------------------------------------------------------------
(* After dispatch.                                                         *)

account_exists(who) == accounts[who].providers > 0

\* Variant: what was refunded is collected, too.
settle_native_fee_twice(who, paid, corrected_fee, tip) ==
    LET refund == paid - corrected_fee
        refunded == account_exists(who) /\ can_deposit(accounts[who], refund)
    IN  /\ accounts' = IF refunded
                       THEN [accounts EXCEPT ![who] = increase_balance(@, refund)]
                       ELSE accounts
        /\ collected' = collected + tip + paid
        /\ UNCHANGED PrepaidCredits

\* What cannot be refunded to the signer is kept as fee.
settle_native_fee(who, paid, corrected_fee, tip) ==
    LET refund == paid - corrected_fee
        refunded == account_exists(who) /\ can_deposit(accounts[who], refund)
    IN  /\ accounts' = IF refunded
                       THEN [accounts EXCEPT ![who] = increase_balance(@, refund)]
                       ELSE accounts
        /\ collected' = collected + tip + (IF refunded THEN corrected_fee ELSE paid)
        /\ UNCHANGED PrepaidCredits

\* The refund goes back to the pallet's account first, then to the credit.
settle_prepaid_fee(who, paid, corrected_fee, tip) ==
    LET fee_to_keep == IF corrected_fee < paid THEN corrected_fee ELSE paid
        refund == paid - fee_to_keep
        refunded == refund # 0 /\ can_deposit(accounts[account_id], refund)
    IN  /\ accounts' = IF refunded
                       THEN [accounts EXCEPT ![account_id] = increase_balance(@, refund)]
                       ELSE accounts
        /\ PrepaidCredits' = IF refunded THEN refund_credit(who, refund) ELSE PrepaidCredits
        /\ collected' = collected + tip + (IF refunded THEN fee_to_keep ELSE paid)

\* The corrected fee is at most the one withdrawn: the call cannot report more
\* weight than it announced.
correct_and_deposit_fee(corrected_fee) ==
    /\ liquidity_info # NoTransaction
    /\ LET info == liquidity_info
       IN  /\ corrected_fee <= info.fee_credit
           /\ \/ /\ info.kind = "NoCharge"
                 /\ UNCHANGED <<accounts, PrepaidCredits, collected>>
              \/ /\ info.kind = "Native"
                 /\ settle_native_fee(info.who, info.fee_credit, corrected_fee, info.tip_credit)
              \/ /\ info.kind = "Prepaid"
                 /\ settle_prepaid_fee(info.who, info.fee_credit, corrected_fee, info.tip_credit)
    /\ liquidity_info' = NoTransaction
    /\ UNCHANGED <<PalletAccountInitialized, dust_lost>>

-----------------------------------------------------------------------------
Init ==
    /\ InitPrepaidGas
    /\ liquidity_info = NoTransaction
    /\ collected = 0
    /\ dust_lost = 0

Next ==
    \/ \E who \in Users, fee \in Fees, tip \in Tips : withdraw_fee(who, fee, tip)
    \/ \E s, b \in Users, x \in Amounts : purchase(s, b, x)
    \/ \E s \in Users, d \in Holders, x \in Amounts : transfer_allow_death(s, d, x)
    \/ \E fee \in Fees : correct_and_deposit_fee(fee)

Spec == Init /\ [][Next]_vars

-----------------------------------------------------------------------------
(* Properties.                                                             *)

\* Every variable has its type.
TypeOK ==
    /\ accounts \in [Holders -> AccountInfo]
    /\ PrepaidCredits \in [Users -> Nat]
    /\ PalletAccountInitialized \in BOOLEAN
    /\ liquidity_info \in LiquidityInfo \cup {NoTransaction}
    /\ {collected, dust_lost} \subseteq Nat

\* The pallet's account holds at least the credit it has sold.
\* purchase_locks_native_balance_as_prepaid_credit (pallet-prepaid-gas/src/lib.rs
\* :302) and the tests of withdraw_fee (pallet-gas-transaction-payment/src/lib.rs
\* :588) assert both to be the same number.
CreditsBacked ==
    SumFunctionOnSet(PrepaidCredits, Users) <= accounts[account_id].free

\* For every existential deposit: what the pallet's account holds, and what fees
\* paid from it left there below the deposit and try_mutate_account dropped, is at
\* least the credit it has sold; purchase, withdraw_fee and the refund move the
\* two together, and no other way to lose the backing exists.
BackedUpToDust ==
    SumFunctionOnSet(PrepaidCredits, Users) <= accounts[account_id].free + dust_lost

\* A fee that can_withdraw_fee accepts can be withdrawn in the same state: a
\* transaction that was validated pays.  With credit, this is so as long as the
\* signer's exceeds the fee by what the pallet's account has lost as dust.
CheckedFeeIsPayable ==
    liquidity_info = NoTransaction =>
        \A who \in Users, fee \in Fees, tip \in Tips :
            /\ can_withdraw_fee(who, fee, tip)
            /\ uses_credit(who, fee) => credit(who) >= fee + dust_lost
            =>  \/ fee + tip = 0
                \/ withdraws_prepaid(who, fee, tip)
                \/ withdraws_native(who, fee, tip)

\* Withdrawing, dispatching, refunding and collecting never make money, and
\* destroy it only as dust: not at all where the existential deposit is 1.
FundsConserved ==
    LET kept == SumFunctionOnSet([a \in Holders |-> accounts[a].free], Holders)
        taken == IF liquidity_info = NoTransaction THEN 0
                 ELSE liquidity_info.fee_credit + liquidity_info.tip_credit
        endowed == SumFunctionOnSet(Endowment, Users)
    IN  /\ kept + taken + collected <= endowed
        /\ ExistentialDeposit = 1 => kept + taken + collected = endowed

\* A step takes credit only from the signer whose transaction starts with it,
\* and gives back at most what it took; a purchase gives what it costs.
CreditIsPersonal ==
    [][ \A u \in Users :
          /\ PrepaidCredits'[u] < PrepaidCredits[u] =>
                /\ liquidity_info'.kind = "Prepaid" /\ liquidity_info'.who = u
                /\ PrepaidCredits[u] - PrepaidCredits'[u] = liquidity_info'.fee_credit
          /\ PrepaidCredits'[u] > PrepaidCredits[u] =>
                PrepaidCredits'[u] - PrepaidCredits[u]
                    = accounts'[account_id].free - accounts[account_id].free ]_vars
=============================================================================
