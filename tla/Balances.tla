------------------------------ MODULE Balances ------------------------------
(***************************************************************************)
(* The part of pallet_balances and frame_system that the pallets of this   *)
(* chain call (both are libraries: the operators are written from how the  *)
(* pallets use them).  An account has a free balance, one held balance per *)
(* hold reason, and a count of provider references.  Every operator takes  *)
(* the account before an operation and yields the account after it; what   *)
(* may make the operation fail is a predicate of its own.                  *)
(*                                                                         *)
(* Freezes, locks and consumer references of other pallets do not occur in *)
(* the modelled calls, so an account has a consumer reference exactly when *)
(* some of its balance is held.                                            *)
(***************************************************************************)
EXTENDS Integers

CONSTANT ExistentialDeposit

ASSUME ExistentialDepositAssumption == ExistentialDeposit \in Nat \ {0}

HoldReason == {"Sponsorship", "StorageDeposit"}

AccountInfo == [free: Nat, held: [HoldReason -> Nat], providers: Nat]

NothingHeld == [reason \in HoldReason |-> 0]

DeadAccount == [free |-> 0, held |-> NothingHeld, providers |-> 0]

OnHold(held) == held["Sponsorship"] + held["StorageDeposit"]

Reserved(account) == OnHold(account.held)

TotalBalance(account) == account.free + Reserved(account)

\* The provider reference that the balances pallet itself holds.
OwnProvider(free) == IF free >= ExistentialDeposit THEN 1 ELSE 0

\* An account endowed at genesis.
EndowedAccount(amount) ==
    [free |-> amount, held |-> NothingHeld, providers |-> OwnProvider(amount)]

-----------------------------------------------------------------------------
(* frame_system: provider references.                                      *)

inc_providers(account) == [account EXCEPT !.providers = @ + 1]

\* The last provider reference cannot go while a consumer needs it.
can_dec_provider(account) == account.providers > 1 \/ Reserved(account) = 0

\* `let _ = dec_providers(..)`: refused, it changes nothing; removing the last
\* reference removes the account with all that is in it.
dec_providers(account) ==
    IF account.providers > 1 THEN [account EXCEPT !.providers = @ - 1]
    ELSE IF Reserved(account) = 0 THEN DeadAccount
    ELSE account

-----------------------------------------------------------------------------
(* pallet_balances.                                                        *)

\* Every change of a balance ends here: the pallet's own provider reference
\* follows the free balance across the existential deposit, and a free balance
\* below it with nothing on hold is dust, which is dropped.
try_mutate_account(account, free, held) ==
    [free |-> IF free < ExistentialDeposit /\ OnHold(held) = 0 THEN 0 ELSE free,
     held |-> held,
     providers |-> account.providers + OwnProvider(free) - OwnProvider(account.free)]

\* What was dropped when an account whose free balance came to `free` is written.
dust(free, account) == IF free < ExistentialDeposit /\ account.free = 0 THEN free ELSE 0

\* Preservation::Preserve keeps the existential deposit in the account;
\* Expendable does so only when the provider reference cannot be given up.
reducible_balance(account, preservation) ==
    LET untouchable == IF preservation = "Preserve" \/ ~can_dec_provider(account)
                       THEN ExistentialDeposit ELSE 0
    IN  IF account.free > untouchable THEN account.free - untouchable ELSE 0

can_deposit(account, amount) ==
    amount = 0 \/ account.free + amount >= ExistentialDeposit

hold_available(account) == account.providers > 0

decrease_balance(account, amount) ==
    try_mutate_account(account, account.free - amount, account.held)

increase_balance(account, amount) ==
    try_mutate_account(account, account.free + amount, account.held)

increase_balance_on_hold(account, reason, amount) ==
    try_mutate_account(account, account.free, [account.held EXCEPT ![reason] = @ + amount])

decrease_balance_on_hold(account, reason, amount) ==
    try_mutate_account(account, account.free, [account.held EXCEPT ![reason] = @ - amount])

hold(account, reason, amount) ==
    increase_balance_on_hold(decrease_balance(account, amount), reason, amount)

release(account, reason, amount) ==
    increase_balance(decrease_balance_on_hold(account, reason, amount), amount)
=============================================================================
