--------------------------- MODULE GasPaymentProofs ---------------------------
(***************************************************************************)
(* Proofs about GasPayment, for every set of users, fees, tips, amounts    *)
(* and endowments and every existential deposit.                           *)
(***************************************************************************)
EXTENDS GasPayment, BalancesProofs, TLAPS

\* Nothing is on hold in this component: the pallet's account can be emptied.
SoundAccounts(funds) ==
    /\ funds \in [Holders -> AccountInfo]
    /\ \A a \in Holders : Sound(funds[a]) /\ funds[a].held = NothingHeld

\* Types alone are not inductive: a provider count that did not cover the
\* balances pallet's own reference could fall below zero, and a transaction
\* without charge that remembered one would settle money it never took.
ChargedByKind ==
    liquidity_info # NoTransaction /\ liquidity_info.kind = "NoCharge" =>
        liquidity_info.fee_credit = 0 /\ liquidity_info.tip_credit = 0

IInv == TypeOK /\ SoundAccounts(accounts) /\ ChargedByKind

\* The step of CreditIsPersonal.
CreditStep ==
    \A u \in Users :
        /\ PrepaidCredits'[u] < PrepaidCredits[u] =>
              /\ liquidity_info'.kind = "Prepaid" /\ liquidity_info'.who = u
              /\ PrepaidCredits[u] - PrepaidCredits'[u] = liquidity_info'.fee_credit
        /\ PrepaidCredits'[u] > PrepaidCredits[u] =>
              PrepaidCredits'[u] - PrepaidCredits[u]
                  = accounts'[account_id].free - accounts[account_id].free

\* All the money there is: in the accounts, with the running transaction, and
\* collected.
Kept(funds) == SumFunctionOnSet([a \in Holders |-> funds[a].free], Holders)

Taken(info) == IF info = NoTransaction THEN 0 ELSE info.fee_credit + info.tip_credit

\* At most as much, and as much where there is no dust.
NoneMade(after, before) ==
    after <= before /\ (ExistentialDeposit = 1 => after = before)

\* No step makes money.
MoneyStep ==
    NoneMade(Kept(accounts') + Taken(liquidity_info') + collected',
             Kept(accounts) + Taken(liquidity_info) + collected)

\* What the pallet's account has beyond the credit that was sold.
Backing(funds, credits) == funds[account_id].free - SumFunctionOnSet(credits, Users)

\* A step reduces it only by dust, of less than an existential deposit, that
\* was the last in the pallet's account.
BackingStep ==
    /\ Backing(accounts, PrepaidCredits) - Backing(accounts', PrepaidCredits')
            < ExistentialDeposit
    /\ Backing(accounts', PrepaidCredits') < Backing(accounts, PrepaidCredits)
            => accounts'[account_id].free = 0

\* All of it is counted as dust.
DustStep ==
    /\ dust_lost' \in Nat
    /\ Backing(accounts', PrepaidCredits') + dust_lost'
            >= Backing(accounts, PrepaidCredits) + dust_lost

Step == CreditStep /\ MoneyStep /\ BackingStep /\ DustStep

-----------------------------------------------------------------------------
(* Accounts and sums.                                                      *)

\* The parts of a sound account, and the sums.
LEMMA SoundParts ==
    ASSUME NEW funds, SoundAccounts(funds)
    PROVE  /\ \A a \in Holders : Sound(funds[a]) /\ funds[a].free \in Nat
           /\ Kept(funds) \in Nat
           /\ IsFiniteSet(Holders) /\ account_id \in Holders /\ Users \subseteq Holders
<1>1. IsFiniteSet(Holders) /\ account_id \in Holders /\ Users \subseteq Holders
  BY PrepaidGasAssumption, FS_AddElement DEF Holders
<1>2. \A a \in Holders : Sound(funds[a]) /\ funds[a].free \in Nat
  BY DEF SoundAccounts, Sound, AccountInfo
<1>3. Kept(funds) \in Nat
  BY <1>1, <1>2, SumType DEF Kept
<1>4. QED
  BY <1>1, <1>2, <1>3

\* Writing one account back, as every balance operation of the pallets ends.
LEMMA ReplaceAccount ==
    ASSUME NEW funds, SoundAccounts(funds), NEW a \in Holders, NEW account, Sound(account),
           account.held = NothingHeld
    PROVE  LET after == [funds EXCEPT ![a] = account]
           IN  /\ SoundAccounts(after)
               /\ after[a] = account
               /\ \A c \in Holders \ {a} : after[c] = funds[c]
               /\ Kept(after) = Kept(funds) - funds[a].free + account.free
<1> DEFINE after == [funds EXCEPT ![a] = account]
<1>1. /\ SoundAccounts(after) /\ after[a] = account
      /\ \A c \in Holders \ {a} : after[c] = funds[c]
  BY DEF SoundAccounts, Sound
<1> HIDE DEF after
<1> DEFINE f == [c \in Holders |-> funds[c].free]
           g == [c \in Holders |-> after[c].free]
<1>2. /\ \A c \in Holders : f[c] \in Int /\ g[c] \in Int
      /\ \A c \in Holders \ {a} : f[c] = g[c]
  BY <1>1, SoundParts
<1>3. f[a] = funds[a].free /\ g[a] = account.free
  BY <1>1
<1> HIDE DEF f, g
<1>4. SumFunctionOnSet(g, Holders) = SumFunctionOnSet(f, Holders) - f[a] + g[a]
  BY <1>2, SoundParts, SumChange
<1>5. QED
  BY <1>1, <1>3, <1>4 DEF Kept, f, g, after

\* Changing one user's credit changes the credit sold by as much.
LEMMA ReplaceCredit ==
    ASSUME NEW credits \in [Users -> Nat], NEW after \in [Users -> Nat], NEW u \in Users,
           \A v \in Users \ {u} : after[v] = credits[v]
    PROVE  SumFunctionOnSet(after, Users)
             = SumFunctionOnSet(credits, Users) - credits[u] + after[u]
<1>1. /\ IsFiniteSet(Users)
      /\ \A v \in Users : credits[v] \in Int /\ after[v] \in Int
  BY PrepaidGasAssumption
<1>2. QED
  BY <1>1, SumChange

\* The credit sold is a number.
LEMMA CreditsType ==
    ASSUME NEW credits \in [Users -> Nat]
    PROVE  SumFunctionOnSet(credits, Users) \in Nat
  BY PrepaidGasAssumption, SumType

\* What F::withdraw and F::transfer accept to spend is there to be spent.
LEMMA ReducibleIsFree ==
    ASSUME NEW account, Sound(account), NEW preservation, NEW amount \in Nat,
           amount <= reducible_balance(account, preservation)
    PROVE  amount <= account.free
  BY ExistentialDepositAssumption DEF reducible_balance, Sound, AccountInfo

\* Taking from an account what it has.
LEMMA Spend ==
    ASSUME NEW account, Sound(account), account.held = NothingHeld,
           NEW amount \in Nat, amount <= account.free
    PROVE  LET after == decrease_balance(account, amount)
           IN  /\ Sound(after) /\ after.held = NothingHeld /\ after.free \in Nat
               /\ Settles(after.free, account.free - amount)
  BY DecreaseBalance, FreeSettles DEF Sound, AccountInfo

\* Giving to an account what it can take.
LEMMA Receive ==
    ASSUME NEW account, Sound(account), account.held = NothingHeld, NEW amount \in Nat
    PROVE  LET after == increase_balance(account, amount)
           IN  /\ Sound(after) /\ after.held = NothingHeld /\ after.free \in Nat
               /\ Settles(after.free, account.free + amount)
               /\ can_deposit(account, amount) /\ amount # 0
                    => after.free = account.free + amount
  BY IncreaseBalance, FreeSettles, SMTT(30) DEF Sound, AccountInfo, can_deposit

\* fungible::Mutate::transfer keeps every account sound and makes no money, and
\* adds to the receiver what it takes from the payer.
LEMMA Transfer ==
    ASSUME NEW funds, SoundAccounts(funds), NEW source \in Holders, NEW dest \in Holders,
           NEW amount \in Nat, NEW preservation,
           can_transfer(funds, source, dest, amount, preservation)
    PROVE  LET after == transfer(funds, source, dest, amount)
           IN  /\ SoundAccounts(after)
               /\ NoneMade(Kept(after), Kept(funds))
               /\ \A a \in Holders \ {source, dest} : after[a] = funds[a]
               /\ source # dest /\ amount # 0 => after[dest].free = funds[dest].free + amount
               /\ source # dest => Settles(after[dest].free, funds[dest].free + amount)
<1> DEFINE less == decrease_balance(funds[source], amount)
           more == increase_balance(funds[dest], amount)
<1>0. /\ Sound(funds[source]) /\ funds[source].held = NothingHeld /\ funds[source].free \in Nat
      /\ Sound(funds[dest]) /\ funds[dest].held = NothingHeld /\ funds[dest].free \in Nat
      /\ Kept(funds) \in Nat
  BY SoundParts DEF SoundAccounts
<1>1. CASE source = dest
  BY <1>0, <1>1 DEF transfer, NoneMade
<1>2. CASE source # dest
  <2>2. amount <= funds[source].free
    BY <1>0, ReducibleIsFree DEF can_transfer
  <2>3. /\ Sound(less) /\ less.held = NothingHeld /\ less.free \in Nat
        /\ Settles(less.free, funds[source].free - amount)
    BY <1>0, <2>2, Spend
  <2>4. /\ Sound(more) /\ more.held = NothingHeld /\ more.free \in Nat
        /\ Settles(more.free, funds[dest].free + amount)
        /\ amount # 0 => more.free = funds[dest].free + amount
    BY <1>0, Receive DEF can_transfer
  <2>5. transfer(funds, source, dest, amount)
          = [[funds EXCEPT ![source] = less] EXCEPT ![dest] = more]
    BY <1>2 DEF transfer
  <2> HIDE DEF less, more
  <2> DEFINE paid == [funds EXCEPT ![source] = less]
             after == [paid EXCEPT ![dest] = more]
  <2>6. /\ SoundAccounts(paid) /\ \A c \in Holders \ {source} : paid[c] = funds[c]
        /\ Kept(paid) = Kept(funds) - funds[source].free + less.free
    BY <2>3, ReplaceAccount
  <2> HIDE DEF paid
  <2>7. /\ SoundAccounts(after) /\ after[dest] = more
        /\ \A c \in Holders \ {dest} : after[c] = paid[c]
        /\ Kept(after) = Kept(paid) - paid[dest].free + more.free
    BY <2>4, <2>6, ReplaceAccount
  <2> HIDE DEF after
  <2>8. Kept(after) = Kept(funds) - funds[source].free + less.free - funds[dest].free + more.free
    <3>1. paid[dest] = funds[dest]
      BY <1>2, <2>6
    <3>2. QED
      BY <1>0, <2>3, <2>4, <2>6, <2>7, <3>1
  <2>9. NoneMade(Kept(after), Kept(funds))
    <3>1. less.free <= funds[source].free - amount /\ more.free <= funds[dest].free + amount
      BY <1>0, <2>2, <2>3, <2>4, DustIsSmall
    <3>2. ExistentialDeposit = 1 =>
            less.free = funds[source].free - amount /\ more.free = funds[dest].free + amount
      BY <1>0, <2>2, <2>3, <2>4, DustIsSmall
    <3>3. QED
      BY <1>0, <2>3, <2>4, <2>8, <3>1, <3>2 DEF NoneMade
  <2>10. transfer(funds, source, dest, amount) = after
    BY <2>5 DEF paid, after
  <2>11. QED
    BY <1>2, <2>4, <2>6, <2>7, <2>9, <2>10
<1>3. QED
  BY <1>1, <1>2

\* The reference of ensure_pallet_account leaves every balance as it is.
LEMMA EnsurePalletAccount ==
    ASSUME SoundAccounts(accounts)
    PROVE  /\ SoundAccounts(ensure_pallet_account)
           /\ ensure_pallet_account[account_id].free = accounts[account_id].free
           /\ Kept(ensure_pallet_account) = Kept(accounts)
<1>1. /\ account_id \in Holders /\ Sound(accounts[account_id])
      /\ accounts[account_id].held = NothingHeld /\ accounts[account_id].free \in Nat
      /\ Kept(accounts) \in Nat
  BY SoundParts DEF SoundAccounts
<1> DEFINE account == inc_providers(accounts[account_id])
<1>2. /\ Sound(account) /\ account.held = NothingHeld
      /\ account.free = accounts[account_id].free
  BY <1>1, IncProviders
<1> HIDE DEF account
<1>3. LET after == [accounts EXCEPT ![account_id] = account]
      IN  SoundAccounts(after) /\ after[account_id] = account /\ Kept(after) = Kept(accounts)
  BY <1>1, <1>2, ReplaceAccount
<1>4. QED
  BY <1>2, <1>3 DEF ensure_pallet_account, account

-----------------------------------------------------------------------------
(* The invariant holds initially, and every action preserves it, takes or  *)
(* gives credit only as CreditIsPersonal says, makes no money and leaves   *)
(* credit backed but for dust.                                             *)

\* The genesis accounts are sound and no credit has been sold.
LEMMA InitHolds == Init => IInv
<1> SUFFICES ASSUME Init PROVE IInv
  OBVIOUS
<1>1. Sound(DeadAccount) /\ DeadAccount.held = NothingHeld
  BY ExistentialDepositAssumption
  DEF Sound, Slack, DeadAccount, NothingHeld, AccountInfo, OwnProvider
<1>2. \A u \in Users : /\ Sound(EndowedAccount(Endowment[u]))
                       /\ EndowedAccount(Endowment[u]).held = NothingHeld
  BY ExistentialDepositAssumption, PrepaidGasAssumption
  DEF Sound, Slack, EndowedAccount, NothingHeld, AccountInfo, OwnProvider
<1>3. \A a \in Holders : Sound(accounts[a]) /\ accounts[a].held = NothingHeld
  BY <1>1, <1>2 DEF Init, InitPrepaidGas, Holders
<1>4. SoundAccounts(accounts)
  BY <1>3 DEF Init, InitPrepaidGas, SoundAccounts, Sound
<1>5. collected = 0 /\ dust_lost = 0 /\ liquidity_info = NoTransaction
  BY DEF Init
<1>6. TypeOK
  <2>1. {collected, dust_lost} \subseteq Nat
    BY <1>5
  <2>2. QED
    BY <1>4, <1>5, <2>1 DEF Init, InitPrepaidGas, TypeOK, SoundAccounts
<1>7. QED
  BY <1>4, <1>5, <1>6 DEF IInv, ChargedByKind

\* At genesis the users have all the money, and there is no credit.
LEMMA InitSums ==
    ASSUME Init
    PROVE  /\ Kept(accounts) = SumFunctionOnSet(Endowment, Users)
           /\ SumFunctionOnSet(PrepaidCredits, Users) = 0
           /\ SumFunctionOnSet(Endowment, Users) \in Nat
<1>1. /\ SoundAccounts(accounts) /\ IsFiniteSet(Users) /\ IsFiniteSet(Holders)
      /\ account_id \in Holders /\ Holders \ {account_id} = Users
  BY InitHolds, SoundParts, PrepaidGasAssumption DEF IInv, Holders
<1> DEFINE f == [a \in Holders |-> accounts[a].free]
<1>2. \A a \in Holders : f[a] \in Int
  BY <1>1, SoundParts
<1>3. f[account_id] = 0 /\ \A u \in Users : f[u] = Endowment[u] /\ Endowment[u] \in Nat
  BY PrepaidGasAssumption DEF Init, InitPrepaidGas, Holders, DeadAccount, EndowedAccount
<1>4. SumFunctionOnSet(Endowment, Users) \in Nat
  BY <1>1, <1>3, SumType
<1> HIDE DEF f
<1>5. SumFunctionOnSet(f, Holders) = f[account_id] + SumFunctionOnSet(f, Users)
  BY <1>1, <1>2, SumRemove
<1>6. SumFunctionOnSet(f, Users) = SumFunctionOnSet(Endowment, Users)
  BY <1>1, <1>2, <1>3, SumEqual
<1>7. SumFunctionOnSet(PrepaidCredits, Users) = 0
  BY <1>1, SumZero DEF Init, InitPrepaidGas
<1>8. QED
  BY <1>3, <1>4, <1>5, <1>6, <1>7 DEF Kept, f

\* withdraw_fee takes the signer's credit on the prepaid path only, and as much
\* of it as the fee it remembers; the pallet's account pays it.
LEMMA WithdrawHolds ==
    ASSUME IInv, NEW who \in Users, NEW fee \in Fees, NEW tip \in Tips,
           withdraw_fee(who, fee, tip)
    PROVE  IInv' /\ Step
<1>1. /\ fee \in Nat /\ tip \in Nat /\ fee + tip \in Nat
      /\ who \in Holders /\ account_id \in Holders /\ who # account_id
      /\ PrepaidCredits \in [Users -> Nat] /\ collected \in Nat /\ dust_lost \in Nat
      /\ ExistentialDeposit \in Nat \ {0}
  BY GasPaymentAssumption, PrepaidGasAssumption, ExistentialDepositAssumption
  DEF Holders, IInv, TypeOK
<1>2. /\ \A a \in Holders : /\ Sound(accounts[a]) /\ accounts[a].held = NothingHeld
                            /\ accounts[a].free \in Nat
      /\ Kept(accounts) \in Nat
  BY SoundParts DEF IInv, SoundAccounts
<1>3. PalletAccountInitialized' \in BOOLEAN /\ collected' = collected
  BY DEF withdraw_fee, IInv, TypeOK
<1>4. Taken(liquidity_info) = 0
  BY DEF withdraw_fee, Taken
<1>5. SumFunctionOnSet(PrepaidCredits, Users) \in Nat
  BY <1>1, CreditsType
<1>6. CASE UNCHANGED <<accounts, PrepaidCredits, dust_lost>>
           /\ liquidity_info' = [kind |-> "NoCharge", who |-> who,
                                 fee_credit |-> 0, tip_credit |-> 0]
  <2>1. Taken(liquidity_info') = 0
    BY <1>6 DEF Taken
  <2>2. MoneyStep
    BY <1>1, <1>2, <1>3, <1>4, <1>6, <2>1 DEF MoneyStep, NoneMade
  <2>3. BackingStep /\ DustStep
    BY <1>1, <1>2, <1>5, <1>6 DEF BackingStep, DustStep, Backing
  <2>4. IInv' /\ CreditStep
    BY <1>1, <1>3, <1>6 DEF IInv, TypeOK, SoundAccounts, LiquidityInfo, CreditStep, ChargedByKind
  <2>5. QED
    BY <2>2, <2>3, <2>4 DEF Step
<1>7. CASE /\ withdraws_prepaid(who, fee, tip)
           /\ liquidity_info' = [kind |-> "Prepaid", who |-> who,
                                 fee_credit |-> fee, tip_credit |-> tip]
           /\ PrepaidCredits' = withdraw_credit(who, fee)
           /\ accounts' = [accounts EXCEPT
                 ![account_id] = decrease_balance(@, fee),
                 ![who] = decrease_balance(@, tip)]
           /\ dust_lost' = dust_lost
                 + dust(accounts[account_id].free - fee, accounts'[account_id])
  <2> DEFINE pallet == decrease_balance(accounts[account_id], fee)
             signer == decrease_balance(accounts[who], tip)
             charged == [accounts EXCEPT ![account_id] = pallet]
             after == [charged EXCEPT ![who] = signer]
  <2>1. /\ fee <= accounts[account_id].free /\ tip <= accounts[who].free
        /\ fee <= PrepaidCredits[who]
    BY <1>1, <1>2, <1>7, ReducibleIsFree
    DEF withdraws_prepaid, can_withdraw_from_pallet, can_withdraw_credit, credit
  <2>2. /\ Sound(pallet) /\ pallet.held = NothingHeld /\ pallet.free \in Nat
        /\ Settles(pallet.free, accounts[account_id].free - fee)
    BY <1>1, <1>2, <2>1, Spend
  <2>3. /\ Sound(signer) /\ signer.held = NothingHeld /\ signer.free \in Nat
        /\ Settles(signer.free, accounts[who].free - tip)
    BY <1>1, <1>2, <2>1, Spend
  <2>4. accounts' = after
    BY <1>1, <1>7
  <2> HIDE DEF pallet, signer
  <2>5. /\ SoundAccounts(charged) /\ charged[account_id] = pallet
        /\ charged[who] = accounts[who]
        /\ Kept(charged) = Kept(accounts) - accounts[account_id].free + pallet.free
    BY <1>1, <2>2, ReplaceAccount DEF IInv
  <2> HIDE DEF charged
  <2>6. /\ SoundAccounts(after) /\ after[account_id] = pallet
        /\ Kept(after) = Kept(charged) - charged[who].free + signer.free
    BY <1>1, <2>3, <2>5, ReplaceAccount
  <2> HIDE DEF after
  <2>7. /\ PrepaidCredits' \in [Users -> Nat]
        /\ PrepaidCredits'[who] = PrepaidCredits[who] - fee
        /\ \A u \in Users \ {who} : PrepaidCredits'[u] = PrepaidCredits[u]
    BY <1>1, <1>7, <2>1 DEF withdraw_credit
  <2>8. liquidity_info' \in LiquidityInfo /\ Taken(liquidity_info') = fee + tip
    BY <1>1, <1>7 DEF LiquidityInfo, Taken, NoTransaction
  <2>9. CreditStep
    BY <1>1, <1>7, <2>7 DEF CreditStep
  <2>10. /\ pallet.free <= accounts[account_id].free - fee
         /\ signer.free <= accounts[who].free - tip
         /\ (accounts[account_id].free - fee) - pallet.free < ExistentialDeposit
         /\ pallet.free # accounts[account_id].free - fee => pallet.free = 0
         /\ ExistentialDeposit = 1 => /\ pallet.free = accounts[account_id].free - fee
                                      /\ signer.free = accounts[who].free - tip
    BY <1>1, <1>2, <2>1, <2>2, <2>3, DustIsSmall
  <2>11. MoneyStep
    BY <1>1, <1>2, <1>3, <1>4, <2>2, <2>3, <2>4, <2>5, <2>6, <2>8, <2>10
    DEF MoneyStep, NoneMade
  <2>12. SumFunctionOnSet(PrepaidCredits', Users)
           = SumFunctionOnSet(PrepaidCredits, Users) - PrepaidCredits[who] + PrepaidCredits'[who]
    BY <1>1, <2>7, ReplaceCredit
  <2>13. SumFunctionOnSet(PrepaidCredits', Users) = SumFunctionOnSet(PrepaidCredits, Users) - fee
    BY <1>1, <1>5, <2>7, <2>12
  <2>14. BackingStep
    BY <1>1, <1>2, <1>5, <2>2, <2>4, <2>6, <2>10, <2>13 DEF BackingStep, Backing
  <2>15. DustStep
    <3>1. /\ dust(accounts[account_id].free - fee, pallet) \in Nat
          /\ pallet.free + dust(accounts[account_id].free - fee, pallet)
                = accounts[account_id].free - fee
      <4>1. accounts[account_id].free - fee \in Nat
        BY <1>1, <1>2, <2>1
      <4>2. QED
        BY <2>2, <4>1, DustIsCounted
    <3>2. dust_lost' = dust_lost + dust(accounts[account_id].free - fee, pallet)
      BY <1>7, <2>4, <2>6
    <3>3. QED
      BY <1>1, <1>2, <1>5, <2>2, <2>4, <2>6, <2>13, <3>1, <3>2 DEF DustStep, Backing
  <2>16. QED
    BY <1>1, <1>3, <1>7, <2>4, <2>6, <2>7, <2>8, <2>9, <2>11, <2>14, <2>15
    DEF IInv, TypeOK, SoundAccounts, Step, DustStep, ChargedByKind
<1>8. CASE /\ withdraws_native(who, fee, tip)
           /\ liquidity_info' = [kind |-> "Native", who |-> who,
                                 fee_credit |-> fee, tip_credit |-> tip]
           /\ accounts' = [accounts EXCEPT ![who] = decrease_balance(@, fee + tip)]
           /\ UNCHANGED <<PrepaidCredits, dust_lost>>
  <2> DEFINE signer == decrease_balance(accounts[who], fee + tip)
             after == [accounts EXCEPT ![who] = signer]
  <2>1. fee + tip <= accounts[who].free
    BY <1>1, <1>2, <1>8, ReducibleIsFree DEF withdraws_native
  <2>2. /\ Sound(signer) /\ signer.held = NothingHeld /\ signer.free \in Nat
        /\ Settles(signer.free, accounts[who].free - (fee + tip))
    BY <1>1, <1>2, <2>1, Spend
  <2>3. accounts' = after
    BY <1>8
  <2> HIDE DEF signer
  <2>4. /\ SoundAccounts(after) /\ after[account_id] = accounts[account_id]
        /\ Kept(after) = Kept(accounts) - accounts[who].free + signer.free
    BY <1>1, <2>2, ReplaceAccount DEF IInv
  <2> HIDE DEF after
  <2>5. /\ signer.free <= accounts[who].free - (fee + tip)
        /\ ExistentialDeposit = 1 => signer.free = accounts[who].free - (fee + tip)
    BY <1>1, <1>2, <2>1, <2>2, DustIsSmall
  <2>6. liquidity_info' \in LiquidityInfo /\ Taken(liquidity_info') = fee + tip
    BY <1>1, <1>8 DEF LiquidityInfo, Taken, NoTransaction
  <2>7. MoneyStep
    BY <1>1, <1>2, <1>3, <1>4, <2>2, <2>3, <2>4, <2>5, <2>6 DEF MoneyStep, NoneMade
  <2>8. BackingStep /\ DustStep
    BY <1>1, <1>2, <1>5, <1>8, <2>3, <2>4 DEF BackingStep, DustStep, Backing
  <2>9. CreditStep
    BY <1>1, <1>8 DEF CreditStep
  <2>10. QED
    BY <1>1, <1>3, <1>8, <2>3, <2>4, <2>6, <2>7, <2>8, <2>9
    DEF IInv, TypeOK, SoundAccounts, Step, DustStep, ChargedByKind
<1>9. QED
  BY <1>6, <1>7, <1>8 DEF withdraw_fee

\* purchase moves the price to the pallet's account and gives as much credit.
LEMMA PurchaseHolds ==
    ASSUME IInv, NEW sponsor \in Users, NEW beneficiary \in Users, NEW amount \in Amounts,
           purchase(sponsor, beneficiary, amount)
    PROVE  IInv' /\ Step
<1> DEFINE funds == ensure_pallet_account
<1>1. /\ amount \in Nat /\ amount # 0
      /\ sponsor \in Holders /\ account_id \in Holders /\ sponsor # account_id
      /\ PrepaidCredits \in [Users -> Nat] /\ collected \in Nat /\ dust_lost \in Nat
      /\ ExistentialDeposit \in Nat \ {0} /\ Taken(liquidity_info) \in Nat
  BY PrepaidGasAssumption, ExistentialDepositAssumption
  DEF Holders, IInv, TypeOK, purchase, purchase_for, Taken, LiquidityInfo
<1>2. /\ SoundAccounts(funds) /\ funds[account_id].free = accounts[account_id].free
      /\ Kept(funds) = Kept(accounts)
  BY EnsurePalletAccount DEF IInv
<1>3. /\ can_transfer(funds, sponsor, account_id, amount, "Preserve")
      /\ accounts' = transfer(funds, sponsor, account_id, amount)
  BY DEF purchase, purchase_for
<1> HIDE DEF funds
<1>4. /\ SoundAccounts(accounts')
      /\ NoneMade(Kept(accounts'), Kept(accounts))
      /\ accounts'[account_id].free = accounts[account_id].free + amount
  BY <1>1, <1>2, <1>3, Transfer
<1>5. /\ PrepaidCredits' \in [Users -> Nat]
      /\ PrepaidCredits'[beneficiary] = PrepaidCredits[beneficiary] + amount
      /\ \A u \in Users \ {beneficiary} : PrepaidCredits'[u] = PrepaidCredits[u]
  BY <1>1 DEF purchase, purchase_for
<1>6. UNCHANGED <<liquidity_info, collected, dust_lost>> /\ PalletAccountInitialized' = TRUE
  BY DEF purchase, purchase_for, Dispatching
<1>7. accounts[account_id].free \in Nat /\ Kept(accounts) \in Nat /\ Kept(accounts') \in Nat
  BY <1>1, <1>4, SoundParts DEF IInv
<1>8. CreditStep
  BY <1>1, <1>4, <1>5, <1>7 DEF CreditStep
<1>9. MoneyStep
  BY <1>1, <1>4, <1>6, <1>7 DEF MoneyStep, NoneMade
<1>10. BackingStep /\ DustStep
  <2>1. /\ SumFunctionOnSet(PrepaidCredits, Users) \in Nat
        /\ SumFunctionOnSet(PrepaidCredits', Users)
             = SumFunctionOnSet(PrepaidCredits, Users)
                 - PrepaidCredits[beneficiary] + PrepaidCredits'[beneficiary]
    BY <1>1, <1>5, ReplaceCredit, CreditsType
  <2>2. PrepaidCredits[beneficiary] \in Nat
    BY <1>1
  <2>3. QED
    BY <1>1, <1>4, <1>5, <1>6, <1>7, <2>1, <2>2 DEF BackingStep, DustStep, Backing
<1>11. QED
  BY <1>4, <1>5, <1>6, <1>8, <1>9, <1>10 DEF IInv, TypeOK, SoundAccounts, Step, ChargedByKind

\* A call that moves balance, whoever receives it, leaves the credits alone.
LEMMA TransferHolds ==
    ASSUME IInv, NEW source \in Users, NEW dest \in Holders, NEW amount \in Amounts,
           transfer_allow_death(source, dest, amount)
    PROVE  IInv' /\ Step
<1>1. /\ amount \in Nat /\ source \in Holders /\ source # account_id
      /\ ExistentialDeposit \in Nat \ {0} /\ Taken(liquidity_info) \in Nat
      /\ account_id \in Holders /\ collected \in Nat /\ PrepaidCredits \in [Users -> Nat]
      /\ dust_lost \in Nat
  BY PrepaidGasAssumption, ExistentialDepositAssumption
  DEF Holders, IInv, TypeOK, Taken, LiquidityInfo
<1>2. /\ SoundAccounts(accounts') /\ NoneMade(Kept(accounts'), Kept(accounts))
      /\ \/ accounts'[account_id] = accounts[account_id]
         \/ Settles(accounts'[account_id].free, accounts[account_id].free + amount)
  <2>1. /\ can_transfer(accounts, source, dest, amount, "Expendable")
        /\ accounts' = transfer(accounts, source, dest, amount)
        /\ SoundAccounts(accounts)
    BY DEF transfer_allow_death, IInv
  <2>2. QED
    BY <1>1, <2>1, Transfer
<1>3. UNCHANGED <<PrepaidCredits, PalletAccountInitialized, liquidity_info, collected>>
  BY DEF transfer_allow_death, Dispatching
<1>4. /\ accounts[account_id].free \in Nat /\ accounts'[account_id].free \in Nat
      /\ Kept(accounts) \in Nat /\ Kept(accounts') \in Nat
  BY <1>1, <1>2, SoundParts DEF IInv
<1>5. MoneyStep
  BY <1>1, <1>2, <1>3, <1>4 DEF MoneyStep, NoneMade
<1>6. BackingStep
  <2>1. SumFunctionOnSet(PrepaidCredits, Users) \in Nat
    BY <1>1, CreditsType
  <2>2. /\ accounts[account_id].free - accounts'[account_id].free < ExistentialDeposit
        /\ accounts'[account_id].free < accounts[account_id].free
                => accounts'[account_id].free = 0
    BY <1>1, <1>2, <1>4 DEF Settles
  <2>3. QED
    BY <1>1, <1>3, <1>4, <2>1, <2>2 DEF BackingStep, Backing
<1>7. DustStep
  <2> DEFINE lost == dust(accounts[account_id].free, accounts'[account_id])
  <2>1. lost \in Nat /\ accounts[account_id].free <= accounts'[account_id].free + lost
    BY <1>1, <1>2, <1>4 DEF dust, Settles
  <2>2. dust_lost' = dust_lost + lost
    BY DEF transfer_allow_death
  <2>3. SumFunctionOnSet(PrepaidCredits, Users) \in Nat
    BY <1>1, CreditsType
  <2> HIDE DEF lost
  <2>4. QED
    BY <1>1, <1>3, <1>4, <2>1, <2>2, <2>3 DEF DustStep, Backing
<1>8. QED
  BY <1>2, <1>3, <1>5, <1>6, <1>7
  DEF IInv, TypeOK, SoundAccounts, CreditStep, Step, DustStep, ChargedByKind

\* settle_native_fee touches the signer's balance, never a credit; the refund
\* and the collected fee are together what was taken.
LEMMA SettleNative ==
    ASSUME IInv, NEW who \in Users, NEW paid \in Nat, NEW corrected_fee \in Nat,
           NEW tip \in Nat, corrected_fee <= paid,
           settle_native_fee(who, paid, corrected_fee, tip)
    PROVE  /\ SoundAccounts(accounts') /\ collected' \in Nat
           /\ PrepaidCredits' = PrepaidCredits
           /\ accounts'[account_id] = accounts[account_id]
           /\ NoneMade(Kept(accounts') + collected', Kept(accounts) + paid + tip + collected)
<1> DEFINE refund == paid - corrected_fee
           refunded == account_exists(who) /\ can_deposit(accounts[who], refund)
           more == increase_balance(accounts[who], refund)
           after == [accounts EXCEPT ![who] = more]
<1>1. /\ who \in Holders /\ who # account_id /\ account_id \in Holders
      /\ Sound(accounts[who]) /\ accounts[who].held = NothingHeld
      /\ accounts[who].free \in Nat /\ Kept(accounts) \in Nat
      /\ SoundAccounts(accounts) /\ collected \in Nat
  BY SoundParts, PrepaidGasAssumption DEF Holders, IInv, SoundAccounts, TypeOK
<1>2. refund \in Nat
  OBVIOUS
<1>3. /\ Sound(more) /\ more.held = NothingHeld /\ more.free \in Nat
      /\ Settles(more.free, accounts[who].free + refund)
  BY <1>1, <1>2, Receive
<1>4. /\ more.free <= accounts[who].free + refund
      /\ ExistentialDeposit = 1 => more.free = accounts[who].free + refund
  BY <1>1, <1>2, <1>3, DustIsSmall
<1>5. /\ accounts' = IF refunded THEN after ELSE accounts
      /\ collected' = collected + tip + (IF refunded THEN corrected_fee ELSE paid)
      /\ PrepaidCredits' = PrepaidCredits
  BY DEF settle_native_fee
<1> HIDE DEF more
<1>6. /\ SoundAccounts(after) /\ after[account_id] = accounts[account_id]
      /\ Kept(after) = Kept(accounts) - accounts[who].free + more.free
  BY <1>1, <1>3, ReplaceAccount
<1> HIDE DEF after, refunded
<1>7. CASE refunded
  BY <1>1, <1>3, <1>4, <1>5, <1>6, <1>7 DEF NoneMade
<1>8. CASE ~refunded
  BY <1>1, <1>5, <1>8 DEF NoneMade
<1>9. QED
  BY <1>7, <1>8

\* settle_prepaid_fee gives back to the credit what it gives back to the
\* pallet's account, or to neither, and collects the rest.
LEMMA SettlePrepaid ==
    ASSUME IInv, NEW who \in Users, NEW paid \in Nat, NEW corrected_fee \in Nat,
           NEW tip \in Nat, corrected_fee <= paid,
           settle_prepaid_fee(who, paid, corrected_fee, tip)
    PROVE  /\ SoundAccounts(accounts') /\ collected' \in Nat
           /\ PrepaidCredits' \in [Users -> Nat]
           /\ CreditStep
           /\ BackingStep
           /\ Backing(accounts', PrepaidCredits') >= Backing(accounts, PrepaidCredits)
           /\ NoneMade(Kept(accounts') + collected', Kept(accounts) + paid + tip + collected)
<1> DEFINE refund == paid - corrected_fee
           refunded == refund # 0 /\ can_deposit(accounts[account_id], refund)
           more == increase_balance(accounts[account_id], refund)
           after == [accounts EXCEPT ![account_id] = more]
<1>1. /\ account_id \in Holders /\ Sound(accounts[account_id])
      /\ accounts[account_id].held = NothingHeld
      /\ accounts[account_id].free \in Nat /\ PrepaidCredits \in [Users -> Nat]
      /\ Kept(accounts) \in Nat /\ SoundAccounts(accounts) /\ collected \in Nat
      /\ ExistentialDeposit \in Nat \ {0}
      /\ SumFunctionOnSet(PrepaidCredits, Users) \in Nat
  BY SoundParts, CreditsType, ExistentialDepositAssumption DEF IInv, SoundAccounts, TypeOK
<1>2. refund \in Nat /\ corrected_fee = IF corrected_fee < paid THEN corrected_fee ELSE paid
  OBVIOUS
<1>3. /\ accounts' = IF refunded THEN after ELSE accounts
      /\ PrepaidCredits' = IF refunded THEN refund_credit(who, refund) ELSE PrepaidCredits
      /\ collected' = collected + tip + (IF refunded THEN corrected_fee ELSE paid)
  BY <1>2 DEF settle_prepaid_fee
<1>4. collected' \in Nat
  BY <1>1, <1>3
<1>5. /\ Sound(more) /\ more.held = NothingHeld /\ more.free \in Nat
      /\ refunded => more.free = accounts[account_id].free + refund
  BY <1>1, <1>2, Receive
<1> HIDE DEF more
<1>6. /\ SoundAccounts(after) /\ after[account_id] = more
      /\ Kept(after) = Kept(accounts) - accounts[account_id].free + more.free
  BY <1>1, <1>5, ReplaceAccount
<1> HIDE DEF after, refunded
<1>7. CASE refunded
  <2>1. /\ PrepaidCredits' \in [Users -> Nat]
        /\ PrepaidCredits'[who] = PrepaidCredits[who] + refund
        /\ \A u \in Users \ {who} : PrepaidCredits'[u] = PrepaidCredits[u]
    BY <1>1, <1>2, <1>3, <1>7 DEF refund_credit
  <2>2. accounts' = after /\ collected' = collected + tip + corrected_fee
    BY <1>3, <1>7
  <2>3. more.free = accounts[account_id].free + refund
    BY <1>5, <1>7
  <2>4. CreditStep
    <3> HIDE DEF refund
    <3>1. QED
      BY <1>1, <1>2, <1>6, <2>1, <2>2, <2>3 DEF CreditStep
  <2>5. NoneMade(Kept(accounts') + collected', Kept(accounts) + paid + tip + collected)
    BY <1>1, <1>6, <2>2, <2>3 DEF NoneMade
  <2>6. /\ BackingStep
        /\ Backing(accounts', PrepaidCredits') >= Backing(accounts, PrepaidCredits)
    <3>1. SumFunctionOnSet(PrepaidCredits', Users)
            = SumFunctionOnSet(PrepaidCredits, Users) - PrepaidCredits[who] + PrepaidCredits'[who]
      BY <1>1, <2>1, ReplaceCredit
    <3>2. PrepaidCredits[who] \in Nat
      BY <1>1
    <3> HIDE DEF refund
    <3>3. QED
      BY <1>1, <1>2, <1>6, <2>1, <2>2, <2>3, <3>1, <3>2 DEF BackingStep, Backing
  <2>7. QED
    BY <1>4, <1>6, <2>1, <2>2, <2>4, <2>5, <2>6
<1>8. CASE ~refunded
  <2>1. /\ accounts' = accounts /\ PrepaidCredits' = PrepaidCredits
        /\ collected' = collected + tip + paid
    BY <1>3, <1>8
  <2>2. CreditStep
    BY <1>1, <2>1 DEF CreditStep
  <2>3. /\ BackingStep
        /\ Backing(accounts', PrepaidCredits') >= Backing(accounts, PrepaidCredits)
    BY <1>1, <2>1 DEF BackingStep, Backing
  <2>4. QED
    BY <1>1, <1>4, <2>1, <2>2, <2>3 DEF NoneMade
<1>9. QED
  BY <1>7, <1>8

\* correct_and_deposit_fee settles what withdraw_fee took, by its kind.  A
\* transaction that was charged nothing took nothing.
LEMMA CorrectHolds ==
    ASSUME IInv, NEW fee \in Fees, correct_and_deposit_fee(fee)
    PROVE  IInv' /\ Step
<1> DEFINE info == liquidity_info
<1>1. /\ info \in LiquidityInfo /\ fee \in Nat /\ fee <= info.fee_credit
      /\ PrepaidCredits \in [Users -> Nat] /\ SoundAccounts(accounts) /\ collected \in Nat
      /\ ExistentialDeposit \in Nat \ {0}
      /\ info.kind = "NoCharge" => info.fee_credit = 0 /\ info.tip_credit = 0
  BY GasPaymentAssumption, ExistentialDepositAssumption
  DEF correct_and_deposit_fee, IInv, TypeOK, ChargedByKind
<1>2. info.who \in Users /\ info.fee_credit \in Nat /\ info.tip_credit \in Nat
  BY <1>1 DEF LiquidityInfo
<1>3. /\ liquidity_info' = NoTransaction /\ PalletAccountInitialized' \in BOOLEAN
      /\ dust_lost' = dust_lost /\ dust_lost \in Nat
  BY DEF correct_and_deposit_fee, IInv, TypeOK
<1>4. /\ Taken(liquidity_info) = info.fee_credit + info.tip_credit
      /\ Taken(liquidity_info') = 0
  BY <1>3 DEF Taken, correct_and_deposit_fee
<1>5. /\ accounts[account_id].free \in Nat /\ Kept(accounts) \in Nat
      /\ SumFunctionOnSet(PrepaidCredits, Users) \in Nat
  BY <1>1, SoundParts, CreditsType
<1>6. CASE info.kind = "NoCharge" /\ UNCHANGED <<accounts, PrepaidCredits, collected>>
  <2>1. MoneyStep /\ BackingStep /\ DustStep
    BY <1>1, <1>3, <1>4, <1>5, <1>6
    DEF MoneyStep, NoneMade, BackingStep, DustStep, Backing
  <2>2. QED
    BY <1>1, <1>3, <1>6, <2>1 DEF IInv, TypeOK, SoundAccounts, CreditStep, Step, ChargedByKind
<1>7. CASE settle_native_fee(info.who, info.fee_credit, fee, info.tip_credit)
  <2>1. /\ SoundAccounts(accounts') /\ collected' \in Nat
        /\ PrepaidCredits' = PrepaidCredits
        /\ accounts'[account_id] = accounts[account_id]
        /\ NoneMade(Kept(accounts') + collected',
                    Kept(accounts) + info.fee_credit + info.tip_credit + collected)
    BY <1>1, <1>2, <1>7, SettleNative
  <2>2. Kept(accounts') \in Nat
    BY <2>1, SoundParts
  <2>3. MoneyStep
    BY <1>1, <1>2, <1>4, <1>5, <2>1, <2>2 DEF MoneyStep, NoneMade
  <2>4. BackingStep /\ DustStep
    BY <1>1, <1>3, <1>5, <2>1 DEF BackingStep, DustStep, Backing
  <2>5. QED
    BY <1>1, <1>3, <2>1, <2>3, <2>4
    DEF IInv, TypeOK, SoundAccounts, CreditStep, Step, ChargedByKind
<1>8. CASE settle_prepaid_fee(info.who, info.fee_credit, fee, info.tip_credit)
  <2>1. /\ SoundAccounts(accounts') /\ collected' \in Nat
        /\ PrepaidCredits' \in [Users -> Nat]
        /\ CreditStep /\ BackingStep
        /\ Backing(accounts', PrepaidCredits') >= Backing(accounts, PrepaidCredits)
        /\ NoneMade(Kept(accounts') + collected',
                    Kept(accounts) + info.fee_credit + info.tip_credit + collected)
    BY <1>1, <1>2, <1>8, SettlePrepaid
  <2>2. Kept(accounts') \in Nat
    BY <2>1, SoundParts
  <2>3. MoneyStep
    BY <1>1, <1>2, <1>4, <1>5, <2>1, <2>2 DEF MoneyStep, NoneMade
  <2>4. DustStep
    <3>1. /\ SumFunctionOnSet(PrepaidCredits', Users) \in Nat
          /\ accounts'[account_id].free \in Nat
      BY <2>1, CreditsType, SoundParts
    <3>2. QED
      BY <1>3, <1>5, <2>1, <3>1 DEF DustStep, Backing
  <2>5. QED
    BY <1>3, <2>1, <2>3, <2>4 DEF IInv, TypeOK, SoundAccounts, Step, ChargedByKind
<1>9. QED
  BY <1>6, <1>7, <1>8 DEF correct_and_deposit_fee

\* Every step of a block, or none, keeps the invariant and moves credit and
\* money as its step does.
LEMMA StepHolds ==
    ASSUME IInv, [Next]_vars
    PROVE  IInv' /\ [Step]_vars
<1>1. ASSUME NEW who \in Users, NEW fee \in Fees, NEW tip \in Tips, withdraw_fee(who, fee, tip)
      PROVE  IInv' /\ Step
  BY <1>1, WithdrawHolds
<1>2. ASSUME NEW s \in Users, NEW b \in Users, NEW x \in Amounts, purchase(s, b, x)
      PROVE  IInv' /\ Step
  BY <1>2, PurchaseHolds
<1>3. ASSUME NEW s \in Users, NEW d \in Holders, NEW x \in Amounts,
             transfer_allow_death(s, d, x)
      PROVE  IInv' /\ Step
  BY <1>3, TransferHolds
<1>4. ASSUME NEW fee \in Fees, correct_and_deposit_fee(fee)
      PROVE  IInv' /\ Step
  BY <1>4, CorrectHolds
<1>5. CASE UNCHANGED vars
  BY <1>5 DEF vars, IInv, TypeOK, SoundAccounts, ChargedByKind
<1>6. QED
  BY <1>1, <1>2, <1>3, <1>4, <1>5 DEF Next

-----------------------------------------------------------------------------
\* No balance, credit, provider count or collected fee ever becomes negative,
\* whatever purchase, withdraw_fee, a transfer and the refund do in turn.
THEOREM TypeCorrect == Spec => []TypeOK
<1>1. IInv => TypeOK
  BY DEF IInv
<1>2. QED
  BY <1>1, InitHolds, StepHolds, PTL DEF Spec

\* Credit is taken from the signer of the transaction it pays for and from
\* nobody else, by exactly the fee; and wherever purchase or the refund of
\* settle_prepaid_fee gives credit, the pallet's account receives as much.
THEOREM CreditOnlyMovesWithItsFunds == Spec => CreditIsPersonal
<1>1. [Step]_vars => [CreditStep]_vars
  BY DEF Step
<1>2. Spec => [][CreditStep]_vars
  BY <1>1, InitHolds, StepHolds, PTL DEF Spec
<1>3. QED
  BY <1>2 DEF CreditIsPersonal, CreditStep

\* What is in the accounts, with the running transaction and collected is never
\* more than what the users had at genesis, and never less where there is no
\* dust: withdraw_fee, the calls and the settlement of the fee lose and
\* duplicate nothing.
THEOREM NoMoneyIsMade == Spec => []FundsConserved
<1>1. Init => FundsConserved
  <2> SUFFICES ASSUME Init PROVE FundsConserved
    OBVIOUS
  <2>1. /\ Kept(accounts) = SumFunctionOnSet(Endowment, Users)
        /\ SumFunctionOnSet(Endowment, Users) \in Nat
    BY InitSums
  <2>2. liquidity_info = NoTransaction /\ collected = 0
    BY DEF Init
  <2>3. QED
    BY <2>1, <2>2 DEF FundsConserved, Kept
<1>2. IInv /\ IInv' /\ FundsConserved /\ [Step]_vars => FundsConserved'
  <2> SUFFICES ASSUME IInv, IInv', FundsConserved, [Step]_vars PROVE FundsConserved'
    OBVIOUS
  <2> DEFINE endowed == SumFunctionOnSet(Endowment, Users)
             money == Kept(accounts) + Taken(liquidity_info) + collected
             later == Kept(accounts') + Taken(liquidity_info') + collected'
  <2>1. endowed \in Nat
    BY CreditsType, PrepaidGasAssumption
  <2>2. money \in Nat /\ later \in Nat
    BY SoundParts DEF IInv, TypeOK, Taken, LiquidityInfo
  <2>3. NoneMade(money, endowed)
    BY DEF FundsConserved, NoneMade, Kept, Taken
  <2>4. NoneMade(later, money)
    <3>1. CASE Step
      BY <3>1 DEF Step, MoneyStep
    <3>2. CASE UNCHANGED vars
      BY <2>2, <3>2 DEF vars, NoneMade
    <3>3. QED
      BY <3>1, <3>2
  <2> HIDE DEF endowed, money, later
  <2>5. NoneMade(later, endowed)
    BY <2>1, <2>2, <2>3, <2>4 DEF NoneMade
  <2>6. QED
    BY <2>5 DEF FundsConserved, NoneMade, Kept, Taken, endowed, later
<1>3. QED
  BY <1>1, <1>2, InitHolds, StepHolds, PTL DEF Spec

\* For every existential deposit, a step takes from the backing of the credits
\* only dust, and only the last of the pallet's account: the fee that
\* withdraw_fee takes, a purchase and a refund change the account and the
\* credits by the same amount.
THEOREM BackingLostOnlyAsDust == Spec => [][BackingStep]_vars
<1>1. [Step]_vars => [BackingStep]_vars
  BY DEF Step
<1>2. QED
  BY <1>1, InitHolds, StepHolds, PTL DEF Spec

\* For every existential deposit, the deployed MILLI_UNIT included, the credit
\* that was sold is backed in every reachable state by what the pallet's account
\* has and what it dropped as dust when a prepaid fee left less than the deposit
\* there.  (That dust can be lost is what gas_dust shows.)
THEOREM CreditStaysBacked == Spec => []BackedUpToDust
<1>1. Init => BackedUpToDust
  <2> SUFFICES ASSUME Init PROVE BackedUpToDust
    OBVIOUS
  <2>1. SumFunctionOnSet(PrepaidCredits, Users) = 0
    BY InitSums
  <2>2. accounts[account_id].free = 0 /\ dust_lost = 0
    BY DEF Init, InitPrepaidGas, DeadAccount, Holders
  <2>3. QED
    BY <2>1, <2>2 DEF BackedUpToDust
<1>2. IInv /\ IInv' /\ BackedUpToDust /\ [Step]_vars => BackedUpToDust'
  <2> SUFFICES ASSUME IInv, IInv', BackedUpToDust, [Step]_vars PROVE BackedUpToDust'
    OBVIOUS
  <2>1. /\ SumFunctionOnSet(PrepaidCredits, Users) \in Nat
        /\ SumFunctionOnSet(PrepaidCredits', Users) \in Nat
        /\ accounts[account_id].free \in Nat /\ accounts'[account_id].free \in Nat
        /\ dust_lost \in Nat /\ dust_lost' \in Nat
    BY CreditsType, SoundParts DEF IInv, TypeOK
  <2>2. CASE Step
    BY <2>1, <2>2 DEF Step, DustStep, Backing, BackedUpToDust
  <2>3. CASE UNCHANGED vars
    BY <2>3 DEF vars, BackedUpToDust
  <2>4. QED
    BY <2>2, <2>3
<1>3. QED
  BY <1>1, <1>2, InitHolds, StepHolds, PTL DEF Spec

\* For every existential deposit, a fee that can_withdraw_fee accepted, when the
\* transaction was validated, is one that withdraw_fee can take, from the signer's
\* balance and, where the credit covers the dust that was lost too, from the
\* pallet's account, which can pay it down to the last unit.
THEOREM CheckedFeesArePaid == Spec => []CheckedFeeIsPayable
<1>1. IInv /\ BackedUpToDust => CheckedFeeIsPayable
  <2> SUFFICES ASSUME IInv, BackedUpToDust, NEW who \in Users, NEW fee \in Fees,
                      NEW tip \in Tips, can_withdraw_fee(who, fee, tip),
                      uses_credit(who, fee) => credit(who) >= fee + dust_lost
               PROVE  \/ fee + tip = 0
                      \/ withdraws_prepaid(who, fee, tip)
                      \/ withdraws_native(who, fee, tip)
    BY DEF CheckedFeeIsPayable
  <2>1. /\ fee \in Nat /\ tip \in Nat /\ account_id \in Holders /\ who \in Holders
        /\ accounts[who].free \in Nat /\ accounts[account_id].free \in Nat
        /\ accounts[account_id].held = NothingHeld /\ dust_lost \in Nat
    BY GasPaymentAssumption, SoundParts DEF IInv, Holders, SoundAccounts, TypeOK
  <2>2. ASSUME NEW amount \in Nat, can_withdraw_native(who, amount)
        PROVE  amount <= reducible_balance(accounts[who], "Preserve")
    BY <2>1, <2>2, ExistentialDepositAssumption DEF can_withdraw_native, reducible_balance
  <2>3. CASE uses_credit(who, fee)
    <3>1. fee + dust_lost <= PrepaidCredits[who] /\ can_withdraw_native(who, tip)
      BY <2>1, <2>3 DEF uses_credit, credit, can_withdraw_fee, IInv, TypeOK
    <3>2. PrepaidCredits[who] <= SumFunctionOnSet(PrepaidCredits, Users)
      BY PrepaidGasAssumption, SumPart DEF IInv, TypeOK
    <3>3. fee <= accounts[account_id].free
      <4>1. PrepaidCredits[who] \in Nat /\ SumFunctionOnSet(PrepaidCredits, Users) \in Nat
        BY CreditsType DEF IInv, TypeOK
      <4>2. QED
        BY <2>1, <3>1, <3>2, <4>1 DEF BackedUpToDust
    <3>4. can_withdraw_from_pallet(fee)
      BY <2>1, <3>3 DEF can_withdraw_from_pallet, reducible_balance, can_dec_provider,
                        Reserved, OnHold, NothingHeld, HoldReason
    <3>5. QED
      BY <2>1, <2>2, <2>3, <3>1, <3>4
      DEF withdraws_prepaid, can_withdraw_credit, credit, uses_credit, IInv, TypeOK
  <2>4. CASE ~uses_credit(who, fee)
    BY <2>1, <2>2, <2>4 DEF can_withdraw_fee, withdraws_native
  <2>5. QED
    BY <2>3, <2>4
<1>2. QED
  BY <1>1, CreditStaysBacked, InitHolds, StepHolds, PTL DEF Spec
===============================================================================
