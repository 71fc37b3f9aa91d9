---------------------------- MODULE RuntimeProofs ----------------------------
(***************************************************************************)
(* Proofs about the composition of the pallets in Runtime: what the fee    *)
(* adapter and the prepaid gas pallet do between the calls of a            *)
(* transaction leaves what is proved of the sponsorship pallet intact, for *)
(* every value of the constants.                                           *)
(***************************************************************************)
EXTENDS Runtime, SponsorshipProofs

\* Zenon proves most leaves; a leaf that needs arithmetic or functions says SMTT.
USE Zenon

LiquidityOK == liquidity_info \in Gas!LiquidityInfo \cup {Gas!NoTransaction}

RuntimeInv ==
    /\ IInv
    /\ LiquidityOK
    /\ PalletAccountInitialized => Spare(account_id) >= 1

\* Moving free balance: every account keeps its holds and its references.
Gentle(before, after) ==
    /\ SoundAccounts(after)
    /\ \A a \in Accounts : /\ after[a].held = before[a].held
                           /\ Slack(after[a]) = Slack(before[a])

\* All the money in the accounts, free or on hold.
Kept(funds) == SumFunctionOnSet([a \in Accounts |-> TotalBalance(funds[a])], Accounts)

Taken(info) == IF info = Gas!NoTransaction THEN 0 ELSE info.fee_credit + info.tip_credit

\* At most as much, and as much where there is no dust.
NoneMade(after, before) ==
    after <= before /\ (ExistentialDeposit = 1 => after = before)

\* Moving free balance, with what it adds to the money in all accounts.
Moved(before, after, all) ==
    /\ Gentle(before, after)
    /\ NoneMade(Kept(after), Kept(before) + all)

\* What a step adds to the gas account, less the dust that is counted.
Gains(own) ==
    accounts'[account_id].free + dust_lost' >= accounts[account_id].free + dust_lost + own

\* What holds of credit and of the running transaction.  No credit is sold
\* before the pallet's account has its reference, nor at genesis, when any
\* account may sponsor; and a block begins between transactions.
CreditInv ==
    /\ PrepaidCredits \in [Users -> Nat] /\ collected \in Nat /\ dust_lost \in Nat
    /\ ~PalletAccountInitialized => \A u \in Users : PrepaidCredits[u] = 0
    /\ phase = "genesis" => ~PalletAccountInitialized
    /\ liquidity_info # Gas!NoTransaction => phase = "extrinsics"
    /\ liquidity_info # Gas!NoTransaction /\ liquidity_info.kind = "NoCharge"
            => liquidity_info.fee_credit = 0 /\ liquidity_info.tip_credit = 0
    /\ liquidity_info # Gas!NoTransaction /\ liquidity_info.kind = "Prepaid"
            => PalletAccountInitialized

Sold(credits) == SumFunctionOnSet(credits, Users)

\* The gas account has what credit was sold, or lost it as dust.
Backed == Sold(PrepaidCredits) <= accounts[account_id].free + dust_lost

\* A step makes no money, and keeps credit backed.
Accounted ==
    /\ NoneMade(Kept(accounts') + Taken(liquidity_info') + collected',
                Kept(accounts) + Taken(liquidity_info) + collected)
    /\ Backed => Backed'

-----------------------------------------------------------------------------
(* Money.                                                                  *)

\* What there is in an account, and in all of them.
LEMMA KeptType ==
    ASSUME NEW funds, SoundAccounts(funds)
    PROVE  /\ \A a \in Accounts : /\ TotalBalance(funds[a]) \in Nat
                                  /\ TotalBalance(funds[a]) = funds[a].free
                                        + funds[a].held["Sponsorship"]
                                        + funds[a].held["StorageDeposit"]
           /\ Kept(funds) \in Nat
           /\ account_id \in Accounts /\ funds[account_id].free \in Nat
BY SoundParts, Constants, SumType, RuntimeAssumption, SMTT(30)
   DEF TotalBalance, Reserved, OnHold,
   Kept

\* One account changes.
LEMMA KeptChange ==
    ASSUME NEW funds, SoundAccounts(funds), NEW after, SoundAccounts(after),
           NEW a \in Accounts, \A c \in Accounts \ {a} : after[c] = funds[c]
    PROVE  Kept(after) = Kept(funds) - TotalBalance(funds[a]) + TotalBalance(after[a])
BY KeptType, Constants, SumChange, SMTT(30) DEF Kept

\* The free balance of one account settles.
LEMMA MovedOne ==
    ASSUME NEW funds, SoundAccounts(funds), NEW a \in Accounts, NEW account, Sound(account),
           account.held = funds[a].held, Slack(account) = Slack(funds[a]),
           NEW x \in Int, funds[a].free + x \in Nat, Settles(account.free, funds[a].free + x)
    PROVE  LET after == [funds EXCEPT ![a] = account]
           IN  /\ Moved(funds, after, x) /\ after[a] = account
               /\ \A c \in Accounts \ {a} : after[c] = funds[c]
<1> DEFINE after == [funds EXCEPT ![a] = account]
<1>1. /\ SoundAccounts(after) /\ after[a] = account
      /\ \A c \in Accounts \ {a} : after[c] = funds[c]
  BY ReplaceAccount, SMTT(30)
<1> HIDE DEF after
<1>3. /\ funds[a].free \in Nat /\ account.free \in Nat
      /\ Kept(funds) \in Nat /\ Kept(after) \in Nat
      /\ funds[account_id].free \in Nat /\ account_id \in Accounts
  BY <1>1, KeptType, SoundParts
<1>4. Kept(after) = Kept(funds) - funds[a].free + account.free
  <2>1. /\ TotalBalance(funds[a]) = funds[a].free + funds[a].held["Sponsorship"]
                                        + funds[a].held["StorageDeposit"]
        /\ TotalBalance(account) = account.free + funds[a].held["Sponsorship"]
                                        + funds[a].held["StorageDeposit"]
        /\ funds[a].held["Sponsorship"] \in Nat /\ funds[a].held["StorageDeposit"] \in Nat
    BY <1>1, KeptType, SoundParts, SMTT(30)
  <2>3. QED
    BY <1>3, <2>1, <1>1, KeptChange, SMTT(30)
<1>5. NoneMade(account.free, funds[a].free + x)
  BY <1>3, DustIsSmall DEF NoneMade
<1>8. QED
  BY <1>1, <1>3, <1>4, <1>5, SMTT(30) DEF Moved, after, NoneMade, Gentle

\* One change after the other.
LEMMA MovedTwice ==
    ASSUME NEW f, NEW g, NEW h, SoundAccounts(f), NEW x \in Int, NEW y \in Int,
           Moved(f, g, x), Moved(g, h, y)
    PROVE  Moved(f, h, x + y)
BY KeptType, SMTT(30) DEF Moved, Gentle, NoneMade

-----------------------------------------------------------------------------
(* What the fee adapter and the gas pallet call.                           *)

\* Both pallets use the same currency.
LEMMA SameCurrency ==
    ASSUME NEW account, NEW amount
    PROVE  /\ Gas!decrease_balance(account, amount) = decrease_balance(account, amount)
           /\ Gas!increase_balance(account, amount) = increase_balance(account, amount)
           /\ Gas!inc_providers(account) = inc_providers(account)
  BY DEF Gas!decrease_balance, Gas!increase_balance, Gas!inc_providers,
         Gas!try_mutate_account, Gas!OwnProvider, Gas!OnHold,
         decrease_balance, increase_balance, inc_providers,
         try_mutate_account, OwnProvider, OnHold

\* What F::withdraw and F::transfer accept to spend is there to be spent.
LEMMA ReducibleIsFree ==
    ASSUME NEW account, Sound(account), NEW preservation, NEW amount \in Nat,
           amount <= Gas!reducible_balance(account, preservation)
    PROVE  amount <= account.free
  BY ExistentialDepositAssumption, SMTT(30) DEF Gas!reducible_balance, Sound, AccountInfo

\* The numbers that the fees and the credits are, for the leaves of Zenon.
LEMMA Numbers == 0 \in Int /\ Nat \subseteq Int
  BY SMTT(30)

\* Withdrawing from an account.
LEMMA Withdraw ==
    ASSUME NEW funds, SoundAccounts(funds), NEW a \in Accounts, NEW amount \in Nat,
           amount <= funds[a].free
    PROVE  LET after == [funds EXCEPT ![a] = decrease_balance(funds[a], amount)]
           IN  /\ Moved(funds, after, -amount)
               /\ after[a] = decrease_balance(funds[a], amount)
               /\ \A c \in Accounts \ {a} : after[c] = funds[c]
<1> DEFINE account == decrease_balance(funds[a], amount)
<1>0. Sound(funds[a]) /\ funds[a].free \in Nat
  BY SoundParts
<1>1. Sound(account) /\ account.held = funds[a].held /\ Slack(account) = Slack(funds[a])
  BY <1>0, DecreaseBalance
<1>2. Settles(account.free, funds[a].free - amount)
  BY <1>0, FreeSettles
<1> HIDE DEF account
<1>3. /\ -amount \in Int /\ funds[a].free + (-amount) \in Nat
      /\ funds[a].free + (-amount) = funds[a].free - amount
  BY <1>0, SMTT(30)
<1>4. QED
  BY <1>1, <1>2, <1>3, MovedOne, SMTT(30) DEF account

\* Depositing.
LEMMA Deposit ==
    ASSUME NEW funds, SoundAccounts(funds), NEW a \in Accounts, NEW amount \in Nat
    PROVE  LET after == [funds EXCEPT ![a] = increase_balance(funds[a], amount)]
           IN  /\ Moved(funds, after, amount)
               /\ after[a] = increase_balance(funds[a], amount)
               /\ \A c \in Accounts \ {a} : after[c] = funds[c]
<1> DEFINE account == increase_balance(funds[a], amount)
<1>0. Sound(funds[a]) /\ funds[a].free \in Nat /\ funds[a].free + amount \in Nat
  BY SoundParts, SMTT(30)
<1>1. /\ Sound(account) /\ account.held = funds[a].held
      /\ Slack(account) = Slack(funds[a])
  BY <1>0, IncreaseBalance
<1>2. Settles(account.free, funds[a].free + amount)
  BY <1>0, FreeSettles
<1> HIDE DEF account
<1>3. QED
  BY <1>0, <1>1, <1>2, MovedOne, SMTT(30) DEF account

\* What can_deposit accepts, and is not nothing, arrives to the unit.
LEMMA Arrives ==
    ASSUME NEW account, Sound(account), NEW amount \in Nat, amount # 0,
           Gas!can_deposit(account, amount)
    PROVE  increase_balance(account, amount).free = account.free + amount
  BY IncreaseBalance, SMTT(30) DEF Gas!can_deposit

\* Nothing moves.
LEMMA NothingMoved ==
    ASSUME NEW funds, SoundAccounts(funds)
    PROVE  Moved(funds, funds, 0)
  BY KeptType, SMTT(30) DEF Moved, Gentle, NoneMade

\* A transfer withdraws and deposits.
LEMMA GasTransfer ==
    ASSUME NEW funds, SoundAccounts(funds), NEW source \in Accounts, NEW dest \in Accounts,
           NEW amount \in Nat, NEW preservation, source # account_id,
           Gas!can_transfer(funds, source, dest, amount, preservation)
    PROVE  LET after == Gas!transfer(funds, source, dest, amount)
           IN  /\ Moved(funds, after, 0)
               /\ \/ after[account_id] = funds[account_id]
                  \/ after[account_id] = increase_balance(funds[account_id], amount)
               /\ dest = account_id =>
                    after[account_id] = increase_balance(funds[account_id], amount)
<1>0. -amount \in Int /\ amount \in Int /\ -amount + amount = 0 /\ account_id \in Accounts
  BY RuntimeAssumption, SMTT(30)
<1>1. CASE source = dest
  BY <1>1, NothingMoved DEF Gas!transfer
<1>2. CASE source # dest
  <2> DEFINE paid == [funds EXCEPT ![source] = decrease_balance(funds[source], amount)]
             after == [paid EXCEPT ![dest] = increase_balance(paid[dest], amount)]
  <2>1. amount <= funds[source].free
    BY ReducibleIsFree, SoundParts DEF Gas!can_transfer
  <2>2. /\ Moved(funds, paid, -amount)
        /\ \A c \in Accounts \ {source} : paid[c] = funds[c]
    BY <2>1, Withdraw, SMTT(30)
  <2>3. Gas!transfer(funds, source, dest, amount)
          = [funds EXCEPT ![source] = decrease_balance(funds[source], amount),
                          ![dest] = increase_balance(funds[dest], amount)]
    BY <1>2, SameCurrency DEF Gas!transfer
  <2>4. Gas!transfer(funds, source, dest, amount)
          = [paid EXCEPT ![dest] = increase_balance(funds[dest], amount)]
    BY <2>3
  <2> HIDE DEF paid
  <2>5. /\ Moved(paid, after, amount)
        /\ after[dest] = increase_balance(paid[dest], amount)
        /\ \A c \in Accounts \ {dest} : after[c] = paid[c]
    BY <2>2, Deposit, SMTT(30) DEF Moved, Gentle
  <2>6. Gas!transfer(funds, source, dest, amount) = after
    BY <1>2, <2>2, <2>4
  <2> HIDE DEF after
  <2>7. Moved(funds, after, -amount + amount)
    BY <1>0, <2>2, <2>5, MovedTwice
  <2>8. QED
    BY <1>0, <1>2, <2>2, <2>5, <2>6, <2>7
<1>3. QED
  BY <1>1, <1>2

-----------------------------------------------------------------------------
(* The steps of a transaction.                                             *)

\* A gentle step outside the sponsorship pallet preserves the invariant.
LEMMA GentleStep ==
    ASSUME RuntimeInv, UNCHANGED <<now, pallet, hook>>, Gentle(accounts, accounts'),
           LiquidityOK', PalletAccountInitialized' = PalletAccountInitialized
    PROVE  RuntimeInv'
<1>4. HookOK'
  BY DEF HookOK, hook, RuntimeInv, IInv
<1>6. QED
  BY SoundParts, FreeBalanceMoves, <1>4, RuntimeAssumption, SMTT(30)
     DEF RuntimeInv, IInv, Gentle,
     Spare, is_sponsored, pallet

\* The credit sold is a number, and changes with one user's credit.
LEMMA SoldChange ==
    ASSUME NEW credits \in [Users -> Nat]
    PROVE  /\ Sold(credits) \in Nat
           /\ \A u \in Users : credits[u] <= Sold(credits)
           /\ \A u \in Users, x \in Nat :
                 Sold([credits EXCEPT ![u] = x]) = Sold(credits) - credits[u] + x
<1>1. IsFiniteSet(Users) /\ \A u \in Users : credits[u] \in Nat
  BY Constants, FS_Subset DEF Users
<1>3. ASSUME NEW u \in Users, NEW x \in Nat
      PROVE  Sold([credits EXCEPT ![u] = x]) = Sold(credits) - credits[u] + x
  <2> DEFINE after == [credits EXCEPT ![u] = x]
  <2>1. /\ \A v \in Users : credits[v] \in Int /\ after[v] \in Int
        /\ after[u] = x
    BY SMTT(30)
  <2>2. \A v \in Users \ {u} : credits[v] = after[v]
    OBVIOUS
  <2> HIDE DEF after
  <2>3. SumFunctionOnSet(after, Users) = SumFunctionOnSet(credits, Users) - credits[u] + after[u]
    <3>1. ASSUME NEW S, S = Users, NEW g, g = after
          PROVE  SumFunctionOnSet(g, S) = SumFunctionOnSet(credits, S) - credits[u] + g[u]
      BY <1>1, <2>1, <2>2, <3>1, SumChange, SMTT(30)
    <3>2. QED
      BY <3>1
  <2>4. QED
    BY <2>3 DEF Sold, after
<1>4. QED
  BY <1>1, SumType, SumPart, <1>3 DEF Sold

\* No credit.
LEMMA SoldNothing == Sold([u \in Users |-> 0]) = 0
BY Constants, FS_Subset, SumZero DEF Users, Sold

\* The money of a transaction is a number.
LEMMA TakenType ==
    ASSUME LiquidityOK
    PROVE  /\ Taken(liquidity_info) \in Nat
           /\ liquidity_info # Gas!NoTransaction <=> liquidity_info \in Gas!LiquidityInfo
  BY SMTT(30) DEF LiquidityOK, Taken, Gas!LiquidityInfo, Gas!NoTransaction

\* What leaves the accounts goes to the transaction or is collected, and credit
\* is sold for what the gas account gets: such a step is accounted for.
LEMMA MoneyMoves ==
    ASSUME SoundAccounts(accounts), SoundAccounts(accounts'), LiquidityOK, LiquidityOK',
           CreditInv, CreditInv', NEW all \in Int, NEW own \in Int,
           NoneMade(Kept(accounts'), Kept(accounts) + all), Gains(own),
           Taken(liquidity_info') + collected' = Taken(liquidity_info) + collected - all,
           Sold(PrepaidCredits') <= Sold(PrepaidCredits) + own
    PROVE  Accounted
<1>1. /\ Kept(accounts) \in Nat /\ Kept(accounts') \in Nat
      /\ accounts[account_id].free \in Nat /\ accounts'[account_id].free \in Nat
  BY KeptType
<1>2. /\ Taken(liquidity_info) \in Nat /\ Taken(liquidity_info') \in Nat
      /\ collected \in Nat /\ collected' \in Nat /\ dust_lost \in Nat /\ dust_lost' \in Nat
  BY SMTT(30) DEF LiquidityOK, Taken, Gas!LiquidityInfo, Gas!NoTransaction, CreditInv
<1>3. Sold(PrepaidCredits) \in Nat /\ Sold(PrepaidCredits') \in Nat
  BY SoldChange DEF CreditInv
<1>4. QED
  BY <1>1, <1>2, <1>3, SMTT(30) DEF Accounted, NoneMade, Backed, Gains

\* A step that leaves the gas account alone, or gives it some, gains as much.
LEMMA GainsWhole ==
    ASSUME SoundAccounts(accounts), CreditInv, NEW own \in Nat, UNCHANGED dust_lost,
           accounts'[account_id].free = accounts[account_id].free + own
    PROVE  Gains(own)
  BY KeptType, SMTT(30) DEF Gains, CreditInv

\* withdraw_fee takes free balance of the signer, and of the gas account.
LEMMA PrepareHolds ==
    ASSUME RuntimeInv, CreditInv, NEW who \in Users, NEW fee \in Fees, NEW tip \in Tips,
           prepare(who, fee, tip)
    PROVE  RuntimeInv' /\ CreditInv' /\ Accounted
<1>1. /\ fee \in Nat /\ tip \in Nat /\ fee + tip \in Nat
      /\ who \in Accounts /\ account_id \in Accounts /\ who # account_id
  BY RuntimeAssumption, SMTT(30) DEF Users
<1>2. SoundAccounts(accounts) /\ LiquidityOK
  BY FundsAreSound DEF RuntimeInv, IInv
<1>3. /\ Gas!withdraw_fee(who, fee, tip) /\ UNCHANGED <<now, pallet, hook>>
      /\ phase = "extrinsics" /\ phase' = phase
  BY DEF prepare, hook
<1>4. LiquidityOK' /\ PalletAccountInitialized' = PalletAccountInitialized
  BY <1>1, <1>3, SMTT(30) DEF Gas!withdraw_fee, LiquidityOK, Gas!LiquidityInfo
<1>5. /\ liquidity_info = Gas!NoTransaction /\ collected' = collected
      /\ collected \in Nat /\ PrepaidCredits \in [Users -> Nat] /\ dust_lost \in Nat
      /\ accounts[account_id].free \in Nat
      /\ Taken(liquidity_info) = 0
  BY <1>2, <1>3, KeptType DEF Gas!withdraw_fee, CreditInv, Taken
<1>6. ASSUME NEW kind \in {"NoCharge", "Native", "Prepaid"},
             NEW paid \in Nat, NEW tipped \in Nat,
             liquidity_info' = [kind |-> kind, who |-> who,
                                fee_credit |-> paid, tip_credit |-> tipped]
      PROVE  Taken(liquidity_info') + collected'
                = Taken(liquidity_info) + collected - (-paid + -tipped)
  BY <1>5, <1>6, SMTT(30) DEF Taken, Gas!NoTransaction
<1>7. ASSUME NEW all \in Int, NEW own \in Int, Moved(accounts, accounts', all), Gains(own),
             CreditInv',
             Taken(liquidity_info') + collected' = Taken(liquidity_info) + collected - all,
             Sold(PrepaidCredits') <= Sold(PrepaidCredits) + own
      PROVE  RuntimeInv' /\ CreditInv' /\ Accounted
  <2>1. Gentle(accounts, accounts') /\ SoundAccounts(accounts')
    BY <1>7 DEF Moved, Gentle
  <2>2. RuntimeInv'
    BY <1>3, <1>4, <2>1, GentleStep
  <2>3. Accounted
    BY <1>2, <1>4, <1>7, <2>1, MoneyMoves DEF Moved
  <2>4. QED
    BY <1>7, <2>2, <2>3
<1>8. ASSUME UNCHANGED <<PrepaidCredits, dust_lost>>, NEW kind \in {"NoCharge", "Native"},
             NEW paid \in Nat, NEW tipped \in Nat,
             liquidity_info' = [kind |-> kind, who |-> who,
                                fee_credit |-> paid, tip_credit |-> tipped],
             kind = "NoCharge" => paid = 0 /\ tipped = 0
      PROVE  CreditInv' /\ Sold(PrepaidCredits') = Sold(PrepaidCredits) + 0
  <2>1. Sold(PrepaidCredits) \in Nat
    BY <1>5, SoldChange
  <2>2. CreditInv'
    BY <1>3, <1>4, <1>5, <1>8 DEF CreditInv
  <2>3. QED
    BY <1>8, <2>1, <2>2, SMTT(30)
<1>9. CASE /\ fee + tip = 0 /\ UNCHANGED <<accounts, PrepaidCredits, dust_lost>>
           /\ liquidity_info' = [kind |-> "NoCharge", who |-> who,
                                 fee_credit |-> 0, tip_credit |-> 0]
  <2>1. Moved(accounts, accounts', 0) /\ Gains(0)
    <3>1. accounts'[account_id].free = accounts[account_id].free + 0
      BY <1>5, <1>9, SMTT(30)
    <3>2. 0 \in Nat
      BY SMTT(30)
    <3>3. QED
      BY <1>2, <1>9, <3>1, <3>2, NothingMoved, GainsWhole
  <2>2. Taken(liquidity_info') + collected' = Taken(liquidity_info) + collected - 0
    BY <1>5, <1>9, SMTT(30) DEF Taken, Gas!NoTransaction
  <2>3. CreditInv' /\ Sold(PrepaidCredits') = Sold(PrepaidCredits) + 0
    BY <1>8, <1>9, SMTT(30)
  <2>4. Sold(PrepaidCredits) \in Nat
    BY <1>5, SoldChange
  <2>5. Sold(PrepaidCredits') <= Sold(PrepaidCredits) + 0
    BY <2>3, <2>4, SMTT(30)
  <2>6. QED
    BY <1>7, <2>1, <2>2, <2>3, <2>5, Numbers
<1>10. CASE /\ Gas!withdraws_prepaid(who, fee, tip)
            /\ liquidity_info' = [kind |-> "Prepaid", who |-> who,
                                  fee_credit |-> fee, tip_credit |-> tip]
            /\ PrepaidCredits' = Gas!withdraw_credit(who, fee)
            /\ accounts' = [accounts EXCEPT
                    ![account_id] = Gas!decrease_balance(@, fee),
                    ![who] = Gas!decrease_balance(@, tip)]
            /\ dust_lost' = dust_lost
                    + Gas!dust(accounts[account_id].free - fee, accounts'[account_id])
  <2> DEFINE charged == [accounts EXCEPT
                            ![account_id] = decrease_balance(accounts[account_id], fee)]
             after == [charged EXCEPT ![who] = decrease_balance(charged[who], tip)]
  <2>1. fee <= accounts[account_id].free /\ tip <= accounts[who].free
    BY <1>1, <1>2, <1>10, SoundParts, ReducibleIsFree
    DEF Gas!withdraws_prepaid, Gas!can_withdraw_from_pallet
  <2>2. /\ Moved(accounts, charged, -fee) /\ charged[who] = accounts[who]
        /\ charged[account_id] = decrease_balance(accounts[account_id], fee)
    <3>1. Moved(accounts, charged, -fee)
      BY <1>1, <1>2, <2>1, Withdraw
    <3>2. QED
      BY <1>1, <1>2, <3>1 DEF SoundAccounts
  <2>3. accounts' = [accounts EXCEPT
                          ![account_id] = decrease_balance(accounts[account_id], fee),
                          ![who] = decrease_balance(accounts[who], tip)]
    BY <1>1, <1>10, SameCurrency
  <2>4. accounts' = [charged EXCEPT ![who] = decrease_balance(accounts[who], tip)]
    BY <2>3
  <2> HIDE DEF charged
  <2>5. accounts' = after
    BY <2>2, <2>4
  <2>6. Moved(charged, after, -tip) /\ after[account_id] = charged[account_id]
    <3>1. SoundAccounts(charged) /\ tip <= charged[who].free
      BY <2>1, <2>2 DEF Moved, Gentle
    <3>2. QED
      <4>1. Moved(charged, after, -tip)
        BY <1>1, <3>1, Withdraw
      <4>2. QED
        BY <1>1, <3>1, <4>1 DEF SoundAccounts
  <2> HIDE DEF after
  <2>7. -fee \in Int /\ -tip \in Int /\ -fee + -tip \in Int
    BY <1>1, SMTT(30)
  <2>8. Moved(accounts, accounts', -fee + -tip)
    BY <1>2, <2>2, <2>5, <2>6, <2>7, MovedTwice
  <2>16. dust_lost' \in Nat /\ Gains(-fee)
    <3> DEFINE left == accounts[account_id].free - fee
               paid == accounts'[account_id]
    <3>1. /\ paid = decrease_balance(accounts[account_id], fee) /\ left \in Nat
      BY <1>1, <1>5, <2>1, <2>2, <2>5, <2>6, SMTT(30)
    <3>2. Settles(paid.free, left)
      BY <1>1, <1>2, <2>1, <3>1, SoundParts, FreeSettles
    <3>3. dust_lost' = dust_lost + dust(left, paid)
      BY <1>10 DEF Gas!dust, dust
    <3> HIDE DEF paid
    <3>4. paid.free + dust(left, paid) = left /\ dust(left, paid) \in Nat
      BY <3>1, <3>2, DustIsCounted
    <3>5. paid.free \in Nat
      BY <1>1, <2>8, SoundParts DEF Moved, Gentle, paid
    <3>6. dust_lost' \in Nat /\ paid.free + dust_lost' = accounts[account_id].free + dust_lost + -fee
      BY <1>1, <1>5, <3>3, <3>4, <3>5, SMTT(30)
    <3>7. QED
      BY <1>1, <1>5, <3>5, <3>6, SMTT(30) DEF Gains, paid
  <2>9. /\ PrepaidCredits[who] \in Nat /\ fee <= PrepaidCredits[who] /\ fee # 0
        /\ PrepaidCredits[who] - fee \in Nat
        /\ PrepaidCredits' = [PrepaidCredits EXCEPT ![who] = PrepaidCredits[who] - fee]
    BY <1>1, <1>5, <1>10, SMTT(30)
    DEF Gas!withdraws_prepaid, Gas!can_withdraw_credit, Gas!credit, Gas!withdraw_credit,
        Gas!uses_credit
  <2>10. Sold(PrepaidCredits') = Sold(PrepaidCredits) - fee /\ Sold(PrepaidCredits) \in Nat
    <3>1. /\ Sold(PrepaidCredits) \in Nat
          /\ Sold([PrepaidCredits EXCEPT ![who] = PrepaidCredits[who] - fee])
                = Sold(PrepaidCredits) - PrepaidCredits[who] + (PrepaidCredits[who] - fee)
      BY <1>5, <2>9, SoldChange
    <3>2. QED
      BY <1>1, <2>9, <3>1, SMTT(30)
  <2>11. PalletAccountInitialized
    BY <1>1, <2>9, SMTT(30) DEF CreditInv
  <2>12. CreditInv'
    <3>1. PrepaidCredits' \in [Users -> Nat]
      BY <1>5, <2>9
    <3>2. QED
      BY <1>3, <1>4, <1>5, <1>10, <2>11, <2>16, <3>1 DEF CreditInv
  <2>13. Taken(liquidity_info') + collected'
            = Taken(liquidity_info) + collected - (-fee + -tip)
    BY <1>1, <1>6, <1>10
  <2>14. Sold(PrepaidCredits') <= Sold(PrepaidCredits) + -fee
    BY <1>1, <2>10, SMTT(30)
  <2>15. QED
    BY <1>7, <2>7, <2>8, <2>12, <2>13, <2>14, <2>16
<1>11. CASE /\ Gas!withdraws_native(who, fee, tip)
            /\ liquidity_info' = [kind |-> "Native", who |-> who,
                                  fee_credit |-> fee, tip_credit |-> tip]
            /\ accounts' = [accounts EXCEPT ![who] = Gas!decrease_balance(@, fee + tip)]
            /\ UNCHANGED <<PrepaidCredits, dust_lost>>
  <2>1. fee + tip <= accounts[who].free
    BY <1>1, <1>2, <1>11, SoundParts, ReducibleIsFree DEF Gas!withdraws_native
  <2>2. accounts' = [accounts EXCEPT ![who] = decrease_balance(accounts[who], fee + tip)]
    BY <1>1, <1>11, SameCurrency
  <2>3. Moved(accounts, accounts', -(fee + tip)) /\ accounts'[account_id] = accounts[account_id]
    <3>1. fee + tip \in Nat
      BY <1>1, SMTT(30)
    <3>2. Moved(accounts, accounts', -(fee + tip))
      BY <1>1, <1>2, <2>1, <2>2, <3>1, Withdraw
    <3>3. QED
      BY <1>1, <1>2, <2>2, <3>2 DEF SoundAccounts
  <2>4. -(fee + tip) = -fee + -tip /\ -fee + -tip \in Int
    BY <1>1, SMTT(30)
  <2>5. Taken(liquidity_info') + collected'
            = Taken(liquidity_info) + collected - (-fee + -tip)
    BY <1>1, <1>6, <1>11
  <2>6. CreditInv' /\ Sold(PrepaidCredits') = Sold(PrepaidCredits) + 0
    BY <1>1, <1>8, <1>11
  <2>7. Sold(PrepaidCredits) \in Nat
    BY <1>5, SoldChange
  <2>8. Moved(accounts, accounts', -fee + -tip) /\ Gains(0)
    <3>1. accounts'[account_id].free = accounts[account_id].free + 0
      BY <1>5, <2>3, SMTT(30)
    <3>2. 0 \in Nat
      BY SMTT(30)
    <3>3. QED
      BY <1>2, <1>11, <2>3, <2>4, <3>1, <3>2, GainsWhole
  <2>9. Sold(PrepaidCredits') <= Sold(PrepaidCredits) + 0
    BY <2>6, <2>7, SMTT(30)
  <2>10. QED
    BY <1>7, <2>4, <2>5, <2>6, <2>8, <2>9, Numbers
<1>12. QED
  BY <1>3, <1>9, <1>10, <1>11 DEF Gas!withdraw_fee

\* A transfer moves free balance, and none out of the gas account.
LEMMA DispatchTransferHolds ==
    ASSUME RuntimeInv, CreditInv, NEW who \in Users, dispatch_transfer(who)
    PROVE  RuntimeInv' /\ CreditInv' /\ Accounted
<1>1. PICK d \in Accounts, x \in Payments : Gas!transfer_allow_death(who, d, x)
  BY DEF dispatch_transfer
<1>2. x \in Nat /\ who \in Accounts /\ who # account_id /\ SoundAccounts(accounts) /\ LiquidityOK
  BY Constants, FundsAreSound DEF Users, RuntimeInv, IInv
<1> DEFINE before == accounts[account_id]
           after == accounts'[account_id]
<1>3. /\ Moved(accounts, accounts', 0)
      /\ after = before \/ after = increase_balance(before, x)
  BY <1>1, <1>2, GasTransfer DEF Gas!transfer_allow_death
<1>4. /\ LiquidityOK' /\ UNCHANGED <<liquidity_info, collected, gas>>
      /\ phase' = phase /\ UNCHANGED <<now, pallet, hook>>
  BY <1>1 DEF Gas!transfer_allow_death, Gas!Dispatching, RuntimeInv, LiquidityOK, gas,
     dispatch_transfer, hook
<1>5. /\ Sound(before) /\ before.free \in Nat /\ after.free \in Nat /\ dust_lost \in Nat
      /\ SoundAccounts(accounts') /\ Gentle(accounts, accounts')
  BY <1>2, <1>3, KeptType, SoundParts DEF Moved, Gentle, CreditInv
<1>6. dust_lost' = dust_lost + dust(before.free, after)
  BY <1>1 DEF Gas!transfer_allow_death, Gas!dust, dust
<1>7. after = before \/ Settles(after.free, before.free + x)
  BY <1>2, <1>3, <1>5, FreeSettles
<1> HIDE DEF before, after
<1>8. dust_lost' \in Nat /\ after.free + dust_lost' >= before.free + dust_lost + 0
  <2>1. CASE after = before
    <3>1. before.free \in Nat /\ dust_lost' = dust_lost + dust(before.free, before)
      BY <1>5, <1>6, <2>1
    <3>2. dust_lost' = dust_lost
      BY <1>5, <3>1, SMTT(30) DEF dust
    <3>3. QED
      BY <1>5, <2>1, <3>2, SMTT(30)
  <2>2. CASE Settles(after.free, before.free + x)
    BY <1>2, <1>5, <1>6, <2>2, Constants, SMTT(30) DEF dust, Settles
  <2>3. QED
    BY <1>7, <2>1, <2>2
<1>9. RuntimeInv' /\ CreditInv'
  BY <1>4, <1>5, <1>8, GentleStep DEF CreditInv, gas
<1>10. /\ Taken(liquidity_info') + collected' = Taken(liquidity_info) + collected - 0
       /\ Sold(PrepaidCredits') <= Sold(PrepaidCredits) + 0
  <2>1. /\ Taken(liquidity_info) \in Nat /\ collected \in Nat /\ Sold(PrepaidCredits) \in Nat
        /\ UNCHANGED <<liquidity_info, collected, PrepaidCredits>>
    BY <1>2, <1>4, TakenType, SoldChange DEF CreditInv, gas
  <2>2. QED
    BY <2>1, SMTT(30)
<1>11. QED
  BY <1>2, <1>3, <1>4, <1>5, <1>8, <1>9, <1>10, MoneyMoves, Numbers
  DEF Moved, Gains, before, after

\* correct_and_deposit_fee gives free balance back, to the signer or to the gas
\* account, or to neither, and collects the rest.
LEMMA PostDispatchHolds ==
    ASSUME RuntimeInv, CreditInv, NEW fee \in Fees, post_dispatch(fee)
    PROVE  RuntimeInv' /\ CreditInv' /\ Accounted
<1> DEFINE info == liquidity_info
           refund == info.fee_credit - fee
<1>1. /\ Gas!correct_and_deposit_fee(fee) /\ UNCHANGED <<now, pallet, hook>>
      /\ phase' = phase /\ liquidity_info' = Gas!NoTransaction
      /\ PalletAccountInitialized' = PalletAccountInitialized /\ dust_lost' = dust_lost
  BY DEF post_dispatch, hook, Gas!correct_and_deposit_fee
<1>2. /\ info \in Gas!LiquidityInfo /\ fee \in Nat /\ fee <= info.fee_credit
      /\ account_id \in Accounts /\ SoundAccounts(accounts) /\ LiquidityOK /\ LiquidityOK'
      /\ info # Gas!NoTransaction
  BY <1>1, RuntimeAssumption, FundsAreSound
  DEF Gas!correct_and_deposit_fee, RuntimeInv, IInv, LiquidityOK
<1>3. /\ info.who \in Accounts /\ info.who \in Users /\ info.who # account_id
      /\ info.fee_credit \in Nat /\ info.tip_credit \in Nat /\ refund \in Nat
  BY <1>2, SMTT(30) DEF Gas!LiquidityInfo, Users
<1>4. /\ Taken(info) = info.fee_credit + info.tip_credit /\ Taken(liquidity_info') = 0
      /\ collected \in Nat /\ PrepaidCredits \in [Users -> Nat]
      /\ phase = "extrinsics" /\ Sold(PrepaidCredits) \in Nat
  BY <1>1, <1>2, SoldChange DEF Taken, CreditInv
<1>5. ASSUME NEW all \in Int, NEW own \in Nat, Moved(accounts, accounts', all),
             accounts'[account_id].free = accounts[account_id].free + own,
             PrepaidCredits' \in [Users -> Nat],
             ~PalletAccountInitialized => PrepaidCredits' = PrepaidCredits,
             collected' = collected + info.tip_credit + info.fee_credit - all,
             collected' \in Nat,
             Sold(PrepaidCredits') <= Sold(PrepaidCredits) + own
      PROVE  RuntimeInv' /\ CreditInv' /\ Accounted
  <2>1. Gentle(accounts, accounts') /\ SoundAccounts(accounts')
    BY <1>5 DEF Moved, Gentle
  <2>2. RuntimeInv'
    BY <1>1, <1>2, <2>1, GentleStep
  <2>3. CreditInv'
    BY <1>1, <1>4, <1>5 DEF CreditInv
  <2>4. Taken(liquidity_info') + collected' = Taken(info) + collected - all
    BY <1>3, <1>4, <1>5, SMTT(30)
  <2>5. Accounted
    <3>1. Gains(own) /\ own \in Int
      BY <1>1, <1>2, <1>5, GainsWhole, Numbers
    <3>2. QED
      BY <1>2, <1>5, <2>1, <2>3, <2>4, <3>1, MoneyMoves DEF Moved
  <2>6. QED
    BY <2>2, <2>3, <2>5
<1>6. CASE /\ accounts' = accounts /\ PrepaidCredits' = PrepaidCredits
           /\ collected' = collected + info.tip_credit + info.fee_credit
  <2>1. /\ Moved(accounts, accounts', 0) /\ 0 \in Nat
        /\ accounts'[account_id].free = accounts[account_id].free + 0
    <3>1. accounts[account_id].free \in Nat
      BY <1>2, KeptType
    <3>2. accounts'[account_id].free = accounts[account_id].free + 0 /\ 0 \in Nat
      BY <1>6, <3>1, SMTT(30)
    <3>3. QED
      BY <1>2, <1>6, <3>2, NothingMoved
  <2>2. /\ collected' = collected + info.tip_credit + info.fee_credit - 0 /\ collected' \in Nat
        /\ Sold(PrepaidCredits') <= Sold(PrepaidCredits) + 0
    BY <1>3, <1>4, <1>6, SMTT(30)
  <2>3. QED
    BY <1>4, <1>5, <1>6, <2>1, <2>2, Numbers
<1>7. ASSUME NEW a \in Accounts,
             accounts' = [accounts EXCEPT ![a] = Gas!increase_balance(@, refund)]
      PROVE  /\ Moved(accounts, accounts', refund)
             /\ accounts'[a] = increase_balance(accounts[a], refund)
             /\ \A c \in Accounts \ {a} : accounts'[c] = accounts[c]
  <2>1. accounts' = [accounts EXCEPT ![a] = increase_balance(accounts[a], refund)]
    BY <1>7, SameCurrency
  <2> HIDE DEF refund
  <2>2. QED
    <3>1. Moved(accounts, accounts', refund)
      BY <1>2, <1>3, <2>1, Deposit
    <3>2. QED
      BY <1>2, <2>1, <3>1 DEF SoundAccounts
<1>8. CASE info.kind = "NoCharge" /\ UNCHANGED <<accounts, PrepaidCredits, collected>>
  BY <1>2, <1>8, <1>6, SMTT(30) DEF CreditInv
<1>9. CASE Gas!settle_native_fee(info.who, info.fee_credit, fee, info.tip_credit)
  <2>2. PrepaidCredits' = PrepaidCredits
    BY <1>9 DEF Gas!settle_native_fee
  <2>3. CASE /\ accounts' = [accounts EXCEPT ![info.who] = Gas!increase_balance(@, refund)]
             /\ collected' = collected + info.tip_credit + fee
    <3>0. Moved(accounts, accounts', refund) /\ accounts'[account_id] = accounts[account_id]
      BY <1>2, <1>3, <1>7, <2>3
    <3>1. accounts'[account_id].free = accounts[account_id].free + 0 /\ 0 \in Nat
      <4>1. accounts[account_id].free \in Nat
        BY <1>2, KeptType
      <4>2. QED
        BY <3>0, <4>1, SMTT(30)
    <3>2. /\ collected' \in Nat /\ refund \in Int
          /\ collected' = collected + info.tip_credit + info.fee_credit - refund
          /\ Sold(PrepaidCredits') <= Sold(PrepaidCredits) + 0
      BY <1>2, <1>3, <1>4, <2>2, <2>3, SMTT(30)
    <3> HIDE DEF refund
    <3>3. QED
      BY <1>4, <1>5, <2>2, <3>0, <3>1, <3>2
  <2>4. QED
    BY <1>6, <1>9, <2>3 DEF Gas!settle_native_fee
<1>10. CASE /\ info.kind = "Prepaid"
            /\ Gas!settle_prepaid_fee(info.who, info.fee_credit, fee, info.tip_credit)
  <2>1. /\ fee = IF fee < info.fee_credit THEN fee ELSE info.fee_credit
    BY <1>2, <1>3, SMTT(30)
  <2>2. \/ /\ accounts' = accounts /\ PrepaidCredits' = PrepaidCredits
           /\ collected' = collected + info.tip_credit + info.fee_credit
        \/ /\ accounts' = [accounts EXCEPT ![account_id] = Gas!increase_balance(@, refund)]
           /\ collected' = collected + info.tip_credit + fee
           /\ PrepaidCredits' = Gas!refund_credit(info.who, refund)
           /\ refund # 0 /\ Gas!can_deposit(accounts[account_id], refund)
    BY <1>10, <2>1 DEF Gas!settle_prepaid_fee
  <2>3. CASE /\ accounts' = [accounts EXCEPT ![account_id] = Gas!increase_balance(@, refund)]
             /\ collected' = collected + info.tip_credit + fee
             /\ PrepaidCredits' = Gas!refund_credit(info.who, refund)
             /\ refund # 0 /\ Gas!can_deposit(accounts[account_id], refund)
    <3> DEFINE w == info.who
    <3>1. /\ Moved(accounts, accounts', refund)
          /\ accounts'[account_id].free = accounts[account_id].free + refund
      <4>1. /\ Moved(accounts, accounts', refund)
            /\ accounts'[account_id] = increase_balance(accounts[account_id], refund)
        BY <1>2, <1>7, <2>3
      <4>2. refund # 0 /\ Gas!can_deposit(accounts[account_id], refund) /\ refund \in Nat
        BY <1>3, <2>3
      <4> HIDE DEF refund
      <4>3. QED
        BY <1>2, <4>1, <4>2, SoundParts, Arrives
    <3>2. /\ PrepaidCredits' = [PrepaidCredits EXCEPT ![w] = PrepaidCredits[w] + refund]
          /\ PrepaidCredits[w] \in Nat /\ PrepaidCredits[w] + refund \in Nat
      BY <1>3, <1>4, <2>3, SMTT(30) DEF Gas!refund_credit
    <3>3. /\ collected' \in Nat /\ refund \in Int
          /\ collected' = collected + info.tip_credit + info.fee_credit - refund
      BY <1>2, <1>3, <1>4, <2>3, SMTT(30)
    <3>4. w \in Users /\ refund \in Nat
      BY <1>3
    <3> HIDE DEF refund, w
    <3>5. PrepaidCredits' \in [Users -> Nat]
      BY <1>4, <3>2
    <3>6. Sold(PrepaidCredits')
             = Sold(PrepaidCredits) - PrepaidCredits[w] + (PrepaidCredits[w] + refund)
      BY <1>4, <3>2, <3>4, SoldChange
    <3>7. Sold(PrepaidCredits') <= Sold(PrepaidCredits) + refund
      BY <1>4, <3>4, <3>6, SMTT(30)
    <3>9. QED
      BY <1>5, <3>1, <3>3, <3>4, <3>5, <3>7, <1>2, <1>10 DEF CreditInv
  <2>4. QED
    BY <1>6, <2>2, <2>3
<1>11. QED
  BY <1>1, <1>8, <1>9, <1>10 DEF Gas!correct_and_deposit_fee

\* purchase pays into the gas account, which gets its reference in the first.
LEMMA DispatchGasHolds ==
    ASSUME RuntimeInv, CreditInv, NEW who \in Users, dispatch_gas(who)
    PROVE  RuntimeInv' /\ CreditInv' /\ Accounted
<1> DEFINE funds == Gas!ensure_pallet_account
           given == inc_providers(accounts[account_id])
<1>1. PICK b \in Users, x \in Payments : Gas!purchase(who, b, x)
  BY DEF dispatch_gas
<1>2. /\ x \in Nat /\ who \in Accounts /\ account_id \in Accounts
      /\ who # account_id /\ SoundAccounts(accounts) /\ HookOK /\ FundsOK /\ LiquidityOK
  BY Constants, RuntimeAssumption, FundsAreSound DEF Users, RuntimeInv, IInv
<1>3. /\ Gas!can_transfer(funds, who, account_id, x, "Preserve")
      /\ accounts' = Gas!transfer(funds, who, account_id, x)
      /\ UNCHANGED <<now, pallet, hook, liquidity_info, collected, dust_lost>> /\ x # 0
  BY <1>1 DEF Gas!purchase, Gas!purchase_for, Gas!Dispatching, dispatch_gas
<1>4. /\ Sound(given) /\ given.held = accounts[account_id].held
      /\ given.free = accounts[account_id].free
      /\ Slack(given) = Slack(accounts[account_id]) + 1
  BY <1>2, SoundParts, IncProviders
<1>5. funds = IF PalletAccountInitialized THEN accounts
              ELSE [accounts EXCEPT ![account_id] = given]
  BY SameCurrency DEF Gas!ensure_pallet_account
<1> HIDE DEF funds, given
<1>6. /\ SoundAccounts(funds)
      /\ \A a \in Accounts :
            /\ funds[a].held = accounts[a].held /\ funds[a].free = accounts[a].free
            /\ Slack(funds[a]) = Slack(accounts[a])
                    + (IF a = account_id /\ ~PalletAccountInitialized THEN 1 ELSE 0)
  <2>1. CASE PalletAccountInitialized
    BY <1>2, <1>5, <2>1, SoundParts, SMTT(30)
  <2>2. CASE ~PalletAccountInitialized
    <3> DEFINE after == [accounts EXCEPT ![account_id] = given]
    <3>0. /\ SoundAccounts(after) /\ after[account_id] = given
          /\ \A c \in Accounts \ {account_id} : after[c] = accounts[c]
      BY <1>2, <1>4, ReplaceAccount, SMTT(30)
    <3>1. /\ SoundAccounts(funds) /\ funds[account_id] = given
          /\ \A c \in Accounts \ {account_id} : funds[c] = accounts[c]
      BY <1>5, <2>2, <3>0
    <3>2. QED
      BY <1>2, <1>4, <2>2, <3>1, SoundParts, SMTT(30)
  <2>3. QED
    BY <2>1, <2>2
<1>7. /\ Gentle(funds, accounts') /\ Moved(funds, accounts', 0)
      /\ accounts'[account_id].free = funds[account_id].free + x
  <2>1. /\ Moved(funds, accounts', 0)
        /\ accounts'[account_id] = increase_balance(funds[account_id], x)
    BY <1>2, <1>3, <1>6, GasTransfer
  <2>2. Gas!can_deposit(funds[account_id], x) /\ Sound(funds[account_id])
    BY <1>2, <1>3, <1>6, SoundParts DEF Gas!can_transfer
  <2>3. QED
    BY <1>2, <1>3, <2>1, <2>2, Arrives DEF Moved
<1>8. \A a \in Accounts :
        /\ accounts'[a].held = accounts[a].held
        /\ Slack(accounts'[a]) = Slack(accounts[a])
                + (IF a = account_id /\ ~PalletAccountInitialized THEN 1 ELSE 0)
  BY <1>6, <1>7 DEF Gentle
<1>9. FundsOK'
  <2>1. \A a \in Accounts : Slack(accounts'[a]) >= Slack(accounts[a])
    BY <1>2, <1>8, SoundParts, SMTT(30)
  <2>2. QED
    BY <1>2, <1>3, <1>7, <1>8, <2>1, FreeBalanceMoves DEF Gentle
<1>10. HookOK'
  BY <1>2, <1>3 DEF HookOK, hook
<1>11. Spare(account_id)' >= 1
  <2>1. /\ Slack(accounts[account_id]) \in Int /\ Slack(accounts[account_id]) >= 0
        /\ is_sponsored(account_id) => Slack(accounts[account_id]) >= 1
    BY <1>2, SoundParts, FundsAreSound DEF Sound, is_sponsored
  <2>2. PalletAccountInitialized => Spare(account_id) >= 1
    BY DEF RuntimeInv
  <2>3. is_sponsored(account_id)' <=> is_sponsored(account_id)
    BY <1>3 DEF is_sponsored, pallet
  <2>4. QED
    BY <1>2, <1>8, <2>1, <2>2, <2>3, SMTT(30) DEF Spare
<1>12. LiquidityOK'
  BY <1>3 DEF RuntimeInv, LiquidityOK
<1>13. /\ PrepaidCredits \in [Users -> Nat] /\ PrepaidCredits[b] \in Nat
       /\ PrepaidCredits' = [PrepaidCredits EXCEPT ![b] = PrepaidCredits[b] + x]
       /\ PrepaidCredits[b] + x \in Nat /\ PalletAccountInitialized'
       /\ phase = "extrinsics" /\ phase' = phase
  BY <1>1, <1>2, <1>3, SMTT(30) DEF Gas!purchase, Gas!purchase_for, Gas!Dispatching, CreditInv, hook
<1>14. CreditInv'
  BY <1>3, <1>13 DEF CreditInv
<1>15. Sold(PrepaidCredits) \in Nat /\ Sold(PrepaidCredits') = Sold(PrepaidCredits) + x
  <2>1. /\ Sold(PrepaidCredits) \in Nat
        /\ Sold([PrepaidCredits EXCEPT ![b] = PrepaidCredits[b] + x])
              = Sold(PrepaidCredits) - PrepaidCredits[b] + (PrepaidCredits[b] + x)
    BY <1>13, SoldChange
  <2>2. QED
    BY <1>2, <1>13, <2>1, SMTT(30)
<1>16. Kept(funds) = Kept(accounts) /\ funds[account_id].free = accounts[account_id].free
  <2>1. ASSUME NEW a \in Accounts PROVE TotalBalance(funds[a]) = TotalBalance(accounts[a])
    BY <1>6 DEF TotalBalance, Reserved
  <2>2. [a \in Accounts |-> TotalBalance(funds[a])] = [a \in Accounts |-> TotalBalance(accounts[a])]
    BY <2>1
  <2>3. QED
    BY <1>2, <1>6, <2>2 DEF Kept
<1>17. Accounted
  <2>1. /\ NoneMade(Kept(accounts'), Kept(accounts) + 0)
        /\ Gains(x) /\ SoundAccounts(accounts')
    BY <1>2, <1>3, <1>7, <1>16, GainsWhole DEF Moved, Gentle
  <2>2. Taken(liquidity_info') + collected' = Taken(liquidity_info) + collected - 0
    BY <1>2, <1>3, TakenType, SMTT(30) DEF CreditInv
  <2>3. Sold(PrepaidCredits') <= Sold(PrepaidCredits) + x
    BY <1>2, <1>15, SMTT(30)
  <2>4. QED
    BY <1>2, <1>12, <1>14, <2>1, <2>2, <2>3, MoneyMoves, Numbers
<1>18. QED
  BY <1>9, <1>10, <1>11, <1>12, <1>14, <1>17 DEF RuntimeInv, IInv

\* One account gains, and one loses; they may be the same.
Exchanged(before, after, p, q, x, y) ==
    \A a \in Accounts : TotalBalance(after[a]) = TotalBalance(before[a])
                            + (IF a = p THEN x ELSE 0) - (IF a = q THEN y ELSE 0)

\* Together they have what they had, and the difference.
LEMMA KeptExchange ==
    ASSUME NEW funds, SoundAccounts(funds), NEW after, SoundAccounts(after),
           NEW p \in Accounts, NEW q \in Accounts, NEW x \in Int, NEW y \in Int,
           Exchanged(funds, after, p, q, x, y)
    PROVE  Kept(after) = Kept(funds) + x - y
<1> DEFINE f == [c \in Accounts |-> TotalBalance(funds[c])]
           g == [c \in Accounts |-> TotalBalance(after[c])]
<1>0. \A c \in Accounts : f[c] \in Int /\ g[c] \in Int
  BY KeptType, SMTT(30)
<1>1. \A c \in Accounts : g[c] = f[c] + (IF c = p THEN x ELSE 0) - (IF c = q THEN y ELSE 0)
  BY DEF Exchanged
<1>2. Kept(funds) = SumFunctionOnSet(f, Accounts) /\ Kept(after) = SumFunctionOnSet(g, Accounts)
  BY DEF Kept
<1>3. Kept(funds) \in Nat /\ IsFiniteSet(Accounts)
  BY KeptType, Constants
<1> HIDE DEF f, g
<1>4. CASE p = q
  <2>1. /\ g[p] = f[p] + x - y
        /\ \A c \in Accounts \ {p} : f[c] = g[c]
    BY <1>0, <1>1, <1>4, SMTT(30)
  <2>2. SumFunctionOnSet(g, Accounts) = SumFunctionOnSet(f, Accounts) - f[p] + g[p]
    BY <1>0, <1>3, <2>1, SumChange, SMTT(30)
  <2>3. Kept(after) = Kept(funds) - f[p] + (f[p] + x - y) /\ f[p] \in Int
    BY <1>0, <1>2, <2>1, <2>2
  <2>4. QED
    BY <1>3, <2>3, SMTT(30)
<1>5. CASE p # q
  <2> DEFINE h == [f EXCEPT ![p] = g[p]]
  <2>1. /\ g[p] = f[p] + x /\ g[q] = f[q] - y
        /\ \A c \in Accounts : c # p /\ c # q => f[c] = g[c]
    BY <1>0, <1>1, <1>5, SMTT(30)
  <2>2. /\ \A c \in Accounts : h[c] \in Int
        /\ \A c \in Accounts \ {p} : f[c] = h[c]
        /\ \A c \in Accounts \ {q} : h[c] = g[c]
        /\ h[p] = g[p] /\ h[q] = f[q]
    BY <1>0, <1>5, <2>1 DEF f
  <2> HIDE DEF h
  <2>3. SumFunctionOnSet(h, Accounts) = SumFunctionOnSet(f, Accounts) - f[p] + h[p]
    BY <1>0, <1>3, <2>2, SumChange, SMTT(30)
  <2>4. SumFunctionOnSet(g, Accounts) = SumFunctionOnSet(h, Accounts) - h[q] + g[q]
    BY <1>0, <1>3, <2>2, SumChange, SMTT(30)
  <2>5. /\ h[p] = f[p] + x /\ h[q] = f[q] /\ g[q] = f[q] - y
        /\ f[p] \in Int /\ f[q] \in Int
    BY <1>0, <2>1, <2>2
  <2>6. QED
    BY <1>2, <1>3, <2>3, <2>4, <2>5, SMTT(30)
<1>6. QED
  BY <1>4, <1>5

\* do_sponsor puts on hold what it takes, to the unit.
LEMMA SponsorMoney ==
    ASSUME FundsOK, NEW s \in Accounts, NEW b \in Accounts, NEW x \in Nat,
           NEW m \in AutoUnlockMode, NEW l \in Lease, do_sponsor(s, b, x, m, l)
    PROVE  /\ NoneMade(Kept(accounts'), Kept(accounts) + 0)
           /\ s # account_id => accounts'[account_id].free = accounts[account_id].free
<1>1. FundsLocked(s, b, x) /\ SoundAccounts(accounts) /\ SponsorshipStorageDeposit \in Nat
  BY SponsorEffect, FundsAreSound, Constants
<1>3. ASSUME NEW a \in Accounts
      PROVE  TotalBalance(accounts'[a]) = TotalBalance(accounts[a])
                    + (IF a = b THEN x ELSE 0) - (IF a = s THEN x ELSE 0)
  <2>1. /\ TotalBalance(accounts[a]) = accounts[a].free + accounts[a].held["Sponsorship"]
                                            + accounts[a].held["StorageDeposit"]
        /\ TotalBalance(accounts'[a]) = accounts'[a].free + accounts'[a].held["Sponsorship"]
                                            + accounts'[a].held["StorageDeposit"]
    BY <1>1, KeptType DEF FundsLocked
  <2>4. QED
    BY <1>1, <2>1, SoundParts, SMTT(30) DEF FundsLocked
<1>4. Kept(accounts') = Kept(accounts) + x - x /\ Kept(accounts) \in Nat
  <2>1. Exchanged(accounts, accounts', b, s, x, x) /\ x \in Int
    BY <1>3, SMTT(30) DEF Exchanged
  <2>2. QED
    BY <1>1, <2>1, KeptExchange, KeptType, SMTT(30) DEF FundsLocked
<1>6. QED
  BY <1>4, <1>1, KeptType, SMTT(30) DEF NoneMade, FundsLocked

\* revoke_sponsorship pays back what was on hold, and may leave dust behind.
LEMMA RevokeMoney ==
    ASSUME FundsOK, NEW b \in Accounts, revoke_sponsorship(b)
    PROVE  /\ NoneMade(Kept(accounts'), Kept(accounts) + 0)
           /\ accounts'[account_id].free >= accounts[account_id].free
              \/ Settles(accounts'[account_id].free, accounts[account_id].free)
<1> SUFFICES ASSUME NEW s \in Accounts, NEW x \in Nat, NEW kept, FundsReturned(s, b, x, kept),
                    x >= ExistentialDeposit
             PROVE  /\ NoneMade(Kept(accounts'), Kept(accounts) + 0)
                    /\ accounts'[account_id].free >= accounts[account_id].free
                       \/ Settles(accounts'[account_id].free, accounts[account_id].free)
  BY RevokeEffect
<1> DEFINE lost == accounts[b].free - kept
<1>1. /\ SoundAccounts(accounts) /\ SoundAccounts(accounts') /\ SponsorshipStorageDeposit \in Nat
      /\ kept \in Nat /\ accounts[b].free \in Nat /\ Settles(kept, accounts[b].free)
  BY FundsAreSound, Constants, SoundParts DEF FundsReturned
<1>2. lost \in Nat /\ kept = accounts[b].free - lost /\ (ExistentialDeposit = 1 => lost = 0)
  <2>1. kept <= accounts[b].free /\ (ExistentialDeposit = 1 => kept = accounts[b].free)
    BY <1>1, DustIsSmall
  <2>2. QED
    BY <1>1, <2>1, SMTT(30)
<1> HIDE DEF lost
<1>3. ASSUME NEW a \in Accounts
      PROVE  TotalBalance(accounts'[a]) = TotalBalance(accounts[a])
                    + (IF a = s THEN x ELSE 0) - (IF a = b THEN x + lost ELSE 0)
  <2>2. /\ accounts[a].free \in Nat /\ accounts[a].held["Sponsorship"] \in Nat
        /\ accounts[a].held["StorageDeposit"] \in Nat
    BY <1>1, SoundParts
  <2>3. /\ accounts'[a].held["Sponsorship"] = accounts[a].held["Sponsorship"]
                - (IF a = b THEN x ELSE 0)
        /\ accounts'[a].held["StorageDeposit"] = accounts[a].held["StorageDeposit"]
                - (IF a = s THEN SponsorshipStorageDeposit ELSE 0)
        /\ accounts'[a].free = (IF a = b THEN kept ELSE accounts[a].free)
                + (IF a = s THEN x + SponsorshipStorageDeposit ELSE 0)
    BY DEF FundsReturned
  <2>4. /\ TotalBalance(accounts[a]) = accounts[a].free + accounts[a].held["Sponsorship"]
                + accounts[a].held["StorageDeposit"]
        /\ TotalBalance(accounts'[a]) = accounts'[a].free + accounts'[a].held["Sponsorship"]
                + accounts'[a].held["StorageDeposit"]
    BY <1>1, KeptType
  <2>5. kept \in Nat /\ SponsorshipStorageDeposit \in Nat
    BY <1>1
  <2>6. CASE a = b
    <3>1. kept + lost = accounts[a].free /\ lost \in Nat
      BY <1>1, <1>2, <2>6, SMTT(30)
    <3>2. accounts'[a].free = kept + (IF a = s THEN x + SponsorshipStorageDeposit ELSE 0)
      BY <2>3, <2>6
    <3>3. accounts'[a].held["Sponsorship"] = accounts[a].held["Sponsorship"] - x
      BY <2>3, <2>6
    <3>4. QED
      BY <2>2, <2>3, <2>4, <2>5, <2>6, <3>1, <3>2, <3>3, SMTT(30)
  <2>7. CASE a # b
    BY <2>2, <2>3, <2>4, <2>5, <2>7, SMTT(30)
  <2>8. QED
    BY <2>6, <2>7
<1>4. Kept(accounts') = Kept(accounts) + x - (x + lost) /\ Kept(accounts) \in Nat
  <2>2. Exchanged(accounts, accounts', s, b, x, x + lost)
    BY <1>3 DEF Exchanged
  <2>3. QED
    BY <1>1, <1>2, <2>2, KeptExchange, KeptType, SMTT(30)
<1>5. NoneMade(Kept(accounts'), Kept(accounts) + 0)
  BY <1>1, <1>2, <1>4, KeptType, SMTT(30) DEF NoneMade
<1>6. \/ accounts'[account_id].free >= accounts[account_id].free
      \/ Settles(accounts'[account_id].free, accounts[account_id].free)
  <2>1. /\ account_id \in Accounts /\ accounts[account_id].free \in Nat
        /\ accounts'[account_id].free = (IF account_id = b THEN kept ELSE accounts[account_id].free)
                 + (IF account_id = s THEN x + SponsorshipStorageDeposit ELSE 0)
    BY <1>1, KeptType, RuntimeAssumption DEF FundsReturned
  <2>2. ExistentialDeposit \in Nat
    BY Constants
  <2>3. QED
    BY <1>1, <2>1, <2>2, SMTT(30) DEF Settles
<1>7. QED
  BY <1>5, <1>6

\* What the sponsorship pallet does in a runtime: its calls and its hook.  At
\* genesis any account may sponsor, later on those that sign.
SponsorshipStep ==
    \/ \E s, b \in Accounts, x \in Amounts, m \in Modes, l \in Leases :
          genesis_build(s, b, x, m, l)
    \/ \E s \in Users, b \in Accounts, x \in Amounts, m \in Modes, l \in Leases :
          sponsor(s, b, x, m, l)
    \/ \E s \in Users, b \in Accounts, m \in Modes, l \in Leases :
          sponsor_minimum(s, b, m, l) \/ set_policy(s, b, m, l)
    \/ \E s \in Users, b \in Accounts : unlock(s, b) \/ force_unlock(b) \/ refresh(b)
    \/ on_initialize

\* Every sponsorship stays, and whose it is.
SameSponsors ==
    /\ DOMAIN Sponsorships' = DOMAIN Sponsorships
    /\ \A b \in DOMAIN Sponsorships : Sponsorships'[b].sponsor = Sponsorships[b].sponsor

\* It sponsors, or revokes, or leaves the accounts alone.
LEMMA SponsorshipKinds ==
    ASSUME RuntimeInv, SponsorshipStep
    PROVE  \/ \E s, b \in Accounts, x \in Nat, m \in AutoUnlockMode, l \in Lease :
                do_sponsor(s, b, x, m, l) /\ (s = account_id => phase = "genesis")
           \/ \E b \in Accounts : revoke_sponsorship(b)
           \/ accounts' = accounts /\ SameSponsors
<1> USE Constants
<1>0. Users \subseteq Accounts /\ account_id \notin Users /\ pending \subseteq Accounts
  BY DEF Users, RuntimeInv, IInv, HookOK
<1>1. ASSUME NEW s \in Accounts, NEW b \in Accounts, NEW x \in Amounts, NEW m \in Modes,
             NEW l \in Leases,
             genesis_build(s, b, x, m, l) \/ (s \in Users /\ sponsor(s, b, x, m, l))
      PROVE  \E c, d \in Accounts, y \in Nat, n \in AutoUnlockMode, k \in Lease :
                do_sponsor(c, d, y, n, k) /\ (c = account_id => phase = "genesis")
  BY <1>0, <1>1 DEF genesis_build, sponsor
<1>2. ASSUME NEW s \in Users, NEW b \in Accounts, NEW m \in Modes, NEW l \in Leases,
             sponsor_minimum(s, b, m, l)
      PROVE  \E c, d \in Accounts, y \in Nat, n \in AutoUnlockMode, k \in Lease :
                do_sponsor(c, d, y, n, k) /\ (c = account_id => phase = "genesis")
  BY <1>0, <1>2 DEF sponsor_minimum
<1>3. ASSUME NEW s \in Users, NEW b \in Accounts, NEW m \in Modes, NEW l \in Leases,
             set_policy(s, b, m, l)
      PROVE  accounts' = accounts /\ SameSponsors
  <2>1. Sponsorships \in [DOMAIN Sponsorships -> SponsorshipRecord]
    BY DEF RuntimeInv, IInv, FundsOK, StorageOK
  <2>2. QED
    BY <1>3, <2>1, SMTT(30) DEF set_policy, SameSponsors, SponsorshipRecord
<1>4. ASSUME NEW s \in Users, NEW b \in Accounts,
             unlock(s, b) \/ force_unlock(b) \/ refresh(b)
      PROVE  revoke_sponsorship(b)
  BY <1>4 DEF unlock, force_unlock, refresh
<1>5. ASSUME NEW b \in pending, process_expiration(b) \/ process_auto_unlock(b)
      PROVE  \/ revoke_sponsorship(b)
             \/ accounts' = accounts /\ SameSponsors
  BY <1>5 DEF process_expiration, process_auto_unlock, pallet, SameSponsors
<1>6. CASE begin_block \/ take_auto_unlock_queue \/ put_auto_unlock_queue
  BY <1>6 DEF begin_block, take_auto_unlock_queue, put_auto_unlock_queue, SameSponsors
<1>7. CASE on_initialize
  BY <1>0, <1>5, <1>6, <1>7 DEF on_initialize
<1>8. QED
  BY <1>0, <1>1, <1>2, <1>3, <1>4, <1>7 DEF SponsorshipStep

\* Such a step does not go back to genesis, and moves on only in the hook.
LEMMA SponsorshipPhase ==
    ASSUME RuntimeInv, SponsorshipStep
    PROVE  (phase' = "genesis" => phase = "genesis") /\ (on_initialize \/ phase' = phase)
<1>1. ASSUME on_initialize PROVE phase' = "genesis" => phase = "genesis"
  BY <1>1 DEF on_initialize, begin_block, process_expiration, take_auto_unlock_queue,
              process_auto_unlock, put_auto_unlock_queue
<1>2. ASSUME UNCHANGED hook PROVE phase' = phase
  BY <1>2 DEF hook
<1>3. QED
  BY <1>1, <1>2 DEF SponsorshipStep, genesis_build, sponsor, sponsor_minimum, set_policy,
                    unlock, force_unlock, refresh, Calls

AllSound == SoundAccounts(accounts)

\* The accounts are sound where the invariant holds.
LEMMA SoundNow == FundsOK => AllSound
  BY FundsAreSound DEF AllSound

\* The same in the next state.
LEMMA SoundNext == FundsOK' => AllSound'
  BY SoundNow, PTL

\* Such a step, in a block or in a transaction, leaves the reference of the gas
\* account where it is, makes no money, and takes nothing from the gas account.
LEMMA SponsorshipStepHolds ==
    ASSUME RuntimeInv, CreditInv, SponsorshipStep, UNCHANGED <<gas, liquidity_info, collected>>,
           DustIsNoted, on_initialize => liquidity_info = Gas!NoTransaction
    PROVE  RuntimeInv' /\ CreditInv' /\ Accounted
<1>1. IInv'
  <2>1. Next
    BY DEF SponsorshipStep, Next, Users
  <2>2. QED
    BY <2>1, NextInvariant DEF RuntimeInv
<1>2. LiquidityOK' /\ PalletAccountInitialized' = PalletAccountInitialized
  BY DEF RuntimeInv, LiquidityOK, gas
<1>3. /\ account_id \in Accounts /\ HookOK /\ FundsOK /\ LiquidityOK
      /\ SoundAccounts(accounts) /\ SoundAccounts(accounts')
  BY <1>1, RuntimeAssumption, SoundNow, SoundNext DEF RuntimeInv, IInv, AllSound
<1> DEFINE before == accounts[account_id].free
           after == accounts'[account_id]
<1>4. /\ CreditInv' /\ before \in Nat /\ after.free \in Nat
      /\ dust_lost \in Nat /\ dust_lost' \in Nat
      /\ dust_lost' = dust_lost + dust(before, after) /\ ExistentialDeposit \in Nat
  <2>1. /\ before \in Nat /\ after.free \in Nat /\ dust_lost \in Nat
        /\ dust_lost' = dust_lost + dust(before, after) /\ ExistentialDeposit \in Nat
    BY <1>3, KeptType, Constants DEF CreditInv, DustIsNoted
  <2>2. dust_lost' \in Nat
    <3>1. dust(before, after) \in Nat
      BY <2>1, DustIsCounted
    <3>2. QED
      BY <2>1, <3>1, SMTT(30)
  <2>3. QED
    BY <2>1, <2>2, SponsorshipPhase DEF CreditInv, gas
<1>5. Taken(liquidity_info') + collected' = Taken(liquidity_info) + collected - 0
      /\ Sold(PrepaidCredits) \in Nat /\ PrepaidCredits' = PrepaidCredits
  <2>1. Taken(liquidity_info) \in Nat /\ collected \in Nat /\ Sold(PrepaidCredits) \in Nat
    BY <1>3, TakenType, SoldChange DEF CreditInv
  <2>2. UNCHANGED <<liquidity_info, collected, PrepaidCredits>>
    BY DEF gas
  <2>3. QED
    BY <2>1, <2>2, SMTT(30)
<1>6. ASSUME NoneMade(Kept(accounts'), Kept(accounts) + 0),
             phase # "genesis" => after.free >= before \/ Settles(after.free, before)
      PROVE  Accounted
  <2>1. /\ Kept(accounts) \in Nat /\ Kept(accounts') \in Nat
        /\ Taken(liquidity_info) \in Nat /\ collected \in Nat
    BY <1>3, KeptType, TakenType DEF CreditInv
  <2>2. phase = "genesis" => Sold(PrepaidCredits) = 0
    <3>1. phase = "genesis" => PrepaidCredits = [u \in Users |-> 0]
      BY DEF CreditInv
    <3>2. QED
      BY <3>1, SoldNothing
  <2>3. Backed => Backed'
    <3>1. phase # "genesis" => after.free + dust_lost' >= before + dust_lost
      <4> HIDE DEF before, after
      <4>1. QED
        BY <1>4, <1>6, SMTT(30) DEF dust, Settles
    <3>2. QED
      BY <1>4, <1>5, <2>2, <3>1, SMTT(30) DEF Backed
  <2>4. QED
    BY <1>5, <1>6, <2>1, <2>3, SMTT(30) DEF Accounted, NoneMade
<1>7. /\ Spare(account_id) >= 1 => Spare(account_id)' = Spare(account_id)
      /\ Accounted
  <2>1. ASSUME NEW s \in Accounts, NEW b \in Accounts, NEW x \in Nat,
               NEW m \in AutoUnlockMode, NEW l \in Lease, do_sponsor(s, b, x, m, l),
               s = account_id => phase = "genesis"
        PROVE  Spare(account_id)' = Spare(account_id) /\ Accounted
    <3>1. Spare(account_id)' = Spare(account_id)
      BY <1>3, <2>1, DoSponsor
    <3>2. /\ NoneMade(Kept(accounts'), Kept(accounts) + 0)
          /\ s # account_id => accounts'[account_id].free = accounts[account_id].free
      BY <1>3, <2>1, SponsorMoney
    <3>3. s # account_id => after.free >= before
      BY <1>4, <3>2, SMTT(30)
    <3>4. QED
      BY <1>6, <2>1, <3>1, <3>2, <3>3
  <2>2. ASSUME NEW b \in Accounts, revoke_sponsorship(b)
        PROVE  /\ Spare(account_id) >= 1 => Spare(account_id)' = Spare(account_id)
               /\ Accounted
    <3>1. Spare(account_id) >= 1 => Spare(account_id)' = Spare(account_id)
      BY <1>3, <2>2, Revoke
    <3>2. Accounted
      BY <1>3, <1>6, <2>2, RevokeMoney
    <3>3. QED
      BY <3>1, <3>2
  <2>3. CASE accounts' = accounts /\ SameSponsors
    <3>1. Spare(account_id)' = Spare(account_id)
      BY <2>3 DEF Spare, is_sponsored, SameSponsors
    <3>2. /\ NoneMade(Kept(accounts'), Kept(accounts) + 0) /\ after.free >= before
      <4>1. Kept(accounts) \in Nat
        BY <1>3, KeptType
      <4>2. QED
        BY <1>4, <2>3, <4>1, SMTT(30) DEF NoneMade
    <3>3. QED
      BY <1>6, <3>1, <3>2
  <2>4. QED
    BY <2>1, <2>2, <2>3, SponsorshipKinds
<1>8. QED
  BY <1>1, <1>2, <1>4, <1>7 DEF RuntimeInv

\* Genesis, with the gas account not there yet.
LEMMA RuntimeInitHolds == RuntimeInit => RuntimeInv /\ CreditInv
  BY InitInvariant, SMTT(30) DEF RuntimeInit, RuntimeInv, LiquidityOK, CreditInv

\* Every step of the chain preserves the invariant, and is accounted for.
LEMMA RuntimeStepHolds ==
    RuntimeInv /\ CreditInv /\ [RuntimeNext]_runtime_vars
        => RuntimeInv' /\ CreditInv' /\ Accounted
<1> SUFFICES ASSUME RuntimeInv, CreditInv, [RuntimeNext]_runtime_vars
             PROVE  RuntimeInv' /\ CreditInv' /\ Accounted
  OBVIOUS
<1>1. CASE genesis
  <2>1. ~on_initialize
    BY <1>1 DEF genesis, genesis_build, on_initialize, begin_block, process_expiration,
                take_auto_unlock_queue, process_auto_unlock, put_auto_unlock_queue, hook
  <2>2. QED
    BY <1>1, <2>1, SponsorshipStepHolds DEF genesis, SponsorshipStep
<1>2. CASE initialize_block
  BY <1>2, SponsorshipStepHolds DEF initialize_block, SponsorshipStep
<1>3. ASSUME NEW who \in Users, dispatch_sponsorship(who)
      PROVE  RuntimeInv' /\ CreditInv' /\ Accounted
  <2>1. /\ UNCHANGED <<gas, liquidity_info, collected>> /\ UNCHANGED hook
        /\ phase = "extrinsics" /\ DustIsNoted
    BY <1>3 DEF dispatch_sponsorship, Gas!Dispatching, sponsor, sponsor_minimum, set_policy,
                unlock, force_unlock, refresh, Calls
  <2>2. SponsorshipStep
    BY <1>3 DEF dispatch_sponsorship, SponsorshipStep
  <2>3. ~on_initialize
    BY <2>1 DEF on_initialize, begin_block, process_expiration,
                take_auto_unlock_queue, process_auto_unlock, put_auto_unlock_queue, hook
  <2>4. QED
    BY <2>1, <2>2, <2>3, SponsorshipStepHolds
<1>4. ASSUME NEW who \in Users, NEW fee \in Fees, NEW tip \in Tips, prepare(who, fee, tip)
      PROVE  RuntimeInv' /\ CreditInv' /\ Accounted
  BY <1>4, PrepareHolds
<1>5. ASSUME NEW who \in Users, dispatch_gas(who)
      PROVE  RuntimeInv' /\ CreditInv' /\ Accounted
  BY <1>5, DispatchGasHolds
<1>6. ASSUME NEW who \in Users, dispatch_transfer(who)
      PROVE  RuntimeInv' /\ CreditInv' /\ Accounted
  BY <1>6, DispatchTransferHolds
<1>7. ASSUME NEW fee \in Fees, post_dispatch(fee)
      PROVE  RuntimeInv' /\ CreditInv' /\ Accounted
  BY <1>7, PostDispatchHolds
<1>8. CASE UNCHANGED runtime_vars
  <2>1. IInv'
    BY <1>8, NextInvariant DEF RuntimeInv, runtime_vars
  <2>2. RuntimeInv'
    BY <1>8, <2>1
    DEF RuntimeInv, LiquidityOK, Spare, is_sponsored, runtime_vars, vars, gas, pallet
  <2>3. CreditInv'
    BY <1>8 DEF CreditInv, runtime_vars, vars, gas, hook
  <2>4. Kept(accounts) \in Nat /\ Taken(liquidity_info) \in Nat /\ collected \in Nat
    BY FundsAreSound, KeptType, TakenType DEF RuntimeInv, IInv, CreditInv
  <2>5. Accounted
    <3>1. /\ Kept(accounts') = Kept(accounts) /\ Taken(liquidity_info') = Taken(liquidity_info)
          /\ collected' = collected /\ (Backed => Backed')
      BY <1>8 DEF Backed, runtime_vars, vars, gas
    <3>2. QED
      BY <2>4, <3>1, SMTT(30) DEF Accounted, NoneMade
  <2>6. QED
    BY <2>2, <2>3, <2>5
<1>9. QED
  BY <1>1, <1>2, <1>3, <1>4, <1>5, <1>6, <1>7, <1>8 DEF RuntimeNext

\* The gas account has no key, so it never sponsors; nor does it at genesis,
\* when it has nothing.
KeylessInv ==
    /\ \A b \in DOMAIN Sponsorships : Sponsorships[b].sponsor # account_id
    /\ phase = "genesis" => accounts[account_id].free = 0

\* A step of the sponsorship pallet that stays at genesis sponsors.
LEMMA GenesisSponsors ==
    ASSUME SponsorshipStep, phase' = "genesis"
    PROVE  \E s, b \in Accounts, x \in Amounts, m \in Modes, l \in Leases :
              genesis_build(s, b, x, m, l)
<1>1. ~on_initialize
  BY DEF on_initialize, begin_block, process_expiration, take_auto_unlock_queue,
         process_auto_unlock, put_auto_unlock_queue
<1>2. ASSUME Calls PROVE FALSE
  BY <1>2 DEF Calls, hook
<1>3. QED
  BY <1>1, <1>2 DEF SponsorshipStep, sponsor, sponsor_minimum, set_policy, unlock,
                    force_unlock, refresh

\* do_sponsor asks the sponsor for funds, which the gas account has not.
LEMMA KeylessSponsors ==
    ASSUME RuntimeInv, KeylessInv, NEW s \in Accounts, NEW b \in Accounts, NEW x \in Nat,
           NEW m \in AutoUnlockMode, NEW l \in Lease, do_sponsor(s, b, x, m, l),
           s = account_id => phase = "genesis"
    PROVE  /\ \A c \in DOMAIN Sponsorships' : Sponsorships'[c].sponsor # account_id
           /\ accounts'[account_id].free = accounts[account_id].free
<1>1. /\ accounts[s].free - (x + SponsorshipStorageDeposit) >= ExistentialDeposit
      /\ RecordAdded(b, [sponsor |-> s, amount |-> x, auto_unlock |-> m,
                         lease |-> l, created_at |-> now])
      /\ SponsorshipStorageDeposit \in Nat /\ ExistentialDeposit \in Nat \ {0}
  BY SponsorEffect, Constants, ExistentialDepositAssumption DEF RuntimeInv, IInv
<1>2. s # account_id
  BY <1>1, SMTT(30) DEF KeylessInv
<1>3. \A c \in DOMAIN Sponsorships' : Sponsorships'[c].sponsor # account_id
  BY <1>1, <1>2, SMTT(30) DEF RecordAdded, KeylessInv
<1>4. QED
  BY <1>2, <1>3, SponsorMoney DEF RuntimeInv, IInv

\* Nobody else sponsors in its name.
LEMMA KeylessHolds ==
    RuntimeInv /\ CreditInv /\ KeylessInv /\ [RuntimeNext]_runtime_vars => KeylessInv'
<1> SUFFICES ASSUME RuntimeInv, CreditInv, KeylessInv, [RuntimeNext]_runtime_vars
             PROVE  KeylessInv'
  OBVIOUS
<1>1. ASSUME SponsorshipStep PROVE KeylessInv'
  <2>1. ASSUME NEW s \in Accounts, NEW b \in Accounts, NEW x \in Nat,
               NEW m \in AutoUnlockMode, NEW l \in Lease, do_sponsor(s, b, x, m, l),
               s = account_id => phase = "genesis"
        PROVE  KeylessInv'
    BY <1>1, <2>1, KeylessSponsors, SponsorshipPhase DEF KeylessInv
  <2>2. CASE phase' = "genesis"
    <3>1. PICK s \in Accounts, b \in Accounts, x \in Amounts, m \in Modes, l \in Leases :
             genesis_build(s, b, x, m, l)
      BY <1>1, <2>2, GenesisSponsors
    <3>2. /\ do_sponsor(s, b, x, m, l) /\ phase = "genesis"
          /\ x \in Nat /\ m \in AutoUnlockMode /\ l \in Lease
      BY <3>1, Constants DEF genesis_build
    <3>3. QED
      BY <2>1, <3>2
  <2>3. ASSUME NEW b \in Accounts, revoke_sponsorship(b)
        PROVE  \A c \in DOMAIN Sponsorships' : Sponsorships'[c].sponsor # account_id
    <3>1. RecordRemoved(b)
      BY <2>3, RevokeEffect DEF RuntimeInv, IInv
    <3>2. QED
      BY <3>1 DEF RecordRemoved, KeylessInv
  <2>4. CASE phase' # "genesis"
    BY <1>1, <2>1, <2>3, <2>4, SponsorshipKinds DEF KeylessInv, SameSponsors
  <2>5. QED
    BY <2>2, <2>4
<1>2. ASSUME UNCHANGED <<pallet, hook>>, phase # "genesis" PROVE KeylessInv'
  BY <1>2 DEF pallet, hook, KeylessInv
<1>3. CASE genesis \/ initialize_block \/ \E who \in Users : dispatch_sponsorship(who)
  BY <1>1, <1>3 DEF genesis, initialize_block, dispatch_sponsorship, SponsorshipStep
<1>4. ASSUME NEW who \in Users, NEW fee \in Fees, NEW tip \in Tips, prepare(who, fee, tip)
      PROVE  KeylessInv'
  BY <1>2, <1>4 DEF prepare
<1>5. ASSUME NEW who \in Users, dispatch_gas(who) \/ dispatch_transfer(who)
      PROVE  KeylessInv'
  BY <1>2, <1>5 DEF dispatch_gas, dispatch_transfer, Gas!purchase, Gas!transfer_allow_death,
                    Gas!Dispatching, CreditInv
<1>6. ASSUME NEW fee \in Fees, post_dispatch(fee) PROVE KeylessInv'
  BY <1>2, <1>6 DEF post_dispatch, Gas!correct_and_deposit_fee, CreditInv
<1>7. CASE UNCHANGED runtime_vars
  BY <1>7 DEF runtime_vars, vars, pallet, hook, KeylessInv
<1>8. QED
  BY <1>3, <1>4, <1>5, <1>6, <1>7 DEF RuntimeNext

-----------------------------------------------------------------------------
(* The theorems.                                                           *)

\* Whatever fees are withdrawn, credit bought and transfers made around the
\* calls of the sponsorship pallet, holds match records, deposits match
\* sponsorships, and every sponsorship can be revoked, in the middle of a
\* transaction too.
THEOREM FeesLeaveSponsorships == RuntimeSpec => []SponsorsArePaidBack
<1>1. RuntimeInv => SponsorsArePaidBack
  BY FundsAreRevocable DEF RuntimeInv, IInv, FundsOK, SponsorsArePaidBack
<1>2. QED
  BY <1>1, RuntimeInitHolds, RuntimeStepHolds, PTL DEF RuntimeSpec

\* The reference that ensure_pallet_account takes is never given up by the
\* dec_providers of a revocation: once it has sold credit, the account of the
\* prepaid gas pallet exists for good.
THEOREM GasAccountLives == RuntimeSpec => []GasAccountIsKept
<1>1. RuntimeInv => GasAccountIsKept
  <2> SUFFICES ASSUME RuntimeInv, PalletAccountInitialized PROVE GasAccountIsKept
    BY DEF GasAccountIsKept
  <2>1. Spare(account_id) >= 1 /\ SoundAccounts(accounts) /\ account_id \in Accounts
    BY RuntimeAssumption, FundsAreSound DEF RuntimeInv, IInv
  <2>3. QED
    BY <2>1, SMTT(30)
       DEF GasAccountIsKept, Spare, Slack, SoundAccounts, AccountInfo, OwnProvider
<1>2. QED
  BY <1>1, RuntimeInitHolds, RuntimeStepHolds, PTL DEF RuntimeSpec

\* Money at genesis.
LEMMA InitMoney ==
    ASSUME RuntimeInit
    PROVE  /\ Kept(accounts) = SumFunctionOnSet(Endowment, Accounts)
           /\ SumFunctionOnSet(Endowment, Accounts) \in Nat
           /\ Taken(liquidity_info) = 0 /\ collected = 0 /\ dust_lost = 0
           /\ Sold(PrepaidCredits) = 0
           /\ accounts[account_id].free \in Nat
<1>1. /\ Endowment \in [Accounts -> Nat] /\ IsFiniteSet(Accounts)
      /\ \A a \in Accounts : accounts[a] = EndowedAccount(Endowment[a])
  BY SponsorshipAssumption DEF RuntimeInit, Init
<1>2. ASSUME NEW a \in Accounts
      PROVE  /\ TotalBalance(accounts[a]) = Endowment[a] /\ Endowment[a] \in Nat
             /\ accounts[a].free \in Nat
  <2>2. accounts[a].free = Endowment[a] /\ accounts[a].held = NothingHeld
    <3>1. accounts[a] = [free |-> Endowment[a], held |-> NothingHeld,
                         providers |-> OwnProvider(Endowment[a])]
      BY <1>1 DEF EndowedAccount
    <3>2. QED
      BY <3>1, SMTT(30)
  <2>4. QED
    BY <1>1, <2>2, SMTT(30) DEF TotalBalance, Reserved, OnHold, NothingHeld, HoldReason
<1>6. QED
  BY <1>1, <1>2, SumType, RuntimeAssumption, SoldNothing DEF RuntimeInit, Kept, Taken

\* The sums of the composed modules are the same sums.
LEMMA SameSums ==
    ASSUME NEW f, NEW S
    PROVE  Gas!SumFunctionOnSet(f, S) = SumFunctionOnSet(f, S)
  BY DEF Gas!SumFunctionOnSet, Gas!FoldFunctionOnSet, Gas!MapThenFoldSet,
         SumFunctionOnSet, FoldFunctionOnSet, MapThenFoldSet

\* What the accounts have, free and on hold, what the running transaction has
\* taken and what was collected is never more than there was at genesis, and
\* never less where there is no dust, whatever is sponsored, revoked, bought,
\* transferred, paid as fee and refunded.
THEOREM RuntimeMakesNoMoney == RuntimeSpec => []MoneyConserved
<1>1. RuntimeInit => MoneyConserved
  BY InitMoney, SMTT(30) DEF MoneyConserved, Kept, Taken
<1>2. RuntimeInv /\ CreditInv /\ RuntimeInv' /\ CreditInv' /\ MoneyConserved /\ Accounted
        => MoneyConserved'
  <2> SUFFICES ASSUME RuntimeInv, CreditInv, RuntimeInv', CreditInv', MoneyConserved, Accounted
               PROVE  MoneyConserved'
    OBVIOUS
  <2> DEFINE endowed == SumFunctionOnSet(Endowment, Accounts)
             money == Kept(accounts) + Taken(liquidity_info) + collected
             later == Kept(accounts') + Taken(liquidity_info') + collected'
  <2>1. endowed \in Nat
    BY SponsorshipAssumption, SumType
  <2>2. money \in Nat
    BY FundsAreSound, KeptType, TakenType, SMTT(30) DEF RuntimeInv, IInv, CreditInv
  <2>3. later \in Nat
    <3>1. SoundAccounts(accounts') /\ LiquidityOK' /\ collected' \in Nat
      BY SoundNext DEF RuntimeInv, IInv, CreditInv, AllSound
    <3>2. Kept(accounts') \in Nat
      BY <3>1, KeptType
    <3>3. Taken(liquidity_info') \in Nat
      BY <3>1, SMTT(30) DEF LiquidityOK, Taken, Gas!LiquidityInfo, Gas!NoTransaction
    <3>4. QED
      BY <3>1, <3>2, <3>3, SMTT(30)
  <2>4. NoneMade(money, endowed)
    BY DEF MoneyConserved, NoneMade, Kept, Taken
  <2>5. NoneMade(later, money)
    BY DEF Accounted
  <2> HIDE DEF endowed, money, later
  <2>6. NoneMade(later, endowed)
    BY <2>1, <2>2, <2>3, <2>4, <2>5, SMTT(30) DEF NoneMade
  <2>7. QED
    BY <2>6 DEF MoneyConserved, NoneMade, Kept, Taken, endowed, later
<1>3. QED
  BY <1>1, <1>2, RuntimeInitHolds, RuntimeStepHolds, PTL DEF RuntimeSpec

\* Credit stays backed in the whole runtime but for what was lost as dust:
\* neither sponsoring the gas account nor revoking it, nor a transfer to it,
\* takes more from the free balance that purchase_for put there, whatever the
\* existential deposit.
THEOREM RuntimeKeepsCreditBacked == RuntimeSpec => []CreditsBackedUpToDust
<1>1. RuntimeInit => Backed
  BY InitMoney, SMTT(30) DEF Backed
<1>2. Accounted /\ Backed => Backed'
  BY DEF Accounted
<1>3. Backed => CreditsBackedUpToDust
  BY SameSums DEF Backed, Sold, CreditsBackedUpToDust, Gas!BackedUpToDust
<1>4. QED
  BY <1>1, <1>2, <1>3, RuntimeInitHolds, RuntimeStepHolds, PTL DEF RuntimeSpec

\* At genesis nothing is sponsored, and the gas account has nothing.
LEMMA KeylessInit == RuntimeInit => KeylessInv
<1> SUFFICES ASSUME RuntimeInit PROVE KeylessInv
  OBVIOUS
<1>1. accounts[account_id] = EndowedAccount(0) /\ DOMAIN Sponsorships = {}
  BY RuntimeAssumption, SMTT(30) DEF RuntimeInit, Init
<1>2. QED
  BY <1>1, SMTT(30) DEF KeylessInv, EndowedAccount

\* Unless it is sponsored, the gas account has nothing on hold.
LEMMA GasAccountOwesNothing ==
    ASSUME RuntimeInv, KeylessInv, ~is_sponsored(account_id)
    PROVE  Reserved(accounts[account_id]) = 0
<1>1. account_id \in Accounts /\ HoldBacksRecord /\ DepositPerSponsorship
  BY RuntimeAssumption DEF RuntimeInv, IInv, FundsOK
<1>2. accounts[account_id].held["Sponsorship"] = 0
  BY <1>1 DEF HoldBacksRecord, sponsored_amount
<1>3. sponsored_by(account_id) = {}
  BY DEF KeylessInv, sponsored_by
<1>4. accounts[account_id].held["StorageDeposit"] = SponsorshipStorageDeposit * 0
  BY <1>1, <1>3, FS_EmptySet DEF DepositPerSponsorship
<1>5. SponsorshipStorageDeposit \in Nat
  BY Constants
<1>6. QED
  BY <1>2, <1>4, <1>5, SMTT(30) DEF Reserved, OnHold

\* Then an account that exists only because it is sponsored, and has credit for
\* a fee and for the dust lost so far, passes CheckNonce and withdraw_fee: the
\* gas account has the funds, and its reference lets them go to the last unit.
THEOREM SponsoredAccountsTransact == RuntimeSpec => []SponsoredCanTransact
<1>1. RuntimeInit => Backed
  BY InitMoney, SMTT(30) DEF Backed
<1>2. Accounted /\ Backed => Backed'
  BY DEF Accounted
<1>3. RuntimeInv /\ CreditInv /\ KeylessInv /\ Backed => SponsoredCanTransact
  <2> SUFFICES ASSUME RuntimeInv, CreditInv, KeylessInv, Backed, NEW u \in Users, NEW fee \in Fees \ {0},
                      is_sponsored(u), PrepaidCredits[u] >= fee + dust_lost
               PROVE  CheckNonce(u) /\ Gas!withdraws_prepaid(u, fee, 0)
    BY DEF SponsoredCanTransact
  <2>1. /\ SoundAccounts(accounts) /\ u \in Accounts /\ account_id \in Accounts
        /\ fee \in Nat /\ fee # 0 /\ PrepaidCredits[u] \in Nat /\ dust_lost \in Nat
        /\ Sound(accounts[u]) /\ Sound(accounts[account_id])
        /\ Slack(accounts[u]) >= 1
    BY RuntimeAssumption, FundsAreSound, SoundParts
    DEF Users, RuntimeInv, IInv, CreditInv, is_sponsored
  <2>5. Gas!can_withdraw_from_pallet(fee)
    <3>1. /\ PrepaidCredits[u] <= Sold(PrepaidCredits) /\ Sold(PrepaidCredits) \in Nat
          /\ Sold(PrepaidCredits) <= accounts[account_id].free + dust_lost
          /\ accounts[account_id].free \in Nat
      BY <2>1, SoldChange, SoundAccount DEF CreditInv, Backed
    <3>2. fee <= accounts[account_id].free
      BY <2>1, <3>1, SMTT(30)
    <3>3. Spare(account_id) >= 1
      <4>1. PalletAccountInitialized => Spare(account_id) >= 1
        BY DEF RuntimeInv
      <4>2. ~PalletAccountInitialized => PrepaidCredits[u] = 0
        BY <2>1, SMTT(30) DEF CreditInv
      <4>3. PalletAccountInitialized
        BY <2>1, <4>2, SMTT(30)
      <4>4. QED
        BY <4>1, <4>3
    <3>4. Gas!can_dec_provider(accounts[account_id])
      <4>1. CASE is_sponsored(account_id)
        BY <2>1, <3>3, <4>1, SoundAccount, SMTT(30) DEF Spare, Gas!can_dec_provider
      <4>2. CASE ~is_sponsored(account_id)
        <5>1. Reserved(accounts[account_id]) = 0
          BY <2>1, <4>2, GasAccountOwesNothing
        <5>2. QED
          BY <5>1 DEF Gas!can_dec_provider, Gas!Reserved, Gas!OnHold, Reserved, OnHold
      <4>3. QED
        BY <4>1, <4>2
    <3>5. QED
      BY <3>1, <3>2, <3>4, <2>1, SMTT(30) DEF Gas!can_withdraw_from_pallet,
         Gas!reducible_balance
  <2>6. 0 <= Gas!reducible_balance(accounts[u], "Preserve")
    BY <2>1, SoundAccount, SMTT(30) DEF Gas!reducible_balance
  <2>7. QED
    BY <2>1, SoundAccount, <2>5, <2>6, SMTT(30) DEF CheckNonce, Gas!account_exists,
       Gas!withdraws_prepaid, Gas!uses_credit, Gas!credit, Gas!can_withdraw_native,
       Gas!can_withdraw_credit
<1>4. RuntimeInit => KeylessInv
  BY KeylessInit
<1>5. QED
  BY <1>1, <1>2, <1>3, <1>4, RuntimeInitHolds, RuntimeStepHolds, KeylessHolds, PTL
  DEF RuntimeSpec
==============================================================================
