# A TLA+ model of Nulo Chain

Nulo Chain is a Polkadot SDK parachain runtime. Its own code is four pallets, the
runtime that wires them to library pallets, and a collator node. This directory
holds TLA+ specifications of the pallets, of their composition in the runtime, of the
block limits and of the node's life cycle, TLC instances of them, and TLAPS proofs.

## 1. Inventory

### The parts and how they interact

| part | source | state | operations |
|---|---|---|---|
| existential sponsorship | `pallets/pallet-existential-sponsorship` | `Sponsorships`, `SponsorLedger`, `StorageDepositHeld`, `Expirations`, `AutoUnlockQueue` | `sponsor`, `sponsor_minimum`, `unlock`, `force_unlock`, `set_policy`, `refresh`, genesis, `on_initialize` |
| prepaid gas | `pallets/pallet-prepaid-gas` | `PrepaidCredits`, `PalletAccountInitialized`, the pallet's account | `purchase`, `withdraw_credit`, `refund_credit` |
| gas transaction payment | `pallets/pallet-gas-transaction-payment` | the credits a running transaction carries (`LiquidityInfo`) | `can_withdraw_fee`, `withdraw_fee`, `correct_and_deposit_fee` |
| hyper-fungible token | `pallets/pallet-hyper-fungible-token` | asset, contract and decimals tables, the custody account | `send`, `register_token`, `update_token`, `on_accept`, `on_timeout` |
| balances and system accounts | libraries | free and held balances, provider references | what the pallets call |
| runtime wiring | `runtime/src/lib.rs`, `configs/mod.rs` | the pallets' states over one set of accounts, the weight of the block | blocks, transactions with their extensions |
| collator node | `node/src` | the databases on disk, the process and its tasks | start, stop, chain operations, `purge-chain` |
| runtime APIs, XCM configuration | `runtime/src/apis.rs`, `configs/xcm_config.rs` | none | wiring of library code |

The pallets meet in the accounts. Sponsorship puts funds on hold in other
people's accounts and adds provider references to them; prepaid gas keeps its
backing in an account of its own, from which the fee adapter withdraws; the token
pallet keeps local assets in custody while they are abroad. The runtime orders what
they do: a block runs `on_initialize`, then transactions one after the other, each of
which withdraws its fee, dispatches a call of any pallet and settles its fee.

### What makes it hard

* `do_sponsor` and `revoke_sponsorship` are sequences of library calls, each of
  which reads the account the call before it wrote. Sponsor and beneficiary may be
  the same account, sponsor each other, or form chains; the existential deposit,
  dust removal and provider references interact with all of that.
* Two errors are deliberately ignored: a failing `dec_providers`, and a failing
  revocation in `process_expirations` (whose bucket has been taken already).
* `on_initialize` works on queues that calls, and its own first half, have changed.
* A transaction's fee is settled in two halves with an arbitrary call in between,
  which may close the account the refund should go to.
* Token transfers cross chains: requests are accepted or time out later, when the
  tables they were sent under may have been updated.
* Anybody may sponsor the account of the prepaid gas pallet, which has references and
  funds of its own; a sponsored account without free balance pays fees from credit.
* A node starts in a dozen steps, most of which may fail, while the tasks of the earlier
  ones already run, may end, and signals arrive.
* `purge-chain` removes one or both of two databases whose places depend on two parsed
  command lines.

## 2. The modules

* `Balances` (external): an account is its free balance, a held balance for each
  reason, and a count of provider references. One operator per library function,
  from the account before to the account after; the conditions under which a
  function fails are predicates. The dust rule is in `try_mutate_account`: a free
  balance below the existential deposit, with nothing on hold, disappears.
  Freezes do not occur. The only consumer reference is the one that
  `pallet_balances` itself takes while something is on hold.
* `Sponsorship`: the whole pallet, with the trait through which other pallets use it.
  The variables are the five storage items, the accounts, the block number, and
  `phase`, `pending`, `requeue` and `processed` for the local variables of
  `on_initialize`. A call that fails changes nothing, because
  dispatch is transactional, so each call is an action guarded by all its checks.
  `on_initialize` is a sequence of steps: `begin_block` takes the bucket,
  `process_expiration` handles one entry, `take_auto_unlock_queue`,
  `process_auto_unlock`, `put_auto_unlock_queue` likewise. `Lease::None` is `{}` and
  `Lease::Until(e)` is `{e}`. The bounded vectors hold no account twice and are
  modelled as sets, so loops visit entries in every order. `transfer_allow_death`
  stands for the rest of the chain: anybody moves free balance.
* `Escrow`: the abstract specification of sponsorship. Accounts have wealth, a part
  of which may be locked for a beneficiary; locking and unlocking cost the sponsor
  nothing, and only payments move wealth.
* `PrepaidGas` and `GasPayment`: the credit table and the fee adapter over it. A
  transaction is `withdraw_fee`, then any number of calls by its signer, then
  `correct_and_deposit_fee` with any fee up to the one withdrawn. The sum of what was
  handed to `OnUnbalanced` is kept in `collected`, and what the gas account has lost as
  dust in `dust_lost`, a history variable that no action reads.
* `HyperFungibleToken`: the token pallet. The four tables are variables of their
  own names. `requests` holds the ISMP requests under way in both directions; ISMP
  itself is external: a request is delivered or times out, once, at any time and in any
  order, and a handler that returns an error leaves it there to be tried again.
  `on_accept` is one action with the call that comes along, a payment here. The
  contracts abroad (`remote_send`, `remote_accept`, `remote_timeout`) are external too;
  `abroad` is what each has received less what it has sent back. The constant `Token`
  says what a contract really is, for the properties to compare the tables with.
  Assets are sufficient: an account exists while it has any balance, and the nonce is
  forgotten when it goes, also when `on_accept` opens the account by its release and the
  call empties it again (`reaped`). Three history variables are there for the properties:
  `executed` counts the calls a signature let through, `overwritten` has the routes whose
  contract `register_token` replaced by another, and `dust_lost` is what custody has lost
  of each asset as dust.
* `Conversion`: the two conversions of amounts between local and contract decimals, as
  operators over a balance of `Width` bits. The power of ten wraps, as it does in a
  release build; `can_convert` is what the division and the narrowing need.
* `Runtime`: extends `Sponsorship` and instantiates `GasPayment` over the same accounts,
  one of which is the gas pallet's. `initialize_block` runs the hook, `prepare` is the
  part of `TxExtension` that matters here (`CheckNonce`: the signer's account exists;
  then the fee), `dispatch_*` are calls of the two pallets and of Balances, and
  `post_dispatch` settles the fee. `genesis` builds the genesis sponsorships.
* `BlockWeights`: the weights the pallets declare and the limits `RuntimeBlockWeights`
  sets, with `CheckWeight` (external) as the actions of a block. Time is in microseconds,
  a million of the code's unit; all weights and limits are multiples of it.
* `Node`: the command line, the databases on disk, and the process. `step` names the
  next step of `start_parachain_node`; each spawns its tasks or fails (`StepFails`,
  after which a database that the step was opening may exist). `TaskEnds`, `Signal` and
  `Crash` happen at any time; only the databases survive. What an essential task's end
  and a signal do is looked at in `run_until_exit`, as in the runner. `purge_chain` picks
  the databases by `--parachain` and `--relaychain` and, without `--yes`, asks first
  (`confirm`); then `remove_databases` removes them one by one. Parsed arguments
  are records with a set for an option; the specifications in files are a function.
* `MC...`: instances for TLC. `MCConversion` also has the little state machine that
  drives the conversions.
* `...Proofs`: theorems, section 4.

Operators called "Variant" are plausible mistakes, next to the definition they
vary. No specification uses them; they serve to test that a property notices.

Amounts are unbounded naturals. The code uses saturating arithmetic on `u128`
balances, none of which can exceed the total issuance; where a saturating
subtraction could hide an error (`saturating_sub` on the ledger) it is modelled as
such (`monus`).

## 3. The runs

`sponsorship_funds` (91 000 states). Three accounts, one of which does not exist at
genesis, an existential deposit of 2, amounts that equal it, and a storage deposit
of 1. This is enough for self-sponsorship, chains and cycles of sponsors, accounts
that live on a hold only, and accounts left with less than the existential deposit.
It checks that holds match records (`HoldBacksRecord`), deposits match sponsorships
(`DepositPerSponsorship`), the ledger is exact and within its caps
(`LedgerIsExact`), every sponsorship can be revoked (`AlwaysRevocable`), provider
references are never short (`ReferencesCoverUse`), the dust rule is never bypassed
(`NoHiddenDust`), and that the pallet implements `Escrow` (`ImplementsEscrow`).

`sponsorship_policies` (86 000 states). Two accounts, one that can sponsor twice and
one that can sponsor only after it is paid, blocks 0 to 3, leases that end in a past,
present or later block and are moved between them, a lease too long to be accepted,
policy changes, and queues with room for a single entry, so that `QueueFull` happens.
The instance has an account less than that of `sponsorship_funds`: TLC checks temporal
properties on one thread. It checks that `Expirations` names exactly the
leases there are (`LeaseIsIndexed`), that no auto-unlock entry is lost
(`AutoUnlockIsWatched`; the code's `expect("processing never increases queued
items")` is its second half), and the per-block caps (`PerBlockCaps`). Under
`WF_vars(on_initialize)`, leases expire (`LeaseExpires`) and met auto-unlock conditions
take effect (`AutoUnlockHappens`). The fairness says that collators go on
producing blocks and that a block runs `on_initialize` to its end. Nothing is assumed
of users. Blocks are bounded by `MaxBlock`, so both properties speak of what is set
up before the last block.

`gas_fees` (226 000 states). Two users, one of whom has just enough to exist on, fees up
to 2 and tips up to 1, and an existential deposit of 2: the gas account may lose a
remainder of 1 as dust, and a refund of 1 to it, or to a signer whose account the call
has closed, fails. What the gas account has and has lost as dust backs the credit
(`BackedUpToDust`), what `can_withdraw_fee` accepts can be withdrawn, from credit if it
covers the dust lost too (`CheckedFeeIsPayable`), no money is made (`FundsConserved`, which
also says that none is lost where the deposit is 1), and credit moves only with its owner's
fee or the funds behind it (`CreditIsPersonal`). Section 4 proves all of them for every
deposit. That the dust really is lost is what `gas_dust` shows.

`hft_custody` (553 000 states). The native currency with a minimum balance of 2, a
contract with one decimal more on one chain and one with fewer on another, at most four
requests, amounts from abroad that are no multiple of the scale, updates that swap the
contract, remove chains, or do both in one call, and a second registration that replaces
the contract on the first chain. Four requests are enough to send, be received, come back
in part, and have another request time out meanwhile.

`register_token` does not ask whether the token has a contract: it leaves the old one in
`ContractToAsset`, and what comes from there is then converted with the decimals of the
new one. `RoutesAgree` says what holds however tokens are registered and updated: the
contract of every route is in the reverse table, a route has decimals exactly while it
exists, and on a route that is not `overwritten` no other contract leads to the asset. As
long as nothing is `overwritten`, custody together with the dust it lost covers what is
abroad and under way (`Backed`), and a timeout that is handled pays back exactly what was
sent (`RefundIsExact`): an update can block a refund but does not falsify it. This rests on
truthful configurations: registrations and updates of the run give a contract the decimals
it has. An update that changes the decimals of a contract in place is not excluded by the
pallet, and would falsify refunds.

`hft_calls` (189 000 states). A native asset with a minimum balance of 2 and a foreign
one, three requests, relayer fees, and requests with unsigned calls and with calls that
Alice has signed for their first or second nonce, several times over. Besides `Backed`, a
signature lets one call through while the signer's account exists (`SignedCallOnce`; the
nonce of an account that is closed starts again, so this is all the nonce can promise).
Without updates, a timeout can be handled (`RefundPossible`) under two conditions. The
sender must be able to receive the refund: one below the minimum balance to an account
that was closed meanwhile fails, and with the deployed deposit of `MILLI_UNIT` this
happens without any update. And custody must not have lost dust of the asset. Tokens are
registered at any time and as often as one likes, here always with the same contracts.

`conversion_parts` (22 000 states). A balance of 7 bits, decimals from 0 to 7, and
amounts around the powers of ten. The largest power that is a balance is then 10^2, as
it is 10^38 for `u128`, and differences on both sides of it occur. Up to that
difference an amount that leaves comes back whole in one piece, and is worth the same
abroad if the contract has as many decimals or more (`LeavesWhole`; for one with fewer,
`saturating_sub` makes the factor 1, so the units are kept and are worth more there). In
whatever parts it comes back, it never grows (`PartsNeverGrow`). Nothing happens after the
last part, so deadlock is not checked.

`runtime_fees` (709 000 states). Two users, one of whom does not exist at genesis, and the
gas account, which anybody may sponsor; one block after genesis, payments and fees of 1
and 2, an existential deposit of 2. This is enough for a user who exists only by
sponsorship to pay from credit, for a sponsorship to be revoked in the middle of a
transaction, and for the gas account to be sponsored before, after and between purchases.
While holds in the gas account come and go, credit stays backed but for dust
(`CreditsBackedUpToDust`): what a fee leaves below the deposit stays as long as the
account is sponsored, and is lost when the sponsorship is revoked. A sponsored account
whose credit covers a fee and the dust lost can transact (`SponsoredCanTransact`), fees
leave holds alone and sponsorships revocable (`SponsorsArePaidBack`), the gas account is
never removed (`GasAccountIsKept`), and no money is made (`MoneyConserved`). The last
block has no successor here and funds run out, so deadlock is not checked.

`block_weights` (180 000 states). The limits and weights of the runtime themselves, up to
three extrinsics after a hook with empty, short and full queues; besides this
repository's calls, four weights of other pallets: one near the operational reserve, two
that fill the normal share, one that no block can hold. Extrinsics report half of, all of
or twice what they declared. Operational extrinsics fit into the space reserved for them
whatever came before (`OperationalIsIncluded`), the largest extrinsic the pool accepts
fits into an empty block after full queues (`LargestIsIncludable`), and the hook stays in
the 5% set aside for it even if each revocation costs what `unlock` declares
(`HookFitsItsShare`). Three extrinsics are enough, as two fill a class.

`node` (390 000 states). A collator, a collator with a remote relay chain, a full node of
another chain with relay chain arguments of its own, and a specification in a file that
names an unknown relay chain are used on one disk, again and again; every step fails,
every task ends, signals and crashes come at any time, and chain operations and
`purge-chain` run in between, with and without a selector and with and without a prompt.
Authoring starts only when all the tasks it needs have been spawned (`CollatorIsReady`; one
of them may have ended since, which `FailureStopsNode` is about), and the `expect` on the
collator key holds (`NoPanic`). After a confirmed `purge-chain` that reports success none of
the databases it was to remove is there, and no other database is ever removed
(`PurgeForgets`), whatever ran, failed or was killed before. Under `WF_vars(Proceed)`, a
node whose essential task has ended or that was asked to stop does stop
(`FailureStopsNode`), and a collator comes to author or stops (`CollatorCollates`). The
fairness says that the process is scheduled, a future that can make progress is polled,
and that what a start-up step awaits comes back or fails. The latter is an assumption on
the libraries and, for a remote relay chain, on the other node: a connection that neither
answers nor fails would keep the node starting for ever. Nothing is assumed of tasks,
signals, failures or the operator, who may leave the prompt unanswered.

Three runs show a disagreement between the code and what its documents or tests say:

* `sponsorship_overdue`: a lease that ends in the current block is accepted, but that
  block's bucket was processed in `on_initialize`. The sponsorship never expires by
  itself, against "Expires at (inclusive) block number".
* `gas_dust`: a prepaid fee that leaves less than the existential deposit in the
  pallet's account loses the rest as dust, while the credit it backs stays.
* `hft_update`: a request's timeout cannot be handled after `update_token` has replaced or
  removed the contract it was sent to, though the sender could receive the refund, against
  the test `ismp_timeout_refunds_native_tokens_to_original_sender`. Putting the contract
  back makes it possible again.

One more behaviour is worth knowing. When a beneficiary has a storage deposit of its own
on hold and no other provider, the `dec_providers` of a revocation is refused and the
error ignored; the reference is never given back, and the account stays after its last
balance is gone. `ReferencesCoverUse` excludes too few references, not this.

## 4. The proofs

All theorems hold for every value of the constants that the named assumptions and the
theorem's own hypotheses allow. Every safety invariant and action property of the passing
runs is the subject of one, but for the two of `conversion_parts`.

`BalancesProofs` has the lemmas on the currency that the others share, and those on sums:
`SumFunctionOnSet` over a finite set unfolds one element at a time (`SumRemove`), so a
change at one element changes the sum by as much (`SumChange`). The induction behind them
is by a smallest counterexample: a set of finite sets that is not empty has a smallest
member (`SmallestSubset`), a set of numbers a least one (`LeastNat`).

The five modules on sponsorship, the runtime and the token bridge say `USE Zenon` at the
top: most of their leaves are first-order and Zenon proves them quickly. The leaves that
need arithmetic or reasoning about functions name `SMTT(30)`.

### Sponsorship

`SponsorshipProofs` proves, for any finite set of accounts, any constants and any genesis
balances: `TypeCorrect`, `HoldsMatchRecords`, `DepositsMatchRecords`, `ReferencesSuffice`
and `RevocationNeverFails`. The assumptions are the named ones of `Balances` and
`Sponsorship`: the existential deposit is positive, the constants are natural numbers,
endowments are zero or at least the existential deposit.

`TypeOK` is not inductive: that a provider count stays a natural number needs that
`dec_providers` is only called while the pallet's reference is there. The inductive
invariant `IInv` is `TypeOK` together with `HoldBacksRecord`, `DepositPerSponsorship`
and `ReferencesCoverUse`. The argument goes bottom-up. `Slack` is the number of
provider references an account has beyond the balances pallet's own. A first group
of lemmas shows what each library function does to a sound account (slack not
negative): all of them keep the slack except the two that count references. A second
group (`SponsorFunds`, `RepaidFunds`, `RevokeFunds`) composes these along the call
sequences of `do_sponsor` and `revoke_sponsorship`, with sponsor and beneficiary equal
or not. Then each action preserves `IInv`, and `IInv` implies each check of
`revoke_sponsorship`: the minimum sponsorship is at least the existential deposit, so
the sponsor can always be paid back.

`SponsorshipRecordProofs` builds on `IInv`. The first two of its theorems are
`ExpirationsAreExact` and `QueueIsComplete`. `LeaseIsIndexed` and `AutoUnlockIsWatched`
are inductive together, in a state of the right type: a beneficiary without a sponsorship
is in no bucket, so `do_sponsor` cannot leave an older entry beside the new one; a block
to come keeps its bucket until `begin_block` makes it the present one; and what `Watched`
says of the queue outside the loop it says of `pending` and `requeue` inside it.

`LedgerStaysExact` and `BlockCapsHold` have an invariant of their own, `LedgerInv`: for
each sponsor, the ledger's count and amount are the cardinality and the sum over its
sponsorships, and its per-block fields, if they are of this block, count at least what it
created in it. The saturating subtraction of a revocation is exact because the
sponsorship it takes out is part of the sum.

`DustIsRemoved` adds that every account is kempt: no free balance below the existential
deposit without a hold, and no funds without a reference.

`SponsorshipIsEscrow` is the refinement: under the mapping of `ImplementsEscrow`, `Init`
gives an initial state of `Escrow`, and every call and every step of `on_initialize` is a
step of it or a stutter. What an account owns, its free balance and deposits with what it
has locked elsewhere, is the same before and after a sponsorship and its revocation; `IInv`
says that the hold that is released is the one the record has.

### Fees

`GasPaymentProofs` proves `TypeCorrect` and `CreditOnlyMovesWithItsFunds`, for any users,
fees, tips, amounts, endowments and existential deposit. The inductive invariant is
`TypeOK` with sound accounts. What a withdrawal or transfer takes is at most the free
balance (`ReducibleIsFree`), and what `can_deposit` lets in arrives whole, so the gas
account gains exactly what a purchase or a refund adds to the credit.

Over the same invariant there are the sums, for every existential deposit, the deployed
`MILLI_UNIT` (`lib.rs:201`) included. `NoMoneyIsMade`: the total only falls, by dust.
`BackingLostOnlyAsDust` says that dust, the last of the gas account, is the only way in
which a step ever lowers the backing; adding up what was lost, `CreditStaysBacked` has
`BackedUpToDust` in every state. From it follows `CheckedFeesArePaid`: credit that exceeds
a fee by the dust lost finds the fee in the gas account, whose reference lets it be
withdrawn to the last unit. Credit that does not may find less there; `gas_dust` shows it.

`RuntimeProofs` carries the sponsorship invariant over to the composition:
`FeesLeaveSponsorships` and `GasAccountLives`. Its invariant adds that a running
transaction is well formed and that the gas account, once initialised, has a spare
reference, one that neither its own balance nor being sponsored accounts for. The steps
of the fee adapter are "gentle": they keep the holds and the references of every account,
which is all the sponsorship invariant speaks of (`FreeBalanceMoves`). `do_sponsor` and
`revoke_sponsorship` keep spare references: with one to spare, `dec_providers` is
neither refused nor the end of the account.

`RuntimeMakesNoMoney` sums free and held balances over all accounts; a sponsorship moves
them between two accounts and within each. For `RuntimeKeepsCreditBacked` and
`SponsoredAccountsTransact`, for every existential deposit too, `CreditInv` says what
kind of transaction is running and what it has charged. The gas account signs nothing and
has no funds at genesis, so it never sponsors and has no storage deposit on hold
(`KeylessInv`); holds of others that come and go in it leave its free balance at what it
was or more, or drop it as dust.

### Blocks

`CollatorProofs`, on what a collator runs beside the pallets, has the runtime's limits and
weights as the numbers they are, and leaves open the weights of the other pallets, the
length of the queues, how many extrinsics a block has and what they report, and
`MAX_POV_SIZE`. `ReserveIsKept` holds for any of its values, `LargestFits` and `HookFits`
from 2 560 000 and 8 960 000 bytes on (10 MiB is the value of the relay chain library).
The invariant bounds what the hook declares and does.

### Tokens

`HyperFungibleTokenProofs` is about any finite sets of users, chains and contracts, and any
assets, registrations, updates, amounts and calls.

`RoutesStayInverse` holds for all registrations and updates; it assumes only that who
registers knows the asset of a contract (`ConfigurationAssumption`). `RoutesAgree` alone is
not inductive; it needs that every entry names a contract of its asset, so that two assets
never share one.

`SignaturesAreUsedOnce` has no hypothesis. Its invariant is that a nonce that is still to
come has let no call through, and an earlier one at most one (`NonceInv`).

`CustodyProofs` has the rest. `ClaimsStayBacked` and `RefundsAreExact` assume that the
routes are `Configured` in every state: a route has the decimals of its contract, and an
asset is in custody exactly if its original is not abroad. The pallet cannot check this;
`RoutesStayConfigured` derives it from what those who register and update tokens do
(`WellConfigured`: true decimals, the right custody flag), as long as no registration has
replaced the contract of a route, and the `Configured...` versions of the two theorems,
which state `Backed` and `RefundIsExact`, rest on that. Their invariant `TrueInv` is about
the tables alone and holds in every state; what needs the routes configured is carried
under `overwritten = {}`, which once false stays so. Custody needs two more hypotheses:
the powers of ten do not wrap (`DecimalsFit`; for `u128`, no contract has more than 38
decimals more than its asset), and of an asset whose original is abroad nothing exists at
genesis (`NoneMinted`). Minimum balances are any positive numbers: what custody loses as
dust when `on_accept` or `on_timeout` empties it is added to `dust_lost` in the same step,
so the sum of the two goes down by what was given out. The argument: `TakesIn` says how
much of one asset a change of the balances took in, whichever of `transfer`, `burn_from`
and `mint_into` made it, and composes for several changes in one step. `Worth` is what the
claims of the contracts of an asset come to in the unit of the most precise one, of which
every scale is a divisor (`ScalesDivide`, `UnitFits`). `send` takes in what its request
claims, `on_accept` and `on_timeout` give out the claim rounded down, and the contracts
abroad only turn requests into holdings and back. The invariant adds that a contract that
does not wrap owes nothing, and that what `send` dispatched is a whole amount
(`WholeInv`), so that `on_timeout` divides what `send` multiplied.

`RefundsStayPossible`, again for all minimum balances, adds that the route a request left by
is still there, which needs `Updates = {}` (`hft_update` shows why), and that custody, if it
has lost no dust, has the amount: the request is one of the claims, none of which is
negative. Amounts are balances, below 2^`Width`.

`WidthAssumption` also names that 2^`Width` is a positive number, since the provers know no
powers; what `pow10` is, is proved from its definition (`Pow10Defined`).

### Node

`CollatorProofs` proves `TypeCorrect`, `AuthoringStartsLast`, `NeverPanics` and
`PurgeIsComplete` for any command lines (`InvocationAssumption`), specifications and
relay chains. The invariant says, for each step, which tasks have been spawned before it,
and that a remote relay chain interface has come with a collator key, and an embedded one
if and only if the node is an authority. For the purge it says that those of the selected
databases that are still on disk are among the ones left to remove, and that these are all
selected.

### What is only model-checked

Liveness (`LeaseExpires`, `AutoUnlockHappens`, `FailureStopsNode`, `CollatorCollates`),
which needs fairness. `LeavesWhole` and `PartsNeverGrow`, which compare the conversions with
true powers of ten (`10 ^ n`), of which the provers know nothing; `ScalesDivide` and
`PowersDivide` prove the part of it that custody needs. What the three violation runs show.

## 5. Not modelled

* Runtime APIs (`apis.rs`) delegate to library pallets and only read.
* The XCM configuration (`configs/xcm_config.rs`) selects parts of the XCM executor; it
  has no state or control flow of its own.
* Of the runtime, the library pallets: assets, session, collator selection, aura, sudo,
  message queue, ISMP. Inherents are left out of `BlockWeights`. The token pallet is not
  part of `Runtime`: it meets the others only as one more source of transfers.
* `WeightToFee`, a constant factor: the base weight of an extrinsic costs 1/1000
  `MILLI_UNIT` (the comment at `lib.rs:120` says 1/10). Fees are any numbers in
  `GasPayment` and `Runtime`.
* Of the genesis presets and chain specifications, what is data for library pallets.
* The implementations of the weights for `()`, which serve tests, and the weights of
  `pallet-gas-transaction-payment`, which belong to no call. How long a call really takes
  is not in the source: that `refresh` declares half of what `unlock` does for the same
  work can be seen in `BlockWeights` but has nothing to be compared with.
* Of the node, what the spawned tasks do (networking, consensus, RPC), which is library
  code; `rpc.rs` only assembles RPC modules. Two processes on one disk: the lock of the
  database excludes them.
* Events, logs, and the encoding of messages, signatures and addresses: an address
  is an account, a signature a signer and a nonce.

## 6. Plan

What could come next, in this order:

1. An abstract ledger for `HyperFungibleToken`: amounts are here, under way or abroad,
   and only their owners move them; implemented by the pallet while tables and
   contracts agree.
2. An abstract fee account for `GasPayment`: a transaction pays its fee once.
3. Proofs: a refund that stays possible under updates that leave the routes of open
   requests alone, and the conversions against an exact power of ten.
