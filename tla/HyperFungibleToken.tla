-------------------------- MODULE HyperFungibleToken --------------------------
(***************************************************************************)
(* pallet-hyper-fungible-token: assets leave for token contracts on other  *)
(* chains and come back.  An asset that is native here is kept in custody  *)
(* while it is abroad; another one is burnt and minted.  ISMP delivers a   *)
(* request to the other side at most once, or reports its timeout to the   *)
(* sender, at any time and in any order.  A handler that returns an error  *)
(* changes nothing, and its request can be tried again.                    *)
(***************************************************************************)
EXTENDS Conversion, FiniteSets, Functions

CONSTANTS
    Users, pallet_account,
    Assets, NativeAssetId,
    MinBalance,          \* the existential deposit of each asset
    Decimals,            \* the local decimals of each asset
    StateMachines, Contracts,
    Token,               \* what a contract is: its asset, its decimals, whether
                         \* it wraps the original (or is minted and burnt)
    Collateral,          \* how much of an original can be wrapped
    None,
    Endowment,           \* the balances at genesis, by asset and user
    Amounts, Fees,       \* what users send, and pay the relayer
    RemoteAmounts,       \* what holders abroad send back
    Calldata,            \* the calls they send along
    Registrations, Updates,
    MaxRequests          \* how many requests the model dispatches

ASSUME HyperFungibleTokenAssumption ==
    /\ IsFiniteSet(Users) /\ IsFiniteSet(StateMachines) /\ IsFiniteSet(Contracts)
    /\ pallet_account \notin Users /\ NativeAssetId \in Assets
    /\ MinBalance \in [Assets -> Nat \ {0}] /\ Decimals \in [Assets -> Nat]
    /\ Token \in [Contracts -> [asset: Assets, decimals: Nat, wraps: BOOLEAN]]
    /\ Endowment \in [Assets -> [Users -> Nat]]
    /\ Amounts \cup Fees \cup RemoteAmounts \cup {Collateral, MaxRequests} \subseteq Nat
    /\ \A call \in Calldata \ {None} : call.payee \in Users /\ call.amount \in Nat \ {0}

\* ChainConfigs by chain, each naming a contract of the asset.
ChainConfigs(chains, asset) ==
    /\ DOMAIN chains \subseteq StateMachines
    /\ \A c \in DOMAIN chains :
          /\ chains[c].token_contract \in Contracts /\ chains[c].decimals \in Nat
          /\ Token[chains[c].token_contract].asset = asset

\* Those who may register a token know which asset a contract is for.
ASSUME ConfigurationAssumption ==
    /\ None \notin Assets /\ None \notin Contracts /\ None \notin Nat
    /\ \A r \in Registrations : r.local_id \in Assets /\ ChainConfigs(r.chains, r.local_id)
    /\ \A u \in Updates : u.asset_id \in Assets /\ ChainConfigs(u.add_chains, u.asset_id)

VARIABLES
    TokenContracts, ContractToAsset, NativeAssets, Precisions,
    balances,            \* by asset and holder
    account_nonce,
    requests,            \* the ISMP requests under way, in both directions
    dispatched,          \* how many there have been
    abroad,              \* what each contract got from here less what it sent
    \* What has happened, for the properties; no action reads these.
    executed,            \* how often a signature for a nonce let a call through
                         \* since the account was opened
    overwritten,         \* the routes whose contract register_token replaced
    dust_lost            \* what custody lost of each asset as dust

tables == <<TokenContracts, ContractToAsset, NativeAssets, Precisions>>
vars == <<tables, balances, account_nonce, requests, dispatched, abroad, executed,
          overwritten, dust_lost>>

Holders == Users \cup {pallet_account}

-----------------------------------------------------------------------------
(* Balances and Assets.                                                    *)

\* What stays of a balance that was spent from: less than the minimum is dust.
remaining(asset, balance) == IF balance < MinBalance[asset] THEN 0 ELSE balance

can_receive(asset, who, amount) ==
    amount = 0 \/ balances[asset][who] + amount >= MinBalance[asset]

can_withdraw(asset, who, amount) == amount <= balances[asset][who]

transfer(funds, asset, source, dest, amount) ==
    IF source = dest THEN funds
    ELSE [funds EXCEPT ![asset][source] = remaining(asset, @ - amount),
                       ![asset][dest] = @ + amount]

burn_from(funds, asset, who, amount) ==
    [funds EXCEPT ![asset][who] = remaining(asset, @ - amount)]

mint_into(funds, asset, who, amount) == [funds EXCEPT ![asset][who] = @ + amount]

\* An account is there as long as it has a balance.  The users whose account is
\* closed when the balances become others; the system forgets their nonces.
has_account(funds, who) == \E a \in Assets : funds[a][who] > 0

reaped(before, after) == {u \in Users : has_account(before, u) /\ ~has_account(after, u)}

kill_accounts(nonces, closed) == [u \in Users |-> IF u \in closed THEN 0 ELSE nonces[u]]

\* Variant: the nonce is not used up.
inc_account_nonce_forgotten(nonces, who) == nonces

inc_account_nonce(nonces, who) == [nonces EXCEPT ![who] = @ + 1]

\* Whether the asset goes into custody, rather than being burnt.
is_native(asset) == asset = NativeAssetId \/ NativeAssets[asset]

-----------------------------------------------------------------------------
(* The calls.                                                              *)

forget_executed(counts, closed) ==
    [u \in Users |-> [n \in 0 .. MaxRequests |-> IF u \in closed THEN 0 ELSE counts[u][n]]]

send(who, asset, destination, recipient, amount, relayer_fee) ==
    LET token_contract == TokenContracts[destination][asset]
        erc_decimals == Precisions[asset][destination]
        paid == IF is_native(asset)
                THEN transfer(balances, asset, who, pallet_account, amount)
                ELSE burn_from(balances, asset, who, amount)
        charged == burn_from(paid, NativeAssetId, who, relayer_fee)
        closed == reaped(balances, charged)
    IN  /\ dispatched < MaxRequests
        /\ token_contract # None
        /\ erc_decimals # None
        /\ can_withdraw(asset, who, amount)
        /\ is_native(asset) => can_receive(asset, pallet_account, amount)
        /\ relayer_fee <= paid[NativeAssetId][who]
        /\ balances' = charged
        /\ requests' = requests \cup {[
                nonce |-> dispatched, outgoing |-> TRUE,
                chain |-> destination, contract |-> token_contract,
                from |-> who, to |-> recipient,
                amount |-> convert_to_erc20(amount, erc_decimals, Decimals[asset]),
                data |-> None]}
        /\ dispatched' = dispatched + 1
        /\ account_nonce' = kill_accounts(inc_account_nonce(account_nonce, who), closed)
        /\ executed' = forget_executed(executed, closed)
        /\ UNCHANGED <<tables, abroad, overwritten, dust_lost>>

\* The three tables after ChainConfigs are inserted for an asset.
insert_contracts(contracts, asset, chains) ==
    [c \in StateMachines |-> [contracts[c] EXCEPT ![asset] =
        IF c \in DOMAIN chains THEN chains[c].token_contract ELSE @]]

\* Variant: the reverse table is forgotten.
insert_assets_forgotten(assets, asset, chains) == assets

insert_assets(assets, asset, chains) ==
    [c \in StateMachines |-> [k \in Contracts |->
        IF c \in DOMAIN chains /\ chains[c].token_contract = k THEN asset ELSE assets[c][k]]]

insert_precisions(precisions, asset, chains) ==
    [precisions EXCEPT ![asset] =
        [c \in StateMachines |-> IF c \in DOMAIN chains THEN chains[c].decimals ELSE @[c]]]

\* The routes of an asset on which ChainConfigs replace a contract by another.
replaced_routes(asset, chains) ==
    {<<c, asset>> : c \in {c \in DOMAIN chains :
        TokenContracts[c][asset] \notin {None, chains[c].token_contract}}}

\* Nothing asks whether the token is registered: what it has on the same chains
\* is overwritten, and the entries of the old contracts in ContractToAsset stay.
register_token(registration) ==
    LET asset == registration.local_id
    IN  /\ NativeAssets' = [NativeAssets EXCEPT ![asset] = registration.native]
        /\ TokenContracts' = insert_contracts(TokenContracts, asset, registration.chains)
        /\ ContractToAsset' = insert_assets(ContractToAsset, asset, registration.chains)
        /\ Precisions' = insert_precisions(Precisions, asset, registration.chains)
        /\ overwritten' = overwritten \cup replaced_routes(asset, registration.chains)
        /\ UNCHANGED <<balances, account_nonce, requests, dispatched, abroad, executed,
                       dust_lost>>

\* Variant: the entry of the old contract stays.
remove_old_contracts_forgotten(assets, contracts, asset, chains) == assets

\* The reverse table without the contracts an asset has on some chains.
remove_old_contracts(assets, contracts, asset, chains) ==
    [c \in StateMachines |-> [k \in Contracts |->
        IF c \in chains /\ contracts[c][asset] = k THEN None ELSE assets[c][k]]]

update_token(update) ==
    LET asset == update.asset_id
        cleared == remove_old_contracts(ContractToAsset, TokenContracts, asset,
                                        DOMAIN update.add_chains)
        contracts == insert_contracts(TokenContracts, asset, update.add_chains)
        precisions == insert_precisions(Precisions, asset, update.add_chains)
    IN  /\ ContractToAsset' =
                remove_old_contracts(insert_assets(cleared, asset, update.add_chains),
                                     contracts, asset, update.remove_chains)
        /\ TokenContracts' = [c \in StateMachines |-> [contracts[c] EXCEPT ![asset] =
                IF c \in update.remove_chains THEN None ELSE @]]
        /\ Precisions' = [precisions EXCEPT ![asset] =
                [c \in StateMachines |-> IF c \in update.remove_chains THEN None ELSE @[c]]]
        /\ UNCHANGED <<NativeAssets, balances, account_nonce, requests, dispatched,
                       abroad, executed, overwritten, dust_lost>>

-----------------------------------------------------------------------------
(* The ISMP callbacks.                                                     *)

\* What on_accept and on_timeout have in common: the local amount, whether it
\* can be given out, and the balances afterwards.
local_amount(request) ==
    LET asset == ContractToAsset[request.chain][request.contract]
    IN  convert_to_balance(request.amount, Precisions[asset][request.chain], Decimals[asset])

can_release(request, beneficiary) ==
    LET asset == ContractToAsset[request.chain][request.contract]
    IN  /\ asset # None
        /\ Precisions[asset][request.chain] # None
        /\ can_convert(request.amount, Precisions[asset][request.chain], Decimals[asset])
        /\ is_native(asset) => can_withdraw(asset, pallet_account, local_amount(request))
        /\ can_receive(asset, beneficiary, local_amount(request))

after_release(request, beneficiary) ==
    LET asset == ContractToAsset[request.chain][request.contract]
        amount == local_amount(request)
    IN  IF is_native(asset)
        THEN transfer(balances, asset, pallet_account, beneficiary, amount)
        ELSE mint_into(balances, asset, beneficiary, amount)

\* If less than the minimum stays in custody, it is lost.
dust_after_release(request) ==
    LET asset == ContractToAsset[request.chain][request.contract]
        left == balances[asset][pallet_account] - local_amount(request)
    IN  IF is_native(asset)
        THEN [dust_lost EXCEPT ![asset] = @ + (left - remaining(asset, left))]
        ELSE dust_lost

\* A signature is over a nonce and the call, and must be the beneficiary's.
signature_valid(request) ==
    \/ request.data.signer = None
    \/ request.data.signer = request.to /\ request.data.nonce = account_nonce[request.to]

call_origin(request) ==
    IF request.data.signer = None THEN request.from ELSE request.to

\* The call that comes along is a transfer of native currency here.  If it
\* cannot be dispatched, nothing of the request is done.  The release closes no
\* account, but the call may close one, also one that the release opened.
on_accept(request) ==
    LET paid == after_release(request, request.to)
        call == request.data
        origin == call_origin(request)
        spent == transfer(paid, NativeAssetId, origin, call.payee, call.amount)
        closed == reaped(paid, spent)
    IN  /\ request \in requests /\ ~request.outgoing
        /\ can_release(request, request.to)
        /\ \/ /\ call = None
              /\ balances' = paid
              /\ UNCHANGED <<account_nonce, executed>>
           \/ /\ call # None
              /\ signature_valid(request)
              /\ call.amount <= paid[NativeAssetId][origin]
              /\ paid[NativeAssetId][call.payee] + call.amount >= MinBalance[NativeAssetId]
              /\ balances' = spent
              /\ account_nonce' = inc_account_nonce(kill_accounts(account_nonce, closed), origin)
              /\ executed' = forget_executed(
                    IF call.signer = None THEN executed
                    ELSE [executed EXCEPT ![origin][call.nonce] = @ + 1], closed)
        /\ dust_lost' = dust_after_release(request)
        /\ requests' = requests \ {request}
        /\ UNCHANGED <<tables, dispatched, abroad, overwritten>>

\* Variant: the recipient gets the refund.
on_timeout_to_recipient(request) ==
    /\ request \in requests /\ request.outgoing
    /\ can_release(request, request.to)
    /\ balances' = after_release(request, request.to)
    /\ dust_lost' = dust_after_release(request)
    /\ requests' = requests \ {request}
    /\ UNCHANGED <<tables, account_nonce, dispatched, abroad, executed, overwritten>>

on_timeout(request) ==
    /\ request \in requests /\ request.outgoing
    /\ can_release(request, request.from)
    /\ balances' = after_release(request, request.from)
    /\ dust_lost' = dust_after_release(request)
    /\ requests' = requests \ {request}
    /\ UNCHANGED <<tables, account_nonce, dispatched, abroad, executed, overwritten>>

-----------------------------------------------------------------------------
(* The contracts abroad.  One that wraps releases only what it has locked. *)

remote_accept(request) ==
    LET total == abroad[request.chain][request.contract] + request.amount
    IN  /\ request \in requests /\ request.outgoing
        /\ Token[request.contract].wraps => total <= 0
        /\ abroad' = [abroad EXCEPT ![request.chain][request.contract] = total]
        /\ requests' = requests \ {request}
        /\ UNCHANGED <<tables, balances, account_nonce, dispatched, executed,
                       overwritten, dust_lost>>

\* A request that on_accept does not take can time out, and is refunded abroad.
remote_timeout(request) ==
    /\ request \in requests /\ ~request.outgoing
    /\ abroad' = [abroad EXCEPT ![request.chain][request.contract] = @ + request.amount]
    /\ requests' = requests \ {request}
    /\ UNCHANGED <<tables, balances, account_nonce, dispatched, executed,
                   overwritten, dust_lost>>

remote_send(chain, contract, from, to, amount, data) ==
    LET total == abroad[chain][contract] - amount
    IN  /\ dispatched < MaxRequests
        /\ total >= IF Token[contract].wraps THEN -Collateral ELSE 0
        /\ abroad' = [abroad EXCEPT ![chain][contract] = total]
        /\ requests' = requests \cup {[
                nonce |-> dispatched, outgoing |-> FALSE, chain |-> chain,
                contract |-> contract, from |-> from, to |-> to,
                amount |-> amount, data |-> data]}
        /\ dispatched' = dispatched + 1
        /\ UNCHANGED <<tables, balances, account_nonce, executed, overwritten, dust_lost>>

-----------------------------------------------------------------------------
Init ==
    /\ TokenContracts = [c \in StateMachines |-> [a \in Assets |-> None]]
    /\ ContractToAsset = [c \in StateMachines |-> [k \in Contracts |-> None]]
    /\ NativeAssets = [a \in Assets |-> FALSE]
    /\ Precisions = [a \in Assets |-> [c \in StateMachines |-> None]]
    /\ balances = [a \in Assets |-> [h \in Holders |->
                        IF h = pallet_account THEN 0 ELSE Endowment[a][h]]]
    /\ account_nonce = [u \in Users |-> 0]
    /\ requests = {}
    /\ dispatched = 0
    /\ abroad = [c \in StateMachines |-> [k \in Contracts |-> 0]]
    /\ executed = [u \in Users |-> [n \in 0 .. MaxRequests |-> 0]]
    /\ overwritten = {}
    /\ dust_lost = [a \in Assets |-> 0]

Next ==
    \/ \E who, to \in Users, a \in Assets, c \in StateMachines, x \in Amounts, fee \in Fees :
          send(who, a, c, to, x, fee)
    \/ \E registration \in Registrations : register_token(registration)
    \/ \E update \in Updates : update_token(update)
    \/ \E r \in requests : on_accept(r) \/ on_timeout(r) \/ remote_accept(r) \/ remote_timeout(r)
    \/ \E c \in StateMachines, k \in Contracts, from, to \in Users, x \in RemoteAmounts,
          data \in Calldata : remote_send(c, k, from, to, x, data)

Spec == Init /\ [][Next]_vars

-----------------------------------------------------------------------------
(* Properties.                                                             *)

\* What a contract, or a request to or from it, can still claim here, in its
\* own decimals; negative if it owes.
Claim(chain, contract) ==
    LET open == {r \in requests : r.chain = chain /\ r.contract = contract}
    IN  abroad[chain][contract]
        + SumFunctionOnSet([r \in open |-> r.amount], open)

\* The claims of all contracts of an asset, in units of the most precise one.
Claims(asset, unit) ==
    LET routes == {r \in StateMachines \X Contracts : Token[r[2]].asset = asset}
    IN  SumFunctionOnSet(
            [r \in routes |->
                Claim(r[1], r[2]) * (unit \div scale(Token[r[2]].decimals, Decimals[asset]))],
            routes)

Unit(asset) ==
    LET scales == {scale(Token[k].decimals, Decimals[asset]) :
                        k \in {k \in Contracts : Token[k].asset = asset}}
    IN  CHOOSE s \in scales \cup {1} : \A t \in scales : t <= s

\* Custody covers every claim on a native asset: what is abroad, and what is
\* under way in either direction and may come back or be refunded.  It is short
\* of no more than it lost as dust.  Of another asset, no more circulates here
\* than its contracts have locked.
Covered ==
    \A a \in Assets :
        LET claims == Claims(a, Unit(a))
            minted == SumFunctionOnSet(balances[a], Holders)
            wrapped == \E k \in Contracts : Token[k].asset = a /\ Token[k].wraps
        IN  IF wrapped THEN minted * Unit(a) + claims <= 0
            ELSE claims <= (balances[a][pallet_account] + dust_lost[a]) * Unit(a)

\* on_accept, on_timeout and send convert amounts between decimals and never
\* give out more than came in, as long as no registration replaced the contract
\* of a route: register_token leaves the old contract in ContractToAsset, and
\* what comes from it is then converted with the decimals of the new one.
Backed == overwritten = {} => Covered

\* lib.rs:106: ContractToAsset is the "Reverse lookup: (StateMachine, contract
\* address bytes) to local asset ID".  However tokens are registered and
\* updated, the contract of a route is found there and has decimals.  On a route
\* whose contract no registration replaced, no other contract is found: what
\* update_token replaces or removes is gone.
RoutesAgree ==
    \A c \in StateMachines, a \in Assets :
        /\ \A k \in Contracts : TokenContracts[c][a] = k => ContractToAsset[c][k] = a
        /\ TokenContracts[c][a] = None <=> Precisions[a][c] = None
        /\ <<c, a>> \notin overwritten =>
              \A k \in Contracts : ContractToAsset[c][k] = a => TokenContracts[c][a] = k

\* The requests that a step ends without their arriving abroad are refunded to
\* the one who sent them, to the last unit.
RefundsInFull ==
    \A r \in requests \ requests' :
        r.outgoing /\ abroad' = abroad =>
            LET token == Token[r.contract]
            IN  (balances'[token.asset][r.from] - balances[token.asset][r.from])
                    * scale(token.decimals, Decimals[token.asset]) = r.amount

\* A request that was not delivered goes back in full to the one who sent it,
\* also after the token's chains were updated: on_timeout finds the tables such
\* that it computes the amount that send took, as long as no registration
\* replaced the contract of a route.
RefundIsExact == [][overwritten = {} => RefundsInFull]_vars

\* A signature lets at most one call through as long as the signer's account
\* is there, however often the signed call is sent: on_accept uses up the nonce
\* it is for, after the call, and the signer's own transactions use up nonces.
SignedCallOnce == \A u \in Users, n \in 0 .. MaxRequests : executed[u][n] <= 1

\* tests.rs:377, ismp_timeout_refunds_native_tokens_to_original_sender: as long
\* as a request is under way, its timeout can be handled, if the refund does not
\* leave the sender below the minimum balance, custody has lost none of the
\* asset as dust, and no registration replaced the contract of a route.  The
\* route is still there, the amount converts back, and custody has it.
RefundPossible ==
    \A r \in requests :
        LET token == Token[r.contract]
            refund == convert_to_balance(r.amount, token.decimals, Decimals[token.asset])
        IN  /\ r.outgoing /\ can_receive(token.asset, r.from, refund)
            /\ dust_lost[token.asset] = 0 /\ overwritten = {}
            => can_release(r, r.from)
=============================================================================
