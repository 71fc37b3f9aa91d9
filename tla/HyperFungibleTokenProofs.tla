---------------------- MODULE HyperFungibleTokenProofs ----------------------
(***************************************************************************)
(* What pallet-hyper-fungible-token keeps, for all assets, chains,         *)
(* contracts, amounts, registrations and updates: the tables stay inverse  *)
(* to each other, and a signature lets one call through.  Then the lemmas  *)
(* on conversions, balances and claims that CustodyProofs rests on.        *)
(***************************************************************************)
EXTENDS HyperFungibleToken, BalancesProofs, TLAPS

\* Zenon proves most leaves; a leaf that needs arithmetic or functions says SMTT.
USE Zenon

TablesTyped ==
    /\ TokenContracts \in [StateMachines -> [Assets -> Contracts \cup {None}]]
    /\ ContractToAsset \in [StateMachines -> [Contracts -> Assets \cup {None}]]
    /\ Precisions \in [Assets -> [StateMachines -> Nat \cup {None}]]

\* A contract is only ever looked up, or sent to, as the asset it is for, so
\* that an insertion cannot take over the route of another asset.
ContractsKeepAsset ==
    \A c \in StateMachines, k \in Contracts :
        /\ ContractToAsset[c][k] \in {None, Token[k].asset}
        /\ \A a \in Assets : TokenContracts[c][a] = k => Token[k].asset = a

TableInv == TablesTyped /\ ContractsKeepAsset

IInv == TableInv /\ RoutesAgree

-----------------------------------------------------------------------------
\* No route exists at genesis.
LEMMA InitHolds == Init => IInv
BY ConfigurationAssumption, SMTT(30)
DEF Init, IInv, TableInv, TablesTyped, ContractsKeepAsset, RoutesAgree

\* The insertions of register_token and update_token, entry by entry.
LEMMA InsertedContracts ==
    ASSUME NEW contracts \in [StateMachines -> [Assets -> Contracts \cup {None}]],
           NEW asset \in Assets, NEW chains, ChainConfigs(chains, asset)
    PROVE  /\ insert_contracts(contracts, asset, chains)
                \in [StateMachines -> [Assets -> Contracts \cup {None}]]
           /\ \A c \in StateMachines, a \in Assets :
                 insert_contracts(contracts, asset, chains)[c][a] =
                    IF a = asset /\ c \in DOMAIN chains THEN chains[c].token_contract
                    ELSE contracts[c][a]
BY DEF insert_contracts, ChainConfigs

\* Likewise for the reverse table.
LEMMA InsertedAssets ==
    ASSUME NEW assets \in [StateMachines -> [Contracts -> Assets \cup {None}]],
           NEW asset \in Assets, NEW chains
    PROVE  /\ insert_assets(assets, asset, chains)
                \in [StateMachines -> [Contracts -> Assets \cup {None}]]
           /\ \A c \in StateMachines, k \in Contracts :
                 insert_assets(assets, asset, chains)[c][k] =
                    IF c \in DOMAIN chains /\ chains[c].token_contract = k THEN asset
                    ELSE assets[c][k]
BY DEF insert_assets

\* And for the decimals.
LEMMA InsertedPrecisions ==
    ASSUME NEW precisions \in [Assets -> [StateMachines -> Nat \cup {None}]],
           NEW asset \in Assets, NEW chains, ChainConfigs(chains, asset)
    PROVE  /\ insert_precisions(precisions, asset, chains)
                \in [Assets -> [StateMachines -> Nat \cup {None}]]
           /\ \A c \in StateMachines, a \in Assets :
                 insert_precisions(precisions, asset, chains)[a][c] =
                    IF a = asset /\ c \in DOMAIN chains THEN chains[c].decimals
                    ELSE precisions[a][c]
BY DEF insert_precisions, ChainConfigs

\* register_token; what it leaves behind of a contract is on a route it notes.
LEMMA RegisterHolds ==
    ASSUME TableInv, NEW registration \in Registrations, register_token(registration)
    PROVE  TableInv' /\ (RoutesAgree => RoutesAgree')
<1> DEFINE asset == registration.local_id
           chains == registration.chains
<1>1. asset \in Assets /\ ChainConfigs(chains, asset)
  BY ConfigurationAssumption
<1>2. /\ TokenContracts' \in [StateMachines -> [Assets -> Contracts \cup {None}]]
      /\ \A c \in StateMachines, a \in Assets :
            TokenContracts'[c][a] = IF a = asset /\ c \in DOMAIN chains
                                    THEN chains[c].token_contract ELSE TokenContracts[c][a]
  BY <1>1, InsertedContracts, SMTT(30) DEF TableInv, TablesTyped, register_token
<1>3. /\ ContractToAsset' \in [StateMachines -> [Contracts -> Assets \cup {None}]]
      /\ \A c \in StateMachines, k \in Contracts :
            ContractToAsset'[c][k] = IF c \in DOMAIN chains /\ chains[c].token_contract = k
                                     THEN asset ELSE ContractToAsset[c][k]
  BY <1>1, InsertedAssets, SMTT(30) DEF TableInv, TablesTyped, register_token
<1>4. /\ Precisions' \in [Assets -> [StateMachines -> Nat \cup {None}]]
      /\ \A c \in StateMachines, a \in Assets :
            Precisions'[a][c] = IF a = asset /\ c \in DOMAIN chains
                                THEN chains[c].decimals ELSE Precisions[a][c]
  BY <1>1, InsertedPrecisions, SMTT(30) DEF TableInv, TablesTyped, register_token
<1>6. ContractsKeepAsset'
  <2> SUFFICES ASSUME NEW c \in StateMachines, NEW k \in Contracts
               PROVE  /\ ContractToAsset'[c][k] \in {None, Token[k].asset}
                      /\ \A a \in Assets : TokenContracts'[c][a] = k => Token[k].asset = a
    BY DEF ContractsKeepAsset
  <2>3. ASSUME NEW a \in Assets, TokenContracts'[c][a] = k PROVE Token[k].asset = a
    BY <1>1, <1>2, <2>3, SMTT(30) DEF TableInv, ContractsKeepAsset, ChainConfigs
  <2> QED
    BY <1>3, <1>1, <2>3, SMTT(30) DEF TableInv, ContractsKeepAsset, ChainConfigs
<1>7. ASSUME RoutesAgree PROVE RoutesAgree'
  <2> SUFFICES ASSUME NEW c \in StateMachines, NEW a \in Assets
               PROVE  /\ \A k \in Contracts :
                            TokenContracts'[c][a] = k => ContractToAsset'[c][k] = a
                      /\ TokenContracts'[c][a] = None <=> Precisions'[a][c] = None
                      /\ <<c, a>> \notin overwritten' =>
                            \A k \in Contracts :
                                ContractToAsset'[c][k] = a => TokenContracts'[c][a] = k
    BY DEF RoutesAgree
  <2>1. <<c, a>> \notin overwritten' =>
            /\ <<c, a>> \notin overwritten
            /\ a = asset /\ c \in DOMAIN chains =>
                  TokenContracts[c][a] \in {None, chains[c].token_contract}
    BY DEF register_token, replaced_routes
  <2>2. /\ \A k \in Contracts : TokenContracts[c][a] = k => ContractToAsset[c][k] = a
        /\ TokenContracts[c][a] = None <=> Precisions[a][c] = None
        /\ <<c, a>> \notin overwritten =>
              \A k \in Contracts : ContractToAsset[c][k] = a => TokenContracts[c][a] = k
    BY <1>7 DEF RoutesAgree
  <2>3. CASE c \notin DOMAIN chains
    <3>1. TokenContracts'[c][a] = TokenContracts[c][a]
      BY <1>2, <2>3
    <3> QED
      BY <2>1, <2>2, <3>1, <1>3, <2>3, <1>4, SMTT(30)
  <2>4. CASE c \in DOMAIN chains
    <3>4. /\ TokenContracts'[c][a] =
                IF a = asset THEN chains[c].token_contract ELSE TokenContracts[c][a]
          /\ Precisions'[a][c] = IF a = asset THEN chains[c].decimals ELSE Precisions[a][c]
          /\ \A k \in Contracts :
                ContractToAsset'[c][k] =
                    IF chains[c].token_contract = k THEN asset ELSE ContractToAsset[c][k]
      BY <1>2, <1>3, <1>4, <2>4, SMTT(30)
    <3>5. CASE a = asset
      BY ConfigurationAssumption, <2>1, <2>2, <2>4, <3>4, <3>5, SMTT(30) DEF ChainConfigs
    <3>6. CASE a # asset
      BY ConfigurationAssumption, <2>1, <2>2, <2>4, <3>4, <3>6, SMTT(30)
         DEF TableInv, ContractsKeepAsset, ChainConfigs
    <3> QED
      BY <3>5, <3>6
  <2> QED
    BY <2>3, <2>4
<1> QED
  BY <1>2, <1>3, <1>4, <1>6, <1>7 DEF TableInv, TablesTyped

\* update_token: the old contract of a chain gives way to the new one, and the
\* contracts of removed chains go, in all three tables.
LEMMA UpdateHolds ==
    ASSUME TableInv, NEW update \in Updates, update_token(update)
    PROVE  TableInv' /\ (RoutesAgree => RoutesAgree')
<1> DEFINE asset == update.asset_id
           add == update.add_chains
           gone == update.remove_chains
           cleared == remove_old_contracts(ContractToAsset, TokenContracts, asset, DOMAIN add)
           contracts == insert_contracts(TokenContracts, asset, add)
           assets == insert_assets(cleared, asset, add)
           precisions == insert_precisions(Precisions, asset, add)
<1>1. asset \in Assets /\ ChainConfigs(add, asset)
  BY ConfigurationAssumption
<1>2. /\ cleared \in [StateMachines -> [Contracts -> Assets \cup {None}]]
      /\ \A c \in StateMachines, k \in Contracts :
            cleared[c][k] = IF c \in DOMAIN add /\ TokenContracts[c][asset] = k
                            THEN None ELSE ContractToAsset[c][k]
  BY DEF TableInv, TablesTyped, remove_old_contracts
<1> HIDE DEF cleared
<1>3. /\ contracts \in [StateMachines -> [Assets -> Contracts \cup {None}]]
      /\ \A c \in StateMachines, a \in Assets :
            contracts[c][a] = IF a = asset /\ c \in DOMAIN add
                              THEN add[c].token_contract ELSE TokenContracts[c][a]
  BY <1>1, InsertedContracts, SMTT(30) DEF TableInv, TablesTyped
<1>4. /\ assets \in [StateMachines -> [Contracts -> Assets \cup {None}]]
       /\ \A c \in StateMachines, k \in Contracts :
            assets[c][k] = IF c \in DOMAIN add /\ add[c].token_contract = k
                           THEN asset ELSE cleared[c][k]
  BY <1>1, <1>2, InsertedAssets, SMTT(30)
<1>5. /\ precisions \in [Assets -> [StateMachines -> Nat \cup {None}]]
       /\ \A c \in StateMachines, a \in Assets :
            precisions[a][c] = IF a = asset /\ c \in DOMAIN add
                               THEN add[c].decimals ELSE Precisions[a][c]
  BY <1>1, InsertedPrecisions, SMTT(30) DEF TableInv, TablesTyped
<1> HIDE DEF contracts, assets, precisions
<1>6. /\ TokenContracts' = [c \in StateMachines |-> [contracts[c] EXCEPT ![asset] =
                IF c \in gone THEN None ELSE @]]
      /\ Precisions' = [precisions EXCEPT ![asset] =
                [c \in StateMachines |-> IF c \in gone THEN None ELSE @[c]]]
      /\ ContractToAsset' = remove_old_contracts(assets, contracts, asset, gone)
  BY DEF update_token, cleared, contracts, assets, precisions
<1>8. /\ \A c \in StateMachines, a \in Assets :
            /\ TokenContracts'[c][a] = IF a = asset /\ c \in gone THEN None ELSE contracts[c][a]
            /\ Precisions'[a][c] = IF a = asset /\ c \in gone THEN None ELSE precisions[a][c]
      /\ \A c \in StateMachines, k \in Contracts :
            ContractToAsset'[c][k] = IF c \in gone /\ contracts[c][asset] = k
                                     THEN None ELSE assets[c][k]
  BY <1>3, <1>5, <1>6 DEF remove_old_contracts
<1>9. \A c \in DOMAIN add : /\ c \in StateMachines /\ add[c].token_contract \in Contracts
                            /\ add[c].decimals \in Nat
                            /\ Token[add[c].token_contract].asset = asset
  BY <1>1 DEF ChainConfigs
<1>10. ContractsKeepAsset'
  <2> SUFFICES ASSUME NEW c \in StateMachines, NEW k \in Contracts
               PROVE  /\ ContractToAsset'[c][k] \in {None, Token[k].asset}
                      /\ \A a \in Assets : TokenContracts'[c][a] = k => Token[k].asset = a
    BY DEF ContractsKeepAsset
  <2>4. ASSUME NEW a \in Assets, TokenContracts'[c][a] = k PROVE Token[k].asset = a
    BY ConfigurationAssumption, <1>8, <2>4, <1>3, <1>9, SMTT(30)
       DEF TableInv, ContractsKeepAsset
  <2> QED
    BY <1>8, <1>4, <1>9, <1>2, <2>4, SMTT(30) DEF TableInv, ContractsKeepAsset
<1>11. ASSUME RoutesAgree PROVE RoutesAgree'
  <2>1. overwritten' = overwritten
    BY DEF update_token
  <2> SUFFICES ASSUME NEW c \in StateMachines, NEW a \in Assets
               PROVE  /\ \A k \in Contracts :
                            TokenContracts'[c][a] = k => ContractToAsset'[c][k] = a
                      /\ TokenContracts'[c][a] = None <=> Precisions'[a][c] = None
                      /\ <<c, a>> \notin overwritten =>
                            \A k \in Contracts :
                                ContractToAsset'[c][k] = a => TokenContracts'[c][a] = k
    BY <2>1 DEF RoutesAgree
  <2>2. /\ \A k \in Contracts : TokenContracts[c][a] = k => ContractToAsset[c][k] = a
        /\ \A k \in Contracts : TokenContracts[c][asset] = k => ContractToAsset[c][k] = asset
        /\ TokenContracts[c][a] = None <=> Precisions[a][c] = None
        /\ <<c, a>> \notin overwritten =>
              \A k \in Contracts : ContractToAsset[c][k] = a => TokenContracts[c][a] = k
    BY <1>1, <1>11 DEF RoutesAgree
  <2>3. \A k \in Contracts : ContractToAsset[c][k] \in {None, Token[k].asset}
    BY DEF TableInv, ContractsKeepAsset
  <2>4. /\ \A x \in Assets :
              /\ contracts[c][x] = IF x = asset /\ c \in DOMAIN add
                                   THEN add[c].token_contract ELSE TokenContracts[c][x]
              /\ precisions[x][c] = IF x = asset /\ c \in DOMAIN add
                                    THEN add[c].decimals ELSE Precisions[x][c]
        /\ \A k \in Contracts :
              assets[c][k] = IF c \in DOMAIN add /\ add[c].token_contract = k THEN asset
                             ELSE IF c \in DOMAIN add /\ TokenContracts[c][asset] = k THEN None
                             ELSE ContractToAsset[c][k]
    BY <1>2, <1>3, <1>4, <1>5, SMTT(30)
  <2>5. /\ \A k \in Contracts : contracts[c][a] = k => assets[c][k] = a
        /\ \A k \in Contracts : contracts[c][asset] = k => assets[c][k] = asset
        /\ contracts[c][a] = None <=> precisions[a][c] = None
        /\ <<c, a>> \notin overwritten =>
              \A k \in Contracts : assets[c][k] = a => contracts[c][a] = k
    BY <2>2, <2>4, <2>3, <1>9, ConfigurationAssumption, SMTT(30)
  <2> QED
    BY <1>8, <2>5, ConfigurationAssumption, SMTT(30)
<1> QED
  BY <1>1, <1>3, <1>4, <1>5, <1>6, <1>10, <1>11, SMTT(30) DEF TableInv, remove_old_contracts,
     TablesTyped

\* Nothing but register_token and update_token writes the tables.
LEMMA StepHolds == IInv /\ [Next]_vars => IInv'
<1> SUFFICES ASSUME IInv, [Next]_vars PROVE IInv'
  OBVIOUS
<1>1. ASSUME UNCHANGED <<tables, overwritten>> PROVE IInv'
  BY <1>1, SMTT(30) DEF tables, IInv, TableInv, TablesTyped, ContractsKeepAsset, RoutesAgree
<1>2. ASSUME NEW registration \in Registrations, register_token(registration)
      PROVE  IInv'
  BY <1>2, RegisterHolds DEF IInv
<1>3. ASSUME NEW update \in Updates, update_token(update) PROVE IInv'
  BY <1>3, UpdateHolds DEF IInv
<1>4. ASSUME NEW r \in requests,
             on_accept(r) \/ on_timeout(r) \/ remote_accept(r) \/ remote_timeout(r)
      PROVE  UNCHANGED <<tables, overwritten>>
  BY <1>4 DEF on_accept, on_timeout, remote_accept, remote_timeout
<1>5. ASSUME NEW who \in Users, NEW to \in Users, NEW a \in Assets, NEW c \in StateMachines,
             NEW x \in Amounts, NEW fee \in Fees, send(who, a, c, to, x, fee)
      PROVE  UNCHANGED <<tables, overwritten>>
  BY <1>5 DEF send
<1>6. ASSUME NEW c \in StateMachines, NEW k \in Contracts, NEW from \in Users, NEW to \in Users,
             NEW x \in RemoteAmounts, NEW data \in Calldata,
             remote_send(c, k, from, to, x, data)
      PROVE  UNCHANGED <<tables, overwritten>>
  BY <1>6 DEF remote_send
<1>7. CASE UNCHANGED vars
  BY <1>1, <1>7 DEF vars
<1> QED
  BY <1>1, <1>2, <1>3, <1>4, <1>5, <1>6, <1>7 DEF Next

-----------------------------------------------------------------------------
\* The reverse table (lib.rs:106) stays the reverse of TokenContracts on every
\* route whose contract register_token (lib.rs:297) did not replace, has the
\* contract of every route, and a route has decimals exactly while it exists,
\* for all registrations and updates.
THEOREM RoutesStayInverse == Spec => []RoutesAgree
<1>1. IInv => RoutesAgree
  BY DEF IInv
<1>2. IInv /\ [Next]_vars => IInv'
  BY StepHolds
<1> QED
  BY <1>1, <1>2, InitHolds, PTL DEF Spec

-----------------------------------------------------------------------------
(* The routes are configured.                                              *)

\* Of a wrapped asset the original is locked abroad.
Wrapped(a) == \E k \in Contracts : Token[k].asset = a /\ Token[k].wraps

\* A route has the decimals of its contract, and an asset that has a route is
\* in custody here exactly if its original is not wrapped abroad.
Configured ==
    \A c \in StateMachines, a \in Assets, k \in Contracts :
        TokenContracts[c][a] = k \/ ContractToAsset[c][k] = a =>
            /\ Precisions[a][c] = Token[k].decimals
            /\ is_native(a) <=> ~Wrapped(a)

\* Those who register and update tokens give the decimals of the contract, and
\* say of a token whether its original is here.  They update a token only if
\* it needs no registration for that.
TrueChains(chains) ==
    \A c \in DOMAIN chains : chains[c].decimals = Token[chains[c].token_contract].decimals

WellConfigured ==
    /\ \A r \in Registrations :
          /\ TrueChains(r.chains) /\ r.native \in BOOLEAN
          /\ (r.local_id = NativeAssetId \/ r.native) <=> ~Wrapped(r.local_id)
    /\ \A u \in Updates :
          TrueChains(u.add_chains) /\ (u.asset_id = NativeAssetId <=> ~Wrapped(u.asset_id))

\* A route has the decimals of its contract and the right custody, and no
\* wrapped token is in custody.
ConfiguredInv ==
    /\ NativeAssets \in [Assets -> BOOLEAN]
    /\ \A a \in Assets : NativeAssets[a] /\ a # NativeAssetId => ~Wrapped(a)
    /\ \A c \in StateMachines, a \in Assets, k \in Contracts :
          TokenContracts[c][a] = k =>
            Precisions[a][c] = Token[k].decimals /\ (is_native(a) <=> ~Wrapped(a))

\* register_token and update_token, entry by entry.
LEMMA ConfiguredHolds ==
    ASSUME WellConfigured, TableInv, ConfiguredInv, [Next]_vars
    PROVE  ConfiguredInv'
<1>1. ASSUME UNCHANGED tables PROVE ConfiguredInv'
  BY <1>1, SMTT(30) DEF ConfiguredInv, tables, is_native
<1>2. ASSUME NEW registration \in Registrations, register_token(registration)
      PROVE  ConfiguredInv'
  <2> DEFINE asset == registration.local_id
             chains == registration.chains
  <2>1. asset \in Assets /\ ChainConfigs(chains, asset) /\ registration.native \in BOOLEAN
    BY ConfigurationAssumption DEF WellConfigured
  <2>2. \A c \in StateMachines, a \in Assets :
           TokenContracts'[c][a] = IF a = asset /\ c \in DOMAIN chains
                                   THEN chains[c].token_contract ELSE TokenContracts[c][a]
    <3>1. /\ TokenContracts' = insert_contracts(TokenContracts, asset, chains)
          /\ TokenContracts \in [StateMachines -> [Assets -> Contracts \cup {None}]]
      BY <1>2 DEF TableInv, TablesTyped, register_token
    <3> QED BY <2>1, <3>1, InsertedContracts, SMTT(30)
  <2>3. \A c \in StateMachines, a \in Assets :
           Precisions'[a][c] = IF a = asset /\ c \in DOMAIN chains
                               THEN chains[c].decimals ELSE Precisions[a][c]
    BY <1>2, <2>1, InsertedPrecisions, SMTT(30) DEF TableInv, TablesTyped, register_token
  <2>7. ASSUME NEW c \in StateMachines, NEW a \in Assets, NEW k \in Contracts,
               TokenContracts'[c][a] = k
        PROVE  Precisions'[a][c] = Token[k].decimals /\ (is_native(a)' <=> ~Wrapped(a))
    BY <1>2, <2>2, <2>3, <2>7, SMTT(30)
       DEF is_native, WellConfigured, TrueChains, ConfiguredInv,
       register_token
  <2> QED BY <1>2, <2>1, <2>7 DEF ConfiguredInv, WellConfigured, register_token
<1>3. ASSUME NEW update \in Updates, update_token(update) PROVE ConfiguredInv'
  <2> DEFINE asset == update.asset_id
             add == update.add_chains
             gone == update.remove_chains
             contracts == insert_contracts(TokenContracts, asset, add)
             precisions == insert_precisions(Precisions, asset, add)
  <2>1. asset \in Assets /\ ChainConfigs(add, asset) /\ UNCHANGED NativeAssets
    BY <1>3, ConfigurationAssumption DEF update_token
  <2>2. /\ contracts \in [StateMachines -> [Assets -> Contracts \cup {None}]]
        /\ \A c \in StateMachines, a \in Assets :
              contracts[c][a] = IF a = asset /\ c \in DOMAIN add
                                THEN add[c].token_contract ELSE TokenContracts[c][a]
    BY <2>1, InsertedContracts, SMTT(30) DEF TableInv, TablesTyped
  <2>3. /\ precisions \in [Assets -> [StateMachines -> Nat \cup {None}]]
        /\ \A c \in StateMachines, a \in Assets :
              precisions[a][c] = IF a = asset /\ c \in DOMAIN add
                                 THEN add[c].decimals ELSE Precisions[a][c]
    BY <2>1, InsertedPrecisions, SMTT(30) DEF TableInv, TablesTyped
  <2> HIDE DEF contracts, precisions
  <2>6. ASSUME NEW c \in StateMachines, NEW a \in Assets, NEW k \in Contracts,
               TokenContracts'[c][a] = k
        PROVE  Precisions'[a][c] = Token[k].decimals /\ (is_native(a)' <=> ~Wrapped(a))
    <3>2. contracts[c][a] = k /\ Precisions'[a][c] = precisions[a][c]
      BY <2>2, <1>3, <2>6, ConfigurationAssumption, SMTT(30)
         DEF update_token, contracts, precisions
    <3>4. CASE a = asset /\ c \in DOMAIN add
      <4>1. /\ Token[k].decimals = add[c].decimals
            /\ asset = NativeAssetId <=> ~Wrapped(asset)
        BY <2>2, <3>2, <3>4, SMTT(30) DEF WellConfigured, TrueChains
      <4> QED BY <2>3, <3>2, <2>1, <3>4, <4>1 DEF is_native, ConfiguredInv
    <3>5. CASE ~(a = asset /\ c \in DOMAIN add)
      BY <2>1, <2>2, <2>3, <3>2, <3>5, SMTT(30) DEF ConfiguredInv, is_native
    <3> QED BY <3>4, <3>5
  <2> QED BY <2>1, <2>6 DEF ConfiguredInv
<1>4. ASSUME NEW r \in requests,
             on_accept(r) \/ on_timeout(r) \/ remote_accept(r) \/ remote_timeout(r)
      PROVE  UNCHANGED tables
  BY <1>4 DEF on_accept, on_timeout, remote_accept, remote_timeout
<1>5. ASSUME NEW who \in Users, NEW to \in Users, NEW a \in Assets, NEW c \in StateMachines,
             NEW x \in Amounts, NEW fee \in Fees, send(who, a, c, to, x, fee)
      PROVE  UNCHANGED tables
  BY <1>5 DEF send
<1>6. ASSUME NEW c \in StateMachines, NEW k \in Contracts, NEW from \in Users, NEW to \in Users,
             NEW x \in RemoteAmounts, NEW data \in Calldata,
             remote_send(c, k, from, to, x, data)
      PROVE  UNCHANGED tables
  BY <1>6 DEF remote_send
<1>7. CASE UNCHANGED vars
  BY <1>1, <1>7 DEF vars
<1> QED BY <1>1, <1>2, <1>3, <1>4, <1>5, <1>6, <1>7 DEF Next

\* A route that is found only from the contract it has.
LEMMA RoutesConfigured ==
    ASSUME RoutesAgree, ConfiguredInv, overwritten = {} PROVE Configured
BY SMTT(30) DEF RoutesAgree, ConfiguredInv, Configured

\* register_token only adds to the routes it replaced, and nothing else does.
LEMMA OverwrittenGrows == [Next]_vars => overwritten \subseteq overwritten'
<1> SUFFICES ASSUME [Next]_vars PROVE overwritten \subseteq overwritten'
  OBVIOUS
<1>1. ASSUME NEW registration \in Registrations, register_token(registration)
      PROVE  overwritten \subseteq overwritten'
  BY <1>1 DEF register_token
<1>2. ASSUME NEW update \in Updates, update_token(update)
      PROVE  overwritten \subseteq overwritten'
  BY <1>2 DEF update_token
<1>3. ASSUME NEW r \in requests,
             on_accept(r) \/ on_timeout(r) \/ remote_accept(r) \/ remote_timeout(r)
      PROVE  overwritten \subseteq overwritten'
  BY <1>3 DEF on_accept, on_timeout, remote_accept, remote_timeout
<1>4. ASSUME NEW who \in Users, NEW to \in Users, NEW a \in Assets, NEW c \in StateMachines,
             NEW x \in Amounts, NEW fee \in Fees, send(who, a, c, to, x, fee)
      PROVE  overwritten \subseteq overwritten'
  BY <1>4 DEF send
<1>5. ASSUME NEW c \in StateMachines, NEW k \in Contracts, NEW from \in Users, NEW to \in Users,
             NEW x \in RemoteAmounts, NEW data \in Calldata,
             remote_send(c, k, from, to, x, data)
      PROVE  overwritten \subseteq overwritten'
  BY <1>5 DEF remote_send
<1>6. CASE UNCHANGED vars
  BY <1>6 DEF vars
<1> QED BY <1>1, <1>2, <1>3, <1>4, <1>5, <1>6 DEF Next

\* Routes keep the decimals of their contract and the right custody, if tokens
\* are registered and updated with what their contracts are, as long as no
\* registration replaced the contract of a route: what ClaimsStayBacked and
\* RefundsAreExact rest on can be achieved.
THEOREM RoutesStayConfigured ==
    ASSUME WellConfigured
    PROVE  Spec => [](overwritten = {} => Configured)
<1>1. Init => ConfiguredInv
  BY ConfigurationAssumption, SMTT(30) DEF Init, ConfiguredInv
<1>2. IInv /\ ConfiguredInv /\ [Next]_vars => IInv' /\ ConfiguredInv'
  BY StepHolds, ConfiguredHolds DEF IInv
<1>3. IInv /\ ConfiguredInv => (overwritten = {} => Configured)
  BY RoutesConfigured DEF IInv
<1> QED BY <1>1, <1>2, <1>3, InitHolds, PTL DEF Spec

-----------------------------------------------------------------------------
(* The power of ten.                                                       *)

\* A set of numbers has a least one: induction by a smallest counterexample.
LEMMA LeastNat ==
    ASSUME NEW T, T \subseteq Nat, T # {}
    PROVE  \E i \in T : \A j \in T : i <= j
<1> DEFINE R == {p \in Nat \X Nat : p[1] < p[2]}
<1>1. R = OpToRel(<, Nat)
  BY DEF OpToRel
<1>2. IsWellFoundedOn(R, Nat)
  BY <1>1, NatLessThanWellFounded
<1> HIDE DEF R
<1>3. PICK i \in T : \A j \in T : ~(<<j, i>> \in R)
  BY <1>2, WFMin
<1>4. ASSUME NEW j \in T PROVE i <= j
  <2>1. <<j, i>> \notin R /\ i \in Nat /\ j \in Nat
    BY <1>3
  <2> QED BY <2>1, SMTT(30) DEF R
<1> QED BY <1>4

\* g holds the first n + 1 powers.
Powers(g, n) ==
    /\ g \in [0 .. n -> Nat] /\ g[0] = 1
    /\ \A i \in 1 .. n : g[i] = (10 * g[i - 1]) % 2 ^ Width

\* The powers up to any exponent can be computed.
LEMMA PowersExist == ASSUME NEW n \in Nat PROVE \E g : Powers(g, n)
<1> DEFINE T == {i \in Nat : ~\E g : Powers(g, i)}
<1> SUFFICES ASSUME T # {} PROVE FALSE
  OBVIOUS
<1>1. PICK i \in T : \A j \in T : i <= j
  <2>1. T \subseteq Nat
    OBVIOUS
  <2> HIDE DEF T
  <2> QED BY <2>1, LeastNat
<1>2. i # 0
  <2> DEFINE g == [j \in 0 .. 0 |-> 1]
  <2>1. Powers(g, 0)
    BY SMTT(30) DEF Powers
  <2> QED BY <2>1
<1>3. i - 1 \in Nat /\ i - 1 \notin T
  BY <1>1, <1>2, SMTT(30)
<1>4. PICK g : Powers(g, i - 1)
  BY <1>3
<1> DEFINE h == [j \in 0 .. i |-> IF j = i THEN (10 * g[i - 1]) % 2 ^ Width ELSE g[j]]
<1>7. h \in [0 .. i -> Nat] /\ h[0] = 1
  BY <1>2, <1>4, WidthAssumption, SMTT(30) DEF Powers
<1>8. ASSUME NEW j \in 1 .. i PROVE h[j] = (10 * h[j - 1]) % 2 ^ Width
  BY <1>4, SMTT(30) DEF Powers
<1>9. Powers(h, i)
  BY <1>7, <1>8 DEF Powers
<1> QED BY <1>9

\* And they are the same however far one computes.
LEMMA PowersAgree ==
    ASSUME NEW m \in Nat, NEW n \in Nat, NEW g, NEW h, Powers(g, m), Powers(h, n),
           NEW k \in Nat, k <= m, k <= n
    PROVE  g[k] = h[k]
<1> DEFINE T == {i \in Nat : i <= m /\ i <= n /\ g[i] # h[i]}
<1> SUFFICES ASSUME T # {} PROVE FALSE
  OBVIOUS
<1>1. PICK i \in T : \A j \in T : i <= j
  <2>1. T \subseteq Nat
    OBVIOUS
  <2> HIDE DEF T
  <2> QED BY <2>1, LeastNat
<1>2. i # 0
  BY DEF Powers
<1> QED BY <1>2, <1>1, SMTT(30) DEF Powers

\* The recursion of pow10 has a solution, so pow10 is it.
LEMMA Pow10Defined ==
    /\ pow10 \in [Nat -> Nat]
    /\ pow10[0] = 1
    /\ \A n \in Nat \ {0} : pow10[n] = (10 * pow10[n - 1]) % 2 ^ Width
<1> DEFINE t(n) == CHOOSE g : Powers(g, n)
           f == [n \in Nat |-> t(n)[n]]
<1>1. \A n \in Nat : Powers(t(n), n)
  BY PowersExist
<1> HIDE DEF t
<1>3. f[0] = 1
  BY <1>1 DEF Powers
<1>4. ASSUME NEW n \in Nat \ {0} PROVE f[n] = (10 * f[n - 1]) % 2 ^ Width
  <2>3. t(n)[n] = (10 * t(n)[n - 1]) % 2 ^ Width
    BY <1>1, SMTT(30) DEF Powers
  <2> QED BY <2>3, <1>1, PowersAgree, SMTT(30)
<1>5. f = [n \in Nat |-> IF n = 0 THEN 1 ELSE (10 * f[n - 1]) % 2 ^ Width]
  BY <1>3, <1>4
<1> HIDE DEF f
<1>6. pow10 = [n \in Nat |-> IF n = 0 THEN 1 ELSE (10 * pow10[n - 1]) % 2 ^ Width]
  BY <1>5 DEF pow10
<1> DEFINE T == {n \in Nat : pow10[n] \notin Nat}
<1>7. ASSUME T # {} PROVE FALSE
  <2>1. PICK n \in T : \A j \in T : n <= j
    <3>1. T \subseteq Nat
      OBVIOUS
    <3> HIDE DEF T
    <3> QED BY <1>7, <3>1, LeastNat
  <2>2. n # 0
    BY <1>6
  <2>3. n - 1 \in Nat /\ pow10[n - 1] \in Nat
    BY <2>1, <2>2, SMTT(30)
  <2> QED BY <2>3, <1>6, WidthAssumption, SMTT(30)
<1>8. pow10 \in [Nat -> Nat]
  BY <1>6, <1>7
<1> QED BY <1>6, <1>8

\* What amounts are multiplied and divided by.
LEMMA ScaleType ==
    ASSUME NEW erc \in Nat, NEW local \in Nat
    PROVE  scale(erc, local) \in Nat
BY Pow10Defined, SMTT(30) DEF scale

-----------------------------------------------------------------------------
(* Requests and nonces.                                                    *)

Request(r) ==
    /\ r.nonce \in Nat /\ r.nonce < dispatched /\ r.outgoing \in BOOLEAN
    /\ r.chain \in StateMachines /\ r.contract \in Contracts
    /\ r.from \in Users /\ r.to \in Users /\ r.amount \in Nat
    /\ ~r.outgoing => r.data \in Calldata

RequestInv ==
    /\ dispatched \in Nat /\ IsFiniteSet(requests)
    /\ \A r \in requests : Request(r)

\* A nonce that is still to come has let no call through.
NonceInv ==
    /\ account_nonce \in [Users -> Nat]
    /\ executed \in [Users -> [0 .. MaxRequests -> Nat]]
    /\ \A u \in Users, n \in 0 .. MaxRequests :
          executed[u][n] <= IF n < account_nonce[u] THEN 1 ELSE 0

\* The steps that handle a request that is under way.
Handles(r) == on_accept(r) \/ on_timeout(r) \/ remote_accept(r) \/ remote_timeout(r)

\* One new request, which nobody has seen before.
Adds(r) ==
    /\ Request(r)'
    /\ r.nonce = dispatched /\ dispatched' = dispatched + 1
    /\ requests' = requests \cup {r}

\* The request that send dispatches.
Sent(r, who, a, c, to, x) ==
    r = [nonce |-> dispatched, outgoing |-> TRUE, chain |-> c,
         contract |-> TokenContracts[c][a], from |-> who, to |-> to,
         amount |-> convert_to_erc20(x, Precisions[a][c], Decimals[a]), data |-> None]

\* send dispatches one request.
LEMMA SendAdds ==
    ASSUME TableInv, RequestInv, NEW who \in Users, NEW to \in Users, NEW a \in Assets,
           NEW c \in StateMachines, NEW x \in Amounts, NEW fee \in Fees,
           send(who, a, c, to, x, fee), NEW r, Sent(r, who, a, c, to, x)
    PROVE  Adds(r)
<1> DEFINE e == Precisions[a][c]
           k == TokenContracts[c][a]
           y == convert_to_erc20(x, e, Decimals[a])
<1>1. /\ requests' = requests \cup {r} /\ dispatched' = dispatched + 1
      /\ k # None /\ e # None
  BY DEF send, Sent
<1>2. k \in Contracts /\ e \in Nat
  BY <1>1, SMTT(30) DEF TableInv, TablesTyped
<1>3. x \in Nat /\ Decimals[a] \in Nat
  BY HyperFungibleTokenAssumption
<1>4. scale(e, Decimals[a]) \in Nat
  BY <1>2, <1>3, ScaleType
<1>5. y \in Nat
  BY <1>3, <1>4, SMTT(30) DEF convert_to_erc20
<1>6. /\ r.nonce = dispatched /\ r.outgoing = TRUE /\ r.chain = c /\ r.contract = k
      /\ r.from = who /\ r.to = to /\ r.amount = y
  BY DEF Sent
<1> HIDE DEF y, k, e
<1>8. Request(r)'
  <2>2. r.outgoing \in BOOLEAN /\ r.outgoing
    BY <1>6
  <2> QED BY <1>1, <1>6, <2>2, <1>2, <1>5, SMTT(30) DEF Request, RequestInv
<1> QED BY <1>1, <1>6, <1>8 DEF Adds

\* A contract abroad dispatches requests, too.
LEMMA RemoteSendAdds ==
    ASSUME RequestInv, NEW c \in StateMachines, NEW k \in Contracts, NEW from \in Users,
           NEW to \in Users, NEW x \in RemoteAmounts, NEW data \in Calldata,
           remote_send(c, k, from, to, x, data), NEW r,
           r = [nonce |-> dispatched, outgoing |-> FALSE, chain |-> c, contract |-> k,
                from |-> from, to |-> to, amount |-> x, data |-> data]
    PROVE  Adds(r)
BY HyperFungibleTokenAssumption, SMTT(30) DEF remote_send, RequestInv, Request, Adds

\* Both keep what holds of the requests.
LEMMA AddHolds == ASSUME RequestInv, NEW r, Adds(r) PROVE RequestInv'
BY FS_AddElement, SMTT(30) DEF RequestInv, Adds, Request

\* And handling one takes it out.
LEMMA HandleHolds ==
    ASSUME RequestInv, NEW r \in requests, Handles(r)
    PROVE  /\ RequestInv' /\ requests' = requests \ {r}
           /\ UNCHANGED <<tables, dispatched>>
BY FS_Subset DEF Handles, on_accept, on_timeout, remote_accept, remote_timeout, RequestInv,
   Request

\* Tables and requests, in every step.
LEMMA TablesAndRequests == TableInv /\ RequestInv /\ [Next]_vars => TableInv' /\ RequestInv'
<1> SUFFICES ASSUME TableInv, RequestInv, [Next]_vars PROVE TableInv' /\ RequestInv'
  OBVIOUS
<1>1. ASSUME UNCHANGED tables PROVE TableInv'
  BY <1>1, SMTT(30) DEF tables, TableInv, TablesTyped, ContractsKeepAsset
<1>2. ASSUME UNCHANGED <<requests, dispatched>> PROVE RequestInv'
  BY <1>2 DEF RequestInv, Request
<1>3. CASE UNCHANGED vars
  BY <1>1, <1>2, <1>3 DEF vars
<1>4. ASSUME NEW who \in Users, NEW to \in Users, NEW a \in Assets, NEW c \in StateMachines,
             NEW x \in Amounts, NEW fee \in Fees, send(who, a, c, to, x, fee)
      PROVE  TableInv' /\ RequestInv'
  <2>1. PICK r : Sent(r, who, a, c, to, x)
    BY DEF Sent
  <2> QED BY <1>1, <1>4, <2>1, SendAdds, AddHolds DEF send
<1>5. ASSUME NEW registration \in Registrations, register_token(registration)
      PROVE  TableInv' /\ RequestInv'
  <2>1. UNCHANGED <<requests, dispatched>>
    BY <1>5 DEF register_token
  <2> QED BY <1>2, <1>5, <2>1, RegisterHolds
<1>6. ASSUME NEW update \in Updates, update_token(update) PROVE TableInv' /\ RequestInv'
  <2>1. UNCHANGED <<requests, dispatched>>
    BY <1>6 DEF update_token
  <2> QED BY <1>2, <1>6, <2>1, UpdateHolds
<1>7. ASSUME NEW r \in requests, Handles(r) PROVE TableInv' /\ RequestInv'
  BY <1>1, <1>7, HandleHolds
<1>8. ASSUME NEW c \in StateMachines, NEW k \in Contracts, NEW from \in Users, NEW to \in Users,
             NEW x \in RemoteAmounts, NEW data \in Calldata,
             remote_send(c, k, from, to, x, data)
      PROVE  TableInv' /\ RequestInv'
  <2>1. PICK r : r = [nonce |-> dispatched, outgoing |-> FALSE, chain |-> c, contract |-> k,
                      from |-> from, to |-> to, amount |-> x, data |-> data]
    OBVIOUS
  <2>2. Adds(r)
    BY <1>8, <2>1, RemoteSendAdds
  <2> QED BY <1>1, <2>2, <1>8, AddHolds DEF remote_send
<1> QED BY <1>3, <1>4, <1>5, <1>6, <1>7, <1>8 DEF Next, Handles

\* At most the call for the current nonce of who is counted.
CountsOne(counts, who) ==
    \A u \in Users, n \in 0 .. MaxRequests :
        counts[u][n] <= executed[u][n] + IF u = who /\ n = account_nonce[who] THEN 1 ELSE 0

\* who uses up a nonce.
UsesNonce(closed, who) ==
    \A u \in Users : u \notin closed =>
        account_nonce'[u] = account_nonce[u] + IF u = who THEN 1 ELSE 0

\* A signed call that goes through, and any transaction, uses up a nonce; the
\* nonces of an account that is closed start again, and so does the count.
LEMMA NoncesUsed ==
    ASSUME NonceInv, NEW who \in Users, NEW closed,
           NEW counts \in [Users -> [0 .. MaxRequests -> Nat]], CountsOne(counts, who),
           account_nonce' \in [Users -> Nat], UsesNonce(closed, who),
           executed' = [u \in Users |-> [n \in 0 .. MaxRequests |->
                            IF u \in closed THEN 0 ELSE counts[u][n]]]
    PROVE  NonceInv'
<1>1. executed' \in [Users -> [0 .. MaxRequests -> Nat]]
  OBVIOUS
<1>2. ASSUME NEW u \in Users, NEW n \in 0 .. MaxRequests
      PROVE  executed'[u][n] <= IF n < account_nonce'[u] THEN 1 ELSE 0
  <2>1. /\ account_nonce[u] \in Nat /\ account_nonce'[u] \in Nat /\ executed[u][n] \in Nat
        /\ counts[u][n] \in Nat /\ account_nonce[who] \in Nat /\ n \in Int
    <3>3. executed[u][n] \in Nat /\ counts[u][n] \in Nat
      BY DEF NonceInv
    <3> QED BY <3>3, SMTT(30) DEF NonceInv
  <2>2. executed[u][n] <= IF n < account_nonce[u] THEN 1 ELSE 0
    BY DEF NonceInv
  <2>3. executed'[u][n] = IF u \in closed THEN 0 ELSE counts[u][n]
    OBVIOUS
  <2>4. CASE u \in closed
    BY <2>4, SMTT(30)
  <2>5. CASE u \notin closed
    BY <2>5, <2>1, <2>2, <2>3, SMTT(30) DEF CountsOne, UsesNonce
  <2> QED BY <2>5, SMTT(30)
<1> QED BY <1>1, <1>2 DEF NonceInv

\* send is a transaction of the sender.
LEMMA SendNonces ==
    ASSUME NonceInv, NEW who \in Users, NEW to, NEW a, NEW c, NEW x, NEW fee,
           send(who, a, c, to, x, fee)
    PROVE  NonceInv'
<1>1. PICK closed : /\ account_nonce' = kill_accounts(inc_account_nonce(account_nonce, who), closed)
                    /\ executed' = forget_executed(executed, closed)
  BY DEF send
<1>3. account_nonce \in [Users -> Nat] /\ executed \in [Users -> [0 .. MaxRequests -> Nat]]
  BY DEF NonceInv
<1>4. account_nonce' \in [Users -> Nat]
  BY <1>1, <1>3, SMTT(30) DEF kill_accounts, inc_account_nonce
<1>5. ASSUME NEW u \in Users, u \notin closed
      PROVE  account_nonce'[u] = account_nonce[u] + IF u = who THEN 1 ELSE 0
  BY <1>1, <1>3, <1>5, SMTT(30) DEF kill_accounts, inc_account_nonce
<1>6. executed' = [u \in Users |-> [n \in 0 .. MaxRequests |->
                        IF u \in closed THEN 0 ELSE executed[u][n]]]
  BY <1>1 DEF forget_executed
<1>7. PICK counts \in [Users -> [0 .. MaxRequests -> Nat]] : counts = executed
  BY <1>3
<1>8. CountsOne(counts, who)
  <2>1. ASSUME NEW u \in Users, NEW n \in 0 .. MaxRequests PROVE counts[u][n] \in Nat
    OBVIOUS
  <2> QED BY <1>7, <2>1, SMTT(30) DEF CountsOne
<1>9. UsesNonce(closed, who)
  BY <1>5 DEF UsesNonce
<1> QED BY <1>4, <1>6, <1>7, <1>8, <1>9, NoncesUsed

\* on_accept runs a call in the name of the beneficiary, whose signature is for
\* the current nonce, or of the sender.
LEMMA AcceptNonces ==
    ASSUME NonceInv, RequestInv, NEW r \in requests, on_accept(r)
    PROVE  NonceInv'
<1>1. CASE UNCHANGED <<account_nonce, executed>>
  BY <1>1 DEF NonceInv
<1>2. CASE ~UNCHANGED <<account_nonce, executed>>
  <2> DEFINE origin == call_origin(r)
             call == r.data
             counts == IF call.signer = None THEN executed
                       ELSE [executed EXCEPT ![origin][call.nonce] = @ + 1]
  <2>1. PICK closed :
            /\ signature_valid(r)
            /\ account_nonce' = inc_account_nonce(kill_accounts(account_nonce, closed), origin)
            /\ executed' = forget_executed(counts, closed)
    BY <1>2 DEF on_accept
  <2>3. PICK who \in Users : who = origin
    BY DEF call_origin, RequestInv, Request
  <2>4. account_nonce \in [Users -> Nat] /\ executed \in [Users -> [0 .. MaxRequests -> Nat]]
    BY DEF NonceInv
  <2>5. account_nonce' \in [Users -> Nat]
    <3> DEFINE nonces == kill_accounts(account_nonce, closed)
    <3>1. nonces \in [Users -> Nat]
      BY <2>4, SMTT(30) DEF kill_accounts
    <3> HIDE DEF nonces
    <3>2. inc_account_nonce(nonces, origin) \in [Users -> Nat]
      BY <2>3, <3>1, SMTT(30) DEF inc_account_nonce
    <3>3. QED
      BY <2>1, <3>2 DEF nonces
  <2>6. ASSUME NEW u \in Users, u \notin closed
        PROVE  account_nonce'[u] = account_nonce[u] + IF u = who THEN 1 ELSE 0
    BY <2>1, <2>3, <2>4, <2>6, SMTT(30) DEF kill_accounts, inc_account_nonce
  <2>7. call.signer # None => call.nonce = account_nonce[who]
    BY <2>1, <2>3 DEF signature_valid, call_origin
  <2> HIDE DEF origin, call
  <2>8. PICK after \in [Users -> [0 .. MaxRequests -> Nat]] : after = counts
    <3>1. counts \in [Users -> [0 .. MaxRequests -> Nat]]
      <4>1. CASE call.signer = None
        BY <2>4, <4>1
      <4>2. CASE call.signer # None
        <5>1. executed[who] \in [0 .. MaxRequests -> Nat]
          BY <2>4
        <5>2. [executed[who] EXCEPT ![call.nonce] = @ + 1] \in [0 .. MaxRequests -> Nat]
          <6>1. ASSUME NEW f \in [0 .. MaxRequests -> Nat], NEW n
                PROVE  [f EXCEPT ![n] = @ + 1] \in [0 .. MaxRequests -> Nat]
            <7>1. \A i \in 0 .. MaxRequests : f[i] \in Nat /\ f[i] + 1 \in Nat
              BY SMTT(30)
            <7> QED BY <7>1
          <6> QED BY <5>1, <6>1
        <5> QED BY <2>4, <5>2, <2>3
      <4> QED BY <4>1, <4>2
    <3> QED BY <3>1
  <2>9. ASSUME NEW u \in Users, NEW n \in 0 .. MaxRequests
        PROVE  after[u][n] <= executed[u][n]
                              + IF u = who /\ n = account_nonce[who] THEN 1 ELSE 0
    <3>1. executed[u][n] \in Nat
      BY <2>4
    <3>2. CASE call.signer = None
      BY <2>8, <3>1, <3>2, SMTT(30)
    <3>3. CASE call.signer # None
      <4>1. after = [executed EXCEPT ![who][account_nonce[who]] = @ + 1]
        BY <2>3, <2>7, <2>8, <3>3
      <4>2. after[u][n] = IF u = who /\ n = account_nonce[who] THEN executed[u][n] + 1
                          ELSE executed[u][n]
        BY <4>1
      <4> QED BY <3>1, <4>2, SMTT(30)
    <3> QED BY <3>2, <3>3
  <2>10. executed' = [u \in Users |-> [n \in 0 .. MaxRequests |->
                        IF u \in closed THEN 0 ELSE after[u][n]]]
    BY <2>1, <2>8 DEF forget_executed
  <2>11. CountsOne(after, who) /\ UsesNonce(closed, who)
    BY <2>6, <2>9 DEF CountsOne, UsesNonce
  <2> QED BY <2>5, <2>10, <2>11, NoncesUsed
<1> QED BY <1>1, <1>2

\* A signature lets at most one call through as long as the signer's account is
\* there (module.rs: on_accept checks the nonce before the call and uses it up
\* after it), for all users, calls and sequences of requests.
THEOREM SignaturesAreUsedOnce == Spec => []SignedCallOnce
<1> DEFINE Inv == TableInv /\ RequestInv /\ NonceInv
<1>1. Init => Inv
  BY InitHolds, FS_EmptySet, SMTT(30) DEF IInv, Init, RequestInv, NonceInv
<1>2. Inv /\ [Next]_vars => Inv'
  <2> SUFFICES ASSUME Inv, [Next]_vars PROVE NonceInv'
    BY TablesAndRequests
  <2>1. ASSUME UNCHANGED <<account_nonce, executed>> PROVE NonceInv'
    BY <2>1 DEF NonceInv
  <2>2. ASSUME NEW r \in requests,
               on_accept(r) \/ on_timeout(r) \/ remote_accept(r) \/ remote_timeout(r)
        PROVE  NonceInv'
    BY <2>1, <2>2, AcceptNonces DEF on_timeout, remote_accept, remote_timeout
  <2>3. ASSUME NEW registration \in Registrations, register_token(registration)
        PROVE  NonceInv'
    BY <2>1, <2>3 DEF register_token
  <2>4. ASSUME NEW update \in Updates, update_token(update) PROVE NonceInv'
    BY <2>1, <2>4 DEF update_token
  <2>5. ASSUME NEW c, NEW k, NEW from, NEW to, NEW x, NEW data,
               remote_send(c, k, from, to, x, data)
        PROVE  NonceInv'
    BY <2>1, <2>5 DEF remote_send
  <2>6. CASE UNCHANGED vars
    BY <2>1, <2>6 DEF vars
  <2> QED BY <2>2, <2>3, <2>4, <2>5, <2>6, SendNonces DEF Next
<1>3. Inv => SignedCallOnce
  <2> SUFFICES ASSUME NonceInv, NEW u \in Users, NEW n \in 0 .. MaxRequests
               PROVE  executed[u][n] <= 1
    BY DEF SignedCallOnce
  <2>1. executed[u][n] \in Nat
    BY DEF NonceInv
  <2> QED BY <2>1, SMTT(30) DEF NonceInv
<1> QED BY <1>1, <1>2, <1>3, PTL DEF Spec

-----------------------------------------------------------------------------
(* Balances.                                                               *)

Funds == [Assets -> [Holders -> Nat]]

Minted(funds, a) == SumFunctionOnSet(funds[a], Holders)

\* The part of z that concerns asset a, if it is an amount of asset t.
Part(a, t, z) == IF a = t THEN z ELSE 0

\* Between two states of the balances, z or more of asset t was taken in: into
\* custody, or out of circulation if the asset is wrapped.  Of the other assets
\* nothing was given out.
TakesIn(funds, g, t, z) ==
    /\ g \in Funds
    /\ \A a \in Assets :
          IF Wrapped(a) THEN Minted(g, a) + Part(a, t, z) <= Minted(funds, a)
          ELSE funds[a][pallet_account] + Part(a, t, z) <= g[a][pallet_account]

\* The holders are finitely many.
LEMMA HoldersFinite == IsFiniteSet(Holders)
BY FS_AddElement, HyperFungibleTokenAssumption DEF Holders

\* What is minted is a number.
LEMMA MintedType == ASSUME NEW funds \in Funds, NEW a \in Assets PROVE Minted(funds, a) \in Nat
BY HoldersFinite, SumType DEF Funds, Minted

\* If the balances of one asset change, only it matters.
LEMMA OneAsset ==
    ASSUME NEW funds \in Funds, NEW t \in Assets, NEW g, NEW z \in Int,
           NEW new \in [Holders -> Nat], g = [funds EXCEPT ![t] = new],
           IF Wrapped(t)
           THEN SumFunctionOnSet(new, Holders) + z <= SumFunctionOnSet(funds[t], Holders)
           ELSE funds[t][pallet_account] + z <= new[pallet_account]
    PROVE  TakesIn(funds, g, t, z)
<1>1. g \in Funds
  BY DEF Funds
<1>2. ASSUME NEW a \in Assets
      PROVE  IF Wrapped(a) THEN Minted(g, a) + Part(a, t, z) <= Minted(funds, a)
             ELSE funds[a][pallet_account] + Part(a, t, z) <= g[a][pallet_account]
  <2>1. CASE a = t
    BY <2>1 DEF Funds, Minted, Part
  <2>2. CASE a # t
    <3>2. funds[a][pallet_account] \in Nat /\ Minted(funds, a) \in Nat
      BY MintedType DEF Funds, Holders
    <3> QED BY <3>2, SMTT(30) DEF Minted, Part, Funds
  <2> QED BY <2>1, <2>2
<1> QED BY <1>1, <1>2 DEF TakesIn

\* One payment after another.
LEMMA TakesInTwice ==
    ASSUME NEW f \in Funds, NEW g, NEW h, NEW t \in Assets, NEW z \in Int, NEW s \in Assets,
           TakesIn(f, g, t, z), TakesIn(g, h, s, 0)
    PROVE  TakesIn(f, h, t, z)
<1>1. g \in Funds /\ h \in Funds
  BY DEF TakesIn
<1>2. ASSUME NEW a \in Assets
      PROVE  IF Wrapped(a) THEN Minted(h, a) + Part(a, t, z) <= Minted(f, a)
             ELSE f[a][pallet_account] + Part(a, t, z) <= h[a][pallet_account]
  <2>1. /\ Minted(f, a) \in Int /\ Minted(g, a) \in Int /\ Minted(h, a) \in Int
        /\ f[a][pallet_account] \in Int /\ g[a][pallet_account] \in Int
        /\ h[a][pallet_account] \in Int /\ Part(a, t, z) \in Int /\ Part(a, s, 0) = 0
    <3>1. Minted(f, a) \in Nat /\ Minted(g, a) \in Nat /\ Minted(h, a) \in Nat
      BY <1>1, MintedType
    <3> QED BY <3>1, <1>1, SMTT(30) DEF Part, Funds, Holders
  <2> QED BY <2>1, SMTT(30) DEF TakesIn
<1> QED BY <1>2 DEF TakesIn

\* Dust is taken out of circulation.
LEMMA Remaining ==
    ASSUME NEW a \in Assets, NEW b \in Nat
    PROVE  remaining(a, b) \in Nat /\ remaining(a, b) <= b
BY SMTT(30) DEF remaining

\* What is minted follows the balances.
LEMMA SumOfBalances ==
    ASSUME NEW old \in [Holders -> Nat], NEW new \in [Holders -> Nat], NEW h \in Holders,
           \A i \in Holders \ {h} : old[i] = new[i]
    PROVE  SumFunctionOnSet(new, Holders) = SumFunctionOnSet(old, Holders) - old[h] + new[h]
BY HoldersFinite, SumChange, SMTT(30)

\* One balance changes.
LEMMA OneBalance ==
    ASSUME NEW old \in [Holders -> Nat], NEW h \in Holders, NEW v \in Nat, NEW new,
           new = [old EXCEPT ![h] = v]
    PROVE  /\ new \in [Holders -> Nat]
           /\ SumFunctionOnSet(new, Holders) = SumFunctionOnSet(old, Holders) - old[h] + v
           /\ SumFunctionOnSet(old, Holders) \in Nat
<1>1. /\ new \in [Holders -> Nat] /\ new[h] = v
      /\ \A i \in Holders \ {h} : old[i] = new[i]
  OBVIOUS
<1>3. SumFunctionOnSet(new, Holders) = SumFunctionOnSet(old, Holders) - old[h] + new[h]
  BY SumOfBalances
<1> QED BY <1>3, HoldersFinite, SumType

\* burn_from takes in the amount, of a wrapped asset.
LEMMA BurnTakes ==
    ASSUME NEW f \in Funds, NEW t \in Assets, NEW who \in Users, NEW x \in Nat,
           x <= f[t][who], NEW z \in {0, x}, Wrapped(t) \/ z = 0
    PROVE  TakesIn(f, burn_from(f, t, who, x), t, z)
<1> DEFINE v == remaining(t, f[t][who] - x)
           new == [f[t] EXCEPT ![who] = v]
<1>1. /\ f[t] \in [Holders -> Nat] /\ who \in Holders /\ who # pallet_account
      /\ pallet_account \in Holders
  BY HyperFungibleTokenAssumption DEF Funds, Holders
<1>3. v \in Nat /\ v <= f[t][who] - x
  BY <1>1, Remaining, SMTT(30)
<1> HIDE DEF v
<1>4. /\ new \in [Holders -> Nat] /\ SumFunctionOnSet(f[t], Holders) \in Nat
      /\ SumFunctionOnSet(new, Holders) = SumFunctionOnSet(f[t], Holders) - f[t][who] + v
  BY <1>1, <1>3, OneBalance, SMTT(30)
<1>5. new[pallet_account] = f[t][pallet_account] /\ f[t][pallet_account] \in Nat
  BY <1>1
<1>7. burn_from(f, t, who, x) = [f EXCEPT ![t] = new]
  BY DEF burn_from, v
<1> HIDE DEF new
<1>8. IF Wrapped(t) THEN SumFunctionOnSet(new, Holders) + z <= SumFunctionOnSet(f[t], Holders)
      ELSE f[t][pallet_account] + z <= new[pallet_account]
  BY <1>5, <1>1, <1>3, <1>4, SMTT(30)
<1>9. z \in Int
  BY SMTT(30)
<1> QED BY <1>4, <1>7, <1>8, <1>9, OneAsset

\* mint_into puts a wrapped asset into circulation.
LEMMA MintGives ==
    ASSUME NEW f \in Funds, NEW t \in Assets, NEW who \in Users, NEW x \in Nat, Wrapped(t)
    PROVE  TakesIn(f, mint_into(f, t, who, x), t, -x)
<1> DEFINE v == f[t][who] + x
           new == [f[t] EXCEPT ![who] = v]
<1>1. f[t] \in [Holders -> Nat] /\ who \in Holders
  BY DEF Funds, Holders
<1>3. /\ new \in [Holders -> Nat] /\ SumFunctionOnSet(f[t], Holders) \in Nat
      /\ SumFunctionOnSet(new, Holders) = SumFunctionOnSet(f[t], Holders) - f[t][who] + v
  BY <1>1, OneBalance, SMTT(30)
<1>4. SumFunctionOnSet(new, Holders) + -x <= SumFunctionOnSet(f[t], Holders)
  BY <1>1, <1>3, SMTT(30)
<1>5. mint_into(f, t, who, x) = [f EXCEPT ![t] = new]
  BY DEF mint_into
<1> HIDE DEF new
<1>6. -x \in Int
  BY SMTT(30)
<1> QED BY <1>3, <1>4, <1>5, <1>6, OneAsset

\* The balances of t become new by a transfer.
Moves(f, t, p, q, x, new) ==
    /\ transfer(f, t, p, q, x) = [f EXCEPT ![t] = new]
    /\ SumFunctionOnSet(new, Holders) <= SumFunctionOnSet(f[t], Holders)
    /\ p # q => /\ new[p] = remaining(t, f[t][p] - x)
                /\ new[q] = f[t][q] + x
                /\ \A h \in Holders \ {p, q} : new[h] = f[t][h]
    /\ p = q => new = f[t]

\* transfer moves an amount, and makes none.
LEMMA Transferred ==
    ASSUME NEW f \in Funds, NEW t \in Assets, NEW p \in Holders, NEW q \in Holders, NEW x \in Nat,
           x <= f[t][p]
    PROVE  \E new \in [Holders -> Nat] : Moves(f, t, p, q, x, new)
<1>1. f[t] \in [Holders -> Nat] /\ SumFunctionOnSet(f[t], Holders) \in Nat
  BY MintedType DEF Funds, Minted
<1>2. CASE p = q
  BY <1>2, <1>1, SMTT(30) DEF transfer, Funds, Moves
<1>3. CASE p # q
  <2> DEFINE v == remaining(t, f[t][p] - x)
             mid == [f[t] EXCEPT ![p] = v]
             w == f[t][q] + x
             new == [mid EXCEPT ![q] = w]
  <2>1. f[t][p] \in Nat /\ f[t][q] \in Nat /\ f[t][p] - x \in Nat /\ w \in Nat
    BY <1>1, SMTT(30)
  <2>2. v \in Nat /\ v <= f[t][p] - x
    BY <2>1, Remaining
  <2> HIDE DEF v
  <2>3. mid \in [Holders -> Nat] /\ mid[q] = f[t][q] /\ mid[p] = v
    BY <1>1, <1>3, <2>2
  <2>4. /\ SumFunctionOnSet(mid, Holders) = SumFunctionOnSet(f[t], Holders) - f[t][p] + v
        /\ SumFunctionOnSet(mid, Holders) \in Nat
    BY <1>1, OneBalance, <2>3, SMTT(30)
  <2>5. new \in [Holders -> Nat] /\ new[q] = w /\ new[p] = v
    BY <1>3, <2>3, SMTT(30)
  <2>6. \A h \in Holders \ {p, q} : new[h] = f[t][h]
    BY <1>1
  <2>7. transfer(f, t, p, q, x) = [f EXCEPT ![t] = new]
    BY <1>3 DEF transfer, Funds, v
  <2> HIDE DEF mid, w
  <2>8. SumFunctionOnSet(new, Holders) = SumFunctionOnSet(mid, Holders) - mid[q] + new[q]
    <3>1. \A i \in Holders \ {q} : mid[i] = new[i]
      BY SMTT(30)
    <3> HIDE DEF new
    <3> QED BY <2>3, <2>5, <3>1, SumOfBalances
  <2>9. SumFunctionOnSet(new, Holders) <= SumFunctionOnSet(f[t], Holders)
    BY <1>1, <2>2, <2>3, <2>4, <2>8, SMTT(30) DEF w
  <2> QED BY <1>3, <2>5, <2>6, <2>7, <2>9 DEF Moves, v, w
<1> QED BY <1>2, <1>3

\* transfer into custody, out of it, and between users.
LEMMA TransferTakes ==
    ASSUME NEW f \in Funds, NEW t \in Assets, NEW p \in Holders, NEW q \in Holders, NEW x \in Nat,
           x <= f[t][p], NEW z \in Int,
           \/ ~Wrapped(t) /\ p \in Users /\ q = pallet_account /\ z = x
           \/ /\ ~Wrapped(t) /\ p = pallet_account /\ q \in Users
              /\ z = remaining(t, f[t][p] - x) - f[t][p]
           \/ p \in Users /\ q \in Users /\ z = 0
    PROVE  TakesIn(f, transfer(f, t, p, q, x), t, z)
<1>1. PICK new \in [Holders -> Nat] : Moves(f, t, p, q, x, new)
  BY Transferred
<1>2. /\ pallet_account \in Holders /\ pallet_account \notin Users
      /\ f[t] \in [Holders -> Nat]
  BY HyperFungibleTokenAssumption DEF Holders, Funds
<1>5. IF Wrapped(t) THEN SumFunctionOnSet(new, Holders) + z <= SumFunctionOnSet(f[t], Holders)
      ELSE f[t][pallet_account] + z <= new[pallet_account]
  BY <1>1, <1>2, HoldersFinite, SumType, SMTT(30) DEF Moves
<1> QED BY <1>1, <1>5, OneAsset DEF Moves

-----------------------------------------------------------------------------
(* Claims.                                                                 *)

\* The powers of ten that contracts need are balances: none has more than 38
\* decimals more than its asset, for the width of the code.
DecimalsFit ==
    \A k \in Contracts, n \in Nat :
        n < Token[k].decimals - Decimals[Token[k].asset] => 10 * pow10[n] < 2 ^ Width

\* Powers of ten that do not wrap grow, and each divides the next ones.
LEMMA PowersDivide ==
    ASSUME NEW d \in Nat, \A n \in Nat : n < d => 10 * pow10[n] < 2 ^ Width,
           NEW m \in Nat, m <= d
    PROVE  pow10[m] > 0 /\ \E q \in Nat \ {0} : pow10[d] = pow10[m] * q
<1>1. /\ \A n \in Nat : pow10[n] \in Nat
      /\ pow10[0] = 1
      /\ \A n \in Nat : n # 0 => pow10[n] = (10 * pow10[n - 1]) % 2 ^ Width
  BY Pow10Defined
<1>2. ASSUME NEW n \in Nat, n # 0, n <= d PROVE pow10[n] = 10 * pow10[n - 1]
  <2>2. pow10[n - 1] \in Nat /\ 10 * pow10[n - 1] < 2 ^ Width
    BY <1>1, <1>2, SMTT(30)
  <2>3. pow10[n] = (10 * pow10[n - 1]) % 2 ^ Width
    BY <1>1, <1>2
  <2>4. ASSUME NEW y \in Nat, NEW w \in Nat \ {0}, y < w PROVE y % w = y
    BY <2>4, SMTT(30)
  <2> QED BY <2>2, <2>3, WidthAssumption, SMTT(30)
<1>3. \A n \in Nat : n <= d => pow10[n] > 0
  <2> DEFINE T == {n \in Nat : n <= d /\ ~(pow10[n] > 0)}
  <2> SUFFICES ASSUME T # {} PROVE FALSE
    OBVIOUS
  <2>1. PICK i \in T : \A j \in T : i <= j
    <3>1. T \subseteq Nat
      OBVIOUS
    <3> HIDE DEF T
    <3> QED BY <3>1, LeastNat
  <2> QED BY <2>1, <1>1, <1>2, SMTT(30)
<1>4. \A n \in Nat : m <= n /\ n <= d => \E q \in Nat \ {0} : pow10[n] = pow10[m] * q
  <2> DEFINE T == {n \in Nat : /\ m <= n /\ n <= d
                                /\ ~\E q \in Nat \ {0} : pow10[n] = pow10[m] * q}
  <2> SUFFICES ASSUME T # {} PROVE FALSE
    OBVIOUS
  <2>1. PICK i \in T : \A j \in T : i <= j
    <3>1. T \subseteq Nat
      OBVIOUS
    <3> HIDE DEF T
    <3> QED BY <3>1, LeastNat
  <2>5. PICK q \in Nat \ {0} : pow10[i - 1] = pow10[m] * q
    BY <2>1, <1>1, SMTT(30)
  <2>7. pow10[i] = pow10[m] * (10 * q) /\ 10 * q \in Nat \ {0}
    BY <1>1, <2>5, <1>2, SMTT(30)
  <2> QED BY <2>7
<1> QED BY <1>3, <1>4, SMTT(30)

\* What amounts of the asset are multiplied by for a contract.
ScaleOf(k) == scale(Token[k].decimals, Decimals[Token[k].asset])

\* The decimals that a contract has more than its asset.
LEMMA ScaleIsPower ==
    ASSUME DecimalsFit, NEW k \in Contracts
    PROVE  \E d \in Nat : /\ ScaleOf(k) = pow10[d]
                          /\ \A n \in Nat : n < d => 10 * pow10[n] < 2 ^ Width
BY HyperFungibleTokenAssumption, Pow10Defined, SMTT(30) DEF ScaleOf, scale, DecimalsFit

\* It is positive, and bounded by the width.
LEMMA ScaleFits ==
    ASSUME DecimalsFit, NEW k \in Contracts
    PROVE  ScaleOf(k) \in Nat \ {0} /\ ScaleOf(k) <= 2 ^ Width
<1>1. PICK d \in Nat : /\ ScaleOf(k) = pow10[d]
                       /\ \A n \in Nat : n < d => 10 * pow10[n] < 2 ^ Width
  BY ScaleIsPower
<1>2. pow10[d] \in Nat /\ pow10[d] > 0
  <2>2. pow10[d] > 0
    BY <1>1, PowersDivide, SMTT(30)
  <2> QED BY <2>2, Pow10Defined
<1> QED BY <1>1, <1>2, Pow10Defined, WidthAssumption, SMTT(30)

\* The smaller scale divides the greater one.
LEMMA ScalesDivide ==
    ASSUME DecimalsFit, NEW k \in Contracts, NEW l \in Contracts, ScaleOf(k) <= ScaleOf(l)
    PROVE  \E q \in Nat \ {0} : ScaleOf(l) = ScaleOf(k) * q
<1>1. PICK d \in Nat : /\ ScaleOf(k) = pow10[d]
                       /\ \A n \in Nat : n < d => 10 * pow10[n] < 2 ^ Width
  BY ScaleIsPower
<1>2. PICK e \in Nat : /\ ScaleOf(l) = pow10[e]
                       /\ \A n \in Nat : n < e => 10 * pow10[n] < 2 ^ Width
  BY ScaleIsPower
<1>4. CASE d <= e
  BY <1>1, <1>2, <1>4, PowersDivide
<1>5. CASE e <= d
  <2>1. PICK q \in Nat \ {0} : pow10[d] = pow10[e] * q
    BY <1>1, <1>5, PowersDivide
  <2> QED BY ScaleFits, <1>1, <1>2, <2>1, SMTT(30)
<1> QED BY <1>4, <1>5, SMTT(30)

\* What one unit of a contract's token is worth, in units of its asset.
PerToken(k) == Unit(Token[k].asset) \div ScaleOf(k)

\* The unit of an asset is a multiple of every scale.
LEMMA UnitFits ==
    ASSUME DecimalsFit
    PROVE  /\ \A a \in Assets : Unit(a) \in Nat \ {0}
           /\ \A k \in Contracts : /\ PerToken(k) \in Nat
                                    /\ ScaleOf(k) * PerToken(k) = Unit(Token[k].asset)
<1>1. ASSUME NEW a \in Assets
      PROVE  /\ Unit(a) \in Nat \ {0}
             /\ \A k \in Contracts : Token[k].asset = a =>
                   \E q \in Nat \ {0} : Unit(a) = ScaleOf(k) * q
  <2> DEFINE scales == {scale(Token[k].decimals, Decimals[a]) :
                            k \in {k \in Contracts : Token[k].asset = a}}
             S == scales \cup {1}
  <2>1. S = {ScaleOf(k) : k \in {k \in Contracts : Token[k].asset = a}} \cup {1}
    BY DEF ScaleOf
  <2>2. \A x \in S : x \in Nat \ {0} /\ x <= 2 ^ Width
    BY <2>1, ScaleFits, WidthAssumption, SMTT(30)
  <2>3. \E x \in S : \A y \in S : y <= x
    <3> DEFINE T == {n \in Nat : \E x \in S : n = 2 ^ Width - x}
    <3>1. 2 ^ Width - 1 \in T
      BY WidthAssumption, SMTT(30)
    <3>2. PICK i \in T : \A j \in T : i <= j
      <4>1. T \subseteq Nat /\ T # {}
        BY <3>1
      <4> HIDE DEF T
      <4> QED BY <4>1, LeastNat
    <3>3. PICK x \in S : i = 2 ^ Width - x
      OBVIOUS
    <3>4. ASSUME NEW y \in S PROVE y <= x
      <4> HIDE DEF S
      <4> QED BY <2>2, <3>2, <3>3, WidthAssumption, SMTT(30)
    <3> QED BY <3>4
  <2>4. Unit(a) = CHOOSE x \in S : \A y \in scales : y <= x
    BY DEF Unit
  <2> HIDE DEF scales
  <2>5. Unit(a) \in S /\ \A y \in scales : y <= Unit(a)
    BY <2>3, <2>4
  <2>7. ASSUME NEW k \in Contracts, Token[k].asset = a
        PROVE  \E q \in Nat \ {0} : Unit(a) = ScaleOf(k) * q
    <3>1. ScaleOf(k) \in scales /\ ScaleOf(k) \in Nat \ {0}
      BY <2>7, ScaleFits DEF ScaleOf, scales
    <3>2. CASE Unit(a) = 1
      BY <2>5, <3>1, <3>2, SMTT(30)
    <3>3. CASE Unit(a) # 1
      BY <2>1, <2>5, <3>3, <3>1, ScalesDivide, SMTT(30)
    <3> QED BY <3>2, <3>3
  <2> QED BY <2>2, <2>5, <2>7
<1>2. ASSUME NEW k \in Contracts
      PROVE  PerToken(k) \in Nat /\ ScaleOf(k) * PerToken(k) = Unit(Token[k].asset)
  <2>1. Token[k].asset \in Assets /\ ScaleOf(k) \in Nat \ {0}
    BY HyperFungibleTokenAssumption, ScaleFits
  <2>2. PICK q \in Nat \ {0} : Unit(Token[k].asset) = ScaleOf(k) * q
    BY <1>1, <2>1
  <2>3. ASSUME NEW m \in Nat \ {0}, NEW n \in Nat PROVE (m * n) \div m = n
    BY SMTT(30)
  <2>4. PerToken(k) = q
    BY <2>1, <2>2, <2>3 DEF PerToken
  <2> QED BY <2>2, <2>4
<1> QED BY <1>1, <1>2

\* The requests of R to or from a contract, and their amount.
Open(R, c, k) == {r \in R : r.chain = c /\ r.contract = k}

UnderWay(R, c, k) == SumFunctionOnSet([r \in Open(R, c, k) |-> r.amount], Open(R, c, k))

\* A request counts for its own contract.
LEMMA UnderWayAdd ==
    ASSUME NEW R, IsFiniteSet(R), \A r \in R : r.amount \in Nat, NEW q, q \notin R,
           q.amount \in Nat, NEW c, NEW k
    PROVE  /\ UnderWay(R, c, k) \in Nat
           /\ UnderWay(R \cup {q}, c, k) =
                UnderWay(R, c, k) + IF q.chain = c /\ q.contract = k THEN q.amount ELSE 0
<1> DEFINE S == Open(R, c, k)
           f == [r \in S |-> r.amount]
<1>2. IsFiniteSet(S) /\ \A r \in S : f[r] \in Nat
  BY FS_Subset DEF Open
<1>3. UnderWay(R, c, k) = SumFunctionOnSet(f, S)
  BY DEF UnderWay
<1>4. UnderWay(R, c, k) \in Nat
  BY <1>2, <1>3, SumType
<1>5. CASE ~(q.chain = c /\ q.contract = k)
  BY <1>5, <1>4, SMTT(30) DEF Open, UnderWay
<1>6. CASE q.chain = c /\ q.contract = k
  <2> DEFINE T == S \cup {q}
             g == [r \in T |-> r.amount]
  <2>1. Open(R \cup {q}, c, k) = T
    BY <1>6 DEF Open
  <2>2. UnderWay(R \cup {q}, c, k) = SumFunctionOnSet(g, T)
    BY <2>1 DEF UnderWay
  <2>3. /\ IsFiniteSet(T) /\ q \in T /\ T \ {q} = S /\ g[q] = q.amount
        /\ \A r \in T : g[r] \in Int
    BY <1>2, FS_AddElement, SMTT(30) DEF Open
  <2>4. \A r \in S : f[r] \in Int /\ f[r] = g[r]
    BY <1>2, SMTT(30)
  <2> HIDE DEF S, T, f, g
  <2>6. SumFunctionOnSet(g, S) = SumFunctionOnSet(f, S)
    BY <1>2, <2>4, SumEqual
  <2> QED BY <1>3, <1>4, <1>6, <2>2, <2>3, SumRemove, <2>6, SMTT(30)
<1> QED BY <1>5, <1>6

Pairs == StateMachines \X Contracts

Routes(a) == {r \in Pairs : Token[r[2]].asset = a}

\* What claims f on the routes are worth, in units of asset a.
Worth(f, a) == SumFunctionOnSet([r \in Routes(a) |-> f[r] * PerToken(r[2])], Routes(a))

\* A claim counts for the asset of its contract.
LEMMA WorthChange ==
    ASSUME DecimalsFit, NEW f \in [Pairs -> Int], NEW g \in [Pairs -> Int], NEW p \in Pairs,
           \A r \in Pairs \ {p} : g[r] = f[r], NEW a \in Assets
    PROVE  /\ Worth(f, a) \in Int
           /\ Worth(g, a) = Worth(f, a)
                + Part(a, Token[p[2]].asset, (g[p] - f[p]) * PerToken(p[2]))
<1> DEFINE S == Routes(a)
           F == [r \in S |-> f[r] * PerToken(r[2])]
           G == [r \in S |-> g[r] * PerToken(r[2])]
<1>1. IsFiniteSet(Pairs) /\ S \subseteq Pairs
  BY FS_Product, HyperFungibleTokenAssumption DEF Pairs, Routes
<1>2. IsFiniteSet(S)
  BY <1>1, FS_Subset
<1>3. \A r \in Pairs : PerToken(r[2]) \in Nat /\ f[r] \in Int /\ g[r] \in Int
  BY UnitFits DEF Pairs
<1>4. \A r \in S : F[r] \in Int /\ G[r] \in Int
  BY <1>1, <1>3, SMTT(30)
<1>5. Worth(f, a) = SumFunctionOnSet(F, S) /\ Worth(g, a) = SumFunctionOnSet(G, S)
  BY DEF Worth
<1>6. \A r \in S \ {p} : F[r] = G[r]
  BY <1>1
<1>7. p \in S => /\ F[p] = f[p] * PerToken(p[2])
                 /\ G[p] = g[p] * PerToken(p[2])
  OBVIOUS
<1>8. p \in S <=> a = Token[p[2]].asset
  BY DEF Routes
<1> HIDE DEF S, F, G
<1>9. Worth(f, a) \in Int
  BY <1>2, <1>4, <1>5, SumType
<1>10. CASE p \notin S
  <2>1. \A r \in S : F[r] \in Int /\ F[r] = G[r]
    BY <1>4, <1>6, <1>10
  <2> QED BY <1>5, <1>8, <1>9, <1>10, <1>2, <2>1, SumEqual, SMTT(30) DEF Part
<1>11. CASE p \in S
  <2>1. SumFunctionOnSet(G, S) = SumFunctionOnSet(F, S) - F[p] + G[p]
    BY <1>2, <1>4, <1>6, <1>11, SumChange, SMTT(30)
  <2>2. ASSUME NEW x \in Int, NEW y \in Int, NEW n \in Nat, NEW sum \in Int
        PROVE  sum - x * n + y * n = sum + (y - x) * n
    BY SMTT(30)
  <2> QED BY <1>3, <1>5, <1>7, <1>8, <1>9, <1>11, <2>1, SMTT(30) DEF Part
<1> QED BY <1>10, <1>11

Dust == [Assets -> Nat]

\* The balances, and what custody lost as dust, cover the claims f.
BackedBy(funds, lost, f) ==
    \A a \in Assets :
        IF Wrapped(a) THEN Minted(funds, a) * Unit(a) + Worth(f, a) <= 0
        ELSE Worth(f, a) <= (funds[a][pallet_account] + lost[a]) * Unit(a)

\* Of asset t, which is not wrapped then, d is lost.
Loses(lost, now, t, d) ==
    /\ now = [lost EXCEPT ![t] = lost[t] + d]
    /\ Wrapped(t) => d = 0

\* A claim grows by no more than what was taken in, or shrinks by no less than
\* what was given out; d of what is gone was dust.
LEMMA ClaimsSettled ==
    ASSUME DecimalsFit, NEW f \in [Pairs -> Int], NEW g \in [Pairs -> Int], NEW p \in Pairs,
           \A r \in Pairs \ {p} : g[r] = f[r], NEW funds \in Funds, NEW h,
           NEW t \in Assets, t = Token[p[2]].asset, NEW z \in Int, NEW d \in Nat,
           TakesIn(funds, h, t, z - d), NEW lost \in Dust, NEW now, Loses(lost, now, t, d),
           (g[p] - f[p]) * PerToken(p[2]) <= z * Unit(t), BackedBy(funds, lost, f)
    PROVE  BackedBy(h, now, g)
<1> SUFFICES ASSUME NEW a \in Assets
             PROVE  IF Wrapped(a) THEN Minted(h, a) * Unit(a) + Worth(g, a) <= 0
                    ELSE Worth(g, a) <= (h[a][pallet_account] + now[a]) * Unit(a)
  BY DEF BackedBy
<1> DEFINE c == (g[p] - f[p]) * PerToken(p[2])
<1>1. /\ Worth(f, a) \in Int
      /\ Worth(g, a) = Worth(f, a) + Part(a, t, c)
  BY WorthChange
<1>2. c \in Int
  <2>1. g[p] \in Int /\ f[p] \in Int /\ PerToken(p[2]) \in Nat
    BY UnitFits DEF Pairs
  <2> QED BY <2>1, SMTT(30)
<1>3. Unit(a) \in Nat
  BY UnitFits
<1>4. PICK y \in Int, e \in Nat : y = Part(a, t, z) /\ e = Part(a, t, d)
  <2>1. Part(a, t, z) \in Int /\ Part(a, t, d) \in Nat
    BY SMTT(30) DEF Part
  <2> QED BY <2>1
<1>5. Part(a, t, c) \in Int /\ Part(a, t, c) <= y * Unit(a)
  <2>1. CASE a = t
    BY <1>2, <1>4, <2>1 DEF Part
  <2>2. CASE a # t
    BY <1>3, <1>4, <2>2, SMTT(30) DEF Part
  <2> QED BY <2>1, <2>2
<1> HIDE DEF c
<1>6. /\ Minted(funds, a) \in Nat /\ Minted(h, a) \in Nat
      /\ funds[a][pallet_account] \in Nat /\ h[a][pallet_account] \in Nat
  BY MintedType DEF TakesIn, Funds, Holders
<1>7. ASSUME NEW m \in Int, NEW n \in Int, NEW u \in Nat, NEW x \in Int, m + x <= n
      PROVE  m * u + x * u <= n * u /\ m * u \in Int /\ n * u \in Int /\ x * u \in Int
  <2>1. (m + x) * u = m * u + x * u
    BY SMTT(30)
  <2>2. (m + x) * u <= n * u
    BY <1>7, SMTT(30)
  <2> QED BY <2>1, <2>2, SMTT(30)
<1>8. Part(a, t, z - d) = y - e /\ now[a] = lost[a] + e /\ lost[a] \in Nat
  BY <1>4, SMTT(30) DEF Part, Loses, Dust
<1>9. CASE Wrapped(a)
  <2>1. Minted(h, a) + y <= Minted(funds, a)
    <3>1. e = 0
      BY <1>4, <1>9, SMTT(30) DEF Part, Loses
    <3>2. Minted(h, a) + (y - e) <= Minted(funds, a)
      BY <1>8, <1>9 DEF TakesIn
    <3> QED BY <1>6, <3>1, <3>2, SMTT(30)
  <2>2. /\ Minted(h, a) * Unit(a) + y * Unit(a) <= Minted(funds, a) * Unit(a)
        /\ Minted(h, a) * Unit(a) \in Int /\ Minted(funds, a) * Unit(a) \in Int
        /\ y * Unit(a) \in Int
    BY <1>3, <1>6, <1>7, <2>1, SMTT(30)
  <2>3. Minted(funds, a) * Unit(a) + Worth(f, a) <= 0
    BY <1>9 DEF BackedBy
  <2>4. Minted(h, a) * Unit(a) + Worth(g, a) <= 0
    BY <1>1, <1>5, <2>2, <2>3, SMTT(30)
  <2> QED BY <1>9, <2>4
<1>10. CASE ~Wrapped(a)
  <2>1. PICK m \in Nat, n \in Nat : /\ m = funds[a][pallet_account] + lost[a]
                                   /\ n = h[a][pallet_account] + now[a]
    BY <1>6, <1>8, SMTT(30)
  <2>2. m + y <= n
    <3>1. funds[a][pallet_account] + (y - e) <= h[a][pallet_account]
      BY <1>8, <1>10 DEF TakesIn
    <3> QED BY <1>6, <1>8, <2>1, <3>1, SMTT(30)
  <2>3. /\ m * Unit(a) + y * Unit(a) <= n * Unit(a)
        /\ m * Unit(a) \in Int /\ n * Unit(a) \in Int /\ y * Unit(a) \in Int
    <3>1. m \in Int /\ n \in Int
      BY SMTT(30)
    <3> QED BY <1>3, <1>7, <2>2, <3>1
  <2>4. Worth(f, a) <= m * Unit(a)
    BY <1>10, <2>1 DEF BackedBy
  <2>5. Worth(g, a) <= n * Unit(a)
    BY <1>1, <1>5, <2>3, <2>4, SMTT(30)
  <2> QED BY <1>10, <2>1, <2>5
<1> QED BY <1>9, <1>10

\* The claims, in the decimals of the contracts.
ClaimsNow == [r \in Pairs |-> Claim(r[1], r[2])]

\* Covered says that the balances and the dust cover the claims there are.
LEMMA CoveredViewed == Covered <=> BackedBy(balances, dust_lost, ClaimsNow)
<1>1. ASSUME NEW a \in Assets PROVE Claims(a, Unit(a)) = Worth(ClaimsNow, a)
  BY DEF Routes, ClaimsNow, PerToken, ScaleOf, Claims, Worth, Pairs
<1> QED BY <1>1 DEF Covered, BackedBy, Wrapped, Minted

\* The claims, given what is abroad and under way.
ClaimsOf(there, R) == [r \in Pairs |-> there[r[1]][r[2]] + UnderWay(R, r[1], r[2])]

There == [StateMachines -> [Contracts -> Int]]

\* This is how Claim counts them.
LEMMA ClaimsCounted ==
    /\ ClaimsNow = ClaimsOf(abroad, requests)
    /\ ClaimsNow' = ClaimsOf(abroad', requests')
BY DEF ClaimsNow, ClaimsOf, Claim, UnderWay, Open

\* A request under way is a claim of its contract.
LEMMA ClaimAdded ==
    ASSUME NEW there \in There, NEW R, IsFiniteSet(R), \A r \in R : r.amount \in Nat, NEW q,
           q \notin R, q.amount \in Nat, q.chain \in StateMachines, q.contract \in Contracts,
           NEW f, f = ClaimsOf(there, R), NEW g, g = ClaimsOf(there, R \cup {q}),
           NEW p, p = <<q.chain, q.contract>>
    PROVE  /\ f \in [Pairs -> Int] /\ g \in [Pairs -> Int] /\ p \in Pairs
           /\ g[p] = f[p] + q.amount
           /\ \A r \in Pairs \ {p} : g[r] = f[r]
<1>0. ASSUME NEW c, NEW k
      PROVE  /\ UnderWay(R, c, k) \in Nat
             /\ UnderWay(R \cup {q}, c, k) =
                    UnderWay(R, c, k) + IF q.chain = c /\ q.contract = k THEN q.amount ELSE 0
  BY UnderWayAdd, SMTT(30)
<1>1. p \in Pairs /\ p[1] = q.chain /\ p[2] = q.contract
  BY DEF Pairs
<1>2. ASSUME NEW r \in Pairs
      PROVE  /\ f[r] \in Int
             /\ g[r] = f[r] + IF r = p THEN q.amount ELSE 0
  <2>4. /\ UnderWay(R, r[1], r[2]) \in Nat
        /\ UnderWay(R \cup {q}, r[1], r[2]) =
                UnderWay(R, r[1], r[2]) + IF q.chain = r[1] /\ q.contract = r[2]
                                          THEN q.amount ELSE 0
    BY <1>0
  <2> QED BY <2>4, SMTT(30) DEF ClaimsOf, There, Pairs
<1>3. f \in [Pairs -> Int] /\ g \in [Pairs -> Int]
  <2>1. \A r \in Pairs : f[r] \in Int /\ g[r] \in Int
    BY <1>2, SMTT(30)
  <2>2. f = [r \in Pairs |-> f[r]] /\ g = [r \in Pairs |-> g[r]]
    BY DEF ClaimsOf
  <2> QED BY <2>1, <2>2
<1>4. g[p] = f[p] + q.amount
  BY <1>1, <1>2
<1>5. ASSUME NEW r \in Pairs \ {p} PROVE g[r] = f[r]
  <2>1. f[r] \in Int /\ g[r] = f[r] + 0
    BY <1>2
  <2> QED BY <2>1, SMTT(30)
<1> QED BY <1>1, <1>3, <1>4, <1>5

\* What is abroad after a request arrived there.
Arrived(q, there, after) == after = [there EXCEPT ![q.chain][q.contract] = @ + q.amount]

\* It stays one when it arrives.
LEMMA ClaimMoved ==
    ASSUME NEW there \in There, NEW R, IsFiniteSet(R), \A r \in R : r.amount \in Nat, NEW q,
           q \notin R, q.amount \in Nat, q.chain \in StateMachines, q.contract \in Contracts,
           NEW after, Arrived(q, there, after)
    PROVE  ClaimsOf(after, R) = ClaimsOf(there, R \cup {q})
<1>1. ASSUME NEW r \in Pairs
      PROVE  after[r[1]][r[2]] + UnderWay(R, r[1], r[2])
                = there[r[1]][r[2]] + UnderWay(R \cup {q}, r[1], r[2])
  <2>2. there[r[1]][r[2]] \in Int
    BY DEF There, Pairs
  <2>3. after[r[1]][r[2]] = there[r[1]][r[2]]
                + IF q.chain = r[1] /\ q.contract = r[2] THEN q.amount ELSE 0
    BY SMTT(30) DEF There, Arrived, Pairs
  <2> QED BY <2>2, <2>3, UnderWayAdd, SMTT(30)
<1> QED BY <1>1 DEF ClaimsOf
=============================================================================
