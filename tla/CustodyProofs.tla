---------------------------- MODULE CustodyProofs ----------------------------
(***************************************************************************)
(* The funds of pallet-hyper-fungible-token, for all assets, chains,       *)
(* contracts, amounts, registrations and updates: custody covers the       *)
(* claims, and refunds are exact and possible.                             *)
(***************************************************************************)
EXTENDS HyperFungibleTokenProofs

\* Zenon proves most leaves; a leaf that needs arithmetic or functions says SMTT.
USE Zenon

-----------------------------------------------------------------------------
(* Custody.                                                                *)

\* A contract that does not wrap has what it got from here, or less.
CustodyInv ==
    /\ balances \in Funds
    /\ dust_lost \in Dust
    /\ abroad \in There
    /\ \A c \in StateMachines, k \in Contracts : ~Token[k].wraps => abroad[c][k] >= 0

\* A request that is answered here gives out at most what it claims.  What else
\* is gone from custody is dust.
LEMMA ReleaseGives ==
    ASSUME TableInv, RequestInv, CustodyInv, Configured, DecimalsFit,
           NEW r \in requests, NEW who \in Users, can_release(r, who),
           NEW t, t = Token[r.contract].asset, NEW x, x = local_amount(r)
    PROVE  /\ t \in Assets /\ x \in Nat /\ x * ScaleOf(r.contract) <= r.amount
           /\ \E d \in Nat : /\ TakesIn(balances, after_release(r, who), t, -x - d)
                             /\ Loses(dust_lost, dust_after_release(r), t, d)
<1>1. /\ r.chain \in StateMachines /\ r.contract \in Contracts /\ r.amount \in Nat
  BY DEF RequestInv, Request
<1>2. t \in Assets
  BY <1>1, HyperFungibleTokenAssumption
<1>3. ContractToAsset[r.chain][r.contract] = t
  BY <1>1 DEF can_release, TableInv, ContractsKeepAsset
<1>4. Precisions[t][r.chain] = Token[r.contract].decimals /\ (is_native(t) <=> ~Wrapped(t))
  BY <1>1, <1>2, <1>3 DEF Configured
<1>5. x = r.amount \div ScaleOf(r.contract)
  BY <1>3, <1>4 DEF local_amount, convert_to_balance, ScaleOf
<1>6. ScaleOf(r.contract) \in Nat \ {0}
  BY <1>1, ScaleFits
<1>7. ASSUME NEW n \in Nat, NEW m \in Nat \ {0} PROVE n \div m \in Nat /\ (n \div m) * m <= n
  BY SMTT(30)
<1>8. x \in Nat /\ x * ScaleOf(r.contract) <= r.amount
  BY <1>1, <1>5, <1>6, <1>7
<1>9. PICK funds \in Funds, lost \in Dust : funds = balances /\ lost = dust_lost
  BY DEF CustodyInv
<1>10. CASE Wrapped(t)
  <2>1. /\ after_release(r, who) = mint_into(funds, t, who, x)
        /\ dust_after_release(r) = lost
    BY <1>3, <1>4, <1>9, <1>10 DEF after_release, dust_after_release
  <2>2. TakesIn(funds, mint_into(funds, t, who, x), t, -x)
    BY <1>2, <1>8, <1>10, MintGives
  <2>3. -x - 0 = -x /\ 0 \in Nat /\ lost[t] + 0 = lost[t]
    BY <1>2, <1>8, SMTT(30) DEF Dust
  <2>4. Loses(lost, lost, t, 0)
    BY <1>2, <2>3 DEF Loses, Dust
  <2> QED BY <1>2, <1>8, <1>9, <2>1, <2>2, <2>3, <2>4
<1>11. CASE ~Wrapped(t)
  <2> DEFINE left == funds[t][pallet_account] - x
             d == left - remaining(t, left)
             z == remaining(t, left) - funds[t][pallet_account]
  <2>1. /\ after_release(r, who) = transfer(funds, t, pallet_account, who, x)
        /\ dust_after_release(r) = [lost EXCEPT ![t] = lost[t] + d]
    BY <1>2, <1>3, <1>4, <1>9, <1>11 DEF after_release, dust_after_release, Dust
  <2>2. /\ x <= funds[t][pallet_account] /\ funds[t][pallet_account] \in Nat
        /\ who \in Holders /\ pallet_account \in Holders
    BY <1>2, <1>3, <1>4, <1>9, <1>11 DEF can_release, can_withdraw, Funds, Holders
  <2>3. left \in Nat
    BY <1>8, <2>2, SMTT(30)
  <2>4. remaining(t, left) \in Nat /\ remaining(t, left) <= left
    BY <1>2, <2>3, Remaining
  <2>5. d \in Nat /\ z \in Int /\ -x - d = z
    BY <1>8, <2>2, <2>4, SMTT(30)
  <2>6. TakesIn(funds, transfer(funds, t, pallet_account, who, x), t, z)
    BY <1>2, <1>8, <1>11, <2>2, <2>5, TransferTakes
  <2>7. Loses(lost, [lost EXCEPT ![t] = lost[t] + d], t, d)
    BY <1>11 DEF Loses
  <2> HIDE DEF d, z
  <2>8. /\ TakesIn(balances, after_release(r, who), t, -x - d)
        /\ Loses(dust_lost, dust_after_release(r), t, d)
    BY <1>9, <2>1, <2>5, <2>6, <2>7
  <2> QED BY <1>2, <1>8, <2>5, <2>8
<1> QED BY <1>10, <1>11

\* So the claims stay covered.
LEMMA AnswerSettles ==
    ASSUME RequestInv, CustodyInv, DecimalsFit, NEW r \in requests,
           requests' = requests \ {r}, abroad' = abroad,
           NEW t \in Assets, t = Token[r.contract].asset, NEW x \in Nat,
           x * ScaleOf(r.contract) <= r.amount, NEW d \in Nat,
           TakesIn(balances, balances', t, -x - d), Loses(dust_lost, dust_lost', t, d),
           BackedBy(balances, dust_lost, ClaimsNow)
    PROVE  BackedBy(balances', dust_lost', ClaimsNow')
<1>1. /\ r.chain \in StateMachines /\ r.contract \in Contracts /\ r.amount \in Nat
      /\ IsFiniteSet(requests') /\ \A q \in requests' : q.amount \in Nat
  BY FS_Subset DEF RequestInv, Request
<1>2. PICK R : R = requests'
  OBVIOUS
<1>3. PICK there \in There : there = abroad
  BY DEF CustodyInv
<1>4. PICK f, g, p : /\ f = ClaimsOf(there, R \cup {r}) /\ g = ClaimsOf(there, R)
                     /\ p = <<r.chain, r.contract>>
  OBVIOUS
<1>5. r \notin R /\ IsFiniteSet(R) /\ \A q \in R : q.amount \in Nat
  BY <1>1, <1>2
<1>6. /\ f \in [Pairs -> Int] /\ g \in [Pairs -> Int] /\ p \in Pairs
      /\ f[p] = g[p] + r.amount /\ \A q \in Pairs \ {p} : f[q] = g[q]
  BY <1>1, <1>4, <1>5, ClaimAdded, SMTT(30)
<1>7. f = ClaimsNow /\ g = ClaimsNow'
  BY <1>2, <1>3, <1>4, ClaimsCounted
<1>8. (g[p] - f[p]) * PerToken(p[2]) <= (-x) * Unit(t)
  BY <1>4, <1>1, UnitFits, ScaleFits, <1>6, SMTT(30)
<1>9. PICK funds \in Funds, h \in Funds, lost \in Dust, now \in {dust_lost'} :
         funds = balances /\ h = balances' /\ lost = dust_lost
  BY DEF CustodyInv, TakesIn
<1>10. /\ -x \in Int /\ t = Token[p[2]].asset /\ TakesIn(funds, h, t, -x - d)
       /\ Loses(lost, now, t, d) /\ BackedBy(funds, lost, f)
  <2>1. -x \in Int
    BY SMTT(30)
  <2> QED BY <1>4, <1>7, <1>9, <2>1
<1> QED BY <1>7, <1>9, <1>6, <1>8, <1>10, ClaimsSettled

\* on_timeout gives back, on_accept gives out and may then run a call, which
\* pays from one user to another.
LEMMA AnswerGives ==
    ASSUME TableInv, RequestInv, CustodyInv, Configured, DecimalsFit,
           NEW r \in requests, on_accept(r) \/ on_timeout(r)
    PROVE  \E t \in Assets, x \in Nat, d \in Nat :
              /\ t = Token[r.contract].asset /\ x * ScaleOf(r.contract) <= r.amount
              /\ TakesIn(balances, balances', t, -x - d)
              /\ Loses(dust_lost, dust_lost', t, d)
<1>1. PICK t, x : t = Token[r.contract].asset /\ x = local_amount(r)
  OBVIOUS
<1>2. r.from \in Users /\ r.to \in Users /\ (~r.outgoing => r.data \in Calldata)
  BY DEF RequestInv, Request
<1>3. ASSUME NEW who \in Users, can_release(r, who)
      PROVE  /\ t \in Assets /\ x \in Nat /\ x * ScaleOf(r.contract) <= r.amount
             /\ \E d \in Nat : /\ TakesIn(balances, after_release(r, who), t, -x - d)
                               /\ Loses(dust_lost, dust_after_release(r), t, d)
  BY <1>1, <1>3, ReleaseGives
<1>4. CASE on_timeout(r)
  BY <1>4, <1>1, <1>2, <1>3 DEF on_timeout
<1>5. CASE on_accept(r)
  <2> DEFINE paid == after_release(r, r.to)
             call == r.data
             origin == call_origin(r)
  <2>1. /\ t \in Assets /\ x \in Nat /\ x * ScaleOf(r.contract) <= r.amount
        /\ dust_lost' = dust_after_release(r)
    BY <1>2, <1>3, <1>5 DEF on_accept
  <2>2. PICK d \in Nat : /\ TakesIn(balances, paid, t, -x - d)
                         /\ Loses(dust_lost, dust_after_release(r), t, d)
    BY <1>2, <1>3, <1>5 DEF on_accept
  <2>3. CASE balances' = paid
    BY <1>1, <2>1, <2>2, <2>3
  <2>4. CASE balances' # paid
    <3>1. /\ call # None /\ call.amount <= paid[NativeAssetId][origin]
          /\ balances' = transfer(paid, NativeAssetId, origin, call.payee, call.amount)
      BY <1>5, <2>4 DEF on_accept
    <3>2. /\ call.payee \in Users /\ call.amount \in Nat /\ origin \in Users
          /\ NativeAssetId \in Assets
      BY <1>2, <1>5, <3>1, HyperFungibleTokenAssumption DEF call_origin, on_accept
    <3>3. PICK g \in Funds : g = paid
      BY <2>2 DEF TakesIn
    <3>4. PICK p \in Holders, q \in Holders, y \in Nat :
             p = origin /\ q = call.payee /\ y = call.amount
      BY <3>2 DEF Holders
    <3> HIDE DEF paid, origin, call
    <3>5. p \in Users /\ q \in Users /\ y <= g[NativeAssetId][p] /\ 0 \in Int
      <4>1. 0 \in Int
        BY SMTT(30)
      <4> QED BY <3>1, <3>2, <3>3, <3>4, <4>1
    <3>6. TakesIn(g, transfer(g, NativeAssetId, p, q, y), NativeAssetId, 0)
      BY <3>2, <3>5, TransferTakes
    <3>7. PICK f \in Funds, h \in Funds : f = balances /\ h = balances'
      BY <3>1, <3>3, <3>4, <3>6 DEF TakesIn, CustodyInv
    <3>8. /\ TakesIn(g, h, NativeAssetId, 0) /\ TakesIn(f, g, t, -x - d)
          /\ -x - d \in Int
      <4>1. -x - d \in Int
        BY <2>1, SMTT(30)
      <4> QED BY <2>2, <3>1, <3>3, <3>4, <3>6, <3>7, <4>1
    <3>9. TakesIn(f, h, t, -x - d)
      BY <2>1, <3>2, <3>8, TakesInTwice
    <3> QED BY <1>1, <2>1, <2>2, <3>7, <3>9
  <2> QED BY <2>3, <2>4
<1> QED BY <1>4, <1>5

\* send takes in what its request claims, and a fee.
LEMMA SendTakes ==
    ASSUME TableInv, balances \in Funds, Configured,
           NEW who \in Users, NEW to \in Users, NEW a \in Assets, NEW c \in StateMachines,
           NEW x \in Amounts, NEW fee \in Fees, send(who, a, c, to, x, fee)
    PROVE  TakesIn(balances, balances', a, x)
<1> DEFINE paid == IF is_native(a) THEN transfer(balances, a, who, pallet_account, x)
                   ELSE burn_from(balances, a, who, x)
<1>1. /\ TokenContracts[c][a] # None /\ can_withdraw(a, who, x)
      /\ fee <= paid[NativeAssetId][who]
      /\ balances' = burn_from(paid, NativeAssetId, who, fee)
  BY DEF send
<1>2. x \in Nat /\ fee \in Nat /\ x <= balances[a][who] /\ NativeAssetId \in Assets
  BY <1>1, HyperFungibleTokenAssumption DEF can_withdraw
<1>3. is_native(a) <=> ~Wrapped(a)
  BY <1>1, SMTT(30) DEF Configured, TableInv, TablesTyped
<1>5. TakesIn(balances, paid, a, x)
  BY <1>2, BurnTakes, <1>3, TransferTakes, SMTT(30) DEF Holders
<1>6. PICK f \in Funds, g \in Funds : f = balances /\ g = paid
  BY <1>5 DEF TakesIn
<1> HIDE DEF paid
<1>8. PICK h \in Funds : h = balances'
  BY <1>1, <1>6, <1>2, BurnTakes DEF TakesIn
<1> QED BY <1>6, <1>2, <1>1, <1>5, BurnTakes, TakesInTwice, SMTT(30) DEF Holders

\* The request of send claims, in the decimals of the contract, what send took.
LEMMA SentAmount ==
    ASSUME TableInv, Configured, NEW who \in Users, NEW to \in Users, NEW a \in Assets,
           NEW c \in StateMachines, NEW x \in Amounts, NEW fee \in Fees,
           send(who, a, c, to, x, fee), NEW r, Sent(r, who, a, c, to, x)
    PROVE  /\ r.contract \in Contracts /\ Token[r.contract].asset = a
           /\ ContractsKeepAsset /\ r.chain = c /\ r.contract = TokenContracts[c][a]
           /\ r.amount = x * ScaleOf(r.contract)
<1>1. TokenContracts[c][a] # None
  BY DEF send
<1> QED BY <1>1, SMTT(30)
           DEF TableInv, convert_to_erc20, ScaleOf, ContractsKeepAsset, Configured,
           TablesTyped, Sent

\* So the claims stay covered when it is sent.
LEMMA SendSettles ==
    ASSUME TableInv, RequestInv, CustodyInv, Configured, DecimalsFit,
           NEW who \in Users, NEW to \in Users, NEW a \in Assets, NEW c \in StateMachines,
           NEW x \in Amounts, NEW fee \in Fees, send(who, a, c, to, x, fee),
           BackedBy(balances, dust_lost, ClaimsNow)
    PROVE  BackedBy(balances', dust_lost', ClaimsNow')
<1>1. PICK r : Sent(r, who, a, c, to, x)
  BY DEF Sent
<1>2. Adds(r)
  BY <1>1, SendAdds
<1>5. Token[r.contract].asset = a /\ r.amount = x * ScaleOf(r.contract) /\ x \in Nat
  BY <1>1, SentAmount, HyperFungibleTokenAssumption, SMTT(30)
<1>6. PICK R : R = requests
  OBVIOUS
<1>7. PICK there \in There : there = abroad
  BY DEF CustodyInv
<1>8. PICK f, g, p : /\ f = ClaimsOf(there, R) /\ g = ClaimsOf(there, R \cup {r})
                     /\ p = <<r.chain, r.contract>>
  OBVIOUS
<1>10. /\ f \in [Pairs -> Int] /\ g \in [Pairs -> Int] /\ p \in Pairs
       /\ g[p] = f[p] + r.amount /\ \A q \in Pairs \ {p} : g[q] = f[q]
  BY <1>2, <1>8, <1>6, ClaimAdded, SMTT(30) DEF RequestInv, Request, Adds, send
<1>11. f = ClaimsNow /\ g = ClaimsNow'
  BY <1>2, <1>6, <1>7, <1>8, ClaimsCounted DEF Adds, send
<1>12. (g[p] - f[p]) * PerToken(p[2]) <= x * Unit(a)
  BY <1>8, <1>2, UnitFits, ScaleFits, <1>5, <1>10, SMTT(30) DEF RequestInv, Request, Adds
<1>13. dust_lost' = dust_lost
  BY DEF send
<1>14. PICK funds \in Funds, h \in Funds, lost \in Dust, now \in {dust_lost'} :
          funds = balances /\ h = balances' /\ lost = dust_lost
  BY SendTakes DEF CustodyInv, TakesIn
<1>15. PICK z \in Int, d \in Nat : z = x /\ d = 0 /\ z - d = x /\ lost[a] + d = lost[a]
  <2>1. x \in Int /\ 0 \in Nat /\ x - 0 = x /\ lost[a] + 0 = lost[a]
    BY <1>5, SMTT(30) DEF Dust
  <2> QED BY <2>1
<1>16. /\ a = Token[p[2]].asset /\ TakesIn(funds, h, a, z - d) /\ BackedBy(funds, lost, f)
       /\ Loses(lost, now, a, d)
  BY <1>5, <1>8, <1>11, SendTakes, <1>13, <1>14, <1>15 DEF CustodyInv, Loses, Dust
<1>17. (g[p] - f[p]) * PerToken(p[2]) <= z * Unit(a)
  BY <1>12, <1>15
<1>18. BackedBy(h, now, g)
  BY <1>10, <1>16, <1>17, ClaimsSettled, SMTT(30)
<1> QED BY <1>11, <1>14, <1>18

\* A request that a contract abroad takes, sends or gets back stays a claim.
LEMMA RemoteKeepsClaims ==
    ASSUME RequestInv, CustodyInv, NEW r \in requests, remote_accept(r) \/ remote_timeout(r)
    PROVE  ClaimsNow' = ClaimsNow
<1>1. /\ r.chain \in StateMachines /\ r.contract \in Contracts /\ r.amount \in Nat
      /\ \A q \in requests : q.amount \in Nat
  BY DEF RequestInv, Request
<1>2. PICK R : R = requests'
  OBVIOUS
<1>3. PICK there \in There : there = abroad
  BY DEF CustodyInv
<1>5. r \notin R /\ IsFiniteSet(R) /\ R \cup {r} = requests /\ \A q \in R : q.amount \in Nat
  BY <1>1, <1>2, FS_Subset DEF RequestInv, remote_accept, remote_timeout
<1>6. PICK after : Arrived(r, there, after)
  BY DEF Arrived
<1>7. abroad' = after
  BY <1>3, <1>6 DEF remote_timeout, Arrived, remote_accept, There
<1>8. ClaimsOf(after, R) = ClaimsOf(there, R \cup {r})
  BY <1>1, <1>5, <1>6, ClaimMoved, SMTT(30)
<1> QED BY <1>2, <1>3, <1>5, <1>7, <1>8, ClaimsCounted

\* Likewise for what it sends.
LEMMA RemoteSendKeepsClaims ==
    ASSUME RequestInv, CustodyInv, NEW c \in StateMachines, NEW k \in Contracts,
           NEW from \in Users, NEW to \in Users, NEW x \in RemoteAmounts, NEW data \in Calldata,
           remote_send(c, k, from, to, x, data)
    PROVE  ClaimsNow' = ClaimsNow
<1>1. PICK r : r = [nonce |-> dispatched, outgoing |-> FALSE, chain |-> c, contract |-> k,
                    from |-> from, to |-> to, amount |-> x, data |-> data]
  OBVIOUS
<1>2. Adds(r) /\ r.chain = c /\ r.contract = k /\ r.amount = x
  BY <1>1, RemoteSendAdds
<1>3. x \in Nat
  BY HyperFungibleTokenAssumption
<1>5. PICK R, there, after : R = requests /\ there = abroad' /\ after = abroad
  OBVIOUS
<1>6. there \in There /\ Arrived(r, there, after)
  <2>1. after \in There /\ there = [after EXCEPT ![c][k] = after[c][k] - x]
    BY <1>5 DEF CustodyInv, remote_send
  <2>2. after[c][k] \in Int /\ after[c][k] - x \in Int
    BY <1>3, <2>1, SMTT(30) DEF There
  <2>3. there \in There
    BY <2>1, <2>2 DEF There
  <2>4. [there EXCEPT ![c][k] = @ + x] = after
    <3>1. there[c][k] + x = after[c][k]
      BY <1>3, <2>1, SMTT(30) DEF There
    <3>2. [there EXCEPT ![c][k] = @ + x] = [there EXCEPT ![c][k] = after[c][k]]
      BY <3>1 DEF There
    <3>3. [there EXCEPT ![c][k] = after[c][k]] \in There
      BY <2>2, <2>3 DEF There
    <3>4. \A d \in StateMachines, l \in Contracts :
             [there EXCEPT ![c][k] = after[c][k]][d][l] = after[d][l]
      BY <2>1 DEF There
    <3>5. ASSUME NEW f \in There, NEW g \in There,
                 \A d \in StateMachines, l \in Contracts : f[d][l] = g[d][l]
          PROVE  f = g
      BY <3>5, SMTT(30) DEF There
    <3> QED BY <2>1, <3>2, <3>3, <3>4, <3>5
  <2> QED BY <1>2, <2>3, <2>4 DEF Arrived
<1> QED BY <1>2, <1>5, <1>6, ClaimMoved, ClaimsCounted, SMTT(30) DEF RequestInv, Request, Adds

\* What is abroad changes by what a contract takes or sends, and one that does
\* not wrap sends no more than it has.
LEMMA AbroadHolds ==
    ASSUME RequestInv, CustodyInv, NEW c \in StateMachines, NEW k \in Contracts, NEW z \in Int,
           ~Token[k].wraps => abroad[c][k] + z >= 0,
           abroad' = [abroad EXCEPT ![c][k] = abroad[c][k] + z]
    PROVE  /\ abroad' \in There
           /\ \A d \in StateMachines, l \in Contracts : ~Token[l].wraps => abroad'[d][l] >= 0
BY SMTT(30) DEF CustodyInv, There

\* Balances stay natural numbers: nothing is taken that is not there.
LEMMA FundsTyped ==
    ASSUME NEW f \in Funds, NEW t \in Assets, NEW p \in Holders, NEW q \in Holders, NEW x \in Nat
    PROVE  /\ mint_into(f, t, q, x) \in Funds
           /\ mint_into(f, t, q, x)[t][q] = f[t][q] + x
           /\ x <= f[t][p] => /\ burn_from(f, t, p, x) \in Funds
                              /\ transfer(f, t, p, q, x) \in Funds
                              /\ p # q => transfer(f, t, p, q, x)[t][q] = f[t][q] + x
<1>3. ASSUME x <= f[t][p] PROVE burn_from(f, t, p, x) \in Funds
  BY <1>3, Remaining, SMTT(30) DEF burn_from, Funds
<1>4. ASSUME x <= f[t][p]
      PROVE  /\ transfer(f, t, p, q, x) \in Funds
             /\ p # q => transfer(f, t, p, q, x)[t][q] = f[t][q] + x
  <2>1. PICK new \in [Holders -> Nat] : Moves(f, t, p, q, x, new)
    BY <1>4, Transferred
  <2> QED BY <2>1 DEF Funds, Moves
<1> QED BY <1>3, <1>4, SMTT(30) DEF mint_into, Funds

\* on_accept and on_timeout give the local amount to their beneficiary.
LEMMA Released ==
    ASSUME TableInv, RequestInv, balances \in Funds, NEW r \in requests, NEW who \in Users,
           can_release(r, who), NEW t, t = Token[r.contract].asset
    PROVE  /\ t \in Assets /\ ContractToAsset[r.chain][r.contract] = t
           /\ local_amount(r) \in Nat /\ after_release(r, who) \in Funds
           /\ after_release(r, who)[t][who] = balances[t][who] + local_amount(r)
<1>1. r.chain \in StateMachines /\ r.contract \in Contracts /\ r.amount \in Nat
  BY DEF RequestInv, Request
<1>2. t \in Assets /\ ContractToAsset[r.chain][r.contract] = t
  BY <1>1, HyperFungibleTokenAssumption DEF can_release, TableInv, ContractsKeepAsset
<1>3. PICK n \in Nat : n = scale(Precisions[t][r.chain], Decimals[t]) /\ n # 0
  <2>1. Precisions[t][r.chain] \in Nat /\ Decimals[t] \in Nat
    BY <1>1, <1>2, HyperFungibleTokenAssumption, SMTT(30) DEF can_release, TableInv, TablesTyped
  <2>2. scale(Precisions[t][r.chain], Decimals[t]) # 0
    BY <1>2 DEF can_release, can_convert
  <2> QED BY <2>1, <2>2, ScaleType
<1>4. local_amount(r) = r.amount \div n
  BY <1>2, <1>3 DEF local_amount, convert_to_balance
<1>5. PICK x \in Nat : x = local_amount(r)
  <2>1. ASSUME NEW i \in Nat, NEW j \in Nat \ {0} PROVE i \div j \in Nat
    BY SMTT(30)
  <2> QED BY <1>1, <1>3, <1>4, <2>1
<1>6. /\ who \in Holders /\ pallet_account \in Holders /\ who # pallet_account
      /\ is_native(t) => x <= balances[t][pallet_account]
  BY <1>2, <1>5, HyperFungibleTokenAssumption DEF Holders, can_release, can_withdraw
<1>8. PICK f \in Funds : f = balances
  OBVIOUS
<1> QED BY <1>2, <1>5, <1>6, FundsTyped, SMTT(30) DEF after_release

\* Whatever is sent, given out and paid.
LEMMA FundsHold ==
    ASSUME TableInv, RequestInv, balances \in Funds, [Next]_vars
    PROVE  balances' \in Funds
<1>1. ASSUME NEW who \in Users, NEW to \in Users, NEW a \in Assets, NEW c \in StateMachines,
             NEW x \in Amounts, NEW fee \in Fees, send(who, a, c, to, x, fee)
      PROVE  balances' \in Funds
  <2> DEFINE paid == IF is_native(a) THEN transfer(balances, a, who, pallet_account, x)
                     ELSE burn_from(balances, a, who, x)
  <2>1. /\ x <= balances[a][who] /\ fee <= paid[NativeAssetId][who]
        /\ balances' = burn_from(paid, NativeAssetId, who, fee)
    BY <1>1 DEF send, can_withdraw
  <2>2. /\ who \in Holders /\ pallet_account \in Holders /\ x \in Nat /\ fee \in Nat
        /\ NativeAssetId \in Assets
    BY HyperFungibleTokenAssumption DEF Holders
  <2>3. PICK f \in Funds : f = balances
    OBVIOUS
  <2>5. PICK g \in Funds : g = paid
    BY <2>1, <2>2, FundsTyped
  <2> HIDE DEF paid
  <2> QED BY <2>1, <2>5, <2>2, FundsTyped
<1>2. ASSUME NEW r \in requests, on_timeout(r) PROVE balances' \in Funds
  BY <1>2, Released DEF on_timeout, RequestInv, Request
<1>3. ASSUME NEW r \in requests, on_accept(r) PROVE balances' \in Funds
  <2> DEFINE paid == after_release(r, r.to)
             call == r.data
             origin == call_origin(r)
  <2>1. /\ r.from \in Users /\ r.to \in Users /\ can_release(r, r.to) /\ call \in Calldata
    BY <1>3 DEF on_accept, RequestInv, Request
  <2>3. CASE balances' = paid
    BY <2>1, Released, <2>3
  <2>4. CASE balances' # paid
    <3>1. /\ call # None /\ call.amount <= paid[NativeAssetId][origin]
          /\ balances' = transfer(paid, NativeAssetId, origin, call.payee, call.amount)
      BY <1>3, <2>4 DEF on_accept
    <3>3. PICK g \in Funds, p \in Holders, q \in Holders, y \in Nat :
             g = paid /\ p = origin /\ q = call.payee /\ y = call.amount
      BY <2>1, Released, <3>1, HyperFungibleTokenAssumption DEF Holders, call_origin
    <3> HIDE DEF paid, origin, call
    <3> QED BY <3>1, <3>3, HyperFungibleTokenAssumption, FundsTyped DEF call_origin
  <2> QED BY <2>3, <2>4
<1>4. ASSUME NEW r \in requests, remote_accept(r) \/ remote_timeout(r) PROVE balances' \in Funds
  BY <1>4 DEF remote_accept, remote_timeout
<1>5. ASSUME NEW c \in StateMachines, NEW k \in Contracts, NEW from \in Users, NEW to \in Users,
             NEW x \in RemoteAmounts, NEW data \in Calldata,
             remote_send(c, k, from, to, x, data)
      PROVE  balances' \in Funds
  BY <1>5 DEF remote_send
<1>6. ASSUME NEW registration \in Registrations, register_token(registration)
      PROVE  balances' \in Funds
  BY <1>6 DEF register_token
<1>7. ASSUME NEW update \in Updates, update_token(update) PROVE balances' \in Funds
  BY <1>7 DEF update_token
<1>8. CASE UNCHANGED vars
  BY <1>8 DEF vars
<1> QED BY <1>1, <1>2, <1>3, <1>4, <1>5, <1>6, <1>7, <1>8 DEF Next

\* Dust is lost, and does not come back.
LEMMA DustHolds ==
    ASSUME TableInv, RequestInv, CustodyInv, [Next]_vars
    PROVE  dust_lost' \in Dust
<1>1. ASSUME NEW r \in requests, NEW who \in Users, can_release(r, who)
      PROVE  dust_after_release(r) \in Dust
  <2>1. PICK t \in Assets : /\ t = Token[r.contract].asset
                            /\ ContractToAsset[r.chain][r.contract] = t
    BY <1>1, Released DEF CustodyInv
  <2>2. PICK x \in Nat : x = local_amount(r)
    BY <1>1, Released DEF CustodyInv
  <2>3. CASE ~is_native(t)
    BY <2>1, <2>3 DEF dust_after_release, CustodyInv
  <2>4. CASE is_native(t)
    <3> DEFINE left == balances[t][pallet_account] - x
    <3>1. x <= balances[t][pallet_account] /\ balances[t][pallet_account] \in Nat
      BY <1>1, <2>1, <2>2, <2>4 DEF can_release, can_withdraw, CustodyInv, Funds, Holders
    <3>2. left \in Nat
      BY <3>1, SMTT(30)
    <3>3. remaining(t, left) \in Nat /\ remaining(t, left) <= left
      BY <3>2, Remaining
    <3>4. dust_lost[t] + (left - remaining(t, left)) \in Nat
      BY <3>2, <3>3, SMTT(30) DEF CustodyInv, Dust
    <3>5. dust_after_release(r) =
             [dust_lost EXCEPT ![t] = dust_lost[t] + (left - remaining(t, left))]
      BY <2>1, <2>2, <2>4 DEF dust_after_release, CustodyInv, Dust
    <3> QED BY <3>4, <3>5 DEF CustodyInv, Dust
  <2> QED BY <2>3, <2>4
<1>2. ASSUME NEW r \in requests,
             on_accept(r) \/ on_timeout(r) \/ remote_accept(r) \/ remote_timeout(r)
      PROVE  dust_lost' \in Dust
  BY <1>1, <1>2
     DEF on_accept, on_timeout, remote_accept, remote_timeout, CustodyInv, RequestInv, Request
<1>3. ASSUME NEW who \in Users, NEW to \in Users, NEW a \in Assets, NEW c \in StateMachines,
             NEW x \in Amounts, NEW fee \in Fees, send(who, a, c, to, x, fee)
      PROVE  dust_lost' \in Dust
  BY <1>3 DEF send, CustodyInv
<1>4. ASSUME NEW c \in StateMachines, NEW k \in Contracts, NEW from \in Users, NEW to \in Users,
             NEW x \in RemoteAmounts, NEW data \in Calldata,
             remote_send(c, k, from, to, x, data)
      PROVE  dust_lost' \in Dust
  BY <1>4 DEF remote_send, CustodyInv
<1>5. ASSUME NEW registration \in Registrations, register_token(registration)
      PROVE  dust_lost' \in Dust
  BY <1>5 DEF register_token, CustodyInv
<1>6. ASSUME NEW update \in Updates, update_token(update) PROVE dust_lost' \in Dust
  BY <1>6 DEF update_token, CustodyInv
<1>7. CASE UNCHANGED vars
  BY <1>7 DEF vars, CustodyInv
<1> QED BY <1>2, <1>3, <1>4, <1>5, <1>6, <1>7 DEF Next

\* Neither balances nor what is abroad become less than nothing.
LEMMA CustodyHolds ==
    ASSUME TableInv, RequestInv, CustodyInv, [Next]_vars
    PROVE  CustodyInv'
<1>1. balances' \in Funds /\ dust_lost' \in Dust
  BY FundsHold, DustHolds DEF CustodyInv
<1>2. ASSUME NEW c \in StateMachines, NEW k \in Contracts, NEW z \in Int,
             ~Token[k].wraps => abroad[c][k] + z >= 0,
             abroad' = [abroad EXCEPT ![c][k] = abroad[c][k] + z]
      PROVE  CustodyInv'
  BY <1>1, <1>2, AbroadHolds DEF CustodyInv
<1>3. ASSUME UNCHANGED abroad PROVE CustodyInv'
  BY <1>1, <1>3 DEF CustodyInv
<1>4. ASSUME NEW r \in requests, remote_accept(r) \/ remote_timeout(r) PROVE CustodyInv'
  <2>1. PICK c \in StateMachines, k \in Contracts, z \in Nat :
           c = r.chain /\ k = r.contract /\ z = r.amount
    BY DEF RequestInv, Request
  <2>3. z \in Int /\ (~Token[k].wraps => abroad[c][k] + z >= 0)
    BY SMTT(30) DEF CustodyInv, There
  <2>4. abroad' = [abroad EXCEPT ![c][k] = abroad[c][k] + z]
    BY <1>4, <2>1 DEF remote_accept, remote_timeout, CustodyInv, There
  <2> QED BY <1>2, <2>3, <2>4
<1>5. ASSUME NEW c \in StateMachines, NEW k \in Contracts, NEW from \in Users, NEW to \in Users,
             NEW x \in RemoteAmounts, NEW data \in Calldata,
             remote_send(c, k, from, to, x, data)
      PROVE  CustodyInv'
  BY HyperFungibleTokenAssumption, <1>1, <1>5, SMTT(30) DEF CustodyInv, There, remote_send
<1>6. ASSUME NEW who \in Users, NEW to \in Users, NEW a \in Assets, NEW c \in StateMachines,
             NEW x \in Amounts, NEW fee \in Fees, send(who, a, c, to, x, fee)
      PROVE  UNCHANGED abroad
  BY <1>6 DEF send
<1>7. ASSUME NEW r \in requests, on_accept(r) \/ on_timeout(r) PROVE UNCHANGED abroad
  BY <1>7 DEF on_accept, on_timeout
<1>8. ASSUME NEW registration \in Registrations, register_token(registration)
      PROVE  UNCHANGED abroad
  BY <1>8 DEF register_token
<1>9. ASSUME NEW update \in Updates, update_token(update) PROVE UNCHANGED abroad
  BY <1>9 DEF update_token
<1>10. CASE UNCHANGED vars
  BY <1>3, <1>10 DEF vars
<1> QED BY <1>3, <1>4, <1>5, <1>6, <1>7, <1>8, <1>9, <1>10 DEF Next

\* The balances cover the claims, and what that rests on.
CoveredInv == CustodyInv /\ BackedBy(balances, dust_lost, ClaimsNow)

\* Every step keeps the claims covered, while the routes are configured.
LEMMA CoveredHolds ==
    ASSUME DecimalsFit, TableInv, RequestInv, CoveredInv, Configured, [Next]_vars
    PROVE  CoveredInv'
<1>0. CustodyInv /\ BackedBy(balances, dust_lost, ClaimsNow)
  BY DEF CoveredInv
<1> SUFFICES BackedBy(balances', dust_lost', ClaimsNow')
  BY CustodyHolds DEF BackedBy, Worth, Minted, CoveredInv
<1>2. ASSUME UNCHANGED <<balances, dust_lost>>, ClaimsNow' = ClaimsNow
      PROVE  BackedBy(balances', dust_lost', ClaimsNow')
  BY <1>0, <1>2
<1>3. ASSUME UNCHANGED <<balances, dust_lost, requests, abroad>>
      PROVE  BackedBy(balances', dust_lost', ClaimsNow')
  BY <1>3, ClaimsCounted, <1>2
<1>4. ASSUME NEW who \in Users, NEW to \in Users, NEW a \in Assets, NEW c \in StateMachines,
             NEW x \in Amounts, NEW fee \in Fees, send(who, a, c, to, x, fee)
      PROVE  BackedBy(balances', dust_lost', ClaimsNow')
  BY <1>0, <1>4, SendSettles
<1>5. ASSUME NEW r \in requests, on_accept(r) \/ on_timeout(r)
      PROVE  BackedBy(balances', dust_lost', ClaimsNow')
  BY <1>0, <1>5, AnswerGives, AnswerSettles DEF on_accept, on_timeout
<1>6. ASSUME NEW r \in requests, remote_accept(r) \/ remote_timeout(r)
      PROVE  BackedBy(balances', dust_lost', ClaimsNow')
  BY <1>0, <1>6, RemoteKeepsClaims DEF remote_accept, remote_timeout
<1>7. ASSUME NEW c \in StateMachines, NEW k \in Contracts, NEW from \in Users, NEW to \in Users,
             NEW x \in RemoteAmounts, NEW data \in Calldata,
             remote_send(c, k, from, to, x, data)
      PROVE  BackedBy(balances', dust_lost', ClaimsNow')
  <2>1. ClaimsNow' = ClaimsNow /\ UNCHANGED <<balances, dust_lost>>
    BY <1>0, <1>7, RemoteSendKeepsClaims DEF remote_send
  <2> QED BY <1>2, <2>1
<1>8. CASE UNCHANGED vars
  BY <1>3, <1>8 DEF vars
<1>9. ASSUME NEW registration \in Registrations, register_token(registration)
      PROVE  BackedBy(balances', dust_lost', ClaimsNow')
  BY <1>3, <1>9 DEF register_token
<1>10. ASSUME NEW update \in Updates, update_token(update)
      PROVE  BackedBy(balances', dust_lost', ClaimsNow')
  BY <1>3, <1>10 DEF update_token
<1> QED BY <1>4, <1>5, <1>6, <1>7, <1>8, <1>9, <1>10 DEF Next

\* Of an asset that is wrapped abroad nothing circulates here at genesis.
NoneMinted == \A a \in Assets, u \in Users : Wrapped(a) => Endowment[a][u] = 0

\* At genesis there are no claims.
LEMMA CoveredInit == ASSUME DecimalsFit, NoneMinted, Init PROVE CoveredInv
<1>1. balances \in Funds
  BY HyperFungibleTokenAssumption, SMTT(30) DEF Init, Funds, Holders
<1>3. dust_lost \in Dust /\ \A a \in Assets : dust_lost[a] = 0
  BY SMTT(30) DEF Init, Dust
<1>2. /\ abroad \in There /\ requests = {}
      /\ \A c \in StateMachines, k \in Contracts : abroad[c][k] = 0
  BY SMTT(30) DEF Init, There
<1>4. ASSUME NEW r \in Pairs PROVE ClaimsNow[r] = 0
  BY <1>2, SumEmpty, ClaimsCounted, SMTT(30) DEF Open, UnderWay, Pairs, ClaimsOf
<1>5. ASSUME NEW a \in Assets PROVE Worth(ClaimsNow, a) = 0
  <2>1. IsFiniteSet(Pairs) /\ Routes(a) \subseteq Pairs
    BY FS_Product, HyperFungibleTokenAssumption DEF Pairs, Routes
  <2>2. ASSUME NEW r \in Routes(a) PROVE ClaimsNow[r] * PerToken(r[2]) = 0
    BY <1>4, <2>1, UnitFits, SMTT(30) DEF Pairs
  <2> QED BY <2>2, <2>1, FS_Subset, SumZero, SMTT(30) DEF Worth
<1>6. ASSUME NEW a \in Assets, Wrapped(a) PROVE Minted(balances, a) = 0
  <2>1. \A h \in Holders : balances[a][h] = 0
    BY <1>6 DEF Init, NoneMinted, Holders
  <2> QED BY <1>1, <2>1, HoldersFinite, SumZero DEF Minted, Funds
<1>7. ASSUME NEW a \in Assets
      PROVE  IF Wrapped(a) THEN Minted(balances, a) * Unit(a) + Worth(ClaimsNow, a) <= 0
             ELSE Worth(ClaimsNow, a) <= (balances[a][pallet_account] + dust_lost[a]) * Unit(a)
  <2>1. Unit(a) \in Nat /\ balances[a][pallet_account] = 0 /\ dust_lost[a] = 0
    BY <1>3, UnitFits DEF Init, Holders
  <2> QED BY <1>5, <1>6, <2>1, SMTT(30)
<1>8. CustodyInv
  BY <1>1, <1>2, <1>3, SMTT(30) DEF CustodyInv
<1> QED BY <1>7, <1>8 DEF CoveredInv, BackedBy

\* Custody covers every claim on an asset that is native here, and of a wrapped
\* one no more circulates than is locked abroad, for all contracts, decimals,
\* amounts and calls, and however requests are delivered, time out and cross:
\* send, on_accept and on_timeout never give out more than came in, as long as
\* the routes are configured with the decimals and the custody they have.
\* Custody is short of no more than the dust it lost, for all minimum balances.
THEOREM ClaimsStayBacked ==
    ASSUME DecimalsFit, NoneMinted
    PROVE  Spec /\ []Configured => []Covered
<1>1. Init => TableInv /\ RequestInv /\ CoveredInv
  BY FS_EmptySet, InitHolds, CoveredInit, SMTT(30) DEF Init, RequestInv, IInv
<1>2. TableInv /\ RequestInv /\ CoveredInv /\ Configured /\ [Next]_vars
        => (TableInv /\ RequestInv /\ CoveredInv)'
  BY CoveredHolds, TablesAndRequests
<1>3. CoveredInv => Covered
  BY CoveredViewed DEF CoveredInv
<1> QED BY <1>1, <1>2, <1>3, PTL DEF Spec

-----------------------------------------------------------------------------
(* Refunds.                                                                *)

\* A request that send dispatched is for a whole amount of the local asset.
WholeInv ==
    \A r \in requests : r.outgoing => \E n \in Amounts : r.amount = n * ScaleOf(r.contract)

\* send converts with the decimals of the contract.
LEMMA WholeHolds ==
    ASSUME TableInv, RequestInv, WholeInv, Configured, [Next]_vars
    PROVE  WholeInv'
<1>1. ASSUME requests' \subseteq requests PROVE WholeInv'
  BY <1>1 DEF WholeInv
<1>2. ASSUME NEW who \in Users, NEW to \in Users, NEW a \in Assets, NEW c \in StateMachines,
             NEW x \in Amounts, NEW fee \in Fees, send(who, a, c, to, x, fee)
      PROVE  WholeInv'
  <2>1. PICK r : Sent(r, who, a, c, to, x)
    BY DEF Sent
  <2>2. requests' = requests \cup {r}
    BY <1>2, <2>1 DEF send, Sent
  <2>3. r.amount = x * ScaleOf(r.contract)
    BY <1>2, <2>1, SentAmount, SMTT(30)
  <2> QED BY <2>2, <2>3 DEF WholeInv
<1>3. ASSUME NEW r \in requests, Handles(r) PROVE requests' \subseteq requests
  BY <1>3, HandleHolds
<1>4. ASSUME NEW c \in StateMachines, NEW k \in Contracts, NEW from \in Users, NEW to \in Users,
             NEW x \in RemoteAmounts, NEW data \in Calldata,
             remote_send(c, k, from, to, x, data)
      PROVE  WholeInv'
  <2>1. PICK r : r = [nonce |-> dispatched, outgoing |-> FALSE, chain |-> c, contract |-> k,
                      from |-> from, to |-> to, amount |-> x, data |-> data]
    OBVIOUS
  <2>2. requests' = requests \cup {r} /\ ~r.outgoing
    BY <1>4, <2>1 DEF remote_send
  <2> QED BY <2>2 DEF WholeInv
<1>5. ASSUME NEW registration \in Registrations, register_token(registration)
      PROVE  requests' \subseteq requests
  BY <1>5 DEF register_token
<1>6. ASSUME NEW update \in Updates, update_token(update) PROVE requests' \subseteq requests
  BY <1>6 DEF update_token
<1>7. CASE UNCHANGED vars
  BY <1>1, <1>7 DEF vars
<1> QED BY <1>1, <1>2, <1>3, <1>4, <1>5, <1>6, <1>7 DEF Next, Handles

\* on_timeout divides what send multiplied.  What arrives abroad is not refunded,
\* and only an amount of zero leaves what is abroad as it was.
LEMMA StepRefunds ==
    ASSUME TableInv, RequestInv, CustodyInv, WholeInv, Configured, [Next]_vars
    PROVE  RefundsInFull
<1> SUFFICES ASSUME NEW r \in requests \ requests', r.outgoing, abroad' = abroad,
                    NEW t, t = Token[r.contract].asset
             PROVE  (balances'[t][r.from] - balances[t][r.from]) * ScaleOf(r.contract) = r.amount
  BY DEF RefundsInFull, ScaleOf
<1>1. /\ r.chain \in StateMachines /\ r.contract \in Contracts /\ r.amount \in Nat
      /\ r.from \in Users /\ t \in Assets /\ balances \in Funds /\ abroad \in There
  BY HyperFungibleTokenAssumption DEF RequestInv, Request, CustodyInv
<1>2. PICK b \in Nat : b = balances[t][r.from]
  BY <1>1 DEF Funds, Holders
<1>3. PICK m \in Nat : m = ScaleOf(r.contract)
  BY <1>1, ScaleType, HyperFungibleTokenAssumption DEF ScaleOf
<1>4. ASSUME on_timeout(r)
      PROVE  (balances'[t][r.from] - balances[t][r.from]) * ScaleOf(r.contract) = r.amount
  <2>1. can_release(r, r.from) /\ balances' = after_release(r, r.from)
    BY <1>4 DEF on_timeout
  <2>2. /\ ContractToAsset[r.chain][r.contract] = t /\ local_amount(r) \in Nat
        /\ balances'[t][r.from] = b + local_amount(r)
    BY <1>1, <1>2, <2>1, Released
  <2>3. Precisions[t][r.chain] = Token[r.contract].decimals
    BY <1>1, <2>2, SMTT(30) DEF Configured
  <2>4. local_amount(r) = r.amount \div m /\ m # 0
    BY <1>3, <2>1, <2>2, <2>3
       DEF local_amount, convert_to_balance, can_release, can_convert, ScaleOf
  <2>5. PICK n \in Nat : r.amount = n * m
    BY <1>3, HyperFungibleTokenAssumption DEF WholeInv
  <2> QED BY <1>3, <2>5, <1>2, <2>2, <2>4, SMTT(30)
<1>5. ASSUME remote_accept(r)
      PROVE  (balances'[t][r.from] - balances[t][r.from]) * ScaleOf(r.contract) = r.amount
  <2>1. PICK c \in StateMachines, k \in Contracts, y \in Nat :
           c = r.chain /\ k = r.contract /\ y = r.amount
    BY <1>1
  <2>2. abroad' = [abroad EXCEPT ![c][k] = abroad[c][k] + y] /\ balances' = balances
    BY <1>5, <2>1 DEF remote_accept
  <2>3. abroad[c][k] = abroad[c][k] + y /\ abroad[c][k] \in Int
    BY <1>1, <2>2, SMTT(30) DEF There
  <2> QED BY <1>3, <2>1, <2>3, <1>2, <2>2, SMTT(30)
<1>6. ASSUME NEW q \in requests, Handles(q) PROVE on_timeout(r) \/ remote_accept(r)
  BY <1>6, HandleHolds DEF Handles, on_accept, remote_timeout
<1>7. ASSUME requests \subseteq requests' PROVE FALSE
  BY <1>7
<1>8. ASSUME NEW who \in Users, NEW to \in Users, NEW a \in Assets, NEW c \in StateMachines,
             NEW x \in Amounts, NEW fee \in Fees, send(who, a, c, to, x, fee)
      PROVE  FALSE
  BY <1>8 DEF send
<1>9. ASSUME NEW c \in StateMachines, NEW k \in Contracts, NEW from \in Users, NEW to \in Users,
             NEW x \in RemoteAmounts, NEW data \in Calldata,
             remote_send(c, k, from, to, x, data)
      PROVE  FALSE
  BY <1>9 DEF remote_send
<1>10. ASSUME NEW registration \in Registrations, register_token(registration) PROVE FALSE
  BY <1>10 DEF register_token
<1>11. ASSUME NEW update \in Updates, update_token(update) PROVE FALSE
  BY <1>11 DEF update_token
<1>12. ~UNCHANGED vars
  BY DEF vars
<1> QED BY <1>4, <1>5, <1>6, <1>8, <1>9, <1>10, <1>11, <1>12 DEF Next, Handles

\* At genesis nothing is under way.
LEMMA RefundInit == Init => TableInv /\ RequestInv /\ CustodyInv /\ WholeInv
<1> SUFFICES ASSUME Init PROVE TableInv /\ RequestInv /\ CustodyInv /\ WholeInv
  OBVIOUS
<1>1. TableInv
  BY InitHolds DEF IInv
<1> QED BY <1>1, FS_EmptySet, HyperFungibleTokenAssumption, SMTT(30)
           DEF Init, CustodyInv, There, Dust,
           Funds, Holders, RequestInv, WholeInv

\* on_timeout gives back exactly what send took, for all decimals and amounts,
\* and whatever happened to the routes meanwhile, as long as they are configured.
THEOREM RefundsAreExact == Spec /\ []Configured => [][RefundsInFull]_vars
<1> DEFINE J == TableInv /\ RequestInv /\ CustodyInv /\ WholeInv
<1>1. Init => J
  BY RefundInit
<1>2. J /\ Configured /\ [Next]_vars => J' /\ RefundsInFull
  BY TablesAndRequests, CustodyHolds, WholeHolds, StepRefunds
<1> QED BY <1>1, <1>2, PTL DEF Spec

-----------------------------------------------------------------------------
(* True configurations.                                                    *)

\* The tables and the requests, if tokens are registered and updated with what
\* their contracts are.
TrueInv == IInv /\ ConfiguredInv /\ RequestInv

\* No request is under way at genesis, and no route exists.
LEMMA TrueInit == Init => TrueInv
BY ConfigurationAssumption, InitHolds, FS_EmptySet, SMTT(30)
DEF TrueInv, Init, ConfiguredInv, RequestInv

\* Until a registration replaces a contract, the routes are configured.
LEMMA TrueHolds ==
    ASSUME WellConfigured, TrueInv
    PROVE  /\ TableInv /\ RequestInv
           /\ overwritten = {} => Configured
           /\ [Next]_vars => TrueInv' /\ (overwritten' = {} => overwritten = {})
<1>1. TableInv /\ RequestInv /\ (overwritten = {} => Configured)
  BY RoutesConfigured DEF TrueInv, IInv
<1>2. ASSUME [Next]_vars PROVE TrueInv' /\ (overwritten' = {} => overwritten = {})
  BY <1>1, <1>2, StepHolds, ConfiguredHolds, TablesAndRequests, OverwrittenGrows DEF TrueInv
<1> QED BY <1>1, <1>2

\* on_timeout gives back exactly what send took, if tokens are registered and
\* updated with what their contracts are, as long as no registration replaced
\* the contract of a route.
THEOREM ConfiguredRefundsAreExact ==
    ASSUME WellConfigured
    PROVE  Spec => RefundIsExact
<1> DEFINE J == TrueInv /\ CustodyInv /\ (overwritten = {} => WholeInv)
<1>1. Init => J
  BY TrueInit, RefundInit
<1>2. J /\ [Next]_vars => J' /\ (overwritten = {} => RefundsInFull)
  <2> SUFFICES ASSUME J, [Next]_vars PROVE J' /\ (overwritten = {} => RefundsInFull)
    OBVIOUS
  <2>1. /\ TableInv /\ RequestInv /\ TrueInv'
        /\ overwritten = {} => Configured /\ WholeInv
        /\ overwritten' = {} => overwritten = {}
    BY TrueHolds
  <2>2. CustodyInv'
    BY <2>1, CustodyHolds
  <2>3. ASSUME overwritten = {} PROVE WholeInv' /\ RefundsInFull
    BY <2>1, <2>3, WholeHolds, StepRefunds
  <2> QED BY <2>1, <2>2, <2>3
<1> QED BY <1>1, <1>2, PTL DEF Spec, RefundIsExact

\* Custody, with the dust it lost, covers every claim, for all minimum balances,
\* if tokens are registered and updated with what their contracts are, as long
\* as no registration replaced the contract of a route.
THEOREM ConfiguredClaimsStayBacked ==
    ASSUME DecimalsFit, NoneMinted, WellConfigured
    PROVE  Spec => []Backed
<1> DEFINE J == TrueInv /\ (overwritten = {} => CoveredInv)
<1>1. Init => J
  BY TrueInit, CoveredInit
<1>2. J /\ [Next]_vars => J'
  <2> SUFFICES ASSUME J, [Next]_vars PROVE J'
    OBVIOUS
  <2>1. /\ TableInv /\ RequestInv /\ TrueInv'
        /\ overwritten = {} => Configured /\ CoveredInv
        /\ overwritten' = {} => overwritten = {}
    BY TrueHolds
  <2>2. ASSUME overwritten = {} PROVE CoveredInv'
    BY <2>1, <2>2, CoveredHolds
  <2> QED BY <2>1, <2>2
<1>3. J => Backed
  BY CoveredViewed DEF CoveredInv, Backed
<1> QED BY <1>1, <1>2, <1>3, PTL DEF Spec

-----------------------------------------------------------------------------
(* Refunds are possible.                                                   *)

\* A contract that is sent to is known, and so is the one a request left for.
RouteStays ==
    /\ \A c \in StateMachines, a \in Assets, k \in Contracts :
          TokenContracts[c][a] = k => ContractToAsset[c][k] = a
    /\ \A r \in requests : r.outgoing =>
          ContractToAsset[r.chain][r.contract] = Token[r.contract].asset

\* Only update_token takes a route away.
LEMMA RouteHolds ==
    ASSUME Updates = {}, TableInv, RequestInv, RouteStays, Configured, [Next]_vars
    PROVE  RouteStays'
<1>1. ASSUME requests' \subseteq requests, UNCHANGED tables PROVE RouteStays'
  BY <1>1, SMTT(30) DEF RouteStays, tables
<1>2. ASSUME NEW who \in Users, NEW to \in Users, NEW a \in Assets, NEW c \in StateMachines,
             NEW x \in Amounts, NEW fee \in Fees, send(who, a, c, to, x, fee)
      PROVE  RouteStays'
  <2>1. PICK r : Sent(r, who, a, c, to, x)
    BY DEF Sent
  <2>2. requests' = requests \cup {r} /\ UNCHANGED <<ContractToAsset, TokenContracts>>
    BY <1>2, <2>1 DEF send, Sent, tables
  <2>3. /\ r.contract \in Contracts /\ Token[r.contract].asset = a
        /\ r.chain = c /\ r.contract = TokenContracts[c][a]
    BY <1>2, <2>1, SentAmount, SMTT(30)
  <2>4. ContractToAsset[c][r.contract] = a
    BY <2>3 DEF RouteStays
  <2> QED BY <2>2, <2>3, <2>4 DEF RouteStays
<1>3. ASSUME NEW registration \in Registrations, register_token(registration)
      PROVE  RouteStays'
  <2> DEFINE asset == registration.local_id
             chains == registration.chains
  <2>1. asset \in Assets /\ ChainConfigs(chains, asset) /\ requests' = requests
    BY <1>3, ConfigurationAssumption DEF register_token
  <2>2. \A c \in StateMachines, k \in Contracts :
           ContractToAsset'[c][k] = IF c \in DOMAIN chains /\ chains[c].token_contract = k
                                    THEN asset ELSE ContractToAsset[c][k]
    BY <1>3, <2>1, InsertedAssets, SMTT(30) DEF TableInv, TablesTyped, register_token
  <2>3. ASSUME NEW r \in requests, r.outgoing
        PROVE  ContractToAsset'[r.chain][r.contract] = Token[r.contract].asset
    <3>1. r.chain \in StateMachines /\ r.contract \in Contracts
      BY DEF RequestInv, Request
    <3>2. ContractToAsset[r.chain][r.contract] = Token[r.contract].asset
      BY <2>3 DEF RouteStays
    <3> QED BY <2>1, <2>2, <3>1, <3>2, SMTT(30) DEF ChainConfigs
  <2>4. \A c \in StateMachines, a \in Assets :
           TokenContracts'[c][a] = IF a = asset /\ c \in DOMAIN chains
                                   THEN chains[c].token_contract ELSE TokenContracts[c][a]
    <3>1. /\ TokenContracts' = insert_contracts(TokenContracts, asset, chains)
          /\ TokenContracts \in [StateMachines -> [Assets -> Contracts \cup {None}]]
      BY <1>3 DEF TableInv, TablesTyped, register_token
    <3> QED BY <2>1, <3>1, InsertedContracts, SMTT(30)
  <2>5. ASSUME NEW c \in StateMachines, NEW a \in Assets, NEW k \in Contracts,
               TokenContracts'[c][a] = k
        PROVE  ContractToAsset'[c][k] = a
    <3>1. CASE a = asset /\ c \in DOMAIN chains
      BY <2>2, <2>4, <2>5, <3>1
    <3>2. CASE ~(a = asset /\ c \in DOMAIN chains)
      <4>1. TokenContracts[c][a] = k
        BY <2>4, <2>5, <3>2
      <4>2. ContractToAsset[c][k] = a /\ Token[k].asset = a
        BY <4>1, SMTT(30) DEF RouteStays, TableInv, ContractsKeepAsset
      <4> QED BY <2>1, <2>2, <4>2, SMTT(30) DEF ChainConfigs
    <3> QED BY <3>1, <3>2
  <2> QED BY <2>1, <2>3, <2>5 DEF RouteStays
<1>4. ASSUME NEW r \in requests, Handles(r) PROVE RouteStays'
  BY <1>1, <1>4, HandleHolds
<1>5. ASSUME NEW c \in StateMachines, NEW k \in Contracts, NEW from \in Users, NEW to \in Users,
             NEW x \in RemoteAmounts, NEW data \in Calldata,
             remote_send(c, k, from, to, x, data)
      PROVE  RouteStays'
  <2>1. PICK r : r = [nonce |-> dispatched, outgoing |-> FALSE, chain |-> c, contract |-> k,
                      from |-> from, to |-> to, amount |-> x, data |-> data]
    OBVIOUS
  <2>2. /\ requests' = requests \cup {r} /\ ~r.outgoing
        /\ UNCHANGED <<ContractToAsset, TokenContracts>>
    BY <1>5, <2>1 DEF remote_send, tables
  <2> QED BY <2>2 DEF RouteStays
<1>6. CASE UNCHANGED vars
  BY <1>1, <1>6 DEF vars
<1>7. ASSUME NEW update \in Updates PROVE FALSE
  BY <1>7
<1> QED BY <1>2, <1>3, <1>4, <1>5, <1>6, <1>7 DEF Next, Handles

\* A claim of an asset that is native here is at most all claims on it, since
\* the contracts of such an asset owe nothing.
LEMMA ClaimIsPart ==
    ASSUME DecimalsFit, RequestInv, CustodyInv, NEW r \in requests, NEW t \in Assets,
           t = Token[r.contract].asset, ~Wrapped(t)
    PROVE  /\ Worth(ClaimsNow, t) \in Nat
           /\ r.amount * PerToken(r.contract) <= Worth(ClaimsNow, t)
<1>1. /\ r.chain \in StateMachines /\ r.contract \in Contracts /\ r.amount \in Nat
      /\ IsFiniteSet(requests) /\ \A q \in requests : q.amount \in Nat
  BY DEF RequestInv, Request
<1>2. PICK R : R = requests \ {r}
  OBVIOUS
<1>3. r \notin R /\ IsFiniteSet(R) /\ R \cup {r} = requests /\ \A q \in R : q.amount \in Nat
  BY <1>1, <1>2, FS_Subset
<1>4. ASSUME NEW c, NEW k
      PROVE  /\ UnderWay(requests, c, k) \in Nat
             /\ r.chain = c /\ r.contract = k => r.amount <= UnderWay(requests, c, k)
  BY <1>1, <1>3, UnderWayAdd, SMTT(30)
<1>5. PICK p : p = <<r.chain, r.contract>>
  OBVIOUS
<1>6. p \in Pairs /\ p[1] = r.chain /\ p[2] = r.contract /\ p \in Routes(t)
  BY <1>1, <1>5 DEF Pairs, Routes
<1>7. ASSUME NEW q \in Routes(t)
      PROVE  ClaimsNow[q] \in Nat /\ (q = p => r.amount <= ClaimsNow[q])
  BY ClaimsCounted, <1>4, <1>6, <1>1, SMTT(30)
     DEF Pairs, Routes, Wrapped, CustodyInv, There, ClaimsOf
<1> DEFINE F == [q \in Routes(t) |-> ClaimsNow[q] * PerToken(q[2])]
<1>8. \A q \in Routes(t) : F[q] \in Nat
  BY <1>7, UnitFits, SMTT(30) DEF Routes, Pairs
<1>9. IsFiniteSet(Routes(t))
  <2>1. IsFiniteSet(Pairs) /\ Routes(t) \subseteq Pairs
    BY FS_Product, HyperFungibleTokenAssumption DEF Pairs, Routes
  <2> QED BY <2>1, FS_Subset
<1>10. Worth(ClaimsNow, t) = SumFunctionOnSet(F, Routes(t))
  BY DEF Worth
<1>11. r.amount * PerToken(r.contract) <= F[p] /\ F[p] \in Nat
  BY <1>1, <1>6, <1>7, UnitFits, SMTT(30)
<1> HIDE DEF F
<1>13. SumFunctionOnSet(F, Routes(t)) \in Nat /\ F[p] <= SumFunctionOnSet(F, Routes(t))
  BY <1>6, <1>8, <1>9, SumType, SumPart
<1> QED BY <1>10, <1>11, <1>1, UnitFits, <1>13, SMTT(30)

\* Custody has what the refund takes, if no dust was lost.
LEMMA CustodySuffices ==
    ASSUME DecimalsFit, RequestInv, CoveredInv, NEW r \in requests, NEW n \in Nat,
           r.amount = n * ScaleOf(r.contract), NEW t \in Assets, t = Token[r.contract].asset,
           ~Wrapped(t), dust_lost[t] = 0
    PROVE  n <= balances[t][pallet_account]
<1>1. r.contract \in Contracts /\ CustodyInv
  BY DEF RequestInv, Request, CoveredInv
<1>2. PICK b \in Nat : b = balances[t][pallet_account]
  BY <1>1 DEF CustodyInv, Funds, Holders
<1>3. PICK m \in Nat, i \in Nat, u \in Nat \ {0} :
         m = ScaleOf(r.contract) /\ i = PerToken(r.contract) /\ u = Unit(t) /\ m * i = u
  BY <1>1, ScaleFits, UnitFits, SMTT(30)
<1>4. PICK w \in Nat : w = Worth(ClaimsNow, t) /\ r.amount * i <= w
  BY <1>1, <1>3, ClaimIsPart
<1>5. w <= b * u
  BY <1>2, <1>3, <1>4, SMTT(30) DEF CoveredInv, BackedBy
<1> QED BY <1>2, <1>3, <1>4, <1>5, SMTT(30)

\* So on_timeout finds everything it needs.
LEMMA RefundReady ==
    ASSUME DecimalsFit, \A x \in Amounts : x < 2 ^ Width,
           TableInv, RequestInv, CoveredInv, WholeInv, RouteStays, Configured
    PROVE  RefundPossible
<1> SUFFICES ASSUME NEW r \in requests, r.outgoing, NEW token, token = Token[r.contract],
                    can_receive(token.asset, r.from,
                        convert_to_balance(r.amount, token.decimals, Decimals[token.asset])),
                    dust_lost[token.asset] = 0
             PROVE  can_release(r, r.from)
  BY DEF RefundPossible
<1>1. /\ r.chain \in StateMachines /\ r.contract \in Contracts /\ r.amount \in Nat
      /\ r.from \in Users
  BY DEF RequestInv, Request
<1>2. PICK t \in Assets : t = Token[r.contract].asset /\ dust_lost[t] = 0
  BY <1>1, HyperFungibleTokenAssumption
<1>3. ContractToAsset[r.chain][r.contract] = t /\ t # None
  BY <1>2, ConfigurationAssumption DEF RouteStays
<1>4. /\ Precisions[t][r.chain] = Token[r.contract].decimals
      /\ Precisions[t][r.chain] # None
      /\ is_native(t) <=> ~Wrapped(t)
  BY <1>1, <1>3, HyperFungibleTokenAssumption, ConfigurationAssumption, SMTT(30) DEF Configured
<1>5. PICK m \in Nat \ {0} :
         m = ScaleOf(r.contract) /\ m = scale(Precisions[t][r.chain], Decimals[t])
  BY <1>1, <1>2, <1>4, ScaleFits DEF ScaleOf
<1>6. PICK n \in Amounts : r.amount = n * m
  BY <1>5 DEF WholeInv
<1>7. n \in Nat /\ n < 2 ^ Width
  BY HyperFungibleTokenAssumption
<1>8. r.amount \div m = n
  BY <1>5, <1>6, <1>7, SMTT(30)
<1>9. can_convert(r.amount, Precisions[t][r.chain], Decimals[t])
  BY <1>5, <1>7, <1>8 DEF can_convert
<1>10. local_amount(r) = n
  BY <1>3, <1>5, <1>8 DEF local_amount, convert_to_balance
<1>11. is_native(t) => can_withdraw(t, pallet_account, n)
  BY <1>2, <1>4, <1>5, <1>6, <1>7, CustodySuffices DEF can_withdraw
<1>12. can_receive(t, r.from, n)
  BY <1>2, <1>5, <1>8 DEF convert_to_balance, ScaleOf
<1> QED BY <1>3, <1>4, <1>9, <1>10, <1>11, <1>12 DEF can_release

\* As long as a request is under way, its timeout can be handled (tests.rs:377):
\* the route is there, the amount converts back, and custody has it, for all
\* minimum balances and all amounts that are balances, if tokens are registered
\* with what their contracts are and not updated, no registration replaced the
\* contract of a route, custody lost none of the asset as dust, and the refund
\* does not leave the sender below the minimum.
THEOREM RefundsStayPossible ==
    ASSUME DecimalsFit, NoneMinted, WellConfigured, \A x \in Amounts : x < 2 ^ Width,
           Updates = {}
    PROVE  Spec => []RefundPossible
<1> DEFINE K == CoveredInv /\ WholeInv /\ RouteStays
           J == TrueInv /\ (overwritten = {} => K)
<1>1. Init => J
  BY ConfigurationAssumption, TrueInit, CoveredInit, RefundInit, SMTT(30) DEF Init, RouteStays
<1>2. J /\ [Next]_vars => J'
  <2> SUFFICES ASSUME J, [Next]_vars PROVE J'
    OBVIOUS
  <2>1. /\ TableInv /\ RequestInv /\ TrueInv'
        /\ overwritten = {} => Configured /\ CoveredInv /\ WholeInv /\ RouteStays
        /\ overwritten' = {} => overwritten = {}
    BY TrueHolds
  <2>2. ASSUME overwritten = {} PROVE CoveredInv' /\ WholeInv' /\ RouteStays'
    BY <2>1, <2>2, CoveredHolds, WholeHolds, RouteHolds
  <2> QED BY <2>1, <2>2
<1>3. J => RefundPossible
  <2> SUFFICES ASSUME J PROVE RefundPossible
    OBVIOUS
  <2>1. CASE overwritten = {}
    BY <2>1, TrueHolds, RefundReady
  <2>2. CASE overwritten # {}
    BY <2>2 DEF RefundPossible
  <2> QED BY <2>1, <2>2
<1> QED BY <1>1, <1>2, <1>3, PTL DEF Spec
=============================================================================
