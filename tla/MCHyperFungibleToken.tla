------------------------- MODULE MCHyperFungibleToken -------------------------
(* Instances of HyperFungibleToken for TLC.                                *)
EXTENDS HyperFungibleToken

CONSTANTS alice, bob, native, foreign, c1, c2, k1, k2, k3

\* k1 has one decimal more than the native asset has here, k2 one less; k3 wraps
\* an original that is foreign here.
MCToken ==
    [k \in Contracts |->
        IF k = k1 THEN [asset |-> native, decimals |-> 2, wraps |-> FALSE]
        ELSE IF k = k2 THEN [asset |-> native, decimals |-> 0, wraps |-> FALSE]
        ELSE [asset |-> foreign, decimals |-> 2, wraps |-> TRUE]]

MCDecimals == [a \in Assets |-> 1]
MinTwo == [a \in Assets |-> IF a = native THEN 2 ELSE 1]

MCEndowment ==
    [a \in Assets |-> [u \in Users |-> IF a = native /\ u = alice THEN 4 ELSE 0]]
CallsEndowment ==
    [a \in Assets |-> [u \in Users |-> IF a = native THEN 4 ELSE 0]]

config(contract) == [token_contract |-> contract, decimals |-> MCToken[contract].decimals]

on(chain, contract) == [c \in {chain} |-> config(contract)]

\* The native currency, on two chains or on one.
RegisterNative ==
    [local_id |-> native, native |-> TRUE,
     chains |-> [c \in {c1, c2} |-> config(IF c = c1 THEN k1 ELSE k2)]]
RegisterOnOne(contract) ==
    [local_id |-> native, native |-> TRUE, chains |-> on(c1, contract)]
RegisterForeign ==
    [local_id |-> foreign, native |-> FALSE, chains |-> on(c1, k3)]

\* The second one replaces the contract that the first one has on c1.
CustodyRegistrations == {RegisterNative, RegisterOnOne(k2)}
CallsRegistrations == {RegisterOnOne(k1), RegisterForeign}

\* Change the contract on the first chain, remove the chain, or both at once.
MCUpdates ==
    {[asset_id |-> native, add_chains |-> on(c1, k), remove_chains |-> {}] : k \in {k1, k2}}
    \cup {[asset_id |-> native, add_chains |-> [c \in {} |-> config(k1)], remove_chains |-> {c1}],
          [asset_id |-> native, add_chains |-> on(c1, k2), remove_chains |-> {c1, c2}]}
NoUpdates == {}

NoCalls == {None}
\* Alice signs a payment to Bob with each of their first two nonces; an unsigned
\* call is in the name of its sender.
MCCalls ==
    {None, [signer |-> None, nonce |-> 0, payee |-> bob, amount |-> 1]}
    \cup {[signer |-> alice, nonce |-> n, payee |-> bob, amount |-> 1] : n \in 0 .. 1}
=============================================================================
