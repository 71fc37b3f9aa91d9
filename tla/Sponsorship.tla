----------------------------- MODULE Sponsorship -----------------------------
(***************************************************************************)
(* pallet-existential-sponsorship: a sponsor moves funds onto a hold in a  *)
(* beneficiary's account, so that the account exists without being able to *)
(* spend them, and gets them back by unlocking, by force, when the lease   *)
(* expires or when the auto-unlock condition is met.                       *)
(*                                                                         *)
(* A call that returns an error changes nothing (dispatch is               *)
(* transactional), so each call is an action guarded by all of its checks. *)
(* on_initialize is a loop over two bounded queues; it is a sequence of    *)
(* steps, one per queue entry, during which `phase` disables every call.   *)
(* The queues hold no account twice, so they are sets here, and the loops  *)
(* visit their entries in any order.                                       *)
(***************************************************************************)
EXTENDS Balances, FiniteSets, Functions

CONSTANTS
    Accounts,
    MinSponsorship, SponsorMinRemaining,
    MaxTotalSponsoredPerSponsor, MaxSponsoredAccountsPerSponsor,
    MaxSponsoredAmountPerBlock, MaxNewSponsorshipsPerBlock,
    MaxLeaseDuration, MaxQueueProcessingPerBlock,
    SponsorshipStorageDeposit,
    Endowment,        \* the free balance of each account at genesis
    Amounts,          \* the amounts callers sponsor
    Payments,         \* the amounts callers transfer
    Modes, Leases,    \* the policies callers ask for
    MaxBlock          \* the last block of the model

ASSUME SponsorshipAssumption ==
    /\ IsFiniteSet(Accounts)
    /\ {MinSponsorship, SponsorMinRemaining, MaxTotalSponsoredPerSponsor,
        MaxSponsoredAccountsPerSponsor, MaxSponsoredAmountPerBlock,
        MaxNewSponsorshipsPerBlock, MaxLeaseDuration,
        MaxQueueProcessingPerBlock, SponsorshipStorageDeposit, MaxBlock} \subseteq Nat
    /\ Amounts \subseteq Nat
    /\ Payments \subseteq Nat
    /\ Endowment \in [Accounts -> Nat]
    /\ \A a \in Accounts : Endowment[a] = 0 \/ Endowment[a] >= ExistentialDeposit

VARIABLES
    now,                 \* frame_system::block_number
    accounts,            \* the balances and provider references
    Sponsorships,        \* beneficiary |-> record, for the sponsored beneficiaries
    SponsorLedger,
    StorageDepositHeld,
    Expirations,         \* block |-> the beneficiaries whose lease ends there
    AutoUnlockQueue,
    phase,               \* what the runtime is executing
    pending,             \* the entries the current loop of on_initialize has left
    requeue,             \* the entries process_auto_unlock_queue puts back
    processed            \* the entries process_auto_unlock_queue has handled

pallet == <<Sponsorships, SponsorLedger, StorageDepositHeld, Expirations, AutoUnlockQueue>>
hook == <<phase, pending, requeue, processed>>
vars == <<now, accounts, pallet, hook>>

-----------------------------------------------------------------------------
(* Types.                                                                  *)

AutoUnlockCondition == {"SpendableGeSponsored", "FreeGeSponsored"}

AutoUnlockMode == AutoUnlockCondition \cup {"Disabled"}

Block == 0 .. MaxBlock + MaxLeaseDuration

\* An optional block: Lease::None is the empty set, Lease::Until(e) is {e}.
Until(end) == {end}

Lease == {{}} \cup {Until(end) : end \in Block}

ASSUME PolicyAssumption == Modes \subseteq AutoUnlockMode /\ Leases \subseteq Lease

SponsorshipRecord ==
    [sponsor: Accounts, amount: Nat, auto_unlock: AutoUnlockMode,
     lease: Lease, created_at: Block]

SponsorState ==
    [active_amount: Nat, active_count: Nat, last_block: Block,
     sponsored_amount_in_block: Nat, new_sponsorships_in_block: Nat]

-----------------------------------------------------------------------------
(* Helpers.                                                                *)

is_sponsored(beneficiary) == beneficiary \in DOMAIN Sponsorships

sponsored_amount(beneficiary) ==
    IF is_sponsored(beneficiary) THEN Sponsorships[beneficiary].amount ELSE 0

sponsored_by(sponsor) == {b \in DOMAIN Sponsorships : Sponsorships[b].sponsor = sponsor}

\* Variant: the existential deposit is not considered.
minimum_sponsorship_configured == MinSponsorship

minimum_sponsorship ==
    IF MinSponsorship > ExistentialDeposit THEN MinSponsorship ELSE ExistentialDeposit

validate_lease(lease) ==
    \A end \in lease : end >= now /\ end - now <= MaxLeaseDuration

\* Variants: a new block resets the running totals too; every call resets the
\* counters.
refresh_resets_totals(ledger) ==
    IF ledger.last_block = now THEN ledger
    ELSE [active_amount |-> 0, active_count |-> 0, last_block |-> now,
          sponsored_amount_in_block |-> 0, new_sponsorships_in_block |-> 0]

refresh_on_every_call(ledger) ==
    [ledger EXCEPT !.last_block = now,
                   !.sponsored_amount_in_block = 0,
                   !.new_sponsorships_in_block = 0]

\* The per-block counters start again in a sponsor's first call of a block.
refresh_per_block_ledger(ledger) ==
    IF ledger.last_block = now THEN ledger
    ELSE [active_amount |-> ledger.active_amount, active_count |-> ledger.active_count,
          last_block |-> now,
          sponsored_amount_in_block |-> 0, new_sponsorships_in_block |-> 0]

\* BoundedVec::try_push after a contains test.
can_push(queue, beneficiary) ==
    beneficiary \in queue \/ Cardinality(queue) < MaxQueueProcessingPerBlock

insert_expiration(buckets, beneficiary, lease) ==
    [e \in Block |-> IF e \in lease THEN buckets[e] \cup {beneficiary} ELSE buckets[e]]

\* Variant: the old entry stays.
remove_expiration_forgotten(buckets, beneficiary, lease) == buckets

remove_expiration(buckets, beneficiary, lease) ==
    [e \in Block |-> IF e \in lease THEN buckets[e] \ {beneficiary} ELSE buckets[e]]

enqueue_auto_unlock(queue, beneficiary, auto_unlock) ==
    IF auto_unlock = "Disabled" THEN queue ELSE queue \cup {beneficiary}

dequeue_auto_unlock(queue, beneficiary) == queue \ {beneficiary}

auto_unlock_condition_met(beneficiary) ==
    LET record == Sponsorships[beneficiary]
    IN  \/ /\ record.auto_unlock = "SpendableGeSponsored"
           /\ reducible_balance(accounts[beneficiary], "Preserve") >= record.amount
        \/ /\ record.auto_unlock = "FreeGeSponsored"
           /\ accounts[beneficiary].free >= record.amount

-----------------------------------------------------------------------------
(* Creating and ending a sponsorship.                                      *)

\* The checks of do_sponsor, in the order the code makes them; the last two
\* are the QueueFull errors of its two index updates.
can_sponsor(sponsor, beneficiary, amount, auto_unlock, lease) ==
    LET ledger == refresh_per_block_ledger(SponsorLedger[sponsor])
        total_deduction == amount + SponsorshipStorageDeposit
    IN  /\ ~is_sponsored(beneficiary)
        /\ amount >= minimum_sponsorship
        /\ validate_lease(lease)
        /\ ledger.active_amount + amount <= MaxTotalSponsoredPerSponsor
        /\ ledger.active_count + 1 <= MaxSponsoredAccountsPerSponsor
        /\ ledger.sponsored_amount_in_block + amount <= MaxSponsoredAmountPerBlock
        /\ ledger.new_sponsorships_in_block + 1 <= MaxNewSponsorshipsPerBlock
        /\ reducible_balance(accounts[sponsor], "Preserve") >= total_deduction
        /\ accounts[sponsor].free - total_deduction >= SponsorMinRemaining
        /\ hold_available(inc_providers(accounts[beneficiary]))
        /\ SponsorshipStorageDeposit > 0 => hold_available(accounts[sponsor])
        /\ \A e \in lease : can_push(Expirations[e], beneficiary)
        /\ auto_unlock # "Disabled" => can_push(AutoUnlockQueue, beneficiary)

\* Variants: the hold is put on the sponsor; the provider reference is missing.
sponsor_funds_held_by_sponsor(sponsor, beneficiary, amount) ==
    LET referenced == [accounts EXCEPT ![beneficiary] = inc_providers(@)]
        held == [referenced EXCEPT ![sponsor] = hold(@, "Sponsorship", amount)]
    IN  [held EXCEPT ![sponsor] = hold(@, "StorageDeposit", SponsorshipStorageDeposit)]

sponsor_funds_unreferenced(sponsor, beneficiary, amount) ==
    LET debited == [accounts EXCEPT ![sponsor] = decrease_balance(@, amount)]
        held == [debited EXCEPT ![beneficiary] =
                    increase_balance_on_hold(@, "Sponsorship", amount)]
    IN  [held EXCEPT ![sponsor] = hold(@, "StorageDeposit", SponsorshipStorageDeposit)]

\* What do_sponsor does to the accounts: the provider reference first, so that
\* an account that does not exist yet can be given a hold.
sponsor_funds(sponsor, beneficiary, amount) ==
    LET referenced == [accounts EXCEPT ![beneficiary] = inc_providers(@)]
        debited == [referenced EXCEPT ![sponsor] = decrease_balance(@, amount)]
        held == [debited EXCEPT ![beneficiary] =
                    increase_balance_on_hold(@, "Sponsorship", amount)]
    IN  [held EXCEPT ![sponsor] = hold(@, "StorageDeposit", SponsorshipStorageDeposit)]

do_sponsor(sponsor, beneficiary, amount, auto_unlock, lease) ==
    LET ledger == refresh_per_block_ledger(SponsorLedger[sponsor])
        record == [sponsor |-> sponsor, amount |-> amount,
                   auto_unlock |-> auto_unlock, lease |-> lease, created_at |-> now]
    IN  /\ can_sponsor(sponsor, beneficiary, amount, auto_unlock, lease)
        /\ accounts' = sponsor_funds(sponsor, beneficiary, amount)
        /\ StorageDepositHeld' = [StorageDepositHeld EXCEPT
                                    ![beneficiary] = SponsorshipStorageDeposit]
        /\ Sponsorships' = [b \in DOMAIN Sponsorships \cup {beneficiary} |->
                                IF b = beneficiary THEN record ELSE Sponsorships[b]]
        /\ SponsorLedger' = [SponsorLedger EXCEPT ![sponsor] =
                [active_amount |-> ledger.active_amount + amount,
                 active_count |-> ledger.active_count + 1,
                 last_block |-> ledger.last_block,
                 sponsored_amount_in_block |-> ledger.sponsored_amount_in_block + amount,
                 new_sponsorships_in_block |-> ledger.new_sponsorships_in_block + 1]]
        /\ Expirations' = insert_expiration(Expirations, beneficiary, lease)
        /\ AutoUnlockQueue' = enqueue_auto_unlock(AutoUnlockQueue, beneficiary, auto_unlock)

\* Variant: the hold is written without the account being looked at again.
unheld_in_place(beneficiary) ==
    [accounts EXCEPT ![beneficiary].held["Sponsorship"] =
        @ - Sponsorships[beneficiary].amount]

\* What revoke_sponsorship does to the accounts, call by call.  A failing
\* dec_providers is ignored.
unheld(beneficiary) ==
    [accounts EXCEPT ![beneficiary] =
        decrease_balance_on_hold(@, "Sponsorship", Sponsorships[beneficiary].amount)]

\* Variant: the held funds stay with the beneficiary.
repaid_to_beneficiary(beneficiary) ==
    [unheld(beneficiary) EXCEPT ![beneficiary] =
        increase_balance(@, Sponsorships[beneficiary].amount)]

repaid(beneficiary) ==
    LET record == Sponsorships[beneficiary]
    IN  [unheld(beneficiary) EXCEPT ![record.sponsor] = increase_balance(@, record.amount)]

\* Variants: the deposit is released in the wrong account; not at all.
released_from_beneficiary(beneficiary) ==
    [repaid(beneficiary) EXCEPT ![beneficiary] =
        release(@, "StorageDeposit", StorageDepositHeld[beneficiary])]

released_never(beneficiary) == repaid(beneficiary)

released(beneficiary) ==
    [repaid(beneficiary) EXCEPT ![Sponsorships[beneficiary].sponsor] =
        release(@, "StorageDeposit", StorageDepositHeld[beneficiary])]

revoke_funds(beneficiary) ==
    [released(beneficiary) EXCEPT ![beneficiary] = dec_providers(@)]

\* The errors revoke_sponsorship can return: CannotTransferOnHold and
\* StorageDepositFailed.
can_revoke(beneficiary) ==
    LET record == Sponsorships[beneficiary]
        deposit == StorageDepositHeld[beneficiary]
        sponsor == repaid(beneficiary)[record.sponsor]
    IN  /\ accounts[beneficiary].held["Sponsorship"] >= record.amount
        /\ can_deposit(accounts[record.sponsor], record.amount)
        /\ sponsor.held["StorageDeposit"] >= deposit
        /\ can_deposit(sponsor, deposit)

\* saturating_sub.
monus(x, y) == IF x > y THEN x - y ELSE 0

revoke_sponsorship(beneficiary) ==
    LET record == Sponsorships[beneficiary]
        ledger == SponsorLedger[record.sponsor]
    IN  /\ is_sponsored(beneficiary)
        /\ can_revoke(beneficiary)
        /\ accounts' = revoke_funds(beneficiary)
        /\ StorageDepositHeld' = [StorageDepositHeld EXCEPT ![beneficiary] = 0]
        /\ Sponsorships' = Restrict(Sponsorships, DOMAIN Sponsorships \ {beneficiary})
        /\ Expirations' = remove_expiration(Expirations, beneficiary, record.lease)
        /\ AutoUnlockQueue' = dequeue_auto_unlock(AutoUnlockQueue, beneficiary)
        /\ SponsorLedger' = [SponsorLedger EXCEPT ![record.sponsor] =
                [active_amount |-> monus(ledger.active_amount, record.amount),
                 active_count |-> monus(ledger.active_count, 1),
                 last_block |-> ledger.last_block,
                 sponsored_amount_in_block |-> ledger.sponsored_amount_in_block,
                 new_sponsorships_in_block |-> ledger.new_sponsorships_in_block]]

-----------------------------------------------------------------------------
(* The calls.  Genesis may create sponsorships too, and nothing else.      *)

Calls == phase = "extrinsics" /\ UNCHANGED <<now, hook>>

genesis_build(sponsor_, beneficiary, amount, auto_unlock, lease) ==
    /\ phase = "genesis" /\ UNCHANGED <<now, hook>>
    /\ do_sponsor(sponsor_, beneficiary, amount, auto_unlock, lease)

sponsor(caller, beneficiary, amount, auto_unlock, lease) ==
    /\ Calls
    /\ do_sponsor(caller, beneficiary, amount, auto_unlock, lease)

sponsor_minimum(caller, beneficiary, auto_unlock, lease) ==
    /\ Calls
    /\ do_sponsor(caller, beneficiary, minimum_sponsorship, auto_unlock, lease)

unlock(caller, beneficiary) ==
    /\ Calls
    /\ is_sponsored(beneficiary)
    /\ caller = Sponsorships[beneficiary].sponsor
    /\ revoke_sponsorship(beneficiary)

force_unlock(beneficiary) ==
    /\ Calls
    /\ revoke_sponsorship(beneficiary)

\* try_auto_unlock_internal, which anyone may call.
refresh(beneficiary) ==
    /\ Calls
    /\ is_sponsored(beneficiary)
    /\ auto_unlock_condition_met(beneficiary)
    /\ revoke_sponsorship(beneficiary)

\* SponsorshipProvider: what other pallets call, inside an extrinsic.
create_sponsorship(sponsor_, beneficiary, amount, auto_unlock, lease) ==
    /\ Calls
    /\ do_sponsor(sponsor_, beneficiary, amount, auto_unlock, lease)

sponsor_of(beneficiary) ==
    IF is_sponsored(beneficiary) THEN {Sponsorships[beneficiary].sponsor} ELSE {}

unlock_sponsorship(sponsor_, beneficiary) ==
    /\ Calls
    /\ sponsor_ \in sponsor_of(beneficiary)
    /\ revoke_sponsorship(beneficiary)

try_auto_unlock(beneficiary) == refresh(beneficiary)

set_policy(caller, beneficiary, auto_unlock, lease) ==
    LET record == Sponsorships[beneficiary]
    IN  /\ Calls
        /\ is_sponsored(beneficiary)
        /\ caller = record.sponsor
        /\ validate_lease(lease)
        /\ lease # record.lease => \A e \in lease : can_push(Expirations[e], beneficiary)
        /\ auto_unlock # "Disabled" => can_push(AutoUnlockQueue, beneficiary)
        /\ Expirations' =
                IF lease = record.lease THEN Expirations
                ELSE remove_expiration(insert_expiration(Expirations, beneficiary, lease),
                                       beneficiary, record.lease)
        /\ AutoUnlockQueue' = enqueue_auto_unlock(AutoUnlockQueue, beneficiary, auto_unlock)
        /\ Sponsorships' = [Sponsorships EXCEPT ![beneficiary] =
                [[@ EXCEPT !.auto_unlock = auto_unlock] EXCEPT !.lease = lease]]
        /\ UNCHANGED <<accounts, SponsorLedger, StorageDepositHeld>>

\* Balances::transfer_allow_death, which spends and receives free balance.
transfer_allow_death(source, dest, amount) ==
    /\ Calls
    /\ source # dest
    /\ amount <= reducible_balance(accounts[source], "Expendable")
    /\ can_deposit(accounts[dest], amount)
    /\ accounts' = [accounts EXCEPT ![source] = decrease_balance(@, amount),
                                    ![dest] = increase_balance(@, amount)]
    /\ UNCHANGED pallet

-----------------------------------------------------------------------------
(* on_initialize.                                                          *)

\* Variant: the bucket of the block before is taken.
begin_block_behind ==
    /\ phase \in {"genesis", "extrinsics"}
    /\ now < MaxBlock
    /\ now' = now + 1
    /\ phase' = "expirations"
    /\ pending' = Expirations[now]
    /\ Expirations' = [Expirations EXCEPT ![now] = {}]
    /\ UNCHANGED <<accounts, Sponsorships, SponsorLedger, StorageDepositHeld,
                   AutoUnlockQueue, requeue, processed>>

\* A block begins and process_expirations takes the bucket of the block.
begin_block ==
    /\ phase \in {"genesis", "extrinsics"}
    /\ now < MaxBlock
    /\ now' = now + 1
    /\ phase' = "expirations"
    /\ pending' = Expirations[now + 1]
    /\ Expirations' = [Expirations EXCEPT ![now + 1] = {}]
    /\ UNCHANGED <<accounts, Sponsorships, SponsorLedger, StorageDepositHeld,
                   AutoUnlockQueue, requeue, processed>>

\* An entry whose sponsorship is gone, or has another lease by now, is skipped;
\* so is one whose revocation fails.
process_expiration(beneficiary) ==
    /\ phase = "expirations"
    /\ beneficiary \in pending
    /\ pending' = pending \ {beneficiary}
    /\ IF /\ is_sponsored(beneficiary)
          /\ Sponsorships[beneficiary].lease = Until(now)
          /\ can_revoke(beneficiary)
       THEN revoke_sponsorship(beneficiary)
       ELSE UNCHANGED <<accounts, pallet>>
    /\ UNCHANGED <<now, phase, requeue, processed>>

\* Variant: the count of processed entries starts at one.
take_auto_unlock_queue_from_one ==
    /\ phase = "expirations"
    /\ pending = {}
    /\ phase' = "auto_unlock"
    /\ pending' = AutoUnlockQueue
    /\ AutoUnlockQueue' = {}
    /\ requeue' = {}
    /\ processed' = 1
    /\ UNCHANGED <<now, accounts, Sponsorships, SponsorLedger, StorageDepositHeld, Expirations>>

take_auto_unlock_queue ==
    /\ phase = "expirations"
    /\ pending = {}
    /\ phase' = "auto_unlock"
    /\ pending' = AutoUnlockQueue
    /\ AutoUnlockQueue' = {}
    /\ requeue' = {}
    /\ processed' = 0
    /\ UNCHANGED <<now, accounts, Sponsorships, SponsorLedger, StorageDepositHeld, Expirations>>

\* An entry that is not sponsored or has auto-unlock disabled is dropped; one
\* that is not revoked, or cannot be, is put back.
process_auto_unlock(beneficiary) ==
    /\ phase = "auto_unlock"
    /\ beneficiary \in pending
    /\ processed < MaxQueueProcessingPerBlock
    /\ pending' = pending \ {beneficiary}
    /\ processed' = processed + 1
    /\ IF ~is_sponsored(beneficiary) \/ Sponsorships[beneficiary].auto_unlock = "Disabled"
       THEN UNCHANGED <<accounts, pallet, requeue>>
       ELSE IF auto_unlock_condition_met(beneficiary) /\ can_revoke(beneficiary)
       THEN revoke_sponsorship(beneficiary) /\ UNCHANGED requeue
       ELSE requeue' = requeue \cup {beneficiary} /\ UNCHANGED <<accounts, pallet>>
    /\ UNCHANGED <<now, phase>>

\* Variant: the entries that were looked at are not put back.
put_auto_unlock_queue_unprocessed ==
    /\ phase = "auto_unlock"
    /\ pending = {} \/ processed >= MaxQueueProcessingPerBlock
    /\ phase' = "extrinsics"
    /\ AutoUnlockQueue' = pending
    /\ pending' = {}
    /\ requeue' = {}
    /\ processed' = 0
    /\ UNCHANGED <<now, accounts, Sponsorships, SponsorLedger, StorageDepositHeld, Expirations>>

put_auto_unlock_queue ==
    /\ phase = "auto_unlock"
    /\ pending = {} \/ processed >= MaxQueueProcessingPerBlock
    /\ phase' = "extrinsics"
    /\ AutoUnlockQueue' = pending \cup requeue
    /\ pending' = {}
    /\ requeue' = {}
    /\ processed' = 0
    /\ UNCHANGED <<now, accounts, Sponsorships, SponsorLedger, StorageDepositHeld, Expirations>>

on_initialize ==
    \/ begin_block
    \/ \E b \in pending : process_expiration(b)
    \/ take_auto_unlock_queue
    \/ \E b \in pending : process_auto_unlock(b)
    \/ put_auto_unlock_queue

-----------------------------------------------------------------------------
Init ==
    /\ now = 0
    /\ accounts = [a \in Accounts |-> EndowedAccount(Endowment[a])]
    /\ Sponsorships = <<>>
    /\ SponsorLedger = [a \in Accounts |->
            [active_amount |-> 0, active_count |-> 0, last_block |-> 0,
             sponsored_amount_in_block |-> 0, new_sponsorships_in_block |-> 0]]
    /\ StorageDepositHeld = [a \in Accounts |-> 0]
    /\ Expirations = [e \in Block |-> {}]
    /\ AutoUnlockQueue = {}
    /\ phase = "genesis"
    /\ pending = {}
    /\ requeue = {}
    /\ processed = 0

Next ==
    \/ \E s, b \in Accounts, x \in Amounts, m \in Modes, l \in Leases :
          \/ genesis_build(s, b, x, m, l)
          \/ sponsor(s, b, x, m, l)
          \/ create_sponsorship(s, b, x, m, l)
    \/ \E s, b \in Accounts, m \in Modes, l \in Leases :
          \/ sponsor_minimum(s, b, m, l)
          \/ set_policy(s, b, m, l)
    \/ \E s, b \in Accounts : unlock(s, b) \/ unlock_sponsorship(s, b)
    \/ \E b \in Accounts : force_unlock(b) \/ refresh(b) \/ try_auto_unlock(b)
    \/ \E a, b \in Accounts, x \in Payments : transfer_allow_death(a, b, x)
    \/ on_initialize

Spec == Init /\ [][Next]_vars

\* Collators keep producing blocks, and a block runs on_initialize to its end;
\* no user has to do anything.
FairSpec == Spec /\ WF_vars(on_initialize)

-----------------------------------------------------------------------------
(* Properties.                                                             *)

\* Every variable has its type.  Blocks, counters and queues stay within
\* their bounds.
TypeOK ==
    /\ now \in 0 .. MaxBlock
    /\ accounts \in [Accounts -> AccountInfo]
    /\ DOMAIN Sponsorships \subseteq Accounts
    /\ Sponsorships \in [DOMAIN Sponsorships -> SponsorshipRecord]
    /\ SponsorLedger \in [Accounts -> SponsorState]
    /\ StorageDepositHeld \in [Accounts -> Nat]
    /\ Expirations \in [Block -> SUBSET Accounts]
    /\ AutoUnlockQueue \subseteq Accounts
    /\ phase \in {"genesis", "expirations", "auto_unlock", "extrinsics"}
    /\ pending \subseteq Accounts
    /\ requeue \subseteq Accounts
    /\ processed \in Nat

\* What is on hold in an account under the Sponsorship reason is exactly what
\* its record says, and enough for the account to exist on it: do_sponsor and
\* revoke_sponsorship keep pallet storage and pallet_balances in step, for
\* chains, cycles and self-sponsorship too.
HoldBacksRecord ==
    \A a \in Accounts :
        /\ accounts[a].held["Sponsorship"] = sponsored_amount(a)
        /\ is_sponsored(a) => sponsored_amount(a) >= ExistentialDeposit

\* A sponsor's storage deposits on hold are one deposit for each account it
\* sponsors, each recorded under the beneficiary that will release it.
DepositPerSponsorship ==
    \A a \in Accounts :
        /\ accounts[a].held["StorageDeposit"]
                = SponsorshipStorageDeposit * Cardinality(sponsored_by(a))
        /\ StorageDepositHeld[a] = IF is_sponsored(a) THEN SponsorshipStorageDeposit ELSE 0

\* The ledger counts what is there (its saturating subtractions never
\* saturate), so the two caps of do_sponsor bound the real totals.
LedgerIsExact ==
    \A s \in Accounts :
        /\ SponsorLedger[s].active_count = Cardinality(sponsored_by(s))
        /\ SponsorLedger[s].active_count <= MaxSponsoredAccountsPerSponsor
        /\ SponsorLedger[s].active_amount
                = SumFunctionOnSet([b \in sponsored_by(s) |-> Sponsorships[b].amount],
                                   sponsored_by(s))
        /\ SponsorLedger[s].active_amount <= MaxTotalSponsoredPerSponsor

\* What a sponsor created in this block and still has is within the per-block
\* caps, however often it sponsored, unlocked and sponsored again.
PerBlockCaps ==
    \A s \in Accounts :
        LET new == {b \in sponsored_by(s) : Sponsorships[b].created_at = now}
        IN  /\ Cardinality(new) <= MaxNewSponsorshipsPerBlock
            /\ SumFunctionOnSet([b \in new |-> Sponsorships[b].amount], new)
                    <= MaxSponsoredAmountPerBlock

\* revoke_sponsorship succeeds for every sponsorship there is, at any time.
\* process_expirations relies on it: it drops an entry whose revocation fails.
AlwaysRevocable == \A b \in DOMAIN Sponsorships : can_revoke(b)

\* The pallet's provider reference outlives the sponsorship: an account has at
\* least one reference for its own funds and one for being sponsored, so the
\* dec_providers of a revocation never removes an account that has funds.
ReferencesCoverUse ==
    \A a \in Accounts :
        accounts[a].providers >= OwnProvider(accounts[a].free)
                                 + (IF is_sponsored(a) THEN 1 ELSE 0)

\* No account keeps a free balance that dust removal should have taken, and
\* none has funds without existing.
NoHiddenDust ==
    \A a \in Accounts :
        /\ accounts[a].free > 0 /\ Reserved(accounts[a]) = 0
                => accounts[a].free >= ExistentialDeposit
        /\ TotalBalance(accounts[a]) > 0 => accounts[a].providers > 0

\* The bucket of a block names exactly the sponsorships whose lease ends
\* there, as long as the block is still to come; a bucket never names another.
\* set_policy moves the entry and revoke_sponsorship removes it.
LeaseIsIndexed ==
    \A e \in Block, b \in Accounts :
        LET leased == is_sponsored(b) /\ Sponsorships[b].lease = Until(e)
        IN  /\ b \in Expirations[e] => leased
            /\ leased /\ e > now => b \in Expirations[e]
            /\ Cardinality(Expirations[e]) <= MaxQueueProcessingPerBlock

\* The entries process_auto_unlock_queue works on, or will work on next.
Watched == IF phase = "auto_unlock" THEN pending \cup requeue ELSE AutoUnlockQueue

\* A sponsorship with auto-unlock enabled is never lost from the queue, and
\* the queue that is put back fits ("processing never increases queued items").
AutoUnlockIsWatched ==
    /\ \A b \in DOMAIN Sponsorships :
            Sponsorships[b].auto_unlock # "Disabled" => b \in Watched
    /\ Cardinality(Watched) <= MaxQueueProcessingPerBlock

-----------------------------------------------------------------------------
(* Sponsorship implements Escrow: an account owns its free balance, its    *)
(* storage deposits, and what it has on hold in other accounts.            *)

wealth ==
    [a \in Accounts |->
        accounts[a].free + accounts[a].held["StorageDeposit"]
        + SumFunctionOnSet([b \in sponsored_by(a) |-> accounts[b].held["Sponsorship"]],
                           sponsored_by(a))]

locked ==
    [b \in DOMAIN Sponsorships |->
        [sponsor |-> Sponsorships[b].sponsor, amount |-> Sponsorships[b].amount]]

E == INSTANCE Escrow WITH
        Amounts <- Amounts \cup Payments \cup {minimum_sponsorship},
        Dust <- ExistentialDeposit

\* Every step of the pallet is a step of the escrow: a sponsor gets back what
\* it locked to the last unit, by whichever of the five ways the sponsorship
\* ends, and a beneficiary can neither spend nor keep it.
ImplementsEscrow == E!Spec

\* A lease that ends in a later block is over once that block comes, unless
\* the sponsor changes it before: process_expirations reaches it.
LeaseExpires ==
    \A b \in Accounts, e \in 1 .. MaxBlock :
        (now < e /\ is_sponsored(b) /\ Sponsorships[b].lease = Until(e))
            ~> ~(is_sponsored(b) /\ Sponsorships[b].lease = Until(e))

\* A sponsorship whose auto-unlock condition is met is unlocked without
\* anybody calling refresh, unless the condition or the policy changes.
AutoUnlockHappens ==
    \A b \in Accounts :
        (now < MaxBlock /\ is_sponsored(b) /\ auto_unlock_condition_met(b))
            ~> ~(is_sponsored(b) /\ auto_unlock_condition_met(b))

\* deep-research-report.md:188, of Lease::Until: "Expires at (inclusive) block
\* number; on expiry, sponsorship is revoked and funds returned."  In a block
\* after the one its lease names, a sponsorship is no longer there.
NoOverdueLease ==
    phase = "extrinsics" =>
        \A b \in DOMAIN Sponsorships : \A e \in Sponsorships[b].lease : now <= e
=============================================================================
