----------------------- MODULE SponsorshipRecordProofs -----------------------
(***************************************************************************)
(* Proofs about what the records of Sponsorship come to, for every value   *)
(* of the constants.  The two indexes, the expiration buckets and the      *)
(* auto-unlock queue, name the sponsorships they should; the ledger of a   *)
(* sponsor counts what it has and what it created in this block; no dust   *)
(* stays; and together this is an escrow.                                  *)
(***************************************************************************)
EXTENDS SponsorshipProofs

\* Zenon proves most leaves; a leaf that needs arithmetic or functions says SMTT.
USE Zenon

-----------------------------------------------------------------------------
(* The indexes.                                                            *)

\* LeaseIsIndexed, in its two parts.
IndexIsExact ==
    \A e \in Block, b \in Accounts :
        LET leased == is_sponsored(b) /\ Sponsorships[b].lease = Until(e)
        IN  /\ b \in Expirations[e] => leased
            /\ leased /\ e > now => b \in Expirations[e]

BucketsFit ==
    \A e \in Block : Cardinality(Expirations[e]) <= MaxQueueProcessingPerBlock

\* AutoUnlockIsWatched, in its two parts.
AllWatched ==
    \A b \in DOMAIN Sponsorships :
        Sponsorships[b].auto_unlock # "Disabled" => b \in Watched

QueueFits == Cardinality(Watched) <= MaxQueueProcessingPerBlock

IndexInv == IndexIsExact /\ BucketsFit /\ AllWatched /\ QueueFits

-----------------------------------------------------------------------------
(* Bounded sets.                                                           *)

\* BoundedVec::try_push respects the bound of its vector.
LEMMA PushFits ==
    ASSUME NEW queue \in SUBSET Accounts, NEW b \in Accounts, can_push(queue, b),
           Cardinality(queue) <= MaxQueueProcessingPerBlock
    PROVE  Cardinality(queue \cup {b}) <= MaxQueueProcessingPerBlock
<1>1. IsFiniteSet(queue) /\ Cardinality(queue) \in Nat /\ MaxQueueProcessingPerBlock \in Nat
  BY FS_Subset, FS_CardinalityType, SponsorshipAssumption
<1>2. CASE b \in queue
  BY <1>2
<1>3. CASE b \notin queue
  BY <1>1, <1>3, FS_AddElement, SMTT(30) DEF can_push
<1>4. QED
  BY <1>3

\* Taking entries out of a queue never makes it longer.
LEMMA PartFits ==
    ASSUME NEW queue \in SUBSET Accounts, NEW part \in SUBSET queue,
           Cardinality(queue) <= MaxQueueProcessingPerBlock
    PROVE  Cardinality(part) <= MaxQueueProcessingPerBlock
BY Constants, FS_Subset, SponsorshipAssumption, FS_CardinalityType, SMTT(30)

-----------------------------------------------------------------------------
(* The operations.                                                         *)

\* do_sponsor enters a sponsorship in the bucket of its lease, which could not
\* name the beneficiary before, and in the queue when it may unlock.
LEMMA DoSponsorIndexed ==
    ASSUME TypeOK, IndexInv, phase # "auto_unlock", phase' = phase, now' = now,
           NEW s \in Accounts, NEW b \in Accounts, NEW x \in Nat,
           NEW m \in AutoUnlockMode, NEW l \in Lease, do_sponsor(s, b, x, m, l)
    PROVE  IndexInv'
<1>1. /\ Expirations \in [Block -> SUBSET Accounts] /\ AutoUnlockQueue \in SUBSET Accounts
      /\ now \in Nat /\ Block \subseteq Nat
  BY SMTT(30) DEF TypeOK, Block
<1>2. /\ b \notin DOMAIN Sponsorships
      /\ \A e \in l : can_push(Expirations[e], b)
      /\ m # "Disabled" => can_push(AutoUnlockQueue, b)
  BY DEF do_sponsor, can_sponsor, is_sponsored
<1>3. /\ DOMAIN Sponsorships' = DOMAIN Sponsorships \cup {b}
      /\ Sponsorships'[b].lease = l /\ Sponsorships'[b].auto_unlock = m
      /\ \A c \in DOMAIN Sponsorships : Sponsorships'[c] = Sponsorships[c]
  BY <1>2 DEF do_sponsor
<1>4. \A e \in Block : Expirations'[e] = IF e \in l THEN Expirations[e] \cup {b}
                                         ELSE Expirations[e]
  BY DEF do_sponsor, insert_expiration
<1>7. \A e \in Block : e \in l <=> l = {e}
  BY DEF Lease, Until
<1>8. IndexIsExact'
  <2> SUFFICES ASSUME NEW e \in Block, NEW c \in Accounts
               PROVE  /\ c \in Expirations'[e] =>
                            c \in DOMAIN Sponsorships' /\ Sponsorships'[c].lease = {e}
                      /\ c \in DOMAIN Sponsorships' /\ Sponsorships'[c].lease = {e} /\ e > now
                            => c \in Expirations'[e]
    BY DEF IndexIsExact, is_sponsored, Until
  <2>1. /\ c \in Expirations[e] => c \in DOMAIN Sponsorships /\ Sponsorships[c].lease = {e}
        /\ c \in DOMAIN Sponsorships /\ Sponsorships[c].lease = {e} /\ e > now
              => c \in Expirations[e]
    BY DEF IndexInv, IndexIsExact, is_sponsored, Until
  <2>2. CASE c = b
    BY <1>2, <1>3, <1>4, <1>7, <2>1, <2>2
  <2>3. CASE c # b
    BY <1>3, <1>4, <2>1, <2>3
  <2>4. QED
    BY <2>2, <2>3
<1>9. BucketsFit'
  <2> SUFFICES ASSUME NEW e \in Block
               PROVE  Cardinality(Expirations'[e]) <= MaxQueueProcessingPerBlock
    BY DEF BucketsFit
  <2>1. /\ Expirations[e] \in SUBSET Accounts
        /\ Cardinality(Expirations[e]) <= MaxQueueProcessingPerBlock
    BY <1>1 DEF IndexInv, BucketsFit
  <2>2. CASE e \in l
    BY <1>2, <1>4, <2>1, PushFits
  <2>3. CASE e \notin l
    BY <1>4, <2>1, <2>3
  <2>4. QED
    BY <2>2, <2>3
<1>12. QED
  BY <1>8, <1>9, <1>1, <1>2, PushFits DEF IndexInv, AllWatched, Watched, QueueFits,
     do_sponsor, enqueue_auto_unlock

\* revoke_sponsorship takes the beneficiary out of the only bucket that can
\* name it, and out of the queue; the entries of a running hook are not
\* touched.
LEMMA RevokeIndexed ==
    ASSUME TypeOK, IndexIsExact, BucketsFit, now' = now,
           NEW b \in Accounts, revoke_sponsorship(b)
    PROVE  /\ IndexIsExact' /\ BucketsFit'
           /\ DOMAIN Sponsorships' = DOMAIN Sponsorships \ {b}
           /\ \A c \in DOMAIN Sponsorships \ {b} : Sponsorships'[c] = Sponsorships[c]
           /\ AutoUnlockQueue' = AutoUnlockQueue \ {b}
<1> DEFINE lease == Sponsorships[b].lease
<1>2. /\ DOMAIN Sponsorships' = DOMAIN Sponsorships \ {b}
      /\ \A c \in DOMAIN Sponsorships \ {b} : Sponsorships'[c] = Sponsorships[c]
  BY DEF revoke_sponsorship, Restrict
<1>3. \A e \in Block : Expirations'[e] = IF e \in lease THEN Expirations[e] \ {b}
                                         ELSE Expirations[e]
  BY DEF revoke_sponsorship, remove_expiration
<1>4. AutoUnlockQueue' = AutoUnlockQueue \ {b}
  BY DEF revoke_sponsorship, dequeue_auto_unlock
<1> HIDE DEF lease
<1>5. IndexIsExact'
  <2> SUFFICES ASSUME NEW e \in Block, NEW c \in Accounts
               PROVE  /\ c \in Expirations'[e] =>
                            c \in DOMAIN Sponsorships' /\ Sponsorships'[c].lease = {e}
                      /\ c \in DOMAIN Sponsorships' /\ Sponsorships'[c].lease = {e} /\ e > now
                            => c \in Expirations'[e]
    BY DEF IndexIsExact, is_sponsored, Until
  <2>1. /\ c \in Expirations[e] => c \in DOMAIN Sponsorships /\ Sponsorships[c].lease = {e}
        /\ c \in DOMAIN Sponsorships /\ Sponsorships[c].lease = {e} /\ e > now
              => c \in Expirations[e]
    BY DEF IndexIsExact, is_sponsored, Until
  <2>2. CASE c = b
    <3>1. c \notin Expirations'[e]
      BY <1>3, <2>1, <2>2 DEF lease
    <3>2. QED
      BY <1>2, <2>2, <3>1
  <2>3. CASE c # b
    BY <1>2, <1>3, <2>1, <2>3
  <2>4. QED
    BY <2>2, <2>3
<1>6. BucketsFit'
  <2> SUFFICES ASSUME NEW e \in Block
               PROVE  Cardinality(Expirations'[e]) <= MaxQueueProcessingPerBlock
    BY DEF BucketsFit
  <2>2. Expirations'[e] \in SUBSET Expirations[e]
    BY <1>3
  <2>3. QED
    BY <2>2, PartFits DEF BucketsFit, TypeOK, revoke_sponsorship, is_sponsored
<1>7. QED
  BY <1>2, <1>4, <1>5, <1>6

\* Outside the auto-unlock loop the queue itself is what is watched, so a
\* revocation keeps both indexes.
LEMMA RevokeOutsideLoop ==
    ASSUME TypeOK, IndexInv, phase # "auto_unlock", phase' = phase, now' = now,
           NEW b \in Accounts, revoke_sponsorship(b)
    PROVE  IndexInv'
<1>1. /\ IndexIsExact' /\ BucketsFit'
      /\ DOMAIN Sponsorships' = DOMAIN Sponsorships \ {b}
      /\ \A c \in DOMAIN Sponsorships \ {b} : Sponsorships'[c] = Sponsorships[c]
      /\ AutoUnlockQueue' = AutoUnlockQueue \ {b}
  BY RevokeIndexed DEF IndexInv
<1>5. QED
  BY <1>1, PartFits DEF IndexInv, TypeOK, QueueFits, AllWatched, Watched

\* set_policy moves the entry from the bucket of the old lease to that of the
\* new one, and queues a sponsorship that may unlock from now on.
LEMMA SetPolicyIndexed ==
    ASSUME TypeOK, IndexInv, NEW s \in Accounts, NEW b \in Accounts,
           NEW m \in AutoUnlockMode, NEW l \in Lease, set_policy(s, b, m, l)
    PROVE  IndexInv'
<1> DEFINE old == Sponsorships[b].lease
<1>1. /\ Expirations \in [Block -> SUBSET Accounts] /\ AutoUnlockQueue \in SUBSET Accounts
      /\ b \in DOMAIN Sponsorships /\ old \in Lease
      /\ phase = "extrinsics" /\ phase' = phase /\ now' = now
  BY DEF TypeOK, SponsorshipRecord, set_policy, is_sponsored, Calls, hook
<1>3. /\ DOMAIN Sponsorships' = DOMAIN Sponsorships
      /\ \A c \in DOMAIN Sponsorships \ {b} : Sponsorships'[c] = Sponsorships[c]
  BY DEF set_policy
<1>4. Sponsorships'[b].lease = l /\ Sponsorships'[b].auto_unlock = m
  BY <1>1 DEF set_policy, TypeOK, SponsorshipRecord
<1>7. \A e \in Block : (e \in l <=> l = {e}) /\ (e \in old <=> old = {e})
  BY <1>1 DEF Lease, Until
<1>8. /\ l = old => Expirations' = Expirations
      /\ l # old => \A e \in Block :
            Expirations'[e] = IF e \in old THEN (IF e \in l THEN Expirations[e] \cup {b}
                                                 ELSE Expirations[e]) \ {b}
                              ELSE IF e \in l THEN Expirations[e] \cup {b}
                              ELSE Expirations[e]
  BY DEF set_policy, insert_expiration, remove_expiration
<1> HIDE DEF old
<1>9. IndexIsExact'
  <2> SUFFICES ASSUME NEW e \in Block, NEW c \in Accounts
               PROVE  /\ c \in Expirations'[e] =>
                            c \in DOMAIN Sponsorships' /\ Sponsorships'[c].lease = {e}
                      /\ c \in DOMAIN Sponsorships' /\ Sponsorships'[c].lease = {e} /\ e > now
                            => c \in Expirations'[e]
    BY <1>1 DEF IndexIsExact, is_sponsored, Until
  <2>1. /\ c \in Expirations[e] => c \in DOMAIN Sponsorships /\ Sponsorships[c].lease = {e}
        /\ c \in DOMAIN Sponsorships /\ Sponsorships[c].lease = {e} /\ e > now
              => c \in Expirations[e]
    BY DEF IndexInv, IndexIsExact, is_sponsored, Until
  <2>2. CASE c = b /\ l = old
    BY <1>3, <1>4, <1>8, <2>1, <2>2 DEF old
  <2>3. CASE c = b /\ l # old
    <3>1. c \in Expirations[e] => e \in old
      BY <2>1, <2>3 DEF old
    <3>2. c \in Expirations'[e] <=> l = {e}
      BY <1>7, <1>8, <2>3, <3>1
    <3>3. QED
      BY <1>1, <1>3, <1>4, <2>3, <3>2
  <2>4. CASE c # b
    BY <1>3, <1>8, <2>1, <2>4
  <2>5. QED
    BY <2>2, <2>3, <2>4
<1>10. BucketsFit'
  <2> SUFFICES ASSUME NEW e \in Block
               PROVE  Cardinality(Expirations'[e]) <= MaxQueueProcessingPerBlock
    BY DEF BucketsFit
  <2>2. CASE l # old /\ e \in l
    <3>1. Expirations'[e] = Expirations[e] \cup {b}
      BY <1>7, <1>8, <2>2
    <3>2. QED
      BY <1>1, <2>2, <3>1, PushFits DEF IndexInv, BucketsFit, set_policy
  <2>3. CASE ~(l # old /\ e \in l)
    <3>1. Expirations'[e] \in SUBSET Expirations[e]
      BY <1>8, <2>3
    <3>2. QED
      BY <1>1, <3>1, PartFits DEF IndexInv, BucketsFit
  <2>4. QED
    BY <2>2, <2>3
<1>13. QED
  BY <1>9, <1>10, <1>1, PushFits, SMTT(30) DEF IndexInv, AllWatched, Watched, set_policy,
     enqueue_auto_unlock, QueueFits

\* A block begins with an empty bucket of its own: its entries are pending,
\* and no lease that ends there is in the future any more.
LEMMA BeginBlockIndexed ==
    ASSUME TypeOK, IndexInv, begin_block
    PROVE  IndexInv'
<1>1. /\ Expirations \in [Block -> SUBSET Accounts] /\ now \in Nat /\ now' = now + 1
      /\ phase # "auto_unlock" /\ phase' # "auto_unlock"
      /\ Sponsorships' = Sponsorships /\ AutoUnlockQueue' = AutoUnlockQueue
      /\ Block \subseteq Nat
  BY SMTT(30) DEF TypeOK, begin_block, Block
<1>3. IndexIsExact'
  BY <1>1, SMTT(30) DEF IndexIsExact, is_sponsored, Until, IndexInv, begin_block
<1>6. QED
  BY <1>3, SponsorshipAssumption, FS_EmptySet, SMTT(30)
     DEF IndexInv, AllWatched, QueueFits, Watched,
     BucketsFit, begin_block

\* An action that leaves the sponsorships, the buckets and what is watched
\* alone keeps both indexes.
LEMMA NothingIndexed ==
    ASSUME IndexInv, now' = now, Sponsorships' = Sponsorships, Expirations' = Expirations,
           Watched' = Watched
    PROVE  IndexInv'
  BY DEF IndexInv, IndexIsExact, BucketsFit, AllWatched, QueueFits, is_sponsored

\* An entry of the auto-unlock loop leaves what is watched only when its
\* sponsorship is gone or no longer unlocks by itself.
LEMMA AutoUnlockIndexed ==
    ASSUME TypeOK, IndexInv, NEW b \in pending, process_auto_unlock(b)
    PROVE  IndexInv'
<1>1. /\ phase = "auto_unlock" /\ phase' = "auto_unlock" /\ now' = now
      /\ pending' = pending \ {b} /\ b \in Accounts
      /\ pending \cup requeue \in SUBSET Accounts
  BY DEF process_auto_unlock, TypeOK
<1>2. Watched = pending \cup requeue /\ Watched' = pending' \cup requeue'
  BY <1>1 DEF Watched
<1>3. CASE /\ ~is_sponsored(b) \/ Sponsorships[b].auto_unlock = "Disabled"
           /\ UNCHANGED <<accounts, pallet, requeue>>
  BY <1>1, <1>2, <1>3, PartFits DEF pallet, IndexInv, QueueFits, AllWatched, is_sponsored,
     IndexIsExact, BucketsFit
<1>4. CASE revoke_sponsorship(b) /\ UNCHANGED requeue
  <2>2. /\ IndexIsExact' /\ BucketsFit'
        /\ DOMAIN Sponsorships' = DOMAIN Sponsorships \ {b}
        /\ \A c \in DOMAIN Sponsorships \ {b} : Sponsorships'[c] = Sponsorships[c]
    BY <1>1, <1>4, RevokeIndexed DEF IndexInv
  <2>5. QED
    BY <2>2, <1>1, <1>2, <1>4, PartFits DEF IndexInv, AllWatched, QueueFits
<1>5. CASE requeue' = requeue \cup {b} /\ UNCHANGED <<accounts, pallet>>
  BY <1>1, <1>2, <1>5, NothingIndexed DEF pallet
<1>6. QED
  BY <1>3, <1>4, <1>5 DEF process_auto_unlock

\* The hook, step by step.
LEMMA OnInitializeIndexed ==
    ASSUME TypeOK, IndexInv, on_initialize
    PROVE  IndexInv'
<1>1. CASE begin_block
  BY <1>1, BeginBlockIndexed
<1>2. ASSUME NEW b \in pending, process_expiration(b) PROVE IndexInv'
  BY <1>2, RevokeOutsideLoop, NothingIndexed DEF process_expiration, TypeOK, pallet, Watched
<1>3. CASE take_auto_unlock_queue
  BY <1>3, NothingIndexed DEF take_auto_unlock_queue, Watched
<1>4. ASSUME NEW b \in pending, process_auto_unlock(b) PROVE IndexInv'
  BY <1>4, AutoUnlockIndexed
<1>5. CASE put_auto_unlock_queue
  BY <1>5, NothingIndexed DEF put_auto_unlock_queue, Watched
<1>6. QED
  BY <1>1, <1>2, <1>3, <1>4, <1>5 DEF on_initialize

-----------------------------------------------------------------------------
\* Both indexes are empty at genesis, as is the map.
LEMMA InitIndexed == Init => IndexInv
<1> SUFFICES ASSUME Init PROVE IndexInv
  OBVIOUS
<1>1. MaxQueueProcessingPerBlock \in Nat /\ DOMAIN Sponsorships = {} /\ Watched = {}
  BY SponsorshipAssumption, SMTT(30) DEF Init, Watched
<1>3. QED
  BY <1>1, FS_EmptySet, SMTT(30) DEF IndexInv, IndexIsExact, BucketsFit, AllWatched, QueueFits,
     is_sponsored, Init

\* Every step keeps both indexes, in a state with the types of TypeOK.
LEMMA NextIndexed ==
    ASSUME TypeOK, IndexInv, [Next]_vars
    PROVE  IndexInv'
<1>1. ASSUME NEW s \in Accounts, NEW b \in Accounts, NEW x \in Nat,
             NEW m \in AutoUnlockMode, NEW l \in Lease, do_sponsor(s, b, x, m, l),
             phase \in {"genesis", "extrinsics"}, UNCHANGED <<now, hook>>
      PROVE  IndexInv'
  BY <1>1, DoSponsorIndexed DEF hook
<1>2. ASSUME NEW s \in Accounts, NEW b \in Accounts, NEW x \in Amounts, NEW m \in Modes,
             NEW l \in Leases,
             \/ genesis_build(s, b, x, m, l)
             \/ sponsor(s, b, x, m, l)
             \/ create_sponsorship(s, b, x, m, l)
      PROVE  IndexInv'
  BY <1>1, <1>2, SponsorshipAssumption, PolicyAssumption
  DEF genesis_build, sponsor, create_sponsorship, Calls
<1>3. ASSUME NEW s \in Accounts, NEW b \in Accounts, NEW m \in Modes, NEW l \in Leases,
             sponsor_minimum(s, b, m, l)
      PROVE  IndexInv'
  BY Constants, <1>1, <1>3 DEF minimum_sponsorship, sponsor_minimum, Calls
<1>4. ASSUME NEW s \in Accounts, NEW b \in Accounts, NEW m \in Modes, NEW l \in Leases,
             set_policy(s, b, m, l)
      PROVE  IndexInv'
  BY <1>4, SetPolicyIndexed, PolicyAssumption
<1>5. ASSUME NEW b \in Accounts, revoke_sponsorship(b), Calls PROVE IndexInv'
  BY <1>5, RevokeOutsideLoop DEF Calls, hook
<1>6. ASSUME NEW s \in Accounts, NEW b \in Accounts, unlock(s, b) \/ unlock_sponsorship(s, b)
      PROVE  IndexInv'
  BY <1>5, <1>6 DEF unlock, unlock_sponsorship
<1>7. ASSUME NEW b \in Accounts, force_unlock(b) \/ refresh(b) \/ try_auto_unlock(b)
      PROVE  IndexInv'
  BY <1>5, <1>7 DEF force_unlock, refresh, try_auto_unlock
<1>8. ASSUME NEW a \in Accounts, NEW b \in Accounts, NEW x \in Payments,
             transfer_allow_death(a, b, x)
      PROVE  IndexInv'
  BY <1>8, NothingIndexed DEF transfer_allow_death, Calls, hook, pallet, Watched
<1>9. CASE on_initialize
  BY <1>9, OnInitializeIndexed
<1>10. CASE UNCHANGED vars
  BY <1>10, NothingIndexed DEF vars, hook, pallet, Watched
<1>11. QED
  BY <1>2, <1>3, <1>4, <1>6, <1>7, <1>8, <1>9, <1>10 DEF Next

\* A bucket names exactly the sponsorships whose lease ends in its block, while
\* the block is to come, whatever sponsor, set_policy and the revocations did.
THEOREM ExpirationsAreExact == Spec => []LeaseIsIndexed
<1>1. IndexInv => LeaseIsIndexed
  BY DEF IndexInv, IndexIsExact, BucketsFit, LeaseIsIndexed
<1>2. QED
  BY <1>1, InitIndexed, NextIndexed, TypeCorrect, PTL DEF Spec

\* No sponsorship that should unlock by itself drops out of the queue of
\* process_auto_unlock_queue, and the queue never outgrows its BoundedVec.
THEOREM QueueIsComplete == Spec => []AutoUnlockIsWatched
<1>1. IndexInv => AutoUnlockIsWatched
  BY DEF IndexInv, AllWatched, QueueFits, AutoUnlockIsWatched
<1>2. QED
  BY <1>1, InitIndexed, NextIndexed, TypeCorrect, PTL DEF Spec

-----------------------------------------------------------------------------
(* The kinds of step, as far as funds and totals are concerned.            *)

\* A step that moves no funds: set_policy, and the hook around revocations.
Quiet ==
    /\ accounts' = accounts /\ SponsorLedger' = SponsorLedger
    /\ now' = now \/ now' = now + 1
    /\ DOMAIN Sponsorships' = DOMAIN Sponsorships
    /\ \A b \in DOMAIN Sponsorships :
            /\ Sponsorships'[b].sponsor = Sponsorships[b].sponsor
            /\ Sponsorships'[b].amount = Sponsorships[b].amount
            /\ Sponsorships'[b].created_at = Sponsorships[b].created_at

Sponsored ==
    /\ now' = now
    /\ \E s, b \in Accounts, x \in Amounts \cup {minimum_sponsorship},
          m \in AutoUnlockMode, l \in Lease : do_sponsor(s, b, x, m, l)

Revoked == now' = now /\ \E b \in Accounts : revoke_sponsorship(b)

Transferred ==
    /\ now' = now
    /\ \E a, b \in Accounts, x \in Payments : transfer_allow_death(a, b, x)

\* set_policy is quiet: it writes two other fields of the record.
LEMMA SetPolicyIsQuiet ==
    ASSUME FundsOK, NEW s \in Accounts, NEW b \in Accounts,
           NEW m \in AutoUnlockMode, NEW l \in Lease, set_policy(s, b, m, l)
    PROVE  Quiet
BY DEF set_policy, is_sponsored, FundsOK, StorageOK, Calls, SponsorshipRecord, Quiet

\* Every step is of one of the four kinds.
LEMMA StepKinds ==
    ASSUME IInv, [Next]_vars
    PROVE  Sponsored \/ Revoked \/ Transferred \/ Quiet
<1> USE Constants
<1>1. ASSUME UNCHANGED <<now, accounts, pallet>> PROVE Quiet
  BY <1>1 DEF Quiet, pallet
<1>2. ASSUME NEW s \in Accounts, NEW b \in Accounts, NEW x \in Amounts, NEW m \in Modes,
             NEW l \in Leases,
             genesis_build(s, b, x, m, l) \/ sponsor(s, b, x, m, l)
                \/ create_sponsorship(s, b, x, m, l)
      PROVE  Sponsored
  BY <1>2 DEF Sponsored, genesis_build, sponsor, create_sponsorship, Calls
<1>3. ASSUME NEW s \in Accounts, NEW b \in Accounts, NEW m \in Modes,
             NEW l \in Leases, sponsor_minimum(s, b, m, l)
      PROVE  Sponsored
  BY <1>3 DEF Sponsored, sponsor_minimum, Calls
<1>4. ASSUME NEW s \in Accounts, NEW b \in Accounts, NEW m \in Modes,
             NEW l \in Leases, set_policy(s, b, m, l)
      PROVE  Quiet
  BY <1>4, SetPolicyIsQuiet DEF IInv
<1>5. ASSUME NEW s \in Accounts, NEW b \in Accounts, unlock(s, b) \/ unlock_sponsorship(s, b)
      PROVE  Revoked
  BY <1>5 DEF Revoked, unlock, unlock_sponsorship, Calls
<1>6. ASSUME NEW b \in Accounts, force_unlock(b) \/ refresh(b) \/ try_auto_unlock(b)
      PROVE  Revoked
  BY <1>6 DEF Revoked, force_unlock, refresh, try_auto_unlock, Calls
<1>7. ASSUME NEW a \in Accounts, NEW b \in Accounts, NEW x \in Payments,
             transfer_allow_death(a, b, x)
      PROVE  Transferred
  BY <1>7 DEF Transferred, transfer_allow_death, Calls
<1>8. CASE begin_block \/ take_auto_unlock_queue \/ put_auto_unlock_queue
  BY <1>8 DEF Quiet, begin_block, take_auto_unlock_queue, put_auto_unlock_queue
<1>9. ASSUME NEW b \in pending, process_expiration(b) \/ process_auto_unlock(b)
      PROVE  Revoked \/ Quiet
  BY <1>9, <1>1 DEF HookOK, process_expiration, process_auto_unlock, Revoked, IInv
<1>10. CASE UNCHANGED vars
  BY <1>1, <1>10 DEF vars
<1>11. QED
  BY <1>2, <1>3, <1>4, <1>5, <1>6, <1>7, <1>8, <1>9, <1>10 DEF Next, on_initialize

-----------------------------------------------------------------------------
(* What a set of sponsorships comes to.                                    *)

TotalOf(records, S) == SumFunctionOnSet([b \in S |-> records[b].amount], S)

\* The total is a natural number, and no part exceeds it.
LEMMA TotalType ==
    ASSUME NEW records, NEW S, IsFiniteSet(S), \A b \in S : records[b].amount \in Nat
    PROVE  /\ TotalOf(records, S) \in Nat
           /\ \A b \in S : records[b].amount <= TotalOf(records, S)
BY SumType, SumPart DEF TotalOf

\* Other fields of the records do not matter.
LEMMA TotalKept ==
    ASSUME NEW old, NEW new, NEW S, IsFiniteSet(S),
           \A b \in S : old[b].amount \in Nat /\ new[b].amount = old[b].amount
    PROVE  TotalOf(new, S) = TotalOf(old, S)
BY DEF TotalOf

\* A sponsorship more.
LEMMA TotalAdded ==
    ASSUME NEW old, NEW new, NEW S, IsFiniteSet(S), NEW b, b \notin S,
           \A c \in S : old[c].amount \in Nat /\ new[c].amount = old[c].amount,
           new[b].amount \in Nat
    PROVE  TotalOf(new, S \cup {b}) = TotalOf(old, S) + new[b].amount
<1> DEFINE U == S \cup {b}
           f == [c \in S |-> old[c].amount]
           g == [c \in U |-> new[c].amount]
<1>1. /\ \A c \in S : f[c] \in Int /\ f[c] = g[c]
      /\ g[b] = new[b].amount /\ \A c \in U : g[c] \in Int
      /\ b \in U /\ U \ {b} = S
  BY SMTT(30)
<1>2. IsFiniteSet(U)
  BY FS_AddElement
<1> HIDE DEF U, f, g
<1>3. SumFunctionOnSet(g, U) = g[b] + SumFunctionOnSet(g, S)
  BY <1>1, <1>2, SumRemove
<1>5. QED
  BY <1>3, SumEqual, SumType, SMTT(30) DEF TotalOf, f, g, U

\* A sponsorship less.
LEMMA TotalDropped ==
    ASSUME NEW old, NEW new, NEW S, IsFiniteSet(S), NEW b \in S, NEW R, R = S \ {b},
           \A c \in S : old[c].amount \in Nat,
           \A c \in R : new[c].amount = old[c].amount
    PROVE  TotalOf(new, R) = TotalOf(old, S) - old[b].amount
BY FS_Subset, TotalAdded, TotalKept, TotalType, SMTT(30)

\* What the sponsorships of one sponsor come to.
ActiveTotal(s) == TotalOf(Sponsorships, sponsored_by(s))

\* The sets the totals are taken over.
LEMMA SponsoredByType ==
    ASSUME FundsOK, NEW s \in Accounts
    PROVE  /\ IsFiniteSet(sponsored_by(s)) /\ sponsored_by(s) \subseteq Accounts
           /\ \A b \in sponsored_by(s) :
                 /\ b \in DOMAIN Sponsorships /\ Sponsorships[b] \in SponsorshipRecord
                 /\ Sponsorships[b].amount \in Nat
           /\ ActiveTotal(s) \in Nat
BY Constants, FS_Subset, TotalType DEF sponsored_by, FundsOK, StorageOK, SponsorshipRecord,
   ActiveTotal

\* do_sponsor adds to the total of the sponsor.
LEMMA ActiveAdded ==
    ASSUME FundsOK, NEW b \in Accounts, NEW record \in SponsorshipRecord,
           RecordAdded(b, record), NEW a \in Accounts
    PROVE  /\ b \notin sponsored_by(a)
           /\ sponsored_by(a)' = sponsored_by(a) \cup (IF a = record.sponsor THEN {b} ELSE {})
           /\ ActiveTotal(a)' = ActiveTotal(a)
                    + (IF a = record.sponsor THEN record.amount ELSE 0)
<1> DEFINE S == sponsored_by(a)
<1>2. /\ b \notin S
      /\ S' = S \cup (IF a = record.sponsor THEN {b} ELSE {})
  BY DEF RecordAdded, sponsored_by
<1> HIDE DEF S
<1>5. CASE a = record.sponsor
  BY <1>2, <1>5, SponsoredByType, TotalAdded, SMTT(30) DEF S, ActiveTotal, RecordAdded,
     SponsorshipRecord
<1>6. CASE a # record.sponsor
  BY <1>2, <1>6, SponsoredByType, TotalKept, SMTT(30) DEF S, ActiveTotal, RecordAdded,
     SponsorshipRecord
<1>7. QED
  BY <1>5, <1>6

\* revoke_sponsorship takes from it.
LEMMA ActiveRemoved ==
    ASSUME FundsOK, NEW b \in Accounts, RecordRemoved(b), NEW a \in Accounts
    PROVE  LET record == Sponsorships[b]
           IN  /\ a = record.sponsor <=> b \in sponsored_by(a)
               /\ sponsored_by(a)' = sponsored_by(a) \ {b}
               /\ ActiveTotal(a)' = ActiveTotal(a)
                        - (IF a = record.sponsor THEN record.amount ELSE 0)
<1> DEFINE S == sponsored_by(a)
<1>1. /\ IsFiniteSet(S) /\ ActiveTotal(a) \in Nat
      /\ \A c \in S : c \in DOMAIN Sponsorships /\ Sponsorships[c].amount \in Nat
  BY SponsoredByType
<1>2. (a = Sponsorships[b].sponsor <=> b \in S) /\ S' = S \ {b}
  BY DEF RecordRemoved, sponsored_by
<1>4. ActiveTotal(a) = TotalOf(Sponsorships, S) /\ ActiveTotal(a)' = TotalOf(Sponsorships', S')
  BY DEF ActiveTotal
<1> HIDE DEF S
<1>5. CASE b \in S
  BY <1>2, <1>4, <1>5, <1>1, TotalDropped, SMTT(30) DEF S, RecordRemoved
<1>6. CASE b \notin S
  BY <1>1, <1>6, TotalKept, <1>2, <1>4 DEF RecordRemoved, S
<1>7. QED
  BY <1>5, <1>6

\* A step that keeps the records, or all of them that matters here, keeps it.
LEMMA ActiveSame ==
    ASSUME FundsOK, DOMAIN Sponsorships' = DOMAIN Sponsorships,
           \A b \in DOMAIN Sponsorships :
                /\ Sponsorships'[b].sponsor = Sponsorships[b].sponsor
                /\ Sponsorships'[b].amount = Sponsorships[b].amount,
           NEW a \in Accounts
    PROVE  sponsored_by(a)' = sponsored_by(a) /\ ActiveTotal(a)' = ActiveTotal(a)
BY SponsoredByType, TotalKept, SMTT(30) DEF sponsored_by, ActiveTotal

-----------------------------------------------------------------------------
(* The ledger.  LedgerIsExact is inductive beside the invariant of the     *)
(* funds; PerBlockCaps is not, for it says nothing of the counters of a    *)
(* sponsor that has been idle in this block.  They count what the sponsor  *)
(* created in the block it was last active in.                             *)

Recent(s) ==
    {b \in sponsored_by(s) : Sponsorships[b].created_at = SponsorLedger[s].last_block}

ExactFor(s) ==
    /\ SponsorLedger[s].active_count = Cardinality(sponsored_by(s))
    /\ SponsorLedger[s].active_count <= MaxSponsoredAccountsPerSponsor
    /\ SponsorLedger[s].active_amount = ActiveTotal(s)
    /\ SponsorLedger[s].active_amount <= MaxTotalSponsoredPerSponsor

CountedFor(s) ==
    LET ledger == SponsorLedger[s]
    IN  /\ ledger.last_block <= now
        /\ \A b \in sponsored_by(s) : Sponsorships[b].created_at <= ledger.last_block
        /\ Cardinality(Recent(s)) <= ledger.new_sponsorships_in_block
        /\ ledger.new_sponsorships_in_block <= MaxNewSponsorshipsPerBlock
        /\ TotalOf(Sponsorships, Recent(s)) <= ledger.sponsored_amount_in_block
        /\ ledger.sponsored_amount_in_block <= MaxSponsoredAmountPerBlock

LedgerInv == \A s \in Accounts : ExactFor(s) /\ CountedFor(s)

\* What do_sponsor writes, after the checks it makes, in the sponsor's ledger.
LEMMA SponsorWrites ==
    ASSUME FundsOK, HookOK, NEW s \in Accounts, NEW b \in Accounts, NEW x \in Nat,
           NEW m \in AutoUnlockMode, NEW l \in Lease, do_sponsor(s, b, x, m, l)
    PROVE  LET old == SponsorLedger[s]
               new == SponsorLedger'[s]
               same == old.last_block = now
           IN  /\ \A a \in Accounts \ {s} : SponsorLedger'[a] = SponsorLedger[a]
               /\ new.active_amount = old.active_amount + x
               /\ new.active_count = old.active_count + 1
               /\ new.last_block = now
               /\ new.sponsored_amount_in_block
                    = (IF same THEN old.sponsored_amount_in_block ELSE 0) + x
               /\ new.new_sponsorships_in_block
                    = (IF same THEN old.new_sponsorships_in_block ELSE 0) + 1
               /\ new.active_amount <= MaxTotalSponsoredPerSponsor
               /\ new.active_count <= MaxSponsoredAccountsPerSponsor
               /\ new.sponsored_amount_in_block <= MaxSponsoredAmountPerBlock
               /\ new.new_sponsorships_in_block <= MaxNewSponsorshipsPerBlock
BY DEF FundsOK, StorageOK, refresh_per_block_ledger, do_sponsor, can_sponsor

\* What revoke_sponsorship writes there.
LEMMA RevokeWrites ==
    ASSUME FundsOK, NEW b \in Accounts, revoke_sponsorship(b)
    PROVE  LET s == Sponsorships[b].sponsor
               old == SponsorLedger[s]
               new == SponsorLedger'[s]
           IN  /\ \A a \in Accounts \ {s} : SponsorLedger'[a] = SponsorLedger[a]
               /\ new.active_amount = monus(old.active_amount, Sponsorships[b].amount)
               /\ new.active_count = monus(old.active_count, 1)
               /\ new.last_block = old.last_block
               /\ new.sponsored_amount_in_block = old.sponsored_amount_in_block
               /\ new.new_sponsorships_in_block = old.new_sponsorships_in_block
<1>1. SponsorLedger \in [Accounts -> SponsorState] /\ Sponsorships[b].sponsor \in Accounts
  BY RevokeEffect DEF FundsOK, StorageOK
<1>2. QED
  BY <1>1 DEF revoke_sponsorship

\* The counts of the ledger, and the constants they are compared with.
LEMMA LedgerTypes ==
    ASSUME FundsOK, NEW s \in Accounts
    PROVE  /\ SponsorLedger[s].active_amount \in Nat /\ SponsorLedger[s].active_count \in Nat
           /\ SponsorLedger[s].last_block \in Nat
           /\ SponsorLedger[s].sponsored_amount_in_block \in Nat
           /\ SponsorLedger[s].new_sponsorships_in_block \in Nat
           /\ {MaxTotalSponsoredPerSponsor, MaxSponsoredAccountsPerSponsor,
               MaxSponsoredAmountPerBlock, MaxNewSponsorshipsPerBlock} \subseteq Nat
<1>1. SponsorLedger[s] \in SponsorState
  BY DEF FundsOK, StorageOK
<1>2. QED
  BY <1>1, SponsorshipAssumption, SMTT(30) DEF SponsorState, Block

\* What a ledger is compared with: the sponsorships, and those that are recent.
LEMMA RecentType ==
    ASSUME FundsOK, NEW s \in Accounts
    PROVE  /\ IsFiniteSet(sponsored_by(s)) /\ Cardinality(sponsored_by(s)) \in Nat
           /\ IsFiniteSet(Recent(s)) /\ Cardinality(Recent(s)) \in Nat
           /\ \A b \in sponsored_by(s) :
                 Sponsorships[b].amount \in Nat /\ Sponsorships[b].created_at \in Nat
           /\ ActiveTotal(s) \in Nat /\ TotalOf(Sponsorships, Recent(s)) \in Nat
BY SponsoredByType, FS_Subset, FS_CardinalityType, TotalType, SMTT(30)
   DEF SponsorshipRecord, Block,
   Recent

\* A sponsor whose ledger and sponsorships a step leaves alone.
LEMMA LedgerSame ==
    ASSUME FundsOK, now \in Nat, NEW s \in Accounts, ExactFor(s), CountedFor(s),
           now' = now \/ now' = now + 1,
           SponsorLedger'[s] = SponsorLedger[s],
           sponsored_by(s)' = sponsored_by(s),
           ActiveTotal(s)' = ActiveTotal(s),
           \A b \in sponsored_by(s) :
                /\ Sponsorships'[b].amount = Sponsorships[b].amount
                /\ Sponsorships'[b].created_at = Sponsorships[b].created_at
    PROVE  ExactFor(s)' /\ CountedFor(s)'
<1>2. Recent(s)' = Recent(s) /\ Recent(s) \subseteq sponsored_by(s)
  BY DEF Recent
<1>5. QED
  BY <1>2, RecentType, TotalKept, LedgerTypes, SMTT(30) DEF CountedFor, ExactFor

\* do_sponsor counts the sponsorship it creates.
LEMMA LedgerAdded ==
    ASSUME FundsOK, HookOK, LedgerInv, now' = now,
           NEW s \in Accounts, NEW b \in Accounts, NEW x \in Nat,
           NEW m \in AutoUnlockMode, NEW l \in Lease, do_sponsor(s, b, x, m, l)
    PROVE  LedgerInv'
<1> DEFINE record == [sponsor |-> s, amount |-> x, auto_unlock |-> m,
                      lease |-> l, created_at |-> now]
           old == SponsorLedger[s]
           new == SponsorLedger'[s]
           R == IF old.last_block = now THEN Recent(s) ELSE {}
<1>1. RecordAdded(b, record)
  BY SponsorEffect
<1>2. now \in Nat /\ now \in Block
  BY SponsorshipAssumption, SMTT(30) DEF HookOK, Block
<1>3. /\ record \in SponsorshipRecord /\ record.sponsor = s /\ record.amount = x
      /\ record.created_at = now
  BY <1>2 DEF SponsorshipRecord
<1> HIDE DEF record
<1>4. ASSUME NEW a \in Accounts
      PROVE  /\ b \notin sponsored_by(a)
             /\ sponsored_by(a)' = sponsored_by(a) \cup (IF a = s THEN {b} ELSE {})
             /\ ActiveTotal(a)' = ActiveTotal(a) + (IF a = s THEN x ELSE 0)
             /\ \A c \in sponsored_by(a) : Sponsorships'[c] = Sponsorships[c]
  BY <1>1, <1>3, ActiveAdded, SMTT(30) DEF RecordAdded, sponsored_by
<1>5. /\ \A a \in Accounts \ {s} : SponsorLedger'[a] = SponsorLedger[a]
      /\ new.active_amount = old.active_amount + x
      /\ new.active_count = old.active_count + 1
      /\ new.last_block = now
      /\ new.sponsored_amount_in_block
            = (IF old.last_block = now THEN old.sponsored_amount_in_block ELSE 0) + x
      /\ new.new_sponsorships_in_block
            = (IF old.last_block = now THEN old.new_sponsorships_in_block ELSE 0) + 1
      /\ new.active_amount <= MaxTotalSponsoredPerSponsor
      /\ new.active_count <= MaxSponsoredAccountsPerSponsor
      /\ new.sponsored_amount_in_block <= MaxSponsoredAmountPerBlock
      /\ new.new_sponsorships_in_block <= MaxNewSponsorshipsPerBlock
  BY SponsorWrites
<1>6. ASSUME NEW a \in Accounts, a # s
      PROVE  ExactFor(a)' /\ CountedFor(a)'
  <2>0. ActiveTotal(a) \in Nat /\ ActiveTotal(a)' = ActiveTotal(a) + 0
    BY <1>4, <1>6, RecentType
  <2>1. /\ sponsored_by(a)' = sponsored_by(a) /\ ActiveTotal(a)' = ActiveTotal(a)
        /\ SponsorLedger'[a] = SponsorLedger[a]
    <3>1. sponsored_by(a)' = sponsored_by(a) \cup {}
      BY <1>4, <1>6
    <3>2. SponsorLedger'[a] = SponsorLedger[a]
      BY <1>5, <1>6
    <3>3. QED
      BY <2>0, <3>1, <3>2, SMTT(30)
  <2>2. QED
    BY <1>2, <1>4, <1>6, <2>1, LedgerSame DEF LedgerInv
<1>7. /\ IsFiniteSet(sponsored_by(s)) /\ Cardinality(sponsored_by(s)) \in Nat
      /\ IsFiniteSet(Recent(s)) /\ Cardinality(Recent(s)) \in Nat
      /\ \A c \in sponsored_by(s) :
            Sponsorships[c].amount \in Nat /\ Sponsorships[c].created_at \in Nat
      /\ ActiveTotal(s) \in Nat /\ TotalOf(Sponsorships, Recent(s)) \in Nat
  BY RecentType
<1>8. ExactFor(s)'
  <2>1. Cardinality(sponsored_by(s)') = Cardinality(sponsored_by(s)) + 1
    BY <1>4, <1>7, FS_AddElement
  <2>2. QED
    BY <1>4, <1>5, <2>1 DEF ExactFor, LedgerInv
<1>9. /\ IsFiniteSet(R) /\ Cardinality(R) \in Nat /\ TotalOf(Sponsorships, R) \in Nat
      /\ Cardinality(R) <= IF old.last_block = now THEN old.new_sponsorships_in_block ELSE 0
      /\ TotalOf(Sponsorships, R)
            <= IF old.last_block = now THEN old.sponsored_amount_in_block ELSE 0
  BY <1>7, FS_EmptySet, SumEmpty, SMTT(30) DEF LedgerInv, CountedFor, TotalOf
<1>10. R \subseteq sponsored_by(s) /\ Recent(s)' = R \cup {b}
  <2>1. \A c \in sponsored_by(s) :
            /\ Sponsorships'[c].created_at = Sponsorships[c].created_at
            /\ Sponsorships[c].created_at <= old.last_block /\ old.last_block <= now
    BY <1>4 DEF LedgerInv, CountedFor
  <2>2. old.last_block \in Nat /\ Sponsorships'[b].created_at = now
    BY <1>1, <1>3, LedgerTypes DEF RecordAdded
  <2>3. \A c \in sponsored_by(s) : Sponsorships'[c].created_at = now <=> c \in R
    BY <1>2, <1>7, <2>1, <2>2, SMTT(30) DEF Recent
  <2>4. Recent(s)' = {c \in sponsored_by(s)' : Sponsorships'[c].created_at = now}
    BY <1>5 DEF Recent
  <2>5. R \subseteq sponsored_by(s)
    BY DEF Recent
  <2> HIDE DEF R
  <2>6. QED
    BY <1>4, <2>2, <2>3, <2>4, <2>5
<1> HIDE DEF R
<1>11. b \notin R /\ Sponsorships'[b].amount = x
  BY <1>1, <1>3, <1>4, <1>10 DEF RecordAdded
<1>12. /\ Cardinality(R \cup {b}) = Cardinality(R) + 1
       /\ TotalOf(Sponsorships', R \cup {b}) = TotalOf(Sponsorships, R) + x
  <2>1. \A c \in R : /\ Sponsorships[c].amount \in Nat
                      /\ Sponsorships'[c].amount = Sponsorships[c].amount
    BY <1>4, <1>7, <1>10
  <2>2. Cardinality(R \cup {b}) = Cardinality(R) + 1
    BY <1>9, <1>11, FS_AddElement
  <2>3. QED
    BY <1>9, <1>11, <2>1, <2>2, TotalAdded, SMTT(30)
<1>13. CountedFor(s)'
  <2>1. \A c \in sponsored_by(s)' : Sponsorships'[c].created_at <= now
    <3>1. Sponsorships'[b].created_at = now
      BY <1>1, <1>3 DEF RecordAdded
    <3>2. \A c \in sponsored_by(s) : Sponsorships[c].created_at <= now
      BY <1>2, <1>7, LedgerTypes, SMTT(30) DEF LedgerInv, CountedFor
    <3>3. QED
      BY <1>2, <1>4, <3>1, <3>2, SMTT(30)
  <2>2. /\ Cardinality(Recent(s)') <= new.new_sponsorships_in_block
        /\ TotalOf(Sponsorships', Recent(s)') <= new.sponsored_amount_in_block
    BY <1>5, <1>9, <1>10, <1>12, LedgerTypes, SMTT(30)
  <2>3. QED
    BY <1>2, <1>5, <2>1, <2>2, SMTT(30) DEF CountedFor
<1>14. QED
  BY <1>6, <1>8, <1>13 DEF LedgerInv

\* revoke_sponsorship takes the sponsorship it removes off again.  Saturating
\* subtraction is subtraction here, for the ledger covers what it records.  The
\* counters of the block stay: they count what was created, removed or not.
LEMMA LedgerRemoved ==
    ASSUME FundsOK, HookOK, LedgerInv, now' = now, NEW b \in Accounts, revoke_sponsorship(b)
    PROVE  LedgerInv'
<1>0. /\ Sponsorships[b].sponsor \in Accounts /\ Sponsorships[b].amount \in Nat
      /\ RecordRemoved(b)
  BY RevokeEffect
<1> SUFFICES ASSUME NEW s \in Accounts, NEW x \in Nat,
                    s = Sponsorships[b].sponsor, x = Sponsorships[b].amount
             PROVE  LedgerInv'
  BY <1>0
<1> DEFINE old == SponsorLedger[s]
           new == SponsorLedger'[s]
           R == Recent(s)
<1>1. RecordRemoved(b)
  BY <1>0
<1>2. now \in Nat
  BY SponsorshipAssumption, SMTT(30) DEF HookOK
<1>3. ASSUME NEW a \in Accounts
      PROVE  /\ a = s <=> b \in sponsored_by(a)
             /\ sponsored_by(a)' = sponsored_by(a) \ {b}
             /\ ActiveTotal(a)' = ActiveTotal(a) - (IF a = s THEN x ELSE 0)
             /\ \A c \in sponsored_by(a) \ {b} : Sponsorships'[c] = Sponsorships[c]
  BY <1>1, ActiveRemoved DEF RecordRemoved, sponsored_by
<1>4. /\ \A a \in Accounts \ {s} : SponsorLedger'[a] = SponsorLedger[a]
      /\ new.active_amount = monus(old.active_amount, x)
      /\ new.active_count = monus(old.active_count, 1)
      /\ new.last_block = old.last_block
      /\ new.sponsored_amount_in_block = old.sponsored_amount_in_block
      /\ new.new_sponsorships_in_block = old.new_sponsorships_in_block
  BY RevokeWrites
<1>5. ASSUME NEW a \in Accounts, a # s
      PROVE  ExactFor(a)' /\ CountedFor(a)'
  <2>1. ActiveTotal(a) \in Nat /\ ActiveTotal(a)' = ActiveTotal(a) - 0
    BY <1>3, <1>5, RecentType
  <2>2. /\ sponsored_by(a)' = sponsored_by(a) /\ ActiveTotal(a)' = ActiveTotal(a)
        /\ SponsorLedger'[a] = SponsorLedger[a]
        /\ \A c \in sponsored_by(a) : Sponsorships'[c] = Sponsorships[c]
    <3>1. b \notin sponsored_by(a) /\ sponsored_by(a) \ {b} = sponsored_by(a)
      BY <1>3, <1>5
    <3>2. SponsorLedger'[a] = SponsorLedger[a]
      BY <1>4, <1>5
    <3>3. sponsored_by(a)' = sponsored_by(a)
      BY <1>3, <3>1
    <3>4. \A c \in sponsored_by(a) : Sponsorships'[c] = Sponsorships[c]
      BY <1>3, <3>1
    <3>5. QED
      BY <2>1, <3>2, <3>3, <3>4, SMTT(30)
  <2>3. QED
    BY <1>2, <1>5, <2>2, LedgerSame DEF LedgerInv
<1>6. /\ IsFiniteSet(sponsored_by(s)) /\ Cardinality(sponsored_by(s)) \in Nat
      /\ IsFiniteSet(R) /\ Cardinality(R) \in Nat
      /\ \A c \in sponsored_by(s) :
            Sponsorships[c].amount \in Nat /\ Sponsorships[c].created_at \in Nat
      /\ ActiveTotal(s) \in Nat /\ TotalOf(Sponsorships, R) \in Nat
  BY <1>1, RecentType
<1>7. ExactFor(s)'
  <2>1. b \in sponsored_by(s) /\ sponsored_by(s)' = sponsored_by(s) \ {b}
    BY <1>1, <1>3
  <2>2. /\ Cardinality(sponsored_by(s)') = Cardinality(sponsored_by(s)) - 1
        /\ Cardinality(sponsored_by(s)') \in Nat
    BY <1>6, <2>1, FS_RemoveElement, FS_CardinalityType
  <2>3. x <= ActiveTotal(s)
    BY <1>6, <2>1, TotalType DEF ActiveTotal
  <2>4. ActiveTotal(s)' = ActiveTotal(s) - x
    BY <1>1, <1>3
  <2>5. QED
    BY <1>1, <1>4, <1>6, <2>2, <2>3, <2>4, LedgerTypes, SMTT(30) DEF ExactFor, LedgerInv, monus
<1>8. CountedFor(s)'
  <2>1. Recent(s)' = R \ {b} /\ R \subseteq sponsored_by(s)
    BY <1>1, <1>3, <1>4 DEF Recent
  <2>2. IsFiniteSet(R \ {b}) /\ Cardinality(R \ {b}) <= Cardinality(R) /\ Cardinality(R \ {b}) \in Nat
    BY <1>6, FS_Subset, FS_CardinalityType
  <2>3. TotalOf(Sponsorships', R \ {b}) <= TotalOf(Sponsorships, R)
        /\ TotalOf(Sponsorships', R \ {b}) \in Int
    <3> DEFINE U == R \ {b}
    <3>1. /\ \A c \in R : Sponsorships[c].amount \in Nat
          /\ \A c \in U : Sponsorships'[c].amount = Sponsorships[c].amount
      BY <1>1, <1>3, <1>6, <2>1
    <3>2. CASE b \in R
      <4>1. U = R \ {b} /\ Sponsorships[b].amount \in Nat
        OBVIOUS
      <4> HIDE DEF U
      <4>2. TotalOf(Sponsorships', U) = TotalOf(Sponsorships, R) - Sponsorships[b].amount
        BY <1>6, <3>1, <3>2, <4>1, TotalDropped, SMTT(30)
      <4>3. QED
        BY <1>6, <4>1, <4>2, SMTT(30) DEF U
    <3>3. CASE b \notin R
      <4>1. U = R
        BY <3>3
      <4>2. TotalOf(Sponsorships', R) = TotalOf(Sponsorships, R)
        BY <1>6, <3>1, <4>1, TotalKept, SMTT(30)
      <4>3. QED
        BY <1>6, <4>1, <4>2, SMTT(30)
    <3>4. QED
      BY <3>2, <3>3
  <2>4. CountedFor(s) /\ new.last_block <= now'
    BY <1>1, <1>4 DEF LedgerInv, CountedFor
  <2>5. /\ Cardinality(Recent(s)') <= new.new_sponsorships_in_block
        /\ TotalOf(Sponsorships', Recent(s)') <= new.sponsored_amount_in_block
    BY <1>1, <1>4, <1>6, <2>1, <2>2, <2>3, <2>4, LedgerTypes, SMTT(30) DEF CountedFor
  <2>6. \A c \in sponsored_by(s)' : Sponsorships'[c].created_at <= new.last_block
    BY <1>1, <1>3, <1>4, <2>4 DEF CountedFor
  <2>7. QED
    BY <1>4, <2>4, <2>5, <2>6 DEF CountedFor
<1>9. QED
  BY <1>5, <1>7, <1>8 DEF LedgerInv

\* At genesis no one sponsors.
LEMMA InitLedger == Init => LedgerInv
<1>1. SUFFICES ASSUME Init, NEW s \in Accounts
               PROVE  ExactFor(s) /\ CountedFor(s)
  BY DEF LedgerInv
<1>4. QED
  BY <1>1, SponsorshipAssumption, SumEmpty, FS_EmptySet, SMTT(30)
     DEF ExactFor, CountedFor, Recent,
     ActiveTotal, TotalOf, Init, sponsored_by

\* Every step keeps the ledger exact.
LEMMA NextLedger ==
    ASSUME IInv, LedgerInv, [Next]_vars
    PROVE  LedgerInv'
<1>0. FundsOK /\ HookOK /\ now \in Nat
  BY SMTT(30) DEF IInv, HookOK
<1>1. CASE Sponsored
  <2>1. Amounts \cup {minimum_sponsorship} \subseteq Nat
    BY Constants
  <2>2. QED
    BY <1>0, <1>1, <2>1, LedgerAdded DEF Sponsored
<1>2. CASE Revoked
  BY <1>0, <1>2, LedgerRemoved DEF Revoked
<1>3. ASSUME now' = now \/ now' = now + 1, SponsorLedger' = SponsorLedger,
             DOMAIN Sponsorships' = DOMAIN Sponsorships,
             \A b \in DOMAIN Sponsorships :
                /\ Sponsorships'[b].sponsor = Sponsorships[b].sponsor
                /\ Sponsorships'[b].amount = Sponsorships[b].amount
                /\ Sponsorships'[b].created_at = Sponsorships[b].created_at
      PROVE  LedgerInv'
  BY <1>0, <1>3, ActiveSame, LedgerSame DEF sponsored_by, LedgerInv
<1>4. CASE Transferred
  BY <1>3, <1>4 DEF Transferred, transfer_allow_death, pallet
<1>5. CASE Quiet
  BY <1>3, <1>5 DEF Quiet
<1>6. QED
  BY <1>1, <1>2, <1>4, <1>5, StepKinds

\* Sponsor and revoke keep SponsorLedger equal to the sponsorships there are, in
\* number and in amount, and so the caps that can_sponsor reads off the ledger
\* really bound what one account sponsors.
THEOREM LedgerStaysExact == Spec => []LedgerIsExact
<1>1. LedgerInv => LedgerIsExact
  BY DEF LedgerInv, ExactFor, ActiveTotal, TotalOf, LedgerIsExact
<1>2. QED
  BY <1>1, InitLedger, NextLedger, InitInvariant, NextInvariant, PTL DEF Spec

\* The per-block counters, which refresh_per_block_ledger resets lazily and only
\* for the sponsor that acts, bound what each sponsor created in this block.
THEOREM BlockCapsHold == Spec => []PerBlockCaps
<1>1. ASSUME IInv, LedgerInv PROVE PerBlockCaps
  <2>0. FundsOK /\ now \in Nat
    BY <1>1, SMTT(30) DEF IInv, HookOK
  <2>1. SUFFICES ASSUME NEW s \in Accounts
                 PROVE  LET new == {b \in sponsored_by(s) : Sponsorships[b].created_at = now}
                        IN  /\ Cardinality(new) <= MaxNewSponsorshipsPerBlock
                            /\ TotalOf(Sponsorships, new) <= MaxSponsoredAmountPerBlock
    BY DEF PerBlockCaps, TotalOf
  <2> DEFINE new == {b \in sponsored_by(s) : Sponsorships[b].created_at = now}
  <2>2. CountedFor(s)
    BY <1>1 DEF LedgerInv
  <2>3. CASE SponsorLedger[s].last_block = now
    <3>1. new = Recent(s)
      BY <2>3 DEF Recent
    <3> HIDE DEF new
    <3>2. Cardinality(new) <= MaxNewSponsorshipsPerBlock
      BY <2>0, <2>2, <3>1, RecentType, LedgerTypes, SMTT(30) DEF CountedFor
    <3>3. TotalOf(Sponsorships, new) <= MaxSponsoredAmountPerBlock
      BY <2>0, <2>2, <3>1, RecentType, LedgerTypes, SMTT(30) DEF CountedFor
    <3>4. QED
      BY <3>2, <3>3 DEF new
  <2>4. CASE SponsorLedger[s].last_block # now
    <3>1. new = {}
      BY <2>0, <2>2, <2>4, LedgerTypes, SMTT(30) DEF CountedFor
    <3> HIDE DEF new
    <3>2. TotalOf(Sponsorships, new) = 0 /\ Cardinality(new) = 0
      BY <3>1, SumEmpty, FS_EmptySet DEF TotalOf
    <3>3. QED
      BY <2>0, <3>2, LedgerTypes, SMTT(30) DEF new
  <2>5. QED
    BY <2>3, <2>4
<1>2. QED
  BY <1>1, InitLedger, NextLedger, InitInvariant, NextInvariant, PTL DEF Spec

-----------------------------------------------------------------------------
(* Dust.                                                                   *)

AllKempt == \A a \in Accounts : Kempt(accounts[a])

\* A transfer, which leaves the pallet alone, does this to the accounts.
LEMMA TransferEffect ==
    ASSUME FundsOK, NEW a \in Accounts, NEW b \in Accounts, NEW x \in Nat,
           transfer_allow_death(a, b, x)
    PROVE  /\ a # b /\ x <= accounts[a].free
           /\ x <= reducible_balance(accounts[a], "Expendable")
           /\ can_deposit(accounts[b], x)
           /\ accounts'[a] = decrease_balance(accounts[a], x)
           /\ accounts'[b] = increase_balance(accounts[b], x)
           /\ \A c \in Accounts \ {a, b} : accounts'[c] = accounts[c]
<1>1. /\ SoundAccounts(accounts) /\ accounts \in [Accounts -> AccountInfo]
      /\ accounts[a].free \in Nat
  BY FundsAreSound, SoundParts DEF SoundAccounts
<1>2. x <= accounts[a].free
  BY <1>1, Constants, SMTT(30) DEF transfer_allow_death, reducible_balance
<1>3. QED
  BY <1>1, <1>2 DEF transfer_allow_death

\* The accounts of genesis have the existential deposit, or nothing.
LEMMA InitKempt == Init => AllKempt
  BY SponsorshipAssumption, SMTT(30)
     DEF Init, AllKempt, Kempt, NoDust, EndowedAccount, Reserved,
     OnHold, NothingHeld, HoldReason

\* Every step leaves every account in order.
LEMMA KemptStep == IInv /\ AllKempt /\ [Next]_vars => AllKempt'
<1> SUFFICES ASSUME IInv, AllKempt, [Next]_vars, NEW a \in Accounts PROVE Kempt(accounts'[a])
  BY DEF AllKempt
<1> USE Constants
<1>1. /\ FundsOK /\ SoundAccounts(accounts) /\ Sound(accounts[a]) /\ Kempt(accounts[a])
      /\ accounts[a].held["Sponsorship"] \in Nat /\ accounts[a].held["StorageDeposit"] \in Nat
      /\ accounts[a].free \in Nat /\ Slack(accounts[a]) \in Int /\ Slack(accounts[a]) >= 0
  BY FundsAreSound, SoundParts DEF IInv, AllKempt, Sound
<1>2. CASE Sponsored
  <2>1. PICK s \in Accounts, b \in Accounts, x \in Amounts \cup {minimum_sponsorship},
             m \in AutoUnlockMode, l \in Lease : do_sponsor(s, b, x, m, l)
    BY <1>2 DEF Sponsored
  <2>2. x \in Nat
    OBVIOUS
  <2>3. /\ x >= ExistentialDeposit /\ FundsLocked(s, b, x)
        /\ accounts[s].free - (x + SponsorshipStorageDeposit) >= ExistentialDeposit
    BY <1>1, <2>1, <2>2, SponsorEffect
  <2>4. Sound(accounts'[a])
    BY <2>3, SoundParts DEF FundsLocked
  <2>5. CASE a = s
    BY <2>3, <2>4, <2>5, KemptFunded DEF FundsLocked
  <2>6. CASE a # s /\ a = b
    <3>1. Reserved(accounts'[a]) > 0 /\ Slack(accounts'[a]) >= 1
      BY <1>1, <2>2, <2>3, <2>6, SMTT(30) DEF FundsLocked, Reserved, OnHold
    <3>2. QED
      BY <2>4, <3>1, KemptFunded
  <2>7. CASE a # s /\ a # b
    <3>1. /\ accounts'[a].free = accounts[a].free /\ Slack(accounts'[a]) >= Slack(accounts[a])
          /\ Reserved(accounts'[a]) = Reserved(accounts[a])
      BY <1>1, <2>3, <2>7, SMTT(30) DEF FundsLocked, Reserved, OnHold
    <3>2. QED
      BY <1>1, <2>4, <3>1, KemptSame
  <2>8. QED
    BY <2>5, <2>6, <2>7
<1>3. CASE Revoked
  <2>1. PICK b \in Accounts : revoke_sponsorship(b)
    BY <1>3 DEF Revoked
  <2> DEFINE s == Sponsorships[b].sponsor
             x == Sponsorships[b].amount
             kept == unheld(b)[b].free
  <2>2. /\ s \in Accounts /\ x \in Nat /\ x >= ExistentialDeposit
        /\ FundsReturned(s, b, x, kept)
    BY <1>1, <2>1, RevokeEffect
  <2> HIDE DEF s, x, kept
  <2>3. Sound(accounts'[a])
    BY <2>2, SoundParts DEF FundsReturned
  <2>4. CASE a = b
    BY <2>2, <2>4 DEF FundsReturned, Kempt
  <2>5. CASE a # b /\ a = s
    <3>1. accounts'[a].free >= ExistentialDeposit
      BY <1>1, <2>2, <2>5, SMTT(30) DEF FundsReturned
    <3>2. QED
      BY <2>3, <3>1, KemptFunded
  <2>6. CASE a # b /\ a # s
    <3>1. /\ accounts'[a].free = accounts[a].free /\ Slack(accounts'[a]) >= Slack(accounts[a])
          /\ Reserved(accounts'[a]) = Reserved(accounts[a])
      BY <1>1, <2>2, <2>6, SMTT(30) DEF FundsReturned, Reserved, OnHold
    <3>2. QED
      BY <1>1, <2>3, <3>1, KemptSame
  <2>7. QED
    BY <2>4, <2>5, <2>6
<1>4. CASE Transferred
  <2>1. PICK source \in Accounts, dest \in Accounts, x \in Payments :
            transfer_allow_death(source, dest, x)
    BY <1>4 DEF Transferred
  <2>2. x \in Nat
    OBVIOUS
  <2>3. /\ x <= reducible_balance(accounts[source], "Expendable")
        /\ accounts'[source] = decrease_balance(accounts[source], x)
        /\ accounts'[dest] = increase_balance(accounts[dest], x)
        /\ \A c \in Accounts \ {source, dest} : accounts'[c] = accounts[c]
    BY <1>1, <2>1, <2>2, TransferEffect
  <2>4. QED
    BY <1>1, <2>2, <2>3, KemptSpender, KemptReceiver
<1>5. CASE Quiet
  BY <1>1, <1>5 DEF Quiet
<1>6. QED
  BY <1>2, <1>3, <1>4, <1>5, StepKinds

\* No account is left with dust, and none has funds, free or on hold, without
\* existing: try_mutate_account removes what falls below the existential
\* deposit, do_sponsor takes its reference before it puts the hold, and
\* dec_providers is refused where a hold needs the last one.
THEOREM DustIsRemoved == Spec => []NoHiddenDust
<1>1. IInv /\ AllKempt => NoHiddenDust
  BY FundsAreSound, SoundParts, SoundAccount, SMTT(30) DEF NoHiddenDust, IInv, AllKempt, Kempt,
     NoDust, TotalBalance
<1>2. QED
  BY <1>1, InitInvariant, NextInvariant, InitKempt, KemptStep, PTL DEF Spec

-----------------------------------------------------------------------------
(* Sponsorship implements Escrow.                                          *)

\* The escrow sums and restricts as the pallet does.
LEMMA EscrowOperators ==
    ASSUME NEW f, NEW S
    PROVE  E!SumFunctionOnSet(f, S) = SumFunctionOnSet(f, S) /\ E!Restrict(f, S) = Restrict(f, S)
  BY DEF SumFunctionOnSet, FoldFunctionOnSet, MapThenFoldSet, Restrict,
         E!SumFunctionOnSet, E!FoldFunctionOnSet, E!MapThenFoldSet, E!Restrict

\* What the escrow sees of a state that satisfies the invariant.
EscrowView ==
    \A a \in Accounts :
        /\ wealth[a] = accounts[a].free + accounts[a].held["StorageDeposit"] + ActiveTotal(a)
        /\ wealth[a] \in Nat
        /\ E!LockedBy(a) = ActiveTotal(a)

\* The holds of an account's beneficiaries are what their records say.
LEMMA FundsInEscrow == FundsOK => EscrowView
<1> SUFFICES ASSUME FundsOK, NEW a \in Accounts
             PROVE  /\ wealth[a] = accounts[a].free + accounts[a].held["StorageDeposit"]
                                    + ActiveTotal(a)
                    /\ wealth[a] \in Nat
                    /\ E!LockedBy(a) = ActiveTotal(a)
  BY DEF EscrowView
<1> DEFINE S == sponsored_by(a)
<1>1. /\ ActiveTotal(a) \in Nat
      /\ \A b \in S : b \in Accounts /\ b \in DOMAIN Sponsorships
      /\ ActiveTotal(a) = TotalOf(Sponsorships, S)
  BY SponsoredByType DEF ActiveTotal
<1>5. E!LockedBy(a) = ActiveTotal(a)
  <2> DEFINE mine == {b \in DOMAIN locked : locked[b].sponsor = a}
  <2>1. mine = S
    BY DEF locked, sponsored_by
  <2>2. [b \in mine |-> locked[b].amount] = [b \in S |-> Sponsorships[b].amount]
    BY <1>1, <2>1 DEF locked
  <2>3. E!LockedBy(a) = SumFunctionOnSet([b \in mine |-> locked[b].amount], mine)
    BY EscrowOperators DEF E!LockedBy
  <2> HIDE DEF mine
  <2>4. QED
    BY <1>1, <2>2, <2>3 DEF TotalOf
<1>6. QED
  BY <1>1, FundsAreSound, SoundParts, <1>5, SMTT(30)
     DEF wealth, TotalOf, FundsOK, HoldBacksRecord,
     sponsored_amount, is_sponsored

\* And so after a step.
LEMMA FundsInEscrowNext == FundsOK' => EscrowView'
  BY FundsInEscrow, PTL

\* do_sponsor locks: what it takes from the sponsor's free balance it adds to
\* what the sponsor has on hold, there and at the beneficiary.
LEMMA SponsorLocks == ASSUME IInv, FundsOK', Sponsored PROVE E!Next
<1> USE Constants
<1>1. PICK s \in Accounts, b \in Accounts, x \in Amounts \cup {minimum_sponsorship},
           m \in AutoUnlockMode, l \in Lease : do_sponsor(s, b, x, m, l)
  BY DEF Sponsored
<1> DEFINE record == [sponsor |-> s, amount |-> x, auto_unlock |-> m,
                      lease |-> l, created_at |-> now]
<1>2. /\ x \in Nat /\ x \in Amounts \cup Payments \cup {minimum_sponsorship}
      /\ FundsOK /\ EscrowView /\ EscrowView'
  BY FundsInEscrow, FundsInEscrowNext DEF IInv
<1>3. /\ FundsLocked(s, b, x) /\ RecordAdded(b, record)
      /\ accounts[s].free - (x + SponsorshipStorageDeposit) >= ExistentialDeposit
  BY <1>1, <1>2, SponsorEffect
<1>4. record \in SponsorshipRecord /\ record.sponsor = s /\ record.amount = x
  BY <1>2 DEF SponsorshipRecord, IInv, HookOK
<1>5. ASSUME NEW a \in Accounts PROVE wealth'[a] = wealth[a]
  <2>1. /\ wealth[a] = accounts[a].free + accounts[a].held["StorageDeposit"] + ActiveTotal(a)
        /\ wealth'[a] = accounts'[a].free + accounts'[a].held["StorageDeposit"] + ActiveTotal(a)'
    BY <1>2 DEF EscrowView
  <2>2. ActiveTotal(a)' = ActiveTotal(a) + (IF a = s THEN x ELSE 0) /\ ActiveTotal(a) \in Nat
    BY <1>2, <1>3, <1>4, ActiveAdded, SponsoredByType
  <2>3. accounts[a].free \in Nat /\ accounts[a].held["StorageDeposit"] \in Nat
    BY <1>2, FundsAreSound, SoundParts
  <2>4. /\ accounts'[a].held["StorageDeposit"] = accounts[a].held["StorageDeposit"]
                + (IF a = s THEN SponsorshipStorageDeposit ELSE 0)
        /\ accounts'[a].free = accounts[a].free
                - (IF a = s THEN x + SponsorshipStorageDeposit ELSE 0)
    BY <1>3 DEF FundsLocked
  <2>5. QED
    BY <1>2, <2>1, <2>2, <2>3, <2>4, SMTT(30)
<1>6. wealth' = wealth
  BY <1>5 DEF wealth
<1>7. locked' = [c \in DOMAIN locked \cup {b} |->
                    IF c = b THEN [sponsor |-> s, amount |-> x] ELSE locked[c]]
  BY <1>3, SMTT(30) DEF locked, RecordAdded
<1>8. b \notin DOMAIN locked
  BY <1>3 DEF locked, RecordAdded
<1>9. E!LockedBy(s) + x <= wealth[s]
  <2>1. /\ wealth[s] = accounts[s].free + accounts[s].held["StorageDeposit"] + ActiveTotal(s)
        /\ E!LockedBy(s) = ActiveTotal(s) /\ ActiveTotal(s) \in Nat
    BY <1>2, SponsoredByType DEF EscrowView
  <2>2. accounts[s].free \in Nat /\ accounts[s].held["StorageDeposit"] \in Nat
    BY <1>2, FundsAreSound, SoundParts
  <2>3. QED
    BY <1>2, <1>3, <2>1, <2>2, SMTT(30)
<1>10. E!Lock(s, b, x)
  BY <1>6, <1>7, <1>8, <1>9 DEF E!Lock
<1>11. QED
  BY <1>2, <1>10 DEF E!Next

\* Whoever ends a sponsorship, revoke_sponsorship unlocks: the sponsor owns what
\* it owned, and the beneficiary lost at most its dust.
LEMMA RevokeUnlocks == ASSUME IInv, FundsOK', Revoked PROVE E!Next
<1> USE Constants
<1>1. PICK b \in Accounts : revoke_sponsorship(b)
  BY DEF Revoked
<1> DEFINE s == Sponsorships[b].sponsor
           x == Sponsorships[b].amount
           kept == unheld(b)[b].free
           lost == accounts[b].free - kept
<1>2. FundsOK /\ EscrowView /\ EscrowView'
  BY FundsInEscrow, FundsInEscrowNext DEF IInv
<1>3. /\ s \in Accounts /\ x \in Nat /\ FundsReturned(s, b, x, kept) /\ RecordRemoved(b)
  BY <1>1, <1>2, RevokeEffect
<1> HIDE DEF kept
<1>4. lost \in 0 .. ExistentialDeposit - 1 /\ accounts[b].free \in Nat /\ kept \in Nat
  <2>1. accounts[b].free \in Nat /\ kept \in Nat /\ Settles(kept, accounts[b].free)
    BY <1>2, <1>3, FundsAreSound, SoundParts DEF FundsReturned
  <2>2. QED
    BY <2>1, DustIsSmall, SMTT(30)
<1>5. ASSUME NEW a \in Accounts
      PROVE  wealth'[a] = IF a = b THEN wealth[a] - lost ELSE wealth[a]
  <2>1. /\ wealth[a] = accounts[a].free + accounts[a].held["StorageDeposit"] + ActiveTotal(a)
        /\ wealth'[a] = accounts'[a].free + accounts'[a].held["StorageDeposit"] + ActiveTotal(a)'
    BY <1>2 DEF EscrowView
  <2>2. ActiveTotal(a)' = ActiveTotal(a) - (IF a = s THEN x ELSE 0) /\ ActiveTotal(a) \in Nat
    BY <1>2, <1>3, ActiveRemoved, SponsoredByType
  <2>3. accounts[a].free \in Nat /\ accounts[a].held["StorageDeposit"] \in Nat
    BY <1>2, FundsAreSound, SoundParts
  <2>4. /\ accounts'[a].held["StorageDeposit"] = accounts[a].held["StorageDeposit"]
                - (IF a = s THEN SponsorshipStorageDeposit ELSE 0)
        /\ accounts'[a].free = (IF a = b THEN kept ELSE accounts[a].free)
                + (IF a = s THEN x + SponsorshipStorageDeposit ELSE 0)
    BY <1>3 DEF FundsReturned
  <2> HIDE DEF s, x
  <2>5. QED
    BY <1>3, <1>4, <2>1, <2>2, <2>3, <2>4, SMTT(30)
<1> HIDE DEF lost
<1>6. wealth' = [wealth EXCEPT ![b] = @ - lost]
  BY <1>5 DEF wealth
<1>7. locked' = Restrict(locked, DOMAIN locked \ {b}) /\ b \in DOMAIN locked
  BY <1>3 DEF locked, RecordRemoved, Restrict
<1>8. E!Unlock(b, lost)
  BY <1>6, <1>7, EscrowOperators DEF E!Unlock
<1>9. QED
  BY <1>4, <1>8 DEF E!Next

\* A transfer pays, from what is not locked; the payer may lose its dust.
LEMMA TransferPays == ASSUME IInv, AllKempt, FundsOK', Transferred PROVE E!Next
<1> USE Constants
<1>1. PICK a \in Accounts, b \in Accounts, x \in Payments : transfer_allow_death(a, b, x)
  BY DEF Transferred
<1> DEFINE lost == accounts[a].free - x - accounts'[a].free
<1>2. /\ x \in Nat /\ x \in Amounts \cup Payments \cup {minimum_sponsorship}
      /\ FundsOK /\ EscrowView /\ EscrowView'
  BY FundsInEscrow, FundsInEscrowNext DEF IInv
<1>3. /\ a # b /\ x <= accounts[a].free /\ can_deposit(accounts[b], x)
      /\ accounts'[a] = decrease_balance(accounts[a], x)
      /\ accounts'[b] = increase_balance(accounts[b], x)
      /\ \A c \in Accounts \ {a, b} : accounts'[c] = accounts[c]
  BY <1>1, <1>2, TransferEffect
<1>4. \A c \in Accounts : /\ Sound(accounts[c]) /\ NoDust(accounts[c])
                          /\ accounts[c].free \in Nat
                          /\ accounts[c].held["StorageDeposit"] \in Nat
  BY <1>2, FundsAreSound, SoundParts DEF AllKempt, Kempt
<1>5. /\ accounts'[a].held = accounts[a].held /\ accounts'[a].free \in Nat
      /\ Settles(accounts'[a].free, accounts[a].free - x)
  <2>1. Sound(accounts'[a]) /\ accounts'[a].held = accounts[a].held
    BY <1>2, <1>3, <1>4, DecreaseBalance, SMTT(30)
  <2>2. QED
    BY <1>2, <1>3, <1>4, <2>1, FreeSettles, SoundAccount
<1>6. /\ accounts'[b].held = accounts[b].held
      /\ accounts'[b].free = accounts[b].free + x
  <2>1. Sound(accounts[b]) /\ NoDust(accounts[b])
    BY <1>4
  <2>2. increase_balance(accounts[b], x).held = accounts[b].held
    BY <1>2, <2>1, IncreaseBalance
  <2>3. increase_balance(accounts[b], x).free = accounts[b].free + x
    BY <1>2, <1>3, <2>1, ReceivesExactly
  <2>4. QED
    BY <1>3, <2>2, <2>3
<1>7. lost \in 0 .. ExistentialDeposit - 1
  <2>1. accounts[a].free - x \in Nat
    BY <1>2, <1>3, <1>4, SMTT(30)
  <2>2. lost < ExistentialDeposit /\ accounts'[a].free <= accounts[a].free - x
    BY <1>5, <2>1, DustIsSmall
  <2>3. QED
    BY <1>5, <2>1, <2>2, SMTT(30)
<1>8. UNCHANGED pallet
  BY <1>1 DEF transfer_allow_death
<1>9. \A c \in Accounts : ActiveTotal(c)' = ActiveTotal(c) /\ ActiveTotal(c) \in Nat
  BY <1>2, <1>8, ActiveSame, SponsoredByType DEF pallet
<1>10. ASSUME NEW c \in Accounts
       PROVE  wealth'[c] = IF c = a THEN wealth[c] - x - lost
                           ELSE IF c = b THEN wealth[c] + x ELSE wealth[c]
  <2>1. /\ wealth[c] = accounts[c].free + accounts[c].held["StorageDeposit"] + ActiveTotal(c)
        /\ wealth'[c] = accounts'[c].free + accounts'[c].held["StorageDeposit"] + ActiveTotal(c)'
    BY <1>2 DEF EscrowView
  <2>2. QED
    BY <1>2, <1>3, <1>4, <1>5, <1>6, <1>9, <2>1, SMTT(30)
<1>11. x + lost <= wealth[a] - E!LockedBy(a)
  <2>1. /\ wealth[a] = accounts[a].free + accounts[a].held["StorageDeposit"] + ActiveTotal(a)
        /\ E!LockedBy(a) = ActiveTotal(a)
    BY <1>2 DEF EscrowView
  <2>2. QED
    BY <1>2, <1>4, <1>5, <1>9, <2>1, SMTT(30)
<1> HIDE DEF lost
<1>12. wealth' = [wealth EXCEPT ![a] = @ - x - lost, ![b] = @ + x]
  BY <1>3, <1>10 DEF wealth
<1>13. locked' = locked
  BY <1>8 DEF locked, pallet
<1>14. E!Pay(a, b, x, lost)
  BY <1>11, <1>12, <1>13 DEF E!Pay
<1>15. QED
  BY <1>2, <1>3, <1>7, <1>14 DEF E!Next

\* The other steps are no steps of the escrow.
LEMMA QuietStutters ==
    ASSUME IInv, FundsOK', Quiet PROVE wealth' = wealth /\ locked' = locked
BY ActiveSame DEF IInv, Quiet, EscrowView, wealth, locked

\* Every call and every step of on_initialize is a step of the escrow or leaves
\* what the escrow sees as it is.  So the chain of hold, transfer_on_hold and
\* release gives a sponsor back exactly what it locked, however its
\* sponsorships, its own being sponsored and its transfers interleave, and a
\* beneficiary can neither spend nor keep it.
THEOREM SponsorshipIsEscrow == Spec => ImplementsEscrow
<1>1. Init => E!Init
  BY InitInvariant, FundsInEscrow, SMTT(30) DEF IInv, EscrowView, wealth, Init, locked, E!Init
<1>2. IInv /\ AllKempt /\ [Next]_vars => [E!Next]_<<wealth, locked>>
  BY NextInvariant, StepKinds, SponsorLocks, RevokeUnlocks, TransferPays, QuietStutters DEF
     IInv
<1>3. QED
  BY <1>1, <1>2, InitInvariant, NextInvariant, InitKempt, KemptStep, PTL
  DEF Spec, ImplementsEscrow, E!Spec
=============================================================================
