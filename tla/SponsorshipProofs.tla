-------------------------- MODULE SponsorshipProofs --------------------------
(***************************************************************************)
(* Proofs about Sponsorship, for every value of its constants.             *)
(***************************************************************************)
EXTENDS Sponsorship, BalancesProofs, FiniteSetTheorems, TLAPS

\* Zenon proves most leaves; a leaf that needs arithmetic or functions says SMTT.
USE Zenon

-----------------------------------------------------------------------------
(* What the two fund movements of the pallet do to all accounts.           *)

SoundAccounts(funds) ==
    /\ funds \in [Accounts -> AccountInfo]
    /\ \A a \in Accounts : Sound(funds[a])

\* Replacing one account by a sound one.
LEMMA ReplaceAccount ==
    ASSUME NEW funds, SoundAccounts(funds), NEW a \in Accounts, NEW account, Sound(account)
    PROVE  /\ SoundAccounts([funds EXCEPT ![a] = account])
           /\ [funds EXCEPT ![a] = account][a] = account
           /\ \A c \in Accounts \ {a} : [funds EXCEPT ![a] = account][c] = funds[c]
  BY DEF SoundAccounts, Sound

\* do_sponsor adds the amount to the beneficiary's hold, the deposit to the
\* sponsor's and a reference to the beneficiary, whoever they are, and takes
\* both from the free balance of the sponsor, to the unit.
LEMMA SponsorFunds ==
    ASSUME SoundAccounts(accounts),
           NEW sponsor_ \in Accounts, NEW beneficiary \in Accounts, NEW amount \in Nat,
           SponsorshipStorageDeposit \in Nat, amount >= ExistentialDeposit,
           accounts[sponsor_].free - (amount + SponsorshipStorageDeposit) >= ExistentialDeposit
    PROVE  LET after == sponsor_funds(sponsor_, beneficiary, amount)
           IN  /\ SoundAccounts(after)
               /\ \A a \in Accounts :
                    /\ after[a].held["Sponsorship"] = accounts[a].held["Sponsorship"]
                            + (IF a = beneficiary THEN amount ELSE 0)
                    /\ after[a].held["StorageDeposit"] = accounts[a].held["StorageDeposit"]
                            + (IF a = sponsor_ THEN SponsorshipStorageDeposit ELSE 0)
                    /\ after[a].free = accounts[a].free
                            - (IF a = sponsor_ THEN amount + SponsorshipStorageDeposit ELSE 0)
                    /\ Slack(after[a]) = Slack(accounts[a])
                            + (IF a = beneficiary THEN 1 ELSE 0)
<1> DEFINE deposit == SponsorshipStorageDeposit
           account1 == inc_providers(accounts[beneficiary])
           referenced == [accounts EXCEPT ![beneficiary] = account1]
           account2 == decrease_balance(referenced[sponsor_], amount)
           debited == [referenced EXCEPT ![sponsor_] = account2]
           account3 == increase_balance_on_hold(debited[beneficiary], "Sponsorship", amount)
           onhold == [debited EXCEPT ![beneficiary] = account3]
           account4 == hold(onhold[sponsor_], "StorageDeposit", deposit)
           after == [onhold EXCEPT ![sponsor_] = account4]
<1>0. /\ sponsor_funds(sponsor_, beneficiary, amount) = after
      /\ "Sponsorship" \in HoldReason /\ "StorageDeposit" \in HoldReason
      /\ \A a \in Accounts :
            /\ Sound(accounts[a]) /\ Slack(accounts[a]) \in Int /\ accounts[a].free \in Nat
            /\ accounts[a].held \in [HoldReason -> Nat]
            /\ accounts[a].held["Sponsorship"] \in Nat
            /\ accounts[a].held["StorageDeposit"] \in Nat
      /\ ExistentialDeposit \in Nat \ {0}
  BY ExistentialDepositAssumption, SMTT(30)
  DEF sponsor_funds, HoldReason, SoundAccounts, Sound, Slack, AccountInfo, OwnProvider
<1>1. /\ SoundAccounts(referenced)
      /\ \A a \in Accounts :
            /\ referenced[a].held = accounts[a].held
            /\ referenced[a].free = accounts[a].free
            /\ Slack(referenced[a]) = Slack(accounts[a]) + (IF a = beneficiary THEN 1 ELSE 0)
  <2>1. /\ Sound(account1) /\ Slack(account1) = Slack(accounts[beneficiary]) + 1
        /\ account1.held = accounts[beneficiary].held
        /\ account1.free = accounts[beneficiary].free
    BY <1>0, IncProviders
  <2>. HIDE DEF account1
  <2>2. /\ SoundAccounts(referenced) /\ referenced[beneficiary] = account1
        /\ \A c \in Accounts \ {beneficiary} : referenced[c] = accounts[c]
    BY <2>1, ReplaceAccount, SMTT(30)
  <2>. HIDE DEF referenced
  <2>3. QED
    BY <1>0, <2>1, <2>2, SMTT(30)
<1>2. /\ SoundAccounts(debited)
      /\ \A a \in Accounts :
            /\ debited[a].held = accounts[a].held
            /\ debited[a].free = accounts[a].free - (IF a = sponsor_ THEN amount ELSE 0)
            /\ Slack(debited[a]) = Slack(accounts[a]) + (IF a = beneficiary THEN 1 ELSE 0)
  <2>. HIDE DEF referenced
  <2>1. /\ Sound(referenced[sponsor_])
        /\ amount <= referenced[sponsor_].free
        /\ referenced[sponsor_].free - amount >= ExistentialDeposit
    BY <1>0, <1>1, SMTT(30) DEF SoundAccounts
  <2>2. /\ Sound(account2) /\ Slack(account2) = Slack(referenced[sponsor_])
        /\ account2.held = referenced[sponsor_].held
        /\ account2.free = referenced[sponsor_].free - amount
    BY <2>1, DecreaseBalance
  <2>. HIDE DEF account2
  <2>3. /\ SoundAccounts(debited) /\ debited[sponsor_] = account2
        /\ \A c \in Accounts \ {sponsor_} : debited[c] = referenced[c]
    BY <1>1, <2>2, ReplaceAccount, SMTT(30)
  <2>. HIDE DEF debited
  <2>4. QED
    BY <1>0, <1>1, <2>2, <2>3, SMTT(30)
<1>3. /\ SoundAccounts(onhold)
      /\ \A a \in Accounts :
            /\ onhold[a].held["Sponsorship"] = accounts[a].held["Sponsorship"]
                    + (IF a = beneficiary THEN amount ELSE 0)
            /\ onhold[a].held["StorageDeposit"] = accounts[a].held["StorageDeposit"]
            /\ onhold[a].free = accounts[a].free - (IF a = sponsor_ THEN amount ELSE 0)
            /\ Slack(onhold[a]) = Slack(accounts[a]) + (IF a = beneficiary THEN 1 ELSE 0)
  <2>. HIDE DEF debited
  <2>2. /\ Sound(account3) /\ Slack(account3) = Slack(debited[beneficiary])
        /\ account3.held = [debited[beneficiary].held EXCEPT !["Sponsorship"] = @ + amount]
        /\ account3.free = debited[beneficiary].free
    BY <1>0, <1>2, IncreaseBalanceOnHold, SMTT(30) DEF SoundAccounts
  <2>. HIDE DEF account3
  <2>4. /\ SoundAccounts(onhold) /\ onhold[beneficiary] = account3
        /\ \A c \in Accounts \ {beneficiary} : onhold[c] = debited[c]
    BY <1>2, <2>2, ReplaceAccount, SMTT(30)
  <2>. HIDE DEF onhold
  <2>5. QED
    BY <1>0, <1>2, <2>2, <2>4, SMTT(30)
<1>4. /\ SoundAccounts(after)
      /\ \A a \in Accounts :
            /\ after[a].held["Sponsorship"] = onhold[a].held["Sponsorship"]
            /\ after[a].held["StorageDeposit"] = accounts[a].held["StorageDeposit"]
                    + (IF a = sponsor_ THEN deposit ELSE 0)
            /\ after[a].free = accounts[a].free - (IF a = sponsor_ THEN amount + deposit ELSE 0)
            /\ Slack(after[a]) = Slack(onhold[a])
  <2>. HIDE DEF onhold
  <2>1. /\ Sound(onhold[sponsor_]) /\ onhold[sponsor_].free - deposit >= ExistentialDeposit
        /\ onhold[sponsor_].held \in [HoldReason -> Nat]
    BY <1>3, SMTT(30) DEF SoundAccounts, Sound, AccountInfo
  <2>2. /\ Sound(account4) /\ Slack(account4) = Slack(onhold[sponsor_])
        /\ account4.held = [onhold[sponsor_].held EXCEPT !["StorageDeposit"] = @ + deposit]
        /\ account4.free = onhold[sponsor_].free - deposit
    BY <1>0, <2>1, Hold, SMTT(30)
  <2>3. /\ account4.held["Sponsorship"] = onhold[sponsor_].held["Sponsorship"]
        /\ account4.held["StorageDeposit"] = accounts[sponsor_].held["StorageDeposit"] + deposit
    BY <1>0, <1>3, <2>1, <2>2, SMTT(30)
  <2>. HIDE DEF account4
  <2>4. /\ SoundAccounts(after) /\ after[sponsor_] = account4
        /\ \A c \in Accounts \ {sponsor_} : after[c] = onhold[c]
    BY <1>3, <2>2, ReplaceAccount, SMTT(30)
  <2>. HIDE DEF after
  <2>5. ASSUME NEW a \in Accounts
        PROVE  /\ after[a].held["Sponsorship"] = onhold[a].held["Sponsorship"]
               /\ after[a].held["StorageDeposit"] = accounts[a].held["StorageDeposit"]
                       + (IF a = sponsor_ THEN deposit ELSE 0)
               /\ after[a].free
                    = accounts[a].free - (IF a = sponsor_ THEN amount + deposit ELSE 0)
               /\ Slack(after[a]) = Slack(onhold[a])
    <3>1. CASE a = sponsor_
      <4>2. account4.free = accounts[sponsor_].free - (amount + deposit)
        BY <1>0, <2>2, <1>3, SMTT(30)
      <4>3. QED
        BY <2>2, <2>3, <2>4, <3>1, <4>2
    <3>2. CASE a # sponsor_
      BY <1>0, <1>3, <2>4, <3>2, SMTT(30)
    <3>3. QED
      BY <3>1, <3>2
  <2>6. QED
    BY <2>4, <2>5
<1>. HIDE DEF after, onhold
<1>5. QED
  BY <1>0, <1>3, <1>4

\* The parts of a sound account.
LEMMA SoundParts ==
    ASSUME NEW funds, SoundAccounts(funds), NEW a \in Accounts
    PROVE  /\ Sound(funds[a]) /\ Slack(funds[a]) \in Int /\ funds[a].free \in Nat
           /\ funds[a].held \in [HoldReason -> Nat]
           /\ funds[a].held["Sponsorship"] \in Nat
           /\ funds[a].held["StorageDeposit"] \in Nat
  BY SMTT(30) DEF HoldReason, SoundAccounts, Sound, Slack, AccountInfo, OwnProvider

\* transfer_on_hold takes the record's amount off the beneficiary's hold and
\* pays it to the sponsor.
LEMMA RepaidFunds ==
    ASSUME SoundAccounts(accounts), NEW beneficiary \in Accounts,
           Sponsorships[beneficiary].sponsor \in Accounts,
           Sponsorships[beneficiary].amount \in Nat,
           Sponsorships[beneficiary].amount >= ExistentialDeposit,
           accounts[beneficiary].held["Sponsorship"] >= Sponsorships[beneficiary].amount
    PROVE  LET record == Sponsorships[beneficiary]
               kept == unheld(beneficiary)[beneficiary].free
               after == repaid(beneficiary)
           IN  /\ SoundAccounts(after)
               /\ kept \in Nat /\ Settles(kept, accounts[beneficiary].free)
               /\ \A a \in Accounts :
                    /\ after[a].held["Sponsorship"] = accounts[a].held["Sponsorship"]
                            - (IF a = beneficiary THEN record.amount ELSE 0)
                    /\ after[a].held["StorageDeposit"] = accounts[a].held["StorageDeposit"]
                    /\ after[a].free = (IF a = beneficiary THEN kept ELSE accounts[a].free)
                            + (IF a = record.sponsor THEN record.amount ELSE 0)
                    /\ Slack(after[a]) = Slack(accounts[a])
               /\ NoDust(after[beneficiary])
<1> DEFINE sponsor_ == Sponsorships[beneficiary].sponsor
           amount == Sponsorships[beneficiary].amount
           account1 == decrease_balance_on_hold(accounts[beneficiary], "Sponsorship", amount)
           taken == [accounts EXCEPT ![beneficiary] = account1]
           account2 == increase_balance(taken[sponsor_], amount)
           after == [taken EXCEPT ![sponsor_] = account2]
           kept == taken[beneficiary].free
<1>0. /\ repaid(beneficiary) = after /\ unheld(beneficiary) = taken
      /\ "Sponsorship" \in HoldReason /\ "StorageDeposit" \in HoldReason
      /\ ExistentialDeposit \in Nat
  BY ExistentialDepositAssumption DEF repaid, unheld, HoldReason
<1>1. /\ SoundAccounts(taken)
      /\ kept \in Nat /\ Settles(kept, accounts[beneficiary].free)
      /\ NoDust(taken[beneficiary])
      /\ \A c \in Accounts \ {beneficiary} : taken[c] = accounts[c]
      /\ \A a \in Accounts :
            /\ taken[a].held["Sponsorship"] = accounts[a].held["Sponsorship"]
                    - (IF a = beneficiary THEN amount ELSE 0)
            /\ taken[a].held["StorageDeposit"] = accounts[a].held["StorageDeposit"]
            /\ Slack(taken[a]) = Slack(accounts[a])
  <2>1. /\ Sound(account1) /\ Slack(account1) = Slack(accounts[beneficiary])
        /\ account1.held = [accounts[beneficiary].held EXCEPT !["Sponsorship"] = @ - amount]
        /\ Settles(account1.free, accounts[beneficiary].free) /\ NoDust(account1)
    BY <1>0, SoundParts, DecreaseBalanceOnHold, SMTT(30)
  <2>2. /\ account1.held["Sponsorship"] = accounts[beneficiary].held["Sponsorship"] - amount
        /\ account1.held["StorageDeposit"] = accounts[beneficiary].held["StorageDeposit"]
    BY <1>0, <2>1, SoundParts, SMTT(30)
  <2>. HIDE DEF account1
  <2>3. /\ SoundAccounts(taken) /\ taken[beneficiary] = account1
        /\ \A c \in Accounts \ {beneficiary} : taken[c] = accounts[c]
    BY <2>1, ReplaceAccount, SMTT(30)
  <2>. HIDE DEF taken
  <2>4. ASSUME NEW a \in Accounts
        PROVE  /\ taken[a].held["Sponsorship"] = accounts[a].held["Sponsorship"]
                       - (IF a = beneficiary THEN amount ELSE 0)
               /\ taken[a].held["StorageDeposit"] = accounts[a].held["StorageDeposit"]
               /\ Slack(taken[a]) = Slack(accounts[a])
    <3>1. CASE a = beneficiary
      BY <2>1, <2>2, <2>3, <3>1
    <3>2. CASE a # beneficiary
      BY SoundParts, <2>3, <3>2, SMTT(30)
    <3>3. QED
      BY <3>1, <3>2
  <2>5. QED
    BY <2>1, <2>3, <2>4, SoundParts
<1>. HIDE DEF taken
<1>2. /\ Sound(account2) /\ Slack(account2) = Slack(taken[sponsor_])
      /\ account2.held = taken[sponsor_].held
      /\ account2.free = taken[sponsor_].free + amount
      /\ account2.free >= ExistentialDeposit
  <2>1. Sound(taken[sponsor_]) /\ taken[sponsor_].free \in Nat
    BY <1>1, SoundParts
  <2>2. /\ Sound(account2) /\ Slack(account2) = Slack(taken[sponsor_])
        /\ account2.held = taken[sponsor_].held
        /\ taken[sponsor_].free + amount >= ExistentialDeposit
              => account2.free = taken[sponsor_].free + amount
    BY <2>1, IncreaseBalance
  <2>. HIDE DEF account2
  <2>3. QED
    BY <1>0, <2>1, <2>2, SMTT(30)
<1>. HIDE DEF account2
<1>3. /\ SoundAccounts(after) /\ after[sponsor_] = account2
      /\ \A c \in Accounts \ {sponsor_} : after[c] = taken[c]
  BY <1>1, <1>2, ReplaceAccount, SMTT(30)
<1>. HIDE DEF after
<1>5. ASSUME NEW a \in Accounts
      PROVE  after[a].free = (IF a = beneficiary THEN kept ELSE accounts[a].free)
                             + (IF a = sponsor_ THEN amount ELSE 0)
  BY SoundParts, <1>1, <1>2, <1>3, SMTT(30)
<1>6. QED
  BY <1>0, <1>1, <1>2, <1>3, <1>5, SMTT(30) DEF NoDust

\* revoke_sponsorship takes the amount off the beneficiary's hold and the
\* deposit off the sponsor's, and disturbs no other reference.
LEMMA RevokeFunds ==
    ASSUME SoundAccounts(accounts), NEW beneficiary \in Accounts,
           Sponsorships[beneficiary].sponsor \in Accounts,
           Sponsorships[beneficiary].amount \in Nat,
           Sponsorships[beneficiary].amount >= ExistentialDeposit,
           StorageDepositHeld[beneficiary] \in Nat,
           can_revoke(beneficiary),
           Slack(accounts[beneficiary]) >= 1
    PROVE  LET record == Sponsorships[beneficiary]
               deposit == StorageDepositHeld[beneficiary]
               kept == unheld(beneficiary)[beneficiary].free
               after == revoke_funds(beneficiary)
           IN  /\ SoundAccounts(after)
               /\ kept \in Nat /\ Settles(kept, accounts[beneficiary].free)
               /\ \A a \in Accounts :
                    /\ after[a].held["Sponsorship"] = accounts[a].held["Sponsorship"]
                            - (IF a = beneficiary THEN record.amount ELSE 0)
                    /\ after[a].held["StorageDeposit"] = accounts[a].held["StorageDeposit"]
                            - (IF a = record.sponsor THEN deposit ELSE 0)
                    /\ after[a].free = (IF a = beneficiary THEN kept ELSE accounts[a].free)
                            + (IF a = record.sponsor THEN record.amount + deposit ELSE 0)
                    /\ a # beneficiary => Slack(after[a]) = Slack(accounts[a])
                    /\ a = beneficiary /\ Slack(accounts[a]) >= 2
                            => Slack(after[a]) = Slack(accounts[a]) - 1
               /\ NoDust(after[beneficiary])
               /\ Reserved(after[beneficiary]) > 0 => after[beneficiary].providers > 0
<1> DEFINE sponsor_ == Sponsorships[beneficiary].sponsor
           amount == Sponsorships[beneficiary].amount
           deposit == StorageDepositHeld[beneficiary]
           kept == unheld(beneficiary)[beneficiary].free
           paid == repaid(beneficiary)
           account3 == release(paid[sponsor_], "StorageDeposit", deposit)
           free == [paid EXCEPT ![sponsor_] = account3]
           account4 == dec_providers(free[beneficiary])
           after == [free EXCEPT ![beneficiary] = account4]
<1>0. /\ revoke_funds(beneficiary) = after
      /\ "Sponsorship" \in HoldReason /\ "StorageDeposit" \in HoldReason
      /\ deposit <= paid[sponsor_].held["StorageDeposit"]
      /\ accounts[beneficiary].held["Sponsorship"] >= amount
      /\ ExistentialDeposit \in Nat
  BY ExistentialDepositAssumption DEF revoke_funds, released, can_revoke, HoldReason
<1>1. /\ SoundAccounts(paid) /\ NoDust(paid[beneficiary])
      /\ kept \in Nat /\ Settles(kept, accounts[beneficiary].free)
      /\ \A a \in Accounts :
            /\ paid[a].held["Sponsorship"] = accounts[a].held["Sponsorship"]
                    - (IF a = beneficiary THEN amount ELSE 0)
            /\ paid[a].held["StorageDeposit"] = accounts[a].held["StorageDeposit"]
            /\ paid[a].free = (IF a = beneficiary THEN kept ELSE accounts[a].free)
                    + (IF a = sponsor_ THEN amount ELSE 0)
            /\ Slack(paid[a]) = Slack(accounts[a])
  BY <1>0, RepaidFunds
<1>. HIDE DEF paid, kept
<1>p. /\ paid[sponsor_].free \in Nat /\ paid[sponsor_].free >= ExistentialDeposit
      /\ \A a \in Accounts : accounts[a].free \in Nat
  BY <1>0, <1>1, SoundParts, SMTT(30)
<1>2. /\ SoundAccounts(free) /\ NoDust(free[beneficiary])
      /\ \A a \in Accounts :
            /\ free[a].held["Sponsorship"] = paid[a].held["Sponsorship"]
            /\ free[a].held["StorageDeposit"] = accounts[a].held["StorageDeposit"]
                    - (IF a = sponsor_ THEN deposit ELSE 0)
            /\ free[a].free = (IF a = beneficiary THEN kept ELSE accounts[a].free)
                    + (IF a = sponsor_ THEN amount + deposit ELSE 0)
            /\ Slack(free[a]) = Slack(accounts[a])
  <2>0. /\ Sound(paid[sponsor_]) /\ deposit \in Nat
        /\ paid[sponsor_].held \in [HoldReason -> Nat]
        /\ paid[sponsor_].held["StorageDeposit"] = accounts[sponsor_].held["StorageDeposit"]
    BY <1>1, SoundParts
  <2>1. /\ Sound(account3) /\ Slack(account3) = Slack(paid[sponsor_])
        /\ account3.held = [paid[sponsor_].held EXCEPT !["StorageDeposit"] = @ - deposit]
        /\ account3.free = paid[sponsor_].free + deposit
    <3>1. "StorageDeposit" \in HoldReason /\ deposit <= paid[sponsor_].held["StorageDeposit"]
      BY <1>0
    <3>2. QED
      BY <1>p, <2>0, <3>1, Release, SMTT(30)
  <2>2. /\ account3.held["Sponsorship"] = paid[sponsor_].held["Sponsorship"]
        /\ account3.held["StorageDeposit"] = accounts[sponsor_].held["StorageDeposit"] - deposit
    BY <1>0, <2>0, <2>1, SMTT(30)
  <2>. HIDE DEF account3
  <2>3. /\ SoundAccounts(free) /\ free[sponsor_] = account3
        /\ \A c \in Accounts \ {sponsor_} : free[c] = paid[c]
    BY <1>1, <2>1, ReplaceAccount, SMTT(30)
  <2>. HIDE DEF free
  <2>4. ASSUME NEW a \in Accounts
        PROVE  /\ free[a].held["Sponsorship"] = paid[a].held["Sponsorship"]
               /\ free[a].held["StorageDeposit"] = accounts[a].held["StorageDeposit"]
                       - (IF a = sponsor_ THEN deposit ELSE 0)
               /\ free[a].free = (IF a = beneficiary THEN kept ELSE accounts[a].free)
                       + (IF a = sponsor_ THEN amount + deposit ELSE 0)
               /\ Slack(free[a]) = Slack(accounts[a])
    <3>1. CASE a = sponsor_
      <4>1. paid[sponsor_].free
              = (IF sponsor_ = beneficiary THEN kept ELSE accounts[sponsor_].free) + amount
        BY <1>1
      <4>2. account3.free = (IF sponsor_ = beneficiary THEN kept ELSE accounts[sponsor_].free)
                            + (amount + deposit)
        BY <1>1, <1>p, <2>1, <4>1, SMTT(30)
      <4>3. QED
        BY <1>1, <2>1, <2>2, <2>3, <3>1, <4>2
    <3>2. CASE a # sponsor_
      <4>1. accounts[a].held["StorageDeposit"] \in Nat
        BY SoundParts
      <4>2. QED
        BY <1>1, <1>p, <2>3, <3>2, <4>1, SMTT(30)
    <3>3. QED
      BY <3>1, <3>2
  <2>5. NoDust(free[beneficiary])
    <3>1. CASE beneficiary = sponsor_
      BY <1>0, <1>p, <2>1, <2>3, <3>1, SMTT(30) DEF NoDust
    <3>2. CASE beneficiary # sponsor_
      BY <1>1, <2>3, <3>2
    <3>3. QED
      BY <3>1, <3>2
  <2>6. QED
    BY <2>3, <2>4, <2>5
<1>. HIDE DEF free
<1>3. /\ Sound(account4)
      /\ account4.held["Sponsorship"] = free[beneficiary].held["Sponsorship"]
      /\ account4.held["StorageDeposit"] = free[beneficiary].held["StorageDeposit"]
      /\ Slack(accounts[beneficiary]) >= 2 => Slack(account4) = Slack(accounts[beneficiary]) - 1
      /\ account4.free = free[beneficiary].free
      /\ Reserved(free[beneficiary]) > 0 => account4.providers > 0
  BY <1>0, <1>2, SoundParts, DecProviders, SMTT(30)
<1>h. Reserved(account4) = Reserved(free[beneficiary])
  BY <1>3 DEF Reserved, OnHold
<1>. HIDE DEF account4
<1>4. /\ SoundAccounts(after) /\ after[beneficiary] = account4
      /\ \A c \in Accounts \ {beneficiary} : after[c] = free[c]
  BY <1>2, <1>3, ReplaceAccount, SMTT(30)
<1>. HIDE DEF after
<1>5. /\ NoDust(after[beneficiary])
      /\ Reserved(after[beneficiary]) > 0 => after[beneficiary].providers > 0
  BY <1>2, <1>3, <1>h, <1>4 DEF NoDust
<1>6. QED
  BY <1>0, <1>1, <1>2, <1>3, <1>4, <1>5, SMTT(30) DEF kept

-----------------------------------------------------------------------------
(* The inductive invariant.  TypeOK is not inductive alone: that a         *)
(* provider count stays a natural number needs ReferencesCoverUse.         *)

StorageOK ==
    /\ accounts \in [Accounts -> AccountInfo]
    /\ DOMAIN Sponsorships \subseteq Accounts
    /\ Sponsorships \in [DOMAIN Sponsorships -> SponsorshipRecord]
    /\ SponsorLedger \in [Accounts -> SponsorState]
    /\ StorageDepositHeld \in [Accounts -> Nat]
    /\ Expirations \in [Block -> SUBSET Accounts]
    /\ AutoUnlockQueue \subseteq Accounts

HookOK ==
    /\ now \in 0 .. MaxBlock
    /\ phase \in {"genesis", "expirations", "auto_unlock", "extrinsics"}
    /\ pending \subseteq Accounts
    /\ requeue \subseteq Accounts
    /\ processed \in Nat

FundsOK == StorageOK /\ HoldBacksRecord /\ DepositPerSponsorship /\ ReferencesCoverUse

IInv == HookOK /\ FundsOK

\* The references of an account that neither its own funds nor being sponsored
\* account for.  They are not part of the invariant: the pallet leaves them.
Spare(a) == Slack(accounts[a]) - (IF is_sponsored(a) THEN 1 ELSE 0)

\* What the invariant says of the accounts.
LEMMA FundsAreSound ==
    ASSUME FundsOK
    PROVE  /\ SoundAccounts(accounts)
           /\ \A b \in DOMAIN Sponsorships : Slack(accounts[b]) >= 1
<1>1. ASSUME NEW a \in Accounts
      PROVE  /\ Sound(accounts[a])
             /\ a \in DOMAIN Sponsorships => Slack(accounts[a]) >= 1
  <2>1. /\ accounts[a] \in AccountInfo
        /\ accounts[a].providers \in Nat
        /\ OwnProvider(accounts[a].free) \in Nat
        /\ accounts[a].providers >= OwnProvider(accounts[a].free)
                                    + (IF a \in DOMAIN Sponsorships THEN 1 ELSE 0)
    BY DEF FundsOK, StorageOK, ReferencesCoverUse, is_sponsored, AccountInfo, OwnProvider
  <2>2. QED
    BY <2>1, SMTT(30) DEF Sound, Slack
<1>2. QED
  BY <1>1 DEF SoundAccounts, FundsOK, StorageOK

\* The converse for the references, in the form the steps establish it.
LEMMA SoundReferences ==
    ASSUME SoundAccounts(accounts'),
           \A b \in DOMAIN Sponsorships' : b \in Accounts => Slack(accounts'[b]) >= 1
    PROVE  ReferencesCoverUse'
BY SMTT(30) DEF SoundAccounts, Sound, AccountInfo, OwnProvider, Slack, ReferencesCoverUse,
   is_sponsored

\* The constants.
LEMMA Constants ==
    /\ IsFiniteSet(Accounts)
    /\ SponsorshipStorageDeposit \in Nat /\ ExistentialDeposit \in Nat \ {0}
    /\ MinSponsorship \in Nat /\ MaxBlock \in Nat /\ MaxLeaseDuration \in Nat
    /\ minimum_sponsorship \in Nat /\ minimum_sponsorship >= ExistentialDeposit
    /\ Amounts \subseteq Nat /\ Payments \subseteq Nat
    /\ Modes \subseteq AutoUnlockMode /\ Leases \subseteq Lease
    /\ 0 .. MaxBlock \subseteq Block
<1>1. /\ IsFiniteSet(Accounts)
      /\ SponsorshipStorageDeposit \in Nat /\ ExistentialDeposit \in Nat \ {0}
      /\ MinSponsorship \in Nat /\ MaxBlock \in Nat /\ MaxLeaseDuration \in Nat
      /\ Amounts \subseteq Nat /\ Payments \subseteq Nat
  BY ExistentialDepositAssumption, SponsorshipAssumption
<1>2. minimum_sponsorship \in Nat /\ minimum_sponsorship >= ExistentialDeposit
  BY <1>1, SMTT(30) DEF minimum_sponsorship
<1>3. 0 .. MaxBlock \subseteq Block
  BY <1>1, SMTT(30) DEF Block
<1>4. QED
  BY <1>1, <1>2, <1>3, PolicyAssumption

\* What do_sponsor does to the accounts and to the records.
FundsLocked(s, b, x) ==
    /\ SoundAccounts(accounts')
    /\ \A a \in Accounts :
         /\ accounts'[a].held["Sponsorship"] = accounts[a].held["Sponsorship"]
                 + (IF a = b THEN x ELSE 0)
         /\ accounts'[a].held["StorageDeposit"] = accounts[a].held["StorageDeposit"]
                 + (IF a = s THEN SponsorshipStorageDeposit ELSE 0)
         /\ accounts'[a].free = accounts[a].free
                 - (IF a = s THEN x + SponsorshipStorageDeposit ELSE 0)
         /\ Slack(accounts'[a]) = Slack(accounts[a]) + (IF a = b THEN 1 ELSE 0)

RecordAdded(b, record) ==
    /\ b \notin DOMAIN Sponsorships
    /\ DOMAIN Sponsorships' = DOMAIN Sponsorships \cup {b}
    /\ Sponsorships'[b] = record
    /\ \A c \in DOMAIN Sponsorships : Sponsorships'[c] = Sponsorships[c]

\* What revoke_sponsorship does: of its free balance, the beneficiary keeps
\* `kept`.
FundsReturned(s, b, x, kept) ==
    /\ SoundAccounts(accounts')
    /\ kept \in Nat /\ Settles(kept, accounts[b].free)
    /\ \A a \in Accounts :
         /\ accounts'[a].held["Sponsorship"] = accounts[a].held["Sponsorship"]
                 - (IF a = b THEN x ELSE 0)
         /\ accounts'[a].held["StorageDeposit"] = accounts[a].held["StorageDeposit"]
                 - (IF a = s THEN SponsorshipStorageDeposit ELSE 0)
         /\ accounts'[a].free = (IF a = b THEN kept ELSE accounts[a].free)
                 + (IF a = s THEN x + SponsorshipStorageDeposit ELSE 0)
         /\ a # b => Slack(accounts'[a]) = Slack(accounts[a])
         /\ a = b /\ Slack(accounts[a]) >= 2 => Slack(accounts'[a]) = Slack(accounts[a]) - 1
    /\ NoDust(accounts'[b])
    /\ Reserved(accounts'[b]) > 0 => accounts'[b].providers > 0

RecordRemoved(b) ==
    /\ b \in DOMAIN Sponsorships
    /\ DOMAIN Sponsorships' = DOMAIN Sponsorships \ {b}
    /\ \A c \in DOMAIN Sponsorships' : Sponsorships'[c] = Sponsorships[c]

\* What do_sponsor finds and does.
LEMMA SponsorEffect ==
    ASSUME FundsOK, NEW s \in Accounts, NEW b \in Accounts, NEW x \in Nat,
           NEW m \in AutoUnlockMode, NEW l \in Lease, do_sponsor(s, b, x, m, l)
    PROVE  /\ x >= ExistentialDeposit
           /\ accounts[s].free - (x + SponsorshipStorageDeposit) >= ExistentialDeposit
           /\ FundsLocked(s, b, x)
           /\ RecordAdded(b, [sponsor |-> s, amount |-> x, auto_unlock |-> m,
                              lease |-> l, created_at |-> now])
<1> USE Constants
<1>1. SoundAccounts(accounts)
  BY FundsAreSound
<1>6. QED
  BY <1>1, SoundParts, SponsorFunds, SMTT(30)
     DEF FundsLocked, do_sponsor, RecordAdded, can_sponsor,
     reducible_balance, is_sponsored

\* What revoke_sponsorship finds and does.
LEMMA RevokeEffect ==
    ASSUME FundsOK, NEW b \in Accounts, revoke_sponsorship(b)
    PROVE  LET s == Sponsorships[b].sponsor
               x == Sponsorships[b].amount
           IN  /\ s \in Accounts /\ x \in Nat
               /\ x >= ExistentialDeposit /\ accounts[b].held["Sponsorship"] = x
               /\ SponsorLedger[s] \in SponsorState
               /\ FundsReturned(s, b, x, unheld(b)[b].free)
               /\ RecordRemoved(b)
<1> USE Constants
<1> DEFINE s == Sponsorships[b].sponsor
           x == Sponsorships[b].amount
<1>2. /\ b \in DOMAIN Sponsorships /\ s \in Accounts /\ x \in Nat
      /\ x >= ExistentialDeposit /\ accounts[b].held["Sponsorship"] = x
      /\ StorageDepositHeld[b] = SponsorshipStorageDeposit
      /\ SponsorLedger[s] \in SponsorState
  BY DEF revoke_sponsorship, is_sponsored, sponsored_amount, FundsOK, StorageOK,
         SponsorshipRecord, HoldBacksRecord, DepositPerSponsorship
<1>6. QED
  BY <1>2, FundsAreSound, RevokeFunds, SMTT(30) DEF FundsReturned, revoke_sponsorship, Restrict,
     RecordRemoved

\* do_sponsor preserves the invariant of the funds, and adds no reference but
\* the one for being sponsored.
LEMMA DoSponsor ==
    ASSUME HookOK, FundsOK, NEW s \in Accounts, NEW b \in Accounts, NEW x \in Nat,
           NEW m \in AutoUnlockMode, NEW l \in Lease, do_sponsor(s, b, x, m, l)
    PROVE  FundsOK' /\ \A a \in Accounts : Spare(a)' = Spare(a)
<1> USE Constants
<1>1. SoundAccounts(accounts) /\ \A c \in DOMAIN Sponsorships : Slack(accounts[c]) >= 1
  BY FundsAreSound
<1>0. /\ x >= ExistentialDeposit /\ FundsLocked(s, b, x)
      /\ RecordAdded(b, [sponsor |-> s, amount |-> x, auto_unlock |-> m,
                         lease |-> l, created_at |-> now])
  BY SponsorEffect
<1>2. b \notin DOMAIN Sponsorships /\ x >= ExistentialDeposit
  BY <1>0 DEF RecordAdded
<1>3. /\ SoundAccounts(accounts')
      /\ \A a \in Accounts :
            /\ accounts'[a].held["Sponsorship"] = accounts[a].held["Sponsorship"]
                    + (IF a = b THEN x ELSE 0)
            /\ accounts'[a].held["StorageDeposit"] = accounts[a].held["StorageDeposit"]
                    + (IF a = s THEN SponsorshipStorageDeposit ELSE 0)
            /\ Slack(accounts'[a]) = Slack(accounts[a]) + (IF a = b THEN 1 ELSE 0)
  BY <1>0 DEF FundsLocked
<1>4. /\ DOMAIN Sponsorships' = DOMAIN Sponsorships \cup {b}
      /\ Sponsorships'[b] = [sponsor |-> s, amount |-> x, auto_unlock |-> m,
                             lease |-> l, created_at |-> now]
      /\ \A c \in DOMAIN Sponsorships : Sponsorships'[c] = Sponsorships[c]
  BY <1>0 DEF RecordAdded
<1>5. StorageOK'
  <2>1. accounts' \in [Accounts -> AccountInfo]
    BY <1>3 DEF SoundAccounts
  <2>3. SponsorLedger' \in [Accounts -> SponsorState]
    BY SMTT(30)
       DEF FundsOK, StorageOK, HookOK, refresh_per_block_ledger, SponsorState, do_sponsor
  <2>7. QED
    BY <2>1, <2>3 DEF StorageOK, SponsorshipRecord, HookOK, FundsOK, do_sponsor,
       enqueue_auto_unlock, insert_expiration
<1>6. HoldBacksRecord'
  BY <1>1, SoundParts, <1>2, <1>3, <1>4, SMTT(30)
     DEF FundsOK, HoldBacksRecord, sponsored_amount,
     is_sponsored
<1>7. DepositPerSponsorship'
  <2>1. ASSUME NEW a \in Accounts
        PROVE  accounts'[a].held["StorageDeposit"]
                 = SponsorshipStorageDeposit * Cardinality(sponsored_by(a)')
    <3>2. IsFiniteSet(sponsored_by(a)) /\ Cardinality(sponsored_by(a)) \in Nat
      BY FS_Subset, FS_CardinalityType DEF sponsored_by, FundsOK, StorageOK
    <3>3. CASE a = s
      <4>1. sponsored_by(a)' = sponsored_by(a) \cup {b} /\ b \notin sponsored_by(a)
        BY <1>2, <1>4, <3>3, SMTT(30) DEF sponsored_by
      <4>2. Cardinality(sponsored_by(a)') = Cardinality(sponsored_by(a)) + 1
        BY <3>2, <4>1, FS_AddElement
      <4>3. QED
        BY <1>3, <3>2, <3>3, <4>2, SMTT(30) DEF FundsOK, DepositPerSponsorship
    <3>4. CASE a # s
      <4>1. sponsored_by(a)' = sponsored_by(a)
        BY <1>4, <3>4, SMTT(30) DEF sponsored_by
      <4>2. QED
        BY <1>3, <1>1, SoundParts, <3>4, <4>1, SMTT(30) DEF FundsOK, DepositPerSponsorship
    <3>5. QED
      BY <3>3, <3>4
  <2>2. ASSUME NEW a \in Accounts
        PROVE  StorageDepositHeld'[a]
                 = IF a \in DOMAIN Sponsorships' THEN SponsorshipStorageDeposit ELSE 0
    BY DEF FundsOK, DepositPerSponsorship, is_sponsored, do_sponsor, StorageOK
  <2>3. QED
    BY <2>1, <2>2 DEF DepositPerSponsorship, is_sponsored
<1>8. ReferencesCoverUse'
  BY <1>1, SoundParts, <1>4, <1>3, SoundReferences, SMTT(30) DEF Sound
<1>9. ASSUME NEW a \in Accounts PROVE Spare(a)' = Spare(a)
  BY <1>1, SoundParts, <1>2, <1>3, <1>4, SMTT(30) DEF Spare, is_sponsored
<1>10. QED
  BY <1>5, <1>6, <1>7, <1>8, <1>9 DEF FundsOK

\* revoke_sponsorship preserves it too, and takes no reference of others.
LEMMA Revoke ==
    ASSUME FundsOK, NEW b \in Accounts, revoke_sponsorship(b)
    PROVE  FundsOK' /\ \A a \in Accounts : Spare(a) >= 1 => Spare(a)' = Spare(a)
<1> USE Constants
<1> DEFINE s == Sponsorships[b].sponsor
           x == Sponsorships[b].amount
<1>1. SoundAccounts(accounts) /\ \A c \in DOMAIN Sponsorships : Slack(accounts[c]) >= 1
  BY FundsAreSound
<1>0. /\ s \in Accounts /\ x \in Nat /\ accounts[b].held["Sponsorship"] = x
      /\ SponsorLedger[s] \in SponsorState
      /\ FundsReturned(s, b, x, unheld(b)[b].free) /\ RecordRemoved(b)
  BY RevokeEffect
<1>2. /\ b \in DOMAIN Sponsorships /\ s \in Accounts /\ x \in Nat
      /\ accounts[b].held["Sponsorship"] = x
      /\ SponsorLedger[s] \in SponsorState
  BY <1>0 DEF RecordRemoved
<1>3. /\ SoundAccounts(accounts')
      /\ \A a \in Accounts :
            /\ accounts'[a].held["Sponsorship"] = accounts[a].held["Sponsorship"]
                    - (IF a = b THEN x ELSE 0)
            /\ accounts'[a].held["StorageDeposit"] = accounts[a].held["StorageDeposit"]
                    - (IF a = s THEN SponsorshipStorageDeposit ELSE 0)
            /\ a # b => Slack(accounts'[a]) = Slack(accounts[a])
            /\ a = b /\ Slack(accounts[a]) >= 2 => Slack(accounts'[a]) = Slack(accounts[a]) - 1
  BY <1>0 DEF FundsReturned
<1>4. /\ DOMAIN Sponsorships' = DOMAIN Sponsorships \ {b}
      /\ \A c \in DOMAIN Sponsorships' : Sponsorships'[c] = Sponsorships[c]
  BY <1>0 DEF RecordRemoved
<1>5. StorageOK'
  <2>3. SponsorLedger' \in [Accounts -> SponsorState]
    BY <1>2, SMTT(30) DEF SponsorState, monus, revoke_sponsorship, FundsOK, StorageOK
  <2>7. QED
    BY <1>3, <2>3 DEF StorageOK, revoke_sponsorship, Restrict, FundsOK, dequeue_auto_unlock,
       remove_expiration, SoundAccounts
<1>6. HoldBacksRecord'
  BY <1>1, SoundParts, <1>2, <1>3, <1>4, SMTT(30)
     DEF FundsOK, HoldBacksRecord, sponsored_amount,
     is_sponsored
<1>7. DepositPerSponsorship'
  <2>1. ASSUME NEW a \in Accounts
        PROVE  accounts'[a].held["StorageDeposit"]
                 = SponsorshipStorageDeposit * Cardinality(sponsored_by(a)')
    <3>1. /\ accounts[a].held["StorageDeposit"]
                = SponsorshipStorageDeposit * Cardinality(sponsored_by(a))
          /\ accounts[a].held["StorageDeposit"] \in Nat
      BY <1>1, SoundParts DEF FundsOK, DepositPerSponsorship
    <3>2. IsFiniteSet(sponsored_by(a)) /\ Cardinality(sponsored_by(a)) \in Nat
      BY FS_Subset, FS_CardinalityType DEF sponsored_by, FundsOK, StorageOK
    <3>3. CASE a = s
      <4>1. sponsored_by(a)' = sponsored_by(a) \ {b} /\ b \in sponsored_by(a)
        BY <1>2, <1>4, <3>3 DEF sponsored_by
      <4>2. Cardinality(sponsored_by(a)') = Cardinality(sponsored_by(a)) - 1
        BY <3>2, <4>1, FS_RemoveElement
      <4>3. Cardinality(sponsored_by(a)) # 0
        BY <3>2, <4>1, FS_EmptySet
      <4>4. QED
        BY <1>3, <3>1, <3>2, <3>3, <4>2, SMTT(30)
    <3>4. CASE a # s
      <4>1. sponsored_by(a)' = sponsored_by(a)
        BY <1>4, <3>4 DEF sponsored_by
      <4>2. QED
        BY <1>3, <3>1, <3>4, <4>1, SMTT(30)
    <3>5. QED
      BY <3>3, <3>4
  <2>2. ASSUME NEW a \in Accounts
        PROVE  StorageDepositHeld'[a]
                 = IF a \in DOMAIN Sponsorships' THEN SponsorshipStorageDeposit ELSE 0
    BY <1>4 DEF FundsOK, DepositPerSponsorship, is_sponsored, revoke_sponsorship, StorageOK
  <2>3. QED
    BY <2>1, <2>2 DEF DepositPerSponsorship, is_sponsored
<1>8. ReferencesCoverUse'
  BY <1>1, <1>3, <1>4, SoundReferences
<1>9. ASSUME NEW a \in Accounts, Spare(a) >= 1 PROVE Spare(a)' = Spare(a)
  BY <1>1, SoundParts, <1>2, <1>3, <1>4, <1>9, SMTT(30) DEF Spare, is_sponsored
<1>10. QED
  BY <1>5, <1>6, <1>7, <1>8, <1>9 DEF FundsOK

\* A step that moves no funds and changes at most the policies of sponsorships
\* preserves what is said of the funds.
LEMMA SameFunds ==
    ASSUME FundsOK, accounts' = accounts, StorageDepositHeld' = StorageDepositHeld,
           DOMAIN Sponsorships' = DOMAIN Sponsorships,
           \A c \in DOMAIN Sponsorships :
                /\ Sponsorships'[c].sponsor = Sponsorships[c].sponsor
                /\ Sponsorships'[c].amount = Sponsorships[c].amount
    PROVE  HoldBacksRecord' /\ DepositPerSponsorship' /\ ReferencesCoverUse'
BY SMTT(30) DEF sponsored_by, FundsOK, DepositPerSponsorship, is_sponsored, HoldBacksRecord,
   sponsored_amount, ReferencesCoverUse

\* set_policy rewrites the policy of one record and its place in the indexes.
LEMMA SetPolicy ==
    ASSUME FundsOK, NEW s \in Accounts, NEW b \in Accounts,
           NEW m \in AutoUnlockMode, NEW l \in Lease, set_policy(s, b, m, l)
    PROVE  FundsOK'
<1> DEFINE record == [Sponsorships[b] EXCEPT !.auto_unlock = m]
           record2 == [record EXCEPT !.lease = l]
<1>1. /\ b \in DOMAIN Sponsorships
      /\ Sponsorships[b] \in SponsorshipRecord
      /\ Sponsorships' = [Sponsorships EXCEPT ![b] = record2]
  BY DEF set_policy, is_sponsored, FundsOK, StorageOK
<1>2. /\ record \in SponsorshipRecord
      /\ record.sponsor = Sponsorships[b].sponsor
      /\ record.amount = Sponsorships[b].amount
  BY <1>1 DEF SponsorshipRecord
<1>. HIDE DEF record
<1>3. /\ record2 \in SponsorshipRecord
      /\ record2.sponsor = Sponsorships[b].sponsor
      /\ record2.amount = Sponsorships[b].amount
  BY <1>2 DEF SponsorshipRecord
<1>. HIDE DEF record2
<1>6. QED
  BY <1>1, <1>3, SameFunds DEF set_policy, FundsOK, StorageOK, insert_expiration,
     remove_expiration, enqueue_auto_unlock

\* Whatever moves free balance only, leaving the pallet, the holds and at least
\* the references alone, preserves it.
LEMMA FreeBalanceMoves ==
    ASSUME FundsOK, UNCHANGED pallet, SoundAccounts(accounts'),
           \A a \in Accounts : /\ accounts'[a].held = accounts[a].held
                               /\ Slack(accounts'[a]) >= Slack(accounts[a])
    PROVE  FundsOK'
<1>1. StorageOK'
  BY DEF SoundAccounts, FundsOK, StorageOK, pallet
<1>5. QED
  BY <1>1, FundsAreSound, SoundParts, SoundReferences, SMTT(30)
     DEF FundsOK, pallet, HoldBacksRecord,
     sponsored_amount, is_sponsored, sponsored_by, DepositPerSponsorship

\* A transfer of free balance disturbs no hold and no reference.
LEMMA Transfer ==
    ASSUME FundsOK, NEW source \in Accounts, NEW dest \in Accounts, NEW x \in Nat,
           transfer_allow_death(source, dest, x)
    PROVE  FundsOK'
<1> USE Constants
<1> DEFINE payer == decrease_balance(accounts[source], x)
           payee == increase_balance(accounts[dest], x)
           debited == [accounts EXCEPT ![source] = payer]
           after == [debited EXCEPT ![dest] = payee]
<1>1. SoundAccounts(accounts) /\ \A c \in DOMAIN Sponsorships : Slack(accounts[c]) >= 1
  BY FundsAreSound
<1>2. source # dest /\ accounts' = after
  BY DEF transfer_allow_death, SoundAccounts
<1>4. /\ Sound(payer) /\ Slack(payer) = Slack(accounts[source])
      /\ payer.held = accounts[source].held
  BY <1>1, SoundParts, DecreaseBalance, SMTT(30) DEF transfer_allow_death, reducible_balance
<1>5. /\ Sound(payee) /\ Slack(payee) = Slack(accounts[dest])
      /\ payee.held = accounts[dest].held
  BY <1>1, SoundParts, IncreaseBalance
<1>. HIDE DEF payer, payee
<1>6. /\ SoundAccounts(debited) /\ debited[source] = payer
      /\ \A c \in Accounts \ {source} : debited[c] = accounts[c]
  BY <1>1, <1>4, ReplaceAccount, SMTT(30)
<1>. HIDE DEF debited
<1>7. /\ SoundAccounts(after) /\ after[dest] = payee
      /\ \A c \in Accounts \ {dest} : after[c] = debited[c]
  BY <1>5, <1>6, ReplaceAccount, SMTT(30)
<1>. HIDE DEF after
<1>8. \A a \in Accounts : /\ accounts'[a].held = accounts[a].held
                          /\ Slack(accounts'[a]) = Slack(accounts[a])
  BY <1>2, <1>4, <1>5, <1>6, <1>7
<1>9. UNCHANGED pallet
  BY DEF transfer_allow_death
<1>11. QED
  BY <1>2, <1>7, <1>8, <1>9, SoundParts, FreeBalanceMoves, SMTT(30)

-----------------------------------------------------------------------------
(* The theorems.                                                           *)

\* Before the genesis sponsorships are built there are no records and no holds.
LEMMA InitInvariant == Init => IInv
<1> SUFFICES ASSUME Init PROVE IInv
  OBVIOUS
<1> USE Constants DEF Init
<1>2. DOMAIN Sponsorships = {}
  BY SMTT(30)
<1>3. \A a \in Accounts : EndowedAccount(Endowment[a]) \in AccountInfo
  BY SponsorshipAssumption DEF EndowedAccount, AccountInfo, NothingHeld, HoldReason, OwnProvider
<1>5. HoldBacksRecord
  BY SMTT(30) DEF HoldBacksRecord, sponsored_amount, is_sponsored, EndowedAccount, NothingHeld,
     HoldReason
<1>6. DepositPerSponsorship
  BY FS_EmptySet, SMTT(30)
     DEF sponsored_by, DepositPerSponsorship, is_sponsored, EndowedAccount,
     NothingHeld, HoldReason
<1>7. ReferencesCoverUse
  BY SMTT(30) DEF ReferencesCoverUse, is_sponsored, EndowedAccount, OwnProvider
<1>8. QED
  BY <1>3, <1>5, <1>6, <1>7, SMTT(30) DEF IInv, FundsOK, Block, SponsorState, StorageOK, HookOK

\* Every call, every step of on_initialize and every stuttering step preserves
\* the invariant.
LEMMA NextInvariant == IInv /\ [Next]_vars => IInv'
<1> SUFFICES ASSUME HookOK, FundsOK, [Next]_vars PROVE HookOK' /\ FundsOK'
  BY DEF IInv
<1> USE Constants
<1>1. ASSUME UNCHANGED <<now, hook>> PROVE HookOK'
  BY <1>1 DEF HookOK, hook
<1>2. ASSUME UNCHANGED <<accounts, pallet>> PROVE FundsOK'
  BY <1>2, SameFunds DEF FundsOK, StorageOK, pallet
<1>3. ASSUME NEW s \in Accounts, NEW b \in Accounts, NEW x \in Amounts, NEW m \in Modes,
             NEW l \in Leases,
             genesis_build(s, b, x, m, l) \/ sponsor(s, b, x, m, l)
                \/ create_sponsorship(s, b, x, m, l)
      PROVE  HookOK' /\ FundsOK'
  BY <1>1, <1>3, DoSponsor DEF genesis_build, sponsor, create_sponsorship, Calls
<1>4. ASSUME NEW s \in Accounts, NEW b \in Accounts, NEW m \in Modes,
             NEW l \in Leases, sponsor_minimum(s, b, m, l)
      PROVE  HookOK' /\ FundsOK'
  BY <1>1, <1>4, DoSponsor DEF sponsor_minimum, Calls
<1>5. ASSUME NEW s \in Accounts, NEW b \in Accounts, NEW m \in Modes,
             NEW l \in Leases, set_policy(s, b, m, l)
      PROVE  HookOK' /\ FundsOK'
  <2>1. FundsOK'
    BY <1>5, SetPolicy
  <2>2. QED
    BY <1>1, <1>5, <2>1 DEF set_policy, Calls
<1>6. ASSUME NEW s \in Accounts, NEW b \in Accounts, unlock(s, b) \/ unlock_sponsorship(s, b)
      PROVE  HookOK' /\ FundsOK'
  BY <1>1, <1>6, Revoke DEF unlock, unlock_sponsorship, Calls
<1>7. ASSUME NEW b \in Accounts, force_unlock(b) \/ refresh(b) \/ try_auto_unlock(b)
      PROVE  HookOK' /\ FundsOK'
  BY <1>1, <1>7, Revoke DEF force_unlock, refresh, try_auto_unlock, Calls
<1>8. ASSUME NEW a \in Accounts, NEW b \in Accounts, NEW x \in Payments,
             transfer_allow_death(a, b, x)
      PROVE  HookOK' /\ FundsOK'
  <2>1. FundsOK'
    BY <1>8, Transfer
  <2>2. QED
    BY <1>1, <1>8, <2>1 DEF transfer_allow_death, Calls
<1>9. CASE begin_block
  BY <1>9, SameFunds, SMTT(30) DEF begin_block, HookOK, FundsOK, StorageOK
<1>10. ASSUME NEW b \in pending, process_expiration(b) PROVE HookOK' /\ FundsOK'
  BY <1>10, <1>2, Revoke DEF process_expiration, HookOK
<1>11. CASE take_auto_unlock_queue
  BY <1>11, SameFunds DEF take_auto_unlock_queue, HookOK, FundsOK, StorageOK
<1>12. ASSUME NEW b \in pending, process_auto_unlock(b) PROVE HookOK' /\ FundsOK'
  BY <1>12, <1>2, Revoke, SMTT(30) DEF process_auto_unlock, HookOK
<1>13. CASE put_auto_unlock_queue
  BY <1>13, SameFunds DEF put_auto_unlock_queue, HookOK, FundsOK, StorageOK
<1>14. CASE UNCHANGED vars
  BY <1>1, <1>2, <1>14 DEF vars
<1>15. QED
  BY <1>3, <1>4, <1>5, <1>6, <1>7, <1>8, <1>9, <1>10, <1>11, <1>12, <1>13, <1>14
  DEF Next, on_initialize

\* The invariant is enough for every check of revoke_sponsorship: the hold
\* covers the record, the amount is at least the existential deposit, and the
\* sponsor still has the deposit of this sponsorship on hold.
LEMMA FundsAreRevocable == FundsOK => AlwaysRevocable
<1> SUFFICES ASSUME FundsOK, NEW b \in DOMAIN Sponsorships PROVE can_revoke(b)
  BY DEF AlwaysRevocable
<1> USE Constants
<1> DEFINE s == Sponsorships[b].sponsor
           x == Sponsorships[b].amount
           payee == repaid(b)[s]
<1>1. SoundAccounts(accounts)
  BY FundsAreSound
<1>2. /\ b \in Accounts /\ s \in Accounts /\ x \in Nat /\ x >= ExistentialDeposit
      /\ accounts[b].held["Sponsorship"] = x
      /\ StorageDepositHeld[b] = SponsorshipStorageDeposit
  BY DEF is_sponsored, sponsored_amount, FundsOK, StorageOK,
         SponsorshipRecord, HoldBacksRecord, DepositPerSponsorship
<1>4. accounts[s].held["StorageDeposit"] >= SponsorshipStorageDeposit
  <2>1. b \in sponsored_by(s) /\ IsFiniteSet(sponsored_by(s))
    BY FS_Subset DEF sponsored_by, FundsOK, StorageOK
  <2>4. QED
    BY <2>1, FS_EmptySet, FS_CardinalityType, <1>2, SMTT(30) DEF FundsOK, DepositPerSponsorship
<1>. HIDE DEF payee
<1>6. QED
  BY <1>2, <1>1, SoundParts, RepaidFunds, <1>4, SMTT(30) DEF can_revoke, payee, can_deposit

\* In every reachable state, for any accounts, constants and genesis balances,
\* the storage of the pallet and the balances have their types; in particular
\* no free balance, hold or provider count that do_sponsor, revoke_sponsorship
\* or a transfer computes goes below zero.
THEOREM TypeCorrect == Spec => []TypeOK
<1>1. IInv => TypeOK
  BY DEF IInv, HookOK, FundsOK, StorageOK, TypeOK
<1>2. QED
  BY InitInvariant, NextInvariant, <1>1, PTL DEF Spec

\* do_sponsor and revoke_sponsorship keep the pallet's records and the holds
\* in pallet_balances equal.
THEOREM HoldsMatchRecords == Spec => []HoldBacksRecord
<1>1. IInv => HoldBacksRecord
  BY DEF IInv, FundsOK
<1>2. QED
  BY InitInvariant, NextInvariant, <1>1, PTL DEF Spec

\* A sponsor has exactly one storage deposit on hold per sponsorship.
THEOREM DepositsMatchRecords == Spec => []DepositPerSponsorship
<1>1. IInv => DepositPerSponsorship
  BY DEF IInv, FundsOK
<1>2. QED
  BY InitInvariant, NextInvariant, <1>1, PTL DEF Spec

\* The provider references of an account cover its own funds and its being
\* sponsored, so that no dec_providers of a revocation removes funds.
THEOREM ReferencesSuffice == Spec => []ReferencesCoverUse
<1>1. IInv => ReferencesCoverUse
  BY DEF IInv, FundsOK
<1>2. QED
  BY InitInvariant, NextInvariant, <1>1, PTL DEF Spec

\* revoke_sponsorship can fail for no sponsorship in any reachable state, so
\* the entry that process_expirations drops is always one it has revoked.
THEOREM RevocationNeverFails == Spec => []AlwaysRevocable
<1>1. IInv => AlwaysRevocable
  BY FundsAreRevocable DEF IInv
<1>2. QED
  BY InitInvariant, NextInvariant, <1>1, PTL DEF Spec
=============================================================================
