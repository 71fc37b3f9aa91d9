SPECIFICATION Spec
CONSTANTS
    a = a
    b = b
    c = c
    Accounts = {a, b, c}
    Endowment <- Funds
    ExistentialDeposit = 2
    MinSponsorship = 1
    SponsorMinRemaining = 2
    MaxTotalSponsoredPerSponsor = 4
    MaxSponsoredAccountsPerSponsor = 2
    MaxSponsoredAmountPerBlock = 4
    MaxNewSponsorshipsPerBlock = 2
    MaxLeaseDuration = 1
    MaxQueueProcessingPerBlock = 2
    SponsorshipStorageDeposit = 1
    Amounts = {2}
    Payments = {2}
    Modes = {"SpendableGeSponsored"}
    Leases = {{}}
    MaxBlock = 1
INVARIANTS
    TypeOK
    HoldBacksRecord
    DepositPerSponsorship
    LedgerIsExact
    AlwaysRevocable
    ReferencesCoverUse
    NoHiddenDust
PROPERTIES
    ImplementsEscrow
