SPECIFICATION RuntimeSpec
CONSTANTS
    u = u
    v = v
    account_id = account_id
    Accounts = {u, v, account_id}
    Endowment <- Funds
    ExistentialDeposit = 2
    MinSponsorship = 2
    SponsorMinRemaining = 2
    MaxTotalSponsoredPerSponsor = 4
    MaxSponsoredAccountsPerSponsor = 2
    MaxSponsoredAmountPerBlock = 4
    MaxNewSponsorshipsPerBlock = 2
    MaxLeaseDuration = 1
    MaxQueueProcessingPerBlock = 2
    SponsorshipStorageDeposit = 1
    Amounts = {2}
    Payments = {1, 2}
    Modes = {"SpendableGeSponsored"}
    Leases = {{}}
    MaxBlock = 1
    MinPurchase = 1
    Fees = {0, 1, 2}
    Tips = {0}
INVARIANTS
    GasAccountIsKept
    CreditsBackedUpToDust
    SponsoredCanTransact
    SponsorsArePaidBack
    MoneyConserved
CHECK_DEADLOCK FALSE
