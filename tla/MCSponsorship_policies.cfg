SPECIFICATION FairSpec
CONSTANTS
    a = a
    b = b
    c = c
    Accounts = {a, b}
    Endowment <- Means
    ExistentialDeposit = 2
    MinSponsorship = 1
    SponsorMinRemaining = 2
    MaxTotalSponsoredPerSponsor = 4
    MaxSponsoredAccountsPerSponsor = 2
    MaxSponsoredAmountPerBlock = 4
    MaxNewSponsorshipsPerBlock = 1
    MaxLeaseDuration = 2
    MaxQueueProcessingPerBlock = 1
    SponsorshipStorageDeposit = 1
    Amounts = {2}
    Payments = {2}
    Modes = {"Disabled", "FreeGeSponsored"}
    Leases = {{}, {2}, {3}}
    MaxBlock = 3
INVARIANTS
    PerBlockCaps
    LeaseIsIndexed
    AutoUnlockIsWatched
PROPERTIES
    LeaseExpires
    AutoUnlockHappens
