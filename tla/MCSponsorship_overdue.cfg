SPECIFICATION Spec
CONSTANTS
    a = a
    b = b
    c = c
    Accounts = {a, b}
    Endowment <- Funds
    ExistentialDeposit = 2
    MinSponsorship = 1
    SponsorMinRemaining = 2
    MaxTotalSponsoredPerSponsor = 4
    MaxSponsoredAccountsPerSponsor = 2
    MaxSponsoredAmountPerBlock = 4
    MaxNewSponsorshipsPerBlock = 2
    MaxLeaseDuration = 1
    MaxQueueProcessingPerBlock = 2
    SponsorshipStorageDeposit = 1
    Amounts = {2}
    Payments = {2}
    Modes = {"Disabled"}
    Leases = {{}, {1}}
    MaxBlock = 2
INVARIANTS
    NoOverdueLease
