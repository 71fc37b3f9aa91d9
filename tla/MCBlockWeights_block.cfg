SPECIFICATION BlockSpec
CONSTANTS
    MaxPovSize = 10485760
    Others <- Contracts
    Shares = {50, 100, 200}
    Queued = {0, 1, 1000}
    MaxExtrinsics = 3
INVARIANTS
    OperationalIsIncluded
    LargestIsIncludable
    HookFitsItsShare
