SPECIFICATION Spec
CONSTANTS
  alice = alice  bob = bob  native = native  foreign = foreign
  c1 = c1  c2 = c2  k1 = k1  k2 = k2  k3 = k3
  Users = {alice, bob}  pallet_account = pallet_account  None = None
  NativeAssetId = native  Token <- MCToken  Decimals <- MCDecimals
  Assets = {native}  StateMachines = {c1, c2}  Contracts = {k1, k2}
  MinBalance <- MinTwo  Endowment <- MCEndowment  Collateral = 0
  Amounts = {1, 2}  Fees = {0}  RemoteAmounts = {1, 5, 10}  Calldata <- NoCalls
  Registrations <- CustodyRegistrations  Updates <- MCUpdates
  Width = 30  MaxRequests = 4
INVARIANTS
  Backed
  RoutesAgree
PROPERTY
  RefundIsExact
