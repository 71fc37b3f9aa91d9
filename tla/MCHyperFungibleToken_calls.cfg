SPECIFICATION Spec
CONSTANTS
  alice = alice  bob = bob  native = native  foreign = foreign
  c1 = c1  c2 = c2  k1 = k1  k2 = k2  k3 = k3
  Users = {alice, bob}  pallet_account = pallet_account  None = None
  NativeAssetId = native  Token <- MCToken  Decimals <- MCDecimals
  Assets = {native, foreign}  StateMachines = {c1}  Contracts = {k1, k3}
  MinBalance <- MinTwo  Endowment <- CallsEndowment  Collateral = 10
  Amounts = {1, 2}  Fees = {0, 1}  RemoteAmounts = {5, 10, 20}  Calldata <- MCCalls
  Registrations <- CallsRegistrations  Updates <- NoUpdates
  Width = 30  MaxRequests = 3
INVARIANTS
  Backed
  SignedCallOnce
  RefundPossible
