SPECIFICATION Spec
CONSTANTS
    u = u
    v = v
    account_id = account_id
    Users = {u, v}
    Endowment <- Funds
    ExistentialDeposit = 2
    MinPurchase = 1
    Amounts = {1, 2, 3}
    Fees = {0, 1, 2}
    Tips = {0, 1}
INVARIANTS
    TypeOK
    BackedUpToDust
    CheckedFeeIsPayable
    FundsConserved
PROPERTIES
    CreditIsPersonal
