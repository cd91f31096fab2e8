CONSTANTS
    TokenA = A
    TokenB = B
    Pool = {p1}
    User = {u}
    Backrun = backrun
    MaxUint = 20000
    Minter = u
    Operator = u
    Amount = {1, 3}
    MinAmount = {1, 3}
    ApprovedAmount = {4, 20000}
    MintedAmount = {4}
    Trader = {u}
    Spender = {p1, u}
    MaxSupply = 4
SPECIFICATION Spec
INVARIANTS
    PoolsSolvent
    SupplyConserved
PROPERTIES
    ProductNeverFalls
CHECK_DEADLOCK FALSE
