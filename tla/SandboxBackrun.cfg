CONSTANTS
    TokenA = A
    TokenB = B
    Pool = {p1, p2}
    User = {u}
    Backrun = backrun
    MaxUint = 30000
    Minter = u
    Operator = u
    Amount = {1, 5}
    MinAmount = {1}
    ApprovedAmount = {30000}
    MintedAmount = {8}
    Trader = {u}
    Spender = {p1, p2}
    MaxSupply = 8
SPECIFICATION Spec
SYMMETRY Symmetry
INVARIANTS
    NoAllowanceLeft
PROPERTIES
    BackrunNeverLoses
CHECK_DEADLOCK FALSE
