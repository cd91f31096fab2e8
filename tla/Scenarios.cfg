CONSTANTS
    TokenA = TokenA
    TokenB = TokenB
    Pool1 = Pool1
    Pool2 = Pool2
    Backrun = Backrun
    Deployer = Deployer
    Victim = Victim
    Bot = Bot
    Pool <- MCPool
    User <- MCUser
    Request <- MCRequest
    MaxUint = 2000000000
    Scenario = {"seed-pools", "token-transfer", "bundle-simulation", "victim-swap",
                "victim-swap-revert", "backrun", "mempool-sequence"}
    PoolSeedAmount = 2500
    ExactSeedAmount = 2000
    SwapAmount = 210
    BackrunAmount = 90
    MinProfit = 4
    TransferAmount = 1
    MintAmount = 3
    OtherAmount = 10
    MaxRuns = 3
    MaxFaults = 1
SPECIFICATION Spec
INVARIANTS
    TypeOK
    FailsOnlyForCause
    SendsUnderAutomine
    AutomineConfined
    QuotedIsPaid
