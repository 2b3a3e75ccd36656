\* An order sent twice at the same time.
CONSTANTS
    p1 = p1  p2 = p2  p3 = p3  p4 = p4  p5 = p5
    u1 = u1  u2 = u2  treasury = treasury
    usd = usd  btc = btc  eur = eur
    f1 = f1  f2 = f2  k1 = k1  k2 = k2
    NoKey = NoKey
    Base = 2  Scale = 2  Precision = 16
    Users = {u1}
    Treasury = treasury
    Assets = {usd, btc}
    ActiveAssets = {usd, btc}
    SeededAssets = {usd, btc}
    TreasurySeed <- Seed
    FundingKeys = {f1, f2}
    OrderKeys = {k1, k2}
    FundingInputs <- FirstFundings
    OrderInputs <- RacingOrders
    CancelInputs <- CancelFirst
    Requests <- FourRequests
    PoolSize = 4
SPECIFICATION Spec
PROPERTIES OrderRetryReplays
SYMMETRY Symmetric
