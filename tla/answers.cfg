\* Every request is answered, the ones that are refused too; a funding key is also the digest of an order key.
CONSTANTS
    p1 = p1  p2 = p2  p3 = p3  p4 = p4  p5 = p5
    u1 = u1  u2 = u2  treasury = treasury
    usd = usd  btc = btc  eur = eur
    f1 = f1  f2 = f2  k1 = k1  k2 = k2
    NoKey = NoKey
    Base = 2  Scale = 4  Precision = 16
    Users = {u1, u2}
    Treasury = treasury
    Assets = {usd, btc, eur}
    ActiveAssets = {usd, eur}
    SeededAssets = {usd, btc}
    TreasurySeed <- Seed
    FundingKeys <- CollidingKeys
    OrderKeys = {k1}
    FundingInputs <- RefusedFundings
    OrderInputs <- RefusedOrders
    CancelInputs <- CancelByBoth
    Requests <- ThreeRequests
    PoolSize = 2
SPECIFICATION FairSpec
INVARIANTS IdempotentReplies OnlyKeysCollide
PROPERTIES Linearizable EveryRequestAnswered
