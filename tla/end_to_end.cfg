\* The ledger, and the one relay that publishes its events.
CONSTANTS
    r1 = r1  u1 = u1  treasury = treasury  usd = usd  btc = btc
    f1 = f1  k1 = k1  k2 = k2
    Relays = {r1}
    OrderIds = {1, 2}
    NoEvent = NoEvent
    LocksLinger = FALSE
    MaxFailures = 1
    NoKey = NoKey
    Base = 2  Scale = 8  Precision = 16
    Users = {u1}
    Treasury = treasury
    Assets = {usd, btc}
    ActiveAssets = {usd, btc}
    SeededAssets = {usd}
    TreasurySeed <- Seed
    FundingKeys = {f1}
    OrderKeys = {k1, k2}
    FundingInputs <- Fundings
    OrderInputs <- Orders
    CancelInputs <- Cancels
SPECIFICATION FairSystemSpec
INVARIANTS RowsMatchDatabase ConsumersAreBehind CreatedFirst AmountsAreTold
PROPERTIES CancellationIsTold
