\* The atomic operations on amounts that do not fit the column.
CONSTANTS
    u1 = u1  u2 = u2  treasury = treasury
    usd = usd  btc = btc
    f1 = f1  f2 = f2  f3 = f3  k1 = k1  k2 = k2
    NoKey = NoKey
    Base = 2  Scale = 8  Precision = 32
    Users = {u1, u2}
    Treasury = treasury
    Assets = {usd, btc}
    ActiveAssets = {usd, btc}
    SeededAssets = {usd, btc}
    TreasurySeed <- Seed
    FundingKeys = {f1, f2, f3}
    OrderKeys = {k1, k2}
    FundingInputs <- Fundings
    OrderInputs <- OrdersOfBothUsers
    CancelInputs <- Cancels
SPECIFICATION Spec
INVARIANT MoneyConserved
\* The instance ends when every key is spent and every order canceled.
CHECK_DEADLOCK FALSE
