SPECIFICATION EngineFairSpec
CONSTANTS
  OrderIds = {1, 2, 3}
  ClientIds = {2}
  Participants = {0, 1}
  Requests <- MCRequests
  AmendQuantities = {1}
  AmendPrices = {2}
  BookPrices = {1, 2}
  StpPolicies = {"CancelResting"}
  nullopt = nullopt
  LimitChoices <- MCLimits
  kUnlimited = 1000
  kRateLimitWindow = 2
  MaxSubmits = 3
  MaxNow = 2
INVARIANTS TakerWithinLimit PositionsNetToZero RateBounded AssignedIdsFresh
PROPERTY EveryCallReturns
