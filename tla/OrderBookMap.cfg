SPECIFICATION Spec
SYMMETRY Symmetry
CONSTANTS
  OrderIds = {o1, o2, o3}
  MCPrices = {1, 2}
  MCOwnPrices = {2}
  Requests <- MCRequests
  AmendQuantities = {0, 1, 2}
  AmendPrices = {0, 2}
  BookPrices = {1, 2}
  StpPolicies = {"CancelResting", "CancelIncoming", "CancelBoth"}
  nullopt = nullopt
INVARIANTS MapStorageSound MapNoEmptyLevel
PROPERTY ImplementsOrderBook
