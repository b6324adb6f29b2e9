SPECIFICATION Spec
SYMMETRY Symmetry
CONSTANTS
  OrderIds = {o1, o2, o3}
  MCPrices = {1, 2, 3, 4}
  MCOwnPrices = {3}
  Requests <- MCRequests
  AmendQuantities = {0, 1, 2}
  AmendPrices = {0, 3}
  BookPrices = {2, 3, 4}
  StpPolicies = {"CancelBoth"}
  nullopt = nullopt
INVARIANTS ArrayStorageSound ArrayBestExact
PROPERTY ImplementsOrderBook
PROPERTY RefusalKeepsBook
