SPECIFICATION Spec
SYMMETRY Symmetry
CONSTANTS
  OrderIds = {o1, o2, o3}
  MCPrices = {1, 2}
  MCQuantities = {0, 1, 2}
  MCParticipants = {0, 1}
  Requests <- MCRequests
  AmendQuantities = {0, 1, 2}
  AmendPrices = {0, 1, 2}
  BookPrices = {1, 2}
  StpPolicies = {"None", "CancelResting", "CancelIncoming", "CancelBoth"}
  nullopt = nullopt
PROPERTY FokAllOrNothing
