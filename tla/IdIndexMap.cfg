SPECIFICATION Spec
SYMMETRY Symmetry
CONSTANTS
  OrderIds = {k1, k2, k3, k4}
  Values = {1, 2}
  kMinCapacity = 4
  MaxCapacity = 8
  nullopt = nullopt
INVARIANTS HalfEmpty EntriesReachable
PROPERTY ImplementsIdIndex
