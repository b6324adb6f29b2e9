SPECIFICATION Spec
CONSTANTS
  kBitsPerWord = 4
  Sizes = {1, 4, 5, 8, 10}
  nullopt = nullopt
INVARIANT ScansExact
PROPERTY ImplementsIndexSet
