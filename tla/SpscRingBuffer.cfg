SPECIFICATION FairSpec
CONSTANTS
  Capacity = 4
  Items = {a, b}
  NoItem = NoItem
  MaxPushes = 9
INVARIANTS TypeOK RaceFree FailuresAreGenuine
PROPERTIES ImplementsChannel EveryItemArrives
