SPECIFICATION FairSpec
CONSTANTS
  kProducers = 3
  kOrdersPerProducer = 3
  LaneCapacity = 2
INVARIANTS NothingLost NoLaneStarved
PROPERTY DemoTerminates
