SPECIFICATION FairSpec
CONSTANTS
  QueueCapacity = 4
  MaxCalls = 6
INVARIANT ShutdownComplete
PROPERTIES FlushCovers LoggerReturns
