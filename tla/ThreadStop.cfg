SPECIFICATION FairSpec
CONSTANTS
  MaxTid = 3
  Tries = 2
INVARIANTS TypeOK SafeWhenCaught FreedBeforeRetry
PROPERTIES SuspendEnds
