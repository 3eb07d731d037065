SPECIFICATION FairSpec
CONSTANTS
  MaxTid = 1
  Tries = 2
PROPERTIES DeadProcessNoticed
