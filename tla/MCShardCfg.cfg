SPECIFICATION FairSpec
CONSTANTS
  NShards = 5
  Gid = {1, 2, 3, 4}
  Servers <- Shared
  MaxGids = 2
  MaxNum = 3
INVARIANTS
  TypeOK
  BalancedAfterCall
  NoNeedlessMove
PROPERTY
  CallsReturn
