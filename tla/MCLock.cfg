SPECIFICATION FairSpec
CONSTANTS
  Client = {c1, c2}
  Key = {"key"}
  Value <- OwnValues
  Name <- OwnNames
  Unreliable = TRUE
  MaxDisconnects = 1
  MaxRounds = 2
INVARIANTS
  TypeOK
  MutualExclusion
  NoLeakedLock
  ReleaseSucceeds
  LockInv
PROPERTY
  AllRoundsComplete
