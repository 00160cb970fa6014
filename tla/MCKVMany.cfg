SPECIFICATION Spec
CONSTANTS
  Client = {c1, c2}
  Key = {k}
  c1 = c1
  c2 = c2
  v1 = v1
  v2 = v2
  v3 = v3
  v4 = v4
  Value <- Values
  Unreliable = TRUE
  MaxDisconnects = 1
  MaxOps = 2
  OpValue <- TwoClients
INVARIANTS
  TypeOK
  AtMostOnce
  HonestResults
  VersionCountsPuts
PROPERTY
  Linearizable
