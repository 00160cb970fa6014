SPECIFICATION Spec
CONSTANTS
  Client <- MCClient
  Key <- MCKey
  Value <- MCValue
  KeyOf <- MCKeyOf
  MaxIters <- MCMaxIters
  MaxVersion = 3
  Unreliable = TRUE
  MaxDisconnects = 1
INVARIANTS
  TypeOK
  AppendsCheck
  PutsCheck
  OnceIsStored
  OwnPutReadBack
  NoFatalf
PROPERTY
  TestEnds
