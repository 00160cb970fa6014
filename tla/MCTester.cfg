CONSTANTS
  Client = {c1}
  Server <- MCServer
  ClientTo <- MCClientTo
  MaxCalls = 1
  MaxStarts = 2
  MaxOps = 4
  Unreliable = TRUE
  MayHang = TRUE
SPECIFICATION Spec
INVARIANTS
  TypeOK
  PositiveReplyPersisted
  ConnectedIsPrecise
  FaultShown
  ClientConfined
PROPERTIES
  NoBlankInterval
  CallReturnsUnlessHung
CHECK_DEADLOCK FALSE
