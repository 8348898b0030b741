CONSTANTS
  Ids <- MCIds
  MaxResyncs = 1
  Grace = 2
  CoolOff = 1
  TokenLife = 3
  SessionLife = 5
  MaxWait = 4
  Worlds <- MCSmoothOnly
  MaxTime = 4
SPECIFICATION Spec
PROPERTY DeletedStaysDeleted
CHECK_DEADLOCK FALSE
