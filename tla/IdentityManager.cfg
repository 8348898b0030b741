CONSTANTS
  Ids <- MCIds
  MaxResyncs = 1
  Grace = 2
  CoolOff = 1
  TokenLife = 3
  SessionLife = 3
  MaxWait = 4
  Worlds <- MCWorlds
  MaxTime = 4
SPECIFICATION FairSpec
INVARIANTS TypeOK StaysScheduled TokensFresh
PROPERTIES AttemptsSpaced ExpiredDeleted ManagerHolds
CHECK_DEADLOCK FALSE
