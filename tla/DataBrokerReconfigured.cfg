CONSTANTS
  c1 = c1
  s1 = s1
  s2 = s2
  k1 = k1
  k2 = k2
  ksv = ksv
  Clients <- MCClients
  Syncers <- MCOneSyncer
  Keys <- MCKeys
  ServerVersionKey = ksv
  Wants <- MCWantsOne
  Expiry = "never"
  MaxUpdates = 1
  MaxRestarts = 0
  MaxVersion = 3
  MaxDrops = 0
  WireCap = 2
SPECIFICATION ReconfiguredSpec
PROPERTY StartsOver
CHECK_DEADLOCK FALSE
