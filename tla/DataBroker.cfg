CONSTANTS
  c1 = c1
  s1 = s1
  s2 = s2
  k1 = k1
  k2 = k2
  ksv = ksv
  Clients <- MCClients
  Syncers <- MCOneSyncer
  Keys <- MCKeys
  ServerVersionKey = ksv
  Wants <- MCWantsOne
  Expiry = "any time"
  MaxUpdates = 1
  MaxRestarts = 1
  MaxVersion = 3
  MaxDrops = 1
  WireCap = 2
SPECIFICATION MCSpec
INVARIANTS TypeOK ReplicaConsistent NoLostWakeup
PROPERTIES MonotoneView ImplementsReplica ConvergesAfterRestart StartsOverAfterRestart
CHECK_DEADLOCK FALSE
