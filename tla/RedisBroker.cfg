SPECIFICATION StorageSpec
CONSTANTS
  Clients = {c}
  Servers = {v1, v2}
  Syncers = {s}
  Keys <- MCKeys
  ServerVersionKey = "version"
  MaxTransactionRetries = 2
  MaxPuts = 3
  MaxFaults = 1
  Expires = TRUE
  Brokers = {"b1", "b2"}
  Secrets = {"x", "y"}
  RecordTypes = {"group", "user"}
  Bare = {"group"}
  MaxSealed = 3
  MaxSecrets = 1
INVARIANTS TypeOK SerialCommits CommittedOnce ReplicaSettles GapOnlyAfterRemoval FollowerFaithful
PROPERTY SyncersConverge
