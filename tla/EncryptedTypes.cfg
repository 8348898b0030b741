SPECIFICATION EncryptedSpec
CONSTANTS
  Brokers = {"b1", "b2"}
  Secrets = {"x", "y"}
  RecordTypes = {"group", "user"}
  Bare = {"group"}
  MaxSealed = 3
  MaxSecrets = 1
INVARIANT TypePreserved
CHECK_DEADLOCK FALSE
