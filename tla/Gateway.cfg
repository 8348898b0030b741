SPECIFICATION GatewaySpec
CONSTANTS
  RawOptions <- MCRawOptions
  DatabrokerConfigs <- MCDatabrokerConfigs
  Requests <- MCRequests
  MaxChanges = 1
  Edits <- MCEdits
  Owner <- MCOwner
  Chunks <- MCChunks
  Clients = {"c1", "c2"}
  Setups <- MCSetups
  Accounts <- MCAccounts
  Profiles <- MCProfiles
  Directory <- MCDirectory
  MaxLag = 3
INVARIANTS  Reached BuildFits  
 
CHECK_DEADLOCK FALSE
