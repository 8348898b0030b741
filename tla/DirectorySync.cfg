CONSTANTS
  Ids <- MCIds
  Groups <- MCGroups
  Values <- MCValues
  MayReturn = FALSE
  MaxResyncs = 1
  MaxFailures = 1
  MaxChanges = 2
  MaxCalls = 1
  MaxFeed = 1
  ProviderGroups = {1, 2}
  ProviderUsers = {11}
  Org <- MCOrg
  Histories <- MCHistories
  OptionSets <- MCOptionSets
  UserPage = 2
  MaxProviderChanges = 2
  MaxFaults = 1
  MaxOptions = 1
SPECIFICATION MCSpec
INVARIANTS CollectionExact 
PROPERTIES PresentSynced DirectorySynced 
CHECK_DEADLOCK FALSE
