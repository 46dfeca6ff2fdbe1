SPECIFICATION Spec
CONSTANTS
  SectionLists <- MCSectionLists
  Deployments <- MCDeployments
  MaxCalls = 7
INVARIANTS
  TypeOK
  SectionsLaidOut
  DamageRefused
  RecordsReadBack
  ModelStarts
  OutputsDelivered
  NoUndefinedAccess
  NothingLeaked
CHECK_DEADLOCK FALSE
