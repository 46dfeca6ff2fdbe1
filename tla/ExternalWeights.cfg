SPECIFICATION Spec
CONSTANTS
  SectionLists <- MCSectionLists
  Deployments <- ExternalDeployments
  MaxCalls = 3
INVARIANT ExternalWeightsLoad
CHECK_DEADLOCK FALSE
