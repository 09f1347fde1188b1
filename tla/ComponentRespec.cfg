\* One component whose hook returns it with another spec.
SPECIFICATION Spec
CONSTANTS
  Specs <- TwoSpecs
  Removals <- ShortIsLongTrimmed
  Kinds <- DeploymentAndService
  Hooks <- AlwaysHook
  Replies <- Respec
  None = None
  MaxUid = 1
  MaxGen = 2
  MaxFaults = 0
INVARIANTS
  SpecIsTheUsers
