\* Two components in a row under one name, one fault: safety.
SPECIFICATION Spec
CONSTANTS
  Specs <- TwoSpecs
  Removals <- ShortIsLongTrimmed
  Kinds <- DeploymentAndService
  Hooks <- HookOrNone
  Replies <- Faithful
  None = None
  MaxUid = 2
  MaxGen = 1
  MaxFaults = 1
INVARIANTS
  TypeOK
  SpecIsTheUsers
PROPERTIES
  FinalizedBeforeGone
  ChildrenGuarded
