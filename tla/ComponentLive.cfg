\* One component, modified once, with one fault: liveness.
SPECIFICATION FairSpec
CONSTANTS
  Specs <- TwoSpecs
  Removals <- ShortIsLongTrimmed
  Kinds <- KnativeService
  Hooks <- AlwaysHook
  Replies <- Partial
  None = None
  MaxUid = 1
  MaxGen = 2
  MaxFaults = 1
PROPERTIES
  ChildrenConverge
  StatusFollows
  DeletionCompletes
