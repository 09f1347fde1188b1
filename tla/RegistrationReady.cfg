\* A start that fails once.
SPECIFICATION FairSpec
CONSTANTS
  Names = {n1}
  Specs <- WithFormFactor
  NoObject = NoObject
  MaxUid = 1
  MaxGen = 2
  MaxFaults = 1
PROPERTIES
  ReadyMeansStarted
