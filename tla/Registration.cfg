\* One registration, created twice and modified once, with one fault.
SPECIFICATION FairSpec
CONSTANTS
  Names = {n1}
  Specs <- AllSpecs
  NoObject = NoObject
  MaxUid = 2
  MaxGen = 2
  MaxFaults = 1
INVARIANTS
  TypeOK
  NoOrphanController
  ControllerOfThisObject
PROPERTIES
  NothingRegresses
  DeletionCompletes
  EventuallyControlled
  StatusSettles
