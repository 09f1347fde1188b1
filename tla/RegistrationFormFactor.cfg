\* A registration without a form factor, without faults.
SPECIFICATION FairSpec
CONSTANTS
  Names = {n1}
  Specs <- AllSpecs
  NoObject = NoObject
  MaxUid = 1
  MaxGen = 2
  MaxFaults = 0
PROPERTIES
  FormFactorDefaulted
