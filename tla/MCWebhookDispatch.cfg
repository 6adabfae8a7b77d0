CONSTANTS
  Operators <- Two
  HomeOf <- HomeOfTwo
  Environments <- OwnSwitched
  Namespaces <- OneNamespaces
  PresetNamespaces <- CsAndPaks
  None = None
  MaxChanges = 2
  MaxDowns = 1
  MaxFaults = 1
SPECIFICATION FairSpec
INVARIANTS
  TypeOK
  OnlyMapWritesAreRefused
PROPERTIES
  OperatorsComeBack
  MapWritesResume
  PresetsReachPods
CHECK_DEADLOCK FALSE
