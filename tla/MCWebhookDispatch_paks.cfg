CONSTANTS
  Operators <- One
  HomeOf <- Home
  Environments <- OwnOrAll
  Namespaces <- OneNamespaces
  PresetNamespaces <- Paks
  None = None
  MaxChanges = 1
  MaxDowns = 0
  MaxFaults = 0
SPECIFICATION FairSpec
PROPERTY
  PresetsReachPods
