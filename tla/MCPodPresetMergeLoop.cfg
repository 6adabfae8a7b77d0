CONSTANTS
  EnvVars = {}
  Volumes = {}
  VolumeMounts = {}
  EnvSources = {}
  DnsOptions = {"reopen"}
  Labels = {}
  Namespaces = {}
  PresetNames = {}
  Everything = Everything
  Malformed = Malformed
  DnsOption = "reopen"
  Entries <- MCEntries
  MaxLen = 3
  Absent = Absent
SPECIFICATION Spec
INVARIANTS
  TypeOK
  LoopImplementsMerge
  SucceedsIffConsistent
  OrderDoesNotDecide
CHECK_DEADLOCK FALSE
