CONSTANTS
  Everything = Everything
  Malformed = Malformed
  DnsOption = "reopen"
  NoPod = NoPod
  EnvVars <- MCEnvVars
  Volumes <- MCVolumes
  VolumeMounts <- MCVolumeMounts
  EnvSources <- MCEnvSources
  DnsOptions <- MCDnsOptions
  Labels <- MCLabels
  Namespaces = {"ns", "elsewhere"}
  PresetNames = {"p1", "p2"}
  Pods = {"pod"}
  WatchNamespace = "ns"
  Specs <- MCSpecs
  Templates <- MCTemplates
  MaxWrites = 2
SPECIFICATION Spec
INVARIANT
  OnlyMatchingPresetsApplied
