CONSTANTS
  PresetUIDs = {p1}
  UserLabels = {"user"}
  EnableOpreqWebhook = FALSE
  Absent = Absent
  MaxEdited = 0
  MaxCollected = 3
  MaxBundle = 2
  MaxRestarts = 1
  MaxFaults = 1
SPECIFICATION FairSpec
INVARIANT
  ServedPairFits
PROPERTIES
  HeadlessServiceIsKept
  CallsGetTrusted
  PresetsGetInstalled
  StartEnds
CHECK_DEADLOCK FALSE
