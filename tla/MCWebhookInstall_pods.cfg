CONSTANTS
  PresetUIDs = {p1, p2}
  UserLabels = {"user"}
  EnableOpreqWebhook = FALSE
  Absent = Absent
  MaxEdited = 0
  MaxCollected = 3
  MaxBundle = 1
  MaxRestarts = 0
  MaxFaults = 0
SPECIFICATION FairSpec
INVARIANTS
  TypeOK
  ServiceOutlivesPresets
PROPERTY
  PresetsGetInstalled
CHECK_DEADLOCK FALSE
