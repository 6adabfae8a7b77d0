CONSTANTS
  PresetUIDs = {p1}
  UserLabels = {"user"}
  EnableOpreqWebhook = FALSE
  Absent = Absent
  MaxEdited = 0
  MaxCollected = 2
  MaxBundle = 1
  MaxRestarts = 0
  MaxFaults = 0
SPECIFICATION FairSpec
PROPERTY
  SecretIsAwaited
CHECK_DEADLOCK FALSE
