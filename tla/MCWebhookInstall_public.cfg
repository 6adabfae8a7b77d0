CONSTANTS
  PresetUIDs = {p1}
  UserLabels = {"user"}
  EnableOpreqWebhook = TRUE
  Absent = Absent
  MaxEdited = 1
  MaxCollected = 2
  MaxBundle = 1
  MaxRestarts = 0
  MaxFaults = 0
SPECIFICATION Spec
PROPERTY
  PublicLabelsSurvive
CHECK_DEADLOCK FALSE
