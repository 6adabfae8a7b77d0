CONSTANTS
  PresetUIDs = {p1}
  UserLabels = {"user"}
  EnableOpreqWebhook = TRUE
  Absent = Absent
  MaxEdited = 1
  MaxCollected = 0
  MaxBundle = 2
  MaxRestarts = 0
  MaxFaults = 1
SPECIFICATION Spec
INVARIANTS
  WebhooksSelectNamespaces
  ConfigsTrustTheService
PROPERTIES
  KeepsPromise
  UserLabelsSurvive
CHECK_DEADLOCK FALSE
