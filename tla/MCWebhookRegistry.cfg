CONSTANTS
  Candidates <- OneObject
  MaxWebhooks = 3
SPECIFICATION Spec
INVARIANTS
  SingleSourceOfTruth
