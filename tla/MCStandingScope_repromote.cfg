SPECIFICATION Spec
CONSTANTS
  s1 = s1
  s2 = s2
  Scopes = {s1}
  ClassOf <- MCClassOf
  MaxEvents = 2
  MaxEvidence = 1
  Owners = {owner}
  Nobody = Nobody
  MinPredictions = 1
  MinAccuracy = 60
  MaxVersion = 2
  MaxPromotions = 3
  MaxCrashes = 0
INVARIANT RepromotionTakesFreshProposal
CHECK_DEADLOCK FALSE
