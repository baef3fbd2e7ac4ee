SPECIFICATION FairSpec
CONSTANTS
  s1 = s1
  s2 = s2
  Scopes = {s1, s2}
  ClassOf <- MCClassOf
  MaxEvents = 2
  MaxEvidence = 3
  Owners = {owner}
  Nobody = Nobody
  MinPredictions = 2
  MinAccuracy = 60
  MaxVersion = 2
  MaxPromotions = 3
  MaxCrashes = 1
INVARIANTS TypeOK PromotedScopesAreEarned PromotionIsNeverSilent EventsMatchStatus
PROPERTIES DisabledNeedsFreshProposal BadVerdictEndsGrant
CHECK_DEADLOCK FALSE
