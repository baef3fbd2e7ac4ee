SPECIFICATION FairSpec
CONSTANTS
  c1 = c1
  c2 = c2
  low = low
  bounded = bounded
  outward = outward
  Calls = {c1, c2}
  NoCall = NoCall
  Caps = {bounded, outward}
  CapOf <- BoundedAndOutward
  ActionClass <- MCActionClass
  LowRisk <- MCLowRisk
  CapCeiling <- MCCapCeiling
  Explicit = {}
  Refs = {owner}
  Nobody = Nobody
  OwnerCeilings = {3}
  MaxCrashes = 1
INVARIANTS TypeOK RunAtMostOnce HighConsequenceNeedsHuman AuditTrailLegal SettledCallsAreComplete
PROPERTIES ApprovedCallsFinish ProposedCallsAreDecided ImplementsGovernedCall
