SPECIFICATION Spec
CONSTANTS
  c1 = c1
  c2 = c2
  low = low
  bounded = bounded
  outward = outward
  Calls = {c1, c2}
  NoCall = NoCall
  Caps = {low, bounded}
  CapOf <- LowAndBounded
  ActionClass <- MCActionClass
  LowRisk <- MCLowRisk
  CapCeiling <- MCCapCeiling
  Explicit = {}
  Refs = {owner}
  Nobody = Nobody
  OwnerCeilings = {3}
  MaxCrashes = 0
INVARIANT HandlerBodyRunsOnce
