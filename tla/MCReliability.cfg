SPECIFICATION Spec
CONSTANTS
  item = item
  skill = skill
  identity = identity
  Items = {item}
  Skills = {skill}
  Identities = {identity}
  VersionIdentity <- SkillIdentity
  Revisions = {1}
  MaxOutcomes = 3
  MaxSkillOutcomes = 2
  MaxCalls = 2
  MaxCrashes = 1
CONSTRAINT OneSubjectAtATime
INVARIANTS
  TypeOK
  PromotedItemsAreEarned
  DemotionIsProposed
  EligibilityFollowsVerdict
CHECK_DEADLOCK FALSE
