SPECIFICATION Spec
CONSTANTS
  v1 = v1
  v2 = v2
  pack = pack
  Proposals = {v1, v2}
  Packs = {pack}
  PackOf <- OnePack
  NoProposal = NoProposal
  MaxRetries = 1
  MaxRequests = 1
  MaxForks = 3
  MaxDisables = 1
  MaxTampers = 1
  MaxCrashes = 1
INVARIANTS
  TypeOK
  AtMostOneActive
  ActiveMeansApplied
  OnlyReviewedCodeLoads
  RuntimeHoldsLatest
  AdoptedOnce
  BootIsNeverSilent
PROPERTIES
  DisabledIsFinal
SYMMETRY VersionSymmetry
CHECK_DEADLOCK FALSE
