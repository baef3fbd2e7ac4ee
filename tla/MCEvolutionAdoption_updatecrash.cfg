SPECIFICATION Spec
CONSTANTS
  v1 = v1
  v2 = v2
  pack = pack
  Proposals = {v1, v2}
  Packs = {pack}
  PackOf <- OnePack
  NoProposal = NoProposal
  MaxRetries = 1
  MaxRequests = 1
  MaxForks = 2
  MaxDisables = 0
  MaxTampers = 0
  MaxCrashes = 1
INVARIANTS
  FailedUpdateKeepsOldVersion
CHECK_DEADLOCK FALSE
