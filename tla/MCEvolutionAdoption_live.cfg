SPECIFICATION FairSpec
CONSTANTS
  v1 = v1
  v2 = v2
  pack = pack
  Proposals = {v1}
  Packs = {pack}
  PackOf <- OnePack
  NoProposal = NoProposal
  MaxRetries = 1
  MaxRequests = 2
  MaxForks = 3
  MaxDisables = 1
  MaxTampers = 0
  MaxCrashes = 1
PROPERTIES
  ChassisLeavesParkedAlone
  TicketsClose
  ConflictsAreResolved
CHECK_DEADLOCK FALSE
