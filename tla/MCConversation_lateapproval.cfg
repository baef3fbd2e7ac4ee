SPECIFICATION FairSpec
CONSTANTS
  owner = owner
  guest = guest
  Senders = {owner, guest}
  Owners = {owner}
  Updates <- TwoTexts
  WebUsers = {owner}
  Configs <- ApprovedByHand
  ContextLimit = 2
  Grants = {}
  MaxInputs = 1
  MaxGrants = 0
  MaxFaults = 0
PROPERTIES
  ApprovedRepliesAreSent
CHECK_DEADLOCK FALSE
