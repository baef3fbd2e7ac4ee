SPECIFICATION FairSpec
CONSTANTS
  owner = owner
  guest = guest
  Senders = {owner, guest}
  Owners = {owner}
  Updates <- TwoTexts
  WebUsers = {owner, guest}
  Configs <- OpenAndKnown
  ContextLimit = 1
  Grants <- SomeGrants
  MaxInputs = 1
  MaxGrants = 1
  MaxFaults = 1
INVARIANTS
  TypeOK
  UpdatesAreIngestedOnce
  RepliesFollowTheGate
  OneApprovedReply
  TranscriptsFollowTheSession
PROPERTIES
  UpdatesAreAnswered
CHECK_DEADLOCK FALSE
