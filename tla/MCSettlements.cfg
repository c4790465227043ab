CONSTANTS
  c1 = c1
  c2 = c2
  x1 = x1
  s1 = s1
  s2 = s2
  None = None
  Client <- TwoClients
  ExternalId <- OneExternalId
  Slot <- TwoSlots
  WaitModes <- BothModes
  MaxRecords = 2
  MaxReveals = 2
  MaxErrors = 1
  MaxRoleChanges = 1
SPECIFICATION FairSpec
INVARIANTS ClaimExclusive DisclosedByOwner RevealedIsAttested
PROPERTIES ClaimResolved
CHECK_DEADLOCK FALSE
