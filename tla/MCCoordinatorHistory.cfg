\* Safety of the label and of the snapshot, with every service.
SPECIFICATION HSpec
CONSTANTS
  Services <- MCServices
  OtherStays = {TRUE}
  None = None
INVARIANTS
  HTypeOK
  SnapshotCurrent
  NightIsOurs
  NightKept
  AwayStaysAway
