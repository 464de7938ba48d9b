\* Liveness, and the properties that need no history.
SPECIFICATION FairSpec
CONSTANTS
  Services <- MCServices
  OtherStays = {TRUE}
  None = None
INVARIANTS
  StopsOnlyWhenRefused
PROPERTIES
  WholePollsOnly
  AlarmReported
  Converges
  CommandReturns
