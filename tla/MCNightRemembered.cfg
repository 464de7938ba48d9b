SPECIFICATION HSpec
CONSTANTS
  Services = {"arm_night"}
  OtherStays = {TRUE}
  None = None
INVARIANTS
  NightRemembered
