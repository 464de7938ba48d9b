SPECIFICATION ESpec
CONSTANTS
  z1 = z1
  z2 = z2
  door = door
  fob = fob
  Zones <- MCZones
  Names <- MCNames
  Transient <- MCTransient
  None = None
  Threshold = 2
  MaxMisses = 3
  fast = fast
  slow = slow
  Intervals <- MCIntervals
SYMMETRY Alike
INVARIANTS
  StaleZonesRemoved
