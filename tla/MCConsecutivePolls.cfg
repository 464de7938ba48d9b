\* What the comment on the threshold says of the counters.
SPECIFICATION SPSpec
CONSTANTS
  Zones = {z1, z2}
  Threshold = 2
  MaxMisses = 3
INVARIANTS
  LostInConsecutivePolls
