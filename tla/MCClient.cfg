\* Outcomes and sessions of two concurrent calls and two closes.
SPECIFICATION CFairSpec
CONSTANTS
  c1 = c1
  c2 = c2
  k1 = k1
  k2 = k2
  s1 = s1
  s2 = s2
  s3 = s3
  Calls <- MCCalls
  Closers <- MCClosers
  Sessions <- MCSessions
  None = None
INVARIANTS
  CTypeOK
  SessionsAccountedFor
  ErrorsReported
PROPERTIES
  CallsEnd
