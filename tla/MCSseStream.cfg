\* Framing, silence, ends and retries of one event stream.
SPECIFICATION Spec
CONSTANTS
  Framings <- MCFramings
  ReadTimeouts <- MCReadTimeouts
  Seconds = 3
  RetryAfter = 1
  MaxRetries = 1
  SockConnect = 1
  MaxBytes = 5
  MaxTime = 8
INVARIANTS
  StreamTypeOK
  FramesAsSent
  GreetingIsNoEvent
  EarlyEndExplained
  SilenceMeasured
PROPERTIES
  WindowEnds
\* The probe stops when the stream has ended.
CHECK_DEADLOCK FALSE
