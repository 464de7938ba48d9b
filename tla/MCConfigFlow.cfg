\* Concurrent dialogs over two entries.
SPECIFICATION FSpec
SYMMETRY SameEntries
CONSTANTS
  e1 = e1
  e2 = e2
  f1 = f1
  f2 = f2
  None = None
  Hosts <- MCHosts
  Lower <- MCLower
  Keys <- MCKeys
  Entries <- MCEntries
  Flows <- MCFlows
INVARIANTS
  FTypeOK
  OneEntryPerHost
  StoppedIsPrompted
PROPERTIES
  ReauthKeepsRest
