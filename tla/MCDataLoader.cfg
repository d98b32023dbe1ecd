\* Five registrations: three requests, and two of them again.
SPECIFICATION FairSpec
CONSTANTS
  high = high
  low = low
  later = later
  NoRequest = NoRequest
  Requests <- MCRequests
  Priority <- MCPriority
  HighPriority = 10
  MaxSequence = 5
INVARIANTS
  TypeOK
  ResponseIsNotShared
  CurrentIsServed
  NothingIsLeftBehind
PROPERTIES
  NeverGetsWorse
  LoaderComesToRest
