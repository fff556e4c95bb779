SPECIFICATION AuditSpec
CONSTANTS
  WindowSecs = 1
  MinRequests = 1
  RateNum = 1
  RateDen = 1
  OpenSecs = 1
  TicksPerSec = 1
  Backends = {1, 2}
  Depths = {0, 1}
  Requests = {r1, r2}
  MaxInFlight = 2
  MaxQueueDepth = 0
  Answers = {"5xx"}
  MaxClock = 0
SYMMETRY Symmetry
INVARIANTS ActiveExact
PROPERTIES No503WithoutReason NoBadChoice
