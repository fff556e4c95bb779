SPECIFICATION Spec
CONSTANTS
  WindowSecs = 1
  MinRequests = 1
  RateNum = 1
  RateDen = 1
  OpenSecs = 1
  TicksPerSec = 1
  Backends = {1}
  Depths = {0}
  Requests = {r1, r2}
  MaxInFlight = 1
  MaxQueueDepth = 0
  Answers = {"2xx", "4xx", "5xx"}
  MaxClock = 1
PROPERTY AnsweredProbePasses
