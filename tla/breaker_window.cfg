SPECIFICATION LogSpec
CONSTANTS
  WindowSecs = 2
  MinRequests = 2
  RateNum = 1
  RateDen = 2
  OpenSecs = 1
  TicksPerSec = 2
  Callers = {c1, c2}
  MaxClock = 7
  MaxCalls = 6
SYMMETRY Symmetry
INVARIANTS WindowMatchesLog
PROPERTIES TripsExactly
