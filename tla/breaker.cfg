SPECIFICATION FairSpec
CONSTANTS
  WindowSecs = 2
  MinRequests = 1
  RateNum = 1
  RateDen = 2
  OpenSecs = 1
  TicksPerSec = 1
  Callers = {c1, c2, c3}
  MaxClock = 2
  MaxCalls = 4
INVARIANTS TypeOK ProbeExclusive InstantsSound
PROPERTIES OnlyProbeDecides OpenPeriodFixed MeetsContract ProbeReturns
