SPECIFICATION StrategySpec
CONSTANTS
  Backends = {0, 1, 2}
  Weight <- MCWeight
  CounterSize = 5
  Requests = {r1, r2}
  AlphaNum = 3
  AlphaDen = 10
  Samples = {2, 9}
  MaxSamples = 2
  Handlers = {h1, h2, h3}
  Threads = 2
  Depths = {2, 5}
  MaxQueueDepth = 1
  WordSize = 64
  VNodes = {v1, v2}
  Hashes = {0, 1, 2}
  Chars = {"a", "b", " "}
  Space = " "
  PrefixCharLimit = 3
  Bodies <- MCBodies
SYMMETRY Symmetry
INVARIANTS TypeOK EstimatesNear UnsampledInTheMiddle ExactShares SharesAcrossWrap Leveled OnlyLostKeysMove AlwaysSelects
