SPECIFICATION Spec
CONSTANTS
  Backends = {0, 1}
  Requests = {r1, r2}
  Threads = 1
  Depths = {5, 15}
  MaxQueueDepth = 4
  WordSize = 16
SYMMETRY Symmetry
PROPERTIES LeastLoadChosen
