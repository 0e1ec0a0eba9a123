SPECIFICATION Spec
CONSTANTS
  Producers = {p1, p2}
  Workers = {w1, w2}
  Capacity = 2
  RingSize = 2
  MaxEnqueues = 4
INVARIANTS
  EnqueueNeverPanics
CHECK_DEADLOCK FALSE
