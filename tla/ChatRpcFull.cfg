SPECIFICATION Spec
CONSTANTS
  Requests = {q1, q2}
  NoRequest = NoRequest
  MaxCrashes = 0
  MaxDrops = 0
  MaxFaults = 0
INVARIANT FullIsNotEnqueued
CHECK_DEADLOCK FALSE
