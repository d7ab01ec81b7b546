SPECIFICATION Spec
CONSTANTS
  Once = {o1}
  Repeat = {p1}
  Callers = {c1}
  Boot = Boot
  NoJob = NoJob
  MaxCrashes = 1
  MaxFaults = 1
INVARIANTS TypeOK NoScheduleLost RunsOnce NeverEarly
PROPERTY KeepsPromise
CHECK_DEADLOCK FALSE
