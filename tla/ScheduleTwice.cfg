SPECIFICATION Spec
CONSTANTS
  Once = {o1}
  Repeat = {}
  Callers = {c1}
  Boot = Boot
  NoJob = NoJob
  MaxCrashes = 1
  MaxFaults = 0
INVARIANT OneTimeOnly
CHECK_DEADLOCK FALSE
