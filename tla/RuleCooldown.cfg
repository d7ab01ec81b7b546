SPECIFICATION Spec
CONSTANTS
  Rules = {r1}
  v1 = v1
  v2 = v2
  Variants = {v1}
  m1 = m1
  Managers = {m1}
  Boot = m1
  Requests = {"create", "setActive", "remove"}
  Never = Never
  Stamps = {0, 1, 2, Never}
  MaxTime = 2
  NotCached = NotCached
  NoOp = NoOp
  NoRule = NoRule
  Threads = {e1, e2}
  d1 = d1
  d2 = d1
  Devices = {d1}
  Def <- MCDef
  Readings = {"other"}
  Commanded = {}
  Reports = {}
  ApiCommands = {}
  ApiLogs = {}
SYMMETRY Symmetry
CONSTRAINT SomethingToCheck
INVARIANTS TypeOK CooldownKept FiringsAudited
