SPECIFICATION Spec
CONSTANTS
  Rules = {r1}
  v1 = v1
  v2 = v2
  Variants = {v2}
  m1 = m1
  Managers = {m1}
  Boot = m1
  Requests = {}
  Never = Never
  Stamps = {0, 1, Never}
  MaxTime = 1
  NotCached = NotCached
  NoOp = NoOp
  NoRule = NoRule
  Threads = {e1}
  d1 = d1
  d2 = d2
  Devices = {d2}
  Def <- MCDef
  Readings = {"other"}
  Commanded <- TurnOnOrOff
  Reports = {}
  ApiCommands = {}
  ApiLogs = {}
PROPERTY SkipsOnlyDesiredTargets
