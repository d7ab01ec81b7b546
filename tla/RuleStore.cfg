SPECIFICATION StoreSpec
CONSTANTS
  Rules = {r1, r2}
  Variants = {v1, v2}
  m1 = m1
  Managers = {m1, m2}
  Boot = m1
  Requests = {"create", "setActive", "remove", "update"}
  Never = Never
  Stamps = {Never}
  NotCached = NotCached
  NoOp = NoOp
SYMMETRY Symmetry
INVARIANTS StoreTypeOK SoloRefreshIsExact
PROPERTY EditKeepsToggle
