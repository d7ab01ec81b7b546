SPECIFICATION Spec
CONSTANTS
  Requests = {q1, q2}
  NoRequest = NoRequest
  MaxCrashes = 1
  MaxDrops = 1
  MaxFaults = 1
INVARIANTS TypeOK TurnsDoNotOverlap TurnOnce NotLost FailedIsNotProcessed
PROPERTIES EveryCallerAnswered ReplyConsumersReleased QueuedIsTried KeepsPromise
CHECK_DEADLOCK FALSE
