SPECIFICATION Spec
CONSTANTS
  Connects = {c1, c2}
  Pairing = {c1}
  Disconnects = {d1}
  MaxCloses = 1
  MaxFaults = 1
  MaxDeaths = 1
  Askers = {r1}
  MaxLosses = 2
  MaxErrors = 1
  Clients = {w1, w2}
  Requests = {q1, q2}
  Emails = {"e1", "e2", "e3"}
  Models = {"m1", "m2"}
  MaxUsers = 3
  Readers = {q1, q2}
  Docs = {x1, x2}
  NoDoc = NoDoc
  BatchSize = 1
  MaxDocs = 2
  MaxRows = 2
  Workers = {k1, k2}
  Scopes = {"a", "b"}
  NoScope = "none"
  RecentLimit = 1
  MaxTurns = 2
  MaxSeconds = 2
  NumTasks = 3
  Concurrency = 2
  MaxRetries = 1
  MaxRuns = 2
  FirstYear = 2027
  LastYear = 2028
  Moments <- MCMoments
  Numbers = {0, 1, 2, 3}
  Metrics = {"temperature", "humidity"}
  Payloads <- MCPayloads
  Tools = {"on", "rule"}
  Objects <- MCObjects
  Actuals <- MCActuals
  MaxCalls = 2
  MaxTime = 3
  MaxLag = 1
INVARIANTS ServicesTypeOK OneLiveSocket SendReachesOpenSocket ConnectingIsPursued ClosedStaysClosed ChannelIsOpen LinksAccounted ShutdownReleases AdminRemains VectorsBacked MemoryIsRecent SlotsConserved EveryCaseRecorded ConversionsAgree ScoresAreSound ServedAsRegistered
PROPERTIES EveryConnectAnswered ClientsSettled
CHECK_DEADLOCK FALSE
