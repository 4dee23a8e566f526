SPECIFICATION ClientsSpec
CONSTANTS
  a = a
  b = b
  Apis = {a, b}
  Kinds = {"gnss", "batching", "geofence"}
  Missing = {"geofence"}
  Starters = {a}
  SessionIds = {1}
  MaxQueue = 2
  NoSession = NoSession
  NoFence = NoFence
  CallsLate = FALSE
  v1 = v1
  v2 = v2
  n1 = n1
  n2 = n2
  wifi = wifi
  mobile = mobile
  hub = hub
  Default = Default
  Refused = Refused
  Parts = {"api", "sessions", "batching", "geofence", "lock", "sats", "networks", "items", "masks"}
  Overlap = {}
  Networks = {n1, n2}
  TypeOf <- OneEach
  Values = {v1, v2}
  Changing = {}
  Listeners = {hub}
  Listened = {"network"}
  TableSize = 2
  MaxItem = 2
  MaxTasks = 2
  MayReset = FALSE
  Clients = {a}
  Offers <- Offered
  ConfTypes = {"general", "debug"}
  Excluded = {}
  HubLoaded = TRUE
  HubRepeats = FALSE
  MaxUnderway = 2
  MaxRestarts = 1
  MaxInfo = 1
  f1 = f1
  f2 = f2
  g1 = g1
  g2 = g2
  FenceIds = {f1, f2}
  FenceSessions = {g1, g2}
  Transitions = {"enter"}
  MayRefuse = {"add", "remove", "pause", "resume"}
  MaxCommands = 2
SYMMETRY FenceSymmetry
INVARIANTS
  NoGhostClient
  Freed
  ApiServes
  NetworksAgree
  MapsInverse
  ModemObeys
  EveryoneTold
  FencesServed
  
  ConfigHolds
CHECK_DEADLOCK FALSE
