SPECIFICATION SessionsSpec
CONSTANTS
  alice = alice
  bob = bob
  h1 = h1
  h2 = h2
  h3 = h3
  NoClient = NoClient
  Clients = {alice, bob}
  Sessions = {1, 2}
  Registrations = {"nocb", "ready"}
  Owner <- TimeOwner
  Opts <- MixedOpts
  MinInterval = 1
  ClientsWait = FALSE
  DistanceSupported = TRUE
  MayFail = FALSE
  NHzPossible = TRUE
  MayReconfigure = TRUE
  MaxSsr = 0
  MaxQueue = 2
INVARIANTS
  Answered
  HubTold
  EngineIdle
  SessionsHold
CHECK_DEADLOCK FALSE
