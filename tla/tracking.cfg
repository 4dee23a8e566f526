SPECIFICATION Spec
CONSTANTS
  alice = alice
  bob = bob
  NoClient = NoClient
  Clients = {alice, bob}
  Sessions = {1, 2}
  Registrations = {"ready"}
  Owner <- MCOwner
  Opts <- HeldOpts
  MinInterval = 1
  ClientsWait = FALSE
  DistanceSupported = TRUE
  MayFail = FALSE
  NHzPossible = TRUE
  MayReconfigure = TRUE
  MaxSsr = 1
  MaxQueue = 2
INVARIANTS
  TypeOK
  FastIsTrue
  EngineServes
  NeverTwice
CHECK_DEADLOCK FALSE
