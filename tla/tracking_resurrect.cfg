SPECIFICATION Spec
CONSTANTS
  alice = alice
  bob = bob
  NoClient = NoClient
  Clients = {alice, bob}
  Sessions = {1, 2}
  Registrations = {"ready"}
  Owner <- MCOwner
  Opts <- TimeOpts
  MinInterval = 1
  ClientsWait = FALSE
  DistanceSupported = FALSE
  MayFail = TRUE
  NHzPossible = FALSE
  MayReconfigure = FALSE
  MaxSsr = 0
  MaxQueue = 3
INVARIANTS
  NoGhost
CHECK_DEADLOCK FALSE
