SPECIFICATION Spec
CONSTANTS
  alice = alice
  bob = bob
  NoClient = NoClient
  Clients = {alice, bob}
  Sessions = {1, 2, 3}
  Registrations = {"ready"}
  Owner <- MCOwner
  Opts <- PowerOpts
  MinInterval = 1
  ClientsWait = FALSE
  DistanceSupported = FALSE
  MayFail = FALSE
  NHzPossible = FALSE
  MayReconfigure = FALSE
  MaxSsr = 0
  MaxQueue = 2
INVARIANTS
  PowerServes
CHECK_DEADLOCK FALSE
