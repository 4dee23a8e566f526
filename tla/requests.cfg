SPECIFICATION RequestsSpec
CONSTANTS
  h1 = h1
  h2 = h2
  h3 = h3
  Handles = {h1, h2, h3}
  MayFail = TRUE
  MayLose = TRUE
  UsesWds = TRUE
  MayBadApn = FALSE
  MaxSsr = 0
  MaxQueue = 4
  alice = alice
  bob = bob
  n1 = n1
  n2 = n2
  None = None
  NiClients = {alice}
  Notifs = {n1, n2}
  DenyLocked = TRUE
  SuplEsNo = FALSE
  CpMtlrEs = TRUE
  MaxExpires = 3
  NoAgc = NoAgc
  Unsaid = Unsaid
  Junk = Junk
  Senders = {1, 2}
  Self = 1
  MaxSends = 2
  Disciplined = FALSE
INVARIANTS
  ListMatchesState
  ModemAgrees
  OneAnswer
  OdcpiTimed
  EachOnce
  NothingLost
  PartsHold
PROPERTIES
  AtlSpec
  AtlAnswered
  RequestsEnd
