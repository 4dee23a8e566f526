SPECIFICATION AdaptersSpec
CONSTANTS
  alice = alice
  bob = bob
  r1 = r1
  r2 = r2
  None = None
  Clients = {alice, bob}
  Ids = {1, 2, 3}
  HwIds = {1, 2}
  Reqs = {r1, r2}
  Owner <- MCOwner
  near = near
  far = far
  Opts = {near, far}
  Multi = {"add"}
  MayFail = TRUE
  MaxSsr = 1
  m1 = m1
  m2 = m2
  c1 = c1
  Unset = Unset
  NoHost = NoHost
  NoId = NoId
  flp = flp
  Never = Never
  s1 = s1
  s2 = s2
  NoSource = NoSource
  Sources = {s1, s2}
  Wanting = {s2}
  ApNmea = FALSE
  Swaps = TRUE
  ConsentChanges = TRUE
  MayRefuse = TRUE
  MaxAnswers = 1
  MaxRestarts = 1
  MeasureIds = {1, 2, 3}
  NoMeasureId = 0
  Notifications <- MCMeasured
  SvsCount = 64
  Replaces = FALSE
  MayRefuseSession = TRUE
  MaxRegistered = 2
  MaxMeasureQueue = 1
SYMMETRY RequestSymmetry
INVARIANTS
  GeofencesAgree
  BatchesAgree
  FrameworkReach
  CorrectionsTrue
  PartsHold
PROPERTIES
  AnswerTrue
CHECK_DEADLOCK FALSE
