INIT HouseholdInit
NEXT HouseholdNext
CONSTANTS
  one = one
  two = two
  theft = theft

  Cars = {"red", "blue"}
  Spots = {"kerb", "drive"}
  Near <- NearSpots
  Ids = {1, 2}
  Confirm = 2
  Stable = 2
  Absence = 3
  LookGap = 3
  Window = 1
  Touch = 1
  Cooldown = 0
  Gaps = {1, 2}
  Outage = 1
  MaxMishaps = 1

  MailMinObservations = 1
  MailEndMisses = 2
  MailOpenFrames = 2
  MailDedupe = 1
  MailCooldown = 1
  MailMaxVisit = 1
  MailRebase = 0
  MailVerifyGap = 0
  MailTimeout = 1
  MailVisits = 2
  MailMishaps = 1

  Looks = {"gone", "here", "tipped"}
  EmptyLooks = {"gone"}
  BinConfirm = 2
  BinInteraction = 2
  BinDedupe = 1
  BinTimeout = 1
  RemovalCounts = TRUE
  BinOutages = 1
  BinMishaps = 1

  Visits = {"v1", "v2", "v3"}
  Alike <- AlikeFaces
  Persons = {"p1", "p2"}
  MaxSamples = 2
  MaxEdits = 2

  NtReplicas = {"r1", "r2"}
  NtChannels = {"c1"}
  NtAlerts = {"a1", "a2", "faint"}
  NtJobs <- Alerts
  NtSeverity <- AlertSeverity
  NtFloor <- ChannelFloor
  NtPolicyFloor = 1
  NtOverride = 3
  NtLimit = 1
  NtHour = 1
  NtCacheTTL = 1
  NtClock = 2
  NtMishaps = 1

  DtRequests = {one, two}
  DtTTL = 1
  DtCrashes = 2

  ClEvents = {one, two}
  ClNone = "none"
  ClMaxCaptures = 2
  ClMaxWaiters = 1
  ClEventCap = 1
  ClTotalCap = 1
  ClMishaps = 1

  RtPasses = {one, two}
  RtIncidents = {theft}
  RtEvents = {1, 2}
  RtPins <- PinnedEvents
  RtBatch = 1
  RtMaxBatches = 3
  RtRuns = 2
  RtEdits = 1

  SgListed = 2
  SgPad = 1
  SgCatchup = 2
  SgBuffer = 3
  SgClipMax = 4
  SgSegments = 5
  SgMishaps = 1

  ElTasks = {one, two}
  ElStreams = 2
  ElWire = 2
  ElMishaps = 1
  ElNobody = "nobody"

  Channels = {"c1", "c2"}
  Attached = {"c1"}
  ProbeTtl = 1
  ProbeFailureTtl = 1
  LivenessTtl = 1
  FailureRetry = 1
  FailureThreshold = 2
  OfflineGrace = 2
  VerifyInterval = 1
  CameraCache = 1
  EdTasks = {one, two}
  EdNobody = "none"

  LoiterReplicas = {one, two}
  LoiterThreshold = 3
  LoiterGap = 2
  LoiterRepeat = 4
  LoiterLate = 1
  LoiterHorizon = 7

  InOrder <- FriendFirst
  Haunts <- Places
  Watched = {1, 4}
  SuspectDwell = 1
  SuspectGap = 1
  SuspectDedupe = 1
  Suspects = 3
  TrustChanges = 1

  PlEvents = {one, two}
  PlNone = "none"
  PlQueue = 1
  PlMishaps = 1
  PlModes = 1

  AcReplicas = {one, two}
  AcPeople = {one, two}
  AcTokens = {"t1"}
  MaxFailedAttempts = 2
  LockoutTime = 1
  SessionTtl = 1
  AcHorizon = 3

  GoPeople = {one, two}
  GoMails = {"m1", "m2"}
  GoMailOf <- SharedAddress
  GoAdmins = {"m1"}
  GoStates = {"s1", "s2"}
  MaxPending = 2
  GoNone = "none"

  PvConfigs = {"f1", "f2"}
  PvRequests = {one, two}
  PvEnvironment = TRUE
  PvEdits = 3
  CacheTtl = 1

  Writers = {one, two}
  DgDays = 2
  DgEvents = 1
  DgRuns = 3

  WdCameras = {one, two}
  BlackoutWindow = 2
  MinFrames = 2
  WdHorizon = 4
VIEW HouseholdView
INVARIANTS
  
  SceneTold
  IdentitiesAreOwn
  AlertsAreRationed
  SirenObeys
  ClipsAddUp
  NoSplice
  StreamsAreServed
  WorkingCamerasShow
  TrustedLeftAlone
  PipelineDelivers
  SignedInAsOwn
  OneEnabled
  DigestsAgree
  BlindIsNoticed
PROPERTIES
  NoFalseDeparture
  MailIsNewsOnce
  PlacedOutWasAway
  PurgeIsExact
  LoiteringIsOne
  AccountsAreGuarded
CHECK_DEADLOCK FALSE
