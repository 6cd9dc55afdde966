CONSTANTS
  Conns = {c1, c2}
  Topics = {"motion"}
  MaxId = 3
  PulledIds = 2
  MaxMsg = 3
  MaxQueue = 2
  SlotMax = 1
  Overflow = "evict_oldest"
  Limits = {1, 5}
  Timeouts = {0, 1}
  Durations = {1}
  NoDuration = NoDuration
  DefaultTtl = 1
  Skew = 0
  BasePort = 2
  MaxPort = 5
  Toggles = {"slot_limit", "always_empty", "own_port"}
  FocusMax = 3
  CutModes = {"AUTO", "ON"}
  FocusRate = 1
  FocusFull = 2
  DefaultSpeed = 1
  FocusSpeeds <- MCFocusSpeeds
  Top = 2
  Levels <- MCLevels
  MaxFocusLag = 2
  MaxProfiles = 4
  FactorySizes <- MCFactorySizes
  Sizes <- MCSizes
  Rates = {16000}
  Asked = {4}
  Kinds = {"output"}
  Personas = {"generic", "hikvision"}
  PtzModes = {"plain", "sub only", "hidden"}
  Absent = Absent
  MaxUsers = 3
  FirstUsers <- MCFirstUsers
  NewNames = {"new", "extra"}
  Nameless = ""
  UserLevels = {"Administrator", "User"}
  BadLevel = "bad"
  SameLevel = "same"
  FixedScopes = {"type", "hardware"}
  FreeScopes = {"name"}
  Accounts <- MCAccounts
  Stranger = "stranger"
  Needs = {0, 1, 3}
  Drifts <- MCDrifts
  ClockSkew = 1
  TimeWindow = 1
  Nonces = {n1}
  NoNonce = NoNonce
  CacheSeconds = 2
  Threshold = 1
  Burst = 2
  Challenges = {h1}
  NonceLifetime = 1
  TokenWindow = 1
  MaxTime = 3
  QuirkIds = {"strict nonce", "overload"}
  Lasting = {"dropout", "preauth", "text only"}
  HttpBase = 10
  RtspBase = 12
  Foreign = {11}
  MaxCameras = 2
  MaxIndex = 4
  Presets <- MCPresets
  QuirkKeys = {"plain","tuned"}
  Tuned = {"tuned"}
  Wishes <- MCWishes
  GlobalWishes <- MCGlobalWishes
  Written <- MCWritten
SYMMETRY ConnSymmetry
SPECIFICATION ServicesSpec
INVARIANTS PullsConsistent NoLostWakeup Conservation InOrder PathUnique ImagingConsistent MediaConsistent AdminConsistent GateConsistent FleetConsistent
PROPERTIES MuteSilences KeepsPromise SlotLimitKept NeverDeletesLastAdmin RefusalBurnsNothing
