CONSTANTS
  HttpPorts = {80, 1024}
  RtspPorts = {554}
  SubPorts = {1024}
  Contested = {1024, 8443}
  Stubs = {"none", "routes", "vigi"}
  VigiPort = 20443
  TlsPort = 8443
  MaxOutages = 2
  Kinds = {"Motion", "LineCrossing"}
  Catalog <- TwoStyles
  Instant = {"Crossed"}
  PersonaStyles = {"onvif", "tplink"}
  NamingStyle = "tplink"
  Toggles = {"storm", "unpaired", "naming"}
  GlobalQuirks = {}
  QuirkRate = 2
  ManualRates = {1}
  MaxRows = 1
  MaxTriggers = 2
  Streams = {s1, s2, s3}
  CodeOf <- MCCodeOf
  Filters <- MCFilters
  MaxEvents = 2
  Apis = {"reolink", "tplink", "vigi"}
  Clients = {"c1", "c2"}
  Detections = {"people"}
  Batches <- MCBatches
  Lease = 2
  MaxIssued = 4
  MaxNow = 3
  Absent = Absent
  Bad = Bad
  Numbers = {0, 3}
  Steps = {0, 1}
  Full = 1
  Top = 1
  Ids = {2}
  Named = {}
  MaxPresets = 1
  FirstLamps <- MCFirstLamps
  Fleet = {"c1"}
  Types = {"Device", "NVT"}
  ScopesOf <- MCScopesOf
  QuirkSets <- MCQuirkSets
  Requests <- MCRequests
  MaxPending = 2
  MaxOwed = 2
  LogCameras = {"c1"}
  LogLevels = {0, 1}
  HistoryLimit = 2
  PendingCap = 2
  Limits = {1, 2}
  MaxPosted = 4
  Addresses = {1, 2, 3}
  MaxRange = 2
  CameraCount = 2
  MaxOwned = 2
  CameraIds <- MCCameraIds
  Objects = {1, 2, 3}
  Texts = {"a"}
  MaxLines = 2
  QuirkLines = {"naming", "other"}
  SentTables <- MCSentTables
  ScenarioFiles <- MCScenarioFiles
  MaxTurns = 3
SPECIFICATION PlantFairSpec
INVARIANTS ListenersFollow TableConsistent StreamsFollow SessionsTrue DiscoveryTrue LogTrue AliasesAccounted WindowTrue
PROPERTIES ComesBack PropertiesFall VendorWritesHonest
