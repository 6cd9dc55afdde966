CONSTANTS
  HttpBase = 10
  RtspBase = 12
  Foreign = {}
  MaxCameras = 2
  MaxIndex = 4
  Presets <- MCPresets
  QuirkKeys = {"plain", "tuned"}
  Tuned = {"tuned"}
  Wishes <- MCWishes
  GlobalWishes = {}
  Written <- MCWritten
SPECIFICATION FleetSpec
INVARIANT ExportExact
