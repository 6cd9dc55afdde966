CONSTANTS
  Conns = {c1}
  Topics = {"motion"}
  MaxId = 2
  MaxMsg = 1
  MaxQueue = 1
  SlotMax = 1
  Overflow = "fault"
  Limits = {1}
  Timeouts = {1}
  Durations = {1}
  NoDuration = NoDuration
  DefaultTtl = 1
  Skew <- SlowClock
  BasePort = 1
  MaxPort = 5
  Toggles = {"never_expires", "slot_limit", "clock_skew", "always_empty"}
  GroupAxes <- MCGroups
  Lo <- MCLo
  Hi <- MCHi
  BaseRate <- MCRate
  FullSpeed = 2
  Speeds = {1}
  Velocities <- MCVelocities
  Goals <- MCGoals
  Spots <- MCSpots
  MoveTimeouts = {0, 1}
  SlowTime = 2
  NoHome = NoHome
  MaxPresets = 2
  Tokens = {2}
  FactoryCount = 3
  MaxLag = 2
  Switches = {"frozen", "slow"}
SPECIFICATION TimersSpec
INVARIANTS HeadConsistent
PROPERTIES PullEnds ExpiredReclaimed MovesOnItsOwn MovesEnd
