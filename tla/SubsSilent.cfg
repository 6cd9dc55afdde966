CONSTANTS
  Conns = {c1}
  Topics = {"motion"}
  MaxId = 2
  MaxMsg = 1
  MaxQueue = 1
  SlotMax = 1
  Overflow = "silent_fail"
  Limits = {1}
  Timeouts = {1}
  Durations = {1}
  NoDuration = NoDuration
  DefaultTtl = 1
  Skew = 0
  BasePort = 1
  MaxPort = 5
  Toggles = {"slot_limit"}
SYMMETRY ConnSymmetry
SPECIFICATION Spec
INVARIANT SilentRefusalFaults
