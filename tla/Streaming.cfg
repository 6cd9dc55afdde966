CONSTANTS
  s1 = s1
  s2 = s2
  Sessions = {s1, s2}
  Sends <- MCSends
  Switched = {"busy", "drain", "max"}
  Slots = 1
  Busy = 1
  Timeout = 1
  Unread = 1
  Talkers = {s1, s2}
  OverUdp = {s1}
  SeqRange = 8
  StartSeq = 6
  MaxFed = 3
  NoTalker = NoTalker
  Tracks = {"video", "audio"}
  Rate <- MCRate
  QuirkRate = 1
  Span = 2
  Size <- MCSize
  MaxCatchup = 1
  MaxQueue = 2
  Bandwidth = 3
  Window = 1
  SeqSpace = 65536
  FirstSeq = 65534
  AtStart = {{}, {"limit"}}
  Late = 2
  MaxTime = 4
  Switches = 1
SPECIFICATION StreamingSpec
INVARIANTS SessionsConsistent TalkTrue SendersConsistent
PROPERTIES SlotLimit TimestampsRise
