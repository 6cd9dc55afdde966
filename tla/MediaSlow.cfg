CONSTANTS
  Tracks = {"video"}
  Rate <- MCRate
  QuirkRate = 1
  Span = 2
  Size <- MCBig
  MaxCatchup = 1
  MaxQueue = 2
  Bandwidth = 1
  Window = 2
  SeqSpace = 65536
  FirstSeq = 65534
  AtStart = {{"limit"}}
  Late = 2
  MaxTime = 9
  Switches = 0
SPECIFICATION PumpSpec
INVARIANT RateHonoured
