CONSTANTS
  Kinds = {"Motion", "LineCrossing"}
  Catalog <- TwoStyles
  Instant = {"Crossed"}
  PersonaStyles = {"onvif", "tplink"}
  NamingStyle = "tplink"
  Toggles = {"storm", "unpaired", "naming"}
  GlobalQuirks = {}
  QuirkRate = 2
  ManualRates = {1}
  MaxRows = 0
  MaxTriggers = 0
SPECIFICATION EngineSpec
PROPERTIES ManualStormKept
