CONSTANTS
  Absent = Absent
  Bad = Bad
  Numbers = {0, 1}
  Steps = {0, 1}
  Full = 1
  Top = 1
  Ids = {2}
  Named = {}
  MaxPresets = 1
  FirstLamps <- MCFirstLamps
SPECIFICATION ControlSpec
PROPERTY UnreadableHarmless
