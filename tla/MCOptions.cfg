SPECIFICATION OptionsSpec
CONSTANT
  MaxSaves = 4
INVARIANTS
  NoMiningOnBattery
PROPERTIES
  Resumes
  ConfigFollowsFile
CHECK_DEADLOCK FALSE
