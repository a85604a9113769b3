SPECIFICATION SpecBoth
CONSTANTS
  ExeMax = 2
  ArgMax = 2
  ArgvMax = 3
  CmdMax = 2
  Shells = {"P3", "P4", "server"}
  Lines <- MCLines
  MaxLines = 3
  Codes = {"OK", "ENOENT"}
  Faults = TRUE
  Lines2 <- MCLines2
  MaxLines2 = 4
INVARIANTS
  FreedOnce
  NothingLeft
  RunsTheLine
  CrashesForAReason
PROPERTIES
  CdAlone
  SingleLineAlone
CHECK_DEADLOCK FALSE
