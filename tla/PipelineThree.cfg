\* Three commands, pipes of one chunk; calls of the supervisor and of the programs
\* fail.  The pipeline stops when all its processes have ended.
CONSTANTS
  N = 3
  Cap = 1
  MaxWrites = 2
  Faults = TRUE
SPECIFICATION FairSpec
INVARIANTS
  TypeOK
  NoStrayEnd
  LastCode
  AllReaped
PROPERTIES
  OrphansAreLate
  EverythingEnds
CHECK_DEADLOCK FALSE
