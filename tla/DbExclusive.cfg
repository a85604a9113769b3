\* One command after the other; calls fail and processes are killed anywhere.
CONSTANTS
  p1 = p1
  f1 = f1
  f2 = f2
  NoFile = NoFile
  Procs = {p1}
  MaxId = 3
  Vals = {1, 2}
  AskedIds <- NearIds
  AskedOps = {"add", "del", "find", "scan", "compress", "zero"}
  Commands <- MCCommands
  Wrap = 16
  Inodes = {f1, f2}
  Faults = TRUE
  Deadly = TRUE
SPECIFICATION Spec
INVARIANT TypeOK
PROPERTY MapSpec
