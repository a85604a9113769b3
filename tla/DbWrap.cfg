\* One command after the other, with an id whose offset wraps around.
CONSTANTS
  p1 = p1
  f1 = f1
  f2 = f2
  NoFile = NoFile
  Procs = {p1}
  MaxId = 2
  Vals = {1, 2}
  AskedIds <- WrappedIds
  AskedOps = {"add", "del", "find", "scan", "compress", "zero"}
  Commands <- MCCommands
  Wrap = 16
  Inodes = {f1, f2}
  Faults = FALSE
  Deadly = FALSE
SPECIFICATION Spec
PROPERTY DeletedIsNamed
