\* Two shells: one adds students, one compresses.
CONSTANTS
  p1 = p1
  p2 = p2
  f1 = f1
  f2 = f2
  f3 = f3
  f4 = f4
  NoFile = NoFile
  Procs = {p1, p2}
  MaxId = 2
  Vals = {1}
  AskedIds <- ValidIds
  AskedOps = {"add", "compress"}
  Commands <- MCCommands
  Wrap = 16
  Inodes = {f1, f2, f3, f4}
  Faults = FALSE
  Deadly = FALSE
SPECIFICATION Spec
PROPERTY AddedIsThere
