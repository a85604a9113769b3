SPECIFICATION Spec
CONSTANTS
  ExeMax = 3
  ArgMax = 3
  ArgvMax = 2
  CmdMax = 2
  BufSz = 4
  Programs = {"shell", "stringfun"}
  Pieces <- MCPieces
  MaxTyped = 5
  Arguments <- MCArguments
INVARIANTS
  WordsKept
  RedirectsAsTyped
  ShellsAgree
  PipelineAsTyped
  ListsFit
  NameAndArguments
  PrintedAsTyped
  ReplacedAsAsked
CHECK_DEADLOCK FALSE
