SPECIFICATION Spec
CONSTANTS
  Threads = {"t1", "t2"}
  Func <- MCFunc
  Patch <- MCPatch
  Main <- MCMain
  MaxFrames <- MCMaxFrames
  SigReturn = 0
  JumpSize = 2
  MAX_DEPTH = 1
  Tries = 2
  Orig = "orig"
INVARIANTS
  NoOldFrames
  NoUnmappedFrames
CHECK_DEADLOCK FALSE
