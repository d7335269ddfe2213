SPECIFICATION Spec
CONSTANTS
  FlagChoices = {{"free", "backtrace"}}
  Function = {"malloc", "realloc"}
  Base <- MCBase2
  MallocSize = {4}
  CallocShape <- ShapeOdd
  Stray <- MCStray
  MaxBlock = 28
  WordMod = 32
  PadsBlocks = TRUE
  Overruns = FALSE
  MayFail = TRUE
  MaxCalls = 4
  Bt <- MCBt
INVARIANT NoLostBacktrace
