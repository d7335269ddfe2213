SPECIFICATION Spec
CONSTANTS
  FlagChoices = {{}}
  Function = {"malloc", "free", "realloc"}
  Base <- MCBase2
  MallocSize = {4}
  CallocShape <- ShapeOdd
  Stray <- MCStray
  MaxBlock = 28
  WordMod = 32
  PadsBlocks = TRUE
  Overruns = FALSE
  MayFail = FALSE
  MaxCalls = 4
  Bt <- MCBt
INVARIANT NoAssertionFails
