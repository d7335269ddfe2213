SPECIFICATION Spec
CONSTANTS
  FlagChoices = {{"check"}}
  Function = {"malloc", "realloc"}
  Base <- MCBase2
  MallocSize = {4}
  CallocShape <- ShapeOdd
  Stray <- MCStray
  MaxBlock = 28
  WordMod = 32
  PadsBlocks = TRUE
  Overruns = TRUE
  MayFail = FALSE
  MaxCalls = 4
  Bt <- MCBt
INVARIANT NoMissedFault
