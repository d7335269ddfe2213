SPECIFICATION Spec
CONSTANTS
  FlagChoices = {{"check"}}
  Function = {"malloc"}
  Base <- MCBase2
  MallocSize = {31}
  CallocShape <- ShapeOdd
  Stray <- MCStray
  MaxBlock = 28
  WordMod = 32
  PadsBlocks = TRUE
  Overruns = FALSE
  MayFail = FALSE
  MaxCalls = 4
  Bt <- MCBt
INVARIANT ObjectsFit
