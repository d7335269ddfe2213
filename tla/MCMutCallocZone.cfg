SPECIFICATION Spec
CONSTANTS
  FlagChoices = {{"check"}}
  Function = {"calloc", "free"}
  Base <- MCBase2
  MallocSize = {4}
  CallocShape <- ShapeEven
  Stray <- MCStray
  MaxBlock = 28
  WordMod = 32
  PadsBlocks = TRUE
  Overruns = FALSE
  MayFail = FALSE
  MaxCalls = 4
  Bt <- MCBt
INVARIANT NoFalseReport
