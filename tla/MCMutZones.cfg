SPECIFICATION Spec
CONSTANTS
  FlagChoices <- ZoneFlags
  Function = {"malloc", "calloc", "cfree"}
  Base <- MCBase3
  MallocSize = {0, 3, 4}
  CallocShape <- ShapeOdd
  Stray <- MCStray
  MaxBlock = 28
  WordMod = 32
  PadsBlocks = FALSE
  Overruns = TRUE
  MayFail = FALSE
  MaxCalls = 4
  Bt <- MCBt
INVARIANTS NoFalseReport NoMissedFault ObjectsFit HeapUndamaged
