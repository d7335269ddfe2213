SPECIFICATION Spec
CONSTANTS
  FlagChoices <- BookFlags
  Function = {"malloc", "calloc", "realloc", "free", "usage"}
  Base <- MCBase3
  MallocSize = {4, 5}
  CallocShape <- ShapeOdd
  Stray <- MCStray
  MaxBlock = 28
  WordMod = 32
  PadsBlocks = TRUE
  Overruns = FALSE
  MayFail = TRUE
  MaxCalls = 4
  Bt <- MCBt
INVARIANTS TypeOK BooksMatch LeaksAreOwned NoFalseReport NoMissedFault StatsMatch FreedAsAsked BacktracesOwned AssertsHold HeapUndamaged
