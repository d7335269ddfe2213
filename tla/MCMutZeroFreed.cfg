SPECIFICATION Spec
CONSTANTS
  FlagChoices = {{"free", "zero"}}
  Function = {"malloc", "realloc"}
  Base <- MCBase2
  MallocSize = {4}
  CallocShape <- ShapeOdd
  Stray <- MCStray
  MaxBlock = 28
  WordMod = 32
  PadsBlocks = TRUE
  Overruns = FALSE
  MayFail = FALSE
  MaxCalls = 4
  Bt <- MCBt
INVARIANT HeapUndamaged
