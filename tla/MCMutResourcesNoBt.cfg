SPECIFICATION Spec
CONSTANTS
  Addr <- MCAddr
  Size <- MCSize
  Bt <- MCBt
  Producer = {"malloc", "realloc"}
  Consumer = {"free"}
  Backtraces = FALSE
PROPERTY IsMap
