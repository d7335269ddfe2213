SPECIFICATION Spec
CONSTANTS
  Addr <- MCAddr
  Size <- MCSize
  Bt <- MCBt
  Producer = {"malloc", "realloc"}
  Consumer = {"free"}
  Backtraces = TRUE
INVARIANT CountsAreIterated
PROPERTY IsMap
