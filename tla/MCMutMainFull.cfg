SPECIFICATION Spec
CONSTANTS
  Argvs <- Short
  Flags = {"b", "s"}
  Values = {"o"}
  MaxMessages = 1
  Faults = {"write"}
INVARIANTS NoAssertionFails
CHECK_DEADLOCK FALSE
