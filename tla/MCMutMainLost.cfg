SPECIFICATION Spec
CONSTANTS
  Argvs <- Short
  Flags = {"b", "s"}
  Values = {"o"}
  MaxMessages = 1
  Faults = {"open"}
INVARIANTS ChildHeard
CHECK_DEADLOCK FALSE
