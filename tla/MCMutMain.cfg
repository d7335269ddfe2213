SPECIFICATION Spec
CONSTANTS
  Argvs <- CommandLines
  Flags = {"b", "s"}
  Values = {"o"}
  MaxMessages = 2
  Faults = {"write", "open", "fork", "request", "wait", "memory"}
INVARIANTS FatalMeansFailure AbortsExplained EverythingClosed ArgsAsGiven
CHECK_DEADLOCK FALSE
