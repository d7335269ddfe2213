SPECIFICATION Spec
CONSTANTS
  Files <- Stripped
  Functions <- Asked
  Addrs = {1, 2, 3, 4, 5, 6}
  Suffix = "GLIBC"
  SectionsMax = 4
  HalfRange = 8
  Faults = {}
INVARIANTS BacktraceNeedsSymbols
CHECK_DEADLOCK FALSE
