SPECIFICATION Spec
CONSTANTS
  Files <- Static
  Functions <- Asked
  Addrs = {1, 2, 3, 4, 5, 6}
  Suffix = "GLIBC"
  SectionsMax = 4
  HalfRange = 8
  Faults = {"fun_node"}
INVARIANTS TableFreedOnce
CHECK_DEADLOCK FALSE
