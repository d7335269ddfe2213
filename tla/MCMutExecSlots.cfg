SPECIFICATION Spec
CONSTANTS
  Files <- Spilling
  Functions <- Asked
  Addrs = {1, 2, 3, 4, 5, 6}
  Suffix = "GLIBC"
  SectionsMax = 4
  HalfRange = 8
  Faults = {}
INVARIANTS SlotsSuffice
CHECK_DEADLOCK FALSE
