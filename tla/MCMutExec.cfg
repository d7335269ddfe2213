SPECIFICATION Spec
CONSTANTS
  Files <- AllFiles
  Functions <- Asked
  Addrs = {1, 2, 3, 4, 5, 6}
  Suffix = "GLIBC"
  SectionsMax = 4
  HalfRange = 8
  Faults = {"format", "io", "malloc", "fun_node", "line_node"}
INVARIANTS TypeOK FreedOnce NothingKept FirstOfEach AddrNamed FunctionsFound LinesAttributed
CHECK_DEADLOCK FALSE
