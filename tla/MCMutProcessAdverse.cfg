SPECIFICATION FairSpec
CONSTANTS
  Fn <- MCFn
  Manage <- MCManage
  Found <- MCFound
  AddrOf <- MCAddrOf
  Consumers <- MCConsumers
  ReallyFree = TRUE
  TextAddr <- MCTextAddr
  W = 2
  Orig <- MCOrig
  Int3 = "int3"
  Pad = "pad"
  Start = 10
  Sites <- MCSites
  Other <- MCOther
  SigchldIgnored = TRUE
  Outside = {"trap", "kill"}
  MaxDepth = 3
  MaxEvents = 1
INVARIANTS StatusAsserts
PROPERTIES ExitEndsRun
