SPECIFICATION Spec
CONSTANTS
  Fn <- MCFn
  Manage <- MCManage
  Found <- MCFound
  AddrOf <- MCAddrOf
  Consumers <- MCConsumers
  ReallyFree = FALSE
  TextAddr <- MCTextAddr
  W = 2
  Orig <- MCOrig
  Int3 = "int3"
  Pad = "pad"
  Start = 10
  Sites <- MCSites
  Other <- MCOther
  SigchldIgnored = FALSE
  Outside = {"kill"}
  MaxDepth = 3
  MaxEvents = 1
INVARIANT NoLogAfterFatal
