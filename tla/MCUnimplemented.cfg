CONSTANTS
  r1 = r1
  r2 = r2
  Req <- MCReq
  Pop = Pop
  NumMsgs = 2
  ReadQueueNums = 1
  MaxTime = 3
  MaxCrash = 1
  BufCap = 1
  MalformedFields = {}
  OrderRequests = FALSE
  StrictClock = TRUE
  CkImplemented = FALSE
SPECIFICATION Spec
SYMMETRY MCSymmetry
INVARIANT AlwaysResponds
