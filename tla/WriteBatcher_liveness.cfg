SPECIFICATION FairSpec
CONSTANTS
  r1 = r1
  r2 = r2
  r3 = r3
  k1 = k1
  k2 = k2
  k3 = k3
  e1 = e1
  e2 = e2
  NoValue = NoValue
  RunLoop = RunLoop
  Requests = {r1, r2, r3}
  Keys = {k1, k2, k3}
  Executors = {e1}
  keyOf <- MCownKeys
  maxBatch = 2
  reqChFactor = 1
  batchChFactor = 1
PROPERTIES
  SubmitReturns
  CloseReturns
CHECK_DEADLOCK FALSE
