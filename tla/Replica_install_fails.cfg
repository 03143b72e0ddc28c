SPECIFICATION Spec
CONSTANTS
  k1 = k1
  k2 = k2
  v1 = v1
  v2 = v2
  NoValue = NoValue
  Keys = {k1, k2}
  Values = {v1, v2}
  Commands <- MCCommands
  MaxLog = 3
  Retain = 2
  TrailingLogs = 1
  batchLimit = 1
  FaultCases = {{"install"}}
INVARIANT LiveKeysKept
