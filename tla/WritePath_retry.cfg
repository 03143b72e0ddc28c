SPECIFICATION Spec
CONSTANTS
  n1 = n1
  n2 = n2
  n3 = n3
  put1 = put1
  put2 = put2
  batch1 = batch1
  delete1 = delete1
  add1 = add1
  remove1 = remove1
  None = None
  Nodes = {n1, n2, n3}
  FirstNode = n1
  peers = {n1, n2, n3}
  noSync = "false"
  Requests = {put1, delete1}
  opOf <- MCOp
  subject <- MCSubject
  sentTo <- MCAnywhere
  MaxTerm = 3
  MaxLog = 6
  MaxCrashes = 0
  maxRetries = 3
  leaderPolls = 1
  MaxCalls = 2
  MaxEffort = 5
CHECK_DEADLOCK FALSE
SYMMETRY MCSymmetry
PROPERTY NotUndone
