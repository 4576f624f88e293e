SPECIFICATION FairSpec
CONSTANTS
  a = a
  b = b
  c1 = c1
  c2 = c2
  c3 = c3
  c4 = c4
  p1 = p1
  p2 = p2
  NoCall = NoCall
  Items <- AllItems
  Processes <- AllProcesses
  Calls = {c1, c2, c3}
  ProcOf <- MixedProc
  Kind <- MixedKind
  EditOf <- MixedEdit
  ItemOf <- MixedItem
  FirstRun = TRUE
  Stored = {}
  Crashing = {p1, p2}
PROPERTY LockComesBack
CHECK_DEADLOCK FALSE
