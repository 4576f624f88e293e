SPECIFICATION Spec
CONSTANTS
  a = a
  b = b
  c1 = c1
  c2 = c2
  c3 = c3
  c4 = c4
  p1 = p1
  p2 = p2
  NoCall = NoCall
  Items <- AllItems
  Processes <- AllProcesses
  Calls = {c1, c2, c3, c4}
  ProcOf <- UpdaterProc
  Kind <- UpdaterKind
  EditOf <- UpdaterEdit
  ItemOf <- UpdaterItem
  FirstRun = FALSE
  Stored <- StoredB
  Crashing = {p1, p2}
INVARIANT AckedUpdatesStand
INVARIANT LockExclusive
PROPERTY ImplementsRegister
CHECK_DEADLOCK FALSE
