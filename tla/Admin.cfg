SPECIFICATION Spec
CONSTANTS
  t1 = t1
  t2 = t2
  big = big
  small = small
  hand = hand
  ann = ann
  bob = bob
  a = a
  b = b
  ops = ops
  fast = fast
  NoModel = NoModel
  Own = Own
  NoUser = NoUser
  Tasks = {t1, t2}
  MaxRequests = 3
  Models = {big, small}
  Shared = {hand}
  Bound <- BoundValue
  Profiles = {fast}
  ProfileKinds = {"routing", "security"}
  KindOf <- KindOfValue
  UserIds = {ann, bob}
  Emails = {a, b}
  Roles = {ops}
SYMMETRY Symmetry
INVARIANT AdminStays
INVARIANT BoundExists
INVARIANT ReferencesResolve
CHECK_DEADLOCK FALSE
