SPECIFICATION Spec
CONSTANTS
  r1 = r1
  r2 = r2
  p1 = p1
  p2 = p2
  c1 = c1
  c2 = c2
  chat = chat
  Requests = {r1, r2}
  Providers = {p1}
  Connections = {c1, c2}
  Routers = {chat}
  Models <- TwoModels
  ProviderOf <- SharedProvider
  ConnectionOf <- OneConnectionEach
  RouterModels <- ChatBoth
  Resettable <- ConnectionOne
  Faults = {"server", "rate-limit"}
  RetryAfters <- NoRetryAfter
  THRESHOLD = 2
  WINDOW = 1
  OPEN = 1
  COOLDOWN = 1
  LOCKOUT = 2
  MaxTime = 3
  MaxFaults = 2
SYMMETRY AnyRequest
INVARIANT TypeOK
INVARIANT BreakerConsistent
INVARIANT FaultsInWindow
INVARIANT LevelsApart
INVARIANT FilterIsTheLoop
PROPERTY ImplementsBreaker
