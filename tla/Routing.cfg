SPECIFICATION FairSpec
CONSTANTS
  a = a
  b = b
  j = j
  s1 = s1
  s2 = s2
  none = none
  seeing = seeing
  chat = chat
  code = code
  Models = {a, b}
  Unit = 60
  Cost <- Prices
  Window <- Windows
  Lacks <- Blind
  CallLimited = {b}
  Pools <- Intents
  NoModel = none
  HealthWindow = 1
  RateWindow = 0
  FairWindow = 1
  MaxCallsPerWindow = 2
  Bonus = 60
  Latencies = {1}
  Slots = {s1, s2}
  RequestKinds <- Kinds
  Profiles <- Mixed
  Admissions <- Lists2
  Name <- Names
  LlmModels <- Routers
  Answers <- Points
  Fallible = {"llm", "rate-limit"}
  Offered = a
  MaxHistory = 1
INVARIANT EvenLoad
INVARIANT ComputedOnScale
PROPERTY BetterIsAhead
PROPERTY ExcludedComesBack

