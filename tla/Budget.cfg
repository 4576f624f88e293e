SPECIFICATION Spec
CONSTANTS
  r1 = r1
  r2 = r2
  ask = ask
  aux = aux
  other = other
  rx = rx
  ry = ry
  m = m
  t1 = t1
  t2 = t2
  t3 = t3
  day = day
  last = last
  Periods = {day}
  Rolling = {last}
  PeriodStart <- Days
  Length <- LastTick
  ColonAfter <- Colons
  Routers = {rx, ry}
  Models = {m}
  Tokens = {t1, t2, t3}
  TokensOf <- TwoAndOne
  Requests = {r1, r2}
  Slots = {ask, aux, other}
  Main = {ask, other}
  RequestOf <- Owner
  RouterModels <- ListedOnce
  GlobalLimits <- MeanGlobal
  RouterLevel <- MeanRouter
  TokenLevel <- MeanToken
  Amounts = {2}
  MaxTime = 2
  MaxCalls = 2
INVARIANT CallsOvershoot
INVARIANT AlertsAreEarned
CHECK_DEADLOCK FALSE
