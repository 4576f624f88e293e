SPECIFICATION OAuthSpec
CONSTANTS
  x = x
  y = y
  t1 = t1
  t2 = t2
  Connections = {x, y}
  Tasks = {t1, t2}
  Rotating = {x}
  TwoUrls = {x}
  MaxPair = 3
SYMMETRY AnyTask
INVARIANT KeepsUp
