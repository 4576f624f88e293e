SPECIFICATION RoutersSpec
CONSTANTS
  r1 = r1
  r2 = r2
  r3 = r3
  alpha = alpha
  alphaDot = alphaDot
  a = a
  c1 = c1
  NoRouter = NoRouter
  NoSlug = NoSlug
  NoCopy = NoCopy
  RouterIds = {r1, r2, r3}
  Names = {alpha, alphaDot}
  Base <- OneBase
  Bases = {a}
  Clients = {c1}
  MaxTokens = 1
  MaxEdits = 4
SYMMETRY Symmetry
INVARIANT NamesUnique
INVARIANT NoCircle
INVARIANT SlugsUnique
CHECK_DEADLOCK FALSE
