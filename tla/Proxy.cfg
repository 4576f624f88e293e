SPECIFICATION Spec
CONSTANTS
  r1 = r1
  plain = plain
  mixed = mixed
  orch = orch
  pass = pass
  raw = raw
  gpt = gpt
  claude = claude
  Requests = {r1}
  Routers = {plain, mixed, orch, pass, raw}
  Models = {gpt, claude}
  Kind <- Kinds
  Offers <- Models2
  Targets <- Forward
  Guarded = {mixed, orch}
  RawFirst = {raw}
  Verbatim = {claude}
INVARIANT AnsweredOnce
INVARIANT NoCallOnceAnswered
INVARIANT SteeredOnce
INVARIANT NothingWasted
INVARIANT ErrorsComeLast
INVARIANT MemoryIsCurrent
PROPERTY EveryRequestEnds
