SPECIFICATION Spec
CONSTANTS
  t1 = t1
  t2 = t2
  hook = hook
  degraded = degraded
  update = update
  request = request
  user = user
  next = next
  stable = stable
  NoTrace = NoTrace
  Tasks = {t1, t2}
  Names = {degraded, update}
  Rank <- RankValue
  TraceOf <- TraceValue
  Inboxed = {degraded}
  Channels = {hook}
  Receives <- ReceivesValue
  Cooldown <- CooldownValue
  Users = {user}
  Window = 0
  MaxAge = 1
  MaxItems = 2
  Old = 1
  MaxEvents = 2
  MaxRequests = 1
  MaxNow = 2
  UpdateChannels = {stable, next}
  MaxVersion = 2
  UpdateAvailable = update
SYMMETRY AnyTask
INVARIANT Paced
INVARIANT OpenOnce
INVARIANT NewsIsUnread
INVARIANT AnnouncedOnce
