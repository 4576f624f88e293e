SPECIFICATION FairSpec
CONSTANTS
  t1 = t1
  t2 = t2
  NoTrace = NoTrace
  Traces = {t1, t2}
  Slow = {t1}
  MaxEntries = 1
  MaxRecords = 2
  MaxDeaths = 2
  Sweeping = TRUE
INVARIANT OnceOnly
INVARIANT Accounted
INVARIANT WholeOnceAnnounced
PROPERTY HeldIsFlushed
PROPERTY ImplementsBook
CHECK_DEADLOCK FALSE
