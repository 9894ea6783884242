SPECIFICATION FairSpec
CONSTANTS
  Thread = {t1, t2}
  s1 = s1
  s2 = s2
  a = a
  b = b
  Server = {s1, s2}
  Ip = {a, b}
  None = None
  Request <- MCRequest
  Stripe <- MCStripe
  Blocked = {}
  MaxAge = 2
  TTL = {0, 1}
  MaxTime = 2
  MaxConnections = 3
  MaxCrashes = 1
INVARIANT TypeOK
INVARIANT EntriesAreLocked
INVARIANT NobodyIsDropped
INVARIANT SingleFile
INVARIANT HitIsWhole
INVARIANT HitIsOwn
INVARIANT HitIsFresh
PROPERTY EveryConnectionEnds
ACTION_CONSTRAINT Fewer
CHECK_DEADLOCK FALSE
