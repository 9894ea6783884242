SPECIFICATION Spec
CONSTANTS
  Thread = {t1}
  s1 = s1
  s2 = s2
  a = a
  b = b
  Server = {s1, s2}
  Ip = {a, b}
  None = None
  Request <- JustPlain
  Stripe <- MCStripe
  Blocked = {}
  MaxAge = 2
  TTL = {0, 1}
  MaxTime = 2
  MaxConnections = 3
  MaxCrashes = 0
PROPERTY CachedIsFound
CHECK_DEADLOCK FALSE
