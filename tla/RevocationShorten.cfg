CONSTANTS
  t1 = t1  t2 = t2  c1 = c1  c2 = c2  w1 = w1
  NoExp = NoExp  NoRow = NoRow  NoToken = NoToken
  Token = {t1}
  Caller = {c1}
  Worker = {w1}
  Host <- HostOneThread
  Exp <- ExpOne
  Leeway = 0
  Grace = 2
  TTL = 3
  UseDB = TRUE
  MaxTime = 3
  MaxFaults = 1
SPECIFICATION Spec
PROPERTY ResyncNeverShortens
