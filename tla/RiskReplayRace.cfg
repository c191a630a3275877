CONSTANTS
  r1 = r1  r2 = r2  t1 = t1  i1 = i1  i2 = i2  a1 = a1  a2 = a2  g1 = g1  g2 = g2
  h1 = h1  h2 = h2  u1 = u1  j1 = j1  j2 = j2  ip1 = ip1  ip2 = ip2
  Unknown = Unknown
  Request = {r1, r2}
  Token = {t1}
  Ip = {i1, i2}
  Geo = {g1, g2}
  Agent = {a1, a2}
  Shown <- HomeAway
  Sensitivity = {2, 4}
  Anomaly = {100}
  Base = 1000
  SensitivityWeight = 1500
  IpDriftWeight = 3500
  UaDriftWeight = 2000
  GeoDriftWeight = 2000
  ReplayWindow = 2
  TokenTTL = 3
  MaxTime = 3
  MaxFaults = 0
  Route <- ReadPayAdmin
  Admins = {}
  TokenExp <- Long
  StepUpTTL = 2
  FailOpens <- ClosedOrOpen
  Wrong = Wrong  Nobody = Nobody  NoJti = NoJti  Never = Never
  Verifier = {r1, r2}
  Challenge = {h1, h2}
  User = {u1}
  Jti = {j1, j2}
  Address = {ip1, ip2}
  MaxAttempts = 1
  MaxUserFailures = 1
  IpMaxAttempts = 2
  MaxStep = 1
  MaxSubmits = 0
  MaxAbandons = 0
  ChallengeTTL = 1
  UserWindow = 30
  IpWindow = 2
SPECIFICATION MCSpec
SYMMETRY Symmetric
INVARIANT IpChangeIsDenied
CHECK_DEADLOCK FALSE
