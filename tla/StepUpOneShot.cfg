CONSTANTS
  Wrong = Wrong  Nobody = Nobody  NoJti = NoJti  Never = Never
  Verifier = {r1, r2}
  Challenge = {h1}
  User = {u1}
  Jti = {j1}
  Address = {ip1}
  MaxAttempts = 2
  MaxUserFailures = 3
  IpMaxAttempts = 4
  MaxStep = 2
  MaxSubmits = 2
  MaxAbandons = 0
  ChallengeTTL = 10
  UserWindow = 30
  IpWindow = 2
CHECK_DEADLOCK FALSE
SPECIFICATION StepUpSpec
INVARIANT ChallengeIsOneShot
