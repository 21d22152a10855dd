SPECIFICATION Spec
CONSTANTS
  Workers = {w1, w2}
  MaxTime = 3
  MaxRequests = 3
  MaxFaults = 1
  Passwords = {"one", "two"}
  Default = "one"
  Secrets = {"s1", "s2", "s3"}
  NoFile = NoFile
  Torn = Torn
  Left <- MCLeft
  TokenTtl = 2
  MaxAttempts = 2
  BlockTime = 2
  Peers = {p1}
  Domains = {d1, d2}
  InitDomain <- MCDomain
  Gone = Gone
  Ttls = {2, 3}
  InitTtl = 3
  TtlUnavailable = 1
  MaxCheck = 1
  MaxFlips = 1
INVARIANTS TypeOK PasswordKept TokensKept BlockEarned AnswerHonest CacheCleared
SYMMETRY Symmetry
CHECK_DEADLOCK FALSE
