SPECIFICATION Spec
CONSTANTS
  Ports = {p0, p1, p2}
  DefaultPort = p1
  NoPort = p0
  Nets = {n1, n2, bad}
  DefaultNet = n1
  BadNet = bad
  Names = {alpha}
  NoName = NoName
  Keys = {k1, k2, k3}
  FirstKey = k1
  NoKey = NoKey
  Torn = Torn
  Down = Down
  Free = Free
  Leaked = Leaked
  Workers = {w1}
  MaxFaults = 0
  MaxRequests = 1
INVARIANTS PeerConfigPort
