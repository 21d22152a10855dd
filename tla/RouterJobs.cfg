SPECIFICATION Spec
CONSTANTS
  Workers = {w1, w2}
  Peers = {p1, p2}
  IfNames = {"W0", "W1"}
  Owner <- MCOwner
  OwnerDns = {u1, o1}
  Upstreams = {u1, u2}
  Targets = {"wireguard", "dns_tls"}
  Names = {"a", "b", "A"}
  Slug <- MCSlug
  InitRegistries <- MCInitRegistries
  NoIf = NoIf
  Torn = Torn
  NoAnswer = NoAnswer
  MaxRequests = 3
  MaxBurst = 2
  MaxFaults = 1
SYMMETRY WorkerSymmetry
INVARIANTS TypeOK OwnerUntouched TunnelsAgree ImportSticks DnsSticks ComponentsHonest StatusLive
CHECK_DEADLOCK FALSE
