SPECIFICATION Spec
CONSTANTS
  Workers = {w1}
  Peers = {p1, p2}
  IfNames = {"W0", "W1"}
  Owner <- MCOwner
  OwnerDns = {o1}
  Upstreams = {u2}
  Targets = {"wireguard"}
  Names = {"a", "b", "A"}
  Slug <- MCSlug
  InitRegistries <- MCMixedRegistries
  NoIf = NoIf
  Torn = Torn
  NoAnswer = NoAnswer
  MaxRequests = 3
  MaxBurst = 1
  MaxFaults = 1
INVARIANTS  TunnelsAgree
CHECK_DEADLOCK FALSE
