SPECIFICATION Spec
CONSTANTS
  Workers = {w1}
  i1 = i1
  i2 = i2
  i3 = i3
  n1 = n1
  n2 = n2
  Ids = {i1, i2, i3}
  Names = {n1, n2}
  Ifs = {if1}
  NoIf = NoIf
  Subnets <- MCSubnets
  DefaultSubnet <- LargeSubnet
  BadSubnet = BadSubnet
  Torn = Torn
  NoIP = NoIP
  NoId = NoId
  InitLists <- MCInitLists
  MaxFaults = 1
  MaxRequests = 3
INVARIANTS QuiescentAgreement
PROPERTIES RemoveKeepsNeighbours AtomicRegistry
