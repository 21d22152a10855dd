SPECIFICATION Spec
CONSTANTS
  k1 = k1
  k2 = k2
  k3 = k3
  k4 = k4
  k5 = k5
  k6 = k6
  k7 = k7
  k8 = k8
  Keys <- MCKeys
  Secret <- MCSecret
  Here = Here
  There = There
  Default = Default
  Torn = Torn
  Down = Down
  None = None
  NoFile = NoFile
  Placeholder = Placeholder
  Foreign = TRUE
  Workers = {w1, w2}
  MaxRequests = 3
  MaxFaults = 1
SYMMETRY WorkerSymmetry
INVARIANTS TypeOK PasswordsReadable RestoreSticks AwgKeyKept AwgSticks
CHECK_DEADLOCK FALSE
