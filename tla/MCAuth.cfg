SPECIFICATION Spec
CONSTANTS
  Setups = {s1}
  Cores = {c1, c2}
  MaxKeys = 3
  Faults = {"read", "write", "chmod", "rename", "remove", "kill"}
  Bytes = {0, 9, 10, 13, 31, 34, 48, 55, 56, 92, 110, 126, 127, 255}
  MaxKey = 3
INVARIANTS SuccessAgrees HeaderHoldsKey
PROPERTIES Repeatable MonitorKeyed
