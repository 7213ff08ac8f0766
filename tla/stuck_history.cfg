\* A raised fee and a revert.
SPECIFICATION FairSpec
CONSTANTS
  Ids = {a}
  Sigs = {s1}
  Reqs = {r1}
  Faults = {"revert"}
  MaxRetries = 3
  Legacy = {}
  GasOffset = 1
  ForcedGas = 0
  Gases = {1}
  Suggested = {1, 2}
  MarginNum = 3
  MarginDen = 2
  MaxGasPriceLimit = 2
  MaxHead = 4
  MaxNonce = 4
PROPERTIES
  NotMonitoredForever
