\* Two rows, the second of which may wait for the first; crashes and
\* evictions.
SPECIFICATION FairSpec
CONSTANTS
  Ids = {a, b}
  Sigs = {s1}
  Reqs = {r1}
  Faults = {"crash", "drop"}
  MaxRetries = 3
  Legacy = {}
  GasOffset = 1
  ForcedGas = 0
  Gases = {1}
  Suggested = {1}
  MarginNum = 3
  MarginDen = 2
  MaxGasPriceLimit = 2
  MaxHead = 2
  MaxNonce = 2
PROPERTIES
  AckedIsSettled
