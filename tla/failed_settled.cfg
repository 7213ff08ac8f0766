\* No misbehaviour at all: the limit is tested before the receipt.
SPECIFICATION Spec
CONSTANTS
  Ids = {a}
  Sigs = {s1}
  Reqs = {r1}
  Faults = {}
  MaxRetries = 3
  Legacy = {}
  GasOffset = 1
  ForcedGas = 0
  Gases = {1}
  Suggested = {1, 2}
  MarginNum = 3
  MarginDen = 2
  MaxGasPriceLimit = 2
  MaxHead = 3
  MaxNonce = 4
INVARIANTS
  FailedIsNotSettled
