\* What confirmed and failed mean as long as the chain is not reorganised,
\* with failing calls except the lookups of the history, and with a signer
\* that gives a payload more than one signature.
SPECIFICATION Spec
CONSTANTS
  Ids = {a}
  Sigs = {s1, s2}
  Reqs = {r1}
  Faults = {"rpc", "db", "crash", "drop", "revert"}
  MaxRetries = 4
  Legacy = {}
  GasOffset = 1
  ForcedGas = 2
  Gases = {1}
  Suggested = {1, 2}
  MarginNum = 3
  MarginDen = 2
  MaxGasPriceLimit = 0
  MaxHead = 4
  MaxNonce = 4
INVARIANTS
  ConfirmedMeansMined
  FailedIsOutOfRetries
  NoDuplicateData
