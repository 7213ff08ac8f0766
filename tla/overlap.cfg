\* Two requests, also for the same id, against the goroutines of a new row and
\* of one of a release without num_retries; lost answers, reverts and crashes.
SPECIFICATION Spec
CONSTANTS
  Ids = {a, b}
  Sigs = {s1}
  Reqs = {r1, r2}
  Faults = {"crash", "revert", "rpc"}
  MaxRetries = 2
  Legacy = {a}
  GasOffset = 1
  ForcedGas = 0
  Gases = {1}
  Suggested = {1}
  MarginNum = 3
  MarginDen = 2
  MaxGasPriceLimit = 2
  MaxHead = 2
  MaxNonce = 4
INVARIANTS
  CopyIsCurrent
  BoundedAttempts
PROPERTIES
  TerminalIsFinal
  RowsOnlyAdvance
  ImplementsSettlement
SYMMETRY ReqSymmetry
