\* One row and every misbehaviour of node, database and process.
SPECIFICATION HSpec
CONSTANTS
  Ids = {a}
  Sigs = {s1}
  Reqs = {r1}
  Faults = {"rpc", "lookup", "db", "crash", "drop", "revert", "reorg"}
  MaxRetries = 3
  Legacy = {}
  GasOffset = 1
  ForcedGas = 0
  Gases = {1}
  Suggested = {1, 2}
  MarginNum = 3
  MarginDen = 2
  MaxGasPriceLimit = 2
  MaxHead = 3
  MaxNonce = 4
INVARIANTS
  TypeOK
  BroadcastRecorded
  SentWasBroadcast
  BoundedAttempts
  AckedIsDurable
  ConfirmedWasMined
  FailedHasCause
PROPERTIES
  TerminalIsFinal
  RowsOnlyAdvance
  ImplementsSettlementThroughReorgs
