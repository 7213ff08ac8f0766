\* Base 2: every spelling of every argument, prices below, at and above the limit,
\* and without a limit.
SPECIFICATION Spec
CONSTANTS
  Base = 2
  Width = 2
  HashLength = 2
  ProofLength = 2
  Rollups = {1, 2}
  Roots <- MCRoots
  Exits <- MCExits
  Proofs <- MCProofs
  MaxDigits = 4
  Suggestions = {1, 3, 4}
  Gases = {1, 2}
  MarginNum = 3
  MarginDen = 2
  Limits = {0, 3}
  GasOffset = 1
INVARIANTS
  TypeOK
  HashAgrees
  HashBindsFields
  CallCarriesProof
  ReloadRebuildsTx
CHECK_DEADLOCK FALSE
