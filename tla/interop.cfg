\* Callers with equal, twin and faulty transactions, answers that are lost,
\* and checks that are overtaken.  Requests are used up.
SPECIFICATION Spec
CONSTANTS
  anna = anna
  bert = bert
  s = s
  x = x
  y = y
  Txs <- MCTxs
  Reqs = {q1, q2}
  FullNodeRPCs = {1, 2}
  ProofSigners <- MCSigners
  Addrs = {anna, bert}
  Batches <- MCBatches
  ForcedGas = TRUE
  Width = 3
  Clients = {c1, c2}
  NoReq = NoReq
INVARIANTS
  TypeOK
  StoredIsSound
  AckedRowIsMine
  StoredIsAuthorised
  ConfirmedIsVerified
PROPERTIES
  ToldIsFinal
  UsesSettlement
SYMMETRY Names
CHECK_DEADLOCK FALSE
