\* Two callers with the same batch of two rollups.
SPECIFICATION Spec
CONSTANTS
  anna = anna
  bert = bert
  s = s
  x = x
  y = y
  Txs <- MCTxs
  Reqs = {q1, q2}
  FullNodeRPCs = {1, 2}
  ProofSigners <- MCSigners
  Addrs = {anna, bert}
  Batches <- MCBatches
  ForcedGas = TRUE
  Width = 3
  Clients = {c1, c2}
  NoReq = NoReq
INVARIANTS
  HashNamesTx
CHECK_DEADLOCK FALSE
