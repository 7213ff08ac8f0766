--------------------------------- MODULE L1 ---------------------------------
(***************************************************************************)
(* The Ethereum node behind etherman, seen from the one account agglayer   *)
(* sends from.  External: modelled from how etherman and the transaction   *)
(* manager use it.                                                         *)
(***************************************************************************)
EXTENDS MonitoredTx

CONSTANTS
  Faults,   \* which misbehaviours of the environment may happen
  MaxHead   \* bound: length of the chain

FaultKinds == {"rpc",      \* a call to the L1 node fails or its answer is lost
               "lookup",   \* the same for CheckTxWasMined
               "db",       \* a database call fails, its effect kept or not
               "crash",    \* the process dies and is restarted
               "drop",     \* the node evicts a pending transaction
               "revert",   \* a transaction is mined with a failed receipt
               "reorg"}    \* the newest block is replaced

ASSUME FaultsAssumption == Faults \subseteq FaultKinds
ASSUME MaxHeadAssumption == MaxHead \in Nat

VARIABLES
  pool,       \* pending transactions of the node, at most one per nonce
  receipts,   \* receipts of the mined transactions
  acctNonce,  \* next nonce the chain accepts from the account
  head,       \* number of the newest block
  sent        \* history variable: every transaction the node ever accepted

l1vars == <<pool, receipts, acctNonce, head, sent>>

Receipt == [tx : EthTx, ok : BOOLEAN, block : Nat]

L1TypeOK ==
  /\ pool \in SUBSET EthTx
  /\ receipts \in SUBSET Receipt
  /\ acctNonce \in Nat
  /\ head \in Nat
  /\ sent \in SUBSET EthTx

Mined(tx) == \E r \in receipts : r.tx = tx
Succeeded(tx) == \E r \in receipts : r.tx = tx /\ r.ok
FailedOnL1(tx) == \E r \in receipts : r.tx = tx /\ ~r.ok

(* eth_getTransactionByHash: pending or mined. *)
Known(tx) == tx \in pool \/ Mined(tx)

(* eth_getTransactionCount("pending"): n is the first nonce from the       *)
(* account's nonce on that no pending transaction uses.                    *)
IsPendingNonce(n) ==
  /\ n >= acctNonce
  /\ \A t \in pool : t.nonce # n
  /\ \A k \in acctNonce..(n - 1) : \E t \in pool : t.nonce = k

(* eth_sendRawTransaction: "nonce too low", "already known" and            *)
(* "replacement transaction underpriced" are the refusals.                 *)
Acceptable(tx) ==
  /\ tx.nonce >= acctNonce
  /\ \A t \in pool : t.nonce = tx.nonce => t.price < tx.price

Accept(tx) ==
  /\ pool' = {t \in pool : t.nonce # tx.nonce} \union {tx}
  /\ sent' = sent \union {tx}
  /\ UNCHANGED <<receipts, acctNonce, head>>

(* A block with the account's next transaction.  Any transaction that was  *)
(* ever accepted may be the one: replaced and evicted ones have been       *)
(* gossiped to other nodes.                                                *)
Mine ==
  /\ head < MaxHead
  /\ \E t \in sent, ok \in BOOLEAN :
       /\ t.nonce = acctNonce
       /\ ok \/ "revert" \in Faults
       /\ receipts' = receipts \union {[tx |-> t, ok |-> ok, block |-> head + 1]}
  /\ head' = head + 1
  /\ acctNonce' = acctNonce + 1
  /\ pool' = {t \in pool : t.nonce # acctNonce}
  /\ UNCHANGED sent

(* The node evicts a pending transaction. *)
Drop ==
  /\ "drop" \in Faults
  /\ \E t \in pool : pool' = pool \ {t}
  /\ UNCHANGED <<receipts, acctNonce, head, sent>>

(* The block of the account's last transaction is replaced by a longer     *)
(* branch without it; the transaction is pending again.  The bound leaves  *)
(* room for a block that mines it again.                                   *)
Reorg ==
  /\ "reorg" \in Faults
  /\ head + 1 < MaxHead
  /\ \E r \in receipts :
       /\ r.tx.nonce = acctNonce - 1
       /\ receipts' = receipts \ {r}
       /\ pool' = pool \union {r.tx}
  /\ acctNonce' = acctNonce - 1
  /\ head' = head + 1
  /\ UNCHANGED sent

L1Next == Mine \/ Drop \/ Reorg
=============================================================================
