-------------------------- MODULE TxManager_proofs --------------------------
(***************************************************************************)
(* Proofs about TxManager for every set of ids, requests and signatures,   *)
(* every configuration and every combination of faults.                    *)
(***************************************************************************)
EXTENDS TxManager, FiniteSetTheorems, TLAPS

---------------------------------------------------------------------------
(* Facts about the operators of the model.                                 *)

(* The absence of a row is a row. *)
LEMMA NoRowType == NoRow \in Row
  <1>1. {} \in Histories
    BY FS_EmptySet DEF Histories
  <1> QED
    BY <1>1 DEF NoRow, Row, Statuses

(* The records of goroutines that hold no receipt are well typed. *)
LEMMA RestTypes ==
  /\ IdleReq \in Requesting
  /\ IdleMon \in Monitoring
  /\ \A pc \in MonPCs, m \in Row : AtRest(pc, m) \in Monitoring
  <1>1. (CHOOSE i \in Ids : TRUE) \in Ids
    BY IdsAssumption
  <1>2. (CHOOSE s \in Sigs : TRUE) \in Sigs
    BY SigsAssumption
  <1>3. IdleReq \in Requesting
    BY <1>1, NoRowType DEF IdleReq, Adding, Requesting, ReqPCs
  <1>4. ASSUME NEW pc \in MonPCs, NEW m \in Row
        PROVE  AtRest(pc, m) \in Monitoring
    BY <1>2 DEF AtRest, Monitoring, Seen, NoReceipt
  <1>5. IdleMon \in Monitoring
    BY <1>4, NoRowType DEF IdleMon, MonPCs
  <1> QED
    BY <1>3, <1>4, <1>5

(* suggestedGasPrice yields a gas price. *)
LEMMA PriceType ==
  ASSUME NEW p \in Nat
  PROVE  SuggestedGasPrice(p) \in Nat
  <1>1. p * MarginNum \in Nat
    BY MarginAssumption
  <1>2. (p * MarginNum) \div MarginDen \in Nat
    BY <1>1, MarginAssumption
  <1> QED
    BY <1>2, LimitAssumption DEF SuggestedGasPrice, LimitedGasPrice

(* A signed transaction of a row is a transaction. *)
LEMMA TxType ==
  ASSUME NEW i \in Ids, NEW m \in Row, NEW s \in Sigs
  PROVE  Tx(i, m, s) \in EthTx
  <1> QED
    BY GasOffsetAssumption DEF Tx, EthTx, Row

(* AddHistory keeps the row well typed. *)
LEMMA AddHistoryType ==
  ASSUME NEW m \in Row, NEW tx \in EthTx
  PROVE  /\ AddHistory(m, tx) \in Row
         /\ AddHistory(m, tx).history = m.history \union {tx}
  <1>1. m.history \union {tx} \in Histories
    BY FS_AddElement DEF Row, Histories
  <1>2. m.retries + 1 \in Nat
    BY DEF Row
  <1> QED
    BY <1>1, <1>2 DEF AddHistory, Row

(* Loading a row keeps it well typed and changes nothing but the retries,  *)
(* which do not decrease.                                                  *)
LEMMA LoadRowType ==
  ASSUME NEW row \in Row
  PROVE  /\ LoadRow(row) \in Row
         /\ LoadRow(row).retries >= row.retries
         /\ LoadRow(row) = [row EXCEPT !.retries = LoadRow(row).retries]
  <1>1. Cardinality(row.history) \in Nat
    BY FS_CardinalityType DEF Row, Histories
  <1> QED
    BY <1>1 DEF LoadRow, Row

(* What storage.Update does to the types. *)
LEMMA UpdateType ==
  ASSUME TypeOK, NEW i \in Ids, NEW m \in Row, NEW next \in Monitoring,
         Update(i, m, next)
  PROVE  db' \in [Ids -> Row] /\ mon' \in [Ids -> Monitoring]
  <1> QED
    BY RestTypes DEF Update, Idle, TypeOK

(* The node's steps keep its state well typed. *)
LEMMA AcceptType ==
  ASSUME L1TypeOK, NEW tx \in EthTx, Accept(tx)
  PROVE  L1TypeOK'
  <1> QED
    BY DEF L1TypeOK, Accept

LEMMA NodeType ==
  ASSUME L1TypeOK, L1Next
  PROVE  L1TypeOK'
  <1>1. CASE Mine
    <2>1. PICK t \in sent, ok \in BOOLEAN :
            receipts' = receipts \union {[tx |-> t, ok |-> ok, block |-> head + 1]}
      BY <1>1 DEF Mine
    <2>2. [tx |-> t, ok |-> ok, block |-> head + 1] \in Receipt
      BY DEF L1TypeOK, Receipt
    <2> QED
      BY <1>1, <2>1, <2>2 DEF Mine, L1TypeOK
  <1>2. CASE Drop
    BY <1>2 DEF Drop, L1TypeOK
  <1>3. CASE Reorg
    <2>1. PICK r \in receipts :
            /\ r.tx.nonce = acctNonce - 1
            /\ receipts' = receipts \ {r}
            /\ pool' = pool \union {r.tx}
      BY <1>3 DEF Reorg
    <2>2. r.tx \in EthTx
      BY DEF L1TypeOK, Receipt
    <2>3. acctNonce - 1 \in Nat
      BY <2>1, <2>2 DEF EthTx
    <2> QED
      BY <1>3, <2>1, <2>2, <2>3 DEF Reorg, L1TypeOK
  <1> QED
    BY <1>1, <1>2, <1>3 DEF L1Next

---------------------------------------------------------------------------
(* Type correctness.                                                       *)

(* The table, the goroutines and the node start well typed. *)
LEMMA InitType == Init => TypeOK
  <1> SUFFICES ASSUME Init PROVE TypeOK
    OBVIOUS
  <1>1. req \in [Reqs -> Requesting] /\ mon \in [Ids -> Monitoring] /\ acked \subseteq Ids
    BY RestTypes DEF Init
  <1>2. receipts \in SUBSET Receipt /\ acctNonce \in Nat /\ head \in Nat
    BY DEF Init
  <1>3. CASE db = [i \in Ids |-> NoRow] /\ pool = {} /\ sent = {}
    BY <1>1, <1>2, <1>3, NoRowType DEF TypeOK, L1TypeOK
  <1>4. ASSUME NEW tx \in LegacyTxs,
               db = [i \in Ids |-> IF i = tx.id THEN LegacyRow(i, tx) ELSE NoRow],
               pool = {tx}, sent = {tx}
        PROVE  TypeOK
    <2>1. tx \in EthTx
      BY GasOffsetAssumption, LegacyAssumption DEF LegacyTxs, EthTx
    <2>2. {tx} \in Histories
      BY <2>1, FS_Singleton DEF Histories
    <2>3. \A i \in Ids : LegacyRow(i, tx) \in Row
      BY <2>2, NoRowType DEF LegacyRow, Row, Statuses
    <2>4. db \in [Ids -> Row]
      BY <1>4, <2>3, NoRowType
    <2> QED
      BY <1>1, <1>2, <1>4, <2>1, <2>4 DEF TypeOK, L1TypeOK
  <1> QED
    BY <1>3, <1>4 DEF Init

(* The steps of a request keep the types. *)
LEMMA SendTxType ==
  ASSUME TypeOK, NEW r \in Reqs, SendTx(r)
  PROVE  TypeOK'
  <1> USE DEF TypeOK
  <1>1. ASSUME NEW i \in Ids, AddReadCreated(r, i)
        PROVE  TypeOK'
    <2>1. \A n \in 0..MaxNonce :
            Adding("insert", i, [NoRow EXCEPT !.nonce = n]) \in Requesting
      BY NoRowType, MaxNonceAssumption DEF Adding, Requesting, ReqPCs, Row
    <2>2. Adding("pending", i, NoRow) \in Requesting
      BY NoRowType DEF Adding, Requesting, ReqPCs
    <2> QED
      BY <1>1, <2>1, <2>2 DEF AddReadCreated, l1vars, L1TypeOK
  <1>2. CASE AddPendingNonce(r)
    <2>1. \A n \in 0..MaxNonce :
            Adding("insert", req[r].id, [NoRow EXCEPT !.nonce = n]) \in Requesting
      BY NoRowType, MaxNonceAssumption DEF Adding, Requesting, ReqPCs, Row
    <2> QED
      BY <1>2, <2>1 DEF AddPendingNonce, l1vars, L1TypeOK
  <1>3. CASE AddInsert(r)
    <2>1. CASE req' = [req EXCEPT ![r] = IdleReq]
      BY <1>3, <2>1, RestTypes DEF AddInsert, l1vars, L1TypeOK
    <2>2. ASSUME NEW g \in GasOfNewRow(req[r].id), NEW p \in Suggested,
                 req' = [req EXCEPT ![r] =
                           Adding("commit", req[r].id,
                                  NewRow(req[r].row.nonce, g, SuggestedGasPrice(p)))]
          PROVE  TypeOK'
      <3>1. g \in Nat
        BY GasAssumption DEF GasOfNewRow
      <3>2. SuggestedGasPrice(p) \in Nat
        BY PriceType, SuggestedAssumption
      <3>3. NewRow(req[r].row.nonce, g, SuggestedGasPrice(p)) \in Row
        BY <3>1, <3>2, NoRowType DEF NewRow, Requesting, Row, Statuses
      <3>4. Adding("commit", req[r].id, NewRow(req[r].row.nonce, g, SuggestedGasPrice(p)))
              \in Requesting
        BY <3>3 DEF Adding, Requesting, ReqPCs
      <3> QED
        BY <1>3, <2>2, <3>4 DEF AddInsert, l1vars, L1TypeOK
    <2> QED
      BY <1>3, <2>1, <2>2 DEF AddInsert
  <1>4. CASE AddFail(r)
    BY <1>4, RestTypes DEF AddFail, l1vars, L1TypeOK
  <1>5. CASE Commit(r)
    BY <1>5, RestTypes DEF Commit, Requesting, l1vars, L1TypeOK
  <1>6. CASE CommitFail(r)
    BY <1>6, RestTypes DEF CommitFail, Requesting, l1vars, L1TypeOK
  <1> QED
    BY <1>1, <1>2, <1>3, <1>4, <1>5, <1>6 DEF SendTx, Settle

(* A new cycle loads well-typed copies of the rows. *)
LEMMA MonitorTxsType ==
  ASSUME TypeOK, monitorTxs
  PROVE  TypeOK'
  <1>1. \A i \in Ids :
          [AtRest("check", LoadRow(db[i])) EXCEPT !.todo = db[i].history] \in Monitoring
    <2> SUFFICES ASSUME NEW i \in Ids
                 PROVE  [AtRest("check", LoadRow(db[i])) EXCEPT !.todo = db[i].history]
                          \in Monitoring
      OBVIOUS
    <2>1. LoadRow(db[i]) \in Row
      BY LoadRowType DEF TypeOK
    <2>2. AtRest("check", LoadRow(db[i])) \in Monitoring
      BY <2>1, RestTypes DEF MonPCs
    <2>3. db[i].history \in SUBSET EthTx
      BY DEF TypeOK, Row, Histories
    <2> QED
      BY <2>2, <2>3 DEF Monitoring
  <1> QED
    BY <1>1, RestTypes DEF monitorTxs, TypeOK, l1vars, L1TypeOK

(* Every step of a monitorTx goroutine keeps the types. *)
LEMMA MonitorTxType ==
  ASSUME TypeOK, NEW i \in Ids, monitorTx(i)
  PROVE  TypeOK'
  <1> USE DEF TypeOK
  <1>0. /\ mon[i] \in Monitoring /\ mon[i].m \in Row /\ mon[i].sig \in Sigs
        /\ mon[i].seen \in Seen
    BY DEF Monitoring
  <1>1. CASE CheckHistory(i)
    <2>1. \A rc \in receipts : rc.block \in Nat
      BY DEF L1TypeOK, Receipt
    <2>2. PICK t \in mon[i].todo :
            \/ mon' = [mon EXCEPT ![i].todo = @ \ {t}]
            \/ mon' = [mon EXCEPT ![i].todo = @ \ {t}, ![i].allMined = FALSE]
            \/ \E rc \in receipts :
                 \/ mon' = [mon EXCEPT ![i].todo = {},
                                       ![i].seen = [ok |-> TRUE, block |-> rc.block]]
                 \/ mon' = [mon EXCEPT ![i].todo = @ \ {t}, ![i].anyFailed = TRUE]
      BY <1>1 DEF CheckHistory
    <2>3. \A rc \in receipts : [ok |-> TRUE, block |-> rc.block] \in Seen
      BY <2>1 DEF Seen
    <2>4. mon' \in [Ids -> Monitoring]
      BY <1>0, <2>2, <2>3 DEF Monitoring
    <2> QED
      BY <1>1, <2>4 DEF CheckHistory, l1vars, L1TypeOK
  <1>2. ASSUME NEW n \in 0..MaxNonce, AdoptNonce(i, n)
        PROVE  mon' \in [Ids -> Monitoring]
    <2> DEFINE m == [mon[i].m EXCEPT !.nonce = Larger(n, mon[i].m.nonce)]
    <2>1. m \in Row
      BY <1>0, MaxNonceAssumption DEF Row, Larger
    <2>2. [mon[i] EXCEPT !.pc = "saveNonce", !.m = m] \in Monitoring
      BY <1>0, <2>1 DEF Monitoring, MonPCs
    <2> QED
      BY <1>2, <2>2 DEF AdoptNonce
  <1>3. ASSUME NEW pc \in MonPCs, Goto(i, pc)
        PROVE  mon' \in [Ids -> Monitoring]
    BY <1>0, <1>3 DEF Goto, Monitoring
  <1>4. Idle(i) => mon' \in [Ids -> Monitoring]
    BY RestTypes DEF Idle
  <1>5. CASE ReviewNonceReadCreated(i)
    BY <1>2, <1>3, <1>4, <1>5 DEF ReviewNonceReadCreated, MonPCs, l1vars, L1TypeOK
  <1>6. CASE ReviewNoncePending(i)
    BY <1>2, <1>4, <1>6 DEF ReviewNoncePending, l1vars, L1TypeOK
  <1>7. CASE SaveNonce(i)
    <2>1. [mon[i] EXCEPT !.pc = "resume"] \in Monitoring
      BY <1>0 DEF Monitoring, MonPCs
    <2> QED
      BY <1>0, <1>7, <2>1, UpdateType DEF SaveNonce, l1vars, L1TypeOK
  <1>8. CASE GiveUp(i)
    <2>1. [mon[i].m EXCEPT !.status = "failed"] \in Row
      BY <1>0 DEF Row, Statuses
    <2> QED
      BY <1>8, <2>1, RestTypes, UpdateType DEF GiveUp, l1vars, L1TypeOK
  <1>9. CASE FoundConfirmed(i)
    <2>1. AtRest("finish", mon[i].m) \in Monitoring
      BY <1>0, RestTypes DEF MonPCs
    <2>2. [AtRest("finish", mon[i].m) EXCEPT !.seen = mon[i].seen] \in Monitoring
      BY <1>0, <2>1 DEF Monitoring
    <2> QED
      BY <1>9, <2>2 DEF FoundConfirmed, l1vars, L1TypeOK
  <1>10. CASE NewAttempt(i)
    <2>1. AtRest("sign", mon[i].m) \in Monitoring
      BY <1>0, RestTypes DEF MonPCs
    <2> QED
      BY <1>10, <2>1, RestTypes DEF NewAttempt, l1vars, L1TypeOK
  <1>11. CASE ReviewMonitoredTx(i)
    <2> DEFINE m == mon[i].m
               withGas(g) == [m EXCEPT !.gas = Larger(g, m.gas)]
               retried(n) == [n EXCEPT !.retries = n.retries + 1]
               priced(g, p) == [withGas(g) EXCEPT
                                  !.price = Larger(SuggestedGasPrice(p), withGas(g).price)]
    <2>1. \A g \in Gases : withGas(g) \in Row
      BY <1>0, GasAssumption DEF Row, Larger
    <2>2. \A n \in Row : retried(n) \in Row
      BY DEF Row
    <2>3. \A g \in Gases, p \in Suggested : priced(g, p) \in Row
      <3> SUFFICES ASSUME NEW g \in Gases, NEW p \in Suggested
                   PROVE  priced(g, p) \in Row
        OBVIOUS
      <3>1. SuggestedGasPrice(p) \in Nat
        BY PriceType, SuggestedAssumption
      <3>2. \A w \in Row : [w EXCEPT !.price = Larger(SuggestedGasPrice(p), w.price)] \in Row
        BY <3>1 DEF Row, Larger
      <3> QED
        BY <2>1, <3>2
    <2>4. \A n \in Row : AtRest("sign", n) \in Monitoring
      BY RestTypes DEF MonPCs
    <2>5. \/ \E g \in Gases, p \in Suggested :
               Update(i, priced(g, p), AtRest("sign", priced(g, p)))
          \/ Update(i, retried(m), IdleMon)
          \/ \E g \in Gases : Update(i, retried(withGas(g)), IdleMon)
      BY <1>11 DEF ReviewMonitoredTx
    <2>6. db' \in [Ids -> Row] /\ mon' \in [Ids -> Monitoring]
      <3> HIDE DEF m, withGas, retried, priced
      <3>1. m \in Row
        BY <1>0 DEF m
      <3> QED
        BY <2>1, <2>2, <2>3, <2>4, <2>5, <3>1, RestTypes, UpdateType
    <2> QED
      BY <1>11, <2>6 DEF ReviewMonitoredTx, l1vars, L1TypeOK
  <1>12. CASE Sign(i)
    <2>1. CASE Idle(i) /\ UNCHANGED db
      BY <1>4, <1>12, <2>1 DEF Sign, l1vars, L1TypeOK
    <2>2. ASSUME NEW s \in Sigs, NEW tx, NEW n,
                 tx = Tx(i, mon[i].m, s), n = AddHistory(mon[i].m, tx),
                 \/ /\ mon' = [mon EXCEPT ![i] = [AtRest("getTx", mon[i].m) EXCEPT !.sig = s]]
                    /\ UNCHANGED db
                 \/ Update(i, n, [AtRest("getTx", n) EXCEPT !.sig = s])
          PROVE  TypeOK'
      <3>1. n \in Row
        BY <1>0, <2>2, TxType, AddHistoryType
      <3>2. \A k \in Row : [AtRest("getTx", k) EXCEPT !.sig = s] \in Monitoring
        <4>1. \A k \in Row : AtRest("getTx", k) \in Monitoring
          BY RestTypes DEF MonPCs
        <4> QED
          BY <4>1 DEF Monitoring
      <3>3. db' \in [Ids -> Row] /\ mon' \in [Ids -> Monitoring]
        BY <1>0, <2>2, <3>1, <3>2, UpdateType
      <3> QED
        BY <1>12, <3>3 DEF Sign, l1vars, L1TypeOK
    <2> QED
      BY <1>12, <2>1, <2>2 DEF Sign
  <1>13. CASE GetTx(i)
    BY <1>3, <1>13 DEF GetTx, MonPCs, l1vars, L1TypeOK
  <1>14. CASE SendToNetwork(i)
    <2>1. SignedTx(i) \in EthTx
      BY <1>0, TxType DEF SignedTx
    <2>2. L1TypeOK'
      BY <1>14, <2>1, AcceptType DEF SendToNetwork, l1vars, L1TypeOK
    <2>3. mon' \in [Ids -> Monitoring]
      BY <1>3, <1>4, <1>14 DEF SendToNetwork, MonPCs
    <2> QED
      BY <1>14, <2>2, <2>3 DEF SendToNetwork
  <1>15. CASE MarkSent(i)
    <2>1. [mon[i].m EXCEPT !.status = "sent"] \in Row
      BY <1>0 DEF Row, Statuses
    <2>2. \A n \in Row : [mon[i] EXCEPT !.pc = "wait", !.m = n] \in Monitoring
      BY <1>0 DEF Monitoring, MonPCs
    <2> QED
      BY <1>15, <2>1, <2>2, UpdateType DEF MarkSent, l1vars, L1TypeOK
  <1>16. CASE WaitTxToBeMined(i)
    BY <1>3, <1>4, <1>16 DEF WaitTxToBeMined, MonPCs, l1vars, L1TypeOK
  <1>17. CASE GetTxReceipt(i)
    <2>1. \A rc \in receipts : [ok |-> rc.ok, block |-> rc.block] \in Seen
      BY DEF L1TypeOK, Receipt, Seen
    <2>2. mon' \in [Ids -> Monitoring]
      BY <1>0, <1>4, <1>17, <2>1 DEF GetTxReceipt, Monitoring, MonPCs
    <2> QED
      BY <1>17, <2>2 DEF GetTxReceipt, l1vars, L1TypeOK
  <1>18. CASE Finish(i)
    <2>1. \A st \in Statuses :
            [mon[i].m EXCEPT !.status = st, !.block = mon[i].seen.block] \in Row
      BY <1>0 DEF Row, Seen
    <2>2. db' \in [Ids -> Row] /\ mon' \in [Ids -> Monitoring]
      BY <1>4, <1>18, <2>1, RestTypes, UpdateType DEF Finish, Statuses
    <2> QED
      BY <1>18, <2>2 DEF Finish, l1vars, L1TypeOK
  <1> QED
    BY <1>1, <1>5, <1>6, <1>7, <1>8, <1>9, <1>10, <1>11, <1>12, <1>13, <1>14,
       <1>15, <1>16, <1>17, <1>18 DEF monitorTx

(* Type correctness is inductive. *)
LEMMA NextType == TypeOK /\ [Next]_vars => TypeOK'
  <1> SUFFICES ASSUME TypeOK, [Next]_vars PROVE TypeOK'
    OBVIOUS
  <1>1. CASE \E r \in Reqs : SendTx(r)
    BY <1>1, SendTxType
  <1>2. CASE monitorTxs
    BY <1>2, MonitorTxsType
  <1>3. CASE \E i \in Ids : monitorTx(i)
    BY <1>3, MonitorTxType
  <1>4. CASE Crash
    BY <1>4, RestTypes DEF Crash, TypeOK, l1vars, L1TypeOK
  <1>5. CASE NodeStep
    BY <1>5, NodeType DEF NodeStep, TypeOK
  <1>6. CASE UNCHANGED vars
    BY <1>6 DEF vars, l1vars, TypeOK, L1TypeOK
  <1> QED
    BY <1>1, <1>2, <1>3, <1>4, <1>5, <1>6 DEF Next, Work

(* The table, the goroutines' variables and the node's state always have   *)
(* their types: whatever requests, monitor, faults and node do.            *)
THEOREM TypeCorrect == Spec => []TypeOK
  <1> QED
    BY InitType, NextType, PTL DEF Spec

---------------------------------------------------------------------------
(* Safety.  SafetyInv is inductive: CopyIsCurrent makes the whole-row      *)
(* Update harmless, SignedIsStored puts the hash into the table before     *)
(* SendTx, and AddedRowsAreNew keeps a commit from replacing a row.        *)

(* A step that only moves one goroutine. *)
LEMMA LocalStep ==
  ASSUME SafetyInv, TypeOK', NEW i \in Ids, NEW x,
         mon' = [mon EXCEPT ![i] = x],
         UNCHANGED <<db, req, sent>>,
         x.pc # "idle" => IsCopyOf(x.m, db[i]),
         x.pc \in {"getTx", "send"} => Tx(i, x.m, x.sig) \in db[i].history
  PROVE  SafetyInv'
  <1>1. mon'[i] = x /\ \A j \in Ids \ {i} : mon'[j] = mon[j]
    BY DEF SafetyInv, TypeOK
  <1>2. AddedRowsAreNew' /\ AbsentRowsAreEmpty' /\ BroadcastRecorded'
    BY DEF SafetyInv, AddedRowsAreNew, AbsentRowsAreEmpty, BroadcastRecorded
  <1>3. CopyIsCurrent'
    BY <1>1 DEF SafetyInv, CopyIsCurrent
  <1>4. SignedIsStored'
    BY <1>1 DEF SafetyInv, SignedIsStored, SignedTx
  <1> QED
    BY <1>2, <1>3, <1>4 DEF SafetyInv

(* A step that stores the goroutine's copy m of the row. *)
LEMMA StoreStep ==
  ASSUME SafetyInv, TypeOK', NEW i \in Ids, NEW m \in Row, NEW next,
         mon[i].pc # "idle",
         Update(i, m, next),
         UNCHANGED <<req, sent>>,
         m.status # "none",
         db[i].history \subseteq m.history,
         next.pc # "idle" => IsCopyOf(next.m, m),
         next.pc \in {"getTx", "send"} => Tx(i, next.m, next.sig) \in m.history
  PROVE  SafetyInv'
  <1> USE DEF SafetyInv
  <1>1. db[i].status # "none"
    BY DEF CopyIsCurrent, IsCopyOf, Monitored
  <1>2. /\ \A j \in Ids \ {i} : db'[j] = db[j] /\ mon'[j] = mon[j]
        /\ \/ db'[i] = m /\ mon'[i] = next
           \/ db'[i] \in {db[i], m} /\ mon'[i] = IdleMon
    BY DEF Update, Idle, TypeOK
  <1>3. IdleMon.pc = "idle"
    BY DEF IdleMon, AtRest
  <1>4. AddedRowsAreNew'
    BY <1>1, <1>2 DEF AddedRowsAreNew, TypeOK, Requesting
  <1>5. AbsentRowsAreEmpty'
    BY <1>1, <1>2 DEF AbsentRowsAreEmpty
  <1>6. CopyIsCurrent'
    BY <1>2, <1>3 DEF CopyIsCurrent
  <1>7. SignedIsStored'
    BY <1>2, <1>3 DEF SignedIsStored, SignedTx
  <1>8. BroadcastRecorded'
    <2> SUFFICES ASSUME NEW t \in sent PROVE t \in db'[t.id].history
      BY DEF BroadcastRecorded
    <2>1. t.id \in Ids /\ t \in db[t.id].history
      BY DEF BroadcastRecorded, TypeOK, L1TypeOK, EthTx
    <2> QED
      BY <1>2, <2>1
  <1> QED
    BY <1>4, <1>5, <1>6, <1>7, <1>8

(* SafetyInv holds when the process first starts. *)
LEMMA InitSafety == Init => SafetyInv
  <1> SUFFICES ASSUME Init PROVE SafetyInv
    OBVIOUS
  <1>1. TypeOK
    BY InitType
  <1>2. AddedRowsAreNew /\ CopyIsCurrent /\ SignedIsStored
    BY DEF Init, AddedRowsAreNew, CopyIsCurrent, SignedIsStored, IdleReq, Adding,
           IdleMon, AtRest
  <1>3. AbsentRowsAreEmpty /\ BroadcastRecorded
    <2>1. CASE db = [i \in Ids |-> NoRow] /\ sent = {}
      BY <2>1 DEF AbsentRowsAreEmpty, BroadcastRecorded, NoRow
    <2>2. ASSUME NEW tx \in LegacyTxs, sent = {tx},
                 db = [i \in Ids |-> IF i = tx.id THEN LegacyRow(i, tx) ELSE NoRow]
          PROVE  AbsentRowsAreEmpty /\ BroadcastRecorded
      <3>1. tx.id \in Ids
        BY LegacyAssumption DEF LegacyTxs
      <3>2. \A i \in Ids : LegacyRow(i, tx).status = "sent" /\ LegacyRow(i, tx).history = {tx}
        BY DEF LegacyRow, NoRow
      <3> QED
        BY <2>2, <3>1, <3>2 DEF AbsentRowsAreEmpty, BroadcastRecorded, NoRow
    <2> QED
      BY <2>1, <2>2 DEF Init
  <1> QED
    BY <1>1, <1>2, <1>3 DEF SafetyInv

(* Requests keep SafetyInv: a commit fills a row that is absent, so no     *)
(* goroutine holds a copy of it and nothing was broadcast for it.          *)
LEMMA SendTxSafety ==
  ASSUME SafetyInv, TypeOK', NEW r \in Reqs, SendTx(r)
  PROVE  SafetyInv'
  <1> USE DEF SafetyInv
  <1>1. ASSUME NEW x, req' = [req EXCEPT ![r] = x],
               x.pc = "commit" =>
                 /\ db[x.id].status = "none"
                 /\ x.row.status = "created"
                 /\ \A q \in Reqs : ~(req[q].pc = "commit" /\ req[q].id = x.id),
               UNCHANGED <<db, mon, l1vars>>
        PROVE  SafetyInv'
    <2>1. req'[r] = x /\ \A q \in Reqs \ {r} : req'[q] = req[q]
      BY <1>1 DEF TypeOK
    <2>2. AddedRowsAreNew'
      BY <1>1, <2>1 DEF AddedRowsAreNew
    <2> QED
      BY <1>1, <2>2 DEF AbsentRowsAreEmpty, CopyIsCurrent, SignedIsStored, SignedTx,
                        BroadcastRecorded, l1vars
  <1>2. IdleReq.pc = "idle"
    BY DEF IdleReq, Adding
  <1>3. ASSUME NEW i \in Ids, AddReadCreated(r, i) PROVE SafetyInv'
    BY <1>1, <1>3 DEF AddReadCreated, Adding
  <1>4. CASE AddPendingNonce(r)
    BY <1>1, <1>4 DEF AddPendingNonce, Adding
  <1>5. CASE AddInsert(r)
    <2>1. CASE req' = [req EXCEPT ![r] = IdleReq]
      BY <1>1, <1>2, <1>5, <2>1 DEF AddInsert
    <2>2. ASSUME NEW g, NEW p, db[req[r].id].status = "none",
                 req' = [req EXCEPT ![r] =
                           Adding("commit", req[r].id,
                                  NewRow(req[r].row.nonce, g, SuggestedGasPrice(p)))]
          PROVE  SafetyInv'
      <3>1. NewRow(req[r].row.nonce, g, SuggestedGasPrice(p)).status = "created"
        BY DEF NewRow, NoRow
      <3> QED
        BY <1>1, <1>5, <2>2, <3>1 DEF AddInsert, KeyLocked, Adding
    <2> QED
      BY <1>5, <2>1, <2>2 DEF AddInsert, KeyTaken
  <1>6. CASE AddFail(r)
    BY <1>1, <1>2, <1>6 DEF AddFail
  <1>7. ASSUME req[r].pc = "commit",
               db' \in {db, [db EXCEPT ![req[r].id] = req[r].row]},
               req' = [req EXCEPT ![r] = IdleReq],
               UNCHANGED <<mon, l1vars>>
        PROVE  SafetyInv'
    <2> DEFINE i == req[r].id
    <2>1. /\ i \in Ids /\ db[i].status = "none" /\ db[i].history = {}
          /\ req[r].row.status = "created"
      BY <1>7 DEF TypeOK, Requesting, AddedRowsAreNew, AbsentRowsAreEmpty
    <2>2. mon[i].pc = "idle" /\ \A t \in sent : t.id # i
      BY <2>1 DEF CopyIsCurrent, IsCopyOf, Monitored, BroadcastRecorded
    <2>3. /\ \A j \in Ids \ {i} : db'[j] = db[j]
          /\ db'[i] = db[i] \/ db'[i].status = "created"
          /\ req'[r].pc = "idle" /\ \A q \in Reqs \ {r} : req'[q] = req[q]
      BY <1>2, <1>7, <2>1 DEF TypeOK
    <2>4. AddedRowsAreNew'
      <3>1. \A q \in Reqs \ {r} : req[q].pc = "commit" => req[q].id \in Ids \ {i}
        BY <1>7 DEF AddedRowsAreNew, TypeOK, Requesting
      <3> QED
        BY <2>3, <3>1 DEF AddedRowsAreNew
    <2>5. AbsentRowsAreEmpty'
      BY <2>3 DEF AbsentRowsAreEmpty
    <2>6. CopyIsCurrent' /\ SignedIsStored'
      BY <1>7, <2>2, <2>3 DEF CopyIsCurrent, SignedIsStored, SignedTx
    <2>7. BroadcastRecorded'
      BY <1>7, <2>2, <2>3 DEF BroadcastRecorded, TypeOK, L1TypeOK, EthTx, l1vars
    <2> QED
      BY <2>4, <2>5, <2>6, <2>7
  <1>8. CASE Commit(r)
    BY <1>7, <1>8 DEF Commit
  <1>9. CASE CommitFail(r)
    BY <1>7, <1>9 DEF CommitFail
  <1> QED
    BY <1>3, <1>4, <1>5, <1>6, <1>8, <1>9 DEF SendTx, Settle

(* A new cycle starts from the stored rows. *)
LEMMA MonitorTxsSafety ==
  ASSUME SafetyInv, TypeOK', monitorTxs
  PROVE  SafetyInv'
  <1> USE DEF SafetyInv
  <1>1. PICK S \in SUBSET Unfinished :
          mon' = [i \in Ids |->
                    IF i \in S
                    THEN [AtRest("check", LoadRow(db[i])) EXCEPT !.todo = db[i].history]
                    ELSE IdleMon]
    BY DEF monitorTxs
  <1>2. ASSUME NEW i \in Ids
        PROVE  /\ mon'[i].pc # "idle" => IsCopyOf(mon'[i].m, db[i])
               /\ mon'[i].pc \notin {"getTx", "send"}
    <2>1. CASE i \in S
      <3>1. mon'[i].pc = "check" /\ mon'[i].m = LoadRow(db[i])
        BY <1>1, <2>1 DEF AtRest
      <3>2. IsCopyOf(LoadRow(db[i]), db[i])
        <4> DEFINE n == LoadRow(db[i])
        <4>1. db[i] \in Row
          BY DEF TypeOK
        <4>2. n.retries >= db[i].retries /\ n = [db[i] EXCEPT !.retries = n.retries]
          BY <4>1, LoadRowType
        <4>3. db[i].status \in Monitored
          BY <2>1 DEF Unfinished
        <4> HIDE DEF n
        <4>4. /\ n.status = db[i].status /\ n.history = db[i].history
              /\ n.gas = db[i].gas /\ n.price = db[i].price /\ n.nonce = db[i].nonce
          BY <4>1, <4>2 DEF Row
        <4>5. IsCopyOf(n, db[i])
          BY <4>1, <4>2, <4>3, <4>4 DEF IsCopyOf, Row
        <4> QED
          BY <4>5 DEF n
      <3> QED
        BY <3>1, <3>2
    <2>2. CASE i \notin S
      BY <1>1, <2>2 DEF IdleMon, AtRest
    <2> QED
      BY <2>1, <2>2
  <1>3. UNCHANGED <<db, req, sent>>
    BY DEF monitorTxs, l1vars
  <1>4. CopyIsCurrent' /\ SignedIsStored'
    BY <1>2, <1>3 DEF CopyIsCurrent, SignedIsStored
  <1>5. AddedRowsAreNew' /\ AbsentRowsAreEmpty' /\ BroadcastRecorded'
    BY <1>3 DEF AddedRowsAreNew, AbsentRowsAreEmpty, BroadcastRecorded
  <1> QED
    BY <1>4, <1>5

(* Every step of a monitorTx goroutine keeps SafetyInv. *)
LEMMA MonitorTxSafety ==
  ASSUME SafetyInv, TypeOK', NEW i \in Ids, monitorTx(i)
  PROVE  SafetyInv'
  <1> DEFINE m == mon[i].m
  <1>0. /\ mon[i] \in Monitoring /\ m \in Row /\ mon[i].sig \in Sigs /\ db[i] \in Row
        /\ mon[i].seen \in Seen
    BY DEF SafetyInv, TypeOK, Monitoring
  <1>1. mon[i].pc # "idle" => IsCopyOf(m, db[i])
    BY DEF SafetyInv, CopyIsCurrent
  <1>2. ASSUME UNCHANGED <<db, req, sent>>, Idle(i)
        PROVE  SafetyInv'
    BY <1>2, LocalStep DEF Idle, IdleMon, AtRest
  <1>3. ASSUME UNCHANGED <<db, req, sent>>, NEW pc \in MonPCs, Goto(i, pc),
               mon[i].pc # "idle",
               pc \in {"getTx", "send"} => mon[i].pc = "getTx"
        PROVE  SafetyInv'
    <2> DEFINE x == [mon[i] EXCEPT !.pc = pc]
    <2>1. mon' = [mon EXCEPT ![i] = x] /\ x.pc = pc /\ x.m = m /\ x.sig = mon[i].sig
      BY <1>0, <1>3 DEF Goto, Monitoring
    <2>2. pc \in {"getTx", "send"} => Tx(i, m, mon[i].sig) \in db[i].history
      BY <1>3 DEF SafetyInv, SignedIsStored, SignedTx
    <2> HIDE DEF x
    <2> QED
      BY <1>1, <1>3, <2>1, <2>2, LocalStep
  <1>4. ASSUME UNCHANGED <<db, req, sent>>, NEW n \in 0..MaxNonce, AdoptNonce(i, n),
               mon[i].pc # "idle"
        PROVE  SafetyInv'
    <2> DEFINE w == [m EXCEPT !.nonce = Larger(n, m.nonce)]
               x == [mon[i] EXCEPT !.pc = "saveNonce", !.m = w]
    <2>1. IsCopyOf(w, db[i])
      BY <1>0, <1>1, <1>4, MaxNonceAssumption DEF IsCopyOf, Larger, Row
    <2>2. mon' = [mon EXCEPT ![i] = x]
      BY <1>4 DEF AdoptNonce
    <2>3. x.pc = "saveNonce" /\ x.m = w
      BY <1>0 DEF Monitoring
    <2> HIDE DEF x, w
    <2> QED
      BY <1>4, <2>1, <2>2, <2>3, LocalStep
  <1>5. CASE CheckHistory(i)
    <2>1. PICK t \in mon[i].todo :
            \/ mon' = [mon EXCEPT ![i].todo = @ \ {t}]
            \/ mon' = [mon EXCEPT ![i].todo = @ \ {t}, ![i].allMined = FALSE]
            \/ \E rc \in receipts :
                 \/ mon' = [mon EXCEPT ![i].todo = {},
                                       ![i].seen = [ok |-> TRUE, block |-> rc.block]]
                 \/ mon' = [mon EXCEPT ![i].todo = @ \ {t}, ![i].anyFailed = TRUE]
      BY <1>5 DEF CheckHistory
    <2>2. /\ mon' = [mon EXCEPT ![i] = mon'[i]]
          /\ mon'[i].pc = mon[i].pc /\ mon'[i].m = m
      BY <1>0, <2>1 DEF SafetyInv, TypeOK, Monitoring
    <2>3. mon[i].pc = "check"
      BY <1>5 DEF CheckHistory
    <2> QED
      BY <1>1, <1>5, <2>2, <2>3, LocalStep DEF CheckHistory, l1vars
  <1>6. CASE ReviewNonceReadCreated(i)
    BY <1>2, <1>3, <1>4, <1>6 DEF ReviewNonceReadCreated, MonPCs, l1vars
  <1>7. CASE ReviewNoncePending(i)
    BY <1>2, <1>4, <1>7 DEF ReviewNoncePending, l1vars
  <1>8. ASSUME HistoryChecked(i) PROVE mon[i].pc # "idle"
    BY <1>8 DEF HistoryChecked
  <1>9. ASSUME mon[i].pc # "idle"
        PROVE  /\ m.status \in Monitored /\ m.status # "none"
               /\ db[i].history = m.history
    BY <1>1, <1>9 DEF IsCopyOf, Monitored
  <1>10. ASSUME NEW n \in Row, n.status \in Monitored PROVE IsCopyOf(n, n)
    BY <1>10 DEF IsCopyOf, Row
  <1>11. IdleMon.pc = "idle"
    BY DEF IdleMon, AtRest
  <1>12. CASE SaveNonce(i)
    <2> DEFINE x == [mon[i] EXCEPT !.pc = "resume"]
    <2>1. x.pc = "resume" /\ x.m = m
      BY <1>0 DEF Monitoring
    <2>2. mon[i].pc # "idle" /\ Update(i, m, x) /\ UNCHANGED <<req, sent>>
      BY <1>12 DEF SaveNonce, l1vars
    <2> HIDE DEF x
    <2> QED
      BY <1>0, <1>9, <1>10, <2>1, <2>2, StoreStep
  <1>13. CASE GiveUp(i)
    <2> DEFINE n == [m EXCEPT !.status = "failed"]
    <2>1. n \in Row /\ n.status = "failed" /\ n.history = m.history
      BY <1>0 DEF Row, Statuses
    <2>2. mon[i].pc # "idle" /\ Update(i, n, IdleMon) /\ UNCHANGED <<req, sent>>
      BY <1>8, <1>13 DEF GiveUp, l1vars
    <2> HIDE DEF n
    <2> QED
      BY <1>9, <1>11, <2>1, <2>2, StoreStep
  <1>14. CASE FoundConfirmed(i)
    <2> DEFINE x == [AtRest("finish", m) EXCEPT !.seen = mon[i].seen]
    <2>1. x.pc = "finish" /\ x.m = m
      BY DEF AtRest
    <2>2. mon[i].pc # "idle" /\ mon' = [mon EXCEPT ![i] = x] /\ UNCHANGED <<db, req, sent>>
      BY <1>8, <1>14 DEF FoundConfirmed, l1vars
    <2> HIDE DEF x
    <2> QED
      BY <1>1, <2>1, <2>2, LocalStep
  <1>15. CASE NewAttempt(i)
    <2> DEFINE x == AtRest("sign", m)
    <2>1. x.pc = "sign" /\ x.m = m
      BY DEF AtRest
    <2>2. /\ mon[i].pc # "idle" /\ UNCHANGED <<db, req, sent>>
          /\ mon' = [mon EXCEPT ![i] = IdleMon] \/ mon' = [mon EXCEPT ![i] = x]
      BY <1>8, <1>15 DEF NewAttempt, l1vars
    <2> HIDE DEF x
    <2> QED
      BY <1>1, <1>11, <2>1, <2>2, LocalStep
  <1>16. CASE ReviewMonitoredTx(i)
    <2> DEFINE withGas(g) == [m EXCEPT !.gas = Larger(g, m.gas)]
               retried(n) == [n EXCEPT !.retries = n.retries + 1]
               priced(g, p) == [withGas(g) EXCEPT
                                  !.price = Larger(SuggestedGasPrice(p), withGas(g).price)]
               Same(n) == n \in Row /\ n.status = m.status /\ n.history = m.history
    <2>1. Same(m) /\ \A g \in Gases : Same(withGas(g))
      BY <1>0, GasAssumption DEF Row, Larger
    <2>2. \A n : Same(n) => Same(retried(n))
      BY DEF Row
    <2>3. \A g \in Gases, p \in Suggested : Same(priced(g, p))
      <3> SUFFICES ASSUME NEW g \in Gases, NEW p \in Suggested PROVE Same(priced(g, p))
        OBVIOUS
      <3>1. SuggestedGasPrice(p) \in Nat
        BY PriceType, SuggestedAssumption
      <3>2. \A n : Same(n) => Same([n EXCEPT !.price = Larger(SuggestedGasPrice(p), n.price)])
        BY <3>1 DEF Row, Larger
      <3> HIDE DEF Same
      <3> QED
        BY <2>1, <3>2
    <2>4. mon[i].pc # "idle" /\ UNCHANGED <<req, sent>>
      BY <1>8, <1>16 DEF ReviewMonitoredTx, l1vars
    <2>5. \/ \E g \in Gases, p \in Suggested :
               Update(i, priced(g, p), AtRest("sign", priced(g, p)))
          \/ Update(i, retried(m), IdleMon)
          \/ \E g \in Gases : Update(i, retried(withGas(g)), IdleMon)
      BY <1>16 DEF ReviewMonitoredTx
    <2>6. ASSUME NEW n, Same(n), Update(i, n, IdleMon) \/ Update(i, n, AtRest("sign", n))
          PROVE  SafetyInv'
      <3> DEFINE x == AtRest("sign", n)
      <3>1. x.pc = "sign" /\ x.m = n
        BY DEF AtRest
      <3>2. Update(i, n, IdleMon) \/ Update(i, n, x)
        BY <2>6
      <3> HIDE DEF x
      <3> QED
        BY <1>9, <1>10, <1>11, <2>4, <2>6, <3>1, <3>2, StoreStep
    <2> HIDE DEF withGas, retried, priced, Same
    <2> QED
      BY <2>1, <2>2, <2>3, <2>5, <2>6
  <1>17. CASE Sign(i)
    <2>1. mon[i].pc # "idle" /\ UNCHANGED <<req, sent>>
      BY <1>17 DEF Sign, l1vars
    <2>2. CASE Idle(i) /\ UNCHANGED db
      BY <1>2, <2>1, <2>2
    <2>3. ASSUME NEW s \in Sigs, NEW tx, NEW n,
                 tx = Tx(i, m, s), n = AddHistory(m, tx),
                 \/ /\ tx \in m.history
                    /\ mon' = [mon EXCEPT ![i] = [AtRest("getTx", m) EXCEPT !.sig = s]]
                    /\ UNCHANGED db
                 \/ Update(i, n, [AtRest("getTx", n) EXCEPT !.sig = s])
          PROVE  SafetyInv'
      <3> DEFINE x(k) == [AtRest("getTx", k) EXCEPT !.sig = s]
      <3>1. \A k : x(k).pc = "getTx" /\ x(k).m = k /\ x(k).sig = s
        BY DEF AtRest
      <3>2. n \in Row /\ n.history = m.history \union {tx}
        BY <1>0, <2>3, TxType, AddHistoryType
      <3>3. Tx(i, n, s) = tx /\ n.status = m.status
        BY <1>0, <2>3 DEF AddHistory, Tx, Row
      <3>4. CASE tx \in m.history /\ mon' = [mon EXCEPT ![i] = x(m)] /\ UNCHANGED db
        <4> HIDE DEF x
        <4> QED
          BY <1>1, <1>9, <2>1, <2>3, <3>1, <3>4, LocalStep
      <3>5. CASE Update(i, n, x(n))
        <4> HIDE DEF x
        <4> QED
          BY <1>9, <1>10, <2>1, <3>1, <3>2, <3>3, <3>5, StoreStep
      <3> QED
        BY <2>3, <3>4, <3>5
    <2> QED
      BY <1>17, <2>2, <2>3 DEF Sign
  <1>18. CASE GetTx(i)
    BY <1>3, <1>18 DEF GetTx, MonPCs, l1vars
  <1>19. CASE SendToNetwork(i)
    <2>1. UNCHANGED <<db, req>> /\ mon[i].pc = "send"
      BY <1>19 DEF SendToNetwork
    <2>2. CASE Idle(i) /\ UNCHANGED l1vars
      BY <1>2, <2>1, <2>2 DEF l1vars
    <2>3. CASE Accept(SignedTx(i)) /\ (Idle(i) \/ \E pc \in {"markSent", "wait"} : Goto(i, pc))
      <3>1. SignedTx(i) \in db[i].history /\ SignedTx(i).id = i
        BY <2>1 DEF SafetyInv, SignedIsStored, SignedTx, Tx
      <3>2. BroadcastRecorded'
        BY <2>1, <2>3, <3>1 DEF Accept, SafetyInv, BroadcastRecorded
      <3>3. /\ mon'[i].pc # "idle" => mon'[i].m = m
            /\ mon'[i].pc \notin {"getTx", "send"}
            /\ \A j \in Ids \ {i} : mon'[j] = mon[j]
        BY <1>0, <1>11, <2>3 DEF Idle, Goto, SafetyInv, TypeOK, Monitoring
      <3>4. CopyIsCurrent'
        BY <1>1, <2>1, <3>3 DEF SafetyInv, CopyIsCurrent
      <3>5. SignedIsStored'
        BY <2>1, <3>3 DEF SafetyInv, SignedIsStored, SignedTx
      <3> QED
        BY <2>1, <3>2, <3>4, <3>5 DEF SafetyInv, AddedRowsAreNew, AbsentRowsAreEmpty
    <2> QED
      BY <1>19, <2>2, <2>3 DEF SendToNetwork
  <1>20. CASE MarkSent(i)
    <2> DEFINE n == [m EXCEPT !.status = "sent"]
               x == [mon[i] EXCEPT !.pc = "wait", !.m = n]
    <2>1. n \in Row /\ n.status = "sent" /\ n.history = m.history
      BY <1>0 DEF Row, Statuses
    <2>2. x.pc = "wait" /\ x.m = n
      BY <1>0 DEF Monitoring
    <2>3. mon[i].pc # "idle" /\ Update(i, n, x) /\ UNCHANGED <<req, sent>>
      BY <1>20 DEF MarkSent, l1vars
    <2> HIDE DEF n, x
    <2> QED
      BY <1>9, <1>10, <2>1, <2>2, <2>3, StoreStep DEF Monitored
  <1>21. CASE WaitTxToBeMined(i)
    BY <1>2, <1>3, <1>21 DEF WaitTxToBeMined, MonPCs, l1vars
  <1>22. CASE GetTxReceipt(i)
    <2>1. mon[i].pc # "idle" /\ UNCHANGED <<db, req, sent>>
      BY <1>22 DEF GetTxReceipt, l1vars
    <2>2. CASE Idle(i)
      BY <1>2, <2>1, <2>2
    <2>3. ASSUME NEW rc \in receipts,
                 mon' = [mon EXCEPT ![i].pc = "finish",
                                    ![i].seen = [ok |-> rc.ok, block |-> rc.block]]
          PROVE  SafetyInv'
      <3> DEFINE x == [mon[i] EXCEPT !.pc = "finish",
                                     !.seen = [ok |-> rc.ok, block |-> rc.block]]
      <3>1. mon' = [mon EXCEPT ![i] = x] /\ x.pc = "finish" /\ x.m = m
        BY <1>0, <2>3 DEF Monitoring
      <3> HIDE DEF x
      <3> QED
        BY <1>1, <2>1, <3>1, LocalStep
    <2> QED
      BY <1>22, <2>2, <2>3 DEF GetTxReceipt
  <1>23. CASE Finish(i)
    <2> DEFINE as(st) == [m EXCEPT !.status = st, !.block = mon[i].seen.block]
    <2>1. \A st \in Terminal :
            as(st) \in Row /\ as(st).status # "none" /\ as(st).history = m.history
      BY <1>0 DEF Row, Statuses, Terminal, Seen
    <2>2. /\ mon[i].pc # "idle" /\ UNCHANGED <<req, sent>>
          /\ \/ \E st \in Terminal : Update(i, as(st), IdleMon)
             \/ Idle(i) /\ UNCHANGED db
      BY <1>23 DEF Finish, l1vars, Terminal
    <2> HIDE DEF as
    <2> QED
      BY <1>2, <1>9, <1>11, <2>1, <2>2, StoreStep
  <1> QED
    BY <1>5, <1>6, <1>7, <1>12, <1>13, <1>14, <1>15, <1>16, <1>17, <1>18, <1>19,
       <1>20, <1>21, <1>22, <1>23 DEF monitorTx

(* SafetyInv is inductive. *)
LEMMA NextSafety == SafetyInv /\ [Next]_vars => SafetyInv'
  <1> SUFFICES ASSUME SafetyInv, [Next]_vars PROVE SafetyInv'
    OBVIOUS
  <1>0. TypeOK'
    BY NextType DEF SafetyInv
  <1>1. CASE \E r \in Reqs : SendTx(r)
    BY <1>0, <1>1, SendTxSafety
  <1>2. CASE monitorTxs
    BY <1>0, <1>2, MonitorTxsSafety
  <1>3. CASE \E i \in Ids : monitorTx(i)
    BY <1>0, <1>3, MonitorTxSafety
  <1>4. CASE Crash
    BY <1>0, <1>4 DEF Crash, SafetyInv, AddedRowsAreNew, AbsentRowsAreEmpty, CopyIsCurrent,
                      SignedIsStored, BroadcastRecorded, IdleReq, Adding, IdleMon, AtRest, l1vars
  <1>5. CASE NodeStep
    <2>1. UNCHANGED <<db, req, mon, sent>>
      BY <1>5 DEF NodeStep, L1Next, Mine, Drop, Reorg
    <2> QED
      BY <1>0, <2>1 DEF SafetyInv, AddedRowsAreNew, AbsentRowsAreEmpty, CopyIsCurrent,
                        SignedIsStored, SignedTx, BroadcastRecorded
  <1>6. CASE UNCHANGED vars
    BY <1>0, <1>6 DEF vars, l1vars, SafetyInv, AddedRowsAreNew, AbsentRowsAreEmpty,
                      CopyIsCurrent, SignedIsStored, SignedTx, BroadcastRecorded
  <1> QED
    BY <1>1, <1>2, <1>3, <1>4, <1>5, <1>6 DEF Next, Work

(* SafetyInv holds in every reachable state. *)
THEOREM SafetyInvariant == Spec => []SafetyInv
  <1> QED
    BY InitSafety, NextSafety, PTL DEF Spec

(* Whatever monitorTx broadcasts is in the stored history of its row,      *)
(* whichever calls fail and whenever the process crashes.                  *)
THEOREM BroadcastIsRecorded == Spec => []BroadcastRecorded
  <1>1. SafetyInv => BroadcastRecorded
    BY DEF SafetyInv
  <1> QED
    BY <1>1, SafetyInvariant, PTL

(* The row a monitorTx goroutine read at the start of its cycle is never   *)
(* behind the table.                                                       *)
THEOREM CopiesAreCurrent == Spec => []CopyIsCurrent
  <1>1. SafetyInv => CopyIsCurrent
    BY DEF SafetyInv
  <1> QED
    BY <1>1, SafetyInvariant, PTL

(* A row changes only when it is added or while its own goroutine runs. *)
LEMMA WhoWritesRows ==
  ASSUME SafetyInv, [Next]_vars, NEW j \in Ids, db'[j] # db[j]
  PROVE  db[j].status = "none" \/ mon[j].pc # "idle"
  <1>1. ASSUME NEW r \in Reqs, SendTx(r)
        PROVE  db[j].status = "none"
    <2>1. CASE UNCHANGED db
      BY <2>1
    <2>2. CASE req[r].pc = "commit" /\ db' \in {db, [db EXCEPT ![req[r].id] = req[r].row]}
      BY <2>2 DEF SafetyInv, AddedRowsAreNew, TypeOK, Requesting
    <2> QED
      BY <1>1, <2>1, <2>2 DEF SendTx, Settle, AddReadCreated, AddPendingNonce, AddInsert, AddFail,
                              Commit, CommitFail
  <1>2. ASSUME NEW i \in Ids, monitorTx(i)
        PROVE  mon[j].pc # "idle"
    <2>1. ASSUME NEW m, NEW next, Update(i, m, next), mon[i].pc # "idle"
          PROVE  mon[j].pc # "idle"
      BY <2>1 DEF Update, SafetyInv, TypeOK
    <2>2. CASE UNCHANGED db
      BY <2>2
    <2>3. CASE SaveNonce(i)
      BY <2>1, <2>3 DEF SaveNonce
    <2>4. CASE GiveUp(i)
      BY <2>1, <2>4 DEF GiveUp, HistoryChecked
    <2>5. CASE ReviewMonitoredTx(i)
      BY <2>1, <2>5 DEF ReviewMonitoredTx, HistoryChecked
    <2>6. CASE Sign(i)
      BY <2>1, <2>2, <2>6 DEF Sign
    <2>7. CASE MarkSent(i)
      BY <2>1, <2>7 DEF MarkSent
    <2>8. CASE Finish(i)
      BY <2>1, <2>2, <2>8 DEF Finish
    <2> QED
      BY <1>2, <2>2, <2>3, <2>4, <2>5, <2>6, <2>7, <2>8
         DEF monitorTx, CheckHistory, ReviewNonceReadCreated, ReviewNoncePending,
             FoundConfirmed, NewAttempt, GetTx, SendToNetwork, WaitTxToBeMined, GetTxReceipt
  <1> QED
    BY <1>1, <1>2 DEF Next, Work, monitorTxs, Crash, NodeStep, vars

(* A confirmed or failed row is never written again. *)
THEOREM TerminalRowsAreFinal == Spec => TerminalIsFinal
  <1>1. SafetyInv /\ [Next]_vars =>
          [\A i \in Ids : db[i].status \in Terminal => db'[i] = db[i]]_vars
    <2> SUFFICES ASSUME SafetyInv, [Next]_vars, NEW i \in Ids, db[i].status \in Terminal
                 PROVE  db'[i] = db[i]
      OBVIOUS
    <2>1. db[i].status # "none" /\ mon[i].pc = "idle"
      BY DEF SafetyInv, CopyIsCurrent, IsCopyOf, Terminal, Monitored
    <2> QED
      BY <2>1, WhoWritesRows
  <1> QED
    BY <1>1, SafetyInvariant, PTL DEF Spec, TerminalIsFinal
=============================================================================
