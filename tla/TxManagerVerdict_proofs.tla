---------------------- MODULE TxManagerVerdict_proofs ----------------------
(***************************************************************************)
(* What the verdicts of monitorTx mean as long as the chain is not         *)
(* reorganised: a confirmed row was mined where it says, only the retry    *)
(* limit makes a row fail, and a row never has two transactions with       *)
(* different nonces that can both settle.                                  *)
(***************************************************************************)
EXTENDS TxManagerRows_proofs

(* The receipts of one account: of transactions the node accepted, with    *)
(* nonces that are used up, at most one per nonce.  Reorgs keep this.      *)
ReceiptsInOrder ==
  /\ \A r \in receipts : r.tx \in sent /\ r.tx.nonce < acctNonce
  /\ \A r, q \in receipts : r.tx.nonce = q.tx.nonce => r = q

ChainInv == RowsInv /\ ReceiptsInOrder

(* A goroutine looks up transactions of its row only; it asks for the      *)
(* receipt of a transaction that succeeded, so it comes to a verdict only  *)
(* with a success; and the success it has seen is one of the row's own     *)
(* transactions, in the block it remembers.                                *)
TodoIsHistory ==
  \A i \in Ids : mon[i].pc = "check" => mon[i].todo \subseteq mon[i].m.history

ReceiptIsSuccess ==
  \A i \in Ids : /\ mon[i].pc = "receipt" => Succeeded(SignedTx(i))
                 /\ mon[i].pc = "finish" => mon[i].seen.ok

SeenOnChain(x) ==
  \E rc \in receipts : rc.ok /\ rc.tx \in x.m.history /\ rc.block = x.seen.block

SeenIsMined ==
  \A i \in Ids : mon[i].pc # "idle" /\ mon[i].seen.ok => SeenOnChain(mon[i])

VerdictInv ==
  /\ ChainInv
  /\ TodoIsHistory
  /\ ReceiptIsSuccess
  /\ SeenIsMined
  /\ ConfirmedMeansMined
  /\ FailedIsOutOfRetries

(* A transaction that can never settle any more. *)
Dead(t) == t.nonce < acctNonce /\ ~Succeeded(t)

(* Whatever a row has signed has the nonce of the row or is dead.  While   *)
(* the history is looked up with every transaction mined and none          *)
(* successful, what was looked up is dead; a new nonce is looked for only  *)
(* when all of it is, and is stored before the goroutine goes on.          *)
HistoryNonces ==
  \A i \in Ids : \A t \in db[i].history : t.nonce = db[i].nonce \/ Dead(t)

LookedUpIsDead ==
  \A i \in Ids :
    /\ mon[i].pc = "check" /\ mon[i].allMined /\ ~mon[i].seen.ok =>
         \A t \in mon[i].m.history \ mon[i].todo : Dead(t)
    /\ mon[i].pc \in {"pending", "saveNonce"} => \A t \in mon[i].m.history : Dead(t)

NonceIsStored ==
  \A i \in Ids :
    mon[i].pc \notin {"idle", "saveNonce"} => mon[i].m.nonce = db[i].nonce

NoncesInv ==
  /\ ChainInv
  /\ TodoIsHistory
  /\ HistoryNonces
  /\ LookedUpIsDead
  /\ NonceIsStored

---------------------------------------------------------------------------
(* The chain.                                                              *)

(* Requests, monitor and crashes only add to what the node accepted. *)
LEMMA OnlyTheNodeMines ==
  ASSUME SafetyInv, [Next]_vars, ~NodeStep
  PROVE  receipts' = receipts /\ acctNonce' = acctNonce /\ sent \subseteq sent'
  <1>1. ASSUME NEW r \in Reqs, SendTx(r) PROVE UNCHANGED l1vars
    BY <1>1, RequestWrites
  <1>2. ASSUME NEW i \in Ids, monitorTx(i)
        PROVE  receipts' = receipts /\ acctNonce' = acctNonce /\ sent \subseteq sent'
    <2>1. OneGoroutine(i)
      BY <1>2, GoroutineStep
    <2> QED
      BY <2>1 DEF OneGoroutine, l1vars, Accept
  <1> QED
    BY <1>1, <1>2 DEF Next, Work, monitorTxs, Crash, vars, l1vars

LEMMA InitChain == Init => ChainInv
  BY InitRows DEF Init, ChainInv, ReceiptsInOrder

LEMMA NextChain == ChainInv /\ [Next]_vars => ChainInv'
  <1> SUFFICES ASSUME ChainInv, [Next]_vars PROVE ChainInv'
    OBVIOUS
  <1>0. /\ RowsInv' /\ SafetyInv /\ acctNonce \in Nat /\ sent \subseteq EthTx
        /\ receipts \subseteq Receipt
    BY NextRows DEF ChainInv, RowsInv, SafetyInv, TypeOK, L1TypeOK
  <1>1. \A r \in receipts : r.tx \in sent /\ r.tx.nonce \in Nat /\ r.tx.nonce < acctNonce
    BY <1>0 DEF ChainInv, ReceiptsInOrder, EthTx
  <1>2. CASE ~NodeStep
    <2>1. receipts' = receipts /\ acctNonce' = acctNonce /\ sent \subseteq sent'
      BY <1>0, <1>2, OnlyTheNodeMines
    <2>2. ReceiptsInOrder'
      BY <2>1 DEF ChainInv, ReceiptsInOrder
    <2> QED
      BY <1>0, <2>2 DEF ChainInv
  <1>3. CASE Mine
    <2>1. PICK t \in sent, ok \in BOOLEAN :
            /\ t.nonce = acctNonce
            /\ receipts' = receipts \union {[tx |-> t, ok |-> ok, block |-> head + 1]}
      BY <1>3 DEF Mine
    <2>2. acctNonce' = acctNonce + 1 /\ sent' = sent
      BY <1>3 DEF Mine
    <2> DEFINE new == [tx |-> t, ok |-> ok, block |-> head + 1]
    <2>3. new.tx = t
      OBVIOUS
    <2>4. receipts' = receipts \union {new}
      BY <2>1
    <2> HIDE DEF new
    <2>5. \A r \in receipts' : r.tx \in sent' /\ r.tx.nonce < acctNonce'
      BY <1>0, <1>1, <2>1, <2>2, <2>3, <2>4
    <2>6. ASSUME NEW r \in receipts', NEW q \in receipts', r.tx.nonce = q.tx.nonce
          PROVE  r = q
      BY <1>0, <1>1, <2>1, <2>3, <2>4, <2>6 DEF ChainInv, ReceiptsInOrder
    <2> QED
      BY <1>0, <2>5, <2>6 DEF ChainInv, ReceiptsInOrder
  <1>4. CASE Drop
    BY <1>0, <1>4 DEF Drop, ChainInv, ReceiptsInOrder
  <1>5. CASE Reorg
    <2>1. PICK r \in receipts : r.tx.nonce = acctNonce - 1 /\ receipts' = receipts \ {r}
      BY <1>5 DEF Reorg
    <2>2. acctNonce' = acctNonce - 1 /\ sent' = sent
      BY <1>5 DEF Reorg
    <2>3. ASSUME NEW q \in receipts' PROVE q.tx.nonce < acctNonce'
      <3>1. q \in receipts /\ q # r
        BY <2>1
      <3>2. q.tx.nonce # r.tx.nonce
        BY <3>1 DEF ChainInv, ReceiptsInOrder
      <3> QED
        BY <1>0, <1>1, <2>1, <2>2, <3>1, <3>2
    <2>4. ReceiptsInOrder'
      BY <1>1, <2>1, <2>2, <2>3 DEF ChainInv, ReceiptsInOrder
    <2> QED
      BY <1>0, <2>4 DEF ChainInv
  <1> QED
    BY <1>2, <1>3, <1>4, <1>5 DEF NodeStep, L1Next

(* The node keeps at most one receipt per nonce, of transactions it        *)
(* accepted and below the account's nonce, through every reorg.            *)
LEMMA ChainIsConsistent == Spec => []ChainInv
  <1> QED
    BY InitChain, NextChain, PTL DEF Spec

(* Without reorgs what was mined stays mined, and what is dead stays dead. *)
LEMMA ChainOnlyGrows ==
  ASSUME ChainInv, [Next]_vars, "reorg" \notin Faults
  PROVE  receipts \subseteq receipts' /\ \A t \in sent \union EthTx : Dead(t) => Dead(t)'
  <1>0. SafetyInv /\ acctNonce \in Nat
    BY DEF ChainInv, RowsInv, SafetyInv, TypeOK, L1TypeOK
  <1>1. CASE ~NodeStep \/ Drop
    <2>1. receipts' = receipts /\ acctNonce' = acctNonce
      BY <1>0, <1>1, OnlyTheNodeMines DEF Drop
    <2> QED
      BY <2>1 DEF Dead, Succeeded
  <1>2. CASE Mine
    <2>1. PICK u \in sent, ok \in BOOLEAN :
            /\ u.nonce = acctNonce
            /\ receipts' = receipts \union {[tx |-> u, ok |-> ok, block |-> head + 1]}
      BY <1>2 DEF Mine
    <2>2. acctNonce' = acctNonce + 1
      BY <1>2 DEF Mine
    <2>3. ASSUME NEW t \in EthTx \union sent, Dead(t) PROVE Dead(t)'
      <3>1. t.nonce \in Nat
        BY <1>0 DEF EthTx, SafetyInv, TypeOK, L1TypeOK
      <3>2. t.nonce < acctNonce' /\ t # u
        BY <1>0, <2>1, <2>2, <2>3, <3>1 DEF Dead
      <3>3. ~Succeeded(t)'
        BY <2>1, <2>3, <3>2 DEF Dead, Succeeded
      <3> QED
        BY <3>2, <3>3 DEF Dead
    <2> QED
      BY <2>1, <2>3
  <1> QED
    BY <1>1, <1>2 DEF NodeStep, L1Next, Reorg

(* A transaction has one receipt, so one that failed on L1 is dead. *)
LEMMA FailedIsDead ==
  ASSUME ChainInv, NEW t, FailedOnL1(t)
  PROVE  Dead(t)
  BY DEF ChainInv, ReceiptsInOrder, FailedOnL1, Dead, Succeeded

---------------------------------------------------------------------------
(* VerdictInv is inductive without reorgs. *)

LEMMA InitVerdict == Init => VerdictInv
  <1> SUFFICES ASSUME Init PROVE VerdictInv
    OBVIOUS
  <1>1. ChainInv
    BY InitChain
  <1>2. TodoIsHistory /\ ReceiptIsSuccess /\ SeenIsMined
    BY DEF Init, TodoIsHistory, ReceiptIsSuccess, SeenIsMined, IdleMon, AtRest
  <1>3. \A i \in Ids : db[i].status \notin Terminal
    <2>1. NoRow.status \notin Terminal /\ \A i, tx : LegacyRow(i, tx).status \notin Terminal
      BY DEF NoRow, LegacyRow, Terminal
    <2> QED
      BY <2>1 DEF Init
  <1> QED
    BY <1>1, <1>2, <1>3 DEF VerdictInv, ConfirmedMeansMined, FailedIsOutOfRetries, Terminal

LEMMA NextVerdict ==
  ASSUME VerdictInv, [Next]_vars, "reorg" \notin Faults
  PROVE  VerdictInv'
  <1>0. /\ ChainInv /\ ChainInv' /\ RowsInv /\ SafetyInv /\ TypeOK
        /\ receipts \subseteq receipts'
    BY NextChain, ChainOnlyGrows DEF VerdictInv, ChainInv, RowsInv, SafetyInv
  <1>1. ASSUME NEW i \in Ids,
               mon'[i] = mon[i] \/ mon'[i].pc = "idle"
        PROVE  /\ mon'[i].pc = "check" => mon'[i].todo \subseteq mon'[i].m.history
               /\ mon'[i].pc = "receipt" => Succeeded(SignedTx(i))'
               /\ mon'[i].pc = "finish" => mon'[i].seen.ok
               /\ mon'[i].pc # "idle" /\ mon'[i].seen.ok => SeenOnChain(mon[i])'
    BY <1>0, <1>1 DEF VerdictInv, TodoIsHistory, ReceiptIsSuccess, SeenIsMined, SeenOnChain,
                      Succeeded, SignedTx
  <1>2. ASSUME NEW i \in Ids, db'[i] = db[i]
        PROVE  /\ db'[i].status = "confirmed" => MinedWhereStored(i)'
               /\ db'[i].status = "failed" => db'[i].retries >= MaxRetries
    BY <1>0, <1>2 DEF VerdictInv, ConfirmedMeansMined, FailedIsOutOfRetries, MinedWhereStored
  <1> DEFINE Running(i) ==
               /\ mon'[i].pc = "check" => mon'[i].todo \subseteq mon'[i].m.history
               /\ mon'[i].pc = "receipt" => Succeeded(SignedTx(i))'
               /\ mon'[i].pc = "finish" => mon'[i].seen.ok
               /\ mon'[i].pc # "idle" /\ mon'[i].seen.ok => SeenOnChain(mon[i])'
             Stored(i) ==
               /\ db'[i].status = "confirmed" => MinedWhereStored(i)'
               /\ db'[i].status = "failed" => db'[i].retries >= MaxRetries
  <1>3. ASSUME \A i \in Ids : Running(i) /\ Stored(i) PROVE VerdictInv'
    BY <1>0, <1>3 DEF VerdictInv, TodoIsHistory, ReceiptIsSuccess, SeenIsMined,
                      ConfirmedMeansMined, FailedIsOutOfRetries
  <1> HIDE DEF Running, Stored
  <1>4. ASSUME NEW r \in Reqs, SendTx(r) PROVE VerdictInv'
    <2>1. UNCHANGED mon /\ \A i \in Ids : db'[i] = db[i] \/ db'[i].status = "created"
      BY <1>0, <1>4, RequestWrites DEF TypeOK
    <2>2. ASSUME NEW i \in Ids PROVE Stored(i)
      BY <1>2, <2>1 DEF Stored
    <2>3. ASSUME NEW i \in Ids PROVE Running(i)
      BY <1>1, <2>1 DEF Running
    <2> QED
      BY <1>3, <2>2, <2>3
  <1>5. CASE monitorTxs
    <2>1. PICK S \in SUBSET Unfinished :
            mon' = [i \in Ids |->
                      IF i \in S
                      THEN [AtRest("check", LoadRow(db[i])) EXCEPT !.todo = db[i].history]
                      ELSE IdleMon]
      BY <1>5 DEF monitorTxs
    <2>2. ASSUME NEW i \in Ids, i \in S PROVE Running(i)
      <3>1. /\ mon'[i].pc = "check" /\ ~mon'[i].seen.ok
            /\ mon'[i].m = LoadRow(db[i]) /\ mon'[i].todo = db[i].history
        BY <2>1, <2>2 DEF AtRest, NoReceipt
      <3>2. LoadRow(db[i]).history = db[i].history
        BY <1>0 DEF LoadRow, TypeOK, Row
      <3> QED
        BY <3>1, <3>2 DEF Running
    <2>3. ASSUME NEW i \in Ids, i \notin S PROVE Running(i)
      <3>1. mon'[i].pc = "idle"
        BY <2>1, <2>3 DEF IdleMon, AtRest
      <3> QED
        BY <3>1 DEF Running
    <2>4. ASSUME NEW i \in Ids PROVE Stored(i)
      BY <1>2, <1>5 DEF monitorTxs, Stored
    <2> QED
      BY <1>3, <2>2, <2>3, <2>4
  <1>6. ASSUME NEW i \in Ids, monitorTx(i) PROVE VerdictInv'
    <2> DEFINE x == mon[i]
               y == mon'[i]
    <2>1. OneGoroutine(i) /\ (GoesOn(i) \/ Stops(i))
      BY <1>0, <1>6, GoroutineStep
    <2>2. IsCopyOf(x.m, db[i]) /\ x.m \in Row
      BY <1>0, <2>1 DEF OneGoroutine, SafetyInv, CopyIsCurrent, TypeOK, Monitoring
    <2>3. receipts' = receipts
      BY <2>1 DEF OneGoroutine, l1vars, Accept
    <2>4. db'[i] = db[i] \/ Stores(i, db'[i])
      BY <1>0, <2>1, GoroutineWrites
    <2>5. y.pc = "check" => y.todo \subseteq y.m.history
      <3> SUFFICES ASSUME y.pc = "check" PROVE y.todo \subseteq y.m.history
        OBVIOUS
      <3>1. Looks(i)
        BY <2>1 DEF GoesOn, Stops, ReviewsNonce, Resumes, Finds, Attempts, Signs, MovesOn,
                    Marks, GetsReceipt, IdleMon, AtRest
      <3>2. y.todo \subseteq x.todo /\ y.m = x.m /\ x.pc = "check"
        BY <3>1 DEF Looks
      <3> QED
        BY <3>2 DEF VerdictInv, TodoIsHistory
    <2>6. y.pc = "receipt" => Succeeded(SignedTx(i))'
      <3> SUFFICES ASSUME y.pc = "receipt" PROVE Succeeded(SignedTx(i))'
        OBVIOUS
      <3>1. Succeeded(SignedTx(i)) /\ SignedTx(i)' = SignedTx(i)
        BY <2>1 DEF GoesOn, Stops, Looks, ReviewsNonce, Resumes, Finds, Attempts, Signs, MovesOn,
                    Marks, GetsReceipt, IdleMon, AtRest
      <3> QED
        BY <2>3, <3>1 DEF Succeeded
    <2>7. y.pc = "finish" => y.seen.ok
      <3> SUFFICES ASSUME y.pc = "finish" PROVE y.seen.ok
        OBVIOUS
      <3>1. Finds(i) \/ GetsReceipt(i)
        BY <2>1 DEF GoesOn, Stops, Looks, ReviewsNonce, Resumes, Attempts, Signs, MovesOn, Marks,
                    IdleMon, AtRest
      <3>2. CASE Finds(i)
        BY <3>2 DEF Finds
      <3>3. CASE GetsReceipt(i)
        <4>1. PICK rc \in receipts :
                rc.tx = SignedTx(i) /\ y.seen = [ok |-> rc.ok, block |-> rc.block]
          BY <3>3 DEF GetsReceipt
        <4>2. PICK r \in receipts : r.tx = SignedTx(i) /\ r.ok
          BY <3>3 DEF GetsReceipt, VerdictInv, ReceiptIsSuccess, Succeeded
        <4>3. r = rc
          BY <1>0, <4>1, <4>2 DEF ChainInv, ReceiptsInOrder
        <4> QED
          BY <4>1, <4>2, <4>3
      <3> QED
        BY <3>1, <3>2, <3>3
    <2>8. y.pc # "idle" /\ y.seen.ok => SeenOnChain(mon[i])'
      <3> SUFFICES ASSUME y.pc # "idle", y.seen.ok
                   PROVE  \E rc \in receipts :
                            rc.ok /\ rc.tx \in y.m.history /\ rc.block = y.seen.block
        BY <2>3 DEF SeenOnChain
      <3>1. CASE y.seen = x.seen /\ y.m.history = x.m.history
        BY <2>1, <3>1 DEF OneGoroutine, VerdictInv, SeenIsMined, SeenOnChain
      <3>2. CASE Looks(i)
        <4>1. \/ y.seen = x.seen
              \/ \E t \in x.todo : \E rc \in receipts :
                   rc.tx = t /\ rc.ok /\ y.seen = [ok |-> TRUE, block |-> rc.block]
          BY <3>2 DEF Looks
        <4>2. y.m = x.m /\ x.todo \subseteq x.m.history
          BY <3>2 DEF Looks, VerdictInv, TodoIsHistory
        <4>3. CASE y.seen = x.seen
          BY <3>1, <4>2, <4>3
        <4>4. ASSUME NEW rc \in receipts, rc.tx \in x.todo, rc.ok,
                     y.seen = [ok |-> TRUE, block |-> rc.block]
              PROVE  rc.ok /\ rc.tx \in y.m.history /\ rc.block = y.seen.block
          BY <4>2, <4>4
        <4> QED
          BY <4>1, <4>3, <4>4
      <3>3. CASE GetsReceipt(i)
        <4>1. SignedTx(i) \in y.m.history
          BY <1>0, <2>2, <3>3 DEF GetsReceipt, RowsInv, SignedStays, IsCopyOf
        <4> QED
          BY <3>3, <4>1 DEF GetsReceipt
      <3> QED
        BY <2>1, <3>1, <3>2, <3>3
           DEF GoesOn, Stops, ReviewsNonce, Resumes, Finds, Attempts, Signs, MovesOn, Marks,
               IdleMon, AtRest
    <2>9. Running(i)
      BY <2>5, <2>6, <2>7, <2>8 DEF Running
    <2>10. ASSUME Stores(i, db'[i]) PROVE Stored(i)
      <3>1. x.m.status \notin {"confirmed", "failed"}
        BY <2>2 DEF IsCopyOf, Monitored
      <3>2. ASSUME db'[i].status = "confirmed" PROVE MinedWhereStored(i)'
        <4>1. /\ x.pc = "finish" /\ x.seen.ok
              /\ db'[i].history = x.m.history /\ db'[i].block = x.seen.block
          BY <2>10, <3>1, <3>2 DEF Stores
        <4>2. SeenOnChain(x)
          BY <4>1 DEF VerdictInv, SeenIsMined
        <4> QED
          BY <2>3, <4>1, <4>2 DEF SeenOnChain, MinedWhereStored
      <3>3. ASSUME db'[i].status = "failed" PROVE db'[i].retries >= MaxRetries
        <4>1. x.pc = "finish" => x.seen.ok
          BY DEF VerdictInv, ReceiptIsSuccess
        <4>2. OutOfRetries(i)
          BY <2>10, <3>1, <3>3, <4>1 DEF Stores
        <4> QED
          BY <2>2, <2>10, <4>2, MaxRetriesAssumption DEF Stores, Rewrites, OutOfRetries, Row
      <3> QED
        BY <3>2, <3>3 DEF Stored
    <2>11. \A j \in Ids \ {i} : Running(j) /\ Stored(j)
      BY <1>1, <1>2, <2>1 DEF OneGoroutine, Running, Stored
    <2>12. Stored(i)
      BY <1>2, <2>4, <2>10 DEF Stored
    <2> QED
      BY <1>3, <2>9, <2>11, <2>12
  <1>7. CASE UNCHANGED db /\ \A i \in Ids : mon'[i] = mon[i] \/ mon'[i].pc = "idle"
    BY <1>1, <1>2, <1>3, <1>7 DEF Running, Stored
  <1> QED
    BY <1>4, <1>5, <1>6, <1>7 DEF Next, Work, Crash, NodeStep, vars, IdleMon, AtRest

(* VerdictInv holds as long as the chain is not reorganised. *)
LEMMA VerdictInvariant ==
  ASSUME "reorg" \notin Faults
  PROVE  Spec => []VerdictInv
  <1>1. VerdictInv /\ [Next]_vars => VerdictInv'
    BY NextVerdict
  <1> QED
    BY <1>1, InitVerdict, PTL DEF Spec

(* Without reorgs a confirmed row has a successful receipt of one of its   *)
(* own transactions in the block that is stored with it.                   *)
THEOREM ConfirmedRowsAreMined ==
  ASSUME "reorg" \notin Faults
  PROVE  Spec => []ConfirmedMeansMined
  <1>1. VerdictInv => ConfirmedMeansMined
    BY DEF VerdictInv
  <1> QED
    BY <1>1, VerdictInvariant, PTL

(* Without reorgs monitorTx gives a row up only at the retry limit: no     *)
(* reverted or lost transaction alone makes it fail.                       *)
THEOREM FailedRowsAreOutOfRetries ==
  ASSUME "reorg" \notin Faults
  PROVE  Spec => []FailedIsOutOfRetries
  <1>1. VerdictInv => FailedIsOutOfRetries
    BY DEF VerdictInv
  <1> QED
    BY <1>1, VerdictInvariant, PTL

---------------------------------------------------------------------------
(* NoncesInv is inductive without reorgs, as long as the lookups of the    *)
(* history are answered.                                                   *)

LEMMA InitNonces == Init => NoncesInv
  <1> SUFFICES ASSUME Init PROVE NoncesInv
    OBVIOUS
  <1>1. ChainInv
    BY InitChain
  <1>2. TodoIsHistory /\ LookedUpIsDead /\ NonceIsStored
    BY DEF Init, TodoIsHistory, LookedUpIsDead, NonceIsStored, IdleMon, AtRest
  <1>3. HistoryNonces
    <2>1. CASE db = [i \in Ids |-> NoRow]
      BY <2>1 DEF HistoryNonces, NoRow
    <2>2. ASSUME NEW tx \in LegacyTxs,
                 db = [i \in Ids |-> IF i = tx.id THEN LegacyRow(i, tx) ELSE NoRow]
          PROVE  HistoryNonces
      <3>1. \A i \in Ids : LegacyRow(i, tx).history = {tx} /\ LegacyRow(i, tx).nonce = 0
        BY DEF LegacyRow, NoRow
      <3>2. tx.nonce = 0 /\ NoRow.history = {}
        BY DEF LegacyTxs, NoRow
      <3> QED
        BY <2>2, <3>1, <3>2 DEF HistoryNonces
    <2> QED
      BY <2>1, <2>2 DEF Init
  <1> QED
    BY <1>1, <1>2, <1>3 DEF NoncesInv

LEMMA NextNonces ==
  ASSUME NoncesInv, [Next]_vars, "reorg" \notin Faults, "lookup" \notin Faults
  PROVE  NoncesInv'
  <1>0. ChainInv /\ ChainInv' /\ RowsInv /\ SafetyInv /\ TypeOK
    BY NextChain DEF NoncesInv, ChainInv, RowsInv, SafetyInv
  <1>1. \A t \in EthTx : Dead(t) => Dead(t)'
    BY <1>0, ChainOnlyGrows
  <1>2. ASSUME NEW i \in Ids
        PROVE  /\ db[i] \in Row /\ mon[i].m \in Row
               /\ db[i].history \subseteq EthTx /\ mon[i].m.history \subseteq EthTx
    BY <1>0 DEF TypeOK, Monitoring, Row, Histories
  <1> DEFINE Running(i) ==
               /\ mon'[i].pc = "check" => mon'[i].todo \subseteq mon'[i].m.history
               /\ mon'[i].pc = "check" /\ mon'[i].allMined /\ ~mon'[i].seen.ok =>
                    \A t \in mon'[i].m.history \ mon'[i].todo : Dead(t)'
               /\ mon'[i].pc \in {"pending", "saveNonce"} =>
                    \A t \in mon'[i].m.history : Dead(t)'
               /\ mon'[i].pc \notin {"idle", "saveNonce"} => mon'[i].m.nonce = db'[i].nonce
             Stored(i) ==
               \A t \in db'[i].history : t.nonce = db'[i].nonce \/ Dead(t)'
  <1>3. ASSUME \A i \in Ids : Running(i) /\ Stored(i) PROVE NoncesInv'
    BY <1>0, <1>3 DEF NoncesInv, TodoIsHistory, HistoryNonces, LookedUpIsDead, NonceIsStored
  <1>4. ASSUME NEW i \in Ids, db'[i] = db[i] PROVE Stored(i)
    BY <1>1, <1>2, <1>4 DEF NoncesInv, HistoryNonces
  <1>5. ASSUME NEW i \in Ids, mon'[i].pc = "idle" \/ (mon'[i] = mon[i] /\ db'[i] = db[i])
        PROVE  Running(i)
    BY <1>1, <1>2, <1>5 DEF NoncesInv, TodoIsHistory, LookedUpIsDead, NonceIsStored
  <1> HIDE DEF Running, Stored
  <1>6. ASSUME NEW r \in Reqs, SendTx(r) PROVE NoncesInv'
    <2>1. UNCHANGED mon
      BY <1>0, <1>6, RequestWrites
    <2>2. ASSUME NEW i \in Ids, db'[i] # db[i]
          PROVE  db'[i].history = {} /\ mon[i].pc = "idle"
      BY <1>0, <1>6, <2>2, RequestWrites DEF TypeOK, RowsInv, NewRowsAreEmpty
    <2>3. ASSUME NEW i \in Ids PROVE Running(i) /\ Stored(i)
      <3>1. CASE db'[i] = db[i]
        BY <1>4, <1>5, <2>1, <3>1
      <3>2. CASE db'[i] # db[i]
        <4>1. mon'[i].pc = "idle" /\ db'[i].history = {}
          BY <2>1, <2>2, <3>2
        <4> QED
          BY <1>5, <4>1 DEF Stored
      <3> QED
        BY <3>1, <3>2
    <2> QED
      BY <1>3, <2>3
  <1>7. CASE monitorTxs
    <2>1. PICK S \in SUBSET Unfinished :
            mon' = [i \in Ids |->
                      IF i \in S
                      THEN [AtRest("check", LoadRow(db[i])) EXCEPT !.todo = db[i].history]
                      ELSE IdleMon]
      BY <1>7 DEF monitorTxs
    <2>2. UNCHANGED db
      BY <1>7 DEF monitorTxs
    <2>3. ASSUME NEW i \in Ids, i \in S PROVE Running(i)
      <3>1. /\ mon'[i].pc = "check" /\ mon'[i].m = LoadRow(db[i])
            /\ mon'[i].todo = db[i].history
        BY <2>1, <2>3 DEF AtRest
      <3>2. LoadRow(db[i]).history = db[i].history /\ LoadRow(db[i]).nonce = db[i].nonce
        BY <1>2 DEF LoadRow, Row
      <3> QED
        BY <2>2, <3>1, <3>2 DEF Running
    <2>4. ASSUME NEW i \in Ids, i \notin S PROVE Running(i)
      <3>1. mon'[i].pc = "idle"
        BY <2>1, <2>4 DEF IdleMon, AtRest
      <3> QED
        BY <1>5, <3>1
    <2> QED
      BY <1>3, <1>4, <2>2, <2>3, <2>4
  <1>8. ASSUME NEW i \in Ids, monitorTx(i) PROVE NoncesInv'
    <2> DEFINE x == mon[i]
               y == mon'[i]
    <2>1. OneGoroutine(i) /\ (GoesOn(i) \/ Stops(i))
      BY <1>0, <1>8, GoroutineStep
    <2>2. IsCopyOf(x.m, db[i])
      BY <1>0, <2>1 DEF OneGoroutine, SafetyInv, CopyIsCurrent
    <2>3. db'[i] = db[i] \/ Stores(i, db'[i])
      BY <1>0, <2>1, GoroutineWrites
    <2>4. x.pc # "saveNonce" => x.m.nonce = db[i].nonce
      BY <2>1 DEF OneGoroutine, NoncesInv, NonceIsStored
    <2>5. ASSUME Stores(i, db'[i]) PROVE Stored(i)
      <3>1. db'[i].nonce = x.m.nonce
        BY <2>5 DEF Stores, Rewrites
      <3>2. CASE x.pc = "saveNonce"
        <4>1. db'[i].history = x.m.history
          BY <2>5, <3>2 DEF Stores, HistoryChecked
        <4>2. \A t \in x.m.history : Dead(t)
          BY <3>2 DEF NoncesInv, LookedUpIsDead
        <4> QED
          BY <1>1, <1>2, <4>1, <4>2 DEF Stored
      <3>3. CASE x.pc # "saveNonce"
        <4>1. \A t \in x.m.history : t.nonce = db'[i].nonce \/ Dead(t)'
          BY <1>1, <1>2, <2>2, <2>4, <3>1, <3>3 DEF NoncesInv, HistoryNonces, IsCopyOf
        <4>2. \A s : Tx(i, x.m, s).nonce = db'[i].nonce
          BY <3>1 DEF Tx
        <4>3. \/ db'[i].history = x.m.history
              \/ \E s \in Sigs : db'[i].history = x.m.history \union {Tx(i, x.m, s)}
          BY <2>5 DEF Stores
        <4> QED
          BY <4>1, <4>2, <4>3 DEF Stored
      <3> QED
        BY <3>2, <3>3
    <2>6. ASSUME Looks(i) PROVE Running(i)
      <3>1. PICK t \in x.todo :
              \/ /\ y.todo = x.todo \ {t} /\ y.seen = x.seen
                 /\ \/ "lookup" \in Faults /\ y.allMined = x.allMined
                    \/ ~Mined(t) /\ y.allMined = FALSE
                    \/ FailedOnL1(t) /\ y.allMined = x.allMined
              \/ \E rc \in receipts :
                   rc.tx = t /\ rc.ok /\ y.todo = {} /\ y.seen = [ok |-> TRUE, block |-> rc.block]
        BY <2>6 DEF Looks
      <3>2. x.pc = "check" /\ y.pc = "check" /\ y.m = x.m /\ db'[i] = db[i]
        BY <2>6 DEF Looks
      <3>3. x.todo \subseteq x.m.history
        BY <3>2 DEF NoncesInv, TodoIsHistory
      <3>4. ASSUME y.allMined, ~y.seen.ok, NEW u \in y.m.history \ y.todo
            PROVE  Dead(u)
        <4>1. y.todo = x.todo \ {t} /\ y.seen = x.seen /\ FailedOnL1(t) /\ x.allMined
          <5>1. \A b : [ok |-> TRUE, block |-> b].ok
            OBVIOUS
          <5> QED
            BY <3>1, <3>4, <5>1, Zenon
        <4>2. CASE u = t
          BY <1>0, <4>1, <4>2, FailedIsDead
        <4>3. CASE u # t
          BY <3>2, <3>4, <4>1, <4>3 DEF NoncesInv, LookedUpIsDead
        <4> QED
          BY <4>2, <4>3
      <3>5. y.todo \subseteq y.m.history
        BY <3>1, <3>2, <3>3
      <3>6. y.m.nonce = db'[i].nonce
        BY <2>4, <3>2
      <3> QED
        BY <1>1, <1>2, <3>2, <3>4, <3>5, <3>6 DEF Running
    <2>7. ASSUME ReviewsNonce(i) PROVE Running(i)
      <3>1. \A t \in x.m.history : Dead(t)
        BY <2>7 DEF ReviewsNonce, NonceNeedsReview, NoncesInv, LookedUpIsDead
      <3>2. /\ y.pc \in {"pending", "saveNonce"} /\ y.m.history = x.m.history
            /\ x.pc # "saveNonce" /\ db'[i] = db[i]
            /\ y.pc = "pending" => y.m = x.m
        BY <2>7 DEF ReviewsNonce
      <3> QED
        BY <1>1, <1>2, <2>4, <3>1, <3>2 DEF Running
    <2>8. ASSUME y.pc \notin {"check", "pending", "saveNonce"}, y.m.nonce = db'[i].nonce
          PROVE  Running(i)
      BY <2>8 DEF Running
    <2>9. Running(i)
      <3>1. CASE Stops(i)
        BY <1>5, <3>1 DEF Stops, IdleMon, AtRest
      <3>2. CASE Finds(i) \/ Attempts(i)
        BY <2>4, <2>8, <3>2 DEF Finds, Attempts, HistoryChecked
      <3>3. CASE Resumes(i) \/ Signs(i) \/ MovesOn(i) \/ Marks(i) \/ GetsReceipt(i)
        BY <2>4, <2>8, <3>3 DEF Resumes, Signs, MovesOn, Marks, GetsReceipt
      <3> QED
        BY <2>1, <2>6, <2>7, <3>1, <3>2, <3>3 DEF GoesOn
    <2>10. Stored(i)
      BY <1>4, <2>3, <2>5
    <2>11. \A j \in Ids \ {i} : Running(j) /\ Stored(j)
      BY <1>4, <1>5, <2>1 DEF OneGoroutine
    <2> QED
      BY <1>3, <2>9, <2>10, <2>11
  <1>9. CASE UNCHANGED db /\ \A i \in Ids : mon'[i] = mon[i] \/ mon'[i].pc = "idle"
    BY <1>3, <1>4, <1>5, <1>9
  <1> QED
    BY <1>6, <1>7, <1>8, <1>9 DEF Next, Work, Crash, NodeStep, vars, IdleMon, AtRest

(* reviewMonitoredTxNonce moves a row to another nonce only when           *)
(* everything the row has broadcast is used up: two transactions of one    *)
(* row that can both settle have the same nonce, so only one of them will. *)
(* This needs a chain without reorgs and lookups that are answered.        *)
THEOREM DataSettlesOnce ==
  ASSUME "reorg" \notin Faults, "lookup" \notin Faults
  PROVE  Spec => []NoDuplicateData
  <1>1. NoncesInv => NoDuplicateData
    <2> SUFFICES ASSUME NoncesInv, NEW i \in Ids, NEW t \in Live(i)
                 PROVE  t.nonce = db[i].nonce
      BY DEF NoDuplicateData
    <2>1. t \in db[i].history
      BY DEF Live, NoncesInv, ChainInv, RowsInv, SafetyInv, BroadcastRecorded
    <2>2. ~Dead(t)
      <3>1. t.nonce \in Nat /\ acctNonce \in Nat
        BY DEF Live, NoncesInv, ChainInv, RowsInv, SafetyInv, TypeOK, L1TypeOK, EthTx
      <3> QED
        BY <3>1 DEF Live, Dead
    <2> QED
      BY <2>1, <2>2 DEF NoncesInv, HistoryNonces
  <1>2. NoncesInv /\ [Next]_vars => NoncesInv'
    BY NextNonces
  <1> QED
    BY <1>1, <1>2, InitNonces, PTL DEF Spec
=============================================================================
