---------------------- MODULE TxManagerHistory_proofs ----------------------
(***************************************************************************)
(* What the verdicts of monitorTx mean for every set of faults, reorgs     *)
(* included: every confirmed row once had the successful receipt it names, *)
(* every failed row its cause, and the manager implements Settlement.      *)
(***************************************************************************)
EXTENDS TxManagerHistory, TxManagerVerdict_proofs

(* What a goroutine remembers of a receipt was once on the chain.  It      *)
(* comes to a verdict with a receipt in hand, a successful one or not.     *)
SeenInPast(x) ==
  \E rc \in mined : /\ rc.ok <=> x.seen.ok
                    /\ rc.tx \in x.m.history
                    /\ rc.block = x.seen.block

SeenWasMined ==
  \A i \in Ids :
    mon[i].pc # "idle" /\ (mon[i].seen.ok \/ mon[i].pc = "finish") => SeenInPast(mon[i])

HistoryInv ==
  /\ ChainInv
  /\ receipts \subseteq mined
  /\ TodoIsHistory
  /\ SeenWasMined
  /\ ConfirmedWasMined
  /\ FailedHasCause

(* A step of the manager with its history is a step of the manager, and    *)
(* the history only grows.                                                 *)
LEMMA HistoryGrows ==
  ASSUME receipts \subseteq mined, [HNext]_hvars
  PROVE  /\ [Next]_vars /\ mined \subseteq mined' /\ receipts' \subseteq mined'
         /\ mined' = mined \union receipts' \/ UNCHANGED <<mined, receipts>>
BY DEF HNext, hvars, vars, l1vars

LEMMA InitHistory == HInit => HistoryInv
<1> SUFFICES ASSUME HInit PROVE HistoryInv
  OBVIOUS
<1>1. Init /\ mined = receipts
  BY DEF HInit
<1>2. ChainInv
  BY <1>1, InitChain
<1>3. TodoIsHistory /\ SeenWasMined
  BY <1>1 DEF Init, TodoIsHistory, SeenWasMined, IdleMon, AtRest
<1>4. \A i \in Ids : db[i].status \notin Terminal
  <2>1. NoRow.status \notin Terminal /\ \A i, tx : LegacyRow(i, tx).status \notin Terminal
    BY DEF NoRow, LegacyRow, Terminal
  <2> QED
    BY <1>1, <2>1 DEF Init
<1> QED
  BY <1>1, <1>2, <1>3, <1>4 DEF HistoryInv, ConfirmedWasMined, FailedHasCause, Terminal

LEMMA NextHistory ==
  ASSUME HistoryInv, [HNext]_hvars
  PROVE  HistoryInv'
<1>0. /\ [Next]_vars /\ mined \subseteq mined' /\ receipts' \subseteq mined'
      /\ receipts \subseteq mined /\ receipts \subseteq mined'
  BY HistoryGrows DEF HistoryInv
<1>1. ChainInv /\ ChainInv' /\ RowsInv /\ SafetyInv /\ TypeOK
  BY <1>0, NextChain DEF HistoryInv, ChainInv, RowsInv, SafetyInv
<1> DEFINE Running(i) ==
             /\ mon'[i].pc = "check" => mon'[i].todo \subseteq mon'[i].m.history
             /\ mon'[i].pc # "idle" /\ (mon'[i].seen.ok \/ mon'[i].pc = "finish") =>
                  SeenInPast(mon[i])'
           Stored(i) ==
             /\ db'[i].status = "confirmed" => WasMined(db[i], TRUE)'
             /\ db'[i].status = "failed" =>
                  db'[i].retries >= MaxRetries \/ WasMined(db[i], FALSE)'
<1>2. ASSUME NEW i \in Ids, mon'[i] = mon[i] \/ mon'[i].pc = "idle" PROVE Running(i)
  BY <1>0, <1>2 DEF HistoryInv, TodoIsHistory, SeenWasMined, SeenInPast
<1>3. ASSUME NEW i \in Ids, db'[i] = db[i] PROVE Stored(i)
  BY <1>0, <1>3 DEF HistoryInv, ConfirmedWasMined, FailedHasCause, WasMined
<1>4. ASSUME \A i \in Ids : Running(i) /\ Stored(i) PROVE HistoryInv'
  BY <1>0, <1>1, <1>4 DEF HistoryInv, TodoIsHistory, SeenWasMined, ConfirmedWasMined, FailedHasCause
<1> HIDE DEF Running, Stored
<1>5. ASSUME NEW r \in Reqs, SendTx(r) PROVE HistoryInv'
  <2>1. UNCHANGED mon /\ \A i \in Ids : db'[i] = db[i] \/ db'[i].status = "created"
    BY <1>1, <1>5, RequestWrites DEF TypeOK
  <2>2. ASSUME NEW i \in Ids PROVE Stored(i)
    BY <1>3, <2>1 DEF Stored
  <2>3. ASSUME NEW i \in Ids PROVE Running(i)
    BY <1>2, <2>1
  <2> QED
    BY <1>4, <2>2, <2>3
<1>6. CASE monitorTxs
  <2>1. PICK S \in SUBSET Unfinished :
          mon' = [i \in Ids |->
                    IF i \in S
                    THEN [AtRest("check", LoadRow(db[i])) EXCEPT !.todo = db[i].history]
                    ELSE IdleMon]
    BY <1>6 DEF monitorTxs
  <2>2. ASSUME NEW i \in Ids, i \in S PROVE Running(i)
    <3>1. /\ mon'[i].pc = "check" /\ ~mon'[i].seen.ok
          /\ mon'[i].m = LoadRow(db[i]) /\ mon'[i].todo = db[i].history
      BY <2>1, <2>2 DEF AtRest, NoReceipt
    <3>2. LoadRow(db[i]).history = db[i].history
      BY <1>1 DEF LoadRow, TypeOK, Row
    <3> QED
      BY <3>1, <3>2 DEF Running
  <2>3. ASSUME NEW i \in Ids, i \notin S PROVE Running(i)
    <3>1. mon'[i].pc = "idle"
      BY <2>1, <2>3 DEF IdleMon, AtRest
    <3> QED
      BY <1>2, <3>1
  <2>4. ASSUME NEW i \in Ids PROVE Stored(i)
    BY <1>3, <1>6 DEF monitorTxs
  <2> QED
    BY <1>4, <2>2, <2>3, <2>4
<1>7. ASSUME NEW i \in Ids, monitorTx(i) PROVE HistoryInv'
  <2> DEFINE x == mon[i]
             y == mon'[i]
  <2>1. OneGoroutine(i) /\ (GoesOn(i) \/ Stops(i))
    BY <1>1, <1>7, GoroutineStep
  <2>2. IsCopyOf(x.m, db[i]) /\ x.m \in Row
    BY <1>1, <2>1 DEF OneGoroutine, SafetyInv, CopyIsCurrent, TypeOK, Monitoring
  <2>3. db'[i] = db[i] \/ Stores(i, db'[i])
    BY <1>1, <2>1, GoroutineWrites
  <2>4. y.pc = "check" => y.todo \subseteq y.m.history
    <3> SUFFICES ASSUME y.pc = "check" PROVE y.todo \subseteq y.m.history
      OBVIOUS
    <3>1. Looks(i)
      BY <2>1 DEF GoesOn, Stops, ReviewsNonce, Resumes, Finds, Attempts, Signs, MovesOn,
                  Marks, GetsReceipt, IdleMon, AtRest
    <3>2. y.todo \subseteq x.todo /\ y.m = x.m /\ x.pc = "check"
      BY <3>1 DEF Looks
    <3> QED
      BY <3>2 DEF HistoryInv, TodoIsHistory
  <2>5. ASSUME y.pc # "idle", y.seen.ok \/ y.pc = "finish" PROVE SeenInPast(mon[i])'
    <3> SUFFICES \E rc \in mined : /\ rc.ok <=> y.seen.ok
                                   /\ rc.tx \in y.m.history
                                   /\ rc.block = y.seen.block
      BY <1>0 DEF SeenInPast
    <3>1. CASE y.seen = x.seen /\ y.m.history = x.m.history /\ x.seen.ok
      BY <2>1, <3>1 DEF OneGoroutine, HistoryInv, SeenWasMined, SeenInPast
    <3>2. CASE Looks(i)
      <4>1. \/ y.seen = x.seen
            \/ \E t \in x.todo : \E rc \in receipts :
                 rc.tx = t /\ rc.ok /\ y.seen = [ok |-> TRUE, block |-> rc.block]
        BY <3>2 DEF Looks
      <4>2. y.m = x.m /\ x.todo \subseteq x.m.history /\ y.seen.ok
        BY <2>5, <3>2 DEF Looks, HistoryInv, TodoIsHistory
      <4>3. CASE y.seen = x.seen
        BY <3>1, <4>2, <4>3
      <4>4. ASSUME NEW rc \in receipts, rc.tx \in x.todo, rc.ok,
                   y.seen = [ok |-> TRUE, block |-> rc.block]
            PROVE  (rc.ok <=> y.seen.ok) /\ rc.tx \in y.m.history /\ rc.block = y.seen.block
        BY <4>2, <4>4
      <4> QED
        BY <1>0, <4>1, <4>3, <4>4
    <3>3. CASE GetsReceipt(i)
      <4>1. SignedTx(i) \in y.m.history
        BY <1>1, <2>2, <3>3 DEF GetsReceipt, RowsInv, SignedStays, IsCopyOf
      <4>2. PICK rc \in receipts :
              rc.tx = SignedTx(i) /\ y.seen = [ok |-> rc.ok, block |-> rc.block]
        BY <3>3 DEF GetsReceipt
      <4> QED
        BY <1>0, <4>1, <4>2
    <3>4. CASE Finds(i)
      BY <3>1, <3>4 DEF Finds
    <3>5. CASE ReviewsNonce(i) \/ Resumes(i) \/ MovesOn(i) \/ Marks(i)
      <4>1. y.seen = x.seen /\ y.m.history = x.m.history /\ y.pc # "finish"
        BY <3>5 DEF ReviewsNonce, Resumes, MovesOn, Marks
      <4> QED
        BY <2>5, <3>1, <4>1
    <3> QED
      BY <2>1, <2>5, <3>2, <3>3, <3>4, <3>5 DEF GoesOn, Stops, Attempts, Signs, IdleMon, AtRest
  <2>6. Running(i)
    BY <2>4, <2>5 DEF Running
  <2>7. ASSUME Stores(i, db'[i]) PROVE Stored(i)
    <3>1. x.m.status \notin {"confirmed", "failed"}
      BY <2>2 DEF IsCopyOf, Monitored
    <3>2. ASSUME x.pc = "finish", db'[i].history = x.m.history, db'[i].block = x.seen.block
          PROVE  /\ x.seen.ok => WasMined(db[i], TRUE)'
                 /\ ~x.seen.ok => WasMined(db[i], FALSE)'
      <4>1. PICK rc \in mined : /\ rc.ok <=> x.seen.ok
                                /\ rc.tx \in x.m.history
                                /\ rc.block = x.seen.block
        BY <3>2 DEF HistoryInv, SeenWasMined, SeenInPast
      <4> QED
        BY <1>0, <3>2, <4>1 DEF WasMined
    <3>3. ASSUME db'[i].status = "confirmed" PROVE WasMined(db[i], TRUE)'
      <4>1. /\ x.pc = "finish" /\ x.seen.ok
            /\ db'[i].history = x.m.history /\ db'[i].block = x.seen.block
        BY <2>7, <3>1, <3>3 DEF Stores
      <4> QED
        BY <3>2, <4>1
    <3>4. ASSUME db'[i].status = "failed"
          PROVE  db'[i].retries >= MaxRetries \/ WasMined(db[i], FALSE)'
      <4>1. CASE OutOfRetries(i)
        <5>1. db'[i].retries >= MaxRetries
          BY <2>2, <2>7, <4>1, MaxRetriesAssumption DEF Stores, Rewrites, OutOfRetries, Row
        <5> QED
          BY <5>1
      <4>2. CASE ~OutOfRetries(i)
        <5>1. /\ x.pc = "finish" /\ ~x.seen.ok
              /\ db'[i].history = x.m.history /\ db'[i].block = x.seen.block
          BY <2>7, <3>1, <3>4, <4>2 DEF Stores
        <5> QED
          BY <3>2, <5>1
      <4> QED
        BY <4>1, <4>2
    <3> QED
      BY <3>3, <3>4 DEF Stored
  <2>8. \A j \in Ids \ {i} : Running(j) /\ Stored(j)
    BY <1>2, <1>3, <2>1 DEF OneGoroutine
  <2>9. Stored(i)
    BY <1>3, <2>3, <2>7
  <2> QED
    BY <1>4, <2>6, <2>8, <2>9
<1>8. CASE UNCHANGED db /\ \A i \in Ids : mon'[i] = mon[i] \/ mon'[i].pc = "idle"
  BY <1>2, <1>3, <1>4, <1>8
<1> QED
  BY <1>0, <1>5, <1>6, <1>7, <1>8 DEF Next, Work, Crash, NodeStep, vars, IdleMon, AtRest

(* HistoryInv is an invariant under every set of faults.                   *)
THEOREM HistoryInvariant == HSpec => []HistoryInv
<1>1. HistoryInv /\ [HNext]_hvars => HistoryInv'
  BY NextHistory
<1> QED
  BY <1>1, InitHistory, PTL DEF HSpec

(* Under every fault, reorgs included, a confirmed row once had the        *)
(* successful receipt of one of its transactions in the block it names.    *)
THEOREM ConfirmedRowsWereMined == HSpec => []ConfirmedWasMined
<1>1. HistoryInv => ConfirmedWasMined
  BY DEF HistoryInv
<1> QED
  BY <1>1, HistoryInvariant, PTL

(* Under every fault a failed row is out of retries or had the failed      *)
(* receipt of one of its transactions in the block it names.               *)
THEOREM FailedRowsHaveACause == HSpec => []FailedHasCause
<1>1. HistoryInv => FailedHasCause
  BY DEF HistoryInv
<1> QED
  BY <1>1, HistoryInvariant, PTL

---------------------------------------------------------------------------
(* The refinement.                                                         *)

StatusMap == [i \in Ids |-> StatusOf(db[i])]

LEMMA InitKeepsPromise == HInit => LastingPromise!Init
<1> SUFFICES ASSUME HInit PROVE LastingPromise!Init
  OBVIOUS
<1>0. Init /\ mined = {}
  BY DEF HInit, Init
<1>1. EverSettledIds = {}
  BY <1>0 DEF EverSettledIds
<1>2. ASSUME StatusMap \in [Ids -> {"none", "pending"}],
             BroadcastIds \subseteq {i \in Ids : StatusMap[i] = "pending"}
      PROVE  LastingPromise!Init
  BY <1>1, <1>2 DEF LastingPromise!Init, StatusMap
<1>3. StatusOf(NoRow) = "none" /\ \A i, tx : StatusOf(LegacyRow(i, tx)) = "pending"
  BY DEF StatusOf, NoRow, LegacyRow, Monitored
<1>4. CASE db = [i \in Ids |-> NoRow] /\ sent = {}
  BY <1>2, <1>3, <1>4 DEF StatusMap, BroadcastIds
<1>5. ASSUME NEW tx \in LegacyTxs, sent = {tx},
             db = [i \in Ids |-> IF i = tx.id THEN LegacyRow(i, tx) ELSE NoRow]
      PROVE  LastingPromise!Init
  <2>1. tx.id \in Ids
    BY LegacyAssumption DEF LegacyTxs
  <2>2. \A i \in Ids : StatusMap[i] = IF i = tx.id THEN "pending" ELSE "none"
    BY <1>3, <1>5 DEF StatusMap
  <2>3. StatusMap \in [Ids -> {"none", "pending"}]
    BY <2>2 DEF StatusMap
  <2>4. BroadcastIds \subseteq {i \in Ids : StatusMap[i] = "pending"}
    BY <1>5, <2>1, <2>2 DEF BroadcastIds
  <2> QED
    BY <1>2, <2>3, <2>4
<1> QED
  BY <1>0, <1>4, <1>5 DEF Init

(* Every step is a step of Settlement or a stutter; a reorg is a stutter.  *)
LEMMA NextKeepsPromise ==
  ASSUME HistoryInv, [HNext]_hvars
  PROVE  [LastingPromise!Next]_(LastingPromise!avars)
<1> DEFINE Goal == [LastingPromise!Next]_(LastingPromise!avars)
<1>0. /\ RowsInv /\ SafetyInv /\ TypeOK /\ [Next]_vars
      /\ receipts \subseteq mined
      /\ mined' = mined \union receipts' \/ UNCHANGED <<mined, receipts>>
  BY HistoryGrows DEF HistoryInv, ChainInv, RowsInv, SafetyInv
<1>1. ASSUME StatusMap' = StatusMap, BroadcastIds' = BroadcastIds,
             EverSettledIds' = EverSettledIds
      PROVE  Goal
  BY <1>1 DEF LastingPromise!avars, StatusMap
<1>2. ASSUME NEW k \in Ids, \A j \in Ids \ {k} : db'[j] = db[j]
      PROVE  StatusMap' = [StatusMap EXCEPT ![k] = StatusOf(db[k])']
  BY <1>2 DEF StatusMap, StatusOf
<1>3. ASSUME receipts' \subseteq mined PROVE EverSettledIds' = EverSettledIds
  <2>1. mined' = mined
    BY <1>0, <1>3
  <2> QED
    BY <2>1 DEF EverSettledIds
<1>4. ASSUME NEW r \in Reqs, SendTx(r) PROVE Goal
  <2>1. UNCHANGED l1vars
    BY <1>0, <1>4, RequestWrites
  <2>2. BroadcastIds' = BroadcastIds /\ EverSettledIds' = EverSettledIds
    BY <1>0, <1>3, <2>1 DEF l1vars, BroadcastIds
  <2>3. CASE UNCHANGED db
    BY <1>1, <2>2, <2>3 DEF StatusMap, StatusOf
  <2>4. CASE ~UNCHANGED db
    <3> DEFINE k == req[r].id
    <3>1. /\ k \in Ids /\ db[k].status = "none" /\ db'[k].status = "created"
          /\ \A j \in Ids \ {k} : db'[j] = db[j]
      BY <1>0, <1>4, <2>4, RequestWrites DEF TypeOK
    <3> HIDE DEF k
    <3>2. StatusMap[k] = "none" /\ StatusMap' = [StatusMap EXCEPT ![k] = "pending"]
      BY <1>2, <3>1 DEF StatusMap, StatusOf, Monitored
    <3>3. LastingPromise!Accept(k)
      BY <2>2, <3>2 DEF LastingPromise!Accept, StatusMap
    <3> QED
      BY <3>1, <3>3 DEF LastingPromise!Next
  <2> QED
    BY <2>3, <2>4
<1>5. ASSUME NEW i \in Ids, monitorTx(i) PROVE Goal
  <2>1. OneGoroutine(i) /\ (GoesOn(i) \/ Stops(i))
    BY <1>0, <1>5, GoroutineStep
  <2>2. IsCopyOf(mon[i].m, db[i]) /\ StatusMap[i] = "pending"
    BY <1>0, <2>1 DEF OneGoroutine, SafetyInv, CopyIsCurrent, IsCopyOf, StatusMap, StatusOf
  <2>3. db'[i] = db[i] \/ Stores(i, db'[i])
    BY <1>0, <2>1, GoroutineWrites
  <2>4. \A j \in Ids \ {i} : db'[j] = db[j]
    BY <2>1 DEF OneGoroutine
  <2>5. EverSettledIds' = EverSettledIds
    <3>1. receipts' = receipts
      BY <2>1 DEF OneGoroutine, l1vars, Accept
    <3> QED
      BY <1>0, <1>3, <3>1
  <2>6. CASE mon[i].pc = "send" /\ Accept(SignedTx(i))
    <3>1. db'[i] = db[i]
      BY <2>3, <2>6 DEF Stores, HistoryChecked
    <3>2. StatusMap' = StatusMap
      BY <2>4, <3>1 DEF StatusMap, StatusOf
    <3>3. SignedTx(i).id = i
      BY DEF SignedTx, Tx
    <3>4. BroadcastIds' = BroadcastIds \union {i}
      BY <2>6, <3>3 DEF Accept, BroadcastIds
    <3>5. LastingPromise!Broadcast(i)
      BY <2>2, <2>5, <3>2, <3>4 DEF LastingPromise!Broadcast, StatusMap
    <3> QED
      BY <3>5 DEF LastingPromise!Next
  <2>7. CASE UNCHANGED l1vars
    <3>1. BroadcastIds' = BroadcastIds
      BY <2>7 DEF l1vars, BroadcastIds
    <3>2. CASE db'[i].status \in Monitored \/ db'[i] = db[i]
      <4>1. StatusOf(db[i])' = StatusOf(db[i])
        BY <2>2, <3>2 DEF StatusOf, StatusMap
      <4>2. StatusMap' = StatusMap
        BY <1>2, <2>4, <4>1 DEF StatusMap
      <4> QED
        BY <1>1, <2>5, <3>1, <4>2
    <3>3. CASE Stores(i, db'[i]) /\ db'[i].status = "failed"
      <4>1. StatusMap' = [StatusMap EXCEPT ![i] = "failed"]
        BY <1>2, <2>4, <3>3 DEF StatusOf, Monitored
      <4>2. LastingPromise!Fail(i)
        BY <2>2, <2>5, <3>1, <4>1 DEF LastingPromise!Fail, StatusMap
      <4> QED
        BY <4>2 DEF LastingPromise!Next
    <3>4. CASE Stores(i, db'[i]) /\ db'[i].status = "confirmed"
      <4>1. StatusMap' = [StatusMap EXCEPT ![i] = "confirmed"]
        BY <1>2, <2>4, <3>4 DEF StatusOf, Monitored
      <4>2. mon[i].pc = "finish" /\ mon[i].seen.ok
        BY <2>2, <3>4 DEF Stores, IsCopyOf, Monitored
      <4>3. PICK rc \in mined : rc.ok /\ rc.tx \in mon[i].m.history
        BY <4>2 DEF HistoryInv, SeenWasMined, SeenInPast
      <4>4. rc.tx.id = i
        BY <1>0, <2>2, <4>3 DEF IsCopyOf, RowsInv, HistoryIsOwn
      <4>5. i \in EverSettledIds
        BY <4>3, <4>4 DEF EverSettledIds
      <4>6. LastingPromise!Confirm(i)
        BY <2>2, <2>5, <3>1, <4>1, <4>5 DEF LastingPromise!Confirm, StatusMap
      <4> QED
        BY <4>6 DEF LastingPromise!Next
    <3> QED
      BY <2>2, <2>3, <3>2, <3>3, <3>4 DEF Stores, IsCopyOf, Monitored
  <2> QED
    BY <2>1, <2>6, <2>7 DEF OneGoroutine
<1>6. CASE Mine /\ UNCHANGED db
  <2>1. PICK t \in sent, ok \in BOOLEAN :
          receipts' = receipts \union {[tx |-> t, ok |-> ok, block |-> head + 1]}
    BY <1>6 DEF Mine
  <2>2. StatusMap' = StatusMap /\ BroadcastIds' = BroadcastIds
    BY <1>6 DEF Mine, StatusMap, StatusOf, BroadcastIds
  <2>3. t.id \in Ids /\ t.id \in BroadcastIds
    BY <1>0 DEF TypeOK, L1TypeOK, EthTx, BroadcastIds
  <2> DEFINE new == [tx |-> t, ok |-> ok, block |-> head + 1]
  <2>4. (new.ok <=> ok) /\ new.tx = t /\ receipts' = receipts \union {new}
    BY <2>1
  <2> HIDE DEF new
  <2>5. mined' = mined \union {new}
    BY <1>0, <2>4
  <2>6. CASE ok
    <3>1. EverSettledIds' = EverSettledIds \union {t.id}
      BY <2>4, <2>5, <2>6 DEF EverSettledIds
    <3>2. LastingPromise!Settle(t.id)
      BY <2>2, <2>3, <3>1 DEF LastingPromise!Settle, StatusMap
    <3> QED
      BY <2>3, <3>2 DEF LastingPromise!Next
  <2>7. CASE ~ok
    <3>1. EverSettledIds' = EverSettledIds
      BY <2>4, <2>5, <2>7 DEF EverSettledIds
    <3> QED
      BY <1>1, <2>2, <3>1
  <2> QED
    BY <2>6, <2>7
<1>7. CASE UNCHANGED <<db, sent>> /\ receipts' \subseteq receipts
  <2>1. EverSettledIds' = EverSettledIds
    BY <1>0, <1>3, <1>7
  <2> QED
    BY <1>1, <1>7, <2>1 DEF StatusMap, StatusOf, BroadcastIds
<1> QED
  BY <1>0, <1>4, <1>5, <1>6, <1>7
     DEF Next, Work, monitorTxs, Crash, NodeStep, L1Next, Drop, Reorg, vars, l1vars

(* The transaction manager keeps its promise under every fault, reorgs     *)
(* included, when settled means that it settled at some time.              *)
THEOREM ManagerKeepsItsPromiseThroughReorgs == HSpec => ImplementsSettlementThroughReorgs
<1>1. HistoryInv /\ [HNext]_hvars => [LastingPromise!Next]_(LastingPromise!avars)
  BY NextKeepsPromise
<1> QED
  BY <1>1, InitKeepsPromise, HistoryInvariant, PTL
     DEF HSpec, ImplementsSettlementThroughReorgs, LastingPromise!Spec
=============================================================================
