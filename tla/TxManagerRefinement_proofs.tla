--------------------- MODULE TxManagerRefinement_proofs ---------------------
(***************************************************************************)
(* The transaction manager does what Settlement promises, as long as the   *)
(* chain is not reorganised: the initial states map to initial states, and *)
(* every step of requests, goroutines, crashes and node maps to a step of  *)
(* Settlement or to none.                                                  *)
(***************************************************************************)
EXTENDS TxManagerRefinement, TxManagerVerdict_proofs

StatusMap == [i \in Ids |-> StatusOf(db[i])]

(* An absent, legacy or new table maps to an initial state of Settlement. *)
LEMMA InitRefines == Init => Promise!Init
  <1> SUFFICES ASSUME Init PROVE Promise!Init
    OBVIOUS
  <1>1. SettledIds = {}
    BY DEF Init, SettledIds
  <1>2. ASSUME StatusMap \in [Ids -> {"none", "pending"}],
               BroadcastIds \subseteq {i \in Ids : StatusMap[i] = "pending"}
        PROVE  Promise!Init
    BY <1>1, <1>2 DEF Promise!Init, StatusMap
  <1>3. StatusOf(NoRow) = "none" /\ \A i, tx : StatusOf(LegacyRow(i, tx)) = "pending"
    BY DEF StatusOf, NoRow, LegacyRow, Monitored
  <1>4. CASE db = [i \in Ids |-> NoRow] /\ sent = {}
    BY <1>2, <1>3, <1>4 DEF StatusMap, BroadcastIds
  <1>5. ASSUME NEW tx \in LegacyTxs, sent = {tx},
               db = [i \in Ids |-> IF i = tx.id THEN LegacyRow(i, tx) ELSE NoRow]
        PROVE  Promise!Init
    <2>1. tx.id \in Ids
      BY LegacyAssumption DEF LegacyTxs
    <2>2. \A i \in Ids : StatusMap[i] = IF i = tx.id THEN "pending" ELSE "none"
      BY <1>3, <1>5 DEF StatusMap
    <2>3. StatusMap \in [Ids -> {"none", "pending"}]
      BY <2>2 DEF StatusMap
    <2>4. BroadcastIds \subseteq {i \in Ids : StatusMap[i] = "pending"}
      BY <1>5, <2>1, <2>2 DEF BroadcastIds
    <2> QED
      BY <1>2, <2>3, <2>4
  <1> QED
    BY <1>4, <1>5 DEF Init

(* Every step is a step of Settlement or a stutter. *)
LEMMA NextRefines ==
  ASSUME VerdictInv, [Next]_vars, "reorg" \notin Faults
  PROVE  [Promise!Next]_(Promise!avars)
  <1>0. /\ RowsInv /\ SafetyInv /\ TypeOK /\ ChainInv
        /\ \A i \in Ids : db[i] \in Row
    BY DEF VerdictInv, ChainInv, RowsInv, SafetyInv, TypeOK
  <1>1. ASSUME StatusMap' = StatusMap, BroadcastIds' = BroadcastIds, SettledIds' = SettledIds
        PROVE  [Promise!Next]_(Promise!avars)
    BY <1>1 DEF Promise!avars, StatusMap
  <1>2. ASSUME NEW k \in Ids, \A j \in Ids \ {k} : db'[j] = db[j]
        PROVE  StatusMap' = [StatusMap EXCEPT ![k] = StatusOf(db[k])']
    BY <1>2 DEF StatusMap, StatusOf
  <1>3. ASSUME NEW k \in Ids, UNCHANGED <<sent, receipts>>,
               \A j \in Ids \ {k} : db'[j] = db[j],
               StatusOf(db[k])' = StatusOf(db[k])
        PROVE  [Promise!Next]_(Promise!avars)
    BY <1>1, <1>2, <1>3 DEF StatusMap, BroadcastIds, SettledIds
  <1>4. ASSUME NEW r \in Reqs, SendTx(r)
        PROVE  [Promise!Next]_(Promise!avars)
    <2>1. UNCHANGED l1vars
      BY <1>0, <1>4, RequestWrites
    <2>2. BroadcastIds' = BroadcastIds /\ SettledIds' = SettledIds
      BY <2>1 DEF l1vars, BroadcastIds, SettledIds
    <2>3. CASE UNCHANGED db
      BY <1>1, <2>2, <2>3 DEF StatusMap, StatusOf
    <2>4. CASE ~UNCHANGED db
      <3> DEFINE k == req[r].id
      <3>1. /\ k \in Ids /\ db[k].status = "none" /\ db'[k].status = "created"
            /\ \A j \in Ids \ {k} : db'[j] = db[j]
        BY <1>0, <1>4, <2>4, RequestWrites DEF TypeOK
      <3> HIDE DEF k
      <3>2. StatusMap[k] = "none" /\ StatusMap' = [StatusMap EXCEPT ![k] = "pending"]
        BY <1>2, <3>1 DEF StatusMap, StatusOf, Monitored
      <3>3. Promise!Accept(k)
        BY <2>2, <3>2 DEF Promise!Accept, StatusMap
      <3> QED
        BY <3>1, <3>3 DEF Promise!Next
    <2> QED
      BY <2>3, <2>4
  <1>5. ASSUME NEW i \in Ids, monitorTx(i)
        PROVE  [Promise!Next]_(Promise!avars)
    <2>1. OneGoroutine(i) /\ (GoesOn(i) \/ Stops(i))
      BY <1>0, <1>5, GoroutineStep
    <2>2. IsCopyOf(mon[i].m, db[i]) /\ StatusMap[i] = "pending"
      BY <1>0, <2>1 DEF OneGoroutine, SafetyInv, CopyIsCurrent, IsCopyOf, StatusMap, StatusOf
    <2>3. db'[i] = db[i] \/ Stores(i, db'[i])
      BY <1>0, <2>1, GoroutineWrites
    <2>4. \A j \in Ids \ {i} : db'[j] = db[j]
      BY <2>1 DEF OneGoroutine
    <2>5. CASE mon[i].pc = "send" /\ Accept(SignedTx(i))
      <3>1. db'[i] = db[i]
        BY <2>3, <2>5 DEF Stores, HistoryChecked
      <3>2. StatusMap' = StatusMap
        BY <2>4, <3>1 DEF StatusMap, StatusOf
      <3>3. SignedTx(i).id = i
        BY DEF SignedTx, Tx
      <3>4. BroadcastIds' = BroadcastIds \union {i} /\ SettledIds' = SettledIds
        BY <2>5, <3>3 DEF Accept, BroadcastIds, SettledIds
      <3>5. Promise!Broadcast(i)
        BY <2>2, <3>2, <3>4 DEF Promise!Broadcast, StatusMap
      <3> QED
        BY <3>5 DEF Promise!Next
    <2>6. CASE UNCHANGED l1vars
      <3>1. /\ UNCHANGED <<sent, receipts>>
            /\ BroadcastIds' = BroadcastIds /\ SettledIds' = SettledIds
        BY <2>6 DEF l1vars, BroadcastIds, SettledIds
      <3>2. CASE db'[i].status \in Monitored \/ db'[i] = db[i]
        <4>1. StatusOf(db[i])' = StatusOf(db[i])
          BY <2>2, <3>2 DEF StatusOf, StatusMap
        <4> QED
          BY <1>3, <2>4, <3>1, <4>1
      <3>3. CASE Stores(i, db'[i]) /\ db'[i].status = "failed"
        <4>1. StatusMap' = [StatusMap EXCEPT ![i] = "failed"]
          BY <1>2, <2>4, <3>3 DEF StatusOf, Monitored
        <4>2. Promise!Fail(i)
          BY <2>2, <3>1, <4>1 DEF Promise!Fail, StatusMap
        <4> QED
          BY <4>2 DEF Promise!Next
      <3>4. CASE Stores(i, db'[i]) /\ db'[i].status = "confirmed"
        <4>1. StatusMap' = [StatusMap EXCEPT ![i] = "confirmed"]
          BY <1>2, <2>4, <3>4 DEF StatusOf, Monitored
        <4>2. mon[i].pc = "finish" /\ mon[i].seen.ok
          BY <2>2, <3>4 DEF Stores, IsCopyOf, Monitored
        <4>3. PICK rc \in receipts : rc.ok /\ rc.tx \in mon[i].m.history
          BY <4>2 DEF VerdictInv, SeenIsMined, SeenOnChain
        <4>4. rc.tx.id = i
          BY <1>0, <2>2, <4>3 DEF IsCopyOf, RowsInv, HistoryIsOwn
        <4>5. i \in SettledIds
          BY <4>3, <4>4 DEF SettledIds
        <4>6. Promise!Confirm(i)
          BY <2>2, <3>1, <4>1, <4>5 DEF Promise!Confirm, StatusMap
        <4> QED
          BY <4>6 DEF Promise!Next
      <3> QED
        BY <2>2, <2>3, <3>2, <3>3, <3>4 DEF Stores, IsCopyOf, Monitored
    <2> QED
      BY <2>1, <2>5, <2>6 DEF OneGoroutine
  <1>6. CASE Mine /\ UNCHANGED db
    <2>1. PICK t \in sent, ok \in BOOLEAN :
            receipts' = receipts \union {[tx |-> t, ok |-> ok, block |-> head + 1]}
      BY <1>6 DEF Mine
    <2>2. StatusMap' = StatusMap /\ BroadcastIds' = BroadcastIds
      BY <1>6 DEF Mine, StatusMap, StatusOf, BroadcastIds
    <2>3. t.id \in Ids /\ t.id \in BroadcastIds
      BY <1>0 DEF TypeOK, L1TypeOK, EthTx, BroadcastIds
    <2>4. CASE ok
      <3> DEFINE new == [tx |-> t, ok |-> ok, block |-> head + 1]
      <3>0. new.ok /\ new.tx = t /\ receipts' = receipts \union {new}
        BY <2>1, <2>4
      <3> HIDE DEF new
      <3>1. SettledIds' = SettledIds \union {t.id}
        BY <3>0 DEF SettledIds
      <3>2. Promise!Settle(t.id)
        BY <2>2, <2>3, <3>1 DEF Promise!Settle, StatusMap
      <3> QED
        BY <2>3, <3>2 DEF Promise!Next
    <2>5. CASE ~ok
      <3>1. SettledIds' = SettledIds
        BY <2>1, <2>5 DEF SettledIds
      <3> QED
        BY <1>1, <2>2, <3>1
    <2> QED
      BY <2>4, <2>5
  <1>7. CASE UNCHANGED <<db, sent, receipts>>
    BY <1>1, <1>7 DEF StatusMap, StatusOf, BroadcastIds, SettledIds
  <1> QED
    BY <1>4, <1>5, <1>6, <1>7
       DEF Next, Work, monitorTxs, Crash, NodeStep, L1Next, Drop, Reorg, vars, l1vars

(* The transaction manager implements its promise: what is accepted is     *)
(* broadcast only while it is pending, and confirmed only once settled.    *)
THEOREM ManagerKeepsItsPromise ==
  ASSUME "reorg" \notin Faults
  PROVE  Spec => ImplementsSettlement
  <1>1. VerdictInv /\ [Next]_vars => [Promise!Next]_(Promise!avars)
    BY NextRefines
  <1> QED
    BY <1>1, InitRefines, VerdictInvariant, PTL
       DEF Spec, ImplementsSettlement, Promise!Spec
=============================================================================
