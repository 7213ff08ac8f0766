------------------------ MODULE TxManagerRefinement ------------------------
(***************************************************************************)
(* The refinement mapping from the transaction manager to what it          *)
(* promises.                                                               *)
(***************************************************************************)
EXTENDS TxManager

StatusOf(row) ==
  IF row.status \in Monitored THEN "pending" ELSE row.status

BroadcastIds == {t.id : t \in sent}
SettledIds == {rc.tx.id : rc \in {r \in receipts : r.ok}}

Promise == INSTANCE Settlement WITH
             status <- [i \in Ids |-> StatusOf(db[i])],
             broadcast <- BroadcastIds,
             settled <- SettledIds

(* Without reorgs every step of requests, monitor and node is a step of    *)
(* Settlement or changes nothing it speaks of: nothing is broadcast for a  *)
(* row that is not pending, and nothing is confirmed that did not settle.  *)
ImplementsSettlement == Promise!Spec
=============================================================================
