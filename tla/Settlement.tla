---------------------------- MODULE Settlement ----------------------------
(***************************************************************************)
(* What the transaction manager promises its caller, without nonces, gas,  *)
(* retries, goroutines or tables: an accepted transaction is broadcast     *)
(* while it is pending and never afterwards, it can settle on L1 only once *)
(* it was broadcast, and it is reported as confirmed only once it settled. *)
(* Settlement may come at any time after the first broadcast, also after   *)
(* the transaction was reported as failed.                                 *)
(***************************************************************************)
CONSTANT Ids

VARIABLES
  status,     \* what GetTxStatus may report of each id
  broadcast,  \* ids with a transaction the L1 node accepted
  settled     \* ids with a successful receipt

avars == <<status, broadcast, settled>>

(* A table left by an earlier release may hold pending rows. *)
Init ==
  /\ status \in [Ids -> {"none", "pending"}]
  /\ broadcast \subseteq {i \in Ids : status[i] = "pending"}
  /\ settled = {}

Accept(i) ==
  /\ status[i] = "none"
  /\ status' = [status EXCEPT ![i] = "pending"]
  /\ UNCHANGED <<broadcast, settled>>

Broadcast(i) ==
  /\ status[i] = "pending"
  /\ broadcast' = broadcast \union {i}
  /\ UNCHANGED <<status, settled>>

Settle(i) ==
  /\ i \in broadcast
  /\ settled' = settled \union {i}
  /\ UNCHANGED <<status, broadcast>>

Confirm(i) ==
  /\ status[i] = "pending"
  /\ i \in settled
  /\ status' = [status EXCEPT ![i] = "confirmed"]
  /\ UNCHANGED <<broadcast, settled>>

Fail(i) ==
  /\ status[i] = "pending"
  /\ status' = [status EXCEPT ![i] = "failed"]
  /\ UNCHANGED <<broadcast, settled>>

Next == \E i \in Ids : Accept(i) \/ Broadcast(i) \/ Settle(i) \/ Confirm(i) \/ Fail(i)

Spec == Init /\ [][Next]_avars
=============================================================================
