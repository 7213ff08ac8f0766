-------------------------- MODULE TxManagerHistory --------------------------
(***************************************************************************)
(* What the verdicts of the transaction manager mean when the chain is     *)
(* reorganised.  A receipt may be gone by the time monitorTx acts on it,   *)
(* and a confirmed row is never looked at again, so no statement about the *)
(* present chain holds.  A history variable remembers every receipt there  *)
(* ever was; it adds nothing to what the program can do.                   *)
(***************************************************************************)
EXTENDS TxManagerRefinement

VARIABLE mined   \* history variable: every receipt that was ever on the chain

hvars == <<vars, mined>>

HInit == Init /\ mined = receipts

HNext == Next /\ mined' = mined \union receipts'

HSpec == HInit /\ [][HNext]_hvars

WasMined(row, ok) ==
  \E rc \in mined : (rc.ok <=> ok) /\ rc.tx \in row.history /\ rc.block = row.block

(* Through every reorg between the lookup of a receipt, GetLastBlock and   *)
(* the Update: a row is confirmed on the strength of a successful receipt  *)
(* of one of its own transactions, and the block stored with it is the one *)
(* that receipt named.                                                     *)
ConfirmedWasMined ==
  \A i \in Ids : db[i].status = "confirmed" => WasMined(db[i], TRUE)

(* Under reorgs there is one more way to fail than the retry limit: the    *)
(* transaction monitorTx waited for is mined again and reverts before its  *)
(* receipt is read.  The block stored with the row says which it was.      *)
FailedHasCause ==
  \A i \in Ids : db[i].status = "failed" =>
    db[i].retries >= MaxRetries \/ WasMined(db[i], FALSE)

EverSettledIds == {rc.tx.id : rc \in {r \in mined : r.ok}}

LastingPromise == INSTANCE Settlement WITH
                    status <- [i \in Ids |-> StatusOf(db[i])],
                    broadcast <- BroadcastIds,
                    settled <- EverSettledIds

(* With settled read as "had a successful receipt at some time" the        *)
(* manager implements Settlement under reorgs too: a row that a reorg      *)
(* unsettles is not broadcast again once it is finished, and nothing is    *)
(* confirmed that never settled.                                           *)
ImplementsSettlementThroughReorgs == LastingPromise!Spec
=============================================================================
