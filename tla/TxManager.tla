----------------------------- MODULE TxManager -----------------------------
(***************************************************************************)
(* The Ethereum transaction manager (txmanager.Client) over its Postgres   *)
(* table and an L1 node.                                                   *)
(*                                                                         *)
(* Requests are the goroutines of the JSON-RPC server inside               *)
(* interop_sendTx, from the moment the executor has accepted the           *)
(* transaction: Settle calls Client.Add inside a database transaction that *)
(* SendTx then commits.  The monitor is the loop of Client.Start: each     *)
(* cycle reads the unfinished rows and runs one monitorTx goroutine per    *)
(* row, and the next cycle waits for all of them.                          *)
(*                                                                         *)
(* A step is what a goroutine does up to and including one call that       *)
(* others can observe: a statement of the database or a request to the L1  *)
(* node whose answer depends on what others did.                           *)
(***************************************************************************)
EXTENDS L1

CONSTANTS
  Reqs,        \* concurrent interop_sendTx requests
  MaxRetries,  \* EthTxManager.MaxRetries
  ForcedGas,   \* EthTxManager.ForcedGas, 0 for "do not force"
  Gases,       \* gas estimates the L1 node may give
  Suggested,   \* gas prices the L1 node may suggest
  Legacy,      \* ids whose row was written before num_retries existed
  MaxNonce     \* bound: no nonce above it is handed out

ASSUME MaxRetriesAssumption == MaxRetries \in Nat
ASSUME GasAssumption == ForcedGas \in Nat /\ Gases \subseteq Nat
ASSUME SuggestedAssumption == Suggested \subseteq Nat
ASSUME LegacyAssumption == Legacy \subseteq Ids /\ IsFiniteSet(Legacy)
ASSUME MaxNonceAssumption == MaxNonce \in Nat

VARIABLES
  db,     \* state.monitored_txs: the committed row of every id
  req,    \* where each request is, and the row it is about to add
  mon,    \* where each row's monitorTx goroutine is, and its local variables
  acked   \* history variable: ids whose hash SendTx has returned

vars == <<db, req, mon, acked, l1vars>>

(* What a goroutine knows of the last receipt it looked at. *)
Seen == [ok : BOOLEAN, block : Nat]
NoReceipt == [ok |-> FALSE, block |-> 0]

ReqPCs == {"idle", "pending", "insert", "commit"}

MonPCs == {"idle", "check", "pending", "saveNonce", "resume", "sign",
           "getTx", "send", "markSent", "wait", "receipt", "finish"}

(* m is the goroutine's copy of the row, todo the part of its history that *)
(* is still to be looked up, anyFailed is hasFailedReceipts, allMined is   *)
(* allHistoryTxsWereMined, sig the signature of signedTx and seen is       *)
(* lastReceiptChecked; confirmed holds iff seen.ok.                        *)
Monitoring == [pc : MonPCs, m : Row, todo : SUBSET EthTx, anyFailed : BOOLEAN,
               allMined : BOOLEAN, sig : Sigs, seen : Seen]

Requesting == [pc : ReqPCs, id : Ids, row : Row]

TypeOK ==
  /\ db \in [Ids -> Row]
  /\ req \in [Reqs -> Requesting]
  /\ mon \in [Ids -> Monitoring]
  /\ acked \subseteq Ids
  /\ L1TypeOK

Adding(pc, i, row) == [pc |-> pc, id |-> i, row |-> row]

IdleReq == Adding("idle", CHOOSE i \in Ids : TRUE, NoRow)

AtRest(pc, m) == [pc |-> pc, m |-> m, todo |-> {}, anyFailed |-> FALSE,
                  allMined |-> TRUE, sig |-> CHOOSE s \in Sigs : TRUE,
                  seen |-> NoReceipt]

IdleMon == AtRest("idle", NoRow)

---------------------------------------------------------------------------
(* A row of an older release: broadcast once, and num_retries took its     *)
(* column default when the migration added it.                             *)
LegacyTxs == {[id |-> i, nonce |-> 0, gas |-> GasOffset, price |-> 0, sig |-> s] :
                 i \in Legacy, s \in Sigs}

LegacyRow(i, tx) == [NoRow EXCEPT !.status = "sent", !.history = {tx}]

Init ==
  /\ req = [r \in Reqs |-> IdleReq]
  /\ mon = [i \in Ids |-> IdleMon]
  /\ acked = {}
  /\ receipts = {} /\ acctNonce = 0 /\ head = 0
  /\ \/ /\ Legacy = {}
        /\ db = [i \in Ids |-> NoRow]
        /\ pool = {} /\ sent = {}
     \/ \E tx \in LegacyTxs :
          /\ db = [i \in Ids |-> IF i = tx.id THEN LegacyRow(i, tx) ELSE NoRow]
          /\ pool = {tx} /\ sent = {tx}

---------------------------------------------------------------------------
(* getTxNonce.  Its query runs outside the request's database transaction, *)
(* so it sees committed rows only.  The loop over the rows does not look   *)
(* at rows.Err(), so a connection lost in the middle of the result makes   *)
(* it work on a part of the rows.                                          *)
Created == {i \in Ids : db[i].status = "created"}

NonceFromCreated(n) ==
  /\ n <= MaxNonce
  /\ \E i \in Created :
       /\ n = db[i].nonce + 1
       /\ "db" \in Faults \/ \A j \in Created : db[j].nonce <= db[i].nonce

NoCreatedSeen == Created = {} \/ "db" \in Faults

NonceFromNode(n) == n <= MaxNonce /\ IsPendingNonce(n)

---------------------------------------------------------------------------
(* Requests.                                                               *)

(* Add: the first half of getTxNonce. *)
AddReadCreated(r, i) ==
  /\ req[r].pc = "idle"
  /\ \/ \E n \in 0..MaxNonce :
          /\ NonceFromCreated(n)
          /\ req' = [req EXCEPT ![r] = Adding("insert", i, [NoRow EXCEPT !.nonce = n])]
     \/ /\ NoCreatedSeen
        /\ req' = [req EXCEPT ![r] = Adding("pending", i, NoRow)]
  /\ UNCHANGED <<db, mon, acked, l1vars>>

(* Add: PendingNonce. *)
AddPendingNonce(r) ==
  /\ req[r].pc = "pending"
  /\ \E n \in 0..MaxNonce :
       /\ NonceFromNode(n)
       /\ req' = [req EXCEPT ![r] =
                    Adding("insert", req[r].id, [NoRow EXCEPT !.nonce = n])]
  /\ UNCHANGED <<db, mon, acked, l1vars>>

(* The estimate fails when the call reverts (it would today, or one of the *)
(* transactions of this id has already settled) or the node does not       *)
(* answer.                                                                 *)
EstimateMayFail(i) ==
  \/ Faults \intersect {"rpc", "revert"} # {}
  \/ \E t \in db[i].history : Succeeded(t)

(* Add: the gas of a new row. *)
GasOfNewRow(i) ==
  Gases \union (IF ForcedGas > 0 /\ EstimateMayFail(i) THEN {ForcedGas} ELSE {})

(* Add: the new row. *)
NewRow(n, g, p) ==
  [NoRow EXCEPT !.status = "created", !.nonce = n, !.gas = g, !.price = p]

(* storage.Add: the primary key.  An INSERT waits for another uncommitted  *)
(* one of the same id, and is refused when the row is there.               *)
KeyLocked(i) == \E q \in Reqs : req[q].pc = "commit" /\ req[q].id = i
KeyTaken(i) == db[i].status # "none"

(* Faulty variant: an INSERT that replaces the row on a conflict. *)
AddInsertUpsert(r) ==
  /\ req[r].pc = "insert"
  /\ \E g \in GasOfNewRow(req[r].id), p \in Suggested :
       req' = [req EXCEPT ![r] =
                 Adding("commit", req[r].id,
                        NewRow(req[r].row.nonce, g, SuggestedGasPrice(p)))]
  /\ UNCHANGED <<db, mon, acked, l1vars>>

(* Add: EstimateGas, suggestedGasPrice and storage.Add.  After             *)
(* ErrAlreadyExists SendTx rolls back.                                     *)
AddInsert(r) ==
  LET i == req[r].id IN
  /\ req[r].pc = "insert"
  /\ ~KeyLocked(i)
  /\ \/ /\ KeyTaken(i)
        /\ req' = [req EXCEPT ![r] = IdleReq]
     \/ /\ ~KeyTaken(i)
        /\ \E g \in GasOfNewRow(i), p \in Suggested :
             req' = [req EXCEPT ![r] =
                       Adding("commit", i, NewRow(req[r].row.nonce, g, SuggestedGasPrice(p)))]
  /\ UNCHANGED <<db, mon, acked, l1vars>>

(* Add fails at PendingNonce, EstimateGas, SuggestGasPrice or the INSERT;  *)
(* SendTx rolls back and answers with an error.                            *)
AddFail(r) ==
  /\ req[r].pc \in {"pending", "insert"}
  /\ Faults \intersect {"rpc", "db", "revert"} # {}
  /\ req' = [req EXCEPT ![r] = IdleReq]
  /\ UNCHANGED <<db, mon, acked, l1vars>>

(* dbTx.Commit, and the hash is returned. *)
Commit(r) ==
  /\ req[r].pc = "commit"
  /\ db' = [db EXCEPT ![req[r].id] = req[r].row]
  /\ acked' = acked \union {req[r].id}
  /\ req' = [req EXCEPT ![r] = IdleReq]
  /\ UNCHANGED <<mon, l1vars>>

(* Faulty variant: a failed commit is answered with the hash. *)
CommitFailAcked(r) ==
  /\ req[r].pc = "commit"
  /\ "db" \in Faults
  /\ db' \in {db, [db EXCEPT ![req[r].id] = req[r].row]}
  /\ acked' = acked \union {req[r].id}
  /\ req' = [req EXCEPT ![r] = IdleReq]
  /\ UNCHANGED <<mon, l1vars>>

(* dbTx.Commit reports an error, after taking effect or without. *)
CommitFail(r) ==
  /\ req[r].pc = "commit"
  /\ "db" \in Faults
  /\ db' \in {db, [db EXCEPT ![req[r].id] = req[r].row]}
  /\ req' = [req EXCEPT ![r] = IdleReq]
  /\ UNCHANGED <<mon, acked, l1vars>>

(* Executor.Settle, called with the open database transaction. *)
Settle(r) ==
  \/ \E i \in Ids : AddReadCreated(r, i)
  \/ AddPendingNonce(r)
  \/ AddInsert(r)
  \/ AddFail(r)

(* The part of interop_sendTx after Execute. *)
SendTx(r) == Settle(r) \/ Commit(r) \/ CommitFail(r)

---------------------------------------------------------------------------
(* The monitor.                                                            *)

Idle(i) == mon' = [mon EXCEPT ![i] = IdleMon]
Goto(i, pc) == mon' = [mon EXCEPT ![i].pc = pc]

(* storage.Update(m): the whole row is overwritten and the goroutine goes  *)
(* on as next, or the call reports an error, with the row overwritten or   *)
(* not, and the goroutine returns.                                         *)
Update(i, m, next) ==
  \/ /\ db' = [db EXCEPT ![i] = m]
     /\ mon' = [mon EXCEPT ![i] = next]
  \/ /\ "db" \in Faults
     /\ db' \in {db, [db EXCEPT ![i] = m]}
     /\ Idle(i)

(* Faulty variant of LoadRow: the attempts of an old row are not counted. *)
LoadRowAsIs(row) == row

(* monitorTxs, once every goroutine of the previous cycle is done.  The    *)
(* rows are read in one query, whose result may be cut short like the one  *)
(* of getTxNonce.                                                          *)
LoadRow(row) ==
  [row EXCEPT !.retries = IF @ = 0 THEN Cardinality(row.history) ELSE @]

(* Faulty variant of Unfinished: failed rows are picked up again. *)
UnfinishedOrFailed == {i \in Ids : db[i].status \in Monitored \union {"failed"}}

Unfinished == {i \in Ids : db[i].status \in Monitored}

monitorTxs ==
  /\ \A i \in Ids : mon[i].pc = "idle"
  /\ \E S \in SUBSET Unfinished :
       /\ S # {}
       /\ S = Unfinished \/ "db" \in Faults
       /\ mon' = [i \in Ids |->
                    IF i \in S
                    THEN [AtRest("check", LoadRow(db[i])) EXCEPT !.todo = db[i].history]
                    ELSE IdleMon]
  /\ UNCHANGED <<db, req, acked, l1vars>>

(* Faulty variants of CheckHistory: one takes any receipt for a success,   *)
(* one does not notice that a transaction is not mined.                    *)
CheckHistoryAnyReceipt(i) ==
  /\ mon[i].pc = "check"
  /\ \E t \in mon[i].todo :
       \/ /\ ~Mined(t)
          /\ mon' = [mon EXCEPT ![i].todo = @ \ {t}, ![i].allMined = FALSE]
       \/ \E rc \in receipts :
            /\ rc.tx = t
            /\ mon' = [mon EXCEPT ![i].todo = {},
                                  ![i].seen = [ok |-> TRUE, block |-> rc.block]]
  /\ UNCHANGED <<db, req, acked, l1vars>>

CheckHistoryForgetful(i) ==
  /\ mon[i].pc = "check"
  /\ \E t \in mon[i].todo :
       mon' = [mon EXCEPT ![i].todo = @ \ {t},
                          ![i].anyFailed = @ \/ FailedOnL1(t)]
  /\ UNCHANGED <<db, req, acked, l1vars>>

(* CheckTxWasMined for one hash of the history; an error leaves every flag *)
(* as it was, and the first successful receipt ends the loop.              *)
CheckHistory(i) ==
  /\ mon[i].pc = "check"
  /\ \E t \in mon[i].todo :
       \/ /\ "lookup" \in Faults
          /\ mon' = [mon EXCEPT ![i].todo = @ \ {t}]
       \/ /\ ~Mined(t)
          /\ mon' = [mon EXCEPT ![i].todo = @ \ {t}, ![i].allMined = FALSE]
       \/ \E rc \in receipts :
            /\ rc.tx = t
            /\ mon' = IF rc.ok
                      THEN [mon EXCEPT ![i].todo = {},
                                       ![i].seen = [ok |-> TRUE, block |-> rc.block]]
                      ELSE [mon EXCEPT ![i].todo = @ \ {t}, ![i].anyFailed = TRUE]
  /\ UNCHANGED <<db, req, acked, l1vars>>

(* Faulty variant: the newer value always wins. *)
Newer(a, b) == a

Larger(a, b) == IF a > b THEN a ELSE b

NonceNeedsReview(i) == ~mon[i].seen.ok /\ mon[i].anyFailed /\ mon[i].allMined

(* reviewMonitoredTxNonce; a nonce that is not larger is ignored. *)
AdoptNonce(i, n) ==
  LET m == mon[i].m IN
  mon' = [mon EXCEPT ![i] =
            [@ EXCEPT !.pc = "saveNonce",
                      !.m = [m EXCEPT !.nonce = Larger(n, m.nonce)]]]

ReviewNonceReadCreated(i) ==
  /\ mon[i].pc = "check" /\ mon[i].todo = {}
  /\ NonceNeedsReview(i)
  /\ \/ \E n \in 0..MaxNonce : NonceFromCreated(n) /\ AdoptNonce(i, n)
     \/ NoCreatedSeen /\ Goto(i, "pending")
     \/ "db" \in Faults /\ Idle(i)
  /\ UNCHANGED <<db, req, acked, l1vars>>

ReviewNoncePending(i) ==
  /\ mon[i].pc = "pending"
  /\ \/ \E n \in 0..MaxNonce : NonceFromNode(n) /\ AdoptNonce(i, n)
     \/ "rpc" \in Faults /\ Idle(i)
  /\ UNCHANGED <<db, req, acked, l1vars>>

SaveNonce(i) ==
  /\ mon[i].pc = "saveNonce"
  /\ Update(i, mon[i].m, [mon[i] EXCEPT !.pc = "resume"])
  /\ UNCHANGED <<req, acked, l1vars>>

(* After the history loop and, if it was needed, the new nonce: the retry  *)
(* limit comes first, then a receipt that was found, then a new attempt.   *)
HistoryChecked(i) ==
  \/ mon[i].pc = "check" /\ mon[i].todo = {} /\ ~NonceNeedsReview(i)
  \/ mon[i].pc = "resume"

(* Faulty variant: the limit is compared off by one. *)
OutOfRetriesEarly(i) == mon[i].m.retries + 1 >= MaxRetries

OutOfRetries(i) == mon[i].m.retries >= MaxRetries

(* Faulty variant: the return after the Update is missing. *)
GiveUpNoReturn(i) ==
  LET n == [mon[i].m EXCEPT !.status = "failed"] IN
  /\ HistoryChecked(i)
  /\ OutOfRetries(i)
  /\ Update(i, n, AtRest("sign", n))
  /\ UNCHANGED <<req, acked, l1vars>>

GiveUp(i) ==
  /\ HistoryChecked(i)
  /\ OutOfRetries(i)
  /\ Update(i, [mon[i].m EXCEPT !.status = "failed"], IdleMon)
  /\ UNCHANGED <<req, acked, l1vars>>

FoundConfirmed(i) ==
  /\ HistoryChecked(i)
  /\ ~OutOfRetries(i)
  /\ mon[i].seen.ok
  /\ mon' = [mon EXCEPT ![i] = [AtRest("finish", mon[i].m) EXCEPT !.seen = mon[i].seen]]
  /\ UNCHANGED <<db, req, acked, l1vars>>

NewAttempt(i) ==
  /\ HistoryChecked(i)
  /\ ~OutOfRetries(i)
  /\ ~mon[i].seen.ok
  /\ mon[i].m.status # "sent"
  /\ mon' = [mon EXCEPT ![i] = IF mon[i].m.status = "reorged"
                               THEN IdleMon
                               ELSE AtRest("sign", mon[i].m)]
  /\ UNCHANGED <<db, req, acked, l1vars>>

(* reviewMonitoredTx and the Update that follows it.  When the gas price   *)
(* is not to be had the gas has already been raised, and that is stored.   *)
ReviewMonitoredTx(i) ==
  LET m == mon[i].m
      withGas(g) == [m EXCEPT !.gas = Larger(g, @)]
      retried(n) == [n EXCEPT !.retries = @ + 1]
  IN
  /\ HistoryChecked(i)
  /\ ~OutOfRetries(i)
  /\ ~mon[i].seen.ok
  /\ m.status = "sent"
  /\ \/ \E g \in Gases, p \in Suggested :
          LET n == [withGas(g) EXCEPT !.price = Larger(SuggestedGasPrice(p), @)]
          IN  Update(i, n, AtRest("sign", n))
     \/ EstimateMayFail(i) /\ Update(i, retried(m), IdleMon)
     \/ "rpc" \in Faults /\ \E g \in Gases : Update(i, retried(withGas(g)), IdleMon)
  /\ UNCHANGED <<req, acked, l1vars>>

(* Faulty variant: the history is stored only by a later Update. *)
SignUnsaved(i) ==
  /\ mon[i].pc = "sign"
  /\ \E s \in Sigs :
       LET tx == Tx(i, mon[i].m, s)
           m  == mon[i].m
           n  == IF tx \in m.history THEN m ELSE AddHistory(m, tx)
       IN  mon' = [mon EXCEPT ![i] = [AtRest("getTx", n) EXCEPT !.sig = s]]
  /\ UNCHANGED <<db, req, acked, l1vars>>

(* Tx, SignTx (a remote signer may fail), AddHistory and, when the hash is *)
(* new, the Update.                                                        *)
Sign(i) ==
  /\ mon[i].pc = "sign"
  /\ \/ \E s \in Sigs :
          LET tx == Tx(i, mon[i].m, s)
              n  == AddHistory(mon[i].m, tx)
              at(m) == [AtRest("getTx", m) EXCEPT !.sig = s]
          IN  IF tx \in mon[i].m.history
              THEN mon' = [mon EXCEPT ![i] = at(mon[i].m)] /\ UNCHANGED db
              ELSE Update(i, n, at(n))
     \/ "rpc" \in Faults /\ Idle(i) /\ UNCHANGED db
  /\ UNCHANGED <<req, acked, l1vars>>

SignedTx(i) == Tx(i, mon[i].m, mon[i].sig)

(* Faulty variants: a transaction that seems to be known makes a created   *)
(* row sent; a row that was sent once is taken to be in the network.       *)
GetTxMarksSent(i) ==
  /\ mon[i].pc = "getTx"
  /\ \/ ~Known(SignedTx(i)) /\ Goto(i, "send")
     \/ /\ Known(SignedTx(i)) \/ "rpc" \in Faults
        /\ Goto(i, "markSent")
  /\ UNCHANGED <<db, req, acked, l1vars>>

GetTxUnlessSent(i) ==
  /\ mon[i].pc = "getTx"
  /\ Goto(i, IF Known(SignedTx(i)) \/ mon[i].m.status = "sent" THEN "wait" ELSE "send")
  /\ UNCHANGED <<db, req, acked, l1vars>>

(* GetTx: only "not found" leads to SendTx, any other error counts as      *)
(* found.                                                                  *)
GetTx(i) ==
  /\ mon[i].pc = "getTx"
  /\ \/ ~Known(SignedTx(i)) /\ Goto(i, "send")
     \/ /\ Known(SignedTx(i)) \/ "rpc" \in Faults
        /\ Goto(i, "wait")
  /\ UNCHANGED <<db, req, acked, l1vars>>

(* SendTx: accepted, refused, or the answer is lost on the way, after the  *)
(* node took the transaction or before.                                    *)
SendToNetwork(i) ==
  /\ mon[i].pc = "send"
  /\ \/ /\ Acceptable(SignedTx(i))
        /\ Accept(SignedTx(i))
        /\ Goto(i, IF mon[i].m.status = "created" THEN "markSent" ELSE "wait")
     \/ /\ ~Acceptable(SignedTx(i)) \/ "rpc" \in Faults
        /\ Idle(i)
        /\ UNCHANGED l1vars
     \/ /\ "rpc" \in Faults
        /\ Acceptable(SignedTx(i))
        /\ Accept(SignedTx(i))
        /\ Idle(i)
  /\ UNCHANGED <<db, req, acked>>

MarkSent(i) ==
  LET n == [mon[i].m EXCEPT !.status = "sent"] IN
  /\ mon[i].pc = "markSent"
  /\ Update(i, n, [mon[i] EXCEPT !.pc = "wait", !.m = n])
  /\ UNCHANGED <<req, acked, l1vars>>

(* WaitTxToBeMined: the timeout, an error, or a revert (an error too) end  *)
(* the goroutine.                                                          *)
WaitTxToBeMined(i) ==
  /\ mon[i].pc = "wait"
  /\ \/ Succeeded(SignedTx(i)) /\ Goto(i, "receipt")
     \/ Idle(i)
  /\ UNCHANGED <<db, req, acked, l1vars>>

(* GetTxReceipt. *)
GetTxReceipt(i) ==
  /\ mon[i].pc = "receipt"
  /\ \/ \E rc \in receipts :
          /\ rc.tx = SignedTx(i)
          /\ mon' = [mon EXCEPT ![i].pc = "finish",
                                ![i].seen = [ok |-> rc.ok, block |-> rc.block]]
     \/ /\ ~Mined(SignedTx(i)) \/ "rpc" \in Faults
        /\ Idle(i)
  /\ UNCHANGED <<db, req, acked, l1vars>>

(* The verdict.  A receipt in a block the node has not reached (a lagging  *)
(* or reorganised node) or an error of GetLastBlock postpones it.          *)
Finish(i) ==
  LET as(status) == [mon[i].m EXCEPT !.status = status, !.block = mon[i].seen.block]
  IN
  /\ mon[i].pc = "finish"
  /\ IF mon[i].seen.ok
     THEN \/ head >= mon[i].seen.block /\ Update(i, as("confirmed"), IdleMon)
          \/ (head < mon[i].seen.block \/ "rpc" \in Faults)
             /\ Idle(i) /\ UNCHANGED db
     ELSE \/ Update(i, as("failed"), IdleMon)
          \/ Idle(i) /\ UNCHANGED db
  /\ UNCHANGED <<req, acked, l1vars>>

monitorTx(i) ==
  \/ CheckHistory(i)
  \/ ReviewNonceReadCreated(i) \/ ReviewNoncePending(i) \/ SaveNonce(i)
  \/ GiveUp(i) \/ FoundConfirmed(i) \/ NewAttempt(i) \/ ReviewMonitoredTx(i)
  \/ Sign(i) \/ GetTx(i) \/ SendToNetwork(i) \/ MarkSent(i)
  \/ WaitTxToBeMined(i) \/ GetTxReceipt(i) \/ Finish(i)

---------------------------------------------------------------------------
(* The process dies: every goroutine is gone, open database transactions   *)
(* are rolled back, the table and the L1 node stay.                        *)
Crash ==
  /\ "crash" \in Faults
  /\ req' = [r \in Reqs |-> IdleReq]
  /\ mon' = [i \in Ids |-> IdleMon]
  /\ UNCHANGED <<db, acked, l1vars>>

NodeStep == L1Next /\ UNCHANGED <<db, req, mon, acked>>

(* What happens while the process lives. *)
Work ==
  \/ \E r \in Reqs : SendTx(r)
  \/ monitorTxs
  \/ \E i \in Ids : monitorTx(i)
  \/ NodeStep

Next == Work \/ Crash

Spec == Init /\ [][Next]_vars

---------------------------------------------------------------------------
(* Safety.                                                                 *)

(* Whatever was broadcast is in the history of its stored row, through     *)
(* every crash, failed Update and overlapping request: monitorTx stores    *)
(* the hash before SendTx, and no later Update of the row loses it.        *)
BroadcastRecorded == \A t \in sent : t \in db[t.id].history

(* "sent means that at least a eth tx was sent to the network": the status *)
(* is never stored on the strength of a refused or unanswered SendTx.      *)
SentWasBroadcast ==
  \A i \in Ids : db[i].status = "sent" => \E t \in db[i].history : t \in sent

(* The retry limit bounds what monitorTx broadcasts for one row: at most   *)
(* MaxRetries different transactions, whatever fails in between, also for  *)
(* a row that was there before num_retries.                                *)
BoundedAttempts ==
  \A i \in Ids : Cardinality({t \in sent : t.id = i}) <= MaxRetries

(* A hash SendTx has returned to its caller has a row, although the commit *)
(* is a step of its own that other requests for the same id race with.     *)
AckedIsDurable == \A i \in acked : db[i].status # "none"

IsCopyOf(m, row) ==
  /\ row.status \in Monitored
  /\ m.status = row.status /\ m.history = row.history
  /\ m.gas = row.gas /\ m.price = row.price
  /\ m.nonce >= row.nonce /\ m.retries >= row.retries

(* monitorTx always works on the current row although it reads it only     *)
(* once: nobody else changes the status, the history, the gas or the gas   *)
(* price of a row while its goroutine runs, and the retries and the nonce  *)
(* it holds are never behind the stored ones.                              *)
CopyIsCurrent ==
  \A i \in Ids : mon[i].pc # "idle" => IsCopyOf(mon[i].m, db[i])

MinedWhereStored(i) ==
  \E rc \in receipts : rc.ok /\ rc.tx \in db[i].history /\ rc.block = db[i].block

(* Without reorgs a confirmed row has a successful receipt of one of its   *)
(* own transactions, in the block that is stored with it.                  *)
ConfirmedMeansMined ==
  \A i \in Ids : db[i].status = "confirmed" => MinedWhereStored(i)

(* Without reorgs only the retry limit makes monitorTx give a row up: a    *)
(* reverted transaction alone never does.                                  *)
FailedIsOutOfRetries ==
  \A i \in Ids : db[i].status = "failed" => db[i].retries >= MaxRetries

(* The transactions of i that have settled or still can. *)
Live(i) == {t \in sent : t.id = i /\ (Succeeded(t) \/ t.nonce >= acctNonce)}

(* The data of one row never has two transactions with different nonces    *)
(* that can both be mined: reviewMonitoredTxNonce moves on only when the   *)
(* old nonce is used up.                                                   *)
NoDuplicateData == \A i \in Ids : \A t, u \in Live(i) : t.nonce = u.nonce

(* A finished row is never written again: the goroutines of a cycle work   *)
(* on copies, and only the wait for all of them keeps a late one from      *)
(* overwriting a newer row.                                                *)
TerminalIsFinal ==
  [][\A i \in Ids : db[i].status \in Terminal => db'[i] = db[i]]_vars

(* No Update writes an older state of the row back: nonce, gas, gas price  *)
(* and retries never decrease, no hash is forgotten, a sent row never      *)
(* becomes created again and no row disappears.                            *)
RowsOnlyAdvance ==
  [][\A i \in Ids :
       LET old == db[i] new == db'[i] IN
       old.status # "none" =>
         /\ new.status # "none"
         /\ old.status = "sent" => new.status # "created"
         /\ new.nonce >= old.nonce /\ new.gas >= old.gas
         /\ new.price >= old.price /\ new.retries >= old.retries
         /\ old.history \subseteq new.history]_vars

(* What makes the safety properties inductive.  A row that is being added  *)
(* is not in the table yet, an absent row is empty, and the transaction    *)
(* monitorTx looks up and sends is one it has stored.                      *)
AddedRowsAreNew ==
  \A r \in Reqs :
    req[r].pc = "commit" =>
      /\ db[req[r].id].status = "none"
      /\ req[r].row.status = "created"
      /\ \A q \in Reqs : req[q].pc = "commit" /\ req[q].id = req[r].id => q = r

AbsentRowsAreEmpty == \A i \in Ids : db[i].status = "none" => db[i].history = {}

SignedIsStored ==
  \A i \in Ids : mon[i].pc \in {"getTx", "send"} => SignedTx(i) \in db[i].history

SafetyInv ==
  /\ TypeOK
  /\ AddedRowsAreNew
  /\ AbsentRowsAreEmpty
  /\ CopyIsCurrent
  /\ SignedIsStored
  /\ BroadcastRecorded

---------------------------------------------------------------------------
(* Liveness.  The Start loop and its goroutines keep running, the node     *)
(* eventually mines a transaction that keeps being in its pool, and after  *)
(* some point the process does not crash any more.                         *)

MineFromPool ==
  /\ Mine
  /\ \E t \in pool, ok \in BOOLEAN :
       [tx |-> t, ok |-> ok, block |-> head + 1] \in receipts'
  /\ UNCHANGED <<db, req, mon, acked>>

FairSpec ==
  /\ Spec
  /\ WF_vars(monitorTxs)
  /\ \A i \in Ids : WF_vars(monitorTx(i))
  /\ SF_vars(MineFromPool)
  /\ <>[][Work]_vars

NonceShared(i) ==
  \E j \in Ids \ {i} : db[j].status # "none" /\ db[j].nonce = db[i].nonce

(* Every transaction the caller got a hash for is eventually confirmed,    *)
(* through crashes and evictions from the pool, unless another row was     *)
(* given the same nonce.                                                   *)
AckedIsSettled ==
  \A i \in Ids : i \in acked ~> db[i].status = "confirmed" \/ NonceShared(i)

---------------------------------------------------------------------------
(* What comments of the code say and the code does not do.                 *)

(* "mark this as failed ... to avoid to monitor this tx infinitely". *)
NotMonitoredForever ==
  \A i \in Ids : db[i].status \in Monitored ~> db[i].status \in Terminal

(* "failed means the tx was already mined and failed". *)
FailedIsNotSettled ==
  \A i \in Ids : db[i].status = "failed" => \A t \in db[i].history : ~Succeeded(t)

(* "if there are pending txs, we adjust the nonce accordingly": a new row  *)
(* does not take the nonce of one that is still to be mined.               *)
UnminedNoncesDiffer ==
  \A i, j \in Unfinished :
    i # j /\ db[i].nonce >= acctNonce => db[i].nonce # db[j].nonce
=============================================================================
