--------------------------- MODULE Client_proofs ---------------------------
(***************************************************************************)
(* Safety of interop_sendTx and of its callers, for any number of callers, *)
(* requests, rollups and transactions.                                     *)
(***************************************************************************)
EXTENDS Client, TLAPS

(* What has a status has a row, and what was broadcast has a status.       *)
RowsAreThere ==
  /\ \A h \in Hashes : status[h] # "none" => IsStored(h)
  /\ \A h \in broadcast : status[h] # "none"

TypeInv == TypeOK /\ RowsAreThere

(* An uncommitted row holds up the others of its hash and is the first, so *)
(* what a request was told of is still what it has stored.                 *)
FirstOfItsHash ==
  \A q \in Reqs : At(q, "commit") =>
    /\ status[Key(q)] = "none"
    /\ \A p \in Reqs : At(p, "commit") /\ Key(p) = Key(q) => p = q

AckedKeepsRow ==
  \A q \in Reqs : At(q, "acked") => status[Key(q)] # "none" /\ table[Key(q)] = Data(q)

RowInv == FirstOfItsHash /\ AckedKeepsRow

(* What the checks a request has passed still say of its transaction.      *)
PastZKP == PCs \ {"idle", "zkp", "refused"}
PastSignature == PastZKP \ {"signature"}
PastExecute == PastSignature \ {"execute"}
PastBuild == PastExecute \ {"settle"}

IsSound(t) ==
  /\ t.new \in 1..synced[t.rollup]
  /\ Batches[t.rollup][t.new] = [root |-> t.root, exit |-> t.exit]

WasAuthorised(t) ==
  IF t.rollup \in DOMAIN ProofSigners
  THEN t.signer = ProofSigners[t.rollup]
  ELSE <<t.rollup, t.signer>> \in sequencers

ChecksHold ==
  /\ \A r \in Rollups : <<r, sequencer[r]>> \in sequencers
  /\ \A q \in Reqs : rq[q].pc \in PastZKP => rq[q].tx.new \in DOMAIN Batches[rq[q].tx.rollup]
  /\ \A q \in Reqs : rq[q].pc \in PastSignature => WasAuthorised(rq[q].tx)
  /\ \A q \in Reqs : rq[q].pc \in PastExecute => IsSound(rq[q].tx)
  /\ \A q \in Reqs : rq[q].pc \in PastBuild => <<rq[q].tx.rollup, rq[q].sa>> \in sequencers

(* Each row was stored by a request that had passed the checks; that       *)
(* request is used up, so its transaction is still there to be seen.       *)
StoredByRequest ==
  \A h \in Hashes : IsStored(h) =>
    \E q \in Reqs :
      /\ rq[q].pc \in {"acked", "refused"} /\ Key(q) = h /\ table[h] = Data(q)
      /\ <<rq[q].tx.rollup, rq[q].sa>> \in sequencers
      /\ IsSound(rq[q].tx) /\ WasAuthorised(rq[q].tx)

(* What settled is verified, and what is confirmed has settled.            *)
SettledIsVerified ==
  /\ \A h \in settled : verified[table[h].rollup] >= table[h].new
  /\ \A h \in Hashes : status[h] = "confirmed" => h \in settled

(* A caller waits for a request of its own, keeps its row once it has the  *)
(* hash, and a final status it was told is the status of the row.          *)
CallerInv ==
  \A c \in Clients :
    /\ cl[c].pc = "sending" =>
         cl[c].q \in Reqs /\ ~At(cl[c].q, "idle") /\ rq[cl[c].q].tx = cl[c].tx
    /\ cl[c].acked =>
         /\ status[Hash(cl[c].tx)] # "none"
         /\ \E sa \in Addrs : table[Hash(cl[c].tx)] = CallData(cl[c].tx, sa)
    /\ cl[c].seen \in {"confirmed", "failed"} => status[Hash(cl[c].tx)] = cl[c].seen

---------------------------------------------------------------------------
(* The steps, field by field.                                              *)

Requests == [Reqs -> [pc : PCs, tx : Txs, sa : Addrs]]

(* A request is handled by one goroutine: a step of it leaves the others.  *)
Alone(q) == \A p \in Reqs \ {q} : rq'[p] = rq[p]

Arrives(q) ==
  /\ At(q, "idle") /\ rq'[q].pc \in {"zkp", "refused"}
  /\ rq'[q].tx \in Txs

Proceeds(q, here, next) ==
  /\ At(q, here) /\ rq'[q].pc = next /\ rq'[q].tx = rq[q].tx
  /\ next # "add" => rq'[q].sa = rq[q].sa

RequestMoves(q) ==
  \/ Arrives(q)
  \/ \E here \in PCs \ {"idle", "acked"} : Proceeds(q, here, "refused")
  \/ Proceeds(q, "zkp", "signature") /\ rq[q].tx.new \in DOMAIN Batches[rq[q].tx.rollup]
  \/ Proceeds(q, "signature", "execute") /\ Authorised(rq[q].tx)
  \/ /\ Proceeds(q, "execute", "settle")
     /\ \E batch \in BatchByNumber(rq[q].tx.rollup, AsInt64(rq[q].tx.new)) :
          SameRoots(rq[q].tx, batch)
  \/ Proceeds(q, "settle", "add") /\ rq'[q].sa = sequencer[rq[q].tx.rollup]
  \/ /\ Proceeds(q, "add", "commit") /\ status[Key(q)] = "none"
     /\ \A p \in Reqs \ {q} : ~(At(p, "commit") /\ Key(p) = Key(q))
  \/ Proceeds(q, "commit", "acked") /\ Stored(q)

(* Every step of a request moves it and no other, and stores nothing       *)
(* unless it is the commit.                                                *)
Handles(q) ==
  /\ Alone(q) /\ RequestMoves(q)
  /\ rq' \in Requests
  /\ UNCHANGED <<synced, l1Vars>>
  /\ UNCHANGED <<table, tmVars>> \/ (At(q, "commit") /\ Stored(q))

LEMMA RequestStep ==
  ASSUME TypeOK, NEW q \in Reqs, SendTx(q) \/ (\E t \in Txs : CheckTx(q, t))
  PROVE  Handles(q)
<1>1. rq \in Requests
  BY DEF TypeOK, ITypeOK, Requests
<1>2. ASSUME NEW next \in PCs, Goto(q, next)
      PROVE  /\ Alone(q) /\ rq'[q].pc = next /\ rq'[q].tx = rq[q].tx /\ rq'[q].sa = rq[q].sa
             /\ rq' \in Requests
  BY <1>1, <1>2 DEF Goto, Alone, Requests
<1>3. ASSUME NEW t \in Txs, CheckTx(q, t)
      PROVE  RequestMoves(q) /\ Alone(q) /\ rq' \in Requests
  <2>1. PICK next \in {"zkp", "refused"} : rq' = [rq EXCEPT ![q].tx = t, ![q].pc = next]
    BY <1>3 DEF CheckTx
  <2> DEFINE one == [rq EXCEPT ![q].tx = t]
  <2>2. one \in Requests /\ one[q].tx = t /\ \A p \in Reqs \ {q} : one[p] = rq[p]
    BY <1>1 DEF Requests
  <2>3. rq' = [one EXCEPT ![q].pc = next] /\ next \in PCs
    BY <2>1 DEF PCs
  <2> HIDE DEF one
  <2>4. /\ rq' \in Requests /\ rq'[q].pc = next /\ rq'[q].tx = t
        /\ \A p \in Reqs \ {q} : rq'[p] = rq[p]
    BY <2>2, <2>3 DEF Requests
  <2> QED
    BY <1>3, <2>4 DEF CheckTx, RequestMoves, Arrives, Alone
<1>4. ASSUME NEW here \in PCs \ {"idle", "acked"}, NEW passed \in BOOLEAN, NEW next \in PCs \ {"add"},
             CheckPoint(q, here, passed, next)
      PROVE  /\ Alone(q) /\ rq' \in Requests
             /\ UNCHANGED <<table, synced, l1Vars, tmVars>>
             /\ IF passed THEN Proceeds(q, here, next) ELSE Proceeds(q, here, "refused")
  BY <1>2, <1>4 DEF CheckPoint, Proceeds, PCs
<1>5. \A here \in {"zkp", "signature", "execute", "settle", "add", "commit"} :
        here \in PCs \ {"idle", "acked"}
  BY DEF PCs
<1>6. \A next \in {"signature", "execute", "settle", "commit", "refused", "acked"} :
        next \in PCs \ {"add"}
  BY DEF PCs
<1>7. ASSUME NEW here \in PCs \ {"idle", "acked"}, Proceeds(q, here, "refused")
      PROVE  RequestMoves(q)
  BY <1>7 DEF RequestMoves
<1> USE DEF Handles
<1>8. CASE verifyZKP(q)
  <2> DEFINE d == CallData(rq[q].tx, sequencer[rq[q].tx.rollup])
  <2>1. CheckPoint(q, "zkp", Verifies(d), "signature")
    BY <1>8 DEF verifyZKP
  <2>2. Verifies(d) => rq[q].tx.new \in DOMAIN Batches[rq[q].tx.rollup]
    BY DEF Verifies, CallData
  <2>3. Verifies(d) \in BOOLEAN
    BY DEF Verifies
  <2> HIDE DEF d
  <2> QED
    BY <1>4, <1>5, <1>6, <1>7, <2>1, <2>2, <2>3 DEF RequestMoves
<1>9. CASE verifySignature(q)
  <2>1. Authorised(rq[q].tx) \in BOOLEAN
    BY DEF Authorised
  <2> QED
    BY <1>4, <1>5, <1>6, <1>7, <1>9, <2>1 DEF RequestMoves, verifySignature
<1>10. CASE Execute(q)
  <2> DEFINE t == rq[q].tx
             found == BatchByNumber(t.rollup, AsInt64(t.new))
  <2>1. CASE CheckPoint(q, "execute", FALSE, "settle")
    BY <1>4, <1>5, <1>6, <1>7, <2>1
  <2>2. ASSUME NEW batch \in found, CheckPoint(q, "execute", SameRoots(t, batch), "settle")
        PROVE  /\ Alone(q) /\ RequestMoves(q)
               /\ rq' \in Requests
               /\ UNCHANGED <<table, synced, l1Vars, tmVars>>
    <3>1. SameRoots(t, batch) \in BOOLEAN
      BY DEF SameRoots
    <3> QED
      BY <1>4, <1>5, <1>6, <1>7, <2>2, <3>1 DEF RequestMoves
  <2> QED
    BY <1>10, <2>1, <2>2 DEF Execute
<1>11. CASE BuildData(q)
  <2>1. sequencer[rq[q].tx.rollup] \in Addrs /\ "add" \in PCs
    BY <1>1, TxsAssumption DEF TypeOK, ITypeOK, PCs, Requests
  <2> DEFINE one == [rq EXCEPT ![q].pc = "add"]
             sa == sequencer[rq[q].tx.rollup]
  <2>2. /\ one \in Requests /\ one[q].pc = "add" /\ one[q].tx = rq[q].tx
        /\ \A p \in Reqs \ {q} : one[p] = rq[p]
    BY <1>1, <2>1 DEF Requests
  <2>3. rq' = [one EXCEPT ![q].sa = sa]
    BY <1>11 DEF BuildData
  <2> HIDE DEF one, sa
  <2>4. /\ rq' \in Requests /\ rq'[q].pc = "add" /\ rq'[q].tx = rq[q].tx /\ rq'[q].sa = sa
        /\ \A p \in Reqs \ {q} : rq'[p] = rq[p]
    BY <2>1, <2>2, <2>3 DEF Requests, sa
  <2>5. Proceeds(q, "settle", "add") /\ rq'[q].sa = sequencer[rq[q].tx.rollup]
    BY <1>11, <2>4 DEF Proceeds, BuildData, sa
  <2> QED
    BY <1>11, <2>4, <2>5 DEF BuildData, RequestMoves, Alone
<1>12. CASE Add(q)
  <2> DEFINE passed == (ForcedGas \/ Verifies(Data(q))) /\ status[Key(q)] = "none"
  <2>1. CheckPoint(q, "add", passed, "commit") /\ passed \in BOOLEAN
    BY <1>12 DEF Add
  <2>2. \A p \in Reqs \ {q} : ~(At(p, "commit") /\ Key(p) = Key(q))
    BY <1>12 DEF Add
  <2>3. passed => status[Key(q)] = "none"
    OBVIOUS
  <2> HIDE DEF passed
  <2> QED
    BY <1>4, <1>5, <1>6, <1>7, <2>1, <2>2, <2>3 DEF RequestMoves
<1>13. CASE Commit(q)
  <2>1. PICK next \in {"acked", "refused"} : Goto(q, next) /\ (next = "acked" => Stored(q))
    BY <1>13 DEF Commit
  <2>2. Proceeds(q, "commit", next)
    BY <1>2, <1>6, <1>13, <2>1 DEF Proceeds, Commit
  <2>3. RequestMoves(q)
    BY <1>5, <1>7, <2>1, <2>2 DEF RequestMoves
  <2> QED
    BY <1>2, <1>6, <1>13, <2>1, <2>3 DEF Commit
<1>14. CASE Fail(q)
  <2>1. PICK here \in {"zkp", "signature", "execute", "settle", "add"} : CheckPoint(q, here, FALSE, here)
    BY <1>14 DEF Fail
  <2>2. /\ Goto(q, "refused") /\ At(q, here)
        /\ UNCHANGED <<table, synced, l1Vars, tmVars>>
    BY <2>1 DEF CheckPoint
  <2>3. Proceeds(q, here, "refused")
    BY <1>2, <1>6, <2>2 DEF Proceeds
  <2> QED
    BY <1>2, <1>5, <1>6, <1>7, <2>2, <2>3
<1> QED
  BY <1>3, <1>8, <1>9, <1>10, <1>11, <1>12, <1>13, <1>14 DEF SendTx, CheckTx, Handles

(* What a step may do to a caller.                                         *)
Callers ==
  [Clients -> [pc : CPCs, tx : Txs, q : Reqs \union {NoReq}, acked : BOOLEAN,
               seen : {"none", "pending", "confirmed", "failed", "done"}]]

Sends(c) ==
  /\ cl'[c].pc = "sending" /\ cl'[c].q \in Reqs /\ CheckTx(cl'[c].q, cl[c].tx)
  /\ cl'[c].acked = cl[c].acked /\ cl'[c].seen = cl[c].seen

Hears(c) ==
  /\ UNCHANGED ivars
  /\ cl'[c].pc # "sending"
  /\ cl'[c].acked = cl[c].acked \/ (cl[c].pc = "sending" /\ At(cl[c].q, "acked"))
  /\ cl'[c].seen = cl[c].seen \/ (cl'[c].seen = Reported(c) /\ Reported(c) # "none")

CallerMoves(c) ==
  /\ \A b \in Clients \ {c} : cl'[b] = cl[b]
  /\ cl'[c].tx = cl[c].tx
  /\ Sends(c) \/ Hears(c)

(* Every step of a caller moves it and no other, and it is either a call   *)
(* of SendTx or takes in an answer.                                        *)
LEMMA CallerStep ==
  ASSUME TypeOK, NEW c \in Clients,
         CallSendTx(c) \/ SendTxReturns(c) \/ GetTxStatus(c) \/ WaitTxToBeMined(c)
  PROVE  cl' \in Callers /\ CallerMoves(c)
<1>1. cl \in Callers
  BY DEF TypeOK, Callers
<1>2. Reported(c) \in {"none", "pending", "confirmed", "failed"}
  BY <1>1 DEF TypeOK, ITypeOK, Callers, Reported, Result, Hashes
<1>3. {"ready", "waiting", "expired", "mined", "sending"} \subseteq CPCs
  BY DEF CPCs
<1>4. CASE CallSendTx(c)
  <2>1. PICK q \in Reqs : /\ CheckTx(q, cl[c].tx)
                          /\ cl' = [cl EXCEPT ![c].pc = "sending", ![c].q = q]
    BY <1>4 DEF CallSendTx
  <2> DEFINE one == [cl EXCEPT ![c].pc = "sending"]
  <2>2. cl' = [one EXCEPT ![c].q = q]
    BY <2>1
  <2>3. /\ one \in Callers /\ \A b \in Clients \ {c} : one[b] = cl[b]
        /\ one[c].pc = "sending" /\ one[c].tx = cl[c].tx
        /\ one[c].acked = cl[c].acked /\ one[c].seen = cl[c].seen
    BY <1>1, <1>3 DEF Callers
  <2> HIDE DEF one
  <2>4. /\ cl' \in Callers /\ \A b \in Clients \ {c} : cl'[b] = one[b]
        /\ cl'[c].pc = one[c].pc /\ cl'[c].tx = one[c].tx /\ cl'[c].q = q
        /\ cl'[c].acked = one[c].acked /\ cl'[c].seen = one[c].seen
    BY <2>2, <2>3 DEF Callers
  <2> QED
    BY <2>1, <2>3, <2>4 DEF CallerMoves, Sends
<1>5. CASE SendTxReturns(c)
  <2> DEFINE one == [cl EXCEPT ![c].pc = "ready"]
             two == [one EXCEPT ![c].q = NoReq]
  <2>1. \/ cl' = two
        \/ cl' = [two EXCEPT ![c].acked = TRUE] /\ cl[c].pc = "sending" /\ At(cl[c].q, "acked")
    BY <1>5 DEF SendTxReturns
  <2>2. /\ one \in Callers /\ \A b \in Clients \ {c} : one[b] = cl[b]
        /\ one[c].pc = "ready" /\ one[c].tx = cl[c].tx
        /\ one[c].acked = cl[c].acked /\ one[c].seen = cl[c].seen
    BY <1>1, <1>3 DEF Callers
  <2> HIDE DEF one
  <2>3. /\ two \in Callers /\ \A b \in Clients \ {c} : two[b] = cl[b]
        /\ two[c].pc = "ready" /\ two[c].tx = cl[c].tx
        /\ two[c].acked = cl[c].acked /\ two[c].seen = cl[c].seen
    BY <2>2 DEF Callers
  <2> HIDE DEF two
  <2>4. /\ cl' \in Callers /\ \A b \in Clients \ {c} : cl'[b] = cl[b]
        /\ cl'[c].pc = "ready" /\ cl'[c].tx = cl[c].tx /\ cl'[c].seen = cl[c].seen
    <3>1. CASE cl' = two
      BY <2>3, <3>1
    <3>2. CASE cl' = [two EXCEPT ![c].acked = TRUE]
      BY <2>3, <3>2 DEF Callers
    <3> QED
      BY <2>1, <3>1, <3>2
  <2>5. cl'[c].acked = cl[c].acked \/ (cl[c].pc = "sending" /\ At(cl[c].q, "acked"))
    BY <2>1, <2>3
  <2> QED
    BY <1>5, <2>4, <2>5 DEF SendTxReturns, CallerMoves, Hears
<1>6. ASSUME cl[c].pc \in {"ready", "waiting"}, Reported(c) # "none", UNCHANGED ivars,
              NEW pc \in CPCs \ {"sending"},
              \/ cl' = [cl EXCEPT ![c].seen = Reported(c)]
              \/ cl' = [cl EXCEPT ![c].seen = Reported(c), ![c].pc = pc]
       PROVE  cl' \in Callers /\ CallerMoves(c)
  <2> DEFINE one == [cl EXCEPT ![c].seen = Reported(c)]
  <2>1. cl' = one \/ cl' = [one EXCEPT ![c].pc = pc]
    BY <1>6
  <2>2. /\ one \in Callers /\ \A b \in Clients \ {c} : one[b] = cl[b]
        /\ one[c].pc = cl[c].pc /\ one[c].tx = cl[c].tx
        /\ one[c].acked = cl[c].acked /\ one[c].seen = Reported(c)
    BY <1>1, <1>2 DEF Callers
  <2> HIDE DEF one
  <2>3. /\ cl' \in Callers /\ \A b \in Clients \ {c} : cl'[b] = cl[b]
        /\ cl'[c].pc # "sending" /\ cl'[c].tx = cl[c].tx
        /\ cl'[c].acked = cl[c].acked /\ cl'[c].seen = Reported(c)
    BY <1>6, <2>1, <2>2 DEF Callers
  <2> QED
    BY <1>6, <2>3 DEF CallerMoves, Hears
<1>7. ASSUME UNCHANGED ivars, NEW pc \in CPCs \ {"sending"}, cl' = [cl EXCEPT ![c].pc = pc]
       PROVE  cl' \in Callers /\ CallerMoves(c)
  <2>1. /\ cl' \in Callers /\ \A b \in Clients \ {c} : cl'[b] = cl[b]
        /\ cl'[c].pc = pc /\ cl'[c].tx = cl[c].tx
        /\ cl'[c].acked = cl[c].acked /\ cl'[c].seen = cl[c].seen
    BY <1>1, <1>7 DEF Callers
  <2> QED
    BY <1>7, <2>1 DEF CallerMoves, Hears
<1>8. CASE GetTxStatus(c)
  BY <1>3, <1>6, <1>8 DEF GetTxStatus
<1>9. CASE CallWait(c) \/ WaitExpires(c)
  BY <1>3, <1>7, <1>9 DEF CallWait, WaitExpires
<1>10. CASE Tick(c)
  <2>1. CASE cl' = [cl EXCEPT ![c].pc = "ready"]
    <3>1. UNCHANGED ivars
      BY <1>10 DEF Tick
    <3>2. "ready" \in CPCs \ {"sending"}
      BY DEF CPCs
    <3> QED
      BY <1>7, <2>1, <3>1, <3>2, Zenon
  <2>2. CASE /\ Reported(c) # "none"
             /\ cl' = [cl EXCEPT ![c].seen = Reported(c),
                                 ![c].pc = IF Reported(c) = "done" THEN "mined" ELSE @]
    <3>1. cl' = [cl EXCEPT ![c].seen = Reported(c), ![c].pc = "waiting"]
      BY <1>2, <1>10, <2>2 DEF Tick
    <3> QED
      BY <1>3, <1>6, <1>10, <2>2, <3>1 DEF Tick
  <2> QED
    BY <1>10, <2>1, <2>2 DEF Tick
<1> QED
  BY <1>4, <1>5, <1>8, <1>9, <1>10 DEF WaitTxToBeMined

(* What others do leaves requests and rows alone, and what it changes only *)
(* goes forward.                                                           *)
Grows ==
  /\ \A r \in Rollups : synced'[r] >= synced[r] /\ verified'[r] >= verified[r]
  /\ sequencers \subseteq sequencers'
  /\ \A r \in Rollups : sequencer'[r] = sequencer[r] \/ <<r, sequencer'[r]>> \in sequencers'
  /\ settled \subseteq settled'

StatusMoves(h) ==
  \/ status'[h] = status[h]
  \/ status[h] = "pending" /\ status'[h] = "failed"
  \/ status[h] = "pending" /\ status'[h] = "confirmed" /\ h \in settled

OthersMove ==
  /\ UNCHANGED <<rq, table>> /\ Grows
  /\ \A h \in Hashes : StatusMoves(h)
  /\ \A h \in broadcast' : status[h] # "none"
  /\ \A h \in settled' \ settled : verified'[table[h].rollup] >= table[h].new

(* The row of a hash that has one is the call data of a transaction.       *)
LEMMA RowIsCallData ==
  ASSUME TypeOK, NEW h \in Hashes, IsStored(h)
  PROVE  /\ table[h].rollup \in Rollups /\ table[h].new \in Nat
         /\ \E t \in Txs, sa \in Addrs : table[h] = CallData(t, sa)
<1>1. PICK t \in Txs, sa \in Addrs : table[h] = CallData(t, sa)
  BY DEF TypeOK, ITypeOK, IsStored
<1>2. CallData(t, sa).rollup = t.rollup /\ CallData(t, sa).new = t.new
  BY DEF CallData
<1>3. t.rollup \in Rollups /\ t.new \in Nat
  BY TxsAssumption
<1> QED
  BY <1>1, <1>2, <1>3

(* The rest of ITypeOK, what rq and table have apart.                      *)
WorldOK ==
  /\ verified \in [Rollups -> Nat] /\ synced \in [Rollups -> Nat]
  /\ sequencer \in [Rollups -> Addrs]
  /\ sequencers \subseteq Rollups \X Addrs
  /\ status \in [Hashes -> {"none", "pending", "confirmed", "failed"}]
  /\ broadcast \subseteq Hashes /\ settled \subseteq broadcast

LEMMA OthersStep ==
  ASSUME TypeInv, Others
  PROVE  OthersMove /\ WorldOK'
<1> USE DEF l1Vars, tmVars
<1>1. TypeOK /\ RowsAreThere /\ WorldOK
  BY DEF TypeInv, TypeOK, ITypeOK, WorldOK
<1>2. \A r \in Rollups : verified[r] >= verified[r] /\ synced[r] >= synced[r]
  BY <1>1 DEF WorldOK
<1>3. \A h \in broadcast : status[h] # "none"
  BY <1>1 DEF RowsAreThere
<1>4. ASSUME NEW r \in Rollups, NEW a \in Addrs, SetTrustedSequencer(r, a)
      PROVE  OthersMove /\ WorldOK'
  <2>1. \A k \in Rollups : sequencer'[k] = sequencer[k] \/ <<k, sequencer'[k]>> \in sequencers'
    BY <1>1, <1>4 DEF SetTrustedSequencer, WorldOK
  <2> QED
    BY <1>1, <1>2, <1>3, <1>4, <2>1
    DEF SetTrustedSequencer, OthersMove, WorldOK, Grows, StatusMoves
<1>5. ASSUME NEW r \in Rollups, VerifiedByOthers(r) PROVE OthersMove /\ WorldOK'
  <2>1. verified' \in [Rollups -> Nat] /\ \A k \in Rollups : verified'[k] >= verified[k]
    BY <1>1, <1>5 DEF VerifiedByOthers, WorldOK
  <2> QED
    BY <1>1, <1>2, <1>3, <1>5, <2>1
    DEF VerifiedByOthers, OthersMove, WorldOK, Grows, StatusMoves
<1>6. ASSUME NEW r \in Rollups, Sync(r) PROVE OthersMove /\ WorldOK'
  <2>1. synced' \in [Rollups -> Nat] /\ \A k \in Rollups : synced'[k] >= synced[k]
    BY <1>1, <1>6 DEF Sync, WorldOK
  <2> QED
    BY <1>1, <1>2, <1>3, <1>6, <2>1 DEF Sync, OthersMove, WorldOK, Grows, StatusMoves
<1>7. ASSUME NEW h \in Hashes, Mined(h) PROVE OthersMove /\ WorldOK'
  <2> DEFINE r == table[h].rollup
             n == table[h].new
  <2>1. h \in broadcast /\ settled' = settled \union {h} /\ UNCHANGED <<status, broadcast>>
    BY <1>7 DEF Mined, TM!Settle
  <2>2. r \in Rollups /\ n \in Nat
    BY <1>1, <2>1, RowIsCallData DEF RowsAreThere
  <2>3. verified[r] < n /\ verified' = [verified EXCEPT ![r] = n]
    BY <1>7 DEF Mined, Verifies
  <2> HIDE DEF r, n
  <2>4. /\ verified' \in [Rollups -> Nat] /\ \A k \in Rollups : verified'[k] >= verified[k]
        /\ verified'[r] >= n
    BY <1>1, <2>2, <2>3 DEF WorldOK
  <2>5. UNCHANGED <<rq, table, synced, sequencer, sequencers>>
    BY <1>7 DEF Mined
  <2>6. \A k \in settled' \ settled : verified'[table[k].rollup] >= table[k].new
    BY <2>1, <2>4 DEF r, n
  <2>7. WorldOK'
    BY <1>1, <2>1, <2>4, <2>5 DEF WorldOK
  <2> QED
    BY <1>2, <1>3, <2>1, <2>4, <2>5, <2>6, <2>7 DEF OthersMove, Grows, StatusMoves
<1>8. ASSUME NEW h \in Hashes, Monitored(h) PROVE OthersMove /\ WorldOK'
  <2>1. \A k \in Hashes : StatusMoves(k)
    BY <1>1, <1>8 DEF Monitored, StatusMoves, WorldOK, TM!Broadcast, TM!Confirm, TM!Fail
  <2>2. \A k \in broadcast' : status[k] # "none"
    BY <1>3, <1>8 DEF Monitored, TM!Broadcast, TM!Confirm, TM!Fail
  <2>3. settled' = settled
    BY <1>8 DEF Monitored, TM!Broadcast, TM!Confirm, TM!Fail
  <2>4. WorldOK'
    BY <1>1, <1>8 DEF Monitored, WorldOK, TM!Broadcast, TM!Confirm, TM!Fail
  <2> QED
    BY <1>2, <1>8, <2>1, <2>2, <2>3, <2>4 DEF Monitored, OthersMove, Grows
<1> QED
  BY <1>4, <1>5, <1>6, <1>7, <1>8 DEF Others

(* The kinds of steps there are.                                           *)
LEMMA StepKinds ==
  ASSUME TypeInv, [Next]_vars
  PROVE  /\ cl' \in Callers
         /\ UNCHANGED cl \/ \E c \in Clients : CallerMoves(c)
         /\ \/ UNCHANGED ivars
            \/ \E q \in Reqs : Handles(q)
            \/ OthersMove /\ WorldOK'
<1>1. TypeOK
  BY DEF TypeInv
<1>2. cl \in Callers
  BY <1>1 DEF TypeOK, Callers
<1>3. CASE UNCHANGED vars
  BY <1>2, <1>3 DEF vars
<1>4. ASSUME NEW c \in Clients,
             CallSendTx(c) \/ SendTxReturns(c) \/ GetTxStatus(c) \/ WaitTxToBeMined(c)
      PROVE  /\ cl' \in Callers /\ CallerMoves(c)
             /\ UNCHANGED ivars \/ \E q \in Reqs : Handles(q)
  <2>1. cl' \in Callers /\ CallerMoves(c)
    BY <1>1, <1>4, CallerStep
  <2>2. cl[c].tx \in Txs
    BY <1>2 DEF Callers
  <2>3. ASSUME Sends(c) PROVE Handles(cl'[c].q) /\ cl'[c].q \in Reqs
    BY <1>1, <2>2, <2>3, RequestStep DEF Sends
  <2> QED
    BY <2>1, <2>3 DEF CallerMoves, Hears
<1>5. ASSUME NEW q \in Reqs, SendTx(q) PROVE Handles(q)
  BY <1>1, <1>5, RequestStep
<1> QED
  BY <1>2, <1>3, <1>4, <1>5, OthersStep DEF Next

---------------------------------------------------------------------------
(* At the start there are no rows and no callers at work.                  *)
LEMMA InitType == Init => TypeInv
<1> SUFFICES ASSUME Init PROVE TypeInv
  OBVIOUS
<1>1. NoTx \in Txs /\ (CHOOSE a \in Addrs : TRUE) \in Addrs
  BY SomeAssumption DEF NoTx
<1> DEFINE a0 == CHOOSE a \in Addrs : TRUE
<1>2. IInit /\ "idle" \in PCs /\ "idle" \in CPCs
  BY DEF Init, PCs, CPCs
<1>3. rq = [q \in Reqs |-> [pc |-> "idle", tx |-> NoTx, sa |-> a0]]
  BY <1>2 DEF IInit
<1>4. sequencer = [r \in Rollups |-> a0]
  BY <1>2 DEF IInit
<1> HIDE DEF a0
<1>5. ITypeOK
  <2>1. rq \in [Reqs -> [pc : PCs, tx : Txs, sa : Addrs]]
    BY <1>1, <1>2, <1>3 DEF a0
  <2>2. sequencer \in [Rollups -> Addrs] /\ sequencers \subseteq Rollups \X Addrs
    BY <1>1, <1>2, <1>4 DEF a0, IInit
  <2> QED
    BY <1>2, <2>1, <2>2 DEF IInit, ITypeOK
<1>6. TypeOK
  BY <1>2, <1>5 DEF Init, TypeOK
<1> QED
  BY <1>2, <1>6 DEF TypeInv, RowsAreThere, IInit

(* Every step keeps the types and finds the row of what it broadcasts: the *)
(* row and its first status are committed together.                        *)
LEMMA NextType == TypeInv /\ [Next]_vars => TypeInv'
<1> SUFFICES ASSUME TypeInv, [Next]_vars PROVE TypeInv'
  OBVIOUS
<1> USE DEF l1Vars, tmVars
<1>1. TypeOK /\ RowsAreThere /\ WorldOK /\ rq \in Requests
  BY DEF TypeInv, TypeOK, ITypeOK, WorldOK, Requests
<1>2. cl' \in Callers
  BY StepKinds
<1>3. ASSUME rq' \in Requests, WorldOK', RowsAreThere',
             table' \in [Hashes -> {NoRow} \union {CallData(t, sa) : t \in Txs, sa \in Addrs}]
      PROVE  TypeInv'
  BY <1>2, <1>3 DEF TypeInv, TypeOK, ITypeOK, Callers, Requests, WorldOK
<1>4. table \in [Hashes -> {NoRow} \union {CallData(t, sa) : t \in Txs, sa \in Addrs}]
  BY <1>1 DEF TypeOK, ITypeOK
<1>5. CASE UNCHANGED ivars
  BY <1>1, <1>3, <1>4, <1>5 DEF ivars, WorldOK, RowsAreThere, IsStored
<1>6. ASSUME NEW q \in Reqs, Handles(q) PROVE TypeInv'
  <2>1. CASE UNCHANGED <<table, tmVars>>
    BY <1>1, <1>3, <1>4, <1>6, <2>1 DEF Handles, WorldOK, RowsAreThere, IsStored
  <2>2. CASE Stored(q)
    <3>1. rq[q].tx \in Txs /\ rq[q].sa \in Addrs /\ Key(q) \in Hashes
      BY <1>1 DEF Requests, Key, Hashes
    <3>2. Data(q) \in {CallData(t, sa) : t \in Txs, sa \in Addrs}
      BY <3>1 DEF Data
    <3>3. Data(q) # NoRow
      <4>1. DOMAIN Data(q) # DOMAIN NoRow
        BY DEF Data, CallData, NoRow
      <4> QED
        BY <4>1
    <3>4. WorldOK'
      BY <1>1, <1>6, <2>2, <3>1 DEF Handles, WorldOK, Stored
    <3>5. \A h \in Hashes : \/ h = Key(q) /\ table'[h] = Data(q) /\ status'[h] = "pending"
                            \/ table'[h] = table[h] /\ status'[h] = status[h]
      BY <1>1, <1>4, <2>2, <3>1 DEF Stored, WorldOK
    <3>6. RowsAreThere'
      BY <1>1, <2>2, <3>3, <3>5 DEF RowsAreThere, IsStored, Stored, WorldOK
    <3> QED
      BY <1>3, <1>4, <1>6, <2>2, <3>1, <3>2, <3>4, <3>6 DEF Handles, Stored
  <2> QED
    BY <1>6, <2>1, <2>2 DEF Handles
<1>7. CASE OthersMove /\ WorldOK'
  <2>1. RowsAreThere'
    BY <1>1, <1>7 DEF OthersMove, RowsAreThere, StatusMoves, IsStored, WorldOK
  <2> QED
    BY <1>1, <1>3, <1>4, <1>7, <2>1 DEF OthersMove
<1> QED
  BY <1>5, <1>6, <1>7, StepKinds

(* The types of the state of requests, rows, L1, full nodes and callers:   *)
(* in particular no caller is ever told a status that is not one.          *)
THEOREM ClientTypeCorrect == Spec => []TypeOK
<1>1. TypeInv => TypeOK
  BY DEF TypeInv
<1> QED
  BY <1>1, InitType, NextType, PTL DEF Spec

---------------------------------------------------------------------------
(* The transaction of a request stays once it has arrived.                 *)
LEMMA TxStays ==
  ASSUME TypeInv, [Next]_vars, NEW q \in Reqs, ~At(q, "idle")
  PROVE  /\ rq'[q].tx = rq[q].tx /\ rq'[q].pc # "idle"
         /\ rq[q].pc \in PastBuild \union {"refused"} => rq'[q].sa = rq[q].sa
<1>1. ASSUME NEW p \in Reqs, Handles(p)
      PROVE  /\ rq'[q].tx = rq[q].tx /\ rq'[q].pc # "idle"
             /\ rq[q].pc \in PastBuild \union {"refused"} => rq'[q].sa = rq[q].sa
  <2>1. CASE p # q
    BY <1>1, <2>1 DEF Handles, Alone, At
  <2>2. CASE p = q
    BY <1>1, <2>2
    DEF Handles, RequestMoves, Arrives, Proceeds, At, PastBuild, PastExecute, PastSignature, PastZKP
  <2> QED
    BY <2>1, <2>2
<1> QED
  BY <1>1, StepKinds DEF OthersMove, ivars, At

(* Nothing is committed twice under a hash: an INSERT that finds another   *)
(* one uncommitted waits, and one that finds a row is refused.             *)
LEMMA NextRow == TypeInv /\ RowInv /\ [Next]_vars => RowInv'
<1> SUFFICES ASSUME TypeInv, RowInv, [Next]_vars PROVE RowInv'
  OBVIOUS
<1> USE DEF l1Vars, tmVars
<1>1. WorldOK /\ rq \in Requests /\ FirstOfItsHash /\ AckedKeepsRow
  BY DEF TypeInv, TypeOK, ITypeOK, WorldOK, Requests, RowInv
<1>2. table \in [Hashes -> {NoRow} \union {CallData(t, sa) : t \in Txs, sa \in Addrs}]
  BY DEF TypeInv, TypeOK, ITypeOK
<1>3. \A p \in Reqs : Key(p) \in Hashes
  BY <1>1 DEF Requests, Key, Hashes
<1>4. CASE UNCHANGED ivars
  BY <1>1, <1>4 DEF ivars, RowInv, FirstOfItsHash, AckedKeepsRow, At, Key, Data
<1>5. ASSUME NEW q \in Reqs, Handles(q) PROVE RowInv'
  <2>1. \A p \in Reqs \ {q} : rq'[p] = rq[p] /\ Key(p)' = Key(p) /\ Data(p)' = Data(p)
    BY <1>5 DEF Handles, Alone, Key, Data
  <2>2. CASE UNCHANGED <<table, tmVars>> /\ ~At(q, "commit")
    <3>1. At(q, "commit")' => /\ Key(q)' = Key(q) /\ status[Key(q)] = "none"
                              /\ \A p \in Reqs \ {q} : ~(At(p, "commit") /\ Key(p) = Key(q))
      BY <1>5, <2>2 DEF Handles, RequestMoves, Arrives, Proceeds, At, Key
    <3>2. ~At(q, "acked")'
      BY <1>5, <2>2 DEF Handles, RequestMoves, Arrives, Proceeds, At
    <3> QED
      BY <1>1, <2>1, <2>2, <3>1, <3>2 DEF RowInv, FirstOfItsHash, AckedKeepsRow, At
  <2>3. CASE UNCHANGED <<table, tmVars>> /\ At(q, "commit") /\ ~Stored(q)
    <3>1. rq'[q].pc = "refused"
      BY <1>5, <2>3 DEF Handles, RequestMoves, Arrives, Proceeds, At
    <3> QED
      BY <1>1, <2>1, <2>3, <3>1 DEF RowInv, FirstOfItsHash, AckedKeepsRow, At
  <2>4. CASE At(q, "commit") /\ Stored(q)
    <3>1. /\ rq'[q].pc \in {"acked", "refused"}
          /\ Key(q)' = Key(q) /\ Data(q)' = Data(q)
      BY <1>5, <2>4 DEF Handles, RequestMoves, Arrives, Proceeds, At, Key, Data
    <3>2. table'[Key(q)] = Data(q) /\ status'[Key(q)] = "pending"
      BY <1>1, <1>2, <1>3, <2>4 DEF Stored, WorldOK
    <3>3. \A h \in Hashes \ {Key(q)} : table'[h] = table[h] /\ status'[h] = status[h]
      BY <1>1, <1>2, <1>3, <2>4 DEF Stored, WorldOK
    <3>4. ASSUME NEW p \in Reqs \ {q}, At(p, "commit") \/ At(p, "acked") PROVE Key(p) # Key(q)
      BY <1>1, <2>4, <3>4 DEF FirstOfItsHash, AckedKeepsRow
    <3>5. FirstOfItsHash'
      BY <1>1, <1>3, <2>1, <3>1, <3>3, <3>4 DEF FirstOfItsHash, At
    <3>6. AckedKeepsRow'
      BY <1>1, <1>3, <2>1, <3>1, <3>2, <3>3, <3>4 DEF AckedKeepsRow, At
    <3> QED
      BY <3>5, <3>6 DEF RowInv
  <2> QED
    BY <1>5, <2>2, <2>3, <2>4 DEF Handles
<1>6. CASE OthersMove
  <2>1. \A p \in Reqs : Key(p)' = Key(p) /\ Data(p)' = Data(p) /\ rq'[p] = rq[p]
    BY <1>6 DEF OthersMove, Key, Data
  <2>2. \A h \in Hashes : (status'[h] = "none") = (status[h] = "none") /\ table'[h] = table[h]
    BY <1>6 DEF OthersMove, StatusMoves
  <2> QED
    BY <1>1, <1>3, <2>1, <2>2 DEF RowInv, FirstOfItsHash, AckedKeepsRow, At
<1> QED
  BY <1>4, <1>5, <1>6, StepKinds

LEMMA InitRow == Init => RowInv
BY DEF Init, IInit, RowInv, FirstOfItsHash, AckedKeepsRow, At

(* A request that was given its hash finds its own call data in the row,   *)
(* whoever else submits a transaction with that hash.                      *)
THEOREM RowIsTheCallers == Spec => []AckedRowIsMine
<1>1. TypeInv /\ RowInv => AckedRowIsMine
  <2> SUFFICES ASSUME TypeInv, RowInv, NEW q \in Reqs, At(q, "acked")
               PROVE  \E sa \in Addrs : table[Key(q)] = CallData(rq[q].tx, sa)
    BY DEF AckedRowIsMine
  <2>1. rq[q].sa \in Addrs
    BY DEF TypeInv, TypeOK, ITypeOK
  <2> QED
    BY <2>1 DEF RowInv, AckedKeepsRow, Data
<1> QED
  BY <1>1, InitType, NextType, InitRow, NextRow, PTL DEF Spec

---------------------------------------------------------------------------
(* What the checks read on L1 and on the full nodes only grows.            *)
LEMMA StepGrows ==
  ASSUME TypeInv, [Next]_vars
  PROVE  Grows /\ \A q \in Reqs : rq'[q] = rq[q] \/ RequestMoves(q)
<1> USE DEF l1Vars, tmVars
<1>1. WorldOK
  BY DEF TypeInv, TypeOK, ITypeOK, WorldOK
<1>2. \A r \in Rollups : synced[r] >= synced[r] /\ verified[r] >= verified[r]
  BY <1>1 DEF WorldOK
<1>3. CASE UNCHANGED ivars
  BY <1>2, <1>3 DEF ivars, Grows
<1>4. ASSUME NEW q \in Reqs, Handles(q) PROVE Grows /\ RequestMoves(q) /\ Alone(q)
  BY <1>2, <1>4 DEF Handles, Grows, Stored
<1>5. CASE OthersMove
  BY <1>5 DEF OthersMove
<1> QED
  BY <1>3, <1>4, <1>5, StepKinds DEF ivars, Alone

(* What the checks established of a transaction stays true.                *)
LEMMA ChecksStay ==
  ASSUME TypeInv, [Next]_vars, NEW t \in Txs
  PROVE  (IsSound(t) => IsSound(t)') /\ (WasAuthorised(t) => WasAuthorised(t)')
<1>1. Grows /\ WorldOK /\ WorldOK'
  BY StepGrows, NextType DEF TypeInv, TypeOK, ITypeOK, WorldOK
<1>2. t.rollup \in Rollups
  BY TxsAssumption
<1>3. /\ synced[t.rollup] \in Nat /\ synced'[t.rollup] \in Nat
      /\ synced'[t.rollup] >= synced[t.rollup]
  BY <1>1, <1>2 DEF Grows, WorldOK
<1>4. IsSound(t) => IsSound(t)'
  BY <1>3 DEF IsSound
<1>5. WasAuthorised(t) => WasAuthorised(t)'
  BY <1>1 DEF WasAuthorised, Grows
<1> QED
  BY <1>4, <1>5

(* A batch number that the contract knows is not negative as an int64, so  *)
(* the full node was asked for that very batch.                            *)
LEMMA ExecuteIsSound ==
  ASSUME TypeInv, NEW t \in Txs, t.new \in DOMAIN Batches[t.rollup],
         NEW batch \in BatchByNumber(t.rollup, AsInt64(t.new)), SameRoots(t, batch)
  PROVE  IsSound(t)
<1>1. t.rollup \in Rollups
  BY TxsAssumption
<1>2. /\ t.new \in Nat \ {0} /\ t.new < 2^(Width - 1)
      /\ Batches[t.rollup][t.new] = [root |-> Batches[t.rollup][t.new].root,
                                     exit |-> Batches[t.rollup][t.new].exit]
  BY <1>1, BatchesAssumption
<1>3. AsInt64(t.new) = t.new
  BY <1>2 DEF AsInt64
<1>4. PICK k \in 1..synced[t.rollup] : /\ batch = Batches[t.rollup][k]
                                       /\ k = AsInt64(t.new) \/ AsInt64(t.new) < 0
  BY DEF BatchByNumber
<1>5. k = t.new
  BY <1>2, <1>3, <1>4
<1> QED
  BY <1>2, <1>4, <1>5 DEF IsSound, SameRoots

LEMMA NextChecks == TypeInv /\ ChecksHold /\ [Next]_vars => ChecksHold'
<1> SUFFICES ASSUME TypeInv, ChecksHold, [Next]_vars PROVE ChecksHold'
  OBVIOUS
<1>1. Grows /\ rq \in Requests
  BY StepGrows DEF TypeInv, TypeOK, ITypeOK, Requests
<1>2. \A r \in Rollups : <<r, sequencer[r]>>' \in sequencers'
  BY <1>1 DEF Grows, ChecksHold
<1> SUFFICES ASSUME NEW q \in Reqs
    PROVE  /\ rq'[q].pc \in PastZKP => rq'[q].tx.new \in DOMAIN Batches[rq'[q].tx.rollup]
           /\ rq'[q].pc \in PastSignature => WasAuthorised(rq[q].tx)'
           /\ rq'[q].pc \in PastExecute => IsSound(rq[q].tx)'
           /\ rq'[q].pc \in PastBuild => <<rq'[q].tx.rollup, rq'[q].sa>> \in sequencers'
  BY <1>2 DEF ChecksHold
<1> DEFINE t == rq[q].tx
<1>3. t \in Txs /\ t.rollup \in Rollups
  BY <1>1, TxsAssumption DEF Requests
<1>4. rq'[q] = rq[q] \/ RequestMoves(q)
  BY StepGrows
<1>5. /\ rq[q].pc \in PastZKP => t.new \in DOMAIN Batches[t.rollup]
      /\ rq[q].pc \in PastSignature => WasAuthorised(t)
      /\ rq[q].pc \in PastExecute => IsSound(t)
      /\ rq[q].pc \in PastBuild => <<t.rollup, rq[q].sa>> \in sequencers
  BY DEF ChecksHold
<1> USE DEF PastZKP, PastSignature, PastExecute, PastBuild, PCs, At, Proceeds
<1>6. rq'[q].pc \in PastZKP => rq'[q].tx = t
  BY <1>4 DEF RequestMoves, Arrives
<1>7. rq'[q].pc \in PastZKP => t.new \in DOMAIN Batches[t.rollup]
  BY <1>4, <1>5 DEF RequestMoves, Arrives
<1>8. rq'[q].pc \in PastSignature => WasAuthorised(t)
  <2>1. Authorised(t) => WasAuthorised(t)
    BY <1>3 DEF ChecksHold, Authorised, WasAuthorised
  <2> QED
    BY <1>4, <1>5, <2>1 DEF RequestMoves, Arrives
<1>9. rq'[q].pc \in PastExecute => IsSound(t)
  <2>1. ASSUME Proceeds(q, "execute", "settle"),
               NEW batch \in BatchByNumber(t.rollup, AsInt64(t.new)), SameRoots(t, batch)
        PROVE  IsSound(t)
    <3>1. t.new \in DOMAIN Batches[t.rollup]
      BY <1>5, <2>1
    <3> QED
      BY <1>3, <2>1, <3>1, ExecuteIsSound
  <2> QED
    BY <1>4, <1>5, <2>1 DEF RequestMoves, Arrives
<1>10. rq'[q].pc \in PastBuild => <<t.rollup, rq'[q].sa>> \in sequencers
  <2>1. <<t.rollup, sequencer[t.rollup]>> \in sequencers
    BY <1>3 DEF ChecksHold
  <2> QED
    BY <1>4, <1>5, <2>1 DEF RequestMoves, Arrives
<1>11. PICK u \in Txs : u = rq[q].tx
  BY <1>3
<1>12. /\ IsSound(u) = IsSound(t) /\ WasAuthorised(u) = WasAuthorised(t)
       /\ rq'[q].tx = u => IsSound(rq[q].tx)' = IsSound(u)'
       /\ rq'[q].tx = u => WasAuthorised(rq[q].tx)' = WasAuthorised(u)'
  BY <1>11 DEF IsSound, WasAuthorised
<1>13. (IsSound(u) => IsSound(u)') /\ (WasAuthorised(u) => WasAuthorised(u)')
  BY ChecksStay
<1> QED
  BY <1>1, <1>6, <1>7, <1>8, <1>9, <1>10, <1>11, <1>12, <1>13 DEF Grows

(* A row is only written by the commit of a request at its hash, which is  *)
(* over then.                                                              *)
LEMMA RowStep ==
  ASSUME TypeInv, [Next]_vars, NEW h \in Hashes
  PROVE  \/ table'[h] = table[h] /\ StatusMoves(h)
         \/ \E q \in Reqs :
              /\ At(q, "commit") /\ Key(q) = h /\ Key(q)' = h
              /\ rq'[q].pc \in {"acked", "refused"}
              /\ rq'[q].tx = rq[q].tx /\ rq'[q].sa = rq[q].sa
              /\ table'[h] = Data(q) /\ Data(q)' = Data(q)
              /\ status'[h] = "pending" /\ UNCHANGED <<broadcast, settled>>
<1> USE DEF l1Vars, tmVars
<1>1. WorldOK /\ rq \in Requests
  BY DEF TypeInv, TypeOK, ITypeOK, WorldOK, Requests
<1>2. table \in [Hashes -> {NoRow} \union {CallData(t, sa) : t \in Txs, sa \in Addrs}]
  BY DEF TypeInv, TypeOK, ITypeOK
<1>3. CASE UNCHANGED ivars
  BY <1>3 DEF ivars, StatusMoves
<1>4. CASE OthersMove
  BY <1>4 DEF OthersMove
<1>5. ASSUME NEW q \in Reqs, Handles(q)
      PROVE  \/ table'[h] = table[h] /\ StatusMoves(h)
             \/ /\ At(q, "commit") /\ Key(q) = h /\ Key(q)' = h
                /\ rq'[q].pc \in {"acked", "refused"}
                /\ rq'[q].tx = rq[q].tx /\ rq'[q].sa = rq[q].sa
                /\ table'[h] = Data(q) /\ Data(q)' = Data(q)
                /\ status'[h] = "pending" /\ UNCHANGED <<broadcast, settled>>
  <2>1. CASE UNCHANGED <<table, tmVars>>
    BY <2>1 DEF StatusMoves
  <2>2. CASE At(q, "commit") /\ Stored(q)
    <3>1. /\ rq'[q].pc \in {"acked", "refused"}
          /\ rq'[q].tx = rq[q].tx /\ rq'[q].sa = rq[q].sa
      BY <1>5, <2>2 DEF Handles, RequestMoves, Arrives, Proceeds, At
    <3>2. Key(q)' = Key(q) /\ Data(q)' = Data(q)
      BY <3>1 DEF Key, Data
    <3>3. CASE h = Key(q)
      BY <1>1, <1>2, <2>2, <3>1, <3>2, <3>3 DEF Stored, WorldOK
    <3>4. CASE h # Key(q)
      BY <1>1, <1>2, <2>2, <3>4 DEF Stored, WorldOK, StatusMoves
    <3> QED
      BY <3>3, <3>4
  <2> QED
    BY <1>5, <2>1, <2>2 DEF Handles
<1> QED
  BY <1>3, <1>4, <1>5, StepKinds

LEMMA NextStored == TypeInv /\ ChecksHold /\ StoredByRequest /\ [Next]_vars => StoredByRequest'
<1> SUFFICES ASSUME TypeInv, ChecksHold, StoredByRequest, [Next]_vars,
                    NEW h \in Hashes, IsStored(h)'
             PROVE  \E q \in Reqs :
                      /\ rq'[q].pc \in {"acked", "refused"} /\ Key(q)' = h /\ table'[h] = Data(q)'
                      /\ <<rq'[q].tx.rollup, rq'[q].sa>> \in sequencers'
                      /\ IsSound(rq[q].tx)' /\ WasAuthorised(rq[q].tx)'
  BY DEF StoredByRequest
<1>1. sequencers \subseteq sequencers' /\ rq \in Requests
  BY StepGrows DEF Grows, TypeInv, TypeOK, ITypeOK, Requests
<1>2. ASSUME NEW q \in Reqs, rq'[q].tx = rq[q].tx, IsSound(rq[q].tx), WasAuthorised(rq[q].tx)
      PROVE  IsSound(rq[q].tx)' /\ WasAuthorised(rq[q].tx)'
  <2>1. PICK u \in Txs : u = rq[q].tx
    BY <1>1 DEF Requests
  <2>2. IsSound(u) /\ WasAuthorised(u)
    BY <1>2, <2>1
  <2>3. IsSound(u)' /\ WasAuthorised(u)'
    BY <2>2, ChecksStay
  <2> QED
    BY <1>2, <2>1, <2>3 DEF IsSound, WasAuthorised
<1>3. CASE table'[h] = table[h]
  <2>1. PICK q \in Reqs :
          /\ rq[q].pc \in {"acked", "refused"} /\ Key(q) = h /\ table[h] = Data(q)
          /\ <<rq[q].tx.rollup, rq[q].sa>> \in sequencers
          /\ IsSound(rq[q].tx) /\ WasAuthorised(rq[q].tx)
    BY <1>3 DEF StoredByRequest, IsStored
  <2>2. rq'[q] = rq[q] \/ RequestMoves(q)
    BY StepGrows
  <2>3. /\ rq'[q].pc \in {"acked", "refused"}
        /\ rq'[q].tx = rq[q].tx /\ rq'[q].sa = rq[q].sa
    BY <2>1, <2>2 DEF RequestMoves, Arrives, Proceeds, At
  <2>4. Key(q)' = Key(q) /\ Data(q)' = Data(q)
    BY <2>3 DEF Key, Data
  <2> QED
    BY <1>1, <1>2, <1>3, <2>1, <2>3, <2>4
<1>4. ASSUME NEW q \in Reqs, At(q, "commit"), Key(q)' = h,
             rq'[q].pc \in {"acked", "refused"},
             rq'[q].tx = rq[q].tx, rq'[q].sa = rq[q].sa,
             table'[h] = Data(q), Data(q)' = Data(q)
      PROVE  /\ rq'[q].pc \in {"acked", "refused"} /\ Key(q)' = h /\ table'[h] = Data(q)'
             /\ <<rq'[q].tx.rollup, rq'[q].sa>> \in sequencers'
             /\ IsSound(rq[q].tx)' /\ WasAuthorised(rq[q].tx)'
  <2>1. /\ <<rq[q].tx.rollup, rq[q].sa>> \in sequencers
        /\ IsSound(rq[q].tx) /\ WasAuthorised(rq[q].tx)
    BY <1>4 DEF ChecksHold, At, PastBuild, PastExecute, PastSignature, PastZKP, PCs
  <2> QED
    BY <1>1, <1>2, <1>4, <2>1
<1> QED
  BY <1>3, <1>4, RowStep

LEMMA InitStored == Init => ChecksHold /\ StoredByRequest
<1> SUFFICES ASSUME Init PROVE ChecksHold /\ StoredByRequest
  OBVIOUS
<1>1. /\ \A q \in Reqs : rq[q].pc = "idle"
      /\ \A h \in Hashes : table[h] = NoRow
      /\ sequencers = {<<r, sequencer[r]>> : r \in Rollups}
  BY DEF Init, IInit
<1> QED
  BY <1>1 DEF ChecksHold, StoredByRequest, IsStored, PastBuild, PastExecute, PastSignature, PastZKP

LEMMA StoredInvariant == Spec => [](TypeInv /\ ChecksHold /\ StoredByRequest)
BY InitType, NextType, InitStored, NextChecks, NextStored, PTL DEF Spec

(* The roots of a stored row are the ones of the full node for that batch. *)
THEOREM RowsAreSound == Spec => []StoredIsSound
<1>1. TypeInv /\ StoredByRequest => StoredIsSound
  <2> SUFFICES ASSUME TypeInv, StoredByRequest, NEW h \in Hashes, IsStored(h)
               PROVE  LET d == table[h] IN
                      /\ d.new \in 1..synced[d.rollup]
                      /\ Batches[d.rollup][d.new] = [root |-> d.root, exit |-> d.exit]
    BY DEF StoredIsSound
  <2>1. PICK q \in Reqs : table[h] = Data(q) /\ IsSound(rq[q].tx)
    BY DEF StoredByRequest
  <2> QED
    BY <2>1 DEF IsSound, Data, CallData
<1> QED
  BY <1>1, StoredInvariant, PTL

(* A stored row was signed by whom its rollup lets sign, and rewards one   *)
(* of its sequencers.                                                      *)
THEOREM RowsAreAuthorised == Spec => []StoredIsAuthorised
<1>1. StoredByRequest => StoredIsAuthorised
  <2> SUFFICES ASSUME StoredByRequest, NEW h \in Hashes, IsStored(h)
               PROVE  /\ <<table[h].rollup, table[h].beneficiary>> \in sequencers
                      /\ \E q \in Reqs : /\ Hash(rq[q].tx) = h /\ rq[q].tx.rollup = table[h].rollup
                                         /\ WasAuthorised(rq[q].tx)
    BY DEF StoredIsAuthorised, WasAuthorised
  <2>1. PICK q \in Reqs : /\ Key(q) = h /\ table[h] = Data(q)
                          /\ <<rq[q].tx.rollup, rq[q].sa>> \in sequencers
                          /\ WasAuthorised(rq[q].tx)
    BY DEF StoredByRequest
  <2>2. table[h].rollup = rq[q].tx.rollup /\ table[h].beneficiary = rq[q].sa
    BY <2>1 DEF Data, CallData
  <2> QED
    BY <2>1, <2>2 DEF Key
<1> QED
  BY <1>1, StoredInvariant, PTL

---------------------------------------------------------------------------
(* A row that is there stays as it is, and a final status is final.        *)
LEMMA RowStays ==
  ASSUME TypeInv, RowInv, [Next]_vars, NEW h \in Hashes, status[h] # "none"
  PROVE  table'[h] = table[h] /\ StatusMoves(h)
<1>1. ASSUME NEW q \in Reqs, At(q, "commit"), Key(q) = h PROVE FALSE
  BY <1>1 DEF RowInv, FirstOfItsHash
<1> QED
  BY <1>1, RowStep

LEMMA NextVerified ==
  TypeInv /\ RowInv /\ SettledIsVerified /\ [Next]_vars => SettledIsVerified'
<1> SUFFICES ASSUME TypeInv, RowInv, SettledIsVerified, [Next]_vars PROVE SettledIsVerified'
  OBVIOUS
<1> USE DEF l1Vars, tmVars
<1>1. TypeOK /\ RowsAreThere /\ WorldOK /\ WorldOK' /\ Grows
  BY NextType, StepGrows DEF TypeInv, TypeOK, ITypeOK, WorldOK
<1>2. ASSUME NEW h \in settled' PROVE verified'[table'[h].rollup] >= table'[h].new
  <2>1. CASE h \in settled
    <3>1. h \in Hashes /\ status[h] # "none" /\ IsStored(h)
      BY <1>1, <2>1 DEF WorldOK, RowsAreThere
    <3>2. table[h].rollup \in Rollups /\ table[h].new \in Nat
      BY <1>1, <3>1, RowIsCallData
    <3>3. verified[table[h].rollup] >= table[h].new
      BY <2>1 DEF SettledIsVerified
    <3>4. /\ verified[table[h].rollup] \in Nat /\ verified'[table[h].rollup] \in Nat
          /\ verified'[table[h].rollup] >= verified[table[h].rollup]
      BY <1>1, <3>2 DEF WorldOK, Grows
    <3>5. table'[h] = table[h]
      BY <3>1, RowStays
    <3> QED
      BY <3>2, <3>3, <3>4, <3>5
  <2>2. CASE h \notin settled
    <3>1. \A q \in Reqs : ~Handles(q)
      BY <1>2, <2>2 DEF Handles, Stored
    <3>2. OthersMove
      BY <1>2, <2>2, <3>1, StepKinds DEF ivars
    <3> QED
      BY <1>2, <2>2, <3>2 DEF OthersMove
  <2> QED
    BY <2>1, <2>2
<1>3. ASSUME NEW h \in Hashes, status'[h] = "confirmed" PROVE h \in settled'
  BY <1>1, <1>3, RowStep DEF StatusMoves, SettledIsVerified, Grows
<1> QED
  BY <1>2, <1>3 DEF SettledIsVerified

LEMMA NextCaller == TypeInv /\ RowInv /\ CallerInv /\ [Next]_vars => CallerInv'
<1> SUFFICES ASSUME TypeInv, RowInv, CallerInv, [Next]_vars, NEW c \in Clients
    PROVE  /\ cl'[c].pc = "sending" =>
                cl'[c].q \in Reqs /\ rq'[cl'[c].q].pc # "idle" /\ rq'[cl'[c].q].tx = cl'[c].tx
           /\ cl'[c].acked =>
                /\ status'[Hash(cl'[c].tx)] # "none"
                /\ \E sa \in Addrs : table'[Hash(cl'[c].tx)] = CallData(cl'[c].tx, sa)
           /\ cl'[c].seen \in {"confirmed", "failed"} => status'[Hash(cl'[c].tx)] = cl'[c].seen
  BY DEF CallerInv, At, Hash, CallData
<1> DEFINE t == cl[c].tx
           h == Hash(t)
<1>1. cl \in Callers /\ rq \in Requests /\ cl' \in Callers
  BY StepKinds DEF TypeInv, TypeOK, ITypeOK, Callers, Requests
<1>2. t \in Txs /\ h \in Hashes
  BY <1>1 DEF Callers, Hashes
<1>3. /\ cl[c].pc = "sending" =>
           cl[c].q \in Reqs /\ ~At(cl[c].q, "idle") /\ rq[cl[c].q].tx = t
      /\ cl[c].acked =>
           status[h] # "none" /\ \E sa \in Addrs : table[h] = CallData(t, sa)
      /\ cl[c].seen \in {"confirmed", "failed"} => status[h] = cl[c].seen
  BY DEF CallerInv
<1> HIDE DEF h
<1>4. status[h] # "none" => table'[h] = table[h] /\ StatusMoves(h)
  BY <1>2, RowStays
<1>5. /\ status[h] # "none" => status'[h] # "none"
      /\ status[h] \in {"confirmed", "failed"} => status'[h] = status[h]
  BY <1>4 DEF StatusMoves
<1>6. CASE cl'[c] = cl[c]
  <2>1. cl[c].pc = "sending" => /\ cl[c].q \in Reqs /\ rq'[cl[c].q].pc # "idle"
                                /\ rq'[cl[c].q].tx = t
    <3> SUFFICES ASSUME cl[c].pc = "sending"
                 PROVE  /\ cl[c].q \in Reqs /\ rq'[cl[c].q].pc # "idle"
                        /\ rq'[cl[c].q].tx = t
      OBVIOUS
    <3>1. PICK q \in Reqs : q = cl[c].q /\ ~At(q, "idle") /\ rq[q].tx = t
      BY <1>3
    <3> QED
      BY <3>1, TxStays
  <2> QED
    BY <1>3, <1>4, <1>5, <1>6, <2>1 DEF h
<1>7. CASE CallerMoves(c) /\ Sends(c)
  <2>1. /\ cl'[c].q \in Reqs /\ CheckTx(cl'[c].q, t) /\ cl'[c].tx = t
        /\ cl'[c].acked = cl[c].acked /\ cl'[c].seen = cl[c].seen
    BY <1>7 DEF CallerMoves, Sends
  <2>2. ASSUME NEW q \in Reqs, CheckTx(q, t) PROVE rq'[q].pc # "idle" /\ rq'[q].tx = t
    BY <1>1, <1>2, <2>2 DEF CheckTx, Requests
  <2>3. rq'[cl'[c].q].pc # "idle" /\ rq'[cl'[c].q].tx = t
    BY <2>1, <2>2
  <2> QED
    BY <1>3, <1>4, <1>5, <2>1, <2>3 DEF h
<1>8. CASE CallerMoves(c) /\ Hears(c)
  <2>1. /\ cl'[c].tx = t /\ cl'[c].pc # "sending" /\ status' = status /\ table' = table
    BY <1>8 DEF CallerMoves, Hears, ivars, tmVars
  <2>2. cl'[c].acked => status[h] # "none" /\ \E sa \in Addrs : table[h] = CallData(t, sa)
    <3>1. CASE cl[c].pc = "sending" /\ At(cl[c].q, "acked")
      <4>1. PICK q \in Reqs : q = cl[c].q /\ At(q, "acked") /\ rq[q].tx = t
        BY <1>3, <3>1
      <4>2. status[Key(q)] # "none" /\ table[Key(q)] = Data(q) /\ rq[q].sa \in Addrs
        BY <1>1, <4>1 DEF RowInv, AckedKeepsRow, Requests
      <4> QED
        BY <4>1, <4>2 DEF Key, Data, h
    <3>2. CASE cl'[c].acked = cl[c].acked
      BY <1>3, <3>2
    <3> QED
      BY <1>8, <3>1, <3>2 DEF Hears
  <2>3. cl'[c].seen \in {"confirmed", "failed"} => status[h] = cl'[c].seen
    BY <1>3, <1>8 DEF Hears, Reported, Result, h
  <2> QED
    BY <2>1, <2>2, <2>3 DEF h
<1> QED
  BY <1>6, <1>7, <1>8, StepKinds DEF CallerMoves

LEMMA InitCaller == Init => SettledIsVerified /\ CallerInv
<1> SUFFICES ASSUME Init PROVE SettledIsVerified /\ CallerInv
  OBVIOUS
<1>1. \A c \in Clients : cl[c].pc = "idle" /\ ~cl[c].acked /\ cl[c].seen = "none"
  BY DEF Init
<1>2. settled = {} /\ \A h \in Hashes : status[h] = "none"
  BY DEF Init, IInit
<1> QED
  BY <1>1, <1>2 DEF SettledIsVerified, CallerInv

LEMMA CallerInvariant == Spec => [](TypeInv /\ RowInv /\ SettledIsVerified /\ CallerInv)
BY InitType, NextType, InitRow, NextRow, InitCaller, NextVerified, NextCaller, PTL DEF Spec

(* A caller with its hash that is told confirmed has its batch verified.   *)
THEOREM ConfirmedBatchIsVerified == Spec => []ConfirmedIsVerified
<1>1. TypeInv /\ SettledIsVerified /\ CallerInv => ConfirmedIsVerified
  <2> SUFFICES ASSUME TypeInv, SettledIsVerified, CallerInv, NEW c \in Clients,
                      cl[c].acked, cl[c].seen = "confirmed"
               PROVE  verified[cl[c].tx.rollup] >= cl[c].tx.new
    BY DEF ConfirmedIsVerified
  <2>1. Hash(cl[c].tx) \in Hashes
    BY DEF TypeInv, TypeOK, Hashes
  <2>2. Hash(cl[c].tx) \in settled
    BY <2>1 DEF CallerInv, SettledIsVerified
  <2>3. PICK sa \in Addrs : table[Hash(cl[c].tx)] = CallData(cl[c].tx, sa)
    BY DEF CallerInv
  <2> QED
    BY <2>2, <2>3 DEF SettledIsVerified, CallData
<1> QED
  BY <1>1, CallerInvariant, PTL

(* What a caller is told as final is final.                                *)
THEOREM ToldStaysFinal == Spec => ToldIsFinal
<1>1. ASSUME TypeInv, RowInv, CallerInv, [Next]_vars, NEW c \in Clients,
             cl[c].seen \in {"confirmed", "failed"}
      PROVE  cl'[c].seen = cl[c].seen
  <2>1. status[Hash(cl[c].tx)] = cl[c].seen
    BY <1>1 DEF CallerInv
  <2> QED
    BY <1>1, <2>1, StepKinds DEF CallerMoves, Sends, Hears, Reported, Result
<1>2. TypeInv /\ RowInv /\ CallerInv /\ [Next]_vars =>
        [\A c \in Clients :
           cl[c].seen \in {"confirmed", "failed"} => cl'[c].seen = cl[c].seen]_vars
  BY <1>1
<1> QED
  BY <1>2, CallerInvariant, PTL DEF Spec, ToldIsFinal

(* A step of the pipeline is a step of Settlement or leaves it alone: a    *)
(* row is accepted once.                                                   *)
LEMMA NextUses == TypeInv /\ RowInv /\ [Next]_vars => [TM!Next]_(TM!avars)
<1> SUFFICES ASSUME TypeInv, RowInv, [Next]_vars PROVE [TM!Next]_(TM!avars)
  OBVIOUS
<1> USE DEF TM!avars, tmVars
<1>1. TypeOK /\ rq \in Requests
  BY DEF TypeInv, TypeOK, ITypeOK, Requests
<1>2. ASSUME NEW q \in Reqs, Handles(q) PROVE [TM!Next]_(TM!avars)
  <2>1. CASE UNCHANGED tmVars
    BY <2>1
  <2>2. CASE At(q, "commit") /\ Stored(q)
    <3>1. Key(q) \in Hashes /\ status[Key(q)] = "none"
      BY <1>1, <2>2 DEF Requests, Key, Hashes, RowInv, FirstOfItsHash
    <3>2. TM!Accept(Key(q))
      BY <2>2, <3>1 DEF TM!Accept, Stored
    <3> QED
      BY <3>1, <3>2 DEF TM!Next
  <2> QED
    BY <1>2, <2>1, <2>2 DEF Handles
<1>3. ASSUME Others PROVE [TM!Next]_(TM!avars)
  BY <1>3 DEF Others, SetTrustedSequencer, VerifiedByOthers, Sync, Mined, Monitored, TM!Next
<1>4. ASSUME NEW c \in Clients,
             CallSendTx(c) \/ SendTxReturns(c) \/ GetTxStatus(c) \/ WaitTxToBeMined(c)
      PROVE  UNCHANGED tmVars
  BY <1>4 DEF CallSendTx, CheckTx, SendTxReturns, GetTxStatus, WaitTxToBeMined,
              CallWait, Tick, WaitExpires, ivars
<1>5. ASSUME NEW q \in Reqs, SendTx(q) PROVE Handles(q)
  BY <1>1, <1>5, RequestStep
<1> QED
  BY <1>2, <1>3, <1>4, <1>5 DEF Next, vars, ivars

(* Requests, callers and contract keep to the interface of the transaction *)
(* manager.                                                                *)
THEOREM PipelineUsesSettlement == Spec => UsesSettlement
<1>1. Init => TM!Init
  BY DEF Init, IInit, TM!Init
<1> QED
  BY <1>1, InitType, NextType, InitRow, NextRow, NextUses, PTL
     DEF Spec, UsesSettlement, TM!Spec

=============================================================================
