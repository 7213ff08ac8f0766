------------------------ MODULE TxManagerRows_proofs ------------------------
(***************************************************************************)
(* What the table may be relied on for, for every value of the constants   *)
(* and every set of faults: rows only advance, an acknowledged id keeps    *)
(* its row, a sent row was broadcast, and the retry limit bounds the       *)
(* attempts.                                                               *)
(*                                                                         *)
(* The first part says once, field by field, what a step of a monitorTx    *)
(* goroutine does to its row and to itself; the invariants of this module  *)
(* and of the modules that extend it are proved from that.                 *)
(***************************************************************************)
EXTENDS TxManager_proofs

(* n is a later version of the row m, which nobody gave another nonce. *)
Rewrites(m, n) ==
  /\ n \in Row
  /\ n.nonce = m.nonce
  /\ n.gas >= m.gas /\ n.price >= m.price /\ n.retries >= m.retries
  /\ m.history \subseteq n.history

(* The row n that the goroutine of i stores in one step. *)
Stores(i, n) ==
  LET m == mon[i].m IN
  /\ Rewrites(m, n)
  /\ \/ mon[i].pc = "saveNonce" /\ n.status = m.status /\ n.history = m.history
     \/ /\ HistoryChecked(i) /\ n.history = m.history
        /\ \/ n.status = "failed" /\ OutOfRetries(i)
           \/ n.status = "sent" /\ m.status = "sent"
     \/ /\ mon[i].pc = "sign" /\ n.status = m.status /\ n.retries = m.retries + 1
        /\ \E s \in Sigs : n.history = m.history \union {Tx(i, m, s)}
     \/ mon[i].pc = "markSent" /\ n.status = "sent" /\ n.history = m.history
     \/ /\ mon[i].pc = "finish" /\ n.history = m.history
        /\ n.block = mon[i].seen.block
        /\ n.status = IF mon[i].seen.ok THEN "confirmed" ELSE "failed"

(* The goroutine of i goes on in one step: it looks up one transaction of  *)
(* the history,                                                            *)
Looks(i) ==
  LET x == mon[i] y == mon'[i] IN
  /\ x.pc = "check" /\ y.pc = "check"
  /\ y.m = x.m /\ db'[i] = db[i]
  /\ \E t \in x.todo :
       \/ /\ y.todo = x.todo \ {t} /\ y.seen = x.seen
          /\ \/ "lookup" \in Faults /\ y.allMined = x.allMined
             \/ ~Mined(t) /\ y.allMined = FALSE
             \/ FailedOnL1(t) /\ y.allMined = x.allMined
       \/ \E rc \in receipts :
            rc.tx = t /\ rc.ok /\ y.todo = {} /\ y.seen = [ok |-> TRUE, block |-> rc.block]

(* gives its copy a larger nonce, or asks the node for one,                *)
ReviewsNonce(i) ==
  LET x == mon[i] y == mon'[i] IN
  /\ \/ x.pc = "check" /\ x.todo = {} /\ NonceNeedsReview(i)
     \/ x.pc = "pending"
  /\ y.seen = x.seen /\ db'[i] = db[i]
  /\ \/ y.pc = "pending" /\ y.m = x.m
     \/ /\ y.pc = "saveNonce"
        /\ y.m \in Row /\ y.m.nonce >= x.m.nonce /\ y.m.history = x.m.history
        /\ y.m.retries = x.m.retries

(* has stored the nonce,                                                   *)
Resumes(i) ==
  /\ mon[i].pc = "saveNonce" /\ mon'[i].pc = "resume"
  /\ mon'[i].m = mon[i].m /\ mon'[i].seen = mon[i].seen
  /\ db'[i] = mon[i].m

(* turns to a receipt it has found,                                        *)
Finds(i) ==
  /\ HistoryChecked(i) /\ mon[i].seen.ok
  /\ mon'[i].pc = "finish"
  /\ mon'[i].m = mon[i].m /\ mon'[i].seen = mon[i].seen
  /\ db'[i] = db[i]

(* starts a new attempt, of a row it may have reviewed and stored,         *)
Attempts(i) ==
  LET x == mon[i] y == mon'[i] IN
  /\ HistoryChecked(i) /\ ~OutOfRetries(i)
  /\ y.pc = "sign" /\ ~y.seen.ok
  /\ \/ y.m = x.m /\ db'[i] = db[i]
     \/ /\ y.m = db'[i] /\ Rewrites(x.m, y.m)
        /\ y.m.status = x.m.status /\ y.m.status = "sent"
        /\ y.m.history = x.m.history /\ y.m.retries = x.m.retries

(* signs, and stores the hash when it is new,                              *)
Signs(i) ==
  LET x == mon[i] y == mon'[i] tx == Tx(i, x.m, y.sig) IN
  /\ x.pc = "sign" /\ y.pc = "getTx" /\ ~y.seen.ok
  /\ y.sig \in Sigs /\ SignedTx(i)' = tx /\ tx \in y.m.history
  /\ \/ y.m = x.m /\ db'[i] = db[i]
     \/ /\ y.m = db'[i] /\ Rewrites(x.m, y.m)
        /\ y.m.status = x.m.status
        /\ y.m.history = x.m.history \union {tx} /\ y.m.retries = x.m.retries + 1

(* moves on with its signed transaction,                                   *)
MovesOn(i) ==
  LET x == mon[i] y == mon'[i] IN
  /\ y.m = x.m /\ SignedTx(i)' = SignedTx(i) /\ y.seen = x.seen
  /\ db'[i] = db[i]
  /\ \/ x.pc = "getTx" /\ y.pc \in {"send", "wait"}
     \/ x.pc = "send" /\ y.pc \in {"wait", "markSent"} /\ SignedTx(i) \in sent'
     \/ x.pc = "wait" /\ y.pc = "receipt" /\ Succeeded(SignedTx(i))

(* has stored that it was sent,                                            *)
Marks(i) ==
  LET x == mon[i] y == mon'[i] IN
  /\ x.pc = "markSent" /\ y.pc = "wait"
  /\ SignedTx(i)' = SignedTx(i) /\ y.seen = x.seen
  /\ y.m = db'[i] /\ Rewrites(x.m, y.m)
  /\ y.m.status = "sent" /\ y.m.history = x.m.history

(* or has got the receipt.                                                 *)
GetsReceipt(i) ==
  /\ mon[i].pc = "receipt" /\ mon'[i].pc = "finish"
  /\ mon'[i].m = mon[i].m /\ db'[i] = db[i]
  /\ \E rc \in receipts :
       /\ rc.tx = SignedTx(i)
       /\ mon'[i].seen = [ok |-> rc.ok, block |-> rc.block]

(* Or it returns, having stored a row or not. *)
Stops(i) ==
  /\ mon'[i] = IdleMon
  /\ db'[i] = db[i] \/ Stores(i, db'[i])

GoesOn(i) ==
  \/ Looks(i) \/ ReviewsNonce(i) \/ Resumes(i) \/ Finds(i) \/ Attempts(i) \/ Signs(i)
  \/ MovesOn(i) \/ Marks(i) \/ GetsReceipt(i)

(* A step of one goroutine leaves the other rows and goroutines alone, and *)
(* all it does to the node is to send its signed transaction.              *)
OneGoroutine(i) ==
  /\ mon[i].pc # "idle"
  /\ UNCHANGED <<req, acked>>
  /\ \A j \in Ids \ {i} : db'[j] = db[j] /\ mon'[j] = mon[j]
  /\ \/ UNCHANGED l1vars
     \/ mon[i].pc = "send" /\ Accept(SignedTx(i))

---------------------------------------------------------------------------
(* storage.Update of a row the goroutine may store: it goes on as next, or *)
(* the call failed and it returns.                                         *)
LEMMA UpdateEffect ==
  ASSUME TypeOK, NEW i \in Ids, NEW n, NEW next, Update(i, n, next), Stores(i, n)
  PROVE  /\ \A j \in Ids \ {i} : db'[j] = db[j] /\ mon'[j] = mon[j]
         /\ Stops(i) \/ (db'[i] = n /\ mon'[i] = next)
  BY DEF TypeOK, Update, Idle, Stops

(* Every step of monitorTx is one of the above. *)
LEMMA GoroutineStep ==
  ASSUME SafetyInv, NEW i \in Ids, monitorTx(i)
  PROVE  OneGoroutine(i) /\ (GoesOn(i) \/ Stops(i))
  <1> DEFINE m == mon[i].m
             x == mon[i]
             Alone == \A j \in Ids \ {i} : db'[j] = db[j] /\ mon'[j] = mon[j]
  <1>0. /\ TypeOK /\ x \in Monitoring /\ m \in Row /\ db[i] \in Row
        /\ x.seen \in Seen /\ db \in [Ids -> Row] /\ mon \in [Ids -> Monitoring]
    BY DEF SafetyInv, TypeOK, Monitoring
  <1>1. ASSUME UNCHANGED db, Idle(i) PROVE Alone /\ Stops(i)
    BY <1>0, <1>1 DEF Idle, Stops
  <1>2. ASSUME NEW pc, Goto(i, pc), UNCHANGED db
        PROVE  /\ Alone /\ db'[i] = db[i]
               /\ mon'[i].pc = pc /\ mon'[i].m = m /\ mon'[i].seen = x.seen
               /\ SignedTx(i)' = SignedTx(i)
    BY <1>0, <1>2 DEF Goto, Monitoring, SignedTx
  <1>3. ASSUME NEW n \in 0..MaxNonce, AdoptNonce(i, n), UNCHANGED db
        PROVE  /\ Alone /\ db'[i] = db[i]
               /\ mon'[i].pc = "saveNonce" /\ mon'[i].seen = x.seen
               /\ mon'[i].m \in Row /\ mon'[i].m.nonce >= m.nonce
               /\ mon'[i].m.history = m.history /\ mon'[i].m.retries = m.retries
    <2> DEFINE w == [m EXCEPT !.nonce = Larger(n, m.nonce)]
    <2>1. w \in Row /\ w.nonce >= m.nonce /\ w.history = m.history /\ w.retries = m.retries
      BY <1>0, MaxNonceAssumption DEF Row, Larger
    <2>2. mon' = [mon EXCEPT ![i] = [x EXCEPT !.pc = "saveNonce", !.m = w]]
      BY <1>3 DEF AdoptNonce
    <2> HIDE DEF w
    <2>3. mon'[i].pc = "saveNonce" /\ mon'[i].m = w /\ mon'[i].seen = x.seen
      BY <1>0, <2>2 DEF Monitoring
    <2> QED
      BY <1>0, <1>3, <2>1, <2>2, <2>3
  <1>4. Rewrites(m, m)
    BY <1>0 DEF Rewrites, Row
  <1>5. CASE CheckHistory(i)
    <2>1. x.pc = "check" /\ db' = db /\ UNCHANGED <<req, acked, l1vars>>
      BY <1>5 DEF CheckHistory
    <2>2. PICK t \in x.todo :
            \/ /\ "lookup" \in Faults
               /\ mon' = [mon EXCEPT ![i].todo = @ \ {t}]
            \/ /\ ~Mined(t)
               /\ mon' = [mon EXCEPT ![i].todo = @ \ {t}, ![i].allMined = FALSE]
            \/ \E rc \in receipts :
                 /\ rc.tx = t
                 /\ mon' = IF rc.ok
                           THEN [mon EXCEPT ![i].todo = {},
                                            ![i].seen = [ok |-> TRUE, block |-> rc.block]]
                           ELSE [mon EXCEPT ![i].todo = @ \ {t}, ![i].anyFailed = TRUE]
      BY <1>5 DEF CheckHistory
    <2>3. Alone
      BY <1>0, <2>1, <2>2
    <2>4. Looks(i)
      <3>1. CASE "lookup" \in Faults /\ mon' = [mon EXCEPT ![i].todo = @ \ {t}]
        BY <1>0, <2>1, <3>1 DEF Looks, Monitoring
      <3>2. CASE ~Mined(t) /\ mon' = [mon EXCEPT ![i].todo = @ \ {t}, ![i].allMined = FALSE]
        BY <1>0, <2>1, <3>2 DEF Looks, Monitoring
      <3>3. ASSUME NEW rc \in receipts, rc.tx = t, rc.ok,
                   mon' = [mon EXCEPT ![i].todo = {},
                                      ![i].seen = [ok |-> TRUE, block |-> rc.block]]
            PROVE  Looks(i)
        BY <1>0, <2>1, <3>3 DEF Looks, Monitoring
      <3>4. ASSUME NEW rc \in receipts, rc.tx = t, ~rc.ok,
                   mon' = [mon EXCEPT ![i].todo = @ \ {t}, ![i].anyFailed = TRUE]
            PROVE  Looks(i)
        BY <1>0, <2>1, <3>4 DEF Looks, Monitoring, FailedOnL1
      <3> QED
        BY <2>2, <3>1, <3>2, <3>3, <3>4
    <2> QED
      BY <2>1, <2>3, <2>4 DEF OneGoroutine, GoesOn
  <1>6. CASE ReviewNonceReadCreated(i)
    <2>1. Alone /\ (ReviewsNonce(i) \/ Stops(i))
      BY <1>1, <1>2, <1>3, <1>6 DEF ReviewNonceReadCreated, ReviewsNonce
    <2> QED
      BY <1>6, <2>1 DEF ReviewNonceReadCreated, OneGoroutine, GoesOn
  <1>7. CASE ReviewNoncePending(i)
    <2>1. Alone /\ (ReviewsNonce(i) \/ Stops(i))
      BY <1>1, <1>3, <1>7 DEF ReviewNoncePending, ReviewsNonce
    <2> QED
      BY <1>7, <2>1 DEF ReviewNoncePending, OneGoroutine, GoesOn
  <1>8. CASE SaveNonce(i)
    <2>1. /\ x.pc = "saveNonce" /\ UNCHANGED <<req, acked, l1vars>>
          /\ Update(i, m, [x EXCEPT !.pc = "resume"])
      BY <1>8 DEF SaveNonce
    <2>2. Stores(i, m)
      BY <1>4, <2>1 DEF Stores
    <2>3. /\ [x EXCEPT !.pc = "resume"].pc = "resume"
          /\ [x EXCEPT !.pc = "resume"].m = m /\ [x EXCEPT !.pc = "resume"].seen = x.seen
      BY <1>0 DEF Monitoring
    <2>4. Alone /\ (Stops(i) \/ Resumes(i))
      BY <1>0, <2>1, <2>2, <2>3, UpdateEffect DEF Resumes
    <2> QED
      BY <2>1, <2>4 DEF OneGoroutine, GoesOn
  <1>9. ASSUME NEW n, Stores(i, n), Update(i, n, IdleMon) PROVE Alone /\ Stops(i)
    BY <1>0, <1>9, UpdateEffect DEF Stops
  <1>10. ASSUME HistoryChecked(i) PROVE x.pc # "idle"
    BY <1>10 DEF HistoryChecked
  <1>11. CASE GiveUp(i)
    <2> DEFINE n == [m EXCEPT !.status = "failed"]
    <2>1. Rewrites(m, n) /\ n.status = "failed" /\ n.history = m.history
      BY <1>0 DEF Rewrites, Row, Statuses
    <2>2. /\ HistoryChecked(i) /\ OutOfRetries(i) /\ Update(i, n, IdleMon)
          /\ UNCHANGED <<req, acked, l1vars>>
      BY <1>11 DEF GiveUp
    <2> HIDE DEF n
    <2>3. Alone /\ Stops(i)
      BY <1>9, <2>1, <2>2 DEF Stores
    <2> QED
      BY <1>10, <2>2, <2>3 DEF OneGoroutine
  <1>12. CASE FoundConfirmed(i)
    <2> DEFINE y == [AtRest("finish", m) EXCEPT !.seen = x.seen]
    <2>1. y.pc = "finish" /\ y.m = m /\ y.seen = x.seen
      BY DEF AtRest
    <2>2. /\ HistoryChecked(i) /\ x.seen.ok /\ mon' = [mon EXCEPT ![i] = y]
          /\ UNCHANGED <<db, req, acked, l1vars>>
      BY <1>12 DEF FoundConfirmed
    <2> HIDE DEF y
    <2>3. Alone /\ Finds(i)
      BY <1>0, <2>1, <2>2 DEF Finds
    <2> QED
      BY <1>10, <2>2, <2>3 DEF OneGoroutine, GoesOn
  <1>13. \A n : /\ AtRest("sign", n).pc = "sign" /\ AtRest("sign", n).m = n
                /\ ~AtRest("sign", n).seen.ok
    BY DEF AtRest, NoReceipt
  <1>14. CASE NewAttempt(i)
    <2>1. /\ HistoryChecked(i) /\ ~OutOfRetries(i) /\ UNCHANGED <<db, req, acked, l1vars>>
          /\ mon' = [mon EXCEPT ![i] = IdleMon] \/ mon' = [mon EXCEPT ![i] = AtRest("sign", m)]
      BY <1>14 DEF NewAttempt
    <2>2. Alone /\ (Attempts(i) \/ Stops(i))
      BY <1>0, <1>13, <2>1 DEF Attempts, Stops
    <2> QED
      BY <1>10, <2>1, <2>2 DEF OneGoroutine, GoesOn
  <1>15. CASE ReviewMonitoredTx(i)
    <2> DEFINE withGas(g) == [m EXCEPT !.gas = Larger(g, m.gas)]
               retried(n) == [n EXCEPT !.retries = n.retries + 1]
               priced(g, p) == [withGas(g) EXCEPT
                                  !.price = Larger(SuggestedGasPrice(p), withGas(g).price)]
               Same(n) == /\ Rewrites(m, n) /\ n.status = m.status
                          /\ n.history = m.history
    <2>1. Same(m) /\ \A g \in Gases : Same(withGas(g)) /\ withGas(g).retries = m.retries
      BY <1>0, <1>4, GasAssumption DEF Row, Larger, Rewrites
    <2>2. \A n : Same(n) => Same(retried(n))
      BY <1>0 DEF Row, Rewrites
    <2>3. \A g \in Gases, p \in Suggested :
            Same(priced(g, p)) /\ priced(g, p).retries = m.retries
      <3> SUFFICES ASSUME NEW g \in Gases, NEW p \in Suggested
                   PROVE  Same(priced(g, p)) /\ priced(g, p).retries = m.retries
        OBVIOUS
      <3>1. SuggestedGasPrice(p) \in Nat
        BY PriceType, SuggestedAssumption
      <3>2. \A n : Same(n) /\ n.retries = m.retries =>
              LET k == [n EXCEPT !.price = Larger(SuggestedGasPrice(p), n.price)] IN
              Same(k) /\ k.retries = m.retries
        BY <1>0, <3>1 DEF Row, Larger, Rewrites
      <3> HIDE DEF Same
      <3> QED
        BY <2>1, <3>2
    <2>4. /\ HistoryChecked(i) /\ ~OutOfRetries(i) /\ m.status = "sent"
          /\ UNCHANGED <<req, acked, l1vars>>
      BY <1>15 DEF ReviewMonitoredTx
    <2>5. \/ \E g \in Gases, p \in Suggested :
               Update(i, priced(g, p), AtRest("sign", priced(g, p)))
          \/ Update(i, retried(m), IdleMon)
          \/ \E g \in Gases : Update(i, retried(withGas(g)), IdleMon)
      BY <1>15 DEF ReviewMonitoredTx
    <2>6. ASSUME NEW n, Same(n) PROVE Stores(i, n)
      BY <2>4, <2>6 DEF Stores
    <2>7. ASSUME NEW n, Same(n), n.retries = m.retries, Update(i, n, AtRest("sign", n))
          PROVE  Alone /\ (Attempts(i) \/ Stops(i))
      <3>1. Alone /\ (Stops(i) \/ (db'[i] = n /\ mon'[i] = AtRest("sign", n)))
        BY <1>0, <2>6, <2>7, UpdateEffect
      <3> QED
        BY <1>13, <2>4, <2>7, <3>1 DEF Attempts
    <2>8. Alone /\ (Attempts(i) \/ Stops(i))
      <3> HIDE DEF withGas, retried, priced, Same
      <3> QED
        BY <1>9, <2>1, <2>2, <2>3, <2>5, <2>6, <2>7
    <2> QED
      BY <1>10, <2>4, <2>8 DEF OneGoroutine, GoesOn
  <1>16. CASE Sign(i)
    <2>1. x.pc = "sign" /\ UNCHANGED <<req, acked, l1vars>>
      BY <1>16 DEF Sign
    <2>2. CASE Idle(i) /\ UNCHANGED db
      BY <1>1, <2>1, <2>2 DEF OneGoroutine
    <2>3. ASSUME NEW s \in Sigs, NEW tx, NEW n,
                 tx = Tx(i, m, s), n = AddHistory(m, tx),
                 \/ /\ tx \in m.history
                    /\ mon' = [mon EXCEPT ![i] = [AtRest("getTx", m) EXCEPT !.sig = s]]
                    /\ UNCHANGED db
                 \/ Update(i, n, [AtRest("getTx", n) EXCEPT !.sig = s])
          PROVE  Alone /\ (Signs(i) \/ Stops(i))
      <3> DEFINE at(k) == [AtRest("getTx", k) EXCEPT !.sig = s]
      <3>1. \A k : at(k).pc = "getTx" /\ at(k).m = k /\ at(k).sig = s /\ ~at(k).seen.ok
        BY DEF AtRest, NoReceipt
      <3>2. n \in Row /\ n.history = m.history \union {tx}
        BY <1>0, <2>3, TxType, AddHistoryType
      <3>3. /\ Tx(i, n, s) = tx /\ n.status = m.status /\ n.retries = m.retries + 1
            /\ n.nonce = m.nonce /\ n.gas = m.gas /\ n.price = m.price
        BY <1>0, <2>3 DEF AddHistory, Tx, Row
      <3>4. Rewrites(m, n)
        BY <1>0, <3>2, <3>3 DEF Rewrites, Row
      <3>5. Stores(i, n)
        BY <2>1, <2>3, <3>2, <3>3, <3>4 DEF Stores
      <3> HIDE DEF at
      <3>6. CASE tx \in m.history /\ mon' = [mon EXCEPT ![i] = at(m)] /\ UNCHANGED db
        BY <1>0, <2>1, <2>3, <3>1, <3>6 DEF Signs, SignedTx
      <3>7. CASE Update(i, n, at(n))
        <4>1. Alone /\ (Stops(i) \/ (db'[i] = n /\ mon'[i] = at(n)))
          BY <1>0, <3>5, <3>7, UpdateEffect
        <4> QED
          BY <2>1, <2>3, <3>1, <3>2, <3>3, <3>4, <4>1 DEF Signs, SignedTx
      <3> QED
        BY <2>3, <3>6, <3>7 DEF at
    <2> QED
      BY <1>16, <2>1, <2>2, <2>3 DEF Sign, OneGoroutine, GoesOn
  <1>17. CASE GetTx(i)
    <2>1. Alone /\ MovesOn(i)
      BY <1>2, <1>17 DEF GetTx, MovesOn
    <2> QED
      BY <1>17, <2>1 DEF GetTx, OneGoroutine, GoesOn
  <1>18. CASE SendToNetwork(i)
    <2>1. x.pc = "send" /\ UNCHANGED <<db, req, acked>>
      BY <1>18 DEF SendToNetwork
    <2>2. CASE UNCHANGED l1vars /\ Idle(i)
      BY <1>1, <2>1, <2>2 DEF OneGoroutine
    <2>3. CASE Accept(SignedTx(i)) /\ Idle(i)
      BY <1>1, <2>1, <2>3 DEF OneGoroutine
    <2>4. ASSUME NEW pc \in {"wait", "markSent"}, Accept(SignedTx(i)), Goto(i, pc)
          PROVE  OneGoroutine(i) /\ MovesOn(i)
      <3>1. SignedTx(i) \in sent'
        BY <2>4 DEF Accept
      <3> QED
        BY <1>2, <2>1, <2>4, <3>1 DEF OneGoroutine, MovesOn
    <2> QED
      BY <1>18, <2>2, <2>3, <2>4 DEF SendToNetwork, GoesOn
  <1>19. CASE MarkSent(i)
    <2> DEFINE n == [m EXCEPT !.status = "sent"]
               y == [x EXCEPT !.pc = "wait", !.m = n]
    <2>1. /\ Rewrites(m, n) /\ n.status = "sent" /\ n.history = m.history
          /\ n.nonce = m.nonce /\ n.gas = m.gas /\ n.price = m.price
      BY <1>0 DEF Rewrites, Row, Statuses
    <2>2. y.pc = "wait" /\ y.m = n /\ y.sig = x.sig /\ y.seen = x.seen
      BY <1>0 DEF Monitoring
    <2>3. x.pc = "markSent" /\ Update(i, n, y) /\ UNCHANGED <<req, acked, l1vars>>
      BY <1>19 DEF MarkSent
    <2> HIDE DEF n, y
    <2>4. Stores(i, n)
      BY <2>1, <2>3 DEF Stores
    <2>5. Alone /\ (Stops(i) \/ (db'[i] = n /\ mon'[i] = y))
      BY <1>0, <2>3, <2>4, UpdateEffect
    <2>6. Alone /\ (Stops(i) \/ Marks(i))
      BY <2>1, <2>2, <2>3, <2>5 DEF Marks, SignedTx, Tx
    <2> QED
      BY <2>3, <2>6 DEF OneGoroutine, GoesOn
  <1>20. CASE WaitTxToBeMined(i)
    <2>1. Alone /\ (MovesOn(i) \/ Stops(i))
      BY <1>1, <1>2, <1>20 DEF WaitTxToBeMined, MovesOn
    <2> QED
      BY <1>20, <2>1 DEF WaitTxToBeMined, OneGoroutine, GoesOn
  <1>21. CASE GetTxReceipt(i)
    <2>1. x.pc = "receipt" /\ UNCHANGED <<db, req, acked, l1vars>>
      BY <1>21 DEF GetTxReceipt
    <2>2. CASE Idle(i)
      BY <1>1, <2>1, <2>2 DEF OneGoroutine
    <2>3. ASSUME NEW rc \in receipts, rc.tx = SignedTx(i),
                 mon' = [mon EXCEPT ![i].pc = "finish",
                                    ![i].seen = [ok |-> rc.ok, block |-> rc.block]]
          PROVE  Alone /\ GetsReceipt(i)
      <3>1. /\ Alone /\ mon'[i].pc = "finish" /\ mon'[i].m = m
            /\ mon'[i].seen = [ok |-> rc.ok, block |-> rc.block]
        BY <1>0, <2>1, <2>3 DEF Monitoring
      <3> QED
        BY <2>1, <2>3, <3>1 DEF GetsReceipt
    <2> QED
      BY <1>21, <2>1, <2>2, <2>3 DEF GetTxReceipt, OneGoroutine, GoesOn
  <1>22. CASE Finish(i)
    <2> DEFINE as(st) == [m EXCEPT !.status = st, !.block = x.seen.block]
    <2>1. \A st \in Terminal : /\ Rewrites(m, as(st)) /\ as(st).status = st
                              /\ as(st).history = m.history /\ as(st).block = x.seen.block
      <3> SUFFICES ASSUME NEW st \in Terminal
                   PROVE  /\ Rewrites(m, as(st)) /\ as(st).status = st
                          /\ as(st).history = m.history /\ as(st).block = x.seen.block
        OBVIOUS
      <3>1. st \in Statuses /\ x.seen.block \in Nat
        BY <1>0 DEF Statuses, Terminal, Seen
      <3>2. as(st) \in Row
        BY <1>0, <3>1 DEF Row
      <3> QED
        BY <1>0, <3>2 DEF Rewrites, Row
    <2>2. /\ x.pc = "finish" /\ UNCHANGED <<req, acked, l1vars>>
          /\ \/ x.seen.ok /\ Update(i, as("confirmed"), IdleMon)
             \/ ~x.seen.ok /\ Update(i, as("failed"), IdleMon)
             \/ Idle(i) /\ UNCHANGED db
      BY <1>22 DEF Finish
    <2> HIDE DEF as
    <2>3. Alone /\ Stops(i)
      BY <1>1, <1>9, <2>1, <2>2 DEF Stores, Terminal
    <2> QED
      BY <2>2, <2>3 DEF OneGoroutine
  <1> QED
    BY <1>5, <1>6, <1>7, <1>8, <1>11, <1>12, <1>14, <1>15, <1>16, <1>17, <1>18, <1>19,
       <1>20, <1>21, <1>22 DEF monitorTx

(* Whether it goes on or returns, it has stored a row it may store, or     *)
(* none.                                                                   *)
LEMMA GoroutineWrites ==
  ASSUME SafetyInv, NEW i \in Ids, OneGoroutine(i), GoesOn(i) \/ Stops(i)
  PROVE  db'[i] = db[i] \/ Stores(i, db'[i])
  <1>0. mon[i].m \in Row
    BY DEF SafetyInv, TypeOK, Monitoring
  <1>1. CASE Resumes(i)
    BY <1>0, <1>1 DEF Resumes, Stores, Rewrites, Row
  <1>2. CASE Attempts(i)
    BY <1>2 DEF Attempts, Stores
  <1>3. CASE Signs(i)
    BY <1>3 DEF Signs, Stores
  <1>4. CASE Marks(i)
    BY <1>4 DEF Marks, Stores
  <1> QED
    BY <1>1, <1>2, <1>3, <1>4
       DEF GoesOn, Stops, Looks, ReviewsNonce, Finds, MovesOn, GetsReceipt

---------------------------------------------------------------------------
(* What makes SentWasBroadcast and BoundedAttempts inductive.  The signed  *)
(* transaction is in the stored history until the goroutine is done with   *)
(* it, and has been accepted by the node before the row is marked sent; a  *)
(* row is added without a history and only gets transactions of its own.   *)
SignedStays ==
  \A i \in Ids :
    mon[i].pc \in {"getTx", "send", "markSent", "wait", "receipt"} =>
      SignedTx(i) \in db[i].history

NewRowsAreEmpty == \A r \in Reqs : req[r].pc = "commit" => req[r].row.history = {}

HistoryIsOwn == \A i \in Ids : \A t \in db[i].history : t.id = i

MarkedWasSent == \A i \in Ids : mon[i].pc = "markSent" => SignedTx(i) \in sent

(* Every hash of a row is counted by num_retries, except in a row of an    *)
(* older release until its goroutine has counted them: the copy of a       *)
(* running goroutine is always counted, and a goroutine that is about to   *)
(* sign is below the limit.                                                *)
CountedRows ==
  \A i \in Ids : db[i].retries = 0 \/ db[i].retries >= Cardinality(db[i].history)

CountedCopies ==
  \A i \in Ids :
    /\ mon[i].pc # "idle" => mon[i].m.retries >= Cardinality(mon[i].m.history)
    /\ mon[i].pc = "sign" => mon[i].m.retries < MaxRetries

BoundedHistory == \A i \in Ids : Cardinality(db[i].history) <= MaxRetries

RowsInv ==
  /\ SafetyInv
  /\ NewRowsAreEmpty
  /\ HistoryIsOwn
  /\ SignedStays
  /\ MarkedWasSent
  /\ SentWasBroadcast
  /\ AckedIsDurable

AttemptsInv ==
  /\ RowsInv
  /\ CountedRows
  /\ CountedCopies
  /\ BoundedHistory

(* A request only writes the row it adds. *)
LEMMA RequestWrites ==
  ASSUME SafetyInv, NEW r \in Reqs, SendTx(r)
  PROVE  /\ UNCHANGED <<mon, l1vars>>
         /\ \/ UNCHANGED <<db, acked>>
            \/ /\ req[r].pc = "commit" /\ req[r].id \in Ids
               /\ db[req[r].id].status = "none" /\ mon[req[r].id].pc = "idle"
               /\ req[r].row.status = "created"
               /\ acked \subseteq acked' /\ acked' \subseteq acked \union {req[r].id}
               /\ \/ db' = [db EXCEPT ![req[r].id] = req[r].row]
                  \/ UNCHANGED <<db, acked>>
  <1>1. ASSUME req[r].pc = "commit"
        PROVE  /\ req[r].id \in Ids /\ db[req[r].id].status = "none"
               /\ mon[req[r].id].pc = "idle" /\ req[r].row.status = "created"
    BY <1>1 DEF SafetyInv, TypeOK, Requesting, AddedRowsAreNew, CopyIsCurrent, IsCopyOf, Monitored
  <1>2. CASE Commit(r)
    BY <1>1, <1>2 DEF Commit
  <1>3. CASE CommitFail(r)
    BY <1>1, <1>3 DEF CommitFail
  <1> QED
    BY <1>2, <1>3 DEF SendTx, Settle, AddReadCreated, AddPendingNonce, AddInsert, AddFail

(* new is the row old at a later time. *)
Later(old, new) ==
  old.status # "none" =>
    /\ new.status # "none"
    /\ old.status = "sent" => new.status # "created"
    /\ new.nonce >= old.nonce /\ new.gas >= old.gas
    /\ new.price >= old.price /\ new.retries >= old.retries
    /\ old.history \subseteq new.history

(* No step takes a row back. *)
LEMMA RowsAdvance ==
  ASSUME SafetyInv, [Next]_vars, NEW j \in Ids
  PROVE  Later(db[j], db'[j])
  <1>0. db \in [Ids -> Row] /\ db[j] \in Row /\ mon[j].m \in Row
    BY DEF SafetyInv, TypeOK, Monitoring
  <1>1. Later(db[j], db[j])
    BY <1>0 DEF Later, Row
  <1>2. ASSUME mon[j].pc # "idle", NEW n, Stores(j, n)
        PROVE  Later(db[j], n)
    <2>1. IsCopyOf(mon[j].m, db[j])
      BY <1>2 DEF SafetyInv, CopyIsCurrent
    <2>2. n \in Row /\ n.nonce >= mon[j].m.nonce /\ n.gas >= mon[j].m.gas
          /\ n.price >= mon[j].m.price /\ n.retries >= mon[j].m.retries
          /\ mon[j].m.history \subseteq n.history
      BY <1>0, <1>2 DEF Stores, Rewrites, Row
    <2>3. n.status # "none" /\ (mon[j].m.status = "sent" => n.status # "created")
      BY <1>2, <2>1 DEF Stores, IsCopyOf, Monitored
    <2> QED
      BY <1>0, <2>1, <2>2, <2>3 DEF Later, IsCopyOf, Row
  <1>3. ASSUME NEW r \in Reqs, SendTx(r)
        PROVE  Later(db[j], db'[j])
    BY <1>0, <1>1, <1>3, RequestWrites DEF Later
  <1>4. ASSUME NEW i \in Ids, monitorTx(i)
        PROVE  Later(db[j], db'[j])
    <2>1. OneGoroutine(i) /\ (GoesOn(i) \/ Stops(i))
      BY <1>4, GoroutineStep
    <2>2. CASE i # j
      BY <1>1, <2>1, <2>2 DEF OneGoroutine
    <2>3. CASE i = j
      <3>1. db'[j] = db[j] \/ Stores(j, db'[j])
        BY <2>1, <2>3, GoroutineWrites
      <3> QED
        BY <1>1, <1>2, <2>1, <2>3, <3>1 DEF OneGoroutine
    <2> QED
      BY <2>2, <2>3
  <1>5. CASE UNCHANGED db
    BY <1>1, <1>5
  <1> QED
    BY <1>3, <1>4, <1>5 DEF Next, Work, monitorTxs, Crash, NodeStep, vars

(* No Update writes an older state of the row back, whatever is lost,      *)
(* repeated or interrupted on the way.                                     *)
THEOREM RowsNeverGoBack == Spec => RowsOnlyAdvance
  <1>1. SafetyInv /\ [Next]_vars =>
          [\A i \in Ids :
             LET old == db[i] new == db'[i] IN
             old.status # "none" =>
               /\ new.status # "none"
               /\ old.status = "sent" => new.status # "created"
               /\ new.nonce >= old.nonce /\ new.gas >= old.gas
               /\ new.price >= old.price /\ new.retries >= old.retries
               /\ old.history \subseteq new.history]_vars
    BY RowsAdvance DEF Later
  <1> QED
    BY <1>1, SafetyInvariant, PTL DEF Spec, RowsOnlyAdvance

---------------------------------------------------------------------------
(* RowsInv is inductive. *)

LEMMA InitRows == Init => RowsInv
  <1> SUFFICES ASSUME Init PROVE RowsInv
    OBVIOUS
  <1>1. SafetyInv /\ AckedIsDurable
    BY InitSafety DEF Init, AckedIsDurable
  <1>2. NewRowsAreEmpty /\ SignedStays /\ MarkedWasSent
    BY DEF Init, NewRowsAreEmpty, SignedStays, MarkedWasSent, IdleReq, Adding, IdleMon, AtRest
  <1>3. SentWasBroadcast /\ HistoryIsOwn
    <2>1. CASE db = [i \in Ids |-> NoRow]
      BY <2>1 DEF SentWasBroadcast, HistoryIsOwn, NoRow
    <2>2. ASSUME NEW tx \in LegacyTxs, sent = {tx},
                 db = [i \in Ids |-> IF i = tx.id THEN LegacyRow(i, tx) ELSE NoRow]
          PROVE  SentWasBroadcast /\ HistoryIsOwn
      <3>1. \A i \in Ids : LegacyRow(i, tx).history = {tx}
        BY DEF LegacyRow, NoRow
      <3>2. NoRow.history = {} /\ NoRow.status = "none"
        BY DEF NoRow
      <3> QED
        BY <2>2, <3>1, <3>2 DEF SentWasBroadcast, HistoryIsOwn
    <2> QED
      BY <2>1, <2>2 DEF Init
  <1> QED
    BY <1>1, <1>2, <1>3 DEF RowsInv

(* A row is added without a history. *)
LEMMA SendTxNewRows ==
  ASSUME SafetyInv, NewRowsAreEmpty, NEW r \in Reqs, SendTx(r)
  PROVE  NewRowsAreEmpty'
  <1>0. req \in [Reqs -> Requesting]
    BY DEF SafetyInv, TypeOK
  <1>1. ASSUME NEW x, req' = [req EXCEPT ![r] = x], x.pc = "commit" => x.row.history = {}
        PROVE  NewRowsAreEmpty'
    BY <1>0, <1>1 DEF NewRowsAreEmpty
  <1>2. IdleReq.pc = "idle"
    BY DEF IdleReq, Adding
  <1>3. \A n, g, p : NewRow(n, g, p).history = {}
    BY DEF NewRow, NoRow
  <1>4. CASE Settle(r)
    BY <1>1, <1>2, <1>3, <1>4
       DEF Settle, AddReadCreated, AddPendingNonce, AddInsert, AddFail, Adding
  <1>5. CASE Commit(r) \/ CommitFail(r)
    BY <1>1, <1>2, <1>5 DEF Commit, CommitFail
  <1> QED
    BY <1>4, <1>5 DEF SendTx

LEMMA NextRows == RowsInv /\ [Next]_vars => RowsInv'
  <1> SUFFICES ASSUME RowsInv, [Next]_vars PROVE RowsInv'
    OBVIOUS
  <1> USE DEF RowsInv
  <1>0. SafetyInv' /\ TypeOK
    BY NextSafety DEF SafetyInv
  <1>1. ASSUME UNCHANGED <<db, acked>>, sent \subseteq sent', NewRowsAreEmpty',
               \A i \in Ids :
                 mon'[i].pc = "idle" \/ mon'[i].pc = "check" \/ mon'[i] = mon[i]
        PROVE  RowsInv'
    <2>1. SignedStays' /\ MarkedWasSent'
      BY <1>1 DEF SignedStays, MarkedWasSent, SignedTx
    <2>2. SentWasBroadcast' /\ AckedIsDurable' /\ HistoryIsOwn'
      BY <1>1 DEF SentWasBroadcast, AckedIsDurable, HistoryIsOwn
    <2> QED
      BY <1>0, <1>1, <2>1, <2>2
  <1>2. ASSUME NEW r \in Reqs, SendTx(r) PROVE RowsInv'
    <2>1. CASE UNCHANGED <<db, acked>>
      BY <1>1, <1>2, <2>1, SendTxNewRows, RequestWrites DEF l1vars
    <2>2. CASE ~UNCHANGED <<db, acked>>
      <3> DEFINE k == req[r].id
      <3>1. /\ UNCHANGED <<mon, sent>> /\ k \in Ids /\ mon[k].pc = "idle"
            /\ db'[k].status = "created" /\ acked' \subseteq acked \union {k}
            /\ db'[k].history = {} /\ \A j \in Ids \ {k} : db'[j] = db[j]
        BY <1>0, <1>2, <2>2, RequestWrites DEF TypeOK, NewRowsAreEmpty, l1vars
      <3> HIDE DEF k
      <3>2. SignedStays' /\ MarkedWasSent'
        BY <3>1 DEF SignedStays, MarkedWasSent, SignedTx
      <3>3. SentWasBroadcast' /\ HistoryIsOwn'
        BY <3>1 DEF SentWasBroadcast, HistoryIsOwn
      <3>4. AckedIsDurable'
        BY <1>0, <3>1 DEF AckedIsDurable, TypeOK
      <3> QED
        BY <1>0, <1>2, <3>2, <3>3, <3>4, SendTxNewRows
    <2> QED
      BY <2>1, <2>2
  <1>3. CASE monitorTxs
    <2>1. \A i \in Ids : mon'[i].pc = "idle" \/ mon'[i].pc = "check"
      BY <1>3 DEF monitorTxs, IdleMon, AtRest
    <2> QED
      BY <1>1, <1>3, <2>1 DEF monitorTxs, l1vars, NewRowsAreEmpty
  <1>4. ASSUME NEW i \in Ids, monitorTx(i) PROVE RowsInv'
    <2>1. OneGoroutine(i) /\ (GoesOn(i) \/ Stops(i))
      BY <1>4, GoroutineStep
    <2>2. IsCopyOf(mon[i].m, db[i])
      BY <2>1 DEF OneGoroutine, SafetyInv, CopyIsCurrent
    <2>3. sent \subseteq sent' /\ acked' = acked
      BY <2>1 DEF OneGoroutine, l1vars, Accept
    <2>4. db'[i] = db[i] \/ Stores(i, db'[i])
      BY <2>1, GoroutineWrites
    <2>5. ASSUME mon'[i].pc \in {"getTx", "send", "markSent", "wait", "receipt"}
          PROVE  SignedTx(i)' \in db'[i].history
      <3>1. Signs(i) \/ MovesOn(i) \/ Marks(i)
        BY <2>1, <2>5 DEF GoesOn, Stops, Looks, ReviewsNonce, Resumes, Finds, Attempts,
                          GetsReceipt, IdleMon, AtRest
      <3>2. CASE Signs(i)
        BY <2>2, <3>2 DEF Signs, IsCopyOf
      <3>3. CASE MovesOn(i)
        BY <3>3 DEF MovesOn, SignedStays
      <3>4. CASE Marks(i)
        BY <2>2, <3>4 DEF Marks, SignedStays, IsCopyOf
      <3> QED
        BY <3>1, <3>2, <3>3, <3>4
    <2>6. ASSUME mon'[i].pc = "markSent" PROVE SignedTx(i)' \in sent'
      BY <2>1, <2>6 DEF GoesOn, Stops, Looks, ReviewsNonce, Resumes, Finds, Attempts, Signs,
                        MovesOn, Marks, GetsReceipt, IdleMon, AtRest
    <2>7. ASSUME db'[i].status = "sent" PROVE \E t \in db'[i].history : t \in sent'
      <3>1. CASE db[i].status = "sent" /\ db[i].history \subseteq db'[i].history
        BY <2>3, <3>1 DEF SentWasBroadcast
      <3>2. CASE Stores(i, db'[i]) /\ mon[i].pc # "markSent"
        BY <2>2, <2>7, <3>1, <3>2 DEF Stores, IsCopyOf, HistoryChecked
      <3>3. CASE Stores(i, db'[i]) /\ mon[i].pc = "markSent"
        BY <2>2, <2>3, <3>3 DEF Stores, Rewrites, IsCopyOf, SignedStays, MarkedWasSent
      <3> QED
        BY <2>4, <2>7, <3>1, <3>2, <3>3
    <2>8. ASSUME db[i].status # "none" PROVE db'[i].status # "none"
      BY <2>8, RowsAdvance DEF Later
    <2>9. SignedStays'
      BY <2>1, <2>5 DEF OneGoroutine, SignedStays, SignedTx
    <2>10. MarkedWasSent'
      BY <2>1, <2>3, <2>6 DEF OneGoroutine, MarkedWasSent, SignedTx
    <2>11. SentWasBroadcast'
      BY <2>1, <2>3, <2>7 DEF OneGoroutine, SentWasBroadcast
    <2>12. AckedIsDurable'
      BY <1>0, <2>1, <2>3, <2>8 DEF OneGoroutine, AckedIsDurable, TypeOK
    <2>13. NewRowsAreEmpty'
      BY <2>1 DEF OneGoroutine, NewRowsAreEmpty
    <2>14. ASSUME Stores(i, db'[i]), NEW t \in db'[i].history PROVE t.id = i
      <3>1. t \in mon[i].m.history \/ \E s \in Sigs : t = Tx(i, mon[i].m, s)
        BY <2>14 DEF Stores
      <3> QED
        BY <2>2, <3>1 DEF HistoryIsOwn, IsCopyOf, Tx
    <2>15. HistoryIsOwn'
      BY <2>1, <2>4, <2>14 DEF OneGoroutine, HistoryIsOwn
    <2> QED
      BY <1>0, <2>9, <2>10, <2>11, <2>12, <2>13, <2>15
  <1>5. CASE Crash
    BY <1>1, <1>5 DEF Crash, NewRowsAreEmpty, IdleReq, Adding, IdleMon, AtRest, l1vars
  <1>6. CASE NodeStep
    BY <1>1, <1>6 DEF NodeStep, NewRowsAreEmpty, L1Next, Mine, Drop, Reorg
  <1>7. CASE UNCHANGED vars
    BY <1>1, <1>7 DEF vars, l1vars, NewRowsAreEmpty
  <1> QED
    BY <1>2, <1>3, <1>4, <1>5, <1>6, <1>7 DEF Next, Work

(* RowsInv holds in every reachable state. *)
THEOREM RowsInvariant == Spec => []RowsInv
  <1> QED
    BY InitRows, NextRows, PTL DEF Spec

(* A row is stored as sent only when the node has accepted one of the      *)
(* transactions of its history.                                            *)
THEOREM SentRowsWereBroadcast == Spec => []SentWasBroadcast
  <1>1. RowsInv => SentWasBroadcast
    BY DEF RowsInv
  <1> QED
    BY <1>1, RowsInvariant, PTL

(* A hash that interop_sendTx has returned has its row from then on.       *)
THEOREM AckedRowsAreDurable == Spec => []AckedIsDurable
  <1>1. RowsInv => AckedIsDurable
    BY DEF RowsInv
  <1> QED
    BY <1>1, RowsInvariant, PTL

---------------------------------------------------------------------------
(* AttemptsInv is inductive. *)

(* How many hashes a row has, and one more. *)
LEMMA HistorySize ==
  ASSUME NEW row \in Row
  PROVE  /\ IsFiniteSet(row.history) /\ Cardinality(row.history) \in Nat
         /\ \A t : Cardinality(row.history \union {t}) <= Cardinality(row.history) + 1
  <1>1. IsFiniteSet(row.history)
    BY DEF Row, Histories
  <1>2. Cardinality(row.history) \in Nat
    BY <1>1, FS_CardinalityType
  <1> QED
    BY <1>1, <1>2, FS_AddElement

(* A row of an older release was broadcast once, so a limit of zero        *)
(* retries can only be kept when there is none.                            *)
LEMMA InitAttempts ==
  ASSUME Legacy # {} => MaxRetries > 0, Init
  PROVE  AttemptsInv
  <1>1. RowsInv
    BY InitRows
  <1>2. CountedCopies
    BY DEF Init, CountedCopies, IdleMon, AtRest
  <1>3. Cardinality({}) = 0 /\ MaxRetries \in Nat
    BY FS_EmptySet, MaxRetriesAssumption
  <1>4. CountedRows /\ BoundedHistory
    <2>1. CASE db = [i \in Ids |-> NoRow]
      BY <1>3, <2>1 DEF CountedRows, BoundedHistory, NoRow
    <2>2. ASSUME NEW tx \in LegacyTxs,
                 db = [i \in Ids |-> IF i = tx.id THEN LegacyRow(i, tx) ELSE NoRow]
          PROVE  CountedRows /\ BoundedHistory
      <3>1. \A i \in Ids : LegacyRow(i, tx).history = {tx} /\ LegacyRow(i, tx).retries = 0
        BY DEF LegacyRow, NoRow
      <3>2. Cardinality({tx}) = 1
        BY FS_Singleton
      <3>3. MaxRetries > 0
        BY DEF LegacyTxs
      <3>4. \A i \in Ids : /\ Cardinality(LegacyRow(i, tx).history) = 1
                            /\ Cardinality(NoRow.history) = 0 /\ NoRow.retries = 0
        BY <1>3, <3>1, <3>2 DEF NoRow
      <3> QED
        BY <1>3, <2>2, <3>1, <3>3, <3>4 DEF CountedRows, BoundedHistory
    <2> QED
      BY <2>1, <2>2 DEF Init
  <1> QED
    BY <1>1, <1>2, <1>4 DEF AttemptsInv

LEMMA NextAttempts == AttemptsInv /\ [Next]_vars => AttemptsInv'
  <1> SUFFICES ASSUME AttemptsInv, [Next]_vars PROVE AttemptsInv'
    OBVIOUS
  <1> USE DEF AttemptsInv
  <1>0. /\ RowsInv' /\ SafetyInv /\ TypeOK /\ db \in [Ids -> Row] /\ mon \in [Ids -> Monitoring]
        /\ MaxRetries \in Nat
    BY NextRows, MaxRetriesAssumption DEF RowsInv, SafetyInv, TypeOK
  <1>1. ASSUME UNCHANGED <<db, mon>> PROVE (CountedRows /\ CountedCopies /\ BoundedHistory)'
    BY <1>1 DEF CountedRows, CountedCopies, BoundedHistory
  <1>2. ASSUME NEW r \in Reqs, SendTx(r) PROVE AttemptsInv'
    <2>1. UNCHANGED mon
      BY <1>0, <1>2, RequestWrites
    <2>2. CASE UNCHANGED db
      BY <1>0, <1>1, <2>1, <2>2
    <2>3. CASE ~UNCHANGED db
      <3> DEFINE k == req[r].id
                 row == req[r].row
      <3>1. k \in Ids /\ row.history = {} /\ db' = [db EXCEPT ![k] = row] /\ row.retries \in Nat
        BY <1>0, <1>2, <2>3, RequestWrites DEF RowsInv, NewRowsAreEmpty, TypeOK, Requesting, Row
      <3> HIDE DEF k, row
      <3>2. Cardinality(row.history) = 0
        BY <3>1, FS_EmptySet
      <3>3. db'[k] = row /\ \A j \in Ids \ {k} : db'[j] = db[j]
        BY <1>0, <3>1
      <3>4. db'[k].retries >= Cardinality(db'[k].history) /\ Cardinality(db'[k].history) = 0
        BY <3>1, <3>2, <3>3
      <3>5. CountedRows' /\ BoundedHistory'
        BY <1>0, <3>1, <3>3, <3>4 DEF CountedRows, BoundedHistory
      <3>6. CountedCopies'
        BY <2>1 DEF CountedCopies
      <3> QED
        BY <1>0, <2>1, <3>5, <3>6
    <2> QED
      BY <2>2, <2>3
  <1>3. CASE monitorTxs
    <2>1. PICK S \in SUBSET Unfinished :
            mon' = [i \in Ids |->
                      IF i \in S
                      THEN [AtRest("check", LoadRow(db[i])) EXCEPT !.todo = db[i].history]
                      ELSE IdleMon]
      BY <1>3 DEF monitorTxs
    <2>2. ASSUME NEW i \in Ids
          PROVE  /\ mon'[i].pc # "sign"
                 /\ mon'[i].pc # "idle" => mon'[i].m = LoadRow(db[i])
      BY <2>1, <2>2 DEF AtRest, IdleMon
    <2>3. ASSUME NEW i \in Ids
          PROVE  LoadRow(db[i]).retries >= Cardinality(LoadRow(db[i]).history)
      <3>1. db[i] \in Row /\ Cardinality(db[i].history) \in Nat
        BY <1>0, HistorySize
      <3>2. /\ LoadRow(db[i]).history = db[i].history
            /\ LoadRow(db[i]).retries = IF db[i].retries = 0 THEN Cardinality(db[i].history)
                                                             ELSE db[i].retries
        BY <3>1 DEF LoadRow, Row
      <3> QED
        BY <3>1, <3>2 DEF CountedRows
    <2>4. CountedCopies'
      BY <2>2, <2>3 DEF CountedCopies
    <2>5. UNCHANGED db
      BY <1>3 DEF monitorTxs
    <2> QED
      BY <1>0, <2>4, <2>5 DEF CountedRows, BoundedHistory
  <1>4. ASSUME NEW i \in Ids, monitorTx(i) PROVE AttemptsInv'
    <2> DEFINE m == mon[i].m
    <2>1. OneGoroutine(i) /\ (GoesOn(i) \/ Stops(i))
      BY <1>0, <1>4, GoroutineStep
    <2>2. db'[i] = db[i] \/ Stores(i, db'[i])
      BY <1>0, <2>1, GoroutineWrites
    <2>3. /\ m \in Row /\ m.retries \in Nat /\ Cardinality(m.history) \in Nat
          /\ \A t : Cardinality(m.history \union {t}) <= Cardinality(m.history) + 1
          /\ \A t : Cardinality(m.history \union {t}) \in Nat
      <3>1. m \in Row
        BY <1>0 DEF Monitoring
      <3>2. IsFiniteSet(m.history) /\ m.retries \in Nat
        BY <3>1, HistorySize DEF Row
      <3>3. ASSUME NEW t PROVE Cardinality(m.history \union {t}) \in Nat
        BY <3>2, FS_AddElement, FS_CardinalityType
      <3> QED
        BY <3>1, <3>2, <3>3, HistorySize
    <2>4. /\ IsCopyOf(m, db[i]) /\ m.retries >= Cardinality(m.history)
          /\ mon[i].pc = "sign" => m.retries < MaxRetries
      BY <1>0, <2>1 DEF OneGoroutine, SafetyInv, CopyIsCurrent, CountedCopies
    <2>5. ASSUME Stores(i, db'[i])
          PROVE  /\ db'[i].retries >= Cardinality(db'[i].history)
                 /\ Cardinality(db'[i].history) <= MaxRetries
      <3>1. db'[i] \in Row /\ db'[i].retries \in Nat /\ db'[i].retries >= m.retries
        BY <2>5 DEF Stores, Rewrites, Row
      <3>2. CASE db'[i].history = m.history
        BY <1>0, <2>3, <2>4, <3>1, <3>2 DEF BoundedHistory, IsCopyOf
      <3>3. CASE db'[i].history # m.history
        <4>1. PICK s \in Sigs : db'[i].history = m.history \union {Tx(i, m, s)}
          BY <2>5, <3>3 DEF Stores
        <4>2. mon[i].pc = "sign" /\ db'[i].retries = m.retries + 1
          BY <2>5, <3>3 DEF Stores
        <4>3. /\ Cardinality(db'[i].history) \in Nat
              /\ Cardinality(db'[i].history) <= Cardinality(m.history) + 1
          BY <2>3, <4>1, Zenon
        <4> QED
          BY <1>0, <2>3, <2>4, <3>1, <4>2, <4>3
      <3> QED
        BY <3>2, <3>3
    <2>6. ASSUME mon'[i].pc # "idle"
          PROVE  /\ mon'[i].m.retries >= Cardinality(mon'[i].m.history)
                 /\ mon'[i].pc = "sign" => mon'[i].m.retries < MaxRetries
      <3>1. CASE Attempts(i)
        BY <1>0, <2>3, <2>4, <3>1 DEF Attempts, OutOfRetries
      <3>2. CASE Signs(i)
        <4>1. mon'[i].pc # "sign"
          BY <3>2 DEF Signs
        <4>2. \/ mon'[i].m = m
              \/ /\ mon'[i].m.retries = m.retries + 1
                 /\ mon'[i].m.history = m.history \union {Tx(i, m, mon'[i].sig)}
          BY <3>2 DEF Signs
        <4>3. CASE mon'[i].m = m
          BY <2>4, <4>1, <4>3
        <4>4. CASE /\ mon'[i].m.retries = m.retries + 1
                   /\ mon'[i].m.history = m.history \union {Tx(i, m, mon'[i].sig)}
          <5>1. /\ Cardinality(mon'[i].m.history) \in Nat
                /\ Cardinality(mon'[i].m.history) <= Cardinality(m.history) + 1
            BY <2>3, <4>4, Zenon
          <5> QED
            BY <2>3, <2>4, <4>1, <4>4, <5>1
        <4> QED
          BY <4>2, <4>3, <4>4
      <3>3. CASE Marks(i)
        BY <2>3, <2>4, <3>3 DEF Marks, Rewrites, Row
      <3> QED
        BY <2>1, <2>4, <2>6, <3>1, <3>2, <3>3
           DEF GoesOn, Stops, Looks, ReviewsNonce, Resumes, Finds, MovesOn, GetsReceipt,
               IdleMon, AtRest
    <2>7. CountedRows' /\ BoundedHistory'
      BY <2>1, <2>2, <2>5 DEF OneGoroutine, CountedRows, BoundedHistory
    <2>8. CountedCopies'
      BY <2>1, <2>6 DEF OneGoroutine, CountedCopies
    <2> QED
      BY <1>0, <2>7, <2>8
  <1>5. CASE Crash
    BY <1>0, <1>5 DEF Crash, CountedRows, CountedCopies, BoundedHistory, IdleMon, AtRest
  <1>6. CASE NodeStep
    BY <1>0, <1>1, <1>6 DEF NodeStep
  <1>7. CASE UNCHANGED vars
    BY <1>0, <1>1, <1>7 DEF vars
  <1> QED
    BY <1>2, <1>3, <1>4, <1>5, <1>6, <1>7 DEF Next, Work

(* monitorTx broadcasts at most MaxRetries different transactions for one  *)
(* row, whatever fails and however often the process restarts.  Only a row *)
(* that an older release has broadcast already needs a limit above zero.   *)
THEOREM AttemptsAreBounded ==
  ASSUME Legacy # {} => MaxRetries > 0
  PROVE  Spec => []BoundedAttempts
  <1>1. AttemptsInv => BoundedAttempts
    <2> SUFFICES ASSUME AttemptsInv, NEW i \in Ids
                 PROVE  Cardinality({t \in sent : t.id = i}) <= MaxRetries
      BY DEF BoundedAttempts
    <2>1. {t \in sent : t.id = i} \subseteq db[i].history
      BY DEF AttemptsInv, RowsInv, SafetyInv, BroadcastRecorded
    <2>2. db[i] \in Row
      BY DEF AttemptsInv, RowsInv, SafetyInv, TypeOK
    <2>3. IsFiniteSet(db[i].history) /\ Cardinality(db[i].history) \in Nat
      BY <2>2, HistorySize
    <2>4. /\ Cardinality({t \in sent : t.id = i}) \in Nat
          /\ Cardinality({t \in sent : t.id = i}) <= Cardinality(db[i].history)
      BY <2>1, <2>3, FS_Subset, FS_CardinalityType
    <2>5. Cardinality(db[i].history) <= MaxRetries /\ MaxRetries \in Nat
      BY MaxRetriesAssumption DEF AttemptsInv, BoundedHistory
    <2> QED
      BY <2>3, <2>4, <2>5
  <1>2. Init => AttemptsInv
    BY InitAttempts
  <1> QED
    BY <1>1, <1>2, NextAttempts, PTL DEF Spec
=============================================================================
