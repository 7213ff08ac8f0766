------------------------------- MODULE Client -------------------------------
(***************************************************************************)
(* Users of the Go client against the service: SendTx, whose answer may be *)
(* lost on the way, GetTxStatus and the polling of WaitTxToBeMined.        *)
(***************************************************************************)
EXTENDS Interop

CONSTANTS
  Clients,   \* callers, each with one transaction to settle
  NoReq      \* no request is under way

VARIABLE cl  \* where each caller is, its transaction and request, whether it
             \* got the hash back, and the last status it was told

vars == <<ivars, cl>>

CPCs == {"idle", "sending", "ready", "waiting", "mined", "expired"}

(* A caller is only told statuses of rows: an error of GetTxStatus, whose  *)
(* result is "0x0", never becomes one.                                     *)
TypeOK ==
  /\ ITypeOK
  /\ cl \in [Clients -> [pc : CPCs, tx : Txs, q : Reqs \union {NoReq}, acked : BOOLEAN,
                         seen : {"none", "pending", "confirmed", "failed", "done"}]]

Init ==
  /\ IInit
  /\ \E of \in [Clients -> Txs] :
       cl = [c \in Clients |-> [pc |-> "idle", tx |-> of[c], q |-> NoReq,
                                acked |-> FALSE, seen |-> "none"]]

---------------------------------------------------------------------------
(* Client.SendTx: the call goes out.  After an error the caller may call   *)
(* again.                                                                  *)
CallSendTx(c) ==
  /\ cl[c].pc \in {"idle", "ready"} /\ ~cl[c].acked
  /\ \E q \in Reqs :
       /\ CheckTx(q, cl[c].tx)
       /\ cl' = [cl EXCEPT ![c].pc = "sending", ![c].q = q]

(* JSONRPCCall returns the answer of the server, or an error of its own    *)
(* while the server goes on with the request.                              *)
SendTxReturns(c) ==
  /\ cl[c].pc = "sending"
  /\ \/ /\ At(cl[c].q, "acked")
        /\ cl' = [cl EXCEPT ![c].pc = "ready", ![c].q = NoReq, ![c].acked = TRUE]
     \/ cl' = [cl EXCEPT ![c].pc = "ready", ![c].q = NoReq]
  /\ UNCHANGED ivars

(* Result of the transaction manager: the status of the stored row.  The   *)
(* lookups of its history only decide between that and an error.           *)
Result(h) == status[h]

(* Faulty variant: the result "0x0" of a failed call is taken for a status. *)
ReportedDespiteError(c) ==
  IF Result(Hash(cl[c].tx)) = "none" THEN "0x0" ELSE Result(Hash(cl[c].tx))

(* GetTxStatus on the server; without a row the caller gets an error. *)
Reported(c) == Result(Hash(cl[c].tx))

(* Client.GetTxStatus; the hash of the transaction is known to the caller  *)
(* also when SendTx failed.                                                *)
GetTxStatus(c) ==
  /\ cl[c].pc = "ready"
  /\ Reported(c) # "none"
  /\ cl' = [cl EXCEPT ![c].seen = Reported(c)]
  /\ UNCHANGED ivars

(* Client.WaitTxToBeMined, called with the hash SendTx returned. *)
CallWait(c) ==
  /\ cl[c].pc = "ready" /\ cl[c].acked
  /\ cl' = [cl EXCEPT ![c].pc = "waiting"]
  /\ UNCHANGED ivars

(* A tick: the status is read; only done, which nothing stores, ends the   *)
(* loop with success, and any error ends it.                               *)
Tick(c) ==
  /\ cl[c].pc = "waiting"
  /\ \/ /\ Reported(c) # "none"
        /\ cl' = [cl EXCEPT ![c].seen = Reported(c),
                            ![c].pc = IF Reported(c) = "done" THEN "mined" ELSE @]
     \/ cl' = [cl EXCEPT ![c].pc = "ready"]
  /\ UNCHANGED ivars

(* ctx.Done: "context finished before tx was mined". *)
WaitExpires(c) ==
  /\ cl[c].pc = "waiting"
  /\ cl' = [cl EXCEPT ![c].pc = "expired"]
  /\ UNCHANGED ivars

WaitTxToBeMined(c) == CallWait(c) \/ Tick(c) \/ WaitExpires(c)

---------------------------------------------------------------------------
Next ==
  \/ \E c \in Clients :
       CallSendTx(c) \/ SendTxReturns(c) \/ GetTxStatus(c) \/ WaitTxToBeMined(c)
  \/ (\E q \in Reqs : SendTx(q)) /\ UNCHANGED cl
  \/ Others /\ UNCHANGED cl

Spec == Init /\ [][Next]_vars

---------------------------------------------------------------------------
(* A caller that got its hash back and is told confirmed has its batch     *)
(* verified on its own rollup.                                             *)
ConfirmedIsVerified ==
  \A c \in Clients :
    cl[c].acked /\ cl[c].seen = "confirmed" => verified[cl[c].tx.rollup] >= cl[c].tx.new

(* What a caller is told never goes back: confirmed and failed stay, also  *)
(* when a transaction is sent again after its answer was lost.             *)
ToldIsFinal ==
  [][\A c \in Clients :
       cl[c].seen \in {"confirmed", "failed"} => cl'[c].seen = cl[c].seen]_vars

(* Tx.Hash "uniquely identifies the tx": the status a caller reads under   *)
(* the hash of its transaction is that of a row with its own call data.    *)
HashNamesTx ==
  \A c \in Clients :
    cl[c].seen # "none" =>
      \E sa \in Addrs : table[Hash(cl[c].tx)] = CallData(cl[c].tx, sa)
=============================================================================
