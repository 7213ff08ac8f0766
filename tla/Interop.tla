------------------------------ MODULE Interop ------------------------------
(***************************************************************************)
(* interop_sendTx: what the endpoint and the executor check before a       *)
(* transaction is handed to the transaction manager, and what others do    *)
(* between those checks.  Each check reads L1 or the rollup's full node at *)
(* its own moment, so the answers may belong to different states of them.  *)
(*                                                                         *)
(* The transaction manager is its abstract specification, Settlement; the  *)
(* rollup manager contract and the full nodes are external and modelled    *)
(* from how the executor and etherman use them.                            *)
(***************************************************************************)
EXTENDS Integers

CONSTANTS
  Txs,           \* the signed transactions that are submitted
  Reqs,          \* interop_sendTx requests
  FullNodeRPCs,  \* rollups with a configured full node
  ProofSigners,  \* rollup :> address for the rollups with a configured signer
  Addrs,         \* addresses that may be a sequencer
  Batches,       \* rollup :> sequence of [root, exit], its batches from 1 on
  ForcedGas,     \* EthTxManager.ForcedGas > 0
  Width          \* bits of a batch number, 64 in the code

Rollups == DOMAIN Batches
Hash(t) == <<t.last, t.new, t.root, t.exit, t.proof>>
Hashes == {Hash(t) : t \in Txs}

ASSUME TxsAssumption ==
  \A t \in Txs : /\ t.last \in 0..(2^Width - 1) /\ t.new \in 0..(2^Width - 1)
                 /\ t.rollup \in Rollups

(* No rollup gets as far as 2^63 batches. *)
ASSUME BatchesAssumption ==
  \A r \in Rollups : \A k \in DOMAIN Batches[r] :
    /\ k \in Nat \ {0} /\ k < 2^(Width - 1)
    /\ Batches[r][k] = [root |-> Batches[r][k].root, exit |-> Batches[r][k].exit]

ASSUME SomeAssumption == Txs # {} /\ Addrs # {}

VARIABLES
  rq,         \* where each request is, its transaction, and the sequencer
              \* its call data names
  table,      \* the call data of the committed row of each hash
  verified,   \* last batch of each rollup the contract has verified
  sequencer,  \* trusted sequencer of each rollup, as L1 has it
  synced,     \* last batch each full node has
  status, broadcast, settled,  \* of Settlement, one entry per hash
  sequencers  \* history variable: who has been sequencer of which rollup

l1Vars == <<verified, sequencer, sequencers>>
tmVars == <<status, broadcast, settled>>
ivars == <<rq, table, synced, l1Vars, tmVars>>

TM == INSTANCE Settlement WITH Ids <- Hashes

(* BuildTrustedVerifyBatchesTxData. *)
CallData(t, sa) == [rollup |-> t.rollup, last |-> t.last, new |-> t.new, root |-> t.root,
                    exit |-> t.exit, proof |-> t.proof, beneficiary |-> sa]
NoRow == [rollup |-> 0]
NoTx == CHOOSE t \in Txs : TRUE

PCs == {"idle", "zkp", "signature", "execute", "settle", "add", "commit", "acked", "refused"}

ITypeOK ==
  /\ rq \in [Reqs -> [pc : PCs, tx : Txs, sa : Addrs]]
  /\ table \in [Hashes -> {NoRow} \union {CallData(t, sa) : t \in Txs, sa \in Addrs}]
  /\ verified \in [Rollups -> Nat] /\ synced \in [Rollups -> Nat]
  /\ sequencer \in [Rollups -> Addrs]
  /\ sequencers \subseteq Rollups \X Addrs
  /\ status \in [Hashes -> {"none", "pending", "confirmed", "failed"}]
  /\ broadcast \subseteq Hashes /\ settled \subseteq broadcast

IInit ==
  /\ rq = [q \in Reqs |-> [pc |-> "idle", tx |-> NoTx, sa |-> CHOOSE a \in Addrs : TRUE]]
  /\ table = [h \in Hashes |-> NoRow]
  /\ verified = [r \in Rollups |-> 0]
  /\ sequencer = [r \in Rollups |-> CHOOSE a \in Addrs : TRUE]
  /\ sequencers = {<<r, sequencer[r]>> : r \in Rollups}
  /\ synced = [r \in Rollups |-> 0]
  /\ status = [h \in Hashes |-> "none"] /\ broadcast = {} /\ settled = {}

---------------------------------------------------------------------------
(* verifyBatchesTrustedAggregator of the contract: the proof starts at a   *)
(* verified batch, ends at a sequenced one that is not verified yet, and   *)
(* its verifier accepts it.                                                *)
Verifies(d) ==
  /\ d.last <= verified[d.rollup] /\ verified[d.rollup] < d.new
  /\ d.new \in DOMAIN Batches[d.rollup]
  /\ d.proof = "valid"

(* A request at here goes on at next or is refused there. *)
At(q, here) == rq[q].pc = here
Goto(q, next) == rq' = [rq EXCEPT ![q].pc = next]
CheckPoint(q, here, passed, next) ==
  /\ At(q, here)
  /\ Goto(q, IF passed THEN next ELSE "refused")
  /\ UNCHANGED <<table, synced, l1Vars, tmVars>>

(* The request arrives; CheckTx. *)
CheckTx(q, t) ==
  /\ At(q, "idle")
  /\ rq' = [rq EXCEPT ![q].tx = t,
                      ![q].pc = IF t.rollup \in FullNodeRPCs THEN "zkp" ELSE "refused"]
  /\ UNCHANGED <<table, synced, l1Vars, tmVars>>

(* Faulty variant: the outcome of the eth_call is not looked at. *)
verifyZKPUnchecked(q) == CheckPoint(q, "zkp", TRUE, "signature")

(* Verify: the call data, built for the sequencer of this moment, run by   *)
(* eth_call on the newest block.                                           *)
verifyZKP(q) ==
  CheckPoint(q, "zkp", Verifies(CallData(rq[q].tx, sequencer[rq[q].tx.rollup])), "signature")

(* Faulty variant: the sequencer is accepted beside the configured signer. *)
AuthorisedEither(t) ==
  \/ t.rollup \in DOMAIN ProofSigners /\ t.signer = ProofSigners[t.rollup]
  \/ t.signer = sequencer[t.rollup]

(* verifySignature. *)
Authorised(t) ==
  IF t.rollup \in DOMAIN ProofSigners
  THEN t.signer = ProofSigners[t.rollup]
  ELSE t.signer = sequencer[t.rollup]

verifySignature(q) == CheckPoint(q, "signature", Authorised(rq[q].tx), "execute")

(* The batch number is converted from uint64 to int64. *)
AsInt64(n) == IF n < 2^(Width - 1) THEN n ELSE n - 2^Width

(* BatchByNumber of the full node: a batch it has, none, or, for a         *)
(* negative number, which stands for a tag such as latest, any it has.     *)
BatchByNumber(r, n) ==
  {Batches[r][k] : k \in {b \in 1..synced[r] : b = n \/ n < 0}}

(* Faulty variant: only the state root is compared. *)
SameRootOnly(t, batch) == batch.root = t.root

SameRoots(t, batch) == batch.root = t.root /\ batch.exit = t.exit

Execute(q) ==
  LET t == rq[q].tx
      found == BatchByNumber(t.rollup, AsInt64(t.new))
  IN  \/ found = {} /\ CheckPoint(q, "execute", FALSE, "settle")
      \/ \E batch \in found : CheckPoint(q, "execute", SameRoots(t, batch), "settle")

(* Settle builds the call data anew: the sequencer is read again. *)
BuildData(q) ==
  /\ At(q, "settle")
  /\ rq' = [rq EXCEPT ![q].pc = "add", ![q].sa = sequencer[rq[q].tx.rollup]]
  /\ UNCHANGED <<table, synced, l1Vars, tmVars>>

Key(q) == Hash(rq[q].tx)
Data(q) == CallData(rq[q].tx, rq[q].sa)

(* Faulty variant: ErrAlreadyExists counts as success. *)
AddIdempotent(q) ==
  /\ At(q, "add")
  /\ Goto(q, IF status[Key(q)] # "none" THEN "acked" ELSE "commit")
  /\ UNCHANGED <<table, synced, l1Vars, tmVars>>

(* Faulty variant: an INSERT that replaces the row on a conflict. *)
AddUpsert(q) == CheckPoint(q, "add", TRUE, "commit")

(* Faulty variant: the row is looked for first, and the key does not hold  *)
(* up an INSERT.                                                           *)
AddUnlocked(q) == CheckPoint(q, "add", status[Key(q)] = "none", "commit")

(* Client.Add: the gas estimate runs the call once more, and the INSERT    *)
(* waits for an uncommitted row of the same hash and refuses a second one. *)
Add(q) ==
  /\ ~ \E p \in Reqs \ {q} : At(p, "commit") /\ Key(p) = Key(q)
  /\ CheckPoint(q, "add",
                /\ ForcedGas \/ Verifies(Data(q))
                /\ status[Key(q)] = "none",
                "commit")

(* The row is there; the transaction manager has accepted it. *)
Stored(q) ==
  /\ table' = [table EXCEPT ![Key(q)] = Data(q)]
  /\ status' = [status EXCEPT ![Key(q)] = "pending"]
  /\ UNCHANGED <<broadcast, settled>>

(* dbTx.Commit, and the hash is returned; or an error is, with the row     *)
(* committed or not.                                                       *)
Commit(q) ==
  /\ At(q, "commit")
  /\ \/ Stored(q) /\ Goto(q, "acked")
     \/ Stored(q) /\ Goto(q, "refused")
     \/ UNCHANGED <<table, tmVars>> /\ Goto(q, "refused")
  /\ UNCHANGED <<synced, l1Vars>>

(* Any call on the way may fail or run into the deadline. *)
Fail(q) ==
  \E here \in {"zkp", "signature", "execute", "settle", "add"} :
    CheckPoint(q, here, FALSE, here)

SendTx(q) ==
  \/ verifyZKP(q) \/ verifySignature(q) \/ Execute(q)
  \/ BuildData(q) \/ Add(q) \/ Commit(q) \/ Fail(q)

---------------------------------------------------------------------------
(* Others.                                                                 *)

(* A rollup changes its sequencer; the bound is that nobody gets the role  *)
(* twice.                                                                  *)
SetTrustedSequencer(r, a) ==
  /\ <<r, a>> \notin sequencers
  /\ sequencer' = [sequencer EXCEPT ![r] = a]
  /\ sequencers' = sequencers \union {<<r, a>>}
  /\ UNCHANGED <<rq, table, synced, verified, tmVars>>

(* Somebody else has the next batch verified. *)
VerifiedByOthers(r) ==
  /\ verified[r] + 1 \in DOMAIN Batches[r]
  /\ verified' = [verified EXCEPT ![r] = @ + 1]
  /\ UNCHANGED <<rq, table, synced, sequencer, sequencers, tmVars>>

(* A full node learns of its next batch. *)
Sync(r) ==
  /\ synced[r] + 1 \in DOMAIN Batches[r]
  /\ synced' = [synced EXCEPT ![r] = @ + 1]
  /\ UNCHANGED <<rq, table, l1Vars, tmVars>>

(* A transaction of the row is mined and the contract accepts it; one it   *)
(* does not accept reverts and changes nothing here.                       *)
Mined(h) ==
  /\ h \notin settled /\ TM!Settle(h)
  /\ Verifies(table[h])
  /\ verified' = [verified EXCEPT ![table[h].rollup] = table[h].new]
  /\ UNCHANGED <<rq, table, synced, sequencer, sequencers>>

(* The other steps of the transaction manager. *)
Monitored(h) ==
  /\ TM!Broadcast(h) \/ TM!Confirm(h) \/ TM!Fail(h)
  /\ UNCHANGED <<rq, table, synced, l1Vars>>

Others ==
  \/ \E r \in Rollups : (\E a \in Addrs : SetTrustedSequencer(r, a)) \/ VerifiedByOthers(r) \/ Sync(r)
  \/ \E h \in Hashes : Mined(h) \/ Monitored(h)

---------------------------------------------------------------------------
IsStored(h) == table[h] # NoRow

(* The checks together, each made at its own moment and the batch number   *)
(* converted on the way, never let a row be stored whose state and exit    *)
(* roots are not the ones the rollup's full node has for that very batch.  *)
StoredIsSound ==
  \A h \in Hashes : IsStored(h) =>
    LET d == table[h] IN
    /\ d.new \in 1..synced[d.rollup]
    /\ Batches[d.rollup][d.new] = [root |-> d.root, exit |-> d.exit]

(* A request that got its hash back finds its own call data under that     *)
(* hash, whoever else submitted a transaction with the same one: another   *)
(* attempt of the same client, or a rollup whose equal batches the hash    *)
(* does not tell apart.                                                    *)
AckedRowIsMine ==
  \A q \in Reqs : At(q, "acked") =>
    \E sa \in Addrs : table[Key(q)] = CallData(rq[q].tx, sa)

(* What is stored was signed by the configured signer of its own rollup or *)
(* else by somebody who was its sequencer, and rewards somebody who was,   *)
(* although the sequencer is read three times and may change in between.   *)
StoredIsAuthorised ==
  \A h \in Hashes : IsStored(h) =>
    /\ <<table[h].rollup, table[h].beneficiary>> \in sequencers
    /\ \E q \in Reqs :
         LET t == rq[q].tx IN
         /\ Hash(t) = h /\ t.rollup = table[h].rollup
         /\ IF t.rollup \in DOMAIN ProofSigners
            THEN t.signer = ProofSigners[t.rollup]
            ELSE <<t.rollup, t.signer>> \in sequencers

(* The pipeline keeps to the interface of the transaction manager: it      *)
(* never adds a transaction a second time.                                 *)
UsesSettlement == TM!Spec
=============================================================================
