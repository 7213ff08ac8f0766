---------------------------- MODULE MonitoredTx ----------------------------
(***************************************************************************)
(* The data of the transaction manager: a monitored transaction (one row   *)
(* of state.monitored_txs), the Ethereum transactions built from it and    *)
(* the gas price they carry.                                               *)
(*                                                                         *)
(* Owner, sender, receiver, value and call data never change after Add, so *)
(* the id of the row stands for all of them.  The hash of a signed         *)
(* transaction is the transaction itself: two transactions have the same   *)
(* hash iff all their fields and their signature agree.                    *)
(***************************************************************************)
EXTENDS Integers, FiniteSets

CONSTANTS
  Ids,              \* ids of monitored transactions (the hash of the agglayer tx)
  Sigs,             \* signatures the signer may produce for one payload: a
                    \* singleton for a keystore, larger for a randomised KMS
  GasOffset,        \* EthTxManager.GasOffset
  MarginNum,        \* EthTxManager.GasPriceMarginFactor = MarginNum / MarginDen
  MarginDen,
  MaxGasPriceLimit  \* EthTxManager.MaxGasPriceLimit, 0 for no limit

ASSUME IdsAssumption == Ids # {}
ASSUME SigsAssumption == Sigs # {}
ASSUME GasOffsetAssumption == GasOffset \in Nat
ASSUME MarginAssumption == MarginNum \in Nat /\ MarginDen \in Nat \ {0}
ASSUME LimitAssumption == MaxGasPriceLimit \in Nat

(* A signed transaction of the single sender account. *)
EthTx == [id : Ids, nonce : Nat, gas : Nat, price : Nat, sig : Sigs]

(* "none" is the absence of the row; the others are the stored statuses. *)
Statuses == {"none", "created", "sent", "failed", "confirmed", "reorged", "done"}

(* The statuses monitorTxs selects, and the ones nothing leaves. *)
Monitored == {"created", "sent", "reorged"}
Terminal == {"failed", "confirmed"}

(* The hashes a row keeps; duplicates do not exist, order does not matter. *)
Histories == {H \in SUBSET EthTx : IsFiniteSet(H)}

(* block = 0 is the NULL block number; retries is NumRetries. *)
Row == [status : Statuses, nonce : Nat, gas : Nat, price : Nat, block : Nat,
        history : Histories, retries : Nat]

NoRow == [status |-> "none", nonce |-> 0, gas |-> 0, price |-> 0, block |-> 0,
          history |-> {}, retries |-> 0]

(* MonitoredTx.Tx followed by the signature s. *)
Tx(id, m, s) == [id |-> id, nonce |-> m.nonce, gas |-> m.gas + GasOffset,
                 price |-> m.price, sig |-> s]

(* Faulty variants of AddHistory: one that does not count the attempt, and *)
(* one that counts down.                                                   *)
AddHistoryUncounted(m, tx) == [m EXCEPT !.history = @ \union {tx}]
AddHistoryCountdown(m, tx) ==
  [m EXCEPT !.history = @ \union {tx}, !.retries = @ - 1]

(* MonitoredTx.AddHistory when the hash is new. *)
AddHistory(m, tx) == [m EXCEPT !.history = @ \union {tx}, !.retries = @ + 1]

(* suggestedGasPrice: the node's suggestion times the margin, rounded      *)
(* towards zero, then cut to the limit if there is one.                    *)
LimitedGasPrice(suggestion, limit) ==
  LET adjusted == (suggestion * MarginNum) \div MarginDen
  IN  IF limit > 0 /\ adjusted > limit THEN limit ELSE adjusted

SuggestedGasPrice(suggestion) == LimitedGasPrice(suggestion, MaxGasPriceLimit)
=============================================================================
