---------------------------- MODULE MCTxManager ----------------------------
(***************************************************************************)
(* Instances of TxManager for TLC.  Ids, requests and signatures are model *)
(* values; each .cfg says which misbehaviours it allows.                   *)
(***************************************************************************)
EXTENDS TxManagerRefinement, TLC

(* The requests only differ in their names. *)
ReqSymmetry == Permutations(Reqs)
=============================================================================
