----------------------------- MODULE MCInterop -----------------------------
(***************************************************************************)
(* Instances of Client and Interop for TLC: two rollups, the first with a  *)
(* configured signer, whose first batches have the same roots.             *)
(***************************************************************************)
EXTENDS Client, TLC

CONSTANTS anna, bert, s, x, y

MCBatches == [k \in 1..2 |-> <<[root |-> s, exit |-> x]>>]

MCSigners == 1 :> bert

(* A batch both rollups may claim, the second in the name of its first     *)
(* sequencer.                                                              *)
Good == [rollup |-> 1, last |-> 0, new |-> 1, root |-> s, exit |-> x,
         proof |-> "valid", signer |-> bert]
Twin == [Good EXCEPT !.rollup = 2, !.signer = anna]

(* A wrong exit root, a wrong signer, and a number that is not a batch and *)
(* is negative once it is an int64.                                        *)
WrongExit == [Good EXCEPT !.exit = y]
WrongSigner == [Good EXCEPT !.signer = anna]
Huge == [Good EXCEPT !.new = 7]

MCTxs == {Good, Twin, WrongExit, WrongSigner, Huge}

(* Callers and requests only differ in their names. *)
Names == Permutations(Clients) \union Permutations(Reqs)
=============================================================================
