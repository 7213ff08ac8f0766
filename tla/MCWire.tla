------------------------------- MODULE MCWire -------------------------------
(***************************************************************************)
(* An instance of Wire for TLC.                                            *)
(***************************************************************************)
EXTENDS Wire

(* Roots with the bytes of digits, of the letter x and of neither. *)
MCRoots == {<<0, 1>>, <<0, 2>>, <<2, 0>>}
MCExits == {<<0, 2>>, <<1, 3>>}

(* The proofs are empty, too short, of the right length (with leading      *)
(* zeros, and with the byte of the letter x) and too long.                 *)
MCProofs == {<<>>, <<2>>, <<0, 0, 1, 2>>, <<2, 3, 0, 1>>, <<0, 0, 2, 1, 3>>}
=============================================================================
