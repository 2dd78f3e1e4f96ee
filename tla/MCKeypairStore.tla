--------------------------- MODULE MCKeypairStore ---------------------------
(* KeypairStore for TLC: calls and keys are interchangeable. *)
EXTENDS KeypairStore, TLC

KeypairSymmetry == Permutations(Call) \union Permutations(Key)
=============================================================================
