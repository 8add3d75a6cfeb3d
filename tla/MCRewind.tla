------------------------------ MODULE MCRewind ------------------------------
(***************************************************************************)
(* Rewind, instantiated for TLC: sessions are interchangeable.             *)
(***************************************************************************)
EXTENDS Rewind, TLC

SessionSymmetry == Permutations(Sessions)
=============================================================================
