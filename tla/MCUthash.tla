------------------------------ MODULE MCUthash ------------------------------
(***************************************************************************)
(* An instance of Uthash for TLC.  Elements are alike, and so are keys,    *)
(* since a behaviour may start with any hash function.                     *)
(***************************************************************************)
EXTENDS Uthash, TLC

Symmetry == Permutations(Obj) \cup Permutations(Key)
============================================================================
