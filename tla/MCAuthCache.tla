---------------------------- MODULE MCAuthCache ----------------------------
(***************************************************************************)
(* Small instances of AuthCache.                                           *)
(***************************************************************************)
EXTENDS AuthCache, TLC

Symmetry == Permutations(Call) \cup Permutations(Admin)
=============================================================================
