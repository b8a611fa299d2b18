------------------------------ MODULE MCRoster ------------------------------
(***************************************************************************)
(* Small tables for Roster: what each constant of a run is.                *)
(***************************************************************************)
EXTENDS Roster, TLC

CONSTANT t1

OneTier == [k \in Key |-> t1]
BothSecrets == [k \in Key |-> Secret]

Symmetry == Permutations(Admin) \cup Permutations(Reporter)
=============================================================================
