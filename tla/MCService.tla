----------------------------- MODULE MCService -----------------------------
(***************************************************************************)
(* A small deployment for Service: a process of an older release next to   *)
(* one of a newer, whose new file came late and has the lower number.      *)
(***************************************************************************)
EXTENDS Service, TLC

CONSTANTS p1, p2, f1, f2

Versions == [f \in File |-> IF f = f1 THEN 1 ELSE 2]

OldAndNew == [p \in Process |-> IF p = p1 THEN {f2} ELSE {f1, f2}]
=============================================================================
