---------------------------- MODULE MCServePath ----------------------------
(***************************************************************************)
(* Small services for ServePath: what each constant of a run is.           *)
(***************************************************************************)
EXTENDS ServePath, TLC

CONSTANTS k1, k2, f1, t1

RankOf == [k \in Key |-> IF k = k1 THEN 1 ELSE 2]
OneTier == [k \in Key |-> t1]
AdminOnly == {Tier}
AllOffers == Key \X Feature
Plenty == [p \in AllOffers |-> 100]
WindowOfTwo == [p \in AllOffers |-> 2]
Never == [k \in Key |-> None]

\* Any key twice; or k1 once in its life, k2 twice in any window of one tick.
TwoDraws == [k \in Key |-> 2]
OneForLife == [k \in Key |-> IF k = k1 THEN 1 ELSE 2]
LifeAndWindow == [k \in Key |-> IF k = k1 THEN 0 ELSE 1]

\* k1 may be drawn twice in any window of one tick.
OneTickWindow == [k \in Key |-> 1]

Symmetry == Permutations(Caller)
=============================================================================
