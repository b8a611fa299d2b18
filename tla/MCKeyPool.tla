----------------------------- MODULE MCKeyPool -----------------------------
(***************************************************************************)
(* Small pools for KeyPool: what each constant of a run is.                *)
(***************************************************************************)
EXTENDS KeyPool, TLC

CONSTANTS k1, k2, k3, f1, f2, t1, t2

RankOf == [k \in Key |-> IF k = k1 THEN 1 ELSE IF k = k2 THEN 2 ELSE 3]
OneTier == [k \in Key |-> t1]
TwoTiers == [k \in Key |-> IF k = k1 THEN t1 ELSE t2]
AdminOnly == {Tier}
AllOffers == Key \X Feature
K2OffersBoth == {p \in AllOffers : p[1] = k1 => p[2] = f1}
NoLimit == [k \in Key |-> None]
Lifetime == [k \in Key |-> 0]

\* Gates: k1 has one draw a window of 2, k2 a lifetime limit of 2.
GateLimits == [k \in Key |-> IF k = k1 THEN 1 ELSE 2]
GateWindows == [k \in Key |-> IF k = k1 THEN 2 ELSE 0]
OnePerWindow == [p \in Offers |-> 1]
WindowOfTwo == [p \in Offers |-> 2]
K2Expires == [k \in Key |-> IF k = k2 THEN 2 ELSE None]

\* Rotation: rounds enough to see turns, then gates that close one by one.
TwoPerWindow == [p \in Offers |-> 2]
K3HasLimit == [k \in Key |-> IF k = k3 THEN 1 ELSE None]

Symmetry == Permutations(Caller)
=============================================================================
