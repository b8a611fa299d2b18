---------------------------- MODULE UsageLedger ----------------------------
(***************************************************************************)
(* What the write-back queue promises about keys.usage_count: a ledger in  *)
(* which every serve of a limited key counts once, the moment it happens,  *)
(* and a window reset starts the count over at the serve that caused it.   *)
(***************************************************************************)
EXTENDS Naturals

CONSTANTS Key,   \* ids of the keys
          Time,  \* instants a usage window may start at
          None   \* no window started yet

VARIABLE ledger  \* key -> [count, start]: its usage_count and usage_window_start

CountServe(k) ==
    ledger' = [ledger EXCEPT ![k] = [count |-> @.count + 1, start |-> @.start]]

StartWindow(k, t) ==
    ledger' = [ledger EXCEPT ![k] = [count |-> 1, start |-> t]]

Next == \E k \in Key : CountServe(k) \/ \E t \in Time : StartWindow(k, t)

(* The ledger opens with the rows as they were read at boot.               *)
Init == ledger \in [Key -> [count : Nat, start : Time \cup {None}]]

Spec == Init /\ [][Next]_ledger
=============================================================================
