------------------------------ MODULE KeyPool ------------------------------
(***************************************************************************)
(* internal/keypool between two reloads: concurrent draws on one pool.     *)
(*                                                                         *)
(* A draw holds Manager.mu for reading from its first line to its answer,  *)
(* so reports and spends (which take it for writing) never fall inside     *)
(* one.  Draws do interleave with each other: they share the rotation      *)
(* counter (an atomic) and the gates of each key (under PoolKey.mu), and   *)
(* time passes between their steps.                                        *)
(***************************************************************************)
EXTENDS Naturals, FiniteSets, Functions

CONSTANTS
    Caller,       \* goroutines serving GET /key
    Key, Feature, Tier,
    None,         \* nil
    Pool,         \* Manager.keys: the keys of the pool
    Rank,         \* their order in it: created_at
    KeyTier,      \* key -> PoolKey.TierID
    Offers,       \* the <<key, feature>> pairs of PoolKey.Features
    RateLimit,    \* pair -> FeatureLimit.RateLimit
    RateWindow,   \* pair -> FeatureLimit.window(), in ticks of the clock
    UsageLimit,   \* key -> PoolKey.UsageLimit, None when it has none
    UsageWindow,  \* key -> UsageWindowSeconds in ticks, 0 for a lifetime cap
    ExpiresAt,    \* key -> the instant it expires, None when it never does
    Scopes,       \* bound: the tier sets callers come with
    Untils,       \* bound: the instants keys are benched until
    Horizon,      \* bound: the last instant of the clock
    MaxDraws      \* bound: draws started

Instant == 0..Horizon

ASSUME NoneAssumption == None \notin Nat /\ None \notin Key
ASSUME HorizonAssumption == Horizon \in Nat /\ MaxDraws \in Nat
ASSUME InputAssumption == Scopes \subseteq SUBSET Tier /\ Untils \subseteq Nat
ASSUME PoolAssumption ==
    /\ Pool \subseteq Key /\ IsFiniteSet(Pool)
    /\ Rank \in [Key -> Nat]
    /\ \A j, k \in Pool : Rank[j] = Rank[k] => j = k
ASSUME KeyAssumption ==
    /\ KeyTier \in [Key -> Tier]
    /\ UsageLimit \in [Key -> Nat \cup {None}]
    /\ UsageWindow \in [Key -> Nat]
    /\ ExpiresAt \in [Key -> Nat \cup {None}]
ASSUME OffersAssumption ==
    /\ Offers \subseteq Key \X Feature
    /\ RateLimit \in [Offers -> Nat]
    /\ RateWindow \in [Offers -> Nat \ {0}]

VARIABLES
    clock,       \* time.Now()
    next,        \* Manager.next
    rate,        \* pair -> rateCounter [count, start]
    gate,        \* key -> [count, start]: UsageCount and UsageWindowStart
    exhausted,   \* key -> ExhaustedUntil
    overBudget,  \* key -> when the period whose budget is spent ends
    call,        \* caller -> its draw
    draws,       \* draws started so far (bounded by MaxDraws)
    tokens,      \* history: pair -> [instant -> draws its rate gate let through]
    uses,        \* history: key -> [instant -> draws its usage gate let through]
    turns,       \* history: pair -> draws the rotation gave it
    refused      \* history: the keys whose gates have turned a draw away

gates == <<rate, gate>>
benches == <<exhausted, overBudget>>
history == <<tokens, uses, turns, refused>>
vars == <<clock, next, gates, benches, call, draws, history>>

Counter == [count : Nat, start : Instant \cup {None}]
PC == {"idle", "pick", "rate", "usage", "persist", "done"}
Outcome == {"served", "exhausted", "out of scope", "not found"}

Idle == [pc |-> "idle", feature |-> None, scope |-> {}, wanted |-> None,
         available |-> {}, key |-> None, since |-> None, opened |-> None,
         outcome |-> None]

Calls == [pc : PC, feature : Feature \cup {None}, scope : SUBSET Tier,
          wanted : Key \cup {None},           \* the id KeyByID was asked for
          available : SUBSET Key,             \* the candidates left
          key : Key \cup {None},              \* the one being tried
          since : Instant \cup {None},        \* when the draw began
          opened : Instant \cup {None},       \* windowStart, if didReset
          outcome : Outcome \cup {None}]

-----------------------------------------------------------------------------
(* now.Before(at), with nil read the way each field of a key reads it.     *)
Before(at) == at # None /\ clock < at
PastExpiry(k) == ExpiresAt[k] # None /\ clock >= ExpiresAt[k]

(* PoolKey.Available, without IsActive: a key is made active and nothing   *)
(* in the program clears that.  Its readings of the time are one instant.  *)
Available(k) == ~PastExpiry(k) /\ ~Before(exhausted[k]) /\ ~Before(overBudget[k])

HasFeature(k, f) == <<k, f>> \in Offers

(* A nil tier set (the admin) is the set of all tiers.                     *)
Offered(k, f, scope) == KeyTier[k] \in scope /\ HasFeature(k, f)

(* A fixed window, opened by the first use after the last one ran out.     *)
WindowOver(c, window) == c.start = None \/ clock - c.start >= window

(* Mutants: a new window keeps its old start, or takes its end for a start.*)
ReopenedAtOldStart(c, window) ==
    IF WindowOver(c, window) THEN [count |-> 0, start |-> c.start] ELSE c
OpenedAtEnd(c, window) ==
    IF WindowOver(c, window) THEN [count |-> 0, start |-> clock + window] ELSE c

Opened(c, window) == IF WindowOver(c, window) THEN [count |-> 0, start |-> clock] ELSE c

CountOne(c) == [count |-> c.count + 1, start |-> c.start]

(* The index of a key in the slice of the available ones.                  *)
Position(k, available) == Cardinality({j \in available : Rank[j] < Rank[k]})

(* Mutant: the keys before it go with it.                                  *)
WithoutAllBefore(available, k) == {j \in available : Rank[j] > Rank[k]}

Without(available, k) == available \ {k}

-----------------------------------------------------------------------------
Init ==
    /\ clock = 0 /\ next = 0
    /\ rate = [p \in Offers |-> [count |-> 0, start |-> None]]
    /\ gate = [k \in Key |-> [count |-> 0, start |-> None]]
    /\ exhausted = [k \in Key |-> None] /\ overBudget = [k \in Key |-> None]
    /\ call = [c \in Caller |-> Idle] /\ draws = 0
    /\ tokens = [p \in Offers |-> [t \in Instant |-> 0]]
    /\ uses = [k \in Key |-> [t \in Instant |-> 0]]
    /\ turns = [p \in Offers |-> 0] /\ refused = {}

Begin(c) == call[c].pc = "idle" /\ draws < MaxDraws /\ draws' = draws + 1

(* What a draw's goroutine knows after its next step.                      *)
Becomes(c, draw) == call' = [call EXCEPT ![c] = draw]

Drawing(c, pc) == call[c].pc = pc /\ draws' = draws

(* GetKeyForFeature, up to the end of its filter.                          *)
GetKeyForFeature(c, f, scope) ==
    /\ Begin(c)
    /\ Becomes(c, [Idle EXCEPT
            !.pc = "pick", !.feature = f, !.scope = scope, !.since = clock,
            !.available = {k \in Pool : Offered(k, f, scope) /\ Available(k)}])
    /\ UNCHANGED <<clock, next, gates, benches, history>>

(* KeyByID, up to its gates: the same draw with one candidate.             *)
KeyByID(c, k, f, scope) ==
    /\ Begin(c)
    /\ LET draw == [Idle EXCEPT !.feature = f, !.scope = scope, !.since = clock,
                               !.wanted = k, !.key = k]
       IN  Becomes(c,
             IF k \notin Pool THEN [draw EXCEPT !.pc = "done", !.outcome = "not found"]
             ELSE IF ~Offered(k, f, scope)
                  THEN [draw EXCEPT !.pc = "done", !.outcome = "out of scope"]
             ELSE IF ~Available(k)
                  THEN [draw EXCEPT !.pc = "done", !.outcome = "exhausted"]
             ELSE [draw EXCEPT !.pc = "rate", !.available = {k}])
    /\ UNCHANGED <<clock, next, gates, benches, history>>

(* Mutant: the counter is read but not advanced.                           *)
SameIndex == next

NextIndex == next + 1

(* Mutant: the counter is taken modulo the pool, not the list.             *)
IndexInPool(available) == next % Cardinality(Pool)

(* The next index of the shrinking list, from the counter all draws share. *)
Index(available) == next % Cardinality(available)

Pick(c) ==
    /\ Drawing(c, "pick")
    /\ \E k \in call[c].available :
        /\ Position(k, call[c].available) = Index(call[c].available)
        /\ Becomes(c, [call[c] EXCEPT !.pc = "rate", !.key = k])
    /\ next' = NextIndex
    /\ UNCHANGED <<clock, gates, benches, history>>

Candidates(c) ==
    IF call[c].wanted # None THEN {call[c].wanted}
    ELSE {k \in Pool : Offered(k, call[c].feature, call[c].scope)}

GiveUp(c) ==
    /\ Drawing(c, "pick")
    /\ call[c].available = {}
    /\ LET offered == Candidates(c) # {}
       IN  Becomes(c, [call[c] EXCEPT !.pc = "done",
                         !.outcome = IF offered THEN "exhausted" ELSE "out of scope"])
    /\ UNCHANGED <<clock, next, gates, benches, history>>

(* A key that turned the draw away leaves its list.                        *)
Skip(c) ==
    /\ Becomes(c, [call[c] EXCEPT !.pc = "pick", !.available = Without(@, call[c].key)])
    /\ refused' = refused \cup {call[c].key}
    /\ UNCHANGED <<tokens, uses, turns>>

TryRate(c) ==
    /\ Drawing(c, "rate")
    /\ LET p == <<call[c].key, call[c].feature>>
           counter == Opened(rate[p], RateWindow[p])
       IN  \/ /\ counter.count < RateLimit[p]
              /\ rate' = [rate EXCEPT ![p] = CountOne(counter)]
              /\ Becomes(c, [call[c] EXCEPT !.pc = "usage"])
              /\ tokens' = [tokens EXCEPT ![p][clock] = @ + 1]
              /\ UNCHANGED <<uses, turns, refused>>
           \/ /\ counter.count >= RateLimit[p]
              /\ rate' = [rate EXCEPT ![p] = counter]
              /\ Skip(c)
    /\ UNCHANGED <<clock, next, gate, benches>>

Grant(c) ==
    LET p == <<call[c].key, call[c].feature>>
    IN  /\ uses' = [uses EXCEPT ![p[1]][clock] = @ + 1]
        /\ turns' = IF call[c].wanted = None THEN [turns EXCEPT ![p] = @ + 1] ELSE turns
        /\ UNCHANGED <<tokens, refused>>

(* A key without a limit is served at once, its gate untouched.            *)
ServeUnlimited(c) ==
    /\ Drawing(c, "usage")
    /\ UsageLimit[call[c].key] = None
    /\ Becomes(c, [call[c] EXCEPT !.pc = "done", !.outcome = "served"])
    /\ Grant(c)
    /\ UNCHANGED <<clock, next, gates, benches>>

(* Mutant: one use too many.                                               *)
UsageLeftAtLimit(k, count) == count <= UsageLimit[k]

UsageLeft(k, count) == count < UsageLimit[k]

TryConsumeUsage(c) ==
    /\ Drawing(c, "usage")
    /\ LET k == call[c].key
           windowed == UsageWindow[k] > 0
           resets == windowed /\ WindowOver(gate[k], UsageWindow[k])
           counter == IF windowed THEN Opened(gate[k], UsageWindow[k]) ELSE gate[k]
       IN  /\ UsageLimit[k] # None
           /\ \/ /\ UsageLeft(k, counter.count)
                 /\ gate' = [gate EXCEPT ![k] = CountOne(counter)]
                 /\ Becomes(c, [call[c] EXCEPT !.pc = "persist",
                                   !.opened = IF resets THEN clock ELSE None])
                 /\ Grant(c)
              \/ /\ ~UsageLeft(k, counter.count)
                 /\ gate' = [gate EXCEPT ![k] = counter]
                 /\ Skip(c)
    /\ UNCHANGED <<clock, next, rate, benches>>

(* persistUsage hands the count to the write-back queue (see ServePath).   *)
PersistUsage(c) ==
    /\ Drawing(c, "persist")
    /\ Becomes(c, [call[c] EXCEPT !.pc = "done", !.outcome = "served"])
    /\ UNCHANGED <<clock, next, gates, benches, history>>

Return(c) ==
    /\ Drawing(c, "done")
    /\ Becomes(c, Idle)
    /\ UNCHANGED <<clock, next, gates, benches, history>>

-----------------------------------------------------------------------------
(* Mutant: a report does not wait for the draws.                           *)
NotLocked == TRUE

(* Manager.mu is free of readers: draws answered or not begun.             *)
WriteLocked == \A c \in Caller : call[c].pc \in {"idle", "done"}

MarkExhausted(k, until) ==
    /\ WriteLocked /\ k \in Pool
    /\ exhausted' = [exhausted EXCEPT ![k] = until]
    /\ UNCHANGED <<clock, next, gates, overBudget, call, draws, history>>

(* holdSpent brings a key to its budget, until the period's next reset.    *)
BudgetSpent(k, until) ==
    /\ WriteLocked /\ k \in Pool
    /\ overBudget' = [overBudget EXCEPT ![k] = until]
    /\ UNCHANGED <<clock, next, gates, exhausted, call, draws, history>>

Tick ==
    /\ clock < Horizon
    /\ clock' = clock + 1
    /\ UNCHANGED <<next, gates, benches, call, draws, history>>

Step(c) ==
    \/ Pick(c) \/ GiveUp(c) \/ TryRate(c) \/ ServeUnlimited(c) \/ TryConsumeUsage(c)
    \/ PersistUsage(c) \/ Return(c)

Draw(c) ==
    \/ \E f \in Feature, scope \in Scopes : GetKeyForFeature(c, f, scope)
    \/ \E k \in Key, f \in Feature, scope \in Scopes : KeyByID(c, k, f, scope)

Next ==
    \/ \E c \in Caller : Draw(c) \/ Step(c)
    \/ \E k \in Key, until \in Untils : MarkExhausted(k, until) \/ BudgetSpent(k, until)
    \/ Tick

Spec == Init /\ [][Next]_vars

(* A goroutine that is inside a draw runs on: no step of it can block.     *)
FairSpec == Spec /\ \A c \in Caller : WF_vars(Step(c))

-----------------------------------------------------------------------------
(* Every variable of the pool, its draws and their history has its type.   *)
TypeOK ==
    /\ clock \in Instant /\ next \in Nat /\ draws \in 0..MaxDraws
    /\ rate \in [Offers -> Counter] /\ gate \in [Key -> Counter]
    /\ exhausted \in [Key -> Nat \cup {None}]
    /\ overBudget \in [Key -> Nat \cup {None}]
    /\ call \in [Caller -> Calls]
    /\ tokens \in [Offers -> [Instant -> Nat]] /\ uses \in [Key -> [Instant -> Nat]]
    /\ turns \in [Offers -> Nat]
    /\ refused \subseteq Key

ReadLocked(c) == call[c].pc \in {"pick", "rate", "usage", "persist"}

Trying(c) == call[c].pc \in {"rate", "usage", "persist"}

CandidatesUnbenched ==
    \A c \in Caller : ReadLocked(c) =>
        \A k \in call[c].available :
            /\ k \in Pool /\ Offered(k, call[c].feature, call[c].scope)
            /\ ~Before(exhausted[k]) /\ ~Before(overBudget[k])

(* While a draw runs, no key it may still hand out is benched, over its    *)
(* budget, outside the caller's tiers or without the feature, and the key  *)
(* it is trying is one of those: the lock keeps a report from landing      *)
(* between the filter and the answer.                                      *)
DrawsOnlyUnbenched ==
    /\ CandidatesUnbenched
    /\ \A c \in Caller : Trying(c) => call[c].key \in call[c].available

RateSpent(k, f) == Opened(rate[<<k, f>>], RateWindow[<<k, f>>]).count >= RateLimit[<<k, f>>]

UsageSpent(k) ==
    UsageLimit[k] # None /\
    (IF UsageWindow[k] > 0 THEN Opened(gate[k], UsageWindow[k]) ELSE gate[k]).count
        >= UsageLimit[k]

(* A draw drops a candidate only for a reason that still stands: as long   *)
(* as the clock has not moved since it began, each is still on its list or *)
(* benched or spent.  So "no key available" is never said while one could  *)
(* serve, whatever the other draws took in the meantime.                   *)
SkipsOnlyClosedKeys ==
    \A c \in Caller : ReadLocked(c) /\ call[c].since = clock =>
        \A k \in Candidates(c) \ call[c].available :
            ~Available(k) \/ RateSpent(k, call[c].feature) \/ UsageSpent(k)

Span(from, length) == {t \in Instant : from <= t /\ t < from + length}

(* A fixed window lets two of them meet at its border: the second may be   *)
(* used up right after the first, but for the use that opened the first.   *)
FixedWindowAllows(n, limit) == n = 0 \/ n < 2 * limit

(* However draws interleave with the clock, the rate gate of a key lets    *)
(* less than twice its limit through in any span as long as the window,    *)
(* and just one draw where the limit is one.                               *)
RateHolds ==
    \A p \in Offers : \A t \in Instant :
        FixedWindowAllows(SumFunctionOnSet(tokens[p], Span(t, RateWindow[p])), RateLimit[p])

(* The features of a key share its usage limit: all of them together never *)
(* take more than a lifetime limit, nor twice a windowed one in any span   *)
(* as long as the window.                                                  *)
UsageHolds ==
    \A k \in Key : UsageLimit[k] # None =>
        IF UsageWindow[k] = 0 THEN SumFunction(uses[k]) <= UsageLimit[k]
        ELSE \A t \in Instant :
                FixedWindowAllows(SumFunctionOnSet(uses[k], Span(t, UsageWindow[k])),
                                  UsageLimit[k])

(* Between draws, with nothing benched and no draw turned away by a key so *)
(* far, no two keys of a feature differ by more than one turn: the counter *)
(* of Manager.next over lists of one length.                               *)
RotatesEvenly ==
    /\ \A c \in Caller : call[c].pc = "idle"
    /\ \A k \in Pool : exhausted[k] = None /\ overBudget[k] = None
    /\ refused = {}
    => \A p, q \in {r \in Offers : r[1] \in Pool} :
            p[2] = q[2] => turns[p] <= turns[q] + 1

(* Every draw is answered: wherever the other draws have left the counter, *)
(* it is the index of a key of the list this draw has left, and each key   *)
(* that turns the draw away shortens that list, down to nothing.           *)
DrawAnswers == \A c \in Caller : call[c].pc # "idle" ~> call[c].pc = "idle"
=============================================================================
