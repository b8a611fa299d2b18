--------------------------- MODULE KeyPoolProofs ---------------------------
(***************************************************************************)
(* Theorems about KeyPool, for any pool, limits, windows and callers.      *)
(***************************************************************************)
EXTENDS KeyPool, Sums, TLAPS

(* A draw that is past its filter knows its feature, when it began, and    *)
(* that the id it was asked for, if any, has the feature; one past its     *)
(* pick is trying one of its candidates.                                   *)
Underway ==
    \A c \in Caller :
        /\ ReadLocked(c) =>
            /\ call[c].feature \in Feature /\ call[c].since \in 0..clock
            /\ call[c].wanted # None => <<call[c].wanted, call[c].feature>> \in Offers
        /\ call[c].pc \in {"rate", "usage", "persist"} => call[c].key \in call[c].available

IInv == TypeOK /\ Underway /\ CandidatesUnbenched /\ SkipsOnlyClosedKeys

-----------------------------------------------------------------------------
(* The window arithmetic of the gates.                                     *)
LEMMA OpenedType ==
    ASSUME TypeOK, NEW c \in Counter, NEW window
    PROVE  Opened(c, window) \in Counter /\ CountOne(Opened(c, window)) \in Counter
BY DEF TypeOK, Opened, CountOne, Counter

(* Opening a window that is already open changes nothing, so a gate found  *)
(* spent stays spent for as long as the clock stands still.                *)
LEMMA OpenedOnce ==
    ASSUME TypeOK, NEW c \in Counter, NEW window \in Nat \ {0}
    PROVE  /\ Opened(Opened(c, window), window) = Opened(c, window)
           /\ Opened(CountOne(Opened(c, window)), window) = CountOne(Opened(c, window))
BY NoneAssumption DEF TypeOK, Opened, WindowOver, CountOne, Counter, Instant

(* A step of one draw leaves every other draw as it was.                   *)
LEMMA OnlyOneDraw ==
    ASSUME TypeOK, NEW c \in Caller, NEW draw \in Calls, Becomes(c, draw)
    PROVE  /\ call' \in [Caller -> Calls]
           /\ call'[c] = draw
           /\ \A d \in Caller \ {c} : call'[d] = call[d]
BY DEF Becomes, TypeOK

LEMMA IdleType == Idle \in Calls
BY DEF Idle, Calls, PC

(* What each step makes of its draw.                                       *)
LEMMA GetKeyForFeatureDraw ==
    ASSUME TypeOK, NEW c \in Caller, NEW f \in Feature, NEW scope \in Scopes,
           GetKeyForFeature(c, f, scope)
    PROVE  /\ call' \in [Caller -> Calls]
           /\ \A d \in Caller \ {c} : call'[d] = call[d]
           /\ call'[c].pc = "pick" /\ call'[c].feature = f /\ call'[c].scope = scope
           /\ call'[c].since = clock /\ call'[c].wanted = None
           /\ call'[c].available = {k \in Pool : Offered(k, f, scope) /\ Available(k)}
<1> DEFINE s == {k \in Pool : Offered(k, f, scope) /\ Available(k)}
           draw == [Idle EXCEPT !.pc = "pick", !.feature = f, !.scope = scope,
                                !.since = clock, !.available = s]
<1>1. s \in SUBSET Key
    BY PoolAssumption
<1> HIDE DEF s
<1>2. draw \in Calls
    BY <1>1, InputAssumption DEF Idle, TypeOK, Calls, PC
<1>3. Becomes(c, draw)
    BY DEF GetKeyForFeature, s
<1>4. /\ draw.pc = "pick" /\ draw.feature = f /\ draw.scope = scope
      /\ draw.since = clock /\ draw.wanted = None /\ draw.available = s
    BY DEF Idle
<1> HIDE DEF draw
<1> QED
    BY <1>2, <1>3, <1>4, OnlyOneDraw DEF s

Others(c) == call' \in [Caller -> Calls] /\ \A d \in Caller \ {c} : call'[d] = call[d]

SameRequest(c) ==
    /\ call'[c].feature = call[c].feature /\ call'[c].scope = call[c].scope
    /\ call'[c].wanted = call[c].wanted /\ call'[c].since = call[c].since

Moves(c, pc) == Others(c) /\ call'[c].pc = pc

LEMMA KeyByIDDraw ==
    ASSUME TypeOK, NEW c \in Caller, NEW k \in Key, NEW f \in Feature, NEW scope \in Scopes,
           KeyByID(c, k, f, scope)
    PROVE  /\ Others(c)
           /\ \/ call'[c].pc = "done"
              \/ /\ call'[c].pc = "rate" /\ call'[c].feature = f /\ call'[c].scope = scope
                 /\ call'[c].since = clock /\ call'[c].wanted = k /\ call'[c].key = k
                 /\ call'[c].available = {k}
                 /\ k \in Pool /\ Offered(k, f, scope) /\ Available(k)
<1> DEFINE draw == [Idle EXCEPT !.feature = f, !.scope = scope, !.since = clock,
                                !.wanted = k, !.key = k]
           refusal(o) == [draw EXCEPT !.pc = "done", !.outcome = o]
           trial == [draw EXCEPT !.pc = "rate", !.available = {k}]
<1>1. draw \in Calls
    BY InputAssumption DEF Idle, TypeOK, Calls, PC
<1>2. /\ draw.feature = f /\ draw.scope = scope /\ draw.since = clock
      /\ draw.wanted = k /\ draw.key = k
    BY DEF Idle
<1>3. \/ \E o \in Outcome : Becomes(c, refusal(o))
      \/ Becomes(c, trial) /\ k \in Pool /\ Offered(k, f, scope) /\ Available(k)
    BY DEF KeyByID, Outcome
<1> HIDE DEF draw
<1>4. \A o \in Outcome : refusal(o) \in Calls /\ refusal(o).pc = "done"
    BY <1>1 DEF Calls, PC
<1>5. /\ trial \in Calls /\ trial.pc = "rate" /\ trial.feature = f /\ trial.scope = scope
      /\ trial.since = clock /\ trial.wanted = k /\ trial.key = k /\ trial.available = {k}
    BY <1>1, <1>2 DEF Calls, PC
<1> HIDE DEF refusal, trial
<1>6. CASE \E o \in Outcome : Becomes(c, refusal(o))
    BY <1>4, <1>6, OnlyOneDraw DEF Others
<1>7. CASE Becomes(c, trial) /\ k \in Pool /\ Offered(k, f, scope) /\ Available(k)
    BY <1>5, <1>7, OnlyOneDraw DEF Others
<1> QED
    BY <1>3, <1>6, <1>7

LEMMA PickDraw ==
    ASSUME TypeOK, NEW c \in Caller, Pick(c)
    PROVE  /\ Moves(c, "rate") /\ SameRequest(c)
           /\ call'[c].key \in call[c].available /\ call'[c].available = call[c].available
<1> PICK k \in call[c].available : Becomes(c, [call[c] EXCEPT !.pc = "rate", !.key = k])
    BY DEF Pick
<1> DEFINE draw == [call[c] EXCEPT !.pc = "rate", !.key = k]
<1>1. /\ draw \in Calls /\ draw.pc = "rate" /\ draw.key = k
      /\ draw.feature = call[c].feature /\ draw.scope = call[c].scope
      /\ draw.wanted = call[c].wanted /\ draw.since = call[c].since
      /\ draw.available = call[c].available
    <2>1. call[c] \in Calls
        BY DEF TypeOK
    <2> QED
        BY <2>1 DEF Calls, PC
<1> HIDE DEF draw
<1>2. Becomes(c, draw)
    BY DEF draw
<1> QED
    BY <1>1, <1>2, OnlyOneDraw DEF Moves, Others, SameRequest

LEMMA SkipDraw ==
    ASSUME TypeOK, NEW c \in Caller, Skip(c)
    PROVE  /\ Moves(c, "pick") /\ SameRequest(c)
           /\ call'[c].available = call[c].available \ {call[c].key}
           /\ (call[c].key \in Key => refused' \subseteq Key)
           /\ tokens' = tokens /\ uses' = uses /\ turns' = turns
<1> DEFINE left == Without(call[c].available, call[c].key)
           draw == [call[c] EXCEPT !.pc = "pick", !.available = left]
<1>1. left \in SUBSET Key /\ left = call[c].available \ {call[c].key}
    BY DEF TypeOK, Calls, Without
<1> HIDE DEF left
<1>2. /\ draw \in Calls /\ draw.pc = "pick" /\ draw.available = left
      /\ draw.feature = call[c].feature /\ draw.scope = call[c].scope
      /\ draw.wanted = call[c].wanted /\ draw.since = call[c].since
    <2>1. call[c] \in Calls
        BY DEF TypeOK
    <2> QED
        BY <1>1, <2>1 DEF Calls, PC
<1>3. Becomes(c, draw)
    BY DEF Skip, left
<1> HIDE DEF draw
<1> QED
    BY <1>1, <1>2, <1>3, OnlyOneDraw DEF Moves, Others, SameRequest, Skip, TypeOK

(* A draw let through a gate keeps its key and its candidates.             *)
SameTrial(c) ==
    /\ SameRequest(c)
    /\ call'[c].key = call[c].key /\ call'[c].available = call[c].available

LEMMA RateDraw ==
    ASSUME TypeOK, NEW c \in Caller, Becomes(c, [call[c] EXCEPT !.pc = "usage"])
    PROVE  Moves(c, "usage") /\ SameTrial(c)
<1> DEFINE draw == [call[c] EXCEPT !.pc = "usage"]
<1>1. /\ draw \in Calls /\ draw.pc = "usage"
      /\ draw.feature = call[c].feature /\ draw.scope = call[c].scope
      /\ draw.wanted = call[c].wanted /\ draw.since = call[c].since
      /\ draw.key = call[c].key /\ draw.available = call[c].available
    <2>1. call[c] \in Calls
        BY DEF TypeOK
    <2> QED
        BY <2>1 DEF Calls, PC
<1>2. Becomes(c, draw)
    OBVIOUS
<1> HIDE DEF draw
<1> QED
    BY <1>1, <1>2, OnlyOneDraw DEF Moves, Others, SameTrial, SameRequest

LEMMA UsageDraw ==
    ASSUME TypeOK, NEW c \in Caller, NEW opened \in Instant \cup {None},
           Becomes(c, [call[c] EXCEPT !.pc = "persist", !.opened = opened])
    PROVE  Moves(c, "persist") /\ SameTrial(c)
<1> DEFINE draw == [call[c] EXCEPT !.pc = "persist", !.opened = opened]
<1>1. /\ draw \in Calls /\ draw.pc = "persist"
      /\ draw.feature = call[c].feature /\ draw.scope = call[c].scope
      /\ draw.wanted = call[c].wanted /\ draw.since = call[c].since
      /\ draw.key = call[c].key /\ draw.available = call[c].available
    <2>1. call[c] \in Calls
        BY DEF TypeOK
    <2> QED
        BY <2>1 DEF Calls, PC
<1>2. Becomes(c, draw)
    OBVIOUS
<1> HIDE DEF draw
<1> QED
    BY <1>1, <1>2, OnlyOneDraw DEF Moves, Others, SameTrial, SameRequest

LEMMA LastDraw ==
    ASSUME TypeOK, NEW c \in Caller,
           GiveUp(c) \/ ServeUnlimited(c) \/ PersistUsage(c) \/ Return(c)
    PROVE  Others(c) /\ call'[c].pc \in {"done", "idle"}
<1> DEFINE done(o) == [call[c] EXCEPT !.pc = "done", !.outcome = o]
<1>1. \A o \in Outcome : done(o) \in Calls /\ done(o).pc = "done"
    <2>1. call[c] \in Calls
        BY DEF TypeOK
    <2> QED
        BY <2>1 DEF Calls, PC
<1>2. (\E o \in Outcome : Becomes(c, done(o))) \/ Becomes(c, Idle)
    BY DEF GiveUp, ServeUnlimited, PersistUsage, Return, Outcome
<1> HIDE DEF done
<1>3. CASE \E o \in Outcome : Becomes(c, done(o))
    BY <1>1, <1>3, OnlyOneDraw DEF Others
<1>4. CASE Becomes(c, Idle)
  <2>1. Idle.pc = "idle"
    BY DEF Idle
  <2> QED
    BY <1>4, <2>1, IdleType, OnlyOneDraw DEF Others
<1> QED
    BY <1>2, <1>3, <1>4

(* The pair a draw is trying is one the key offers.                        *)
LEMMA TriedPair ==
    ASSUME TypeOK, Underway, CandidatesUnbenched, NEW c \in Caller,
           call[c].pc \in {"rate", "usage", "persist"}
    PROVE  /\ call[c].key \in Key /\ <<call[c].key, call[c].feature>> \in Offers
           /\ call[c].key \in call[c].available
BY DEF TypeOK, Underway, CandidatesUnbenched, ReadLocked, Calls, Offered, HasFeature

(* What the usage gate of a key shows a draw now.                          *)
UsageNow(k) == IF UsageWindow[k] > 0 THEN Opened(gate[k], UsageWindow[k]) ELSE gate[k]

LEMMA UsageNowType ==
    ASSUME TypeOK, NEW k \in Key
    PROVE  UsageNow(k) \in Counter /\ CountOne(UsageNow(k)) \in Counter
BY OpenedType DEF UsageNow, TypeOK, CountOne, Counter

(* What the rate gate of a pair shows a draw now.                          *)
RateNow(p) == Opened(rate[p], RateWindow[p])

Tried(c) == <<call[c].key, call[c].feature>>

(* Either gate lets a draw through and counts it, or turns it away.        *)
LEMMA RateGate ==
    ASSUME TypeOK, Underway, CandidatesUnbenched, NEW c \in Caller, TryRate(c)
    PROVE  \/ /\ RateNow(Tried(c)).count < RateLimit[Tried(c)]
              /\ rate' = [rate EXCEPT ![Tried(c)] = CountOne(RateNow(Tried(c)))]
              /\ Moves(c, "usage") /\ SameTrial(c)
              /\ tokens' \in [Offers -> [Instant -> Nat]]
              /\ UNCHANGED <<uses, turns, refused>>
           \/ /\ RateNow(Tried(c)).count >= RateLimit[Tried(c)]
              /\ rate' = [rate EXCEPT ![Tried(c)] = RateNow(Tried(c))]
              /\ Skip(c)
<1> DEFINE p == Tried(c)
           now == RateNow(p)
<1>1. p \in Offers
    BY TriedPair DEF TryRate, Drawing, Tried
<1>2. \/ /\ now.count < RateLimit[p]
         /\ rate' = [rate EXCEPT ![p] = CountOne(now)]
         /\ Becomes(c, [call[c] EXCEPT !.pc = "usage"])
         /\ tokens' = [tokens EXCEPT ![p][clock] = @ + 1]
         /\ UNCHANGED <<uses, turns, refused>>
      \/ /\ now.count >= RateLimit[p]
         /\ rate' = [rate EXCEPT ![p] = now]
         /\ Skip(c)
    BY DEF TryRate, Tried, RateNow
<1>3. tokens' = [tokens EXCEPT ![p][clock] = @ + 1] => tokens' \in [Offers -> [Instant -> Nat]]
    BY <1>1 DEF TypeOK
<1>4. Becomes(c, [call[c] EXCEPT !.pc = "usage"]) => Moves(c, "usage") /\ SameTrial(c)
    BY RateDraw
<1> QED
    BY <1>2, <1>3, <1>4

LEMMA UsageGate ==
    ASSUME TypeOK, Underway, CandidatesUnbenched, NEW c \in Caller, TryConsumeUsage(c)
    PROVE  LET k == call[c].key
           IN  \/ /\ UsageLeft(k, UsageNow(k).count)
                  /\ gate' = [gate EXCEPT ![k] = CountOne(UsageNow(k))]
                  /\ Moves(c, "persist") /\ SameTrial(c) /\ Grant(c)
               \/ /\ ~UsageLeft(k, UsageNow(k).count)
                  /\ gate' = [gate EXCEPT ![k] = UsageNow(k)]
                  /\ Skip(c)
<1> DEFINE k == call[c].key
           opened == IF UsageWindow[k] > 0 /\ WindowOver(gate[k], UsageWindow[k])
                     THEN clock ELSE None
<1>1. opened \in Instant \cup {None}
    BY DEF TypeOK
<1>2. \/ /\ UsageLeft(k, UsageNow(k).count)
         /\ gate' = [gate EXCEPT ![k] = CountOne(UsageNow(k))]
         /\ Becomes(c, [call[c] EXCEPT !.pc = "persist", !.opened = opened])
         /\ Grant(c)
      \/ /\ ~UsageLeft(k, UsageNow(k).count)
         /\ gate' = [gate EXCEPT ![k] = UsageNow(k)]
         /\ Skip(c)
    BY DEF TryConsumeUsage, UsageNow
<1> HIDE DEF opened
<1> QED
    BY <1>1, <1>2, UsageDraw

LEMMA GrantType ==
    ASSUME TypeOK, Underway, CandidatesUnbenched, NEW c \in Caller, Grant(c),
           call[c].pc = "usage"
    PROVE  /\ uses' \in [Key -> [Instant -> Nat]] /\ turns' \in [Offers -> Nat]
           /\ tokens' = tokens /\ refused' = refused
<1> DEFINE p == <<call[c].key, call[c].feature>>
<1>1. call[c].key \in Key /\ p \in Offers
    BY TriedPair
<1>2. uses' = [uses EXCEPT ![call[c].key][clock] = @ + 1]
    BY DEF Grant
<1>3. turns' = [turns EXCEPT ![p] = @ + 1] \/ turns' = turns
    BY DEF Grant
<1> QED
    BY <1>1, <1>2, <1>3 DEF Grant, TypeOK

LEMMA TypeInit == Init => TypeOK
<1> SUFFICES ASSUME Init PROVE TypeOK
    OBVIOUS
<1>1. rate \in [Offers -> Counter] /\ gate \in [Key -> Counter]
    BY DEF Init, Counter
<1>2. clock \in Instant /\ draws \in 0..MaxDraws
    BY HorizonAssumption DEF Init, Instant
<1>3. call \in [Caller -> Calls]
    BY IdleType DEF Init
<1>4. /\ tokens \in [Offers -> [Instant -> Nat]] /\ uses \in [Key -> [Instant -> Nat]]
      /\ turns \in [Offers -> Nat] /\ refused \subseteq Key /\ next \in Nat
    BY DEF Init
<1>5. exhausted \in [Key -> Nat \cup {None}] /\ overBudget \in [Key -> Nat \cup {None}]
    BY DEF Init
<1> QED
    BY <1>1, <1>2, <1>3, <1>4, <1>5 DEF TypeOK

LEMMA TypeStep == TypeOK /\ Underway /\ CandidatesUnbenched /\ [Next]_vars => TypeOK'
<1> SUFFICES ASSUME TypeOK, Underway, CandidatesUnbenched, [Next]_vars PROVE TypeOK'
    OBVIOUS
<1> USE DEF gates, benches, history, Drawing
<1>1. ASSUME NEW c \in Caller, NEW f \in Feature, NEW scope \in Scopes,
             GetKeyForFeature(c, f, scope)
      PROVE  TypeOK'
  <2>1. draws' \in 0..MaxDraws
    BY <1>1, HorizonAssumption DEF GetKeyForFeature, Begin, TypeOK
  <2>2. call' \in [Caller -> Calls]
    BY <1>1, GetKeyForFeatureDraw
  <2> QED
    BY <1>1, <2>1, <2>2 DEF GetKeyForFeature, TypeOK
<1>2. ASSUME NEW c \in Caller, NEW k \in Key, NEW f \in Feature, NEW scope \in Scopes,
             KeyByID(c, k, f, scope)
      PROVE  TypeOK'
  <2>1. draws' \in 0..MaxDraws
    BY <1>2, HorizonAssumption DEF KeyByID, Begin, TypeOK
  <2>2. call' \in [Caller -> Calls]
    BY <1>2, KeyByIDDraw DEF Others
  <2> QED
    BY <1>2, <2>1, <2>2 DEF KeyByID, TypeOK
<1>3. ASSUME NEW c \in Caller, Pick(c) PROVE TypeOK'
  <2>1. /\ next' = next + 1 /\ draws' = draws
        /\ UNCHANGED <<clock, gates, benches, history>>
    BY <1>3 DEF Pick, NextIndex
  <2>2. call' \in [Caller -> Calls]
    BY <1>3, PickDraw DEF Moves, Others
  <2> QED
    BY <2>1, <2>2 DEF TypeOK
<1>4. ASSUME NEW c \in Caller, GiveUp(c) PROVE TypeOK'
    BY <1>4, LastDraw DEF GiveUp, Others, TypeOK
<1>5. ASSUME NEW c \in Caller, TryRate(c) PROVE TypeOK'
  <2>1. Tried(c) \in Offers /\ call[c].key \in Key
    BY <1>5, TriedPair DEF TryRate, Tried
  <2>2. RateNow(Tried(c)) \in Counter /\ CountOne(RateNow(Tried(c))) \in Counter
    BY <2>1, OpenedType DEF TypeOK, RateNow
  <2>3. rate' \in [Offers -> Counter]
    BY <1>5, <2>2, RateGate DEF TypeOK
  <2>4. ASSUME Moves(c, "usage"), tokens' \in [Offers -> [Instant -> Nat]],
               UNCHANGED <<uses, turns, refused>>
        PROVE  TypeOK'
    BY <1>5, <2>3, <2>4 DEF TryRate, Moves, Others, TypeOK
  <2>5. ASSUME Skip(c) PROVE TypeOK'
    <3>1. /\ call' \in [Caller -> Calls] /\ refused' \subseteq Key
          /\ UNCHANGED <<tokens, uses, turns>>
      BY <2>1, <2>5, SkipDraw DEF Moves, Others
    <3> QED
      BY <1>5, <2>3, <3>1 DEF TryRate, TypeOK
  <2> QED
    <3>1. \/ Moves(c, "usage") /\ tokens' \in [Offers -> [Instant -> Nat]]
             /\ UNCHANGED <<uses, turns, refused>>
          \/ Skip(c)
      BY <1>5, RateGate
    <3> QED
      BY <2>4, <2>5, <3>1
<1>6. ASSUME NEW c \in Caller, ServeUnlimited(c) PROVE TypeOK'
    BY <1>6, LastDraw, GrantType DEF ServeUnlimited, Others, TypeOK
<1>7. ASSUME NEW c \in Caller, TryConsumeUsage(c) PROVE TypeOK'
  <2>1. call[c].key \in Key
    BY <1>7, TriedPair DEF TryConsumeUsage
  <2>2. gate' \in [Key -> Counter]
    <3>1. UsageNow(call[c].key) \in Counter /\ CountOne(UsageNow(call[c].key)) \in Counter
      BY <2>1, UsageNowType
    <3>2. \/ gate' = [gate EXCEPT ![call[c].key] = CountOne(UsageNow(call[c].key))]
          \/ gate' = [gate EXCEPT ![call[c].key] = UsageNow(call[c].key)]
      BY <1>7, UsageGate
    <3> QED
      BY <3>1, <3>2 DEF TypeOK
  <2>3. call[c].pc = "usage"
    BY <1>7 DEF TryConsumeUsage
  <2>4. CASE Moves(c, "persist") /\ Grant(c)
    <3>1. /\ uses' \in [Key -> [Instant -> Nat]] /\ turns' \in [Offers -> Nat]
          /\ tokens' = tokens /\ refused' = refused
      BY <2>3, <2>4, GrantType
    <3>2. call' \in [Caller -> Calls]
      BY <2>4 DEF Moves, Others
    <3>3. /\ UNCHANGED <<clock, next, rate, benches>>
          /\ draws' = draws
      BY <1>7 DEF TryConsumeUsage
    <3> QED
      BY <2>2, <3>1, <3>2, <3>3 DEF benches, TypeOK
  <2>5. CASE Skip(c)
    <3>1. /\ call' \in [Caller -> Calls] /\ refused' \subseteq Key
          /\ UNCHANGED <<tokens, uses, turns>>
      BY <2>1, <2>5, SkipDraw DEF Moves, Others
    <3> QED
      BY <1>7, <2>2, <3>1 DEF TryConsumeUsage, TypeOK
  <2> QED
    BY <1>7, <2>4, <2>5, UsageGate
<1>8. ASSUME NEW c \in Caller, PersistUsage(c) PROVE TypeOK'
    BY <1>8, LastDraw DEF PersistUsage, Others, TypeOK
<1>9. ASSUME NEW c \in Caller, Return(c) PROVE TypeOK'
    BY <1>9, LastDraw DEF Return, Others, TypeOK
<1>10. ASSUME NEW k \in Key, NEW until \in Untils,
              MarkExhausted(k, until) \/ BudgetSpent(k, until)
       PROVE  TypeOK'
    BY <1>10, InputAssumption DEF MarkExhausted, BudgetSpent, TypeOK
<1>11. ASSUME Tick PROVE TypeOK'
  <2>1. clock' \in Instant
    BY <1>11, HorizonAssumption DEF Tick, TypeOK, Instant
  <2> QED
    BY <1>11, <2>1 DEF Tick, gates, benches, history, TypeOK
<1>12. CASE UNCHANGED vars
    BY <1>12 DEF vars, TypeOK
<1> QED
    BY <1>1, <1>2, <1>3, <1>4, <1>5, <1>6, <1>7, <1>8, <1>9, <1>10, <1>11, <1>12
    DEF Next, Draw, Step

-----------------------------------------------------------------------------
LEMMA UnderwayStep == TypeOK /\ Underway /\ CandidatesUnbenched /\ [Next]_vars => Underway'
<1> SUFFICES ASSUME TypeOK, Underway, CandidatesUnbenched, [Next]_vars PROVE Underway'
    OBVIOUS
<1> USE DEF Underway, ReadLocked
<1>0. clock \in Nat
    BY DEF TypeOK, Instant
<1>1. ASSUME NEW c \in Caller, NEW f \in Feature, NEW scope \in Scopes,
             GetKeyForFeature(c, f, scope)
      PROVE  Underway'
  <2>1. clock' = clock
    BY <1>1 DEF GetKeyForFeature
  <2>2. /\ \A d \in Caller \ {c} : call'[d] = call[d]
        /\ call'[c].pc = "pick" /\ call'[c].feature = f /\ call'[c].since = clock
        /\ call'[c].wanted = None
    BY <1>1, GetKeyForFeatureDraw
  <2> QED
    BY <1>0, <2>1, <2>2
<1>2. ASSUME NEW c \in Caller, NEW k \in Key, NEW f \in Feature, NEW scope \in Scopes,
             KeyByID(c, k, f, scope)
      PROVE  Underway'
  <2>1. clock' = clock
    BY <1>2 DEF KeyByID
  <2>2. Others(c)
    BY <1>2, KeyByIDDraw
  <2>3. \/ call'[c].pc = "done"
        \/ /\ call'[c].feature = f /\ call'[c].since = clock
           /\ call'[c].key = k /\ call'[c].available = {k} /\ call'[c].wanted = k
           /\ <<k, f>> \in Offers
    BY <1>2, KeyByIDDraw DEF Offered, HasFeature
  <2> QED
    BY <1>0, <2>1, <2>2, <2>3 DEF Others
<1>3. ASSUME NEW c \in Caller, Pick(c) PROVE Underway'
  <2>1. call[c].pc = "pick" /\ clock' = clock
    BY <1>3 DEF Pick, Drawing
  <2>2. Others(c) /\ SameRequest(c) /\ call'[c].key \in call'[c].available
    BY <1>3, PickDraw DEF Moves
  <2>3. /\ call'[c].feature \in Feature /\ call'[c].since \in 0..clock'
        /\ call'[c].wanted # None => <<call'[c].wanted, call'[c].feature>> \in Offers
    BY <1>0, <2>1, <2>2 DEF SameRequest
  <2> QED
    BY <2>1, <2>2, <2>3 DEF Others
<1>4. ASSUME NEW c \in Caller, call[c].pc \in {"rate", "usage"}, clock' = clock,
             Others(c), SameRequest(c), call'[c].pc = "pick" \/ SameTrial(c)
      PROVE  Underway'
  <2>1. /\ call'[c].feature \in Feature /\ call'[c].since \in 0..clock'
        /\ call'[c].wanted # None => <<call'[c].wanted, call'[c].feature>> \in Offers
    BY <1>4 DEF SameRequest
  <2>2. call'[c].pc \in {"rate", "usage", "persist"} => call'[c].key \in call'[c].available
    BY <1>4 DEF SameTrial
  <2> QED
    BY <1>4, <2>1, <2>2 DEF Others
<1>5. ASSUME NEW c \in Caller, TryRate(c) PROVE Underway'
  <2>1. call[c].pc = "rate" /\ clock' = clock
    BY <1>5 DEF TryRate, Drawing
  <2>2. Others(c) /\ SameRequest(c) /\ (call'[c].pc = "pick" \/ SameTrial(c))
    BY <1>5, RateGate, SkipDraw DEF Moves, SameTrial
  <2> QED
    BY <1>4, <2>1, <2>2
<1>6. ASSUME NEW c \in Caller, TryConsumeUsage(c) PROVE Underway'
  <2>1. call[c].pc = "usage" /\ clock' = clock
    BY <1>6 DEF TryConsumeUsage, Drawing
  <2>2. Others(c) /\ SameRequest(c) /\ (call'[c].pc = "pick" \/ SameTrial(c))
    BY <1>6, UsageGate, SkipDraw DEF Moves, SameTrial
  <2> QED
    BY <1>4, <2>1, <2>2
<1>7. ASSUME NEW c \in Caller,
             GiveUp(c) \/ ServeUnlimited(c) \/ PersistUsage(c) \/ Return(c)
      PROVE  Underway'
  <2>1. clock' = clock
    BY <1>7 DEF GiveUp, ServeUnlimited, PersistUsage, Return
  <2> QED
    BY <1>7, <2>1, LastDraw DEF Others
<1>8. ASSUME NEW k \in Key, NEW until \in Untils,
             MarkExhausted(k, until) \/ BudgetSpent(k, until)
      PROVE  Underway'
    BY <1>8 DEF MarkExhausted, BudgetSpent
<1>9. CASE Tick
    BY <1>0, <1>9 DEF Tick
<1>10. CASE UNCHANGED vars
    BY <1>10 DEF vars
<1> QED
    BY <1>1, <1>2, <1>3, <1>5, <1>6, <1>7, <1>8, <1>9, <1>10 DEF Next, Draw, Step

(* Steps of draws bench nothing and leave the clock alone, and a step only *)
(* narrows the candidates of its own draw.                                 *)
LEMMA NarrowingKeepsUnbenched ==
    ASSUME TypeOK, CandidatesUnbenched, NEW c \in Caller,
           UNCHANGED <<clock, benches>>, Others(c),
           \/ ~ReadLocked(c)'
           \/ ReadLocked(c) /\ SameRequest(c) /\ call'[c].available \subseteq call[c].available
    PROVE  CandidatesUnbenched'
<1> SUFFICES ASSUME NEW d \in Caller, ReadLocked(d)', NEW k \in call'[d].available
             PROVE  /\ k \in Pool /\ Offered(k, call'[d].feature, call'[d].scope)
                    /\ ~Before(exhausted[k]) /\ ~Before(overBudget[k])
    BY DEF CandidatesUnbenched, benches, Before, Offered, HasFeature
<1>1. CASE d = c
    BY <1>1 DEF CandidatesUnbenched, SameRequest
<1>2. CASE d # c
    BY <1>2 DEF CandidatesUnbenched, Others, ReadLocked
<1> QED
    BY <1>1, <1>2

LEMMA UnbenchedStep ==
    TypeOK /\ Underway /\ CandidatesUnbenched /\ [Next]_vars => CandidatesUnbenched'
<1> SUFFICES ASSUME TypeOK, Underway, CandidatesUnbenched, [Next]_vars
             PROVE  CandidatesUnbenched'
    OBVIOUS
<1> USE DEF benches, ReadLocked
<1>1. ASSUME NEW c \in Caller, NEW f \in Feature, NEW scope \in Scopes,
             GetKeyForFeature(c, f, scope)
      PROVE  CandidatesUnbenched'
  <2>1. UNCHANGED <<clock, exhausted, overBudget>>
    BY <1>1 DEF GetKeyForFeature
  <2> QED
    BY <1>1, <2>1, GetKeyForFeatureDraw
    DEF CandidatesUnbenched, Available, Before, Offered, HasFeature
<1>2. ASSUME NEW c \in Caller, NEW k \in Key, NEW f \in Feature, NEW scope \in Scopes,
             KeyByID(c, k, f, scope)
      PROVE  CandidatesUnbenched'
  <2>1. UNCHANGED <<clock, exhausted, overBudget>>
    BY <1>2 DEF KeyByID
  <2>2. Others(c)
    BY <1>2, KeyByIDDraw
  <2>3. \/ call'[c].pc = "done"
        \/ /\ call'[c].available = {k} /\ k \in Pool
           /\ Offered(k, call'[c].feature, call'[c].scope)
           /\ ~Before(exhausted[k]) /\ ~Before(overBudget[k])
    BY <1>2, KeyByIDDraw DEF Available
  <2> QED
    BY <2>1, <2>2, <2>3 DEF CandidatesUnbenched, Before, Offered, HasFeature, Others
<1>3. ASSUME NEW c \in Caller, Pick(c) PROVE CandidatesUnbenched'
    BY <1>3, PickDraw, NarrowingKeepsUnbenched DEF Pick, Drawing, Moves
<1>4. ASSUME NEW c \in Caller, TryRate(c) PROVE CandidatesUnbenched'
    BY <1>4, RateGate, SkipDraw, NarrowingKeepsUnbenched DEF TryRate, Drawing, Moves, SameTrial
<1>5. ASSUME NEW c \in Caller, TryConsumeUsage(c) PROVE CandidatesUnbenched'
    BY <1>5, UsageGate, SkipDraw, NarrowingKeepsUnbenched
    DEF TryConsumeUsage, Drawing, Moves, SameTrial
<1>6. ASSUME NEW c \in Caller,
             GiveUp(c) \/ ServeUnlimited(c) \/ PersistUsage(c) \/ Return(c)
      PROVE  CandidatesUnbenched'
  <2>1. UNCHANGED <<clock, benches>>
    BY <1>6 DEF GiveUp, ServeUnlimited, PersistUsage, Return
  <2> QED
    BY <1>6, <2>1, LastDraw, NarrowingKeepsUnbenched
<1>7. ASSUME NEW k \in Key, NEW until \in Untils,
             MarkExhausted(k, until) \/ BudgetSpent(k, until)
      PROVE  CandidatesUnbenched'
  <2>1. \A c \in Caller : call'[c].pc \in {"idle", "done"}
    BY <1>7 DEF MarkExhausted, BudgetSpent, WriteLocked
  <2> QED
    BY <2>1 DEF CandidatesUnbenched
<1>8. CASE Tick
  <2>1. clock \in Nat /\ clock' = clock + 1 /\ UNCHANGED <<exhausted, overBudget, call>>
    BY <1>8 DEF Tick, TypeOK, Instant
  <2>2. \A at \in Nat \cup {None} : ~Before(at) => ~(at # None /\ clock' < at)
    BY <2>1 DEF Before
  <2> QED
    BY <2>1, <2>2, PoolAssumption
    DEF CandidatesUnbenched, Before, TypeOK, Offered, HasFeature
<1>9. CASE UNCHANGED vars
    BY <1>9 DEF vars, CandidatesUnbenched, Before, Offered, HasFeature
<1> QED
    BY <1>1, <1>2, <1>3, <1>4, <1>5, <1>6, <1>7, <1>8, <1>9 DEF Next, Draw, Step

-----------------------------------------------------------------------------
(* A gate found spent stays spent while the clock stands still.            *)
LEMMA RateStaysSpent ==
    ASSUME TypeOK, NEW p \in Offers, NEW q \in Offers, clock' = clock,
           RateNow(q).count >= RateLimit[q],
           \/ rate' = rate
           \/ rate' = [rate EXCEPT ![p] = RateNow(p)]
           \/ /\ rate' = [rate EXCEPT ![p] = CountOne(RateNow(p))]
              /\ RateNow(p).count < RateLimit[p]
    PROVE  RateNow(q)'.count >= RateLimit[q]
<1>1. RateNow(q) \in Counter /\ RateWindow[q] \in Nat \ {0} /\ rate[q] \in Counter
    BY OpenedType, OffersAssumption DEF RateNow, TypeOK
<1>2. Opened(RateNow(q), RateWindow[q]) = RateNow(q)
    BY <1>1, OpenedOnce DEF RateNow
<1>3. rate'[q] = rate[q] \/ rate'[q] = RateNow(q)
  <2>1. p # q \/ ~(RateNow(p).count < RateLimit[p])
    BY <1>1, OffersAssumption DEF Counter
  <2> QED
    BY <2>1 DEF TypeOK
<1>4. RateNow(q)' = Opened(rate'[q], RateWindow[q])
    BY DEF RateNow, Opened, WindowOver
<1> QED
    BY <1>2, <1>3, <1>4 DEF RateNow

LEMMA UsageStaysSpent ==
    ASSUME TypeOK, NEW k \in Key, NEW j \in Key, clock' = clock,
           ~UsageLeft(j, UsageNow(j).count),
           \/ gate' = gate
           \/ gate' = [gate EXCEPT ![k] = UsageNow(k)]
           \/ /\ gate' = [gate EXCEPT ![k] = CountOne(UsageNow(k))]
              /\ UsageLeft(k, UsageNow(k).count)
    PROVE  UsageNow(j)' = UsageNow(j)
<1>1. UsageNow(j) \in Counter /\ gate[j] \in Counter /\ UsageWindow[j] \in Nat
    BY UsageNowType, KeyAssumption DEF TypeOK
<1>2. gate'[j] = gate[j] \/ gate'[j] = UsageNow(j)
  <2>1. k # j \/ ~UsageLeft(k, UsageNow(k).count)
    OBVIOUS
  <2> QED
    BY <2>1 DEF TypeOK
<1>3. UsageWindow[j] > 0 => Opened(UsageNow(j), UsageWindow[j]) = UsageNow(j)
    BY <1>1, OpenedOnce DEF UsageNow
<1>4. UsageNow(j)' = IF UsageWindow[j] > 0 THEN Opened(gate'[j], UsageWindow[j]) ELSE gate'[j]
    BY DEF UsageNow, Opened, WindowOver
<1> QED
    BY <1>2, <1>3, <1>4 DEF UsageNow

(* A key that cannot serve a feature now, in the terms of the invariant.   *)
Closed(k, f) == ~Available(k) \/ RateSpent(k, f) \/ UsageSpent(k)

(* What one step of a draw on the gates leaves closed.                     *)
LEMMA ClosedStays ==
    ASSUME TypeOK, NEW k \in Key, NEW f, <<k, f>> \in Offers, Closed(k, f),
           UNCHANGED <<clock, benches>>,
           NEW p \in Offers, NEW j \in Key,
           \/ rate' = rate
           \/ rate' = [rate EXCEPT ![p] = RateNow(p)]
           \/ /\ rate' = [rate EXCEPT ![p] = CountOne(RateNow(p))]
              /\ RateNow(p).count < RateLimit[p],
           \/ gate' = gate
           \/ gate' = [gate EXCEPT ![j] = UsageNow(j)]
           \/ /\ gate' = [gate EXCEPT ![j] = CountOne(UsageNow(j))]
              /\ UsageLeft(j, UsageNow(j).count)
    PROVE  Closed(k, f)'
<1>1. CASE ~Available(k)
    BY <1>1 DEF Closed, Available, PastExpiry, Before, benches
<1>2. CASE RateSpent(k, f)
  <2>1. RateNow(<<k, f>>)'.count >= RateLimit[<<k, f>>]
    BY <1>2, RateStaysSpent DEF RateSpent, RateNow
  <2> QED
    BY <2>1 DEF Closed, RateSpent, RateNow
<1>3. CASE UsageSpent(k)
  <2>1. UsageLimit[k] # None /\ UsageLimit[k] \in Nat /\ UsageNow(k) \in Counter
    BY <1>3, KeyAssumption, UsageNowType DEF UsageSpent
  <2>2. ~UsageLeft(k, UsageNow(k).count)
    BY <1>3, <2>1 DEF UsageSpent, UsageNow, UsageLeft, Counter
  <2>3. UsageNow(k)' = UsageNow(k)
    BY <2>2, UsageStaysSpent
  <2>4. UsageNow(k).count >= UsageLimit[k]
    BY <1>3 DEF UsageSpent, UsageNow
  <2> QED
    BY <2>1, <2>3, <2>4 DEF Closed, UsageSpent, UsageNow
<1> QED
    BY <1>1, <1>2, <1>3 DEF Closed

(* What a step of one draw must do for every candidate dropped at this     *)
(* instant to stay closed: keep the closed ones closed, and drop only a    *)
(* key it leaves closed.                                                   *)
LEMMA SkipsStepOfDraw ==
    ASSUME TypeOK, CandidatesUnbenched, SkipsOnlyClosedKeys, NEW c \in Caller, Others(c),
           clock' = clock,
           \A k \in Key, f \in Feature : <<k, f>> \in Offers /\ Closed(k, f) => Closed(k, f)',
           \A d \in Caller : ReadLocked(d) => \A k \in Candidates(d) :
               k \in Key /\ <<k, call[d].feature>> \in Offers /\ call[d].feature \in Feature,
           \/ ~ReadLocked(c)'
           \/ /\ ReadLocked(c) /\ SameRequest(c)
              /\ \A k \in call[c].available \ call'[c].available :
                    \A f \in Feature : f = call[c].feature => Closed(k, f)'
    PROVE  SkipsOnlyClosedKeys'
<1> SUFFICES ASSUME NEW d \in Caller, ReadLocked(d)', call'[d].since = clock',
                    NEW k \in Candidates(d)' \ call'[d].available,
                    NEW f, f = call'[d].feature
             PROVE  Closed(k, f)'
    BY DEF SkipsOnlyClosedKeys, Closed, RateSpent
<1>1. ReadLocked(d) /\ (d = c => SameRequest(c)) /\ (d # c => call'[d] = call[d])
    BY DEF Others, ReadLocked
<1>2. /\ call'[d].feature = call[d].feature /\ call'[d].scope = call[d].scope
      /\ call'[d].wanted = call[d].wanted /\ call'[d].since = call[d].since
    BY <1>1 DEF SameRequest
<1>3. Candidates(d)' = Candidates(d)
    BY <1>2 DEF Candidates, Offered, HasFeature
<1>4. k \in Key /\ <<k, call[d].feature>> \in Offers /\ call[d].feature \in Feature
    BY <1>1, <1>3
<1>5. CASE k \notin call[d].available
  <2>1. Closed(k, f)
    BY <1>1, <1>2, <1>3, <1>5 DEF SkipsOnlyClosedKeys, Closed
  <2> QED
    BY <1>2, <1>4, <2>1
<1>6. CASE k \in call[d].available
  <2>1. d = c
    BY <1>1, <1>6
  <2>2. k \in call[c].available \ call'[c].available /\ f = call[c].feature
    BY <1>2, <1>6, <2>1
  <2> QED
    BY <1>2, <1>4, <2>1, <2>2
<1> QED
    BY <1>5, <1>6

(* A gate that turns a draw away leaves its key closed.                    *)
LEMMA RateCloses ==
    ASSUME TypeOK, NEW k \in Key, NEW f \in Feature, <<k, f>> \in Offers, clock' = clock,
           RateNow(<<k, f>>).count >= RateLimit[<<k, f>>],
           rate' = [rate EXCEPT ![<<k, f>>] = RateNow(<<k, f>>)]
    PROVE  Closed(k, f)'
<1>1. RateNow(<<k, f>>)'.count >= RateLimit[<<k, f>>]
    BY RateStaysSpent
<1> QED
    BY <1>1 DEF Closed, RateSpent, RateNow

LEMMA UsageCloses ==
    ASSUME TypeOK, NEW k \in Key, NEW f \in Feature, UsageLimit[k] # None, clock' = clock,
           ~UsageLeft(k, UsageNow(k).count),
           gate' = [gate EXCEPT ![k] = UsageNow(k)]
    PROVE  Closed(k, f)'
<1>1. UsageLimit[k] \in Nat /\ UsageNow(k) \in Counter
    BY KeyAssumption, UsageNowType
<1>2. UsageNow(k)' = UsageNow(k)
    BY UsageStaysSpent
<1>3. UsageNow(k).count >= UsageLimit[k]
    BY <1>1 DEF UsageLeft, Counter
<1>4. UsageSpent(k)'
    BY <1>2, <1>3 DEF UsageSpent, UsageNow
<1> QED
    BY <1>4 DEF Closed

LEMMA CandidatesOffered ==
    ASSUME TypeOK, Underway, NEW d \in Caller, ReadLocked(d), NEW k \in Candidates(d)
    PROVE  k \in Key /\ <<k, call[d].feature>> \in Offers /\ call[d].feature \in Feature
BY PoolAssumption DEF TypeOK, Calls, Underway, Candidates, Offered, HasFeature

(* A step that moves neither the clock, a bench nor a gate keeps every     *)
(* closed key closed.                                                      *)
LEMMA QuietStep ==
    ASSUME UNCHANGED <<clock, benches, gates>>
    PROVE  \A k \in Key, f \in Feature : Closed(k, f) => Closed(k, f)'
BY DEF benches, gates, Closed, Available, PastExpiry, Before, RateSpent, UsageSpent, Opened,
       WindowOver

LEMMA SkipsStep == IInv /\ [Next]_vars => SkipsOnlyClosedKeys'
<1> SUFFICES ASSUME TypeOK, Underway, CandidatesUnbenched, SkipsOnlyClosedKeys, [Next]_vars
             PROVE  SkipsOnlyClosedKeys'
    BY DEF IInv
<1> DEFINE Dropped(c) == \A k \in call[c].available \ call'[c].available :
                            \A f \in Feature : f = call[c].feature => Closed(k, f)'
<1>1. ASSUME NEW c \in Caller, Others(c), UNCHANGED <<clock, benches, gates>>,
             \/ ~ReadLocked(c)'
             \/ ReadLocked(c) /\ SameRequest(c) /\ Dropped(c)
      PROVE  SkipsOnlyClosedKeys'
    BY <1>1, QuietStep, CandidatesOffered, SkipsStepOfDraw
<1>2. ASSUME NEW c \in Caller, NEW f \in Feature, NEW scope \in Scopes,
             GetKeyForFeature(c, f, scope)
      PROVE  SkipsOnlyClosedKeys'
  <2>0. \A d \in Caller \ {c} : call'[d] = call[d]
    BY <1>2, GetKeyForFeatureDraw
  <2>1. (\A d \in Caller \ {c} : call'[d] = call[d]) /\ UNCHANGED <<clock, benches, gates>>
    BY <1>2, <2>0 DEF GetKeyForFeature
  <2>2. SUFFICES ASSUME NEW d \in Caller, ReadLocked(d)', call'[d].since = clock',
                        NEW k \in Candidates(d)' \ call'[d].available,
                        NEW g, g = call'[d].feature
                 PROVE  Closed(k, g)'
    BY DEF SkipsOnlyClosedKeys, Closed, RateSpent
  <2>3. CASE d = c
    <3>1. Candidates(c)' = {j \in Pool : Offered(j, f, scope)}
      BY <1>2, GetKeyForFeatureDraw DEF Candidates, Offered, HasFeature
    <3>2. call'[c].available = {j \in Pool : Offered(j, f, scope) /\ Available(j)}
      BY <1>2, GetKeyForFeatureDraw
    <3>3. ~Available(k)
      BY <2>2, <2>3, <3>1, <3>2
    <3> QED
      BY <2>1, <3>3 DEF Closed, Available, PastExpiry, Before, benches
  <2>4. CASE d # c
    <3>1. ReadLocked(d) /\ call'[d] = call[d]
      BY <2>1, <2>2, <2>4 DEF ReadLocked
    <3>2. Candidates(d)' = Candidates(d)
      BY <3>1 DEF Candidates, Offered, HasFeature
    <3>3. Closed(k, g)
      BY <2>1, <2>2, <3>1, <3>2 DEF SkipsOnlyClosedKeys, Closed
    <3>4. k \in Key /\ g \in Feature
      BY <2>2, <3>1, <3>2, CandidatesOffered
    <3> QED
      BY <2>1, <3>3, <3>4, QuietStep
  <2> QED
    BY <2>3, <2>4
<1>3. ASSUME NEW c \in Caller, NEW k \in Key, NEW f \in Feature, NEW scope \in Scopes,
             KeyByID(c, k, f, scope)
      PROVE  SkipsOnlyClosedKeys'
  <2>1. Others(c) /\ UNCHANGED <<clock, benches, gates>>
    BY <1>3, KeyByIDDraw DEF KeyByID
  <2>2. ReadLocked(c)' => call'[c].wanted = k /\ call'[c].available = {k}
    BY <1>3, KeyByIDDraw DEF ReadLocked
  <2>3. SUFFICES ASSUME NEW d \in Caller, ReadLocked(d)', call'[d].since = clock',
                        NEW j \in Candidates(d)' \ call'[d].available,
                        NEW g, g = call'[d].feature
                 PROVE  Closed(j, g)'
    BY DEF SkipsOnlyClosedKeys, Closed, RateSpent
  <2>4. d # c
    BY <2>2, <2>3, NoneAssumption DEF Candidates
  <2>5. ReadLocked(d) /\ call'[d] = call[d]
    BY <2>1, <2>3, <2>4 DEF ReadLocked, Others
  <2>6. Candidates(d)' = Candidates(d)
    BY <2>5 DEF Candidates, Offered, HasFeature
  <2>7. Closed(j, g)
    BY <2>1, <2>3, <2>5, <2>6 DEF SkipsOnlyClosedKeys, Closed
  <2>8. j \in Key /\ g \in Feature
    BY <2>3, <2>5, <2>6, CandidatesOffered
  <2> QED
    BY <2>1, <2>7, <2>8, QuietStep
<1>4. ASSUME NEW c \in Caller, Pick(c) PROVE SkipsOnlyClosedKeys'
  <2>1. UNCHANGED <<clock, benches, gates>> /\ ReadLocked(c)
    BY <1>4 DEF Pick, Drawing, ReadLocked
  <2>2. Others(c) /\ SameRequest(c) /\ call'[c].available = call[c].available
    BY <1>4, PickDraw DEF Moves
  <2> QED
    BY <1>1, <2>1, <2>2
<1>5. ASSUME NEW c \in Caller,
             GiveUp(c) \/ ServeUnlimited(c) \/ PersistUsage(c) \/ Return(c)
      PROVE  SkipsOnlyClosedKeys'
  <2>1. UNCHANGED <<clock, benches, gates>>
    BY <1>5 DEF GiveUp, ServeUnlimited, PersistUsage, Return
  <2>2. Others(c) /\ ~ReadLocked(c)'
    BY <1>5, LastDraw DEF ReadLocked
  <2> QED
    BY <1>1, <2>1, <2>2
<1>6. ASSUME NEW k \in Key, NEW until \in Untils,
             MarkExhausted(k, until) \/ BudgetSpent(k, until)
      PROVE  SkipsOnlyClosedKeys'
  <2>1. \A c \in Caller : call'[c].pc \in {"idle", "done"}
    BY <1>6 DEF MarkExhausted, BudgetSpent, WriteLocked
  <2> QED
    BY <2>1 DEF SkipsOnlyClosedKeys, ReadLocked
<1>7. CASE Tick
  <2>1. clock \in Nat /\ clock' = clock + 1 /\ call' = call
    BY <1>7 DEF Tick, TypeOK, Instant
  <2>2. SUFFICES ASSUME NEW c \in Caller, ReadLocked(c)', call'[c].since = clock'
                 PROVE  FALSE
    BY DEF SkipsOnlyClosedKeys
  <2>3. ReadLocked(c) /\ call[c].since = clock + 1
    BY <2>1, <2>2 DEF ReadLocked
  <2>4. call[c].since \in 0..clock
    BY <2>3 DEF Underway
  <2> QED
    BY <2>1, <2>3, <2>4
<1>8. ASSUME NEW c \in Caller, TryRate(c) PROVE SkipsOnlyClosedKeys'
  <2>1. /\ ReadLocked(c) /\ UNCHANGED <<clock, benches>> /\ gate' = gate
        /\ call[c].pc = "rate"
    BY <1>8 DEF TryRate, Drawing, ReadLocked
  <2>2. /\ Tried(c) \in Offers /\ call[c].key \in Key /\ call[c].feature \in Feature
        /\ RateNow(Tried(c)) \in Counter /\ RateLimit[Tried(c)] \in Nat
    BY <2>1, TriedPair, OpenedType, OffersAssumption
    DEF Tried, Underway, RateNow, TypeOK
  <2>3. \A k \in Key, f \in Feature : <<k, f>> \in Offers /\ Closed(k, f) => Closed(k, f)'
    BY <1>8, <2>1, <2>2, RateGate, ClosedStays
  <2>4. Others(c) /\ SameRequest(c)
    BY <1>8, RateGate, SkipDraw DEF Moves, SameTrial
  <2>5. Dropped(c)
    <3>1. CASE call'[c].available = call[c].available
      BY <3>1
    <3>2. CASE /\ RateNow(Tried(c)).count >= RateLimit[Tried(c)]
               /\ rate' = [rate EXCEPT ![Tried(c)] = RateNow(Tried(c))]
               /\ call'[c].available = call[c].available \ {call[c].key}
      <4>1. PICK k \in Key, f \in Feature :
                k = call[c].key /\ f = call[c].feature /\ <<k, f>> = Tried(c)
        BY <2>2 DEF Tried
      <4>2. Closed(k, f)'
        BY <2>1, <2>2, <3>2, <4>1, RateCloses
      <4> QED
        BY <3>2, <4>1, <4>2
    <3> QED
      BY <1>8, <3>1, <3>2, RateGate, SkipDraw DEF SameTrial
  <2> QED
    BY <2>1, <2>3, <2>4, <2>5, CandidatesOffered, SkipsStepOfDraw
<1>9. ASSUME NEW c \in Caller, TryConsumeUsage(c) PROVE SkipsOnlyClosedKeys'
  <2>1. /\ ReadLocked(c) /\ UNCHANGED <<clock, benches>> /\ rate' = rate
        /\ call[c].pc = "usage" /\ UsageLimit[call[c].key] # None
    BY <1>9 DEF TryConsumeUsage, Drawing, ReadLocked
  <2>2. PICK k \in Key, f \in Feature :
            k = call[c].key /\ f = call[c].feature /\ <<k, f>> \in Offers
    BY <2>1, TriedPair DEF Tried, Underway
  <2>3. \A j \in Key, g \in Feature : <<j, g>> \in Offers /\ Closed(j, g) => Closed(j, g)'
    BY <1>9, <2>1, <2>2, UsageGate, ClosedStays
  <2>4. Others(c) /\ SameRequest(c)
    BY <1>9, UsageGate, SkipDraw DEF Moves, SameTrial
  <2>5. Dropped(c)
    <3>1. CASE call'[c].available = call[c].available
      BY <3>1
    <3>2. CASE /\ ~UsageLeft(k, UsageNow(k).count)
               /\ gate' = [gate EXCEPT ![k] = UsageNow(k)]
               /\ call'[c].available = call[c].available \ {k}
      <4>1. Closed(k, f)'
        BY <2>1, <2>2, <3>2, UsageCloses
      <4> QED
        BY <2>2, <3>2, <4>1
    <3> QED
      BY <1>9, <2>2, <3>1, <3>2, UsageGate, SkipDraw DEF SameTrial
  <2> QED
    BY <2>1, <2>3, <2>4, <2>5, CandidatesOffered, SkipsStepOfDraw
<1>10. CASE UNCHANGED vars
  <2>1. UNCHANGED <<clock, rate, gate, exhausted, overBudget, call>>
    BY <1>10 DEF vars, gates, benches
  <2> QED
    BY <2>1 DEF SkipsOnlyClosedKeys, ReadLocked, Candidates, Offered, HasFeature, Available,
                PastExpiry, Before, RateSpent, UsageSpent, Opened, WindowOver
<1> QED
    BY <1>2, <1>3, <1>4, <1>5, <1>6, <1>7, <1>8, <1>9, <1>10 DEF Next, Draw, Step

-----------------------------------------------------------------------------
LEMMA StartsRight == Init => IInv
<1> SUFFICES ASSUME Init PROVE IInv
    OBVIOUS
<1>1. \A c \in Caller : call[c].pc = "idle"
    BY DEF Init, Idle
<1> QED
    BY <1>1, TypeInit
    DEF IInv, Underway, CandidatesUnbenched, SkipsOnlyClosedKeys, ReadLocked

LEMMA StaysRight == IInv /\ [Next]_vars => IInv'
BY TypeStep, UnderwayStep, UnbenchedStep, SkipsStep DEF IInv

LEMMA Invariant == Spec => []IInv
BY StartsRight, StaysRight, PTL DEF Spec

(* Whatever keys, limits, windows and callers there are, every counter of a*)
(* gate stays a count with the instant its window opened, and what a draw  *)
(* carries from step to step stays of the kinds the code knows.            *)
THEOREM TypeCorrect == Spec => []TypeOK
<1>1. IInv => TypeOK
    BY DEF IInv
<1> QED
    BY <1>1, Invariant, PTL

(* A report or a spend never lands inside a draw: from its filter to its   *)
(* answer a draw holds only keys that are neither benched nor over budget, *)
(* in the caller's tiers, with the feature, and it tries no other key      *)
(* (Manager.mu, GetKeyForFeature and KeyByID).                             *)
THEOREM DrawsStayUnbenched == Spec => []DrawsOnlyUnbenched
<1>1. IInv => DrawsOnlyUnbenched
    BY DEF IInv, Underway, Trying, DrawsOnlyUnbenched
<1> QED
    BY <1>1, Invariant, PTL

(* However draws interleave on the gates they share, a key that a draw     *)
(* dropped can still not serve while the clock stands where the draw began:*)
(* "exhausted" is only answered when every candidate really is closed.     *)
THEOREM SkipsAreHonest == Spec => []SkipsOnlyClosedKeys
<1>1. IInv => SkipsOnlyClosedKeys
    BY DEF IInv
<1> QED
    BY <1>1, Invariant, PTL

-----------------------------------------------------------------------------
(* How a gate with a window and the draws it let through belong together.  *)
Between(a, b) == {t \in Instant : a <= t /\ t < b}

From(a) == Between(a, Horizon + 1)

(* The gate counts the draws since its window opened, with one of which it *)
(* did; those of the windows before that are within reach of a span it is  *)
(* in leave room for the rest of one, and all spans are within bounds.     *)
WindowKept(now, c, log, limit, window) ==
    /\ c.count <= limit
    /\ \A t \in Instant : t > now => log[t] = 0
    /\ limit = 0 \/ c.start = None => c.count = 0 /\ \A t \in Instant : log[t] = 0
    /\ limit > 0 /\ c.start # None =>
        /\ c.start <= now /\ log[c.start] >= 1
        /\ c.count = SumFunctionOnSet(log, From(c.start))
        /\ \A t \in Instant : t >= c.start + window => log[t] = 0
        /\ \A t \in Instant : t + window > c.start =>
                SumFunctionOnSet(log, Between(t, c.start)) < limit
    /\ \A t \in Instant : FixedWindowAllows(SumFunctionOnSet(log, Span(t, window)), limit)

LEMMA InstantsAreNumbers == \A t \in Instant : t \in Nat /\ t <= Horizon
BY HorizonAssumption DEF Instant

(* What a span has of an instant and those after it.                       *)
LEMMA SpansDivide ==
    ASSUME NEW s \in Instant, NEW t \in Instant, NEW window \in Nat
    PROVE  /\ s \in From(s) /\ From(s) \in SUBSET Instant
           /\ t > s => /\ Span(t, window) \subseteq From(s) \ {s}
                      /\ \A u \in Instant : Between(t, u) \subseteq From(s) \ {s}
           /\ t <= s => Span(t, window) \subseteq Between(t, s) \cup From(s)
           /\ Between(t, s) \cap From(s) = {}
<1>1. s \in Nat /\ t \in Nat /\ Horizon \in Nat
    BY InstantsAreNumbers, HorizonAssumption
<1>2. ASSUME NEW i \in Instant, i >= s PROVE i \in From(s)
  <2>1. i < Horizon + 1
    BY <1>1, InstantsAreNumbers
  <2> QED
    BY <1>2, <2>1 DEF From, Between
<1>3. From(s) \in SUBSET Instant /\ \A i \in From(s) : i >= s
    BY DEF From, Between
<1>4. Span(t, window) \in SUBSET Instant /\ \A i \in Span(t, window) : i >= t
    BY DEF Span
<1>5. ASSUME NEW u
      PROVE  Between(t, u) \in SUBSET Instant /\ \A i \in Between(t, u) : i >= t /\ i < u
    BY DEF Between
<1>6. s \in From(s)
    BY <1>1, <1>2
<1>7. ASSUME t > s, NEW i \in Instant, i >= t PROVE i \in From(s) \ {s}
  <2>1. i >= s /\ i # s
    BY <1>1, <1>7, InstantsAreNumbers
  <2> QED
    BY <1>2, <2>1
<1>8. ASSUME t > s
      PROVE  /\ Span(t, window) \subseteq From(s) \ {s}
             /\ \A u \in Instant : Between(t, u) \subseteq From(s) \ {s}
    BY <1>4, <1>5, <1>7, <1>8
<1>9. ASSUME NEW i \in Span(t, window) PROVE i \in Between(t, s) \cup From(s)
  <2>1. i \in Instant /\ i \in Nat /\ i >= t
    BY <1>4, InstantsAreNumbers
  <2>2. CASE i < s
    BY <2>1, <2>2 DEF Between
  <2>3. CASE i >= s
    BY <1>2, <2>1, <2>3
  <2> QED
    BY <1>1, <2>1, <2>2, <2>3
<1>10. ASSUME NEW i \in Between(t, s), i \in From(s) PROVE FALSE
  <2>1. i \in Nat /\ i >= s /\ i < s
    BY <1>3, <1>5, <1>10, InstantsAreNumbers
  <2> QED
    BY <1>1, <2>1
<1> QED
    BY <1>3, <1>6, <1>8, <1>9, <1>10

LEMMA InstantsAreFinite == \A S \in SUBSET Instant : IsFiniteSet(S)
<1>1. IsFiniteSet(Instant)
    BY HorizonAssumption, FS_Interval DEF Instant
<1> QED
    BY <1>1, FS_Subset

(* Sums over instants, and what one more draw now adds to them.            *)
LEMMA InstantSums ==
    ASSUME NEW log \in [Instant -> Nat]
    PROVE  /\ \A S \in SUBSET Instant : SumFunctionOnSet(log, S) \in Nat
           /\ \A S \in SUBSET Instant : \A x \in S :
                SumFunctionOnSet(log, S) = log[x] + SumFunctionOnSet(log, S \ {x})
           /\ \A S, T \in SUBSET Instant : S \cap T = {} =>
                SumFunctionOnSet(log, S \cup T)
                    = SumFunctionOnSet(log, S) + SumFunctionOnSet(log, T)
           /\ \A S, T \in SUBSET Instant : S \subseteq T =>
                SumFunctionOnSet(log, S) <= SumFunctionOnSet(log, T)
           /\ \A S, T, U \in SUBSET Instant : S \cap T = {} /\ U \subseteq S \cup T =>
                SumFunctionOnSet(log, U) <= SumFunctionOnSet(log, S) + SumFunctionOnSet(log, T)
<1>1. ASSUME NEW S \in SUBSET Instant PROVE IsFiniteSet(S) /\ \A x \in S : log[x] \in Nat
    BY InstantsAreFinite
<1>2. ASSUME NEW S \in SUBSET Instant PROVE SumFunctionOnSet(log, S) \in Nat
    BY <1>1, SumType
<1>3. ASSUME NEW S \in SUBSET Instant, NEW x \in S
      PROVE  SumFunctionOnSet(log, S) = log[x] + SumFunctionOnSet(log, S \ {x})
    BY <1>1, SumTakesAny
<1>4. ASSUME NEW S \in SUBSET Instant, NEW T \in SUBSET Instant, S \cap T = {}
      PROVE  SumFunctionOnSet(log, S \cup T)
                = SumFunctionOnSet(log, S) + SumFunctionOnSet(log, T)
  <2>1. \A x \in S \cup T : log[x] \in Nat
    OBVIOUS
  <2> QED
    BY <1>1, <1>4, <2>1, SumOfParts
<1>5. ASSUME NEW S \in SUBSET Instant, NEW T \in SUBSET Instant, S \subseteq T
      PROVE  SumFunctionOnSet(log, S) <= SumFunctionOnSet(log, T)
    BY <1>1, <1>5, SumOfPart
<1>6. ASSUME NEW S \in SUBSET Instant, NEW T \in SUBSET Instant, NEW U \in SUBSET Instant,
             S \cap T = {}, U \subseteq S \cup T
      PROVE  SumFunctionOnSet(log, U) <= SumFunctionOnSet(log, S) + SumFunctionOnSet(log, T)
  <2>1. SumFunctionOnSet(log, U) <= SumFunctionOnSet(log, S \cup T)
    BY <1>5, <1>6
  <2> QED
    BY <1>4, <1>6, <2>1
<1> QED
    BY <1>2, <1>3, <1>4, <1>5, <1>6

LEMMA OneMoreNow ==
    ASSUME clock \in Instant, NEW log \in [Instant -> Nat], NEW S \in SUBSET Instant
    PROVE  SumFunctionOnSet([log EXCEPT ![clock] = @ + 1], S)
             = IF clock \in S THEN SumFunctionOnSet(log, S) + 1 ELSE SumFunctionOnSet(log, S)
<1> DEFINE more == [log EXCEPT ![clock] = @ + 1]
<1>1. \A t \in S : more[t] = IF t = clock THEN log[t] + 1 ELSE log[t]
    OBVIOUS
<1>2. IsFiniteSet(S) /\ \A t \in S : log[t] \in Nat
    BY InstantsAreFinite
<1> HIDE DEF more
<1>3. SumFunctionOnSet(more, S) = IF clock \in S THEN SumFunctionOnSet(log, S) + 1
                                                 ELSE SumFunctionOnSet(log, S)
    BY <1>1, <1>2, SumCounts
<1> QED
    BY <1>3 DEF more

LEMMA NothingCounted ==
    ASSUME NEW log \in [Instant -> Nat], \A t \in Instant : log[t] = 0
    PROVE  \A S \in SUBSET Instant : SumFunctionOnSet(log, S) = 0
BY InstantsAreFinite, SumOfZeros

(* A gate that turns a draw away keeps the bounds.                         *)
LEMMA RefusingKeepsWindows ==
    ASSUME clock \in Instant, NEW c \in Counter, NEW log \in [Instant -> Nat],
           NEW limit \in Nat, NEW window \in Nat \ {0}, WindowKept(clock, c, log, limit, window),
           Opened(c, window).count >= limit
    PROVE  WindowKept(clock, Opened(c, window), log, limit, window)
<1>1. CASE ~WindowOver(c, window)
    BY <1>1 DEF Opened
<1>2. CASE WindowOver(c, window)
  <2>1. Opened(c, window) = [count |-> 0, start |-> clock] /\ limit = 0
    BY <1>2 DEF Opened
  <2> QED
    BY <2>1 DEF WindowKept
<1> QED
    BY <1>1, <1>2

(* One that lets it through does too.                                      *)
LEMMA TakingKeepsWindows ==
    ASSUME clock \in Instant, NEW c \in Counter, NEW log \in [Instant -> Nat],
           NEW limit \in Nat, NEW window \in Nat \ {0}, WindowKept(clock, c, log, limit, window),
           Opened(c, window).count < limit
    PROVE  WindowKept(clock, CountOne(Opened(c, window)), [log EXCEPT ![clock] = @ + 1],
                      limit, window)
<1> DEFINE o == CountOne(Opened(c, window))
           more == [log EXCEPT ![clock] = @ + 1]
           sum(S) == SumFunctionOnSet(log, S)
           plus(S) == SumFunctionOnSet(more, S)
<1>1. /\ \A S \in SUBSET Instant : sum(S) \in Nat
      /\ \A S \in SUBSET Instant : plus(S) = IF clock \in S THEN sum(S) + 1 ELSE sum(S)
      /\ \A S, T \in SUBSET Instant : S \subseteq T => sum(S) <= sum(T)
      /\ \A S, T, U \in SUBSET Instant :
            S \cap T = {} /\ U \subseteq S \cup T => sum(U) <= sum(S) + sum(T)
      /\ \A S \in SUBSET Instant : \A x \in S : sum(S) = log[x] + sum(S \ {x})
    BY InstantSums, OneMoreNow
<1>2. /\ \A a, b : Between(a, b) \in SUBSET Instant /\ From(a) \in SUBSET Instant
      /\ \A t : Span(t, window) \in SUBSET Instant
    BY DEF From, Between, Span
<1>3. limit > 0 /\ clock \in 0..Horizon /\ Horizon \in Nat
  <2>1. Opened(c, window).count \in Nat
    BY DEF Opened, Counter
  <2> QED
    BY <2>1, HorizonAssumption DEF Instant
<1>4. /\ more[clock] = log[clock] + 1 /\ log[clock] \in Nat
      /\ \A t \in Instant : t # clock => more[t] = log[t]
    OBVIOUS
<1>5. \A t \in Instant : t > clock => more[t] = 0
  <2>1. \A t \in Instant : t > clock => log[t] = 0
    BY DEF WindowKept
  <2> HIDE DEF more
  <2> QED
    BY <1>3, <1>4, <2>1 DEF Instant
<1> HIDE DEF more, sum, plus
<1> SUFFICES WindowKept(clock, o, more, limit, window)
    BY DEF more
<1>6. CASE WindowOver(c, window)
  <2>1. o = [count |-> 1, start |-> clock]
    BY <1>6 DEF Opened, CountOne
  <2>2. \A t \in Instant : t + window > clock => sum(Between(t, clock)) < limit
    <3> SUFFICES ASSUME NEW t \in Instant, t + window > clock
                 PROVE  sum(Between(t, clock)) < limit
      OBVIOUS
    <3>1. CASE c.start = None
      <4>1. sum(Between(t, clock)) = 0
        BY <1>2, <3>1, NothingCounted DEF WindowKept, sum
      <4> QED
        BY <1>3, <4>1
    <3>2. CASE c.start # None
      <4> DEFINE s == c.start
                 all == From(s)
      <4>1. s \in Instant /\ clock - s >= window /\ s < t
        BY <1>3, <1>6, <3>2 DEF WindowOver, Counter, Instant
      <4>2. s \in all /\ Between(t, clock) \subseteq all \ {s} /\ all \ {s} \in SUBSET Instant
        BY <1>3, <4>1, SpansDivide DEF Instant
      <4>3. sum(all) = log[s] + sum(all \ {s})
        BY <1>1, <1>2, <4>2
      <4>4. sum(all) <= limit /\ log[s] >= 1
        BY <1>3, <3>2 DEF WindowKept, sum
      <4>5. sum(Between(t, clock)) <= sum(all \ {s})
        BY <1>1, <1>2, <4>2
      <4>6. /\ sum(all) \in Nat /\ sum(all \ {s}) \in Nat /\ sum(Between(t, clock)) \in Nat
            /\ log[s] \in Nat
        BY <1>1, <1>2, <4>1, <4>2
      <4> HIDE DEF s, all
      <4> QED
        BY <4>3, <4>4, <4>5, <4>6
    <3> QED
      BY <3>1, <3>2
  <2>3. sum(From(clock)) = 0
    <3>1. \A t \in From(clock) : log[t] = 0
      <4>1. CASE c.start = None
        BY <4>1 DEF WindowKept, From, Between
      <4>2. CASE c.start # None
        <5>1. c.start \in Instant /\ clock - c.start >= window
          BY <1>6, <4>2 DEF WindowOver, Counter
        <5> QED
          BY <1>3, <4>2, <5>1 DEF WindowKept, From, Between, Instant
      <4> QED
        BY <4>1, <4>2
    <3> QED
      BY <1>2, <3>1, InstantsAreFinite, SumOfZeros DEF sum
  <2>4. plus(From(clock)) = 1
    <3>1. clock \in From(clock)
      BY SpansDivide
    <3> QED
      BY <1>1, <1>2, <2>3, <3>1
  <2>5. \A t \in Instant : t + window > clock => plus(Between(t, clock)) < limit
    <3>1. \A t : clock \notin Between(t, clock)
      BY <1>3 DEF Between
    <3> QED
      BY <1>1, <1>2, <2>2, <3>1
  <2>6. \A t \in Instant : FixedWindowAllows(plus(Span(t, window)), limit)
    <3> SUFFICES ASSUME NEW t \in Instant PROVE FixedWindowAllows(plus(Span(t, window)), limit)
      OBVIOUS
    <3>1. CASE clock \notin Span(t, window)
      BY <1>1, <1>2, <3>1 DEF WindowKept, sum
    <3>2. CASE clock \in Span(t, window)
      <4>1. t + window > clock /\ t <= clock
        BY <3>2 DEF Span
      <4>2. Span(t, window) \subseteq Between(t, clock) \cup From(clock)
        BY <4>1, SpansDivide
      <4>3. Between(t, clock) \cap From(clock) = {}
        BY SpansDivide
      <4>4. sum(Span(t, window))
              <= sum(Between(t, clock)) + sum(From(clock))
        BY <1>1, <1>2, <4>2, <4>3
      <4>5. sum(Span(t, window)) < limit
        BY <1>1, <1>2, <2>2, <2>3, <4>1, <4>4
      <4>6. plus(Span(t, window)) = sum(Span(t, window)) + 1
        BY <1>1, <1>2, <3>2
      <4> QED
        BY <1>1, <1>2, <1>3, <4>5, <4>6 DEF FixedWindowAllows
    <3> QED
      BY <3>1, <3>2
  <2>7. \A t \in Instant : t >= clock + window => more[t] = 0
    BY <1>3, <1>5 DEF Instant
  <2>8. clock # None /\ o.start = clock /\ o.count = 1
    BY <1>3, <2>1, NoneAssumption
  <2> QED
    BY <1>3, <1>5, <1>4, <2>4, <2>5, <2>6, <2>7, <2>8 DEF WindowKept, plus
<1>7. CASE ~WindowOver(c, window)
  <2> DEFINE s == c.start
             all == From(s)
  <2>1. /\ s \in Instant /\ s <= clock /\ clock < s + window /\ s # None
        /\ o = [count |-> c.count + 1, start |-> s] /\ c.count < limit
    BY <1>3, <1>7 DEF WindowOver, Opened, CountOne, Counter, WindowKept, Instant
  <2>2. /\ c.count = sum(all) /\ log[s] >= 1 /\ log[s] \in Nat
        /\ \A t \in Instant : t >= s + window => log[t] = 0
        /\ \A t \in Instant : t + window > s => sum(Between(t, s)) < limit
        /\ \A t \in Instant : FixedWindowAllows(sum(Span(t, window)), limit)
    BY <1>3, <2>1 DEF WindowKept, sum
  <2>3. s \in all /\ clock \in all /\ all \in SUBSET Instant
    BY <1>3, <2>1, SpansDivide DEF From, Between
  <2>4. o.count = plus(all) /\ o.count <= limit /\ sum(all) \in Nat
    BY <1>1, <1>3, <2>1, <2>2, <2>3
  <2>5. \A t \in Instant : t >= s + window => more[t] = 0
    <3> SUFFICES ASSUME NEW t \in Instant, t >= s + window PROVE more[t] = 0
      OBVIOUS
    <3>1. t # clock
      BY <1>3, <2>1 DEF Instant
    <3> QED
      BY <1>4, <2>2, <3>1
  <2>6. \A t \in Instant : t + window > s => plus(Between(t, s)) < limit
    <3>1. \A t : clock \notin Between(t, s)
      BY <1>3, <2>1 DEF Between, Instant
    <3> QED
      BY <1>1, <1>2, <2>2, <3>1
  <2>7. \A t \in Instant : FixedWindowAllows(plus(Span(t, window)), limit)
    <3> SUFFICES ASSUME NEW t \in Instant PROVE FixedWindowAllows(plus(Span(t, window)), limit)
      OBVIOUS
    <3>0. sum(Span(t, window)) \in Nat /\ c.count \in Nat
      BY <1>1, <1>2 DEF Counter
    <3>1. CASE clock \notin Span(t, window)
      BY <1>1, <1>2, <2>2, <3>1
    <3>2. CASE clock \in Span(t, window) /\ t > s
      <4>1. Span(t, window) \subseteq all \ {s} /\ all \ {s} \in SUBSET Instant
        BY <2>1, <3>2, SpansDivide
      <4>2. sum(Span(t, window)) <= sum(all \ {s}) /\ sum(all \ {s}) \in Nat
        BY <1>1, <1>2, <4>1
      <4>3. sum(all) = log[s] + sum(all \ {s})
        BY <1>1, <2>3
      <4>4. plus(Span(t, window)) = sum(Span(t, window)) + 1
        BY <1>1, <1>2, <3>2
      <4>5. plus(Span(t, window)) <= limit /\ plus(Span(t, window)) \in Nat
        BY <2>1, <2>2, <2>4, <3>0, <4>2, <4>3, <4>4
      <4> QED
        BY <1>3, <4>5 DEF FixedWindowAllows
    <3>3. CASE clock \in Span(t, window) /\ t <= s
      <4>1. t + window > s
        BY <2>1, <3>3, InstantsAreNumbers DEF Span
      <4>2. /\ Span(t, window) \subseteq Between(t, s) \cup all
            /\ Between(t, s) \cap all = {}
        BY <2>1, <3>3, SpansDivide
      <4>3. sum(Span(t, window)) <= sum(Between(t, s)) + sum(all)
        BY <1>1, <1>2, <2>3, <4>2
      <4>4. sum(Between(t, s)) < limit /\ sum(Between(t, s)) \in Nat
        BY <1>1, <1>2, <2>2, <4>1
      <4>5. plus(Span(t, window)) = sum(Span(t, window)) + 1
        BY <1>1, <1>2, <3>3
      <4> QED
        BY <1>3, <2>1, <2>2, <3>0, <4>3, <4>4, <4>5 DEF FixedWindowAllows
    <3> QED
      BY <1>3, <2>1, <3>1, <3>2, <3>3 DEF Instant
  <2>8. o.start = s /\ more[s] >= 1
    <3>1. CASE s = clock
      BY <1>4, <2>1, <3>1
    <3>2. CASE s # clock
      BY <1>4, <2>1, <2>2, <3>2
    <3> QED
      BY <2>1, <3>1, <3>2
  <2> QED
    BY <1>3, <1>5, <2>1, <2>4, <2>5, <2>6, <2>7, <2>8 DEF WindowKept, plus
<1> QED
    BY <1>6, <1>7

LEMMA LaterKeepsWindows ==
    ASSUME NEW now \in Instant, NEW then \in Instant, now <= then, NEW c \in Counter,
           NEW log \in [Instant -> Nat], NEW limit \in Nat, NEW window \in Nat \ {0},
           WindowKept(now, c, log, limit, window)
    PROVE  WindowKept(then, c, log, limit, window)
<1>1. \A t \in Instant : t > then => t > now
    BY DEF Instant
<1>2. limit > 0 /\ c.start # None => c.start <= then
    BY DEF WindowKept, Counter, Instant
<1> QED
    BY <1>1, <1>2 DEF WindowKept

LEMMA ClosedWindows ==
    ASSUME NEW now \in Instant, NEW limit \in Nat, NEW window \in Nat
    PROVE  WindowKept(now, [count |-> 0, start |-> None], [t \in Instant |-> 0], limit, window)
<1> DEFINE log == [t \in Instant |-> 0]
<1>1. \A t \in Instant : Span(t, window) \in SUBSET Instant
    BY DEF Span
<1>2. \A t \in Instant : log[t] = 0
    OBVIOUS
<1>3. log \in [Instant -> Nat]
    OBVIOUS
<1> HIDE DEF log
<1>4. \A t \in Instant : SumFunctionOnSet(log, Span(t, window)) = 0
    BY <1>1, <1>2, <1>3, NothingCounted
<1>5. WindowKept(now, [count |-> 0, start |-> None], log, limit, window)
    BY <1>2, <1>4 DEF WindowKept, FixedWindowAllows
<1> QED
    BY <1>5 DEF log

-----------------------------------------------------------------------------
(* Every gate belongs together with the draws it let through.              *)
RatesKept ==
    \A p \in Offers : WindowKept(clock, rate[p], tokens[p], RateLimit[p], RateWindow[p])

UseKept(now, k, c, log) ==
    UsageLimit[k] # None =>
        IF UsageWindow[k] > 0 THEN WindowKept(now, c, log, UsageLimit[k], UsageWindow[k])
        ELSE c.count <= UsageLimit[k] /\ c.count = SumFunctionOnSet(log, Instant)

UsesKept == \A k \in Key : UseKept(clock, k, gate[k], uses[k])

GatesKept == RatesKept /\ UsesKept

LEMMA GatesInit == Init => GatesKept
<1> SUFFICES ASSUME Init PROVE GatesKept
    OBVIOUS
<1>1. clock \in Instant
    BY HorizonAssumption DEF Init, Instant
<1>2. RatesKept
  <2> SUFFICES ASSUME NEW p \in Offers
               PROVE  WindowKept(clock, rate[p], tokens[p], RateLimit[p], RateWindow[p])
    BY DEF RatesKept
  <2>1. rate[p] = [count |-> 0, start |-> None] /\ tokens[p] = [t \in Instant |-> 0]
    BY DEF Init
  <2>2. RateLimit[p] \in Nat /\ RateWindow[p] \in Nat
    BY OffersAssumption
  <2> QED
    BY <1>1, <2>1, <2>2, ClosedWindows
<1>3. UsesKept
  <2> SUFFICES ASSUME NEW k \in Key, UsageLimit[k] # None
               PROVE  UseKept(clock, k, gate[k], uses[k])
    BY DEF UsesKept, UseKept
  <2>1. gate[k] = [count |-> 0, start |-> None] /\ uses[k] = [t \in Instant |-> 0]
    BY DEF Init
  <2>2. UsageLimit[k] \in Nat /\ UsageWindow[k] \in Nat
    BY KeyAssumption
  <2>3. SumFunctionOnSet(uses[k], Instant) = 0
    BY <2>1, NothingCounted
  <2> QED
    BY <1>1, <2>1, <2>2, <2>3, ClosedWindows DEF UseKept
<1> QED
    BY <1>2, <1>3 DEF GatesKept

LEMMA RateStep ==
    ASSUME TypeOK, Underway, CandidatesUnbenched, GatesKept, NEW c \in Caller, TryRate(c)
    PROVE  GatesKept'
<1> DEFINE p == Tried(c)
           now == RateNow(p)
<1>1. p \in Offers /\ clock' = clock /\ gate' = gate /\ uses' = uses
    BY TriedPair DEF TryRate, Drawing, Tried, Skip
<1>2. /\ clock \in Instant /\ rate[p] \in Counter /\ tokens[p] \in [Instant -> Nat]
      /\ RateLimit[p] \in Nat /\ RateWindow[p] \in Nat \ {0}
      /\ WindowKept(clock, rate[p], tokens[p], RateLimit[p], RateWindow[p])
    BY <1>1, OffersAssumption DEF TypeOK, GatesKept, RatesKept
<1>3. \/ /\ now.count < RateLimit[p]
         /\ rate' = [rate EXCEPT ![p] = CountOne(now)]
         /\ tokens' = [tokens EXCEPT ![p][clock] = @ + 1]
      \/ /\ now.count >= RateLimit[p]
         /\ rate' = [rate EXCEPT ![p] = now]
         /\ tokens' = tokens
    BY DEF TryRate, Tried, RateNow, Skip
<1>4. /\ \A q \in Offers \ {p} : rate'[q] = rate[q] /\ tokens'[q] = tokens[q]
      /\ WindowKept(clock, rate'[p], tokens'[p], RateLimit[p], RateWindow[p])
  <2>1. CASE /\ now.count < RateLimit[p]
             /\ rate' = [rate EXCEPT ![p] = CountOne(now)]
             /\ tokens' = [tokens EXCEPT ![p][clock] = @ + 1]
    <3>1. rate'[p] = CountOne(now) /\ tokens'[p] = [tokens[p] EXCEPT ![clock] = @ + 1]
      BY <1>1, <2>1 DEF TypeOK
    <3>2. WindowKept(clock, CountOne(now), [tokens[p] EXCEPT ![clock] = @ + 1],
                     RateLimit[p], RateWindow[p])
      BY <1>2, <2>1, TakingKeepsWindows DEF RateNow
    <3> QED
      BY <1>1, <2>1, <3>1, <3>2 DEF TypeOK
  <2>2. CASE /\ now.count >= RateLimit[p]
             /\ rate' = [rate EXCEPT ![p] = now]
             /\ tokens' = tokens
    <3>1. WindowKept(clock, now, tokens[p], RateLimit[p], RateWindow[p])
      BY <1>2, <2>2, RefusingKeepsWindows DEF RateNow
    <3> QED
      BY <1>1, <2>2, <3>1 DEF TypeOK
  <2> QED
    BY <1>3, <2>1, <2>2
<1> HIDE DEF p, now
<1>5. RatesKept'
    BY <1>1, <1>4 DEF GatesKept, RatesKept
<1>6. UsesKept'
    BY <1>1 DEF GatesKept, UsesKept
<1> QED
    BY <1>5, <1>6 DEF GatesKept

LEMMA UsageStep ==
    ASSUME TypeOK, Underway, CandidatesUnbenched, GatesKept, NEW c \in Caller,
           TryConsumeUsage(c)
    PROVE  GatesKept'
<1> DEFINE k == call[c].key
           now == UsageNow(k)
<1>1. /\ k \in Key /\ clock' = clock /\ rate' = rate /\ tokens' = tokens
      /\ UsageLimit[k] # None
    BY TriedPair DEF TryConsumeUsage, Drawing, Skip, Grant
<1>2. /\ clock \in Instant /\ gate[k] \in Counter /\ uses[k] \in [Instant -> Nat]
      /\ UsageLimit[k] \in Nat /\ UsageWindow[k] \in Nat
      /\ UseKept(clock, k, gate[k], uses[k])
    BY <1>1, KeyAssumption DEF TypeOK, GatesKept, UsesKept
<1>3. \/ /\ now.count < UsageLimit[k]
         /\ gate' = [gate EXCEPT ![k] = CountOne(now)]
         /\ uses' = [uses EXCEPT ![k][clock] = @ + 1]
      \/ /\ ~(now.count < UsageLimit[k])
         /\ gate' = [gate EXCEPT ![k] = now]
         /\ uses' = uses
    BY DEF TryConsumeUsage, UsageNow, Skip, Grant, UsageLeft
<1>4. /\ \A j \in Key \ {k} : gate'[j] = gate[j] /\ uses'[j] = uses[j]
      /\ UseKept(clock, k, gate'[k], uses'[k])
  <2>1. CASE /\ now.count < UsageLimit[k]
             /\ gate' = [gate EXCEPT ![k] = CountOne(now)]
             /\ uses' = [uses EXCEPT ![k][clock] = @ + 1]
    <3>1. gate'[k] = CountOne(now) /\ uses'[k] = [uses[k] EXCEPT ![clock] = @ + 1]
      BY <1>1, <2>1 DEF TypeOK
    <3>2. CASE UsageWindow[k] > 0
      <4>1. now = Opened(gate[k], UsageWindow[k])
        BY <3>2 DEF UsageNow
      <4>2. WindowKept(clock, CountOne(now), [uses[k] EXCEPT ![clock] = @ + 1],
                       UsageLimit[k], UsageWindow[k])
        BY <1>1, <1>2, <2>1, <3>2, <4>1, TakingKeepsWindows DEF UseKept
      <4> QED
        BY <1>1, <2>1, <3>1, <3>2, <4>2 DEF TypeOK, UseKept
    <3>3. CASE ~(UsageWindow[k] > 0)
      <4>1. now = gate[k] /\ CountOne(now).count = gate[k].count + 1
        BY <3>3 DEF UsageNow, CountOne
      <4>2. gate[k].count = SumFunctionOnSet(uses[k], Instant) /\ gate[k].count \in Nat
        BY <1>1, <1>2, <3>3 DEF UseKept, Counter
      <4>3. SumFunctionOnSet(uses'[k], Instant) = SumFunctionOnSet(uses[k], Instant) + 1
        BY <1>2, <3>1, OneMoreNow
      <4>4. CountOne(now).count <= UsageLimit[k]
        BY <1>2, <2>1, <4>1, <4>2
      <4>5. gate'[k].count = SumFunctionOnSet(uses'[k], Instant)
        BY <3>1, <4>1, <4>2, <4>3
      <4> QED
        BY <1>1, <2>1, <3>1, <3>3, <4>4, <4>5 DEF TypeOK, UseKept
    <3> QED
      BY <3>2, <3>3
  <2>2. CASE /\ ~(now.count < UsageLimit[k])
             /\ gate' = [gate EXCEPT ![k] = now]
             /\ uses' = uses
    <3>1. CASE UsageWindow[k] > 0
      <4>1. now = Opened(gate[k], UsageWindow[k]) /\ now.count \in Nat
        BY <1>1, <3>1, UsageNowType DEF UsageNow, Counter
      <4>2. now.count >= UsageLimit[k]
        BY <1>2, <2>2, <4>1
      <4>3. WindowKept(clock, now, uses[k], UsageLimit[k], UsageWindow[k])
        BY <1>1, <1>2, <3>1, <4>1, <4>2, RefusingKeepsWindows DEF UseKept
      <4> QED
        BY <1>1, <2>2, <3>1, <4>3 DEF TypeOK, UseKept
    <3>2. CASE ~(UsageWindow[k] > 0)
      <4>1. now = gate[k]
        BY <3>2 DEF UsageNow
      <4> QED
        BY <1>1, <1>2, <2>2, <4>1 DEF TypeOK
    <3> QED
      BY <3>1, <3>2
  <2> QED
    BY <1>3, <2>1, <2>2
<1> HIDE DEF k, now
<1>5. UsesKept'
    BY <1>1, <1>4 DEF GatesKept, UsesKept
<1>6. RatesKept'
    BY <1>1 DEF GatesKept, RatesKept
<1> QED
    BY <1>5, <1>6 DEF GatesKept

LEMMA GatesStep ==
    TypeOK /\ Underway /\ CandidatesUnbenched /\ GatesKept /\ [Next]_vars => GatesKept'
<1> SUFFICES ASSUME TypeOK, Underway, CandidatesUnbenched, GatesKept, [Next]_vars
             PROVE  GatesKept'
    OBVIOUS
<1>1. CASE UNCHANGED <<clock, rate, gate, tokens, uses>>
    BY <1>1 DEF GatesKept, RatesKept, UsesKept
<1>2. ASSUME NEW c \in Caller, TryRate(c) PROVE GatesKept'
    BY <1>2, RateStep
<1>3. ASSUME NEW c \in Caller, TryConsumeUsage(c) PROVE GatesKept'
    BY <1>3, UsageStep
<1>4. ASSUME NEW c \in Caller, ServeUnlimited(c) PROVE GatesKept'
  <2>1. /\ UsageLimit[call[c].key] = None
        /\ uses' = [uses EXCEPT ![call[c].key][clock] = @ + 1]
        /\ UNCHANGED <<clock, rate, gate, tokens>>
    BY <1>4 DEF ServeUnlimited, Grant, gates
  <2>2. \A k \in Key : UsageLimit[k] # None => uses'[k] = uses[k]
    BY <2>1 DEF TypeOK
  <2>3. UsesKept'
    BY <2>1, <2>2 DEF GatesKept, UsesKept, UseKept
  <2> QED
    BY <2>1, <2>3 DEF GatesKept, RatesKept
<1>5. ASSUME Tick PROVE GatesKept'
  <2>1. clock \in Instant /\ clock' \in Instant /\ clock <= clock'
    BY <1>5, HorizonAssumption DEF Tick, TypeOK, Instant
  <2>2. UNCHANGED <<rate, gate, tokens, uses>>
    BY <1>5 DEF Tick, gates, history
  <2>3. ASSUME NEW p \in Offers
        PROVE  WindowKept(clock', rate[p], tokens[p], RateLimit[p], RateWindow[p])
    <3>1. /\ rate[p] \in Counter /\ tokens[p] \in [Instant -> Nat]
          /\ RateLimit[p] \in Nat /\ RateWindow[p] \in Nat \ {0}
          /\ WindowKept(clock, rate[p], tokens[p], RateLimit[p], RateWindow[p])
      BY OffersAssumption DEF TypeOK, GatesKept, RatesKept
    <3> QED
      BY <2>1, <3>1, LaterKeepsWindows
  <2>4. ASSUME NEW k \in Key PROVE UseKept(clock', k, gate[k], uses[k])
    <3>1. /\ gate[k] \in Counter /\ uses[k] \in [Instant -> Nat]
          /\ UsageLimit[k] \in Nat \cup {None} /\ UsageWindow[k] \in Nat
          /\ UseKept(clock, k, gate[k], uses[k])
      BY KeyAssumption DEF TypeOK, GatesKept, UsesKept
    <3>2. CASE UsageLimit[k] # None /\ UsageWindow[k] > 0
      BY <2>1, <3>1, <3>2, LaterKeepsWindows DEF UseKept
    <3>3. CASE ~(UsageLimit[k] # None /\ UsageWindow[k] > 0)
      BY <3>1, <3>3 DEF UseKept
    <3> QED
      BY <3>2, <3>3
  <2> QED
    BY <2>2, <2>3, <2>4 DEF GatesKept, RatesKept, UsesKept
<1>6. ASSUME NEW c \in Caller, Pick(c) \/ GiveUp(c) \/ PersistUsage(c) \/ Return(c)
      PROVE  UNCHANGED <<clock, rate, gate, tokens, uses>>
    BY <1>6 DEF Pick, GiveUp, PersistUsage, Return, gates, history
<1>7. ASSUME NEW c \in Caller, Draw(c) PROVE UNCHANGED <<clock, rate, gate, tokens, uses>>
    BY <1>7 DEF Draw, GetKeyForFeature, KeyByID, gates, history
<1>8. ASSUME NEW k \in Key, NEW until \in Untils, MarkExhausted(k, until) \/ BudgetSpent(k, until)
      PROVE  UNCHANGED <<clock, rate, gate, tokens, uses>>
    BY <1>8 DEF MarkExhausted, BudgetSpent, gates, history
<1>9. UNCHANGED vars => UNCHANGED <<clock, rate, gate, tokens, uses>>
    BY DEF vars, gates, history
<1> QED
    BY <1>1, <1>2, <1>3, <1>4, <1>5, <1>6, <1>7, <1>8, <1>9 DEF Next, Step

LEMMA GatesHold == TypeOK /\ GatesKept => RateHolds /\ UsageHolds
<1> SUFFICES ASSUME TypeOK, GatesKept PROVE RateHolds /\ UsageHolds
    OBVIOUS
<1>1. RateHolds
    BY DEF GatesKept, RatesKept, WindowKept, RateHolds
<1>2. ASSUME NEW k \in Key, UsageLimit[k] # None
      PROVE  IF UsageWindow[k] = 0 THEN SumFunction(uses[k]) <= UsageLimit[k]
             ELSE \A t \in Instant :
                    FixedWindowAllows(SumFunctionOnSet(uses[k], Span(t, UsageWindow[k])),
                                      UsageLimit[k])
  <2>1. UseKept(clock, k, gate[k], uses[k]) /\ UsageWindow[k] \in Nat
    BY KeyAssumption DEF GatesKept, UsesKept
  <2>2. SumFunction(uses[k]) = SumFunctionOnSet(uses[k], Instant)
    BY DEF SumFunction, TypeOK
  <2>3. CASE UsageWindow[k] = 0
    BY <1>2, <2>1, <2>2, <2>3 DEF UseKept
  <2>4. CASE UsageWindow[k] > 0
    BY <1>2, <2>1, <2>4 DEF UseKept, WindowKept
  <2> QED
    BY <2>1, <2>3, <2>4
<1> QED
    BY <1>1, <1>2 DEF UsageHolds

(* Whatever limits, windows and spans: however concurrent draws share the  *)
(* rate gates and the clock moves under them, no gate lets more through in *)
(* a span of its window than FixedWindowAllows (tryConsumeRate).           *)
THEOREM RateLimitHolds == Spec => []RateHolds
<1>1. IInv => TypeOK /\ Underway /\ CandidatesUnbenched
    BY DEF IInv
<1> QED
    BY <1>1, GatesInit, GatesStep, GatesHold, Invariant, PTL DEF Spec

(* The same of a key's usage limit, windowed or for life, which the draws  *)
(* of all its features share (TryConsumeUsage).                            *)
THEOREM UsageLimitHolds == Spec => []UsageHolds
<1>1. IInv => TypeOK /\ Underway /\ CandidatesUnbenched
    BY DEF IInv
<1> QED
    BY <1>1, GatesInit, GatesStep, GatesHold, Invariant, PTL DEF Spec

-----------------------------------------------------------------------------
(* The rotation.  It is even where nothing gets in its way: one feature,   *)
(* that every caller may draw from every key, keys that do not expire, and *)
(* no key benched nor closed.                                              *)
Rotating(f) ==
    /\ \A p \in Offers : p[2] = f
    /\ \A scope \in Scopes, k \in Pool : KeyTier[k] \in scope
    /\ \A k \in Pool : ExpiresAt[k] = None

Unhindered ==
    /\ refused = {}
    /\ \A k \in Pool : exhausted[k] = None /\ overBudget[k] = None

Ring(f) == {k \in Pool : <<k, f>> \in Offers}

(* A draw that the rotation gave a key, and that no gate has counted yet.  *)
TakesTurn(c, k) ==
    call[c].pc \in {"rate", "usage"} /\ call[c].wanted = None /\ call[c].key = k

InTurn(k) == {c \in Caller : TakesTurn(c, k)}

PicksFrom(f) ==
    \A c \in Caller : call[c].pc = "pick" =>
        call[c].wanted = None /\ call[c].available \in {Ring(f), {}}

(* After q rounds of the ring and r keys of the next one, those r have had *)
(* one turn more than the others.                                          *)
TurnsAfter(f, q, r) ==
    /\ next = q * Cardinality(Ring(f)) + r
    /\ \A k \in Ring(f) :
        turns[<<k, f>>] + Cardinality(InTurn(k))
            = IF Position(k, Ring(f)) < r THEN q + 1 ELSE q

InRounds(f) ==
    /\ \A k \in Ring(f) : IsFiniteSet(InTurn(k))
    /\ \E q \in Nat, r \in 0..(Cardinality(Ring(f)) - 1) : TurnsAfter(f, q, r)

GoesRound(f) == Unhindered => PicksFrom(f) /\ (Ring(f) # {} => InRounds(f))

(* A number is a multiple and a remainder in one way only.                 *)
LEMMA OneRemainder ==
    ASSUME NEW n \in Nat \ {0}, NEW q \in Nat, NEW d \in Nat,
           NEW r \in 0..(n - 1), NEW s \in 0..(n - 1), q * n + r = d * n + s
    PROVE  r = s
<1>1. ASSUME NEW a \in Nat, NEW b \in Nat, a > b PROVE a * n >= b * n + n
  <2>1. a * n = b * n + (a - b) * n
    OBVIOUS
  <2>2. (a - b) * n >= n
    <3>1. (a - b) - 1 \in Nat /\ ((a - b) - 1) * n \in Nat
      BY <1>1
    <3>2. (a - b) * n = ((a - b) - 1) * n + n
      OBVIOUS
    <3> QED
      BY <3>1, <3>2
  <2>3. a * n \in Nat /\ b * n \in Nat /\ (a - b) * n \in Int
    OBVIOUS
  <2> QED
    BY <2>1, <2>2, <2>3
<1>2. q * n \in Nat /\ d * n \in Nat
    OBVIOUS
<1>3. CASE q > d
    BY <1>1, <1>2, <1>3
<1>4. CASE d > q
    BY <1>1, <1>2, <1>4
<1> QED
    BY <1>2, <1>3, <1>4

LEMMA Remainder ==
    ASSUME NEW n \in Nat \ {0}, NEW q \in Nat, NEW r \in 0..(n - 1)
    PROVE  (q * n + r) % n = r
<1> DEFINE m == q * n + r
<1>1. m \in Nat
    OBVIOUS
<1>2. m % n \in 0..(n - 1) /\ m \div n \in Nat /\ m = (m \div n) * n + (m % n)
  <2> HIDE DEF m
  <2> QED
    BY <1>1
<1> QED
    BY <1>2, OneRemainder

(* No two keys of a list have one position in it.                          *)
LEMMA PositionsIn ==
    ASSUME NEW R \in SUBSET Pool
    PROVE  /\ Cardinality(R) \in Nat /\ (R # {} => Cardinality(R) > 0)
           /\ \A k \in R : Position(k, R) \in 0..(Cardinality(R) - 1)
           /\ \A j, k \in R : Position(j, R) = Position(k, R) => j = k
<1> DEFINE before(k) == {j \in R : Rank[j] < Rank[k]}
<1>1. R \subseteq Pool /\ IsFiniteSet(R)
    BY PoolAssumption, FS_Subset
<1>2. \A k \in R : Rank[k] \in Nat
    BY <1>1, PoolAssumption
<1>3. \A k \in R : IsFiniteSet(before(k)) /\ Cardinality(before(k)) \in Nat
    BY <1>1, FS_Subset, FS_CardinalityType
<1>4. Cardinality(R) \in Nat /\ (R # {} => Cardinality(R) > 0)
    BY <1>1, FS_CardinalityType, FS_EmptySet
<1>5. ASSUME NEW k \in R PROVE Cardinality(before(k)) < Cardinality(R)
  <2>1. before(k) \subseteq R /\ k \notin before(k)
    BY <1>2
  <2> HIDE DEF before
  <2>2. before(k) # R
    BY <2>1
  <2> QED
    BY <1>1, <1>3, <1>4, <2>1, <2>2, FS_Subset
<1>6. ASSUME NEW j \in R, NEW k \in R, Rank[j] < Rank[k]
      PROVE  Cardinality(before(j)) < Cardinality(before(k))
  <2>1. before(j) \subseteq before(k)
    BY <1>2, <1>6
  <2>2. j \in before(k) /\ j \notin before(j)
    BY <1>2, <1>6
  <2> HIDE DEF before
  <2>3. before(j) # before(k)
    BY <2>2
  <2> QED
    BY <1>3, <2>1, <2>3, FS_Subset
<1>7. ASSUME NEW j \in R, NEW k \in R, Cardinality(before(j)) = Cardinality(before(k))
      PROVE  j = k
  <2> HIDE DEF before
  <2>1. ~(Rank[j] < Rank[k]) /\ ~(Rank[k] < Rank[j])
    BY <1>3, <1>6, <1>7
  <2>2. Rank[j] = Rank[k]
    BY <1>2, <2>1
  <2> QED
    BY <1>1, <2>2, PoolAssumption
<1>8. \A k \in R : Position(k, R) = Cardinality(before(k))
    BY DEF Position
<1> HIDE DEF before
<1>9. /\ \A k \in R : Position(k, R) \in 0..(Cardinality(R) - 1)
      /\ \A j, k \in R : Position(j, R) = Position(k, R) => j = k
    BY <1>3, <1>4, <1>5, <1>7, <1>8
<1> QED
    BY <1>4, <1>9

LEMMA Positions ==
    ASSUME NEW f
    PROVE  /\ Cardinality(Ring(f)) \in Nat /\ (Ring(f) # {} => Cardinality(Ring(f)) > 0)
           /\ \A k \in Ring(f) : Position(k, Ring(f)) \in 0..(Cardinality(Ring(f)) - 1)
           /\ \A j, k \in Ring(f) : Position(j, Ring(f)) = Position(k, Ring(f)) => j = k
<1>1. Ring(f) \in SUBSET Pool
    BY DEF Ring
<1> HIDE DEF Ring
<1> QED
    BY <1>1, PositionsIn

(* Once hindered, hindered for good.                                       *)
LEMMA StaysHindered == TypeOK /\ [Next]_vars /\ Unhindered' => Unhindered
<1> SUFFICES ASSUME TypeOK, [Next]_vars, Unhindered' PROVE Unhindered
    OBVIOUS
<1>1. ASSUME NEW c \in Caller, Draw(c) \/ Step(c)
      PROVE  refused \subseteq refused' /\ UNCHANGED benches
  <2>1. CASE Draw(c)
    BY <2>1 DEF Draw, GetKeyForFeature, KeyByID, history
  <2>2. CASE Pick(c) \/ GiveUp(c) \/ ServeUnlimited(c) \/ PersistUsage(c) \/ Return(c)
    BY <2>2 DEF Pick, GiveUp, ServeUnlimited, Grant, PersistUsage, Return, history
  <2>3. CASE TryRate(c)
    BY <2>3 DEF TryRate, Skip
  <2>4. CASE TryConsumeUsage(c)
    BY <2>4 DEF TryConsumeUsage, Skip, Grant
  <2> QED
    BY <1>1, <2>1, <2>2, <2>3, <2>4 DEF Step
<1>2. ASSUME NEW j \in Key, NEW until \in Untils, MarkExhausted(j, until) \/ BudgetSpent(j, until)
      PROVE  Unhindered
  <2>1. until # None
    BY InputAssumption, NoneAssumption
  <2>2. j \in Pool /\ \A k \in Pool : k \in Key
    BY <1>2, PoolAssumption DEF MarkExhausted, BudgetSpent
  <2>3. CASE MarkExhausted(j, until)
    BY <2>1, <2>2, <2>3 DEF MarkExhausted, TypeOK, Unhindered, history
  <2>4. CASE BudgetSpent(j, until)
    BY <2>1, <2>2, <2>4 DEF BudgetSpent, TypeOK, Unhindered, history
  <2> QED
    BY <1>2, <2>3, <2>4
<1>3. CASE Tick \/ UNCHANGED vars
    BY <1>3 DEF Tick, vars, benches, history, Unhindered
<1>4. ASSUME refused \subseteq refused', UNCHANGED benches PROVE Unhindered
    BY <1>4 DEF Unhindered, benches
<1> QED
    BY <1>1, <1>2, <1>3, <1>4 DEF Next

(* A step that gives no turn.                                              *)
LEMMA TurnsStay ==
    ASSUME NEW f, next' = next, turns' = turns,
           \A c \in Caller, k \in Ring(f) : TakesTurn(c, k)' <=> TakesTurn(c, k),
           InRounds(f)
    PROVE  InRounds(f)'
<1>1. ASSUME NEW k \in Ring(f) PROVE InTurn(k)' = InTurn(k)
    BY DEF InTurn
<1>2. Ring(f)' = Ring(f)
    BY DEF Ring
<1>3. PICK q \in Nat, r \in 0..(Cardinality(Ring(f)) - 1) : TurnsAfter(f, q, r)
    BY DEF InRounds
<1>4. TurnsAfter(f, q, r)'
    BY <1>1, <1>2, <1>3 DEF TurnsAfter, Position
<1> QED
    BY <1>1, <1>2, <1>3, <1>4 DEF InRounds

(* The draw that picks takes the next position of the ring.                *)
LEMMA PickTurns ==
    ASSUME NEW f, TypeOK, NEW c \in Caller, Pick(c), PicksFrom(f), InRounds(f)
    PROVE  InRounds(f)'
<1>1. PICK k \in call[c].available :
        /\ Position(k, call[c].available) = Index(call[c].available)
        /\ Becomes(c, [call[c] EXCEPT !.pc = "rate", !.key = k])
    BY DEF Pick
<1>2. /\ call[c].pc = "pick" /\ call[c].wanted = None /\ call[c].available = Ring(f)
      /\ next' = next + 1 /\ turns' = turns /\ k \in Ring(f)
    BY <1>1 DEF Pick, Drawing, PicksFrom, NextIndex, history
<1>3. call[c] \in Calls /\ call' = [call EXCEPT ![c] = [call[c] EXCEPT !.pc = "rate", !.key = k]]
    BY <1>1 DEF TypeOK, Becomes
<1>4. /\ call'[c].pc = "rate" /\ call'[c].key = k /\ call'[c].wanted = None
      /\ \A d \in Caller \ {c} : call'[d] = call[d]
    BY <1>2, <1>3 DEF TypeOK, Calls
<1>5. /\ ~TakesTurn(c, k) /\ TakesTurn(c, k)'
      /\ \A d \in Caller, j \in Ring(f) : d # c \/ j # k => (TakesTurn(d, j)' <=> TakesTurn(d, j))
    BY <1>2, <1>4 DEF TakesTurn
<1>6. InTurn(k)' = InTurn(k) \cup {c} /\ c \notin InTurn(k)
    BY <1>2, <1>5 DEF InTurn
<1>7. ASSUME NEW j \in Ring(f), j # k PROVE InTurn(j)' = InTurn(j)
    BY <1>5, <1>7 DEF InTurn
<1>8. /\ IsFiniteSet(InTurn(k)) /\ Cardinality(InTurn(k)) \in Nat /\ IsFiniteSet(InTurn(k)')
      /\ Cardinality(InTurn(k)') = Cardinality(InTurn(k)) + 1
  <2>1. IsFiniteSet(InTurn(k))
    BY <1>2 DEF InRounds
  <2> QED
    BY <1>6, <2>1, FS_AddElement, FS_CardinalityType
<1>9. Ring(f)' = Ring(f)
    BY DEF Ring
<1>10. \A j \in Ring(f) : IsFiniteSet(InTurn(j)')
    BY <1>7, <1>8 DEF InRounds
<1>11. PICK q \in Nat, r \in 0..(Cardinality(Ring(f)) - 1) : TurnsAfter(f, q, r)
    BY DEF InRounds
<1> DEFINE n == Cardinality(Ring(f))
           pos(j) == Position(j, Ring(f))
<1>12. n \in Nat \ {0} /\ r \in 0..(n - 1)
    BY <1>2, <1>11, Positions
<1>13. pos(k) = r
  <2>1. next = q * n + r
    BY <1>11 DEF TurnsAfter
  <2>2. pos(k) = next % n
    BY <1>1, <1>2 DEF Index
  <2> HIDE DEF n, pos
  <2> QED
    BY <1>12, <2>1, <2>2, Remainder
<1>14. \A j \in Ring(f) : pos(j) \in 0..(n - 1) /\ (pos(j) = r => j = k)
    BY <1>2, <1>13, Positions
<1>15. turns[<<k, f>>] \in Nat
    BY <1>2 DEF TypeOK, Ring
<1>16. \A j \in Ring(f) :
        turns'[<<j, f>>] + Cardinality(InTurn(j)') = IF pos(j) <= r THEN q + 1 ELSE q
  <2>1. \A j \in Ring(f) :
            turns[<<j, f>>] + Cardinality(InTurn(j)) = IF pos(j) < r THEN q + 1 ELSE q
    BY <1>11 DEF TurnsAfter
  <2> HIDE DEF n, pos
  <2>2. turns'[<<k, f>>] + Cardinality(InTurn(k)') = q + 1
    BY <1>2, <1>8, <1>12, <1>13, <1>15, <2>1
  <2>3. ASSUME NEW j \in Ring(f), j # k
        PROVE  turns'[<<j, f>>] + Cardinality(InTurn(j)') = IF pos(j) <= r THEN q + 1 ELSE q
    <3>1. turns'[<<j, f>>] + Cardinality(InTurn(j)') = IF pos(j) < r THEN q + 1 ELSE q
      BY <1>2, <1>7, <2>1, <2>3
    <3>2. pos(j) \in Int /\ pos(j) # r /\ r \in Int
      BY <1>12, <1>14, <2>3
    <3> QED
      BY <3>1, <3>2
  <2> QED
    BY <1>12, <1>13, <2>2, <2>3
<1>17. q * n + (r + 1) = next' /\ (r + 1 = n => (q + 1) * n + 0 = next')
  <2>1. next = q * n + r
    BY <1>11 DEF TurnsAfter
  <2> HIDE DEF n
  <2> QED
    BY <1>2, <1>12, <2>1
<1> HIDE DEF n, pos
<1>18. CASE r + 1 < n
  <2>1. r + 1 \in 0..(n - 1)
    BY <1>12, <1>18
  <2>2. \A j \in Ring(f) : turns'[<<j, f>>] + Cardinality(InTurn(j)')
                            = IF pos(j) < r + 1 THEN q + 1 ELSE q
    BY <1>12, <1>14, <1>16
  <2>3. TurnsAfter(f, q, r + 1)'
    BY <1>9, <1>17, <2>2 DEF TurnsAfter, n, pos, Position
  <2> QED
    BY <1>9, <1>10, <2>1, <2>3 DEF InRounds, n
<1>19. CASE r + 1 = n
  <2>1. 0 \in 0..(n - 1) /\ q + 1 \in Nat
    BY <1>12
  <2>2. \A j \in Ring(f) : turns'[<<j, f>>] + Cardinality(InTurn(j)')
                            = IF pos(j) < 0 THEN q + 1 + 1 ELSE q + 1
    BY <1>12, <1>14, <1>16, <1>19
  <2>3. TurnsAfter(f, q + 1, 0)'
    BY <1>9, <1>17, <1>19, <2>2 DEF TurnsAfter, n, pos, Position
  <2> QED
    BY <1>9, <1>10, <2>1, <2>3 DEF InRounds, n
<1> QED
    BY <1>12, <1>18, <1>19

(* A serve turns a turn taken into one had.                                *)
LEMMA GrantTurns ==
    ASSUME NEW f, Rotating(f), TypeOK, Underway, CandidatesUnbenched, NEW c \in Caller,
           call[c].pc = "usage", Grant(c), next' = next,
           Others(c), call'[c].pc \notin {"rate", "usage"}, InRounds(f)
    PROVE  InRounds(f)'
<1> DEFINE p == <<call[c].key, call[c].feature>>
<1>1. call[c].key \in Key /\ p \in Offers /\ call[c].key \in call[c].available
    BY TriedPair
<1>2. call[c].feature = f
    BY <1>1 DEF Rotating
<1>3. PICK k \in Ring(f) : k = call[c].key
    BY <1>1, <1>2 DEF CandidatesUnbenched, ReadLocked, Ring
<1>4. CASE call[c].wanted # None
  <2>1. turns' = turns
    BY <1>4 DEF Grant
  <2>2. \A d \in Caller, j \in Ring(f) : TakesTurn(d, j)' <=> TakesTurn(d, j)
    BY <1>4 DEF TakesTurn, Others
  <2> QED
    BY <2>1, <2>2, TurnsStay
<1>5. CASE call[c].wanted = None
  <2>1. turns' = [turns EXCEPT ![<<k, f>>] = @ + 1] /\ turns \in [Offers -> Nat]
        /\ <<k, f>> \in Offers
    BY <1>2, <1>3, <1>5 DEF Grant, TypeOK, Ring
  <2>2. /\ turns'[<<k, f>>] = turns[<<k, f>>] + 1 /\ turns[<<k, f>>] \in Nat
        /\ \A j \in Ring(f) \ {k} : turns'[<<j, f>>] = turns[<<j, f>>]
    <3>1. \A j \in Ring(f) : <<j, f>> \in Offers
      BY DEF Ring
    <3> QED
      BY <2>1, <3>1
  <2>3. /\ TakesTurn(c, k) /\ ~TakesTurn(c, k)'
        /\ \A d \in Caller, j \in Ring(f) : d # c \/ j # k => (TakesTurn(d, j)' <=> TakesTurn(d, j))
    BY <1>3, <1>5 DEF TakesTurn, Others
  <2>4. InTurn(k)' = InTurn(k) \ {c} /\ c \in InTurn(k)
    BY <2>3 DEF InTurn
  <2>5. ASSUME NEW j \in Ring(f), j # k PROVE InTurn(j)' = InTurn(j)
    BY <2>3, <2>5 DEF InTurn
  <2>6. /\ IsFiniteSet(InTurn(k)) /\ Cardinality(InTurn(k)) \in Nat /\ IsFiniteSet(InTurn(k)')
        /\ Cardinality(InTurn(k)') = Cardinality(InTurn(k)) - 1
    <3>1. IsFiniteSet(InTurn(k))
      BY DEF InRounds
    <3> QED
      BY <2>4, <3>1, FS_RemoveElement, FS_CardinalityType
  <2>7. PICK q \in Nat, r \in 0..(Cardinality(Ring(f)) - 1) : TurnsAfter(f, q, r)
    BY DEF InRounds
  <2>8. Ring(f)' = Ring(f)
    BY DEF Ring
  <2>9. \A j \in Ring(f) : turns'[<<j, f>>] + Cardinality(InTurn(j)')
                            = turns[<<j, f>>] + Cardinality(InTurn(j))
    BY <2>2, <2>5, <2>6
  <2>10. TurnsAfter(f, q, r)'
    BY <2>7, <2>8, <2>9 DEF TurnsAfter, Position
  <2>11. \A j \in Ring(f) : IsFiniteSet(InTurn(j)')
    BY <2>5, <2>6 DEF InRounds
  <2> QED
    BY <2>7, <2>8, <2>10, <2>11 DEF InRounds
<1> QED
    BY <1>4, <1>5

(* A step that no draw picks nor is served in.                             *)
LEMMA QuietTurns ==
    ASSUME NEW f, next' = next, turns' = turns, GoesRound(f), Unhindered,
           \A d \in Caller : call'[d] # call[d] =>
                /\ call'[d].pc = "pick" => call'[d].wanted = None
                                          /\ call'[d].available \in {Ring(f), {}}
                /\ \A k \in Ring(f) : TakesTurn(d, k)' <=> TakesTurn(d, k)
    PROVE  GoesRound(f)'
<1>1. PicksFrom(f)'
  <2> SUFFICES ASSUME NEW d \in Caller, call'[d].pc = "pick"
               PROVE  call'[d].wanted = None /\ call'[d].available \in {Ring(f), {}}
    BY DEF PicksFrom, Ring
  <2>1. CASE call'[d] = call[d]
    BY <2>1 DEF GoesRound, PicksFrom
  <2>2. CASE call'[d] # call[d]
    BY <2>2
  <2> QED
    BY <2>1, <2>2
<1>2. \A d \in Caller, k \in Ring(f) : TakesTurn(d, k)' <=> TakesTurn(d, k)
    BY DEF TakesTurn
<1>3. InRounds(f) => InRounds(f)'
    BY <1>2, TurnsStay
<1>4. Ring(f)' = Ring(f)
    BY DEF Ring
<1> QED
    BY <1>1, <1>3, <1>4 DEF GoesRound

LEMMA RotationInit == ASSUME NEW f PROVE Init => GoesRound(f)
<1> SUFFICES ASSUME Init, Ring(f) # {} PROVE InRounds(f) /\ PicksFrom(f)
    BY DEF GoesRound, PicksFrom, Init, Idle
<1>1. \A c \in Caller : call[c].pc = "idle"
    BY DEF Init, Idle
<1>2. \A k : InTurn(k) = {}
    BY <1>1 DEF InTurn, TakesTurn
<1>3. /\ Cardinality(Ring(f)) \in Nat /\ Cardinality(Ring(f)) > 0
      /\ \A k \in Ring(f) : Position(k, Ring(f)) \in 0..(Cardinality(Ring(f)) - 1)
    BY Positions
<1>4. ASSUME NEW k \in Ring(f)
      PROVE  turns[<<k, f>>] + Cardinality(InTurn(k))
                = IF Position(k, Ring(f)) < 0 THEN 0 + 1 ELSE 0
  <2>1. turns[<<k, f>>] = 0
    BY DEF Init, Ring
  <2>2. Cardinality(InTurn(k)) = 0
    BY <1>2, FS_EmptySet
  <2> QED
    BY <1>3, <2>1, <2>2
<1>5. next = 0 * Cardinality(Ring(f)) + 0
    BY <1>3 DEF Init
<1>6. TurnsAfter(f, 0, 0)
    BY <1>4, <1>5 DEF TurnsAfter
<1>7. \A k \in Ring(f) : IsFiniteSet(InTurn(k))
    BY <1>2, FS_EmptySet
<1>8. 0 \in 0..(Cardinality(Ring(f)) - 1)
    BY <1>3
<1> QED
    BY <1>1, <1>6, <1>7, <1>8 DEF InRounds, PicksFrom

LEMMA RotationStep ==
    ASSUME NEW f, Rotating(f)
    PROVE  TypeOK /\ Underway /\ CandidatesUnbenched /\ GoesRound(f) /\ [Next]_vars
            => GoesRound(f)'
<1> SUFFICES ASSUME TypeOK, Underway, CandidatesUnbenched, GoesRound(f), [Next]_vars,
                    Unhindered'
             PROVE  GoesRound(f)'
    BY DEF GoesRound
<1>1. Unhindered
    BY StaysHindered
<1>2. PicksFrom(f) /\ (Ring(f) # {} => InRounds(f)) /\ Ring(f)' = Ring(f)
    BY <1>1 DEF GoesRound, Ring
<1> USE DEF history
<1>3. ASSUME NEW c \in Caller, NEW g \in Feature, NEW scope \in Scopes,
             GetKeyForFeature(c, g, scope)
      PROVE  GoesRound(f)'
  <2>1. /\ \A d \in Caller \ {c} : call'[d] = call[d]
        /\ call'[c].pc = "pick" /\ call'[c].wanted = None
        /\ call'[c].available = {k \in Pool : Offered(k, g, scope) /\ Available(k)}
    BY <1>3, GetKeyForFeatureDraw
  <2>2. \A k \in Pool : Available(k)
    BY <1>1 DEF Rotating, Unhindered, Available, PastExpiry, Before
  <2>3. \A k \in Pool : Offered(k, g, scope) <=> <<k, g>> \in Offers
    BY DEF Offered, HasFeature, Rotating
  <2>4. call'[c].available = Ring(g)
    BY <2>1, <2>2, <2>3 DEF Ring
  <2>5. Ring(g) \in {Ring(f), {}}
    BY DEF Ring, Rotating
  <2>6. call[c].pc = "idle" /\ next' = next /\ turns' = turns
    BY <1>3 DEF GetKeyForFeature, Begin
  <2> QED
    BY <1>1, <2>1, <2>4, <2>5, <2>6, QuietTurns DEF TakesTurn
<1>4. ASSUME NEW c \in Caller, NEW k \in Key, NEW g \in Feature, NEW scope \in Scopes,
             KeyByID(c, k, g, scope)
      PROVE  GoesRound(f)'
  <2>1. /\ \A d \in Caller \ {c} : call'[d] = call[d]
        /\ \/ call'[c].pc = "done"
           \/ call'[c].pc = "rate" /\ call'[c].wanted = k
    BY <1>4, KeyByIDDraw DEF Others
  <2>2. call[c].pc = "idle" /\ next' = next /\ turns' = turns /\ k # None
    BY <1>4, NoneAssumption DEF KeyByID, Begin
  <2> QED
    BY <1>1, <2>1, <2>2, QuietTurns DEF TakesTurn
<1>5. ASSUME NEW c \in Caller, Pick(c) PROVE GoesRound(f)'
  <2>1. \E k \in Ring(f) : TRUE
    BY <1>2, <1>5 DEF Pick, Drawing, PicksFrom
  <2>2. InRounds(f)'
    BY <1>2, <1>5, <2>1, PickTurns
  <2>3. Moves(c, "rate")
    BY <1>5, PickDraw
  <2>4. PicksFrom(f)'
    BY <1>2, <2>3 DEF PicksFrom, Moves, Others
  <2> QED
    BY <2>2, <2>4 DEF GoesRound
<1>6. ASSUME NEW c \in Caller, GiveUp(c) \/ PersistUsage(c) \/ Return(c) PROVE GoesRound(f)'
  <2>1. Others(c) /\ call'[c].pc \in {"done", "idle"}
    BY <1>6, LastDraw
  <2>2. /\ call[c].pc \in {"pick", "persist", "done"} /\ next' = next /\ turns' = turns
    BY <1>6 DEF GiveUp, PersistUsage, Return, Drawing
  <2> QED
    BY <1>1, <2>1, <2>2, QuietTurns DEF TakesTurn, Others
<1>7. ASSUME NEW c \in Caller, Skip(c) PROVE FALSE
    BY <1>7 DEF Skip, Unhindered
<1>8. ASSUME NEW c \in Caller, TryRate(c) PROVE GoesRound(f)'
  <2>1. Moves(c, "usage") /\ SameTrial(c) /\ turns' = turns
    BY <1>7, <1>8, RateGate
  <2>2. call[c].pc = "rate" /\ next' = next
    BY <1>8 DEF TryRate, Drawing
  <2> QED
    BY <1>1, <2>1, <2>2, QuietTurns DEF TakesTurn, Moves, Others, SameTrial, SameRequest
<1>9. ASSUME NEW c \in Caller, ServeUnlimited(c) \/ TryConsumeUsage(c) PROVE GoesRound(f)'
  <2>1. call[c].pc = "usage" /\ next' = next
    BY <1>9 DEF ServeUnlimited, TryConsumeUsage, Drawing
  <2>2. Grant(c) /\ Others(c) /\ call'[c].pc \in {"done", "idle", "persist"}
    <3>1. CASE ServeUnlimited(c)
      BY <3>1, LastDraw DEF ServeUnlimited
    <3>2. CASE TryConsumeUsage(c)
      BY <1>7, <3>2, UsageGate DEF Moves
    <3> QED
      BY <1>9, <3>1, <3>2
  <2>3. InRounds(f) => InRounds(f)'
    BY <2>1, <2>2, GrantTurns
  <2>4. PicksFrom(f)'
    BY <1>2, <2>2 DEF PicksFrom, Others
  <2> QED
    BY <1>2, <2>3, <2>4 DEF GoesRound
<1>10. ASSUME NEW k \in Key, NEW until \in Untils,
              MarkExhausted(k, until) \/ BudgetSpent(k, until)
       PROVE  GoesRound(f)'
  <2>1. call' = call /\ next' = next /\ turns' = turns
    BY <1>10 DEF MarkExhausted, BudgetSpent
  <2> QED
    BY <1>1, <2>1, QuietTurns
<1>11. ASSUME Tick \/ UNCHANGED vars PROVE GoesRound(f)'
  <2>1. call' = call /\ next' = next /\ turns' = turns
    BY <1>11 DEF Tick, vars
  <2> QED
    BY <1>1, <2>1, QuietTurns
<1> QED
    BY <1>3, <1>4, <1>5, <1>6, <1>8, <1>9, <1>10, <1>11 DEF Next, Draw, Step

(* For any number of keys, callers and concurrent draws of one feature: as *)
(* long as nothing is benched and no gate has closed, no key has had more  *)
(* than one turn over another whenever the draws are done (Manager.next).  *)
THEOREM RotationIsEven ==
    ASSUME NEW f, Rotating(f)
    PROVE  Spec => []RotatesEvenly
<1>1. TypeOK /\ GoesRound(f) => RotatesEvenly
  <2> SUFFICES ASSUME TypeOK, GoesRound(f), Unhindered, \A c \in Caller : call[c].pc = "idle",
                      NEW x \in Offers, NEW y \in Offers, x[1] \in Pool, y[1] \in Pool
               PROVE  turns[x] <= turns[y] + 1
    BY DEF RotatesEvenly, Unhindered
  <2>1. PICK j \in Ring(f), k \in Ring(f) : x = <<j, f>> /\ y = <<k, f>>
    BY OffersAssumption DEF Ring, Rotating
  <2>2. PICK q \in Nat, r \in 0..(Cardinality(Ring(f)) - 1) : TurnsAfter(f, q, r)
    BY <2>1 DEF GoesRound, InRounds
  <2>3. InTurn(j) = {} /\ InTurn(k) = {}
    BY DEF InTurn, TakesTurn
  <2>4. Cardinality(InTurn(j)) = 0 /\ Cardinality(InTurn(k)) = 0
    BY <2>3, FS_EmptySet
  <2>5. turns[x] \in Nat /\ turns[y] \in Nat
    BY DEF TypeOK
  <2>6. turns[x] \in {q, q + 1} /\ turns[y] \in {q, q + 1}
    BY <2>1, <2>2, <2>4, <2>5 DEF TurnsAfter
  <2> QED
    BY <2>6
<1>2. IInv => TypeOK /\ Underway /\ CandidatesUnbenched
    BY DEF IInv
<1> QED
    BY <1>1, <1>2, RotationInit, RotationStep, Invariant, PTL DEF Spec

-----------------------------------------------------------------------------
(* How long a draw takes.  The code loops until it has an answer; what     *)
(* gets smaller is the list of candidates, and with it the number of steps *)
(* that are left at most: a pick and two gates for each, and a last one.   *)
StepsLeft(d) ==
    LET n == Cardinality(d.available)
    IN  IF d.pc = "pick" THEN 3 * n + 1
        ELSE IF d.pc = "rate" THEN 3 * n
        ELSE IF d.pc = "usage" THEN 3 * n - 1
        ELSE IF d.pc = "persist" THEN 1 ELSE 0

(* Every step a draw takes brings it nearer to its answer, and nobody      *)
(* else's step moves it.                                                   *)
Nearer(c) == StepsLeft(call'[c]) < StepsLeft(call[c]) /\ call'[c].pc # "idle"

GetsNearer ==
    \A c \in Caller : ReadLocked(c) =>
        IF Step(c) THEN Nearer(c) ELSE call'[c] = call[c]

(* A draw has a step to take: a pick finds the key of its index, whatever  *)
(* the counter the draws share has come to, and a gate has a pair to count.*)
FindsItsKey(c) ==
    \E k \in call[c].available :
        Position(k, call[c].available) = Index(call[c].available)

NoDrawIsStuck ==
    \A c \in Caller : ReadLocked(c) =>
        /\ StepsLeft(call[c]) \in 1..(3 * Cardinality(Pool) + 1)
        /\ call[c].pc = "pick" => call[c].available = {} \/ FindsItsKey(c)
        /\ call[c].pc # "pick" => <<call[c].key, call[c].feature>> \in Offers

(* As many keys as positions: every position is some key's.                *)
LEMMA PositionsAreTaken ==
    ASSUME NEW R \in SUBSET Pool, R # {}, NEW i \in 0..(Cardinality(R) - 1)
    PROVE  \E k \in R : Position(k, R) = i
<1> DEFINE n == Cardinality(R)
           f == [k \in R |-> Position(k, R)]
<1>1. IsFiniteSet(R) /\ n \in Nat /\ n > 0
    BY PoolAssumption, FS_Subset, PositionsIn
<1>2. f \in Injection(R, 0..(n - 1))
    BY PositionsIn DEF Injection, IsInjective
<1>3. IsFiniteSet(0..(n - 1)) /\ Cardinality(0..(n - 1)) = n
  <2> HIDE DEF n
  <2> QED
    BY <1>1, FS_Interval
<1> HIDE DEF f
<1>4. f \in Surjection(R, 0..(n - 1))
    BY <1>2, <1>3, FS_Injection DEF n
<1>5. PICK k \in R : f[k] = i
    BY <1>4 DEF Surjection
<1> QED
    BY <1>5 DEF f

(* The candidates of a draw are keys of the pool, so there are finitely    *)
(* many.                                                                   *)
LEMMA CandidatesAreFew ==
    ASSUME CandidatesUnbenched, NEW c \in Caller, ReadLocked(c)
    PROVE  /\ call[c].available \in SUBSET Pool /\ IsFiniteSet(call[c].available)
           /\ Cardinality(call[c].available) \in 0..Cardinality(Pool)
           /\ Cardinality(Pool) \in Nat
           /\ \A k \in call[c].available :
                Cardinality(call[c].available \ {k}) = Cardinality(call[c].available) - 1
                /\ Cardinality(call[c].available) > 0
<1>1. call[c].available \in SUBSET Pool
    BY DEF CandidatesUnbenched
<1>2. Cardinality(Pool) \in Nat
    BY PoolAssumption, FS_CardinalityType
<1> DEFINE R == call[c].available
<1> HIDE DEF R
<1>3. ASSUME R \in SUBSET Pool
      PROVE  /\ IsFiniteSet(R) /\ Cardinality(R) \in 0..Cardinality(Pool)
             /\ \A k \in R : Cardinality(R \ {k}) = Cardinality(R) - 1 /\ Cardinality(R) > 0
  <2>1. IsFiniteSet(R) /\ Cardinality(R) <= Cardinality(Pool)
    BY <1>3, PoolAssumption, FS_Subset
  <2>2. Cardinality(R) \in Nat /\ (R # {} => Cardinality(R) > 0)
    BY <1>3, PositionsIn
  <2>3. \A k \in R : Cardinality(R \ {k}) = Cardinality(R) - 1
    BY <2>1, FS_RemoveElement
  <2> QED
    BY <1>2, <2>1, <2>2, <2>3
<1> QED
    BY <1>1, <1>2, <1>3 DEF R

LEMMA StepsAreBounded == IInv => NoDrawIsStuck
<1> SUFFICES ASSUME IInv, NEW c \in Caller, ReadLocked(c)
             PROVE  /\ StepsLeft(call[c]) \in 1..(3 * Cardinality(Pool) + 1)
                    /\ call[c].pc = "pick" => call[c].available = {} \/ FindsItsKey(c)
                    /\ call[c].pc # "pick" => <<call[c].key, call[c].feature>> \in Offers
    BY DEF NoDrawIsStuck
<1> DEFINE R == call[c].available
           n == Cardinality(R)
<1>1. R \in SUBSET Pool /\ n \in 0..Cardinality(Pool) /\ Cardinality(Pool) \in Nat
    BY CandidatesAreFew DEF IInv
<1>2. ASSUME call[c].pc # "pick"
      PROVE  n > 0 /\ <<call[c].key, call[c].feature>> \in Offers
  <2>1. call[c].pc \in {"rate", "usage", "persist"}
    BY <1>2 DEF ReadLocked
  <2>2. call[c].key \in R /\ <<call[c].key, call[c].feature>> \in Offers
    BY <2>1, TriedPair DEF IInv
  <2> QED
    BY <2>2, CandidatesAreFew DEF IInv
<1>3. StepsLeft(call[c]) \in 1..(3 * Cardinality(Pool) + 1)
  <2> HIDE DEF n
  <2> QED
    BY <1>1, <1>2 DEF StepsLeft, ReadLocked, n
<1>4. ASSUME R # {} PROVE FindsItsKey(c)
  <2>1. n > 0 /\ next \in Nat
    BY <1>1, <1>4, PositionsIn DEF IInv, TypeOK
  <2>2. next % n \in 0..(n - 1)
    <3> HIDE DEF n
    <3> QED
      BY <1>1, <2>1
  <2>3. \E k \in R : Position(k, R) = next % n
    BY <1>1, <1>4, <2>2, PositionsAreTaken
  <2> QED
    BY <2>3 DEF FindsItsKey, Index
<1> QED
    BY <1>2, <1>3, <1>4

(* One step of a draw: a candidate less to pick from, or a gate further on.*)
LEMMA StepsGetNearer ==
    ASSUME IInv, NEW c \in Caller, ReadLocked(c), Step(c)
    PROVE  Nearer(c) /\ \A d \in Caller \ {c} : call'[d] = call[d]
<1> DEFINE n == Cardinality(call[c].available)
<1> USE DEF IInv
<1>1. /\ n \in Nat
      /\ \A k \in call[c].available : Cardinality(call[c].available \ {k}) = n - 1 /\ n > 0
    BY CandidatesAreFew
<1>2. call[c].pc \in {"rate", "usage", "persist"} => call[c].key \in call[c].available
    BY TriedPair
<1>3. ASSUME Skip(c), call[c].pc \in {"rate", "usage"}
      PROVE  Nearer(c) /\ Others(c)
  <2>1. call'[c].pc = "pick" /\ Others(c)
    BY <1>3, SkipDraw DEF Moves
  <2>2. Cardinality(call'[c].available) = n - 1 /\ n > 0
    BY <1>1, <1>2, <1>3, SkipDraw
  <2> HIDE DEF n
  <2> QED
    BY <1>1, <1>3, <2>1, <2>2 DEF Nearer, StepsLeft, n
<1>4. ASSUME Moves(c, "usage") /\ SameTrial(c), call[c].pc = "rate"
      PROVE  Nearer(c) /\ Others(c)
  <2>1. call'[c].pc = "usage" /\ Others(c) /\ Cardinality(call'[c].available) = n /\ n > 0
    BY <1>1, <1>2, <1>4 DEF Moves, SameTrial
  <2> HIDE DEF n
  <2> QED
    BY <1>1, <1>4, <2>1 DEF Nearer, StepsLeft, n
<1>5. ASSUME Moves(c, "persist"), call[c].pc = "usage"
      PROVE  Nearer(c) /\ Others(c)
  <2>1. call'[c].pc = "persist" /\ Others(c) /\ n > 0
    BY <1>1, <1>2, <1>5 DEF Moves
  <2> HIDE DEF n
  <2> QED
    BY <1>1, <1>5, <2>1 DEF Nearer, StepsLeft, n
<1>6. ASSUME GiveUp(c) \/ ServeUnlimited(c) \/ PersistUsage(c)
      PROVE  Nearer(c) /\ Others(c)
  <2>1. Others(c) /\ call'[c].pc = "done"
    <3>1. PICK o : Becomes(c, [call[c] EXCEPT !.pc = "done", !.outcome = o])
      BY <1>6 DEF GiveUp, ServeUnlimited, PersistUsage
    <3>2. call[c] \in Calls /\ call \in [Caller -> Calls]
      BY DEF TypeOK
    <3>3. [call[c] EXCEPT !.pc = "done", !.outcome = o].pc = "done"
      BY <3>2 DEF Calls
    <3>4. call'[c].pc = "done"
      BY <3>1, <3>2, <3>3 DEF Becomes
    <3> QED
      BY <1>6, <3>4, LastDraw
  <2>2. call[c].pc = "pick" \/ (call[c].pc \in {"usage", "persist"} /\ n > 0)
    BY <1>1, <1>2, <1>6 DEF GiveUp, ServeUnlimited, PersistUsage, Drawing
  <2> HIDE DEF n
  <2> QED
    BY <1>1, <2>1, <2>2 DEF Nearer, StepsLeft, n
<1>7. ASSUME Pick(c) PROVE Nearer(c) /\ Others(c)
  <2>1. /\ call[c].pc = "pick" /\ call'[c].pc = "rate" /\ Others(c)
        /\ Cardinality(call'[c].available) = n
    BY <1>7, PickDraw DEF Pick, Drawing, Moves
  <2> HIDE DEF n
  <2> QED
    BY <1>1, <2>1 DEF Nearer, StepsLeft, n
<1>8. ~Return(c)
    BY DEF Return, Drawing, ReadLocked
<1>9. CASE TryRate(c)
  <2>1. call[c].pc = "rate"
    BY <1>9 DEF TryRate, Drawing
  <2> QED
    BY <1>3, <1>4, <1>9, <2>1, RateGate DEF Others
<1>10. CASE TryConsumeUsage(c)
  <2>1. call[c].pc = "usage"
    BY <1>10 DEF TryConsumeUsage, Drawing
  <2> QED
    BY <1>3, <1>5, <1>10, <2>1, UsageGate DEF Others
<1> QED
    BY <1>6, <1>7, <1>8, <1>9, <1>10 DEF Step, Others

LEMMA DrawsGetNearer == IInv /\ [Next]_vars => GetsNearer \/ UNCHANGED vars
<1> SUFFICES ASSUME IInv, Next, NEW c \in Caller, ReadLocked(c), ~Step(c)
             PROVE  call'[c] = call[c]
    BY StepsGetNearer DEF GetsNearer
<1>1. ASSUME NEW d \in Caller, Step(d) PROVE call'[c] = call[c]
  <2>1. d # c
    BY <1>1
  <2>2. CASE ReadLocked(d)
    BY <1>1, <2>1, <2>2, StepsGetNearer
  <2>3. CASE ~ReadLocked(d)
    <3>1. Return(d)
      BY <1>1, <2>3 DEF Step, Pick, GiveUp, TryRate, ServeUnlimited, TryConsumeUsage,
                        PersistUsage, Drawing, ReadLocked
    <3> QED
      BY <2>1, <3>1, LastDraw DEF Others, IInv
  <2> QED
    BY <2>2, <2>3
<1>2. ASSUME NEW d \in Caller, Draw(d) PROVE call'[c] = call[c]
  <2>1. call[d].pc = "idle"
    BY <1>2 DEF Draw, GetKeyForFeature, KeyByID, Begin
  <2>2. \E e : Becomes(d, e)
    <3>1. CASE \E f \in Feature, scope \in Scopes : GetKeyForFeature(d, f, scope)
      BY <3>1 DEF GetKeyForFeature
    <3>2. CASE \E k \in Key, f \in Feature, scope \in Scopes : KeyByID(d, k, f, scope)
      BY <3>2 DEF KeyByID
    <3> QED
      BY <1>2, <3>1, <3>2 DEF Draw
  <2> QED
    BY <2>1, <2>2 DEF Becomes, ReadLocked, IInv, TypeOK
<1>3. ASSUME NEW k \in Key, NEW until \in Untils,
             MarkExhausted(k, until) \/ BudgetSpent(k, until) \/ Tick
      PROVE  call'[c] = call[c]
    BY <1>3 DEF MarkExhausted, BudgetSpent, Tick
<1>4. ASSUME Tick PROVE call'[c] = call[c]
    BY <1>4 DEF Tick
<1> QED
    BY <1>1, <1>2, <1>3, <1>4 DEF Next

(* Whatever the draws next to it take from the gates they share, a running *)
(* draw comes nearer to its answer with each of its own steps and is moved *)
(* by no other: the loop of GetKeyForFeature never starts over.            *)
THEOREM DrawsShorten == Spec => [][GetsNearer]_vars
<1>1. IInv /\ [Next]_vars => [GetsNearer]_vars
    BY DrawsGetNearer
<1> QED
    BY <1>1, Invariant, PTL DEF Spec

(* A running draw has at most three steps for each key of the pool and one *)
(* more to go, and is never without one to take: wherever the counter that *)
(* all draws advance stands, it is the index of one of the candidates left *)
(* (GetKeyForFeature's idx over the shrinking slice).                      *)
THEOREM DrawsAreNeverStuck == Spec => []NoDrawIsStuck
    BY StepsAreBounded, Invariant, PTL
=============================================================================
