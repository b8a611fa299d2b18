-------------------------- MODULE ServePathProofs --------------------------
(***************************************************************************)
(* Theorems about ServePath, for any keys, callers, limits, windows, lost  *)
(* replies and numbers of calls, faults and boots.                         *)
(***************************************************************************)
EXTENDS ServePath, Sums, TLAPS

(* A draw tries keys that offer its feature; one that the gate of a        *)
(* lifetime limit let through opened no window.                            *)
Knows(d) ==
    /\ \A k \in d.available : <<k, d.feature>> \in Offers
    /\ d.pc \in {"rate", "usage"} => d.key \in d.available
    /\ d.pc = "persist" =>
        d.key \in Limited /\ (UsageWindow[d.key] = 0 => d.opened = None)

DrawsKnow == \A c \in Caller : Knows(call[c])

-----------------------------------------------------------------------------
(* The draws.                                                              *)
LEMMA ConstantTypes ==
    /\ 0..Horizon = Pool!Instant /\ None \notin Pool!Instant /\ Pool!Instant \subseteq Nat
    /\ \A k \in Limited : k \in Key /\ UsageLimit[k] \in Nat
BY NoneAssumption, BoundsAssumption, PoolAssumption DEF Pool!Instant, Limited

LEMMA OpenedType ==
    ASSUME Pool!TypeOK, NEW c \in Pool!Counter, NEW window
    PROVE  Pool!Opened(c, window) \in Pool!Counter
BY DEF Pool!TypeOK, Pool!Opened, Pool!Counter

LEMMA CountOneType ==
    ASSUME NEW c \in Pool!Counter
    PROVE  Pool!CountOne(c) \in Pool!Counter
BY DEF Pool!CountOne, Pool!Counter

(* A step of one draw leaves every other draw as it was.                   *)
LEMMA OnlyOneDraw ==
    ASSUME Pool!TypeOK, DrawsKnow, NEW c \in Caller, NEW d \in Pool!Calls, Knows(d),
           Pool!Becomes(c, d)
    PROVE  /\ call' \in [Caller -> Pool!Calls] /\ call'[c] = d
           /\ \A b \in Caller \ {c} : call'[b] = call[b]
           /\ DrawsKnow'
<1>1. call \in [Caller -> Pool!Calls]
    BY DEF Pool!TypeOK
<1>2. /\ call' \in [Caller -> Pool!Calls] /\ call'[c] = d
      /\ \A b \in Caller \ {c} : call'[b] = call[b]
    BY <1>1 DEF Pool!Becomes
<1>3. ASSUME NEW b \in Caller PROVE Knows(call'[b])
    BY <1>2 DEF DrawsKnow
<1> QED
    BY <1>2, <1>3 DEF DrawsKnow, Knows

LEMMA IdleType == Pool!Idle \in Pool!Calls /\ Knows(Pool!Idle) /\ Pool!Idle.pc = "idle"
BY DEF Pool!Idle, Pool!Calls, Pool!PC, Knows

(* A step that counts nothing: no draw begins or ends to have a serve in   *)
(* hand.                                                                   *)
SameHands ==
    \A c \in Caller : "persist" \in {call[c].pc, call'[c].pc} => call'[c] = call[c]

LEMMA HandsStay ==
    ASSUME NEW c \in Caller, \A b \in Caller \ {c} : call'[b] = call[b],
           call[c].pc # "persist", call'[c].pc # "persist"
    PROVE  SameHands
BY DEF SameHands

LEMMA PoolInit == Pool!Init => Pool!TypeOK /\ DrawsKnow
<1> SUFFICES ASSUME Pool!Init PROVE Pool!TypeOK /\ DrawsKnow
    OBVIOUS
<1>1. rate \in [Offers -> Pool!Counter] /\ gate \in [Key -> Pool!Counter]
    BY DEF Pool!Init, Pool!Counter
<1>2. clock \in Pool!Instant /\ draws \in 0..MaxDraws
    BY BoundsAssumption DEF Pool!Init, Pool!Instant
<1>3. call \in [Caller -> Pool!Calls] /\ DrawsKnow
    BY IdleType DEF Pool!Init, DrawsKnow
<1>4. /\ tokens \in [Offers -> [Pool!Instant -> Nat]] /\ uses \in [Key -> [Pool!Instant -> Nat]]
      /\ turns \in [Offers -> Nat] /\ refused \subseteq Key /\ next \in Nat
    BY DEF Pool!Init
<1>5. exhausted \in [Key -> Nat \cup {None}] /\ overBudget \in [Key -> Nat \cup {None}]
    BY DEF Pool!Init
<1> QED
    BY <1>1, <1>2, <1>3, <1>4, <1>5 DEF Pool!TypeOK

LEMMA DrawStarts ==
    ASSUME Pool!TypeOK, DrawsKnow, NEW c \in Caller, Pool!Draw(c)
    PROVE  /\ Pool!TypeOK' /\ DrawsKnow' /\ SameHands
           /\ gate' = gate /\ uses' = uses
<1>1. ASSUME NEW d \in Pool!Calls, Knows(d), d.pc # "persist", Pool!Becomes(c, d), Pool!Begin(c),
             UNCHANGED <<clock, next, Pool!gates, Pool!benches, Pool!history>>
      PROVE  /\ Pool!TypeOK' /\ DrawsKnow' /\ SameHands
             /\ gate' = gate /\ uses' = uses
  <2>1. /\ call' \in [Caller -> Pool!Calls] /\ call'[c] = d
        /\ \A b \in Caller \ {c} : call'[b] = call[b]
        /\ DrawsKnow'
    BY <1>1, OnlyOneDraw
  <2>2. SameHands
    BY <1>1, <2>1, HandsStay DEF Pool!Begin
  <2>3. draws' \in 0..MaxDraws
    BY <1>1, BoundsAssumption DEF Pool!Begin, Pool!TypeOK
  <2> QED
    BY <1>1, <2>1, <2>2, <2>3 DEF Pool!TypeOK, Pool!gates, Pool!benches, Pool!history
<1>2. ASSUME NEW f \in Feature, NEW scope \in Scopes, Pool!GetKeyForFeature(c, f, scope)
      PROVE  \E d \in Pool!Calls : Knows(d) /\ d.pc # "persist" /\ Pool!Becomes(c, d)
  <2> DEFINE s == {k \in Key : Pool!Offered(k, f, scope) /\ Pool!Available(k)}
             d == [Pool!Idle EXCEPT !.pc = "pick", !.feature = f, !.scope = scope,
                                    !.since = clock, !.available = s]
  <2>1. s \in SUBSET Key /\ \A k \in s : <<k, f>> \in Offers
    BY DEF Pool!Offered, Pool!HasFeature
  <2>2. Pool!Becomes(c, d)
    BY <1>2 DEF Pool!GetKeyForFeature
  <2> HIDE DEF s
  <2>3. d \in Pool!Calls /\ d.pc = "pick" /\ d.available = s /\ d.feature = f
    BY <2>1, PoolAssumption DEF Pool!Idle, Pool!TypeOK, Pool!Calls, Pool!PC
  <2> HIDE DEF d
  <2> QED
    BY <2>1, <2>2, <2>3 DEF Knows
<1>3. ASSUME NEW k \in Key, NEW f \in Feature, NEW scope \in Scopes,
             Pool!KeyByID(c, k, f, scope)
      PROVE  \E d \in Pool!Calls : Knows(d) /\ d.pc # "persist" /\ Pool!Becomes(c, d)
  <2> DEFINE draw == [Pool!Idle EXCEPT !.feature = f, !.scope = scope, !.since = clock,
                                       !.wanted = k, !.key = k]
             refusal(o) == [draw EXCEPT !.pc = "done", !.outcome = o]
             trial == [draw EXCEPT !.pc = "rate", !.available = {k}]
  <2>1. draw \in Pool!Calls
    BY PoolAssumption DEF Pool!Idle, Pool!TypeOK, Pool!Calls, Pool!PC
  <2>2. draw.feature = f /\ draw.key = k /\ draw.available = {}
    BY DEF Pool!Idle
  <2>3. \/ \E o \in Pool!Outcome : Pool!Becomes(c, refusal(o))
        \/ Pool!Becomes(c, trial) /\ Pool!Offered(k, f, scope)
    BY <1>3 DEF Pool!KeyByID, Pool!Outcome
  <2> HIDE DEF draw
  <2>4. \A o \in Pool!Outcome : /\ refusal(o) \in Pool!Calls /\ refusal(o).pc = "done"
                                /\ refusal(o).available = {}
    BY <2>1, <2>2 DEF Pool!Calls, Pool!PC
  <2>5. /\ trial \in Pool!Calls /\ trial.pc = "rate" /\ trial.feature = f
        /\ trial.key = k /\ trial.available = {k}
    BY <2>1, <2>2 DEF Pool!Calls, Pool!PC
  <2> HIDE DEF refusal, trial
  <2>6. CASE \E o \in Pool!Outcome : Pool!Becomes(c, refusal(o))
    BY <2>4, <2>6 DEF Knows
  <2>7. CASE Pool!Becomes(c, trial) /\ Pool!Offered(k, f, scope)
    <3>1. <<k, f>> \in Offers
      BY <2>7 DEF Pool!Offered, Pool!HasFeature
    <3> QED
      BY <2>5, <2>7, <3>1 DEF Knows
  <2> QED
    BY <2>3, <2>6, <2>7
<1>4. /\ \E d \in Pool!Calls : Knows(d) /\ d.pc # "persist" /\ Pool!Becomes(c, d)
      /\ Pool!Begin(c) /\ UNCHANGED <<clock, next, Pool!gates, Pool!benches, Pool!history>>
  <2>1. CASE \E f \in Feature, scope \in Scopes : Pool!GetKeyForFeature(c, f, scope)
    <3>1. PICK f \in Feature, scope \in Scopes : Pool!GetKeyForFeature(c, f, scope)
      BY <2>1
    <3>2. Pool!Begin(c) /\ UNCHANGED <<clock, next, Pool!gates, Pool!benches, Pool!history>>
      BY <3>1 DEF Pool!GetKeyForFeature
    <3> QED
      BY <1>2, <3>1, <3>2
  <2>2. CASE \E k \in Key, f \in Feature, scope \in Scopes : Pool!KeyByID(c, k, f, scope)
    <3>1. PICK k \in Key, f \in Feature, scope \in Scopes : Pool!KeyByID(c, k, f, scope)
      BY <2>2
    <3>2. Pool!Begin(c) /\ UNCHANGED <<clock, next, Pool!gates, Pool!benches, Pool!history>>
      BY <3>1 DEF Pool!KeyByID
    <3> QED
      BY <1>3, <3>1, <3>2
  <2>3. \/ \E f \in Feature, scope \in Scopes : Pool!GetKeyForFeature(c, f, scope)
        \/ \E k \in Key, f \in Feature, scope \in Scopes : Pool!KeyByID(c, k, f, scope)
    BY DEF Pool!Draw
  <2> QED
    BY <2>1, <2>2, <2>3, Zenon
<1> QED
    BY <1>1, <1>4

(* What a step of a draw leaves of its request.                            *)
LEMMA PickKnows ==
    ASSUME Pool!TypeOK, DrawsKnow, NEW c \in Caller, Pool!Pick(c)
    PROVE  \E d \in Pool!Calls : Knows(d) /\ d.pc = "rate" /\ Pool!Becomes(c, d)
<1> PICK k \in call[c].available : Pool!Becomes(c, [call[c] EXCEPT !.pc = "rate", !.key = k])
    BY DEF Pool!Pick
<1> DEFINE d == [call[c] EXCEPT !.pc = "rate", !.key = k]
<1>1. call[c] \in Pool!Calls /\ Knows(call[c])
    BY DEF Pool!TypeOK, DrawsKnow
<1>2. /\ d \in Pool!Calls /\ d.pc = "rate" /\ d.key = k
      /\ d.feature = call[c].feature /\ d.available = call[c].available
    BY <1>1 DEF Pool!Calls, Pool!PC
<1>3. Pool!Becomes(c, d)
    OBVIOUS
<1> HIDE DEF d
<1> QED
    BY <1>1, <1>2, <1>3 DEF Knows

LEMMA SkipKnows ==
    ASSUME Pool!TypeOK, DrawsKnow, NEW c \in Caller, Pool!Skip(c)
    PROVE  \E d \in Pool!Calls : Knows(d) /\ d.pc = "pick" /\ Pool!Becomes(c, d)
<1> DEFINE left == call[c].available \ {call[c].key}
           d == [call[c] EXCEPT !.pc = "pick", !.available = left]
<1>1. call[c] \in Pool!Calls /\ Knows(call[c])
    BY DEF Pool!TypeOK, DrawsKnow
<1>2. left \in SUBSET Key /\ left \subseteq call[c].available
    BY <1>1 DEF Pool!Calls
<1>3. Pool!Becomes(c, d)
    BY DEF Pool!Skip, Pool!Without
<1> HIDE DEF left
<1>4. /\ d \in Pool!Calls /\ d.pc = "pick"
      /\ d.feature = call[c].feature /\ d.available = left
    BY <1>1, <1>2 DEF Pool!Calls, Pool!PC
<1> HIDE DEF d
<1> QED
    BY <1>1, <1>2, <1>3, <1>4 DEF Knows

LEMMA RateKnows ==
    ASSUME Pool!TypeOK, DrawsKnow, NEW c \in Caller, call[c].pc = "rate",
           Pool!Becomes(c, [call[c] EXCEPT !.pc = "usage"])
    PROVE  \E d \in Pool!Calls : Knows(d) /\ d.pc = "usage" /\ Pool!Becomes(c, d)
<1> DEFINE d == [call[c] EXCEPT !.pc = "usage"]
<1>1. call[c] \in Pool!Calls /\ Knows(call[c])
    BY DEF Pool!TypeOK, DrawsKnow
<1>2. /\ d \in Pool!Calls /\ d.pc = "usage" /\ d.key = call[c].key
      /\ d.feature = call[c].feature /\ d.available = call[c].available
    BY <1>1 DEF Pool!Calls, Pool!PC
<1>3. Pool!Becomes(c, d)
    OBVIOUS
<1> HIDE DEF d
<1> QED
    BY <1>1, <1>2, <1>3 DEF Knows

LEMMA DoneKnows ==
    ASSUME Pool!TypeOK, DrawsKnow, NEW c \in Caller, NEW o \in Pool!Outcome,
           Pool!Becomes(c, [call[c] EXCEPT !.pc = "done", !.outcome = o])
    PROVE  \E d \in Pool!Calls : Knows(d) /\ d.pc = "done" /\ Pool!Becomes(c, d)
<1> DEFINE d == [call[c] EXCEPT !.pc = "done", !.outcome = o]
<1>1. call[c] \in Pool!Calls /\ Knows(call[c])
    BY DEF Pool!TypeOK, DrawsKnow
<1>2. /\ d \in Pool!Calls /\ d.pc = "done"
      /\ d.feature = call[c].feature /\ d.available = call[c].available
    BY <1>1 DEF Pool!Calls, Pool!PC
<1>3. Pool!Becomes(c, d)
    OBVIOUS
<1> HIDE DEF d
<1> QED
    BY <1>1, <1>2, <1>3 DEF Knows

(* What becomes of the rest once it is known what a draw becomes.          *)
LEMMA DrawMoves ==
    ASSUME Pool!TypeOK, DrawsKnow, NEW c \in Caller, NEW pc,
           \E d \in Pool!Calls : Knows(d) /\ d.pc = pc /\ Pool!Becomes(c, d)
    PROVE  /\ call' \in [Caller -> Pool!Calls] /\ DrawsKnow' /\ call'[c].pc = pc
           /\ "persist" \notin {call[c].pc, pc} => SameHands
BY OnlyOneDraw, HandsStay

LEMMA TriedPair ==
    ASSUME Pool!TypeOK, DrawsKnow, NEW c \in Caller, call[c].pc \in {"rate", "usage"}
    PROVE  call[c].key \in Key /\ <<call[c].key, call[c].feature>> \in Offers
BY DEF Pool!TypeOK, DrawsKnow, Knows, Pool!Calls

LEMMA SkipType ==
    ASSUME Pool!TypeOK, DrawsKnow, NEW c \in Caller, Pool!Skip(c),
           call[c].pc \in {"rate", "usage"}
    PROVE  /\ call' \in [Caller -> Pool!Calls] /\ DrawsKnow' /\ SameHands
           /\ refused' \subseteq Key /\ tokens' = tokens /\ uses' = uses /\ turns' = turns
<1>1. call' \in [Caller -> Pool!Calls] /\ DrawsKnow' /\ SameHands
    BY SkipKnows, DrawMoves
<1>2. call[c].key \in Key
    BY TriedPair
<1> QED
    BY <1>1, <1>2 DEF Pool!Skip, Pool!TypeOK

LEMMA GrantType ==
    ASSUME Pool!TypeOK, DrawsKnow, NEW c \in Caller, Pool!Grant(c), call[c].pc = "usage"
    PROVE  /\ uses' \in [Key -> [Pool!Instant -> Nat]] /\ turns' \in [Offers -> Nat]
           /\ tokens' = tokens /\ refused' = refused
           /\ \A k \in Key : uses'[k] = IF k = call[c].key THEN [uses[k] EXCEPT ![clock] = @ + 1]
                                                        ELSE uses[k]
<1> DEFINE p == <<call[c].key, call[c].feature>>
<1>1. call[c].key \in Key /\ p \in Offers
    BY TriedPair
<1>2. uses' = [uses EXCEPT ![call[c].key][clock] = @ + 1]
    BY DEF Pool!Grant
<1>3. turns' = [turns EXCEPT ![p] = @ + 1] \/ turns' = turns
    BY DEF Pool!Grant
<1>4. clock \in Pool!Instant /\ uses \in [Key -> [Pool!Instant -> Nat]]
    BY DEF Pool!TypeOK
<1>5. [uses[call[c].key] EXCEPT ![clock] = @ + 1] \in [Pool!Instant -> Nat]
    BY <1>1, <1>4
<1>6. uses' = [uses EXCEPT ![call[c].key] = [uses[call[c].key] EXCEPT ![clock] = @ + 1]]
    BY <1>2
<1>7. uses' \in [Key -> [Pool!Instant -> Nat]]
    BY <1>1, <1>4, <1>5, <1>6
<1>8. \A k \in Key : uses'[k] = IF k = call[c].key THEN [uses[k] EXCEPT ![clock] = @ + 1]
                                                ELSE uses[k]
    BY <1>1, <1>4, <1>6
<1>9. turns' \in [Offers -> Nat]
  <2>1. turns \in [Offers -> Nat]
    BY DEF Pool!TypeOK
  <2> HIDE DEF p
  <2> QED
    BY <1>1, <1>3, <2>1
<1> QED
    BY <1>7, <1>8, <1>9 DEF Pool!Grant

(* Either gate lets a draw through and counts it, or turns it away.        *)
UsageNow(k) ==
    IF UsageWindow[k] > 0 THEN Pool!Opened(gate[k], UsageWindow[k]) ELSE gate[k]

Uncounted ==
    /\ SameHands
    /\ \A k \in Limited : UsageWindow[k] = 0 \/ UsageLimit[k] > 0 => gate'[k] = gate[k]
    /\ \A k \in Limited : uses'[k] = uses[k]

Counted(c, k) ==
    /\ \A b \in Caller \ {c} : call'[b] = call[b]
    /\ call[c].pc # "persist" /\ call'[c].pc = "persist" /\ call'[c].key = k
    /\ \A j \in Key \ {k} : gate'[j] = gate[j] /\ uses'[j] = uses[j]
    /\ uses'[k] = [uses[k] EXCEPT ![clock] = @ + 1]
    /\ \/ /\ call'[c].opened = None /\ gate[k].count < UsageLimit[k]
          /\ gate'[k] = [count |-> gate[k].count + 1, start |-> gate[k].start]
       \/ /\ UsageWindow[k] > 0 /\ call'[c].opened # None
          /\ gate'[k] = [count |-> 1, start |-> call'[c].opened]

LEMMA UsageKnows ==
    ASSUME Pool!TypeOK, DrawsKnow, NEW c \in Caller, call[c].pc = "usage",
           call[c].key \in Limited, NEW opened \in Pool!Instant \cup {None},
           UsageWindow[call[c].key] = 0 => opened = None,
           Pool!Becomes(c, [call[c] EXCEPT !.pc = "persist", !.opened = opened])
    PROVE  /\ call' \in [Caller -> Pool!Calls] /\ DrawsKnow'
           /\ \A b \in Caller \ {c} : call'[b] = call[b]
           /\ call'[c].pc = "persist" /\ call'[c].key = call[c].key
           /\ call'[c].opened = opened
<1> DEFINE d == [call[c] EXCEPT !.pc = "persist", !.opened = opened]
<1>1. call[c] \in Pool!Calls /\ Knows(call[c])
    BY DEF Pool!TypeOK, DrawsKnow
<1>2. /\ d \in Pool!Calls /\ d.pc = "persist" /\ d.key = call[c].key /\ d.opened = opened
      /\ d.feature = call[c].feature /\ d.available = call[c].available
    BY <1>1 DEF Pool!Calls, Pool!PC
<1>3. Pool!Becomes(c, d)
    OBVIOUS
<1> HIDE DEF d
<1>4. Knows(d)
    BY <1>1, <1>2 DEF Knows
<1> QED
    BY <1>2, <1>3, <1>4, OnlyOneDraw

LEMMA UsageGate ==
    ASSUME Pool!TypeOK, DrawsKnow, NEW c \in Caller, Pool!TryConsumeUsage(c)
    PROVE  /\ Pool!TypeOK' /\ DrawsKnow'
           /\ Uncounted \/ \E k \in Limited : Counted(c, k)
<1> DEFINE k == call[c].key
           over == UsageWindow[k] > 0 /\ Pool!WindowOver(gate[k], UsageWindow[k])
           opened == IF over THEN clock ELSE None
<1>1. /\ call[c].pc = "usage" /\ draws' = draws /\ k \in Key /\ k \in Limited
      /\ clock' = clock /\ next' = next /\ rate' = rate
      /\ exhausted' = exhausted /\ overBudget' = overBudget
  <2>1. call[c].pc = "usage"
    BY DEF Pool!TryConsumeUsage, Pool!Drawing
  <2>2. k \in Key
    BY <2>1, TriedPair
  <2> QED
    BY <2>1, <2>2 DEF Pool!TryConsumeUsage, Pool!Drawing, Pool!benches, Limited
<1>2. \/ /\ Pool!UsageLeft(k, UsageNow(k).count)
         /\ gate' = [gate EXCEPT ![k] = Pool!CountOne(UsageNow(k))]
         /\ Pool!Becomes(c, [call[c] EXCEPT !.pc = "persist", !.opened = opened])
         /\ Pool!Grant(c)
      \/ /\ ~Pool!UsageLeft(k, UsageNow(k).count)
         /\ gate' = [gate EXCEPT ![k] = UsageNow(k)]
         /\ Pool!Skip(c)
    BY DEF Pool!TryConsumeUsage, UsageNow
<1>3. UsageNow(k) \in Pool!Counter /\ Pool!CountOne(UsageNow(k)) \in Pool!Counter
    BY <1>1, OpenedType, CountOneType DEF UsageNow, Pool!TypeOK
<1>4. /\ over => UsageNow(k) = [count |-> 0, start |-> clock]
      /\ ~over => UsageNow(k) = gate[k]
    BY DEF UsageNow, Pool!Opened
<1>5. /\ opened \in Pool!Instant \cup {None} /\ (UsageWindow[k] = 0 => opened = None)
      /\ (over <=> opened # None) /\ (over => opened = clock)
    BY <1>1, ConstantTypes DEF Pool!TypeOK
<1>6. gate \in [Key -> Pool!Counter] /\ gate[k] \in Pool!Counter /\ UsageLimit[k] \in Nat
    BY <1>1, ConstantTypes DEF Pool!TypeOK
<1> HIDE DEF k, opened
<1>7. CASE /\ Pool!UsageLeft(k, UsageNow(k).count)
           /\ gate' = [gate EXCEPT ![k] = Pool!CountOne(UsageNow(k))]
           /\ Pool!Becomes(c, [call[c] EXCEPT !.pc = "persist", !.opened = opened])
           /\ Pool!Grant(c)
  <2>1. /\ call' \in [Caller -> Pool!Calls] /\ DrawsKnow'
        /\ \A b \in Caller \ {c} : call'[b] = call[b]
        /\ call'[c].pc = "persist" /\ call'[c].key = k /\ call'[c].opened = opened
    BY <1>1, <1>5, <1>7, UsageKnows DEF k
  <2>2. /\ uses' \in [Key -> [Pool!Instant -> Nat]] /\ turns' \in [Offers -> Nat]
        /\ tokens' = tokens /\ refused' = refused
        /\ uses'[k] = [uses[k] EXCEPT ![clock] = @ + 1]
        /\ \A j \in Key \ {k} : uses'[j] = uses[j]
    BY <1>1, <1>7, GrantType DEF k
  <2>3. gate' \in [Key -> Pool!Counter]
    BY <1>1, <1>3, <1>6, <1>7
  <2>4. /\ gate'[k] = Pool!CountOne(UsageNow(k))
        /\ \A j \in Key \ {k} : gate'[j] = gate[j]
    BY <1>1, <1>6, <1>7
  <2>5. \/ /\ opened = None /\ gate[k].count < UsageLimit[k]
           /\ gate'[k] = [count |-> gate[k].count + 1, start |-> gate[k].start]
        \/ /\ UsageWindow[k] > 0 /\ opened # None
           /\ gate'[k] = [count |-> 1, start |-> opened]
    <3>1. CASE over
      BY <1>4, <1>5, <2>4, <3>1 DEF Pool!CountOne
    <3>2. CASE ~over
      BY <1>4, <1>5, <1>7, <2>4, <3>2 DEF Pool!CountOne, Pool!UsageLeft
    <3> QED
      BY <3>1, <3>2
  <2>6. Counted(c, k)
    BY <1>1, <2>1, <2>2, <2>4, <2>5 DEF Counted
  <2>7. Pool!TypeOK'
    BY <1>1, <2>1, <2>2, <2>3 DEF Pool!TypeOK
  <2> QED
    BY <1>1, <2>1, <2>6, <2>7
<1>8. CASE /\ ~Pool!UsageLeft(k, UsageNow(k).count)
           /\ gate' = [gate EXCEPT ![k] = UsageNow(k)]
           /\ Pool!Skip(c)
  <2>1. /\ call' \in [Caller -> Pool!Calls] /\ DrawsKnow' /\ SameHands
        /\ refused' \subseteq Key /\ tokens' = tokens /\ uses' = uses /\ turns' = turns
    BY <1>1, <1>8, SkipType
  <2>2. gate' \in [Key -> Pool!Counter]
    BY <1>1, <1>3, <1>6, <1>8
  <2>3. UsageWindow[k] = 0 \/ UsageLimit[k] > 0 => gate'[k] = gate[k]
    BY <1>1, <1>4, <1>5, <1>6, <1>8 DEF Pool!UsageLeft
  <2>4. Uncounted
    BY <1>1, <1>6, <1>8, <2>1, <2>3, ConstantTypes DEF Uncounted
  <2>5. Pool!TypeOK'
    BY <1>1, <2>1, <2>2 DEF Pool!TypeOK
  <2> QED
    BY <2>1, <2>4, <2>5
<1> QED
    BY <1>2, <1>7, <1>8 DEF k, opened

LEMMA RateGate ==
    ASSUME Pool!TypeOK, DrawsKnow, NEW c \in Caller, Pool!TryRate(c)
    PROVE  /\ Pool!TypeOK' /\ DrawsKnow' /\ SameHands
           /\ gate' = gate /\ uses' = uses
<1> DEFINE p == <<call[c].key, call[c].feature>>
           now == Pool!Opened(rate[p], RateWindow[p])
<1>1. /\ call[c].pc = "rate" /\ draws' = draws /\ clock' = clock /\ next' = next
      /\ gate' = gate /\ exhausted' = exhausted /\ overBudget' = overBudget
    BY DEF Pool!TryRate, Pool!Drawing, Pool!benches
<1>2. p \in Offers
    BY <1>1, TriedPair
<1>3. \/ /\ rate' = [rate EXCEPT ![p] = Pool!CountOne(now)]
         /\ Pool!Becomes(c, [call[c] EXCEPT !.pc = "usage"])
         /\ tokens' = [tokens EXCEPT ![p][clock] = @ + 1]
         /\ UNCHANGED <<uses, turns, refused>>
      \/ /\ rate' = [rate EXCEPT ![p] = now]
         /\ Pool!Skip(c)
    BY DEF Pool!TryRate
<1>4. /\ rate \in [Offers -> Pool!Counter] /\ clock \in Pool!Instant
      /\ tokens \in [Offers -> [Pool!Instant -> Nat]]
    BY DEF Pool!TypeOK
<1>5. now \in Pool!Counter /\ Pool!CountOne(now) \in Pool!Counter
    BY <1>2, <1>4, OpenedType, CountOneType
<1> HIDE DEF p, now
<1>6. CASE /\ rate' = [rate EXCEPT ![p] = Pool!CountOne(now)]
           /\ Pool!Becomes(c, [call[c] EXCEPT !.pc = "usage"])
           /\ tokens' = [tokens EXCEPT ![p][clock] = @ + 1]
           /\ UNCHANGED <<uses, turns, refused>>
  <2>1. call' \in [Caller -> Pool!Calls] /\ DrawsKnow' /\ SameHands
    BY <1>1, <1>6, RateKnows, DrawMoves
  <2>2. tokens' \in [Offers -> [Pool!Instant -> Nat]] /\ rate' \in [Offers -> Pool!Counter]
    BY <1>2, <1>4, <1>5, <1>6
  <2> QED
    BY <1>1, <1>6, <2>1, <2>2 DEF Pool!TypeOK
<1>7. CASE rate' = [rate EXCEPT ![p] = now] /\ Pool!Skip(c)
  <2>1. /\ call' \in [Caller -> Pool!Calls] /\ DrawsKnow' /\ SameHands
        /\ refused' \subseteq Key /\ tokens' = tokens /\ uses' = uses /\ turns' = turns
    BY <1>1, <1>7, SkipType
  <2>2. rate' \in [Offers -> Pool!Counter]
    BY <1>2, <1>4, <1>5, <1>7
  <2> QED
    BY <1>1, <2>1, <2>2 DEF Pool!TypeOK
<1> QED
    BY <1>3, <1>6, <1>7

(* What a step of a draw does to the gates: nothing, or it counts one.     *)
LEMMA DecideCounts ==
    ASSUME Pool!TypeOK, DrawsKnow, NEW c \in Caller, Decide(c)
    PROVE  /\ Pool!TypeOK' /\ DrawsKnow'
           /\ Uncounted \/ \E k \in Limited : Counted(c, k)
<1>1. CASE Pool!Pick(c)
  <2>1. /\ call[c].pc = "pick" /\ next' = next + 1 /\ draws' = draws
        /\ UNCHANGED <<clock, Pool!gates, Pool!benches, Pool!history>>
    BY <1>1 DEF Pool!Pick, Pool!NextIndex, Pool!Drawing
  <2>2. call' \in [Caller -> Pool!Calls] /\ DrawsKnow' /\ SameHands
    BY <1>1, <2>1, PickKnows, DrawMoves
  <2>3. Pool!TypeOK'
    BY <2>1, <2>2 DEF Pool!TypeOK, Pool!gates, Pool!benches, Pool!history
  <2> QED
    BY <2>1, <2>2, <2>3 DEF Uncounted, Pool!gates, Pool!history
<1>2. CASE Pool!GiveUp(c)
  <2>1. /\ call[c].pc = "pick" /\ draws' = draws
        /\ UNCHANGED <<clock, next, Pool!gates, Pool!benches, Pool!history>>
    BY <1>2 DEF Pool!GiveUp, Pool!Drawing
  <2>2. \E o \in Pool!Outcome : Pool!Becomes(c, [call[c] EXCEPT !.pc = "done", !.outcome = o])
    BY <1>2 DEF Pool!GiveUp, Pool!Outcome
  <2>3. call' \in [Caller -> Pool!Calls] /\ DrawsKnow' /\ SameHands
    BY <2>1, <2>2, DoneKnows, DrawMoves
  <2>4. Pool!TypeOK'
    BY <2>1, <2>3 DEF Pool!TypeOK, Pool!gates, Pool!benches, Pool!history
  <2> QED
    BY <2>1, <2>3, <2>4 DEF Uncounted, Pool!gates, Pool!history
<1>3. CASE Pool!TryRate(c)
    BY <1>3, RateGate DEF Uncounted
<1>4. CASE Pool!ServeUnlimited(c)
  <2>1. /\ call[c].pc = "usage" /\ draws' = draws /\ UsageLimit[call[c].key] = None
        /\ Pool!Grant(c) /\ UNCHANGED <<clock, next, Pool!gates, Pool!benches>>
    BY <1>4 DEF Pool!ServeUnlimited, Pool!Drawing
  <2>2. \E o \in Pool!Outcome : Pool!Becomes(c, [call[c] EXCEPT !.pc = "done", !.outcome = o])
    BY <1>4 DEF Pool!ServeUnlimited, Pool!Outcome
  <2>3. call' \in [Caller -> Pool!Calls] /\ DrawsKnow' /\ SameHands
    BY <2>1, <2>2, DoneKnows, DrawMoves
  <2>4. /\ uses' \in [Key -> [Pool!Instant -> Nat]] /\ turns' \in [Offers -> Nat]
        /\ tokens' = tokens /\ refused' = refused
        /\ \A k \in Limited : uses'[k] = uses[k]
    BY <2>1, GrantType DEF Limited
  <2>5. Pool!TypeOK'
    BY <2>1, <2>3, <2>4 DEF Pool!TypeOK, Pool!gates, Pool!benches
  <2> QED
    BY <2>1, <2>3, <2>4, <2>5 DEF Uncounted, Pool!gates
<1>5. CASE Pool!TryConsumeUsage(c)
    BY <1>5, UsageGate
<1> QED
    BY <1>1, <1>2, <1>3, <1>4, <1>5 DEF Decide

(* The two ends of a serve: told to the queue, and answered.               *)
LEMMA PersistType ==
    ASSUME Pool!TypeOK, DrawsKnow, NEW c \in Caller, Pool!PersistUsage(c)
    PROVE  /\ Pool!TypeOK' /\ DrawsKnow'
           /\ call[c].pc = "persist" /\ call'[c].pc # "persist"
           /\ \A b \in Caller \ {c} : call'[b] = call[b]
           /\ gate' = gate /\ uses' = uses
<1>1. /\ call[c].pc = "persist" /\ draws' = draws
      /\ UNCHANGED <<clock, next, Pool!gates, Pool!benches, Pool!history>>
    BY DEF Pool!PersistUsage, Pool!Drawing
<1>2. \E d \in Pool!Calls : Knows(d) /\ d.pc = "done" /\ Pool!Becomes(c, d)
    BY DoneKnows DEF Pool!PersistUsage, Pool!Outcome
<1>3. /\ call' \in [Caller -> Pool!Calls] /\ DrawsKnow' /\ call'[c].pc # "persist"
      /\ \A b \in Caller \ {c} : call'[b] = call[b]
    BY <1>2, OnlyOneDraw
<1> QED
    BY <1>1, <1>3 DEF Pool!TypeOK, Pool!gates, Pool!benches, Pool!history

LEMMA ReturnType ==
    ASSUME Pool!TypeOK, DrawsKnow, NEW c \in Caller, Pool!Return(c)
    PROVE  Pool!TypeOK' /\ DrawsKnow' /\ SameHands /\ gate' = gate /\ uses' = uses
<1>1. /\ call[c].pc = "done" /\ draws' = draws /\ Pool!Becomes(c, Pool!Idle)
      /\ UNCHANGED <<clock, next, Pool!gates, Pool!benches, Pool!history>>
    BY DEF Pool!Return, Pool!Drawing
<1>2. call' \in [Caller -> Pool!Calls] /\ DrawsKnow' /\ SameHands
    BY <1>1, IdleType, DrawMoves
<1> QED
    BY <1>1, <1>2 DEF Pool!TypeOK, Pool!gates, Pool!benches, Pool!history

LEMMA TickType ==
    ASSUME Pool!TypeOK, DrawsKnow, Pool!Tick
    PROVE  Pool!TypeOK' /\ DrawsKnow' /\ SameHands /\ gate' = gate /\ uses' = uses
<1>1. clock' \in Pool!Instant
    BY BoundsAssumption DEF Pool!Tick, Pool!TypeOK, Pool!Instant
<1>2. call' = call /\ UNCHANGED <<next, Pool!gates, Pool!benches, draws, Pool!history>>
    BY DEF Pool!Tick
<1>3. DrawsKnow' /\ SameHands
    BY <1>2 DEF DrawsKnow, Knows, SameHands
<1> QED
    BY <1>1, <1>2, <1>3 DEF Pool!TypeOK, Pool!gates, Pool!benches, Pool!history

-----------------------------------------------------------------------------
(* The queue.  Truth is what a flush of all that is held would leave in    *)
(* the rows; nothing is in flight between two flushes.                     *)
NothingInFlight == phase \in {"idle", "stopped"} => served = Queue!NoUsage

LEMMA ApplyType ==
    ASSUME NEW u \in Queue!Entry, NEW r \in Queue!Rows
    PROVE  Queue!Apply(u, r) \in Queue!Rows
BY DEF Queue!Apply, Queue!Entry, Queue!Rows, Queue!Start

LEMMA RequeueType ==
    ASSUME NEW now \in Queue!Entry, NEW failed \in Queue!Entry
    PROVE  Queue!Requeue(now, failed) \in Queue!Entry
BY DEF Queue!Requeue, Queue!Entry

(* The merge of requeueUsage loses nothing; after a write whose answer was *)
(* lost it counts too much.                                                *)
LEMMA RequeueIsSequential ==
    ASSUME NEW now \in Queue!Entry, NEW failed \in Queue!Entry, NEW r \in Queue!Rows
    PROVE  LET once  == Queue!Apply(now, Queue!Apply(failed, r))
               twice == Queue!Apply(Queue!Requeue(now, failed), Queue!Apply(failed, r))
           IN  /\ Queue!Apply(Queue!Requeue(now, failed), r) = once
               /\ twice.start = once.start /\ twice.count >= once.count
BY DEF Queue!Apply, Queue!Requeue, Queue!Entry, Queue!Rows, Queue!Start

LEMMA EmptyChangesNothing ==
    /\ Queue!Empty \in Queue!Entry /\ Queue!NoUsage \in [Key -> Queue!Entry]
    /\ \A r \in Queue!Rows : Queue!Apply(Queue!Empty, r) = r
BY DEF Queue!Empty, Queue!NoUsage, Queue!Apply, Queue!Entry, Queue!Rows, Queue!Start

LEMMA TruthType == Queue!TypeOK => Queue!Truth \in [Key -> Queue!Rows]
BY ApplyType DEF Queue!TypeOK, Queue!Truth

LEMMA EmptyQueueIsTruth ==
    Queue!TypeOK /\ usage = Queue!NoUsage /\ served = Queue!NoUsage => Queue!Truth = row
<1> SUFFICES ASSUME Queue!TypeOK, usage = Queue!NoUsage, served = Queue!NoUsage, NEW k \in Key
             PROVE  Queue!Apply(usage[k], Queue!Apply(served[k], row[k])) = row[k]
    BY DEF Queue!Truth, Queue!TypeOK
<1> QED
    BY EmptyChangesNothing DEF Queue!NoUsage, Queue!TypeOK

LEMMA KeepEventsType ==
    ASSUME NEW S, NEW s \in Seq(S)
    PROVE  Queue!KeepEvents(s) \in Seq(S) /\ Len(Queue!KeepEvents(s)) <= MaxEvents
BY QueueAssumption DEF Queue!KeepEvents

LEMMA ToSetType ==
    ASSUME NEW S, NEW s \in Seq(S)
    PROVE  Queue!ToSet(s) \subseteq S
BY DEF Queue!ToSet

LEMMA SerialsGrow ==
    ASSUME NEW n \in Nat, NEW s \in Seq(1..n)
    PROVE  s \in Seq(1..(n + 1))
OBVIOUS

LEMMA QueueInit ==
    ASSUME Queue!Init
    PROVE  /\ Queue!TypeOK /\ NothingInFlight /\ Queue!Truth = row
           /\ row = [k \in Key |-> [count |-> 0, start |-> None]]
<1>1. row = [k \in Key |-> [count |-> 0, start |-> None]] /\ row \in [Key -> Queue!Rows]
    BY DEF Queue!Init, Queue!Rows, Queue!Start
<1>2. usage \in [Key -> Queue!Entry] /\ served \in [Key -> Queue!Entry]
    BY EmptyChangesNothing DEF Queue!Init
<1>3. /\ events \in Seq(1..issued) /\ Len(events) <= MaxEvents
      /\ batch \in Seq(1..issued) /\ Len(batch) <= MaxEvents
    BY QueueAssumption DEF Queue!Init
<1>4. calls \in 0..MaxCalls /\ faults \in 0..MaxFaults
    BY BoundsAssumption DEF Queue!Init
<1>5. made \in [Key -> Queue!Rows]
    BY <1>1 DEF Queue!Init
<1>6. Queue!TypeOK
    BY <1>1, <1>2, <1>3, <1>4, <1>5 DEF Queue!Init, Queue!TypeOK
<1>7. Queue!Truth = row
    BY <1>6, EmptyQueueIsTruth DEF Queue!Init
<1> QED
    BY <1>1, <1>6, <1>7 DEF NothingInFlight, Queue!Init

(* What the pool hears of a step of the queue.                             *)
Settled ==
    phase \in {"final", "stopped"} /\ faults = 0 /\ ~late => usage = Queue!NoUsage

QueueInv == Queue!TypeOK /\ NothingInFlight /\ Settled

LEMMA CallType ==
    ASSUME Queue!TypeOK, Queue!Call
    PROVE  calls' \in 0..MaxCalls /\ late' \in BOOLEAN
BY BoundsAssumption DEF Queue!TypeOK, Queue!Call

LEMMA ServedCounts ==
    ASSUME QueueInv, NEW k \in Key, Queue!Served(k)
    PROVE  /\ QueueInv' /\ faults' = faults
           /\ Queue!Truth' = [Queue!Truth EXCEPT
                ![k] = [count |-> @.count + 1, start |-> @.start]]
<1> USE DEF QueueInv, Queue!queue, Queue!flight, Queue!store
<1>1. /\ usage' = [usage EXCEPT ![k] = Queue!CountOne(usage[k])]
      /\ served' = served /\ row' = row /\ events' = events /\ batch' = batch
      /\ phase' = phase /\ cancelled' = cancelled /\ log' = log
      /\ issued' = issued /\ faults' = faults
      /\ made' = [made EXCEPT ![k] = [count |-> made[k].count + 1, start |-> made[k].start]]
    BY DEF Queue!Served
<1>2. /\ Queue!CountOne(usage[k]) \in Queue!Entry
      /\ [count |-> made[k].count + 1, start |-> made[k].start] \in Queue!Rows
    BY DEF Queue!TypeOK, Queue!CountOne, Queue!Entry, Queue!Rows
<1>3. Queue!TypeOK'
  <2>1. calls' \in 0..MaxCalls /\ late' \in BOOLEAN
    BY CallType DEF Queue!Served
  <2>2. usage' \in [Key -> Queue!Entry] /\ made' \in [Key -> Queue!Rows]
    BY <1>1, <1>2 DEF Queue!TypeOK
  <2> QED
    BY <1>1, <2>1, <2>2 DEF Queue!TypeOK
<1>4. NothingInFlight'
    BY <1>1 DEF NothingInFlight
<1>5. Settled'
    BY <1>1 DEF Settled, Queue!Served, Queue!Call
<1>6. \A r \in Queue!Rows : Queue!Apply(Queue!CountOne(usage[k]), r)
                        = [count |-> Queue!Apply(usage[k], r).count + 1,
                           start |-> Queue!Apply(usage[k], r).start]
    BY DEF Queue!Apply, Queue!CountOne, Queue!TypeOK, Queue!Entry, Queue!Rows
<1>7. Queue!Apply(served[k], row[k]) \in Queue!Rows
    BY ApplyType DEF Queue!TypeOK
<1>8. Queue!Truth' = [Queue!Truth EXCEPT ![k] = [count |-> @.count + 1, start |-> @.start]]
    BY <1>1, <1>6, <1>7 DEF Queue!Truth, Queue!TypeOK
<1> QED
    BY <1>1, <1>3, <1>4, <1>5, <1>8

LEMMA ResetOpens ==
    ASSUME QueueInv, NEW k \in Key, NEW t \in 0..Horizon, Queue!WindowReset(k, t)
    PROVE  /\ QueueInv' /\ faults' = faults
           /\ Queue!Truth' = [Queue!Truth EXCEPT ![k] = [count |-> 1, start |-> t]]
<1> USE DEF QueueInv, Queue!queue, Queue!flight, Queue!store
<1>1. /\ usage' = [usage EXCEPT ![k] = Queue!WindowOpened(usage[k], t)]
      /\ served' = served /\ row' = row /\ events' = events /\ batch' = batch
      /\ phase' = phase /\ cancelled' = cancelled /\ log' = log
      /\ issued' = issued /\ faults' = faults
      /\ made' = [made EXCEPT ![k] = [count |-> 1, start |-> t]]
    BY DEF Queue!WindowReset
<1>2. Queue!WindowOpened(usage[k], t) \in Queue!Entry /\ [count |-> 1, start |-> t] \in Queue!Rows
    BY DEF Queue!WindowOpened, Queue!Entry, Queue!Rows, Queue!Start
<1>3. Queue!TypeOK'
  <2>1. calls' \in 0..MaxCalls /\ late' \in BOOLEAN
    BY CallType DEF Queue!WindowReset
  <2>2. usage' \in [Key -> Queue!Entry] /\ made' \in [Key -> Queue!Rows]
    BY <1>1, <1>2 DEF Queue!TypeOK
  <2> QED
    BY <1>1, <2>1, <2>2 DEF Queue!TypeOK
<1>4. NothingInFlight'
    BY <1>1 DEF NothingInFlight
<1>5. Settled'
    BY <1>1 DEF Settled, Queue!WindowReset, Queue!Call
<1>6. \A r \in Queue!Rows : Queue!Apply(Queue!WindowOpened(usage[k], t), r)
                                = [count |-> 1, start |-> t]
    BY NoneAssumption DEF Queue!Apply, Queue!WindowOpened
<1>7. Queue!Apply(served[k], row[k]) \in Queue!Rows
    BY ApplyType DEF Queue!TypeOK
<1>8. Queue!Truth' = [Queue!Truth EXCEPT ![k] = [count |-> 1, start |-> t]]
    BY <1>1, <1>6, <1>7 DEF Queue!Truth, Queue!TypeOK
<1> QED
    BY <1>1, <1>3, <1>4, <1>5, <1>8

(* One iteration of a flush leaves Truth as it was, or, when the answer of *)
(* a committed call was lost, counts one key's entry twice.                *)
LEMMA FlushKeyOvercounts ==
    ASSUME QueueInv, NEW k \in Key, Queue!FlushKey(k)
    PROVE  /\ QueueInv' /\ (faults' = 0 => faults = 0)
           /\ \A j \in Key \ {k} : Queue!Truth'[j] = Queue!Truth[j]
           /\ Queue!Truth'[k].start = Queue!Truth[k].start
           /\ Queue!Truth'[k].count >= Queue!Truth[k].count
           /\ k \notin LostReplies \/ faults' = 0 => Queue!Truth'[k] = Queue!Truth[k]
<1> USE DEF QueueInv
<1> DEFINE u == usage[k]
           s == served[k]
           r == row[k]
<1>1. PICK outcome \in Queue!Outcome :
        /\ Queue!StoreCall(outcome, k \in LostReplies)
        /\ row' = IF outcome = "refused" THEN row
                  ELSE [row EXCEPT ![k] = Queue!Apply(served[k], @)]
        /\ usage' = IF outcome = "committed" THEN usage
                    ELSE [usage EXCEPT ![k] = Queue!Requeue(@, served[k])]
    BY DEF Queue!FlushKey
<1>2. /\ phase \in {"tick", "final"} /\ phase' = phase /\ late' = late
      /\ served' = [served EXCEPT ![k] = Queue!Empty]
      /\ UNCHANGED <<events, batch, cancelled, log, issued, calls, made>>
    BY DEF Queue!FlushKey, Queue!Flushing
<1>3. u \in Queue!Entry /\ s \in Queue!Entry /\ r \in Queue!Rows
      /\ Queue!Apply(s, r) \in Queue!Rows /\ Queue!Requeue(u, s) \in Queue!Entry
    BY ApplyType, RequeueType DEF Queue!TypeOK
<1>4. faults' \in 0..MaxFaults /\ (faults' = 0 => faults' = faults)
      /\ (outcome = "lost" => k \in LostReplies /\ faults' # 0)
      /\ (faults' = 0 /\ phase = "final" => outcome = "committed")
    BY <1>1, BoundsAssumption DEF Queue!StoreCall, Queue!Fault, Queue!Doomed, Queue!TypeOK
<1>5. Queue!TypeOK'
  <2>1. usage' \in [Key -> Queue!Entry] /\ row' \in [Key -> Queue!Rows]
    BY <1>1, <1>3 DEF Queue!TypeOK
  <2>2. served' \in [Key -> Queue!Entry]
    BY <1>2, EmptyChangesNothing DEF Queue!TypeOK
  <2> QED
    BY <1>2, <1>4, <2>1, <2>2 DEF Queue!TypeOK
<1>6. NothingInFlight'
    BY <1>2 DEF NothingInFlight
<1>7. Settled'
    BY <1>1, <1>2, <1>4 DEF Settled
<1>8. \A j \in Key \ {k} : Queue!Truth'[j] = Queue!Truth[j]
    BY <1>1, <1>2 DEF Queue!Truth, Queue!TypeOK
<1>9. /\ Queue!Truth[k] = Queue!Apply(u, Queue!Apply(s, r))
      /\ Queue!Truth'[k] = Queue!Apply(usage'[k], row'[k])
  <2>1. row'[k] \in Queue!Rows
    BY <1>5 DEF Queue!TypeOK
  <2> QED
    BY <1>2, <2>1, EmptyChangesNothing DEF Queue!Truth, Queue!TypeOK
<1>10. Queue!Truth[k] \in Queue!Rows
    BY TruthType
<1> HIDE DEF u, s, r
<1>11. /\ Queue!Truth'[k].start = Queue!Truth[k].start
       /\ Queue!Truth'[k].count >= Queue!Truth[k].count
       /\ outcome = "lost" \/ Queue!Truth'[k] = Queue!Truth[k]
  <2>1. CASE outcome = "committed"
    <3>1. usage'[k] = u /\ row'[k] = Queue!Apply(s, r)
      BY <1>1, <2>1 DEF Queue!TypeOK, u, s, r
    <3> QED
      BY <1>9, <1>10, <3>1 DEF Queue!Rows
  <2>2. CASE outcome = "refused"
    <3>1. usage'[k] = Queue!Requeue(u, s) /\ row'[k] = r
      BY <1>1, <2>2 DEF Queue!TypeOK, u, s, r
    <3> QED
      BY <1>3, <1>9, <1>10, <3>1, RequeueIsSequential DEF Queue!Rows
  <2>3. CASE outcome = "lost"
    <3>1. usage'[k] = Queue!Requeue(u, s) /\ row'[k] = Queue!Apply(s, r)
      BY <1>1, <2>3 DEF Queue!TypeOK, u, s, r
    <3> QED
      BY <1>3, <1>9, <2>3, <3>1, RequeueIsSequential
  <2> QED
    BY <2>1, <2>2, <2>3 DEF Queue!Outcome
<1> QED
    BY <1>4, <1>5, <1>6, <1>7, <1>8, <1>11

(* Flush's swap moves the queue into the flight, which was empty.          *)
LEMMA TakeKeepsTruth ==
    ASSUME QueueInv, phase = "idle", phase' \in {"tick", "final"}, Queue!TakeQueue,
           UNCHANGED <<cancelled, row, log, issued, calls, faults, made, late>>
    PROVE  QueueInv' /\ Queue!Truth' = Queue!Truth
<1> USE DEF QueueInv
<1>1. /\ usage' = Queue!NoUsage /\ served' = usage /\ served = Queue!NoUsage
      /\ batch' = events /\ events' = << >>
    BY DEF Queue!TakeQueue, NothingInFlight
<1>2. Queue!TypeOK'
  <2>1. << >> \in Seq(1..issued) /\ Len(<< >>) <= MaxEvents
    BY QueueAssumption
  <2> QED
    BY <1>1, <2>1, EmptyChangesNothing DEF Queue!TypeOK
<1>3. ASSUME NEW k \in Key
      PROVE  Queue!Apply(usage'[k], Queue!Apply(served'[k], row'[k]))
               = Queue!Apply(usage[k], Queue!Apply(served[k], row[k]))
  <2>1. usage'[k] = Queue!Empty /\ served'[k] = usage[k] /\ served[k] = Queue!Empty
    BY <1>1 DEF Queue!NoUsage
  <2>2. row[k] \in Queue!Rows /\ usage[k] \in Queue!Entry
    BY DEF Queue!TypeOK
  <2>3. Queue!Apply(usage[k], row[k]) \in Queue!Rows
    BY <2>2, ApplyType
  <2> QED
    BY <2>1, <2>2, <2>3, EmptyChangesNothing
<1>4. Queue!Truth' = Queue!Truth
    BY <1>3 DEF Queue!Truth
<1> QED
    BY <1>1, <1>2, <1>4 DEF NothingInFlight, Settled

QueueVars == <<usage, events, served, batch, phase, cancelled, row, log, issued, calls, faults,
               made, late>>

(* The steps that touch neither a count nor a flight leave Truth alone.    *)
LEMMA OtherStepsKeepTruth ==
    ASSUME QueueInv,
           \/ Queue!Event \/ Queue!TickFlush \/ Queue!FinalFlush \/ Queue!FlushEvents
           \/ Queue!FlushEnd \/ Queue!Cancel \/ UNCHANGED QueueVars
    PROVE  QueueInv' /\ Queue!Truth' = Queue!Truth /\ (faults' = 0 => faults = 0)
<1> USE DEF QueueInv, Queue!queue, Queue!flight, Queue!store
<1>1. CASE Queue!Event
  <2>1. /\ issued \in Nat /\ issued' = issued + 1
        /\ events' = Queue!KeepEvents(Append(events, issued'))
        /\ UNCHANGED <<usage, served, batch, phase, cancelled, row, log, faults, made>>
    BY <1>1 DEF Queue!Event, Queue!TypeOK
  <2>2. events \in Seq(1..issued') /\ batch \in Seq(1..issued') /\ Len(batch) <= MaxEvents
    BY <2>1, SerialsGrow DEF Queue!TypeOK
  <2>3. Append(events, issued') \in Seq(1..issued')
    <3>1. issued' \in 1..issued'
      BY <2>1
    <3> QED
      BY <2>2, <3>1
  <2>4. events' \in Seq(1..issued') /\ Len(events') <= MaxEvents
    BY <2>1, <2>3, KeepEventsType
  <2>5. calls' \in 0..MaxCalls /\ late' \in BOOLEAN
    BY <1>1, CallType DEF Queue!Event
  <2>6. log' \subseteq 1..issued' /\ issued' \in Nat
    BY <2>1 DEF Queue!TypeOK
  <2>7. Queue!TypeOK'
    BY <2>1, <2>2, <2>4, <2>5, <2>6 DEF Queue!TypeOK
  <2>8. NothingInFlight' /\ Queue!Truth' = Queue!Truth
    BY <2>1 DEF NothingInFlight, Queue!Truth
  <2>9. Settled'
    BY <1>1, <2>1 DEF Settled, Queue!Event, Queue!Call
  <2> QED
    BY <2>1, <2>7, <2>8, <2>9
<1>2. CASE Queue!TickFlush
    BY <1>2, TakeKeepsTruth DEF Queue!TickFlush
<1>3. CASE Queue!FinalFlush
    BY <1>3, TakeKeepsTruth DEF Queue!FinalFlush
<1>4. CASE Queue!FlushEvents
  <2>1. PICK outcome \in Queue!Outcome :
        /\ Queue!CopyEvents(outcome)
        /\ log' = IF outcome = "refused" THEN log ELSE log \cup Queue!ToSet(batch)
        /\ events' = IF outcome = "committed" THEN events
                     ELSE Queue!RequeueEvents(batch, events)
    BY <1>4 DEF Queue!FlushEvents
  <2>2. /\ batch' = << >>
        /\ UNCHANGED <<usage, served, phase, cancelled, row, issued, calls, made, late>>
    BY <1>4 DEF Queue!FlushEvents
  <2>3. faults' \in 0..MaxFaults /\ (faults' = 0 => faults = 0)
    BY <2>1, BoundsAssumption
    DEF Queue!CopyEvents, Queue!StoreCall, Queue!Fault, Queue!TypeOK
  <2>4. batch \o events \in Seq(1..issued)
    BY DEF Queue!TypeOK
  <2>5. events' \in Seq(1..issued) /\ Len(events') <= MaxEvents
    BY <2>1, <2>4, KeepEventsType DEF Queue!RequeueEvents, Queue!TypeOK
  <2>6. log' \subseteq 1..issued
    BY <2>1, ToSetType DEF Queue!TypeOK
  <2>7. << >> \in Seq(1..issued) /\ Len(<< >>) <= MaxEvents
    BY QueueAssumption
  <2>8. Queue!TypeOK'
    BY <2>2, <2>3, <2>5, <2>6, <2>7 DEF Queue!TypeOK
  <2>9. NothingInFlight' /\ Queue!Truth' = Queue!Truth
    BY <2>2 DEF NothingInFlight, Queue!Truth
  <2>10. Settled'
    BY <2>2, <2>3 DEF Settled
  <2> QED
    BY <2>3, <2>8, <2>9, <2>10
<1>5. CASE Queue!FlushEnd
  <2>1. /\ served = Queue!NoUsage /\ phase' = IF phase = "final" THEN "stopped" ELSE "idle"
        /\ UNCHANGED <<usage, events, served, batch, cancelled, row, log, issued, calls,
                       faults, made, late>>
    BY <1>5 DEF Queue!FlushEnd, Queue!RunReturns
  <2> QED
    BY <2>1 DEF Queue!TypeOK, NothingInFlight, Settled, Queue!Truth
<1>6. CASE Queue!Cancel
    BY <1>6 DEF Queue!Cancel, Queue!TypeOK, NothingInFlight, Settled, Queue!Truth
<1>7. CASE UNCHANGED QueueVars
    BY <1>7 DEF QueueVars, Queue!TypeOK, NothingInFlight, Settled, Queue!Truth
<1> QED
    BY <1>1, <1>2, <1>3, <1>4, <1>5, <1>6, <1>7

-----------------------------------------------------------------------------
(* The two together, key by key.                                           *)
Told(k) == Queue!Truth[k].count + InHand(k)

(* The gate of a lifetime limit has counted what is told or in hand.       *)
LifetimeKept(k) ==
    /\ gate[k].count <= Told(k)
    /\ k \notin LostReplies \/ faults = 0 => gate[k].count = Told(k)

(* A gate starts from what the dead processes did not forget.              *)
Covered(k) ==
    /\ SumFunction(uses[k]) <= gate[k].count + forgotten[k]
    /\ SumFunction(uses[k]) <= UsageLimit[k] + forgotten[k]

(* A window that has been opened and not told is the work of one draw, the *)
(* only one with the key in hand; told, it goes with those in hand.        *)
WindowKept(k) ==
    /\ ~Crossing(k)
    /\ \A c \in Caller : Holds(c, k) /\ DidReset(c) =>
        gate[k] = [count |-> 1, start |-> call[c].opened]
    /\ (\A c \in Caller : Holds(c, k) => ~DidReset(c)) =>
        gate[k] = [count |-> Told(k), start |-> Queue!Truth[k].start]

Counts == {k \in Limited : UsageWindow[k] = 0 \/ UsageLimit[k] > 0}

Kept(k) ==
    /\ k \in ForLife => LifetimeKept(k) /\ Covered(k)
    /\ k \notin crossed \cup LostReplies /\ UsageLimit[k] > 0 => WindowKept(k)

KeysKept == \A k \in Counts : Kept(k)

(* Who holds a key, and since when.                                        *)
SameHolders(k) ==
    \A c \in Caller : /\ Holds(c, k)' <=> Holds(c, k)
                      /\ Holds(c, k) => call'[c].opened = call[c].opened

LEMMA HoldersStay ==
    ASSUME SameHands
    PROVE  \A k : SameHolders(k)
BY DEF SameHands, SameHolders, Holds

LEMMA HoldersCount ==
    /\ \A k : IsFiniteSet({c \in Caller : Holds(c, k)}) /\ InHand(k) \in Nat
    /\ \A k : InHand(k) = 0 <=> \A c \in Caller : ~Holds(c, k)
<1> SUFFICES ASSUME NEW k
             PROVE  /\ IsFiniteSet({c \in Caller : Holds(c, k)}) /\ InHand(k) \in Nat
                    /\ InHand(k) = 0 <=> \A c \in Caller : ~Holds(c, k)
    OBVIOUS
<1> DEFINE hands == {c \in Caller : Holds(c, k)}
<1>1. IsFiniteSet(hands)
    BY CallerAssumption, FS_Subset
<1>2. Cardinality(hands) \in Nat /\ (Cardinality(hands) = 0 <=> hands = {})
    BY <1>1, FS_CardinalityType, FS_EmptySet
<1> QED
    BY <1>1, <1>2 DEF InHand

LEMMA SameHoldersCount ==
    ASSUME NEW k, SameHolders(k)
    PROVE  InHand(k)' = InHand(k) /\ (Crossing(k)' <=> Crossing(k))
<1>1. {c \in Caller : Holds(c, k)}' = {c \in Caller : Holds(c, k)}
    BY DEF SameHolders
<1>2. \A c \in Caller : Holds(c, k) => (DidReset(c)' <=> DidReset(c))
    BY DEF SameHolders, DidReset
<1> QED
    BY <1>1, <1>2 DEF InHand, Crossing, SameHolders

(* Nothing happens to a key.                                               *)
KeyStill(k) ==
    /\ gate'[k] = gate[k] /\ uses'[k] = uses[k] /\ forgotten'[k] = forgotten[k]
    /\ Queue!Truth'[k] = Queue!Truth[k]
    /\ SameHolders(k)
    /\ k \notin crossed' => k \notin crossed
    /\ faults' = 0 => faults = 0

LEMMA StillKept ==
    ASSUME NEW k \in Counts, Kept(k), KeyStill(k)
    PROVE  Kept(k)'
<1>1. InHand(k)' = InHand(k) /\ (Crossing(k)' <=> Crossing(k)) /\ Told(k)' = Told(k)
    BY SameHoldersCount DEF KeyStill, Told
<1>2. LifetimeKept(k) => LifetimeKept(k)'
    BY <1>1 DEF KeyStill, LifetimeKept
<1>3. Covered(k) => Covered(k)'
    BY DEF KeyStill, Covered
<1>4. WindowKept(k) => WindowKept(k)'
    BY <1>1 DEF KeyStill, SameHolders, DidReset, WindowKept
<1> QED
    BY <1>2, <1>3, <1>4 DEF Kept, KeyStill, ForLife

ProcessType == boots \in 0..MaxBoots /\ forgotten \in [Key -> Nat] /\ crossed \subseteq Key

(* One more serve adds one to their number.                                *)
LEMMA OneMoreUse ==
    ASSUME NEW drawn \in [Pool!Instant -> Nat], NEW t \in Pool!Instant
    PROVE  /\ SumFunction(drawn) \in Nat
           /\ SumFunction([drawn EXCEPT ![t] = @ + 1]) = SumFunction(drawn) + 1
<1> DEFINE more == [drawn EXCEPT ![t] = @ + 1]
<1>0. IsFiniteSet(0..Horizon)
    BY BoundsAssumption, FS_Interval
<1>1. IsFiniteSet(Pool!Instant) /\ \A i \in Pool!Instant : drawn[i] \in Nat
    BY <1>0 DEF Pool!Instant
<1>2. \A i \in Pool!Instant : more[i] = IF i = t THEN drawn[i] + 1 ELSE drawn[i]
    OBVIOUS
<1>3. DOMAIN drawn = Pool!Instant /\ DOMAIN more = Pool!Instant
    OBVIOUS
<1> HIDE DEF more
<1>4. SumFunctionOnSet(drawn, Pool!Instant) \in Nat
    BY <1>1, SumType
<1>5. SumFunctionOnSet(more, Pool!Instant) = SumFunctionOnSet(drawn, Pool!Instant) + 1
    BY <1>1, <1>2, SumCounts
<1>6. SumFunction(drawn) = SumFunctionOnSet(drawn, Pool!Instant)
    BY <1>3 DEF SumFunction, SumFunctionOnSet, FoldFunction
<1>7. SumFunction(more) = SumFunctionOnSet(more, Pool!Instant)
    BY <1>3 DEF SumFunction, SumFunctionOnSet, FoldFunction
<1> QED
    BY <1>4, <1>5, <1>6, <1>7 DEF more

(* A serve counted at a gate is in the hand of its draw.                   *)
LEMMA CountedKept ==
    ASSUME Pool!TypeOK, QueueInv, ProcessType, NEW c \in Caller, NEW k \in Limited,
           Counted(c, k), forgotten' = forgotten, Queue!Truth' = Queue!Truth, faults' = faults,
           crossed' = crossed \cup {j \in Key : Crossing(j)'}, KeysKept
    PROVE  KeysKept'
<1> USE DEF QueueInv
<1>1. ASSUME NEW j \in Counts, j # k PROVE Kept(j)'
  <2>1. SameHolders(j)
    BY <1>1 DEF SameHolders, Holds, Counted
  <2>2. KeyStill(j)
    BY <1>1, <2>1 DEF KeyStill, Counted, Counts, Limited
  <2> QED
    BY <2>2, StillKept DEF KeysKept
<1>2. ASSUME k \in Counts PROVE Kept(k)'
  <2>1. /\ ~Holds(c, k) /\ Holds(c, k)'
        /\ \A b \in Caller \ {c} : Holds(b, k)' <=> Holds(b, k)
        /\ \A b \in Caller \ {c} : DidReset(b)' <=> DidReset(b)
        /\ \A b \in Caller \ {c} : call'[b] = call[b]
    BY DEF Holds, Counted, DidReset
  <2>2. InHand(k)' = InHand(k) + 1 /\ InHand(k) \in Nat
    <3> DEFINE before == {b \in Caller : Holds(b, k)}
               after == {b \in Caller : Holds(b, k)'}
    <3>1. after = before \cup {c} /\ c \notin before
      BY <2>1
    <3>2. IsFiniteSet(before) /\ Cardinality(before) \in Nat
      BY HoldersCount DEF InHand
    <3> HIDE DEF before, after
    <3>3. Cardinality(after) = Cardinality(before) + 1
      BY <3>1, <3>2, FS_AddElement
    <3> QED
      BY <3>2, <3>3 DEF InHand, before, after
  <2>3. /\ Queue!Truth[k].count \in Nat /\ gate[k].count \in Nat /\ k \in Key
        /\ UsageWindow[k] \in Nat /\ UsageLimit[k] \in Nat /\ forgotten[k] \in Nat
    BY TruthType, ConstantTypes, PoolAssumption
    DEF Pool!TypeOK, Pool!Counter, Queue!Rows, ProcessType
  <2>4. Told(k)' = Told(k) + 1 /\ Told(k) \in Nat
    BY <2>2, <2>3 DEF Told
  <2>5. ASSUME k \in ForLife PROVE LifetimeKept(k)' /\ Covered(k)'
    <3>1. LifetimeKept(k) /\ Covered(k)
      BY <1>2, <2>5 DEF KeysKept, Kept
    <3>2. gate[k].count < UsageLimit[k] /\ gate'[k].count = gate[k].count + 1
      BY <2>3, <2>5 DEF Counted, ForLife
    <3>3. LifetimeKept(k)'
      BY <2>3, <2>4, <3>1, <3>2 DEF LifetimeKept
    <3>4. SumFunction(uses'[k]) = SumFunction(uses[k]) + 1 /\ SumFunction(uses[k]) \in Nat
      BY <2>3, OneMoreUse DEF Counted, Pool!TypeOK
    <3>5. Covered(k)'
      BY <2>3, <3>1, <3>2, <3>4 DEF Covered
    <3> QED
      BY <3>3, <3>5
  <2>6. ASSUME k \notin crossed' \cup LostReplies, UsageLimit[k] > 0 PROVE WindowKept(k)'
    <3>1. ~Crossing(k)' /\ WindowKept(k)
      BY <1>2, <2>3, <2>6 DEF KeysKept, Kept
    <3>2. \A b \in Caller \ {c} : ~(Holds(b, k)' /\ DidReset(b)')
      BY <2>1, <3>1 DEF Crossing
    <3>3. DidReset(c)' => gate'[k] = [count |-> 1, start |-> call'[c].opened]
      BY DEF Counted, DidReset
    <3>4. ASSUME ~DidReset(c)'
          PROVE  gate'[k] = [count |-> Told(k)', start |-> Queue!Truth'[k].start]
      <4>1. \A b \in Caller : Holds(b, k) => ~DidReset(b)
        BY <2>1, <3>2
      <4>2. gate[k] = [count |-> Told(k), start |-> Queue!Truth[k].start]
        BY <3>1, <4>1 DEF WindowKept
      <4>3. gate'[k] = [count |-> gate[k].count + 1, start |-> gate[k].start]
        BY <3>4 DEF Counted, DidReset
      <4> QED
        BY <2>4, <4>2, <4>3
    <3>5. \A b \in Caller : Holds(b, k)' /\ DidReset(b)' =>
            gate'[k] = [count |-> 1, start |-> call'[b].opened]
      BY <3>2, <3>3
    <3>6. (\A b \in Caller : Holds(b, k)' => ~DidReset(b)') =>
            gate'[k] = [count |-> Told(k)', start |-> Queue!Truth'[k].start]
      BY <2>1, <3>4
    <3> QED
      BY <3>1, <3>5, <3>6 DEF WindowKept
  <2> QED
    BY <2>5, <2>6 DEF Kept, ForLife
<1> QED
    BY <1>1, <1>2 DEF KeysKept, Counts

(* A serve told to the queue leaves the hand of its draw.                  *)
LEMMA PersistKept ==
    ASSUME Pool!TypeOK, DrawsKnow, QueueInv, ProcessType, NEW c \in Caller, Persist(c), KeysKept
    PROVE  Pool!TypeOK' /\ DrawsKnow' /\ QueueInv' /\ ProcessType' /\ KeysKept'
<1>1. /\ Pool!TypeOK' /\ DrawsKnow'
      /\ call[c].pc = "persist" /\ call'[c].pc # "persist"
      /\ \A b \in Caller \ {c} : call'[b] = call[b]
      /\ gate' = gate /\ uses' = uses
    BY PersistType DEF Persist
<1>2. boots' = boots /\ forgotten' = forgotten /\ crossed' = crossed
    BY DEF Persist, process
<1>3. PICK k \in Limited : k = call[c].key /\ k \in Key /\ (UsageWindow[k] = 0 => ~DidReset(c))
    BY <1>1 DEF DrawsKnow, Knows, DidReset, Limited
<1>4. call[c].opened \in Pool!Instant \cup {None}
    BY DEF Pool!TypeOK, Pool!Calls
<1>5. /\ QueueInv' /\ faults' = faults
      /\ Queue!Truth' = [Queue!Truth EXCEPT
            ![k] = IF DidReset(c) THEN [count |-> 1, start |-> call[c].opened]
                   ELSE [count |-> @.count + 1, start |-> @.start]]
  <2>1. CASE DidReset(c)
    <3>1. Queue!WindowReset(k, call[c].opened) /\ call[c].opened \in 0..Horizon
      BY <1>3, <1>4, <2>1, ConstantTypes DEF Persist, DidReset
    <3> QED
      BY <1>3, <2>1, <3>1, ResetOpens
  <2>2. CASE ~DidReset(c)
    <3>1. Queue!Served(k)
      BY <1>3, <2>2 DEF Persist
    <3> QED
      BY <1>3, <2>2, <3>1, ServedCounts
  <2> QED
    BY <2>1, <2>2
<1>6. Queue!Truth \in [Key -> Queue!Rows] /\ Queue!Truth[k].count \in Nat
    BY <1>3, TruthType DEF QueueInv, Queue!Rows
<1>7. ASSUME NEW j \in Counts, j # k PROVE Kept(j)'
  <2>1. SameHolders(j)
    BY <1>1, <1>3, <1>7 DEF SameHolders, Holds
  <2>2. Queue!Truth'[j] = Queue!Truth[j]
    BY <1>3, <1>5, <1>6, <1>7 DEF Counts, Limited
  <2>3. KeyStill(j)
    BY <1>1, <1>2, <1>5, <2>1, <2>2 DEF KeyStill
  <2> QED
    BY <2>3, StillKept DEF KeysKept
<1>8. ASSUME k \in Counts PROVE Kept(k)'
  <2>1. /\ Holds(c, k) /\ ~Holds(c, k)'
        /\ \A b \in Caller \ {c} : Holds(b, k)' <=> Holds(b, k)
        /\ \A b \in Caller \ {c} : DidReset(b)' <=> DidReset(b)
    BY <1>1, <1>3 DEF Holds, DidReset
  <2>2. InHand(k)' = InHand(k) - 1 /\ InHand(k) \in Nat
    <3> DEFINE before == {b \in Caller : Holds(b, k)}
               after == {b \in Caller : Holds(b, k)'}
    <3>1. after = before \ {c} /\ c \in before
      BY <2>1
    <3>2. IsFiniteSet(before) /\ Cardinality(before) \in Nat
      BY HoldersCount DEF InHand
    <3> HIDE DEF before, after
    <3>3. Cardinality(after) = Cardinality(before) - 1
      BY <3>1, <3>2, FS_RemoveElement
    <3> QED
      BY <3>2, <3>3 DEF InHand, before, after
  <2>3. ASSUME ~DidReset(c)
        PROVE  /\ Queue!Truth'[k].start = Queue!Truth[k].start /\ Told(k)' = Told(k)
    <3>1. Queue!Truth'[k] = [count |-> Queue!Truth[k].count + 1, start |-> Queue!Truth[k].start]
      BY <1>3, <1>5, <1>6, <2>3
    <3> QED
      BY <1>6, <2>2, <3>1 DEF Told
  <2>4. ASSUME k \in ForLife PROVE LifetimeKept(k)' /\ Covered(k)'
    <3>1. LifetimeKept(k) /\ Covered(k)
      BY <1>8, <2>4 DEF KeysKept, Kept
    <3>2. Told(k)' = Told(k)
      BY <1>3, <2>3, <2>4 DEF ForLife
    <3>3. LifetimeKept(k)'
      BY <1>1, <1>5, <3>1, <3>2 DEF LifetimeKept
    <3>4. Covered(k)'
      BY <1>1, <1>2, <3>1 DEF Covered
    <3> QED
      BY <3>3, <3>4
  <2>5. ASSUME k \notin crossed \cup LostReplies, UsageLimit[k] > 0 PROVE WindowKept(k)'
    <3>1. WindowKept(k)
      BY <1>8, <2>5 DEF KeysKept, Kept
    <3>2. ~Crossing(k)'
      BY <2>1, <3>1 DEF WindowKept, Crossing
    <3>3. CASE DidReset(c)
      <4>1. \A b \in Caller : ~Holds(b, k)'
        BY <2>1, <3>1, <3>3 DEF WindowKept, Crossing
      <4>2. gate[k] = [count |-> 1, start |-> call[c].opened]
        BY <2>1, <3>1, <3>3 DEF WindowKept
      <4>3. Queue!Truth'[k] = [count |-> 1, start |-> call[c].opened]
        BY <1>3, <1>5, <1>6, <3>3
      <4>4. InHand(k)' = 0
        <5>1. {b \in Caller : Holds(b, k)'} = {}
          BY <4>1
        <5> QED
          BY <5>1, FS_EmptySet DEF InHand
      <4>5. Told(k)' = 1
        BY <4>3, <4>4 DEF Told
      <4> QED
        BY <1>1, <3>2, <4>1, <4>2, <4>3, <4>5 DEF WindowKept
    <3>4. CASE ~DidReset(c)
      <4>1. \A b \in Caller : Holds(b, k) => ~DidReset(b)
        BY <2>1, <3>1, <3>4 DEF WindowKept, Crossing
      <4>2. gate[k] = [count |-> Told(k), start |-> Queue!Truth[k].start]
        BY <3>1, <4>1 DEF WindowKept
      <4>3. \A b \in Caller : Holds(b, k)' => ~DidReset(b)'
        BY <2>1, <4>1
      <4> QED
        BY <1>1, <2>3, <3>2, <3>4, <4>2, <4>3 DEF WindowKept
    <3> QED
      BY <3>3, <3>4
  <2> QED
    BY <1>2, <2>4, <2>5 DEF Kept, ForLife
<1>9. KeysKept'
    BY <1>7, <1>8 DEF KeysKept, Counts
<1>10. ProcessType'
    BY <1>2 DEF ProcessType
<1> QED
    BY <1>1, <1>5, <1>9, <1>10

(* A step of the pool alone, or of the queue alone, that counts nothing.   *)
LEMMA QuietKept ==
    ASSUME SameHands, \A k \in Counts : gate'[k] = gate[k] /\ uses'[k] = uses[k],
           Queue!Truth' = Queue!Truth, faults' = 0 => faults = 0,
           forgotten' = forgotten, crossed \subseteq crossed', KeysKept
    PROVE  KeysKept'
<1>1. ASSUME NEW k \in Counts PROVE Kept(k)'
  <2>1. KeyStill(k)
    BY HoldersStay DEF KeyStill
  <2> QED
    BY <2>1, StillKept DEF KeysKept
<1> QED
    BY <1>1 DEF KeysKept, Counts

(* A flush may count a key twice whose reply is lost, and no other.        *)
LEMMA FlushKeyKept ==
    ASSUME Pool!TypeOK, QueueInv, NEW k \in Key, Queue!FlushKey(k), UNCHANGED <<pool, process>>,
           KeysKept
    PROVE  QueueInv' /\ KeysKept'
<1>1. /\ QueueInv' /\ (faults' = 0 => faults = 0)
      /\ \A j \in Key \ {k} : Queue!Truth'[j] = Queue!Truth[j]
      /\ Queue!Truth'[k].start = Queue!Truth[k].start
      /\ Queue!Truth'[k].count >= Queue!Truth[k].count
      /\ k \notin LostReplies \/ faults' = 0 => Queue!Truth'[k] = Queue!Truth[k]
    BY FlushKeyOvercounts
<1>2. call' = call /\ gate' = gate /\ uses' = uses /\ forgotten' = forgotten /\ crossed' = crossed
    BY DEF pool, process, history
<1>3. \A j : SameHolders(j)
    BY <1>2 DEF SameHolders, Holds
<1>4. ASSUME NEW j \in Counts, j # k \/ k \notin LostReplies \/ faults' = 0 PROVE Kept(j)'
  <2>1. KeyStill(j)
    BY <1>1, <1>2, <1>3, <1>4 DEF KeyStill, Counts, Limited
  <2> QED
    BY <2>1, StillKept DEF KeysKept
<1>5. ASSUME k \in Counts, k \in LostReplies, faults' # 0 PROVE Kept(k)'
  <2>1. ASSUME k \in ForLife PROVE LifetimeKept(k)' /\ Covered(k)'
    <3>1. LifetimeKept(k) /\ Covered(k)
      BY <1>5, <2>1 DEF KeysKept, Kept
    <3>2. InHand(k)' = InHand(k) /\ InHand(k) \in Nat
      BY <1>3, SameHoldersCount, HoldersCount
    <3>3. Queue!Truth[k].count \in Nat /\ Queue!Truth'[k].count \in Nat /\ gate[k].count \in Nat
      <4>1. Queue!Truth \in [Key -> Queue!Rows]
        BY TruthType DEF QueueInv
      <4>2. Queue!Truth' \in [Key -> Queue!Rows]
        <5>1. (Queue!TypeOK => Queue!Truth \in [Key -> Queue!Rows])'
          BY TruthType, PTL
        <5> QED
          BY <1>1, <5>1 DEF QueueInv, Queue!Rows, Queue!Start
      <4> QED
        BY <4>1, <4>2 DEF Queue!Rows, Pool!TypeOK, Pool!Counter
    <3>4. gate[k].count <= Told(k)'
      BY <1>1, <3>1, <3>2, <3>3 DEF LifetimeKept, Told
    <3> QED
      BY <1>2, <1>5, <3>1, <3>4 DEF LifetimeKept, Covered
  <2> QED
    BY <1>5, <2>1 DEF Kept, ForLife
<1>6. KeysKept'
    BY <1>4, <1>5 DEF KeysKept, Counts
<1> QED
    BY <1>1, <1>6

(* The next process takes the rows for the truth, and its gates from them. *)
LEMMA BootKept ==
    ASSUME Pool!TypeOK, QueueInv, ProcessType, Boot, KeysKept
    PROVE  Pool!TypeOK' /\ DrawsKnow' /\ QueueInv' /\ ProcessType' /\ KeysKept'
<1> USE DEF QueueInv
<1>1. /\ gate' = [k \in Key |-> LoadedGate(k)]
      /\ forgotten' = [k \in Key |->
            IF gate[k].count > row[k].count
            THEN forgotten[k] + (gate[k].count - row[k].count) ELSE forgotten[k]]
      /\ crossed' = {} /\ boots' = boots + 1 /\ boots < MaxBoots
      /\ rate' = [p \in Offers |-> [count |-> 0, start |-> None]]
      /\ next' = 0 /\ call' = [c \in Caller |-> Pool!Idle]
      /\ usage' = Queue!NoUsage /\ events' = << >>
      /\ served' = Queue!NoUsage /\ batch' = << >>
      /\ phase' = "idle" /\ cancelled' = FALSE /\ made' = row /\ late' = FALSE
      /\ UNCHANGED <<clock, exhausted, overBudget, draws, tokens, uses, turns, refused,
                     row, log, issued, calls, faults>>
    BY DEF Boot, history, store
<1>2. row \in [Key -> Queue!Rows] /\ Queue!Rows = Pool!Counter
    BY ConstantTypes DEF Queue!TypeOK, Queue!Rows, Queue!Start, Pool!Counter
<1>3. gate' = row
  <2>1. ASSUME NEW k \in Key PROVE LoadedGate(k) = row[k]
    BY <1>2 DEF LoadedGate, Queue!Rows
  <2> QED
    BY <1>1, <1>2, <2>1
<1>4. call' \in [Caller -> Pool!Calls] /\ DrawsKnow'
    BY <1>1, IdleType DEF DrawsKnow, Knows
<1>5. Pool!TypeOK'
  <2>1. rate' \in [Offers -> Pool!Counter] /\ next' \in Nat
    BY <1>1 DEF Pool!Counter
  <2> QED
    BY <1>1, <1>2, <1>3, <1>4, <2>1 DEF Pool!TypeOK
<1>6. Queue!TypeOK'
  <2>1. << >> \in Seq(1..issued) /\ Len(<< >>) <= MaxEvents
    BY QueueAssumption
  <2> QED
    BY <1>1, <2>1, EmptyChangesNothing DEF Queue!TypeOK
<1>7. QueueInv'
    BY <1>1, <1>6 DEF NothingInFlight, Settled
<1>8. Queue!Truth' = row
  <2>1. (Queue!TypeOK /\ usage = Queue!NoUsage /\ served = Queue!NoUsage => Queue!Truth = row)'
    BY EmptyQueueIsTruth, PTL
  <2> QED
    BY <1>1, <1>6, <2>1 DEF Queue!NoUsage, Queue!Empty
<1>9. ProcessType'
  <2>1. ASSUME NEW k \in Key PROVE forgotten'[k] \in Nat
    BY <1>1, <1>2 DEF Pool!TypeOK, Pool!Counter, ProcessType
  <2> QED
    BY <1>1, <2>1, BoundsAssumption DEF ProcessType
<1>10. \A c \in Caller, k \in Key : ~Holds(c, k)'
    BY <1>1, IdleType DEF Holds
<1>11. ASSUME NEW k \in Counts PROVE Kept(k)'
  <2>1. k \in Key /\ row[k] \in Queue!Rows /\ gate[k] \in Pool!Counter
    BY <1>2 DEF Counts, Limited, Pool!TypeOK
  <2>2. InHand(k)' = 0
    <3>1. {c \in Caller : Holds(c, k)'} = {}
      BY <1>10, <2>1
    <3> QED
      BY <3>1, FS_EmptySet DEF InHand
  <2>3. Told(k)' = row[k].count /\ row[k].count \in Nat
    BY <1>8, <2>1, <2>2 DEF Told, Queue!Rows
  <2>4. ASSUME k \in ForLife PROVE LifetimeKept(k)' /\ Covered(k)'
    <3>1. LifetimeKept(k)'
      BY <1>3, <2>3 DEF LifetimeKept
    <3>2. Covered(k)
      BY <2>4 DEF KeysKept, Kept
    <3>3. /\ row[k].count \in Nat /\ gate[k].count \in Nat /\ UsageLimit[k] \in Nat
          /\ forgotten[k] \in Nat
          /\ forgotten'[k] = IF gate[k].count > row[k].count
                THEN forgotten[k] + (gate[k].count - row[k].count) ELSE forgotten[k]
      BY <1>1, <2>1, ConstantTypes
      DEF Queue!Rows, Pool!Counter, Counts, ProcessType
    <3>4. SumFunction(uses[k]) \in Nat
      <4>1. uses[k] \in [Pool!Instant -> Nat] /\ clock \in Pool!Instant
        BY <2>1 DEF Pool!TypeOK
      <4> QED
        BY <4>1, OneMoreUse
    <3>5. Covered(k)'
      <4>1. uses'[k] = uses[k] /\ gate'[k].count = row[k].count
        BY <1>1, <1>3, <2>1
      <4>2. /\ SumFunction(uses[k]) <= gate[k].count + forgotten[k]
            /\ SumFunction(uses[k]) <= UsageLimit[k] + forgotten[k]
        BY <3>2 DEF Covered
      <4>3. /\ SumFunction(uses[k]) <= row[k].count + forgotten'[k]
            /\ SumFunction(uses[k]) <= UsageLimit[k] + forgotten'[k]
        BY <3>3, <3>4, <4>2
      <4> QED
        BY <4>1, <4>3 DEF Covered
    <3> QED
      BY <3>1, <3>5
  <2>5. WindowKept(k)'
    <3>1. row[k] = [count |-> Told(k)', start |-> Queue!Truth'[k].start]
      BY <1>8, <2>1, <2>3 DEF Queue!Rows
    <3> QED
      BY <1>3, <1>10, <2>1, <3>1 DEF WindowKept, Crossing
  <2> QED
    BY <2>4, <2>5 DEF Kept, ForLife
<1> QED
    BY <1>4, <1>5, <1>7, <1>9, <1>11 DEF KeysKept, Counts

-----------------------------------------------------------------------------
Inv == Pool!TypeOK /\ DrawsKnow /\ QueueInv /\ ProcessType /\ KeysKept

LEMMA InvInit == Init => Inv
<1> SUFFICES ASSUME Init PROVE Inv
    OBVIOUS
<1>1. Pool!TypeOK /\ DrawsKnow
    BY PoolInit DEF Init
<1>2. /\ QueueInv /\ Queue!Truth = row
      /\ row = [k \in Key |-> [count |-> 0, start |-> None]]
    BY QueueInit DEF Init, QueueInv, Settled, Queue!Init
<1>3. /\ gate = [k \in Key |-> [count |-> 0, start |-> None]]
      /\ uses = [k \in Key |-> [t \in Pool!Instant |-> 0]]
      /\ \A c \in Caller, k \in Key : ~Holds(c, k)
    BY IdleType DEF Init, Pool!Init, Holds
<1>4. ProcessType
    BY BoundsAssumption DEF Init, ProcessType
<1>5. ASSUME NEW k \in Counts PROVE Kept(k)
  <2>1. k \in Key /\ UsageLimit[k] \in Nat
    BY ConstantTypes DEF Counts, Limited
  <2>2. InHand(k) = 0
    BY <1>3, <2>1, HoldersCount
  <2>3. Told(k) = 0 /\ gate[k] = [count |-> 0, start |-> None] /\ Queue!Truth[k].start = None
    BY <1>2, <1>3, <2>1, <2>2 DEF Told
  <2>4. SumFunction(uses[k]) = 0
    <3>1. uses[k] = [t \in Pool!Instant |-> 0]
      BY <1>3, <2>1
    <3>2. IsFiniteSet(0..Horizon)
      BY BoundsAssumption, FS_Interval
    <3>3. IsFiniteSet(Pool!Instant) /\ \A t \in Pool!Instant : uses[k][t] = 0
      BY <3>1, <3>2 DEF Pool!Instant
    <3>4. SumFunctionOnSet(uses[k], Pool!Instant) = 0
      BY <3>3, SumOfZeros
    <3>5. DOMAIN uses[k] = Pool!Instant
      BY <3>1
    <3> QED
      BY <3>4, <3>5 DEF SumFunction, SumFunctionOnSet, FoldFunction
  <2>5. forgotten[k] = 0
    BY <2>1 DEF Init
  <2>6. LifetimeKept(k) /\ Covered(k)
    BY <2>1, <2>3, <2>4, <2>5 DEF LifetimeKept, Covered
  <2>7. WindowKept(k)
    BY <1>3, <2>1, <2>3 DEF WindowKept, Crossing
  <2> QED
    BY <2>6, <2>7 DEF Kept
<1> QED
    BY <1>1, <1>2, <1>4, <1>5 DEF Inv, KeysKept

LEMMA InvStep == Inv /\ [Next]_vars => Inv'
<1> SUFFICES ASSUME Inv, [Next]_vars PROVE Inv'
    OBVIOUS
<1> USE DEF Inv
<1>1. ASSUME UNCHANGED queue PROVE QueueInv' /\ Queue!Truth' = Queue!Truth /\ faults' = faults
    BY <1>1, OtherStepsKeepTruth DEF queue, store, QueueVars
<1>2. ASSUME UNCHANGED process PROVE ProcessType' /\ forgotten' = forgotten /\ crossed' = crossed
    BY <1>2 DEF process, ProcessType
<1>3. ASSUME UNCHANGED pool
      PROVE  Pool!TypeOK' /\ DrawsKnow' /\ SameHands /\ gate' = gate /\ uses' = uses
    BY <1>3 DEF pool, history, Pool!TypeOK, DrawsKnow, Knows, SameHands
<1>4. ASSUME NEW c \in Caller, Draw(c) PROVE Inv'
  <2>1. Pool!Draw(c) /\ UNCHANGED queue /\ UNCHANGED process
    BY <1>4 DEF Draw, OnlyPool
  <2>2. Pool!TypeOK' /\ DrawsKnow' /\ SameHands /\ gate' = gate /\ uses' = uses
    BY <2>1, DrawStarts
  <2> QED
    BY <1>1, <1>2, <2>1, <2>2, QuietKept
<1>5. ASSUME NEW c \in Caller, Decide(c) PROVE Inv'
  <2>1. /\ UNCHANGED queue /\ boots' = boots /\ forgotten' = forgotten
        /\ crossed' = crossed \cup {k \in Key : Crossing(k)'}
    BY <1>5 DEF Decide
  <2>2. ProcessType'
    BY <2>1 DEF ProcessType
  <2>3. /\ Pool!TypeOK' /\ DrawsKnow'
        /\ Uncounted \/ \E k \in Limited : Counted(c, k)
    BY <1>5, DecideCounts
  <2>4. CASE Uncounted
    <3>1. SameHands /\ \A k \in Counts : gate'[k] = gate[k] /\ uses'[k] = uses[k]
      BY <2>4 DEF Uncounted, Counts
    <3> QED
      BY <1>1, <2>1, <2>2, <2>3, <3>1, QuietKept
  <2>5. ASSUME NEW k \in Limited, Counted(c, k) PROVE Inv'
    BY <1>1, <2>1, <2>2, <2>3, <2>5, CountedKept
  <2> QED
    BY <2>3, <2>4, <2>5
<1>6. ASSUME NEW c \in Caller, Persist(c) PROVE Inv'
    BY <1>6, PersistKept
<1>7. ASSUME NEW c \in Caller, Respond(c) PROVE Inv'
  <2>1. Pool!TypeOK' /\ DrawsKnow' /\ SameHands /\ gate' = gate /\ uses' = uses
    BY <1>7, ReturnType DEF Respond
  <2>2. QueueInv' /\ Queue!Truth' = Queue!Truth /\ (faults' = 0 => faults = 0)
    <3>1. Queue!Event \/ UNCHANGED queue
      BY <1>7 DEF Respond
    <3> QED
      BY <1>1, <3>1, OtherStepsKeepTruth
  <2>3. UNCHANGED process
    BY <1>7 DEF Respond
  <2> QED
    BY <1>2, <2>1, <2>2, <2>3, QuietKept
<1>8. ASSUME Flush \/ Shutdown PROVE Inv'
  <2>1. UNCHANGED <<pool, process>>
    BY <1>8 DEF Flush, Shutdown, OnlyQueue
  <2>2. ASSUME NEW k \in Key, Queue!FlushKey(k) PROVE Inv'
    BY <1>2, <1>3, <2>1, <2>2, FlushKeyKept
  <2>3. ASSUME \/ Queue!TickFlush \/ Queue!FinalFlush \/ Queue!FlushEvents \/ Queue!FlushEnd
               \/ Queue!Cancel
        PROVE  Inv'
    <3>1. QueueInv' /\ Queue!Truth' = Queue!Truth /\ (faults' = 0 => faults = 0)
      BY <2>3, OtherStepsKeepTruth
    <3> QED
      BY <1>2, <1>3, <2>1, <3>1, QuietKept
  <2> QED
    BY <1>8, <2>2, <2>3 DEF Flush, Shutdown, Queue!FlushStep
<1>9. CASE Tick
  <2>1. Pool!Tick /\ UNCHANGED queue /\ UNCHANGED process
    BY <1>9 DEF Tick, OnlyPool
  <2>2. Pool!TypeOK' /\ DrawsKnow' /\ SameHands /\ gate' = gate /\ uses' = uses
    BY <2>1, TickType
  <2> QED
    BY <1>1, <1>2, <2>1, <2>2, QuietKept
<1>10. CASE Boot
    BY <1>10, BootKept
<1>11. CASE UNCHANGED vars
  <2>1. UNCHANGED pool /\ UNCHANGED queue /\ UNCHANGED process
    BY <1>11 DEF vars
  <2> QED
    BY <1>1, <1>2, <1>3, <2>1, QuietKept
<1> QED
    BY <1>4, <1>5, <1>6, <1>7, <1>8, <1>9, <1>10, <1>11 DEF Next

(* Both halves keep their types while they drive each other.               *)
THEOREM TypeCorrect == Spec => []TypeOK
<1>1. Inv => TypeOK
    BY DEF Inv, QueueInv, ProcessType, TypeOK
<1> QED
    BY <1>1, InvInit, InvStep, PTL DEF Spec

(* Of a key with a lifetime limit, the gate in memory counts what the row, *)
(* the flight, the queue and the hands of the draws count together: for    *)
(* any callers, whatever flushes fail, through shutdowns and crashes.      *)
THEOREM GatesAreAccountedFor == Spec => []GateIsAccountedFor
<1>1. Inv => GateIsAccountedFor
    BY DEF Inv, KeysKept, Kept, LifetimeKept, Told, Counts, ForLife, GateIsAccountedFor
<1> QED
    BY <1>1, InvInit, InvStep, PTL DEF Spec

(* Over any number of processes, a lifetime limit is overdrawn by no more  *)
(* than the serves that were not in the row when one of them ended.        *)
THEOREM LimitsOutliveCrashes == Spec => []LimitOutlivesCrashes
<1>1. Inv => LimitOutlivesCrashes
    BY DEF Inv, KeysKept, Kept, Covered, Counts, ForLife, LimitOutlivesCrashes
<1> QED
    BY <1>1, InvInit, InvStep, PTL DEF Spec

(* A process that is stopped, and whose store calls all answered, leaves   *)
(* in the row of a lifetime limit what its gate has counted.               *)
THEOREM StopsForgetNothing == Spec => []StopForgetsNothing
<1>1. Inv => StopForgetsNothing
  <2> SUFFICES ASSUME Inv, phase = "stopped", faults = 0, ~late, NEW k \in ForLife, InHand(k) = 0
               PROVE  row[k].count = gate[k].count
    BY DEF StopForgetsNothing
  <2>1. Queue!Truth = row
    BY EmptyQueueIsTruth DEF Inv, QueueInv, NothingInFlight, Settled
  <2>2. gate[k].count = Queue!Truth[k].count + InHand(k)
    BY DEF Inv, KeysKept, Kept, LifetimeKept, Told, Counts, ForLife
  <2>3. Queue!Truth[k].count \in Nat
    BY TruthType DEF Inv, QueueInv, Queue!Rows, ForLife, Limited
  <2> QED
    BY <2>1, <2>2, <2>3
<1> QED
    BY <1>1, InvInit, InvStep, PTL DEF Spec

(* Unless a draw that opens a window crosses another of its key, gate and  *)
(* queue have one window with one count, for any windows and callers.      *)
THEOREM WindowsReach == Spec => []WindowsReachTheQueue
<1>1. Inv => WindowsReachTheQueue
  <2> SUFFICES ASSUME Inv, NEW k \in Limited \ (crossed \cup LostReplies), InHand(k) = 0,
                      UsageLimit[k] > 0
               PROVE  gate[k] = Queue!Truth[k]
    BY DEF WindowsReachTheQueue
  <2>1. WindowKept(k)
    BY DEF Inv, KeysKept, Kept, Counts
  <2>2. \A c \in Caller : ~Holds(c, k)
    BY HoldersCount
  <2>3. Queue!Truth[k] \in Queue!Rows
    BY TruthType DEF Inv, QueueInv, Limited
  <2>4. gate[k] = [count |-> Queue!Truth[k].count + 0, start |-> Queue!Truth[k].start]
    BY <2>1, <2>2 DEF WindowKept, Told
  <2> QED
    BY <2>3, <2>4 DEF Queue!Rows
<1> QED
    BY <1>1, InvInit, InvStep, PTL DEF Spec
=============================================================================
