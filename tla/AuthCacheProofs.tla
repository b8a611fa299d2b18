-------------------------- MODULE AuthCacheProofs --------------------------
(***************************************************************************)
(* Theorems about AuthCache, for any consumers, tiers, callers and admins. *)
(***************************************************************************)
EXTENDS AuthCache, TLAPS

(* A lookup past its first read knows a consumer that exists or existed.   *)
Known ==
    \A c \in Call :
        /\ call[c].pc \in {"consumer", "scopes", "put"} => call[c].consumer \in Consumer
        /\ call[c].pc \in {"scopes", "put"} => status[call[c].consumer] # "absent"

(* Some admin request has committed, or may have, and has not cleared yet. *)
Dirty == \E a \in Admin : admin[a].pc = "handled" /\ ClearsAfter(admin[a].op)

(* What an entry, or a lookup under way, claims of the tables: it holds    *)
(* while nothing is dirty, for the entries and lookups no clear divides    *)
(* from now.                                                               *)
EntryTrue(u) ==
    entries[u] # None /\ entries[u].since = clears =>
        status[u] = "active" /\ entries[u].scopes = scopes[u]

LookupTrue(c) ==
    call[c].pc \in {"scopes", "put"} /\ call[c].since = clears =>
        /\ status[call[c].consumer] = "active"
        /\ call[c].pc = "put" => call[c].scopes = scopes[call[c].consumer]

Clean == ~Dirty => (\A u \in Consumer : EntryTrue(u)) /\ (\A c \in Call : LookupTrue(c))

Past ==
    /\ \A u \in Consumer : entries[u] # None => entries[u].since <= clears
    /\ \A c \in Call : call[c].since <= clears

IInv == TypeOK /\ Known /\ Past /\ Clean

-----------------------------------------------------------------------------
LEMMA IdleType == Idle \in Calls /\ Idle.pc = "idle" /\ Idle.since = 0
BY DEF Idle, Calls, PC

LEMMA NoRequestType == NoRequest \in Requests /\ NoRequest.pc = "idle"
BY DEF NoRequest, Requests

LEMMA StartsRight == Init => IInv
<1> SUFFICES ASSUME Init PROVE IInv
    OBVIOUS
<1>1. \A c \in Call : call[c] = Idle /\ call[c].pc = "idle" /\ call[c].since = 0
    BY IdleType DEF Init
<1>2. \A u \in Consumer : entries[u] = None
    BY DEF Init, NoEntries
<1>3. /\ entries \in [Consumer -> Entry \cup {None}]
      /\ call \in [Call -> Calls] /\ admin \in [Admin -> Requests]
    BY IdleType, NoRequestType DEF Init, NoEntries
<1>4. TypeOK
    BY <1>2, <1>3, BoundsAssumption DEF Init, TypeOK
<1> QED
    BY <1>1, <1>2, <1>4 DEF IInv, Known, Past, Clean, EntryTrue, LookupTrue, Init

(* A step of one call leaves the others as they were.                      *)
LEMMA OnlyOneCall ==
    ASSUME TypeOK, NEW c \in Call, NEW lookup \in Calls, Becomes(c, lookup)
    PROVE  /\ call' \in [Call -> Calls]
           /\ call'[c] = lookup
           /\ \A d \in Call \ {c} : call'[d] = call[d]
BY DEF Becomes, TypeOK

Others(c) == call' \in [Call -> Calls] /\ \A d \in Call \ {c} : call'[d] = call[d]

(* What each step makes of its call.                                       *)
LEMMA GetStep ==
    ASSUME IInv, NEW c \in Call, NEW u \in Consumer, Get(c, u)
    PROVE  /\ Others(c) /\ call'[c].since = clears
           /\ \/ call'[c].pc = "admitted"
              \/ call'[c].pc = "consumer" /\ call'[c].consumer = u
<1> DEFINE begun == [Idle EXCEPT !.pc = "consumer", !.consumer = u,
                                 !.since = clears, !.barred = revoked]
           hit == [begun EXCEPT !.pc = "admitted", !.scopes = entries[u].scopes]
<1>1. begun \in Calls /\ begun.since = clears /\ begun.pc = "consumer" /\ begun.consumer = u
    BY DEF IInv, TypeOK, Idle, Calls, PC
<1> HIDE DEF begun
<1>2. CASE Cached(u)
  <2>1. entries[u].scopes \in SUBSET Tier
    BY <1>2 DEF IInv, TypeOK, Cached, Entry
  <2>2. hit \in Calls /\ hit.since = clears /\ hit.pc = "admitted"
    BY <1>1, <2>1 DEF Calls, PC
  <2>3. Becomes(c, hit)
    BY <1>2 DEF Get, begun
  <2> QED
    BY <2>2, <2>3, OnlyOneCall DEF IInv, Others
<1>3. CASE ~Cached(u)
  <2>1. Becomes(c, begun)
    BY <1>3 DEF Get, begun
  <2> QED
    BY <1>1, <2>1, OnlyOneCall DEF IInv, Others
<1> QED
    BY <1>2, <1>3

(* A lookup that moves on, keeping whom it is for and when it began.       *)
Same(c) == call'[c].consumer = call[c].consumer /\ call'[c].since = call[c].since

LEMMA MoveOn ==
    ASSUME TypeOK, NEW c \in Call, NEW pc \in PC, Becomes(c, [call[c] EXCEPT !.pc = pc])
    PROVE  Others(c) /\ Same(c) /\ call'[c].pc = pc /\ call'[c].scopes = call[c].scopes
<1> DEFINE next == [call[c] EXCEPT !.pc = pc]
<1>1. /\ next \in Calls /\ next.pc = pc /\ next.consumer = call[c].consumer
      /\ next.since = call[c].since /\ next.scopes = call[c].scopes
    BY DEF TypeOK, Calls
<1> HIDE DEF next
<1>2. Becomes(c, next)
    BY DEF next
<1> QED
    BY <1>1, <1>2, OnlyOneCall DEF Others, Same

LEMMA ReadScopes ==
    ASSUME IInv, NEW c \in Call, GetConsumerScopes(c)
    PROVE  /\ Others(c) /\ Same(c) /\ call'[c].pc = "put"
           /\ call'[c].scopes = scopes[call[c].consumer]
<1> DEFINE next == [call[c] EXCEPT !.pc = "put", !.scopes = scopes[call[c].consumer]]
<1>1. scopes[call[c].consumer] \in SUBSET Tier
    BY DEF IInv, Known, TypeOK, GetConsumerScopes
<1>2. /\ next \in Calls /\ next.pc = "put" /\ next.consumer = call[c].consumer
      /\ next.since = call[c].since /\ next.scopes = scopes[call[c].consumer]
    BY <1>1 DEF IInv, TypeOK, Calls, PC
<1> HIDE DEF next
<1>3. Becomes(c, next)
    BY DEF GetConsumerScopes, next
<1> QED
    BY <1>2, <1>3, OnlyOneCall DEF IInv, Others, Same

-----------------------------------------------------------------------------
(* A step of one lookup keeps the invariant if what the lookup then claims *)
(* and what it puts in the cache do.                                       *)
LEMMA LookupStep ==
    ASSUME IInv, NEW c \in Call, Others(c), call'[c].since \in 0..clears,
           UNCHANGED <<rows, admin, writes, history>>,
           call'[c].pc \in {"consumer", "scopes", "put"} => call'[c].consumer \in Consumer,
           call'[c].pc \in {"scopes", "put"} => status[call'[c].consumer] # "absent",
           ~Dirty => LookupTrue(c)',
           \/ entries' = entries
           \/ \E u \in Consumer, e \in Entry :
                /\ entries' = [entries EXCEPT ![u] = e]
                /\ status[u] # "absent" /\ e.since <= clears
                /\ ~Dirty /\ e.since = clears => status[u] = "active" /\ e.scopes = scopes[u]
    PROVE  IInv'
<1> USE DEF rows, history
<1>1. TypeOK'
    BY DEF IInv, TypeOK, Others
<1>2. Known'
    BY DEF IInv, Known, Others
<1>3. Past'
  <2>1. \A d \in Call : call'[d].since <= clears
    BY DEF IInv, Past, Others, TypeOK
  <2>2. \A u \in Consumer : entries'[u] # None => entries'[u].since <= clears
    BY DEF IInv, Past, TypeOK
  <2> QED
    BY <2>1, <2>2 DEF Past
<1>4. Clean'
  <2> SUFFICES ASSUME ~Dirty'
               PROVE  (\A u \in Consumer : EntryTrue(u)') /\ (\A d \in Call : LookupTrue(d)')
    BY DEF Clean
  <2>1. ~Dirty
    BY DEF Dirty
  <2>2. \A u \in Consumer : EntryTrue(u)'
    BY <2>1 DEF IInv, Clean, EntryTrue, TypeOK
  <2>3. \A d \in Call : LookupTrue(d)'
    BY <2>1 DEF IInv, Clean, LookupTrue, Others
  <2> QED
    BY <2>2, <2>3
<1> QED
    BY <1>1, <1>2, <1>3, <1>4 DEF IInv

LEMMA CallStep ==
    ASSUME IInv, NEW c \in Call, Lookup(c) \/ \E u \in Consumer : Get(c, u)
    PROVE  IInv'
<1> USE DEF rows, history
<1>0. TypeOK /\ Known /\ Past /\ Clean
    BY DEF IInv
<1>1. CASE \E u \in Consumer : Get(c, u)
  <2> PICK u \in Consumer : Get(c, u)
    BY <1>1
  <2>1. /\ Others(c) /\ call'[c].since = clears
        /\ \/ call'[c].pc = "admitted"
           \/ call'[c].pc = "consumer" /\ call'[c].consumer = u
    BY GetStep
  <2>2. clears \in 0..clears
    BY <1>0 DEF TypeOK
  <2> QED
    BY <2>1, <2>2, LookupStep DEF Get, LookupTrue
<1>2. CASE GetConsumerByTokenHash(c)
  <2> DEFINE next == IF Found(call[c].consumer) THEN "scopes" ELSE "refused"
  <2>1. next \in PC /\ Becomes(c, [call[c] EXCEPT !.pc = next])
    BY <1>2 DEF GetConsumerByTokenHash, PC
  <2>2. Others(c) /\ Same(c) /\ call'[c].pc = next
    BY <1>0, <2>1, MoveOn
  <2>3. call[c].consumer \in Consumer /\ call[c].since \in 0..clears
    BY <1>0, <1>2 DEF GetConsumerByTokenHash, Known, Past, TypeOK, Calls
  <2>4. call'[c].pc = "scopes" => status[call'[c].consumer] = "active"
    BY <2>2 DEF Found, Same
  <2>5. status' = status /\ call'[c].pc \in {"scopes", "refused"}
    BY <1>2, <2>2 DEF GetConsumerByTokenHash
  <2>6. LookupTrue(c)'
    BY <2>4, <2>5 DEF LookupTrue
  <2> QED
    BY <1>2, <2>2, <2>3, <2>4, <2>5, <2>6, LookupStep DEF GetConsumerByTokenHash, Same
<1>3. CASE GetConsumerScopes(c)
  <2>1. /\ Others(c) /\ Same(c) /\ call'[c].pc = "put"
        /\ call'[c].scopes = scopes[call[c].consumer]
    BY <1>3, ReadScopes
  <2>2. /\ call[c].consumer \in Consumer /\ call[c].since \in 0..clears
        /\ status[call[c].consumer] # "absent"
    BY <1>0, <1>3 DEF GetConsumerScopes, Known, Past, TypeOK, Calls
  <2>3. ~Dirty => LookupTrue(c)'
    BY <1>0, <1>3, <2>1 DEF Clean, LookupTrue, GetConsumerScopes, Same
  <2> QED
    BY <1>3, <2>1, <2>2, <2>3, LookupStep DEF GetConsumerScopes, Same
<1>4. CASE LookupFails(c)
  <2>1. Others(c) /\ Same(c) /\ call'[c].pc = "refused"
    BY <1>0, <1>4, MoveOn DEF LookupFails, PC
  <2>2. call[c].since \in 0..clears
    BY <1>0 DEF Past, TypeOK, Calls
  <2> QED
    BY <1>4, <2>1, <2>2, LookupStep DEF LookupFails, Same, LookupTrue
<1>5. CASE Put(c)
  <2> DEFINE u == call[c].consumer
             e == [scopes |-> call[c].scopes, expired |-> FALSE, since |-> call[c].since]
  <2>1. Others(c) /\ Same(c) /\ call'[c].pc = "admitted"
    BY <1>0, <1>5, MoveOn DEF Put, PC
  <2>2. call[c] \in Calls /\ call[c].since \in 0..clears
    BY <1>0 DEF Past, TypeOK, Calls
  <2>3. u \in Consumer /\ e \in Entry /\ status[u] # "absent" /\ e.since <= clears
    BY <1>0, <1>5, <2>2 DEF Put, Known, Calls, Entry
  <2>4. ~Dirty /\ e.since = clears => status[u] = "active" /\ e.scopes = scopes[u]
    BY <1>0, <1>5 DEF Put, Clean, LookupTrue
  <2>5. entries' = [entries EXCEPT ![u] = e]
    BY <1>5 DEF Put
  <2> HIDE DEF u, e
  <2> QED
    BY <1>5, <2>1, <2>2, <2>3, <2>4, <2>5, LookupStep DEF Put, Same, LookupTrue
<1>6. CASE Answer(c)
  <2>1. Others(c) /\ call'[c].since = 0 /\ call'[c].pc = "idle"
    BY <1>0, <1>6, IdleType, OnlyOneCall DEF Answer, Others
  <2>2. 0 \in 0..clears
    BY <1>0 DEF TypeOK
  <2> QED
    BY <1>6, <2>1, <2>2, LookupStep DEF Answer, LookupTrue
<1> QED
    BY <1>1, <1>2, <1>3, <1>4, <1>5, <1>6 DEF Lookup

-----------------------------------------------------------------------------
(* A request that has been handled is dirty, unless it was a read.         *)
LEMMA HandleStep ==
    ASSUME IInv, NEW a \in Admin, NEW op \in Op, NEW u \in Consumer \cup {None},
           Handle(a, op, u),
           status' \in [Consumer -> {"absent", "active", "deleted"}],
           tiers' \subseteq Tier, scopes' \in [Consumer -> SUBSET Tier],
           \A v \in Consumer : status'[v] = "absent" => status[v] = "absent",
           op = "get" => UNCHANGED rows
    PROVE  IInv'
<1> USE DEF rows, history
<1>0. TypeOK /\ Known /\ Past /\ Clean
    BY DEF IInv
<1> DEFINE request == [pc |-> "handled", op |-> op, consumer |-> u]
<1>1. request \in Requests /\ request.pc = "handled" /\ request.op = op
    BY DEF Requests
<1> HIDE DEF request
<1>2. /\ admin' = [admin EXCEPT ![a] = request]
      /\ UNCHANGED <<entries, call, history>> /\ writes' = writes + 1 /\ writes < MaxWrites
      /\ admin[a].pc = "idle"
    BY DEF Handle, request
<1>3. admin' \in [Admin -> Requests] /\ admin'[a] = request
    BY <1>0, <1>1, <1>2 DEF TypeOK
<1>4. TypeOK'
    BY <1>0, <1>2, <1>3, BoundsAssumption DEF TypeOK
<1>5. Known'
    BY <1>0, <1>2 DEF Known
<1>6. Past'
    BY <1>0, <1>2 DEF Past
<1>7. CASE op = "get"
  <2>1. Dirty' => Dirty
    BY <1>0, <1>1, <1>2, <1>3, <1>7 DEF Dirty, ClearsAfter, TypeOK
  <2>2. Dirty => Dirty'
    BY <1>0, <1>2 DEF Dirty, TypeOK
  <2>3. Clean'
    BY <1>0, <1>2, <1>7, <2>1, <2>2 DEF Clean, EntryTrue, LookupTrue
  <2> QED
    BY <1>4, <1>5, <1>6, <2>3 DEF IInv
<1>8. CASE op # "get"
  <2>1. Dirty'
    BY <1>1, <1>3, <1>8 DEF Dirty, ClearsAfter
  <2> QED
    BY <1>4, <1>5, <1>6, <2>1 DEF IInv, Clean
<1> QED
    BY <1>7, <1>8

LEMMA WriteStep == ASSUME IInv, NEW a \in Admin, Write(a) PROVE IInv'
<1>0. TypeOK
    BY DEF IInv
<1> USE DEF rows
<1>1. ASSUME NEW u \in Consumer, CreateConsumer(a, u) PROVE IInv'
  <2>1. /\ status' = [status EXCEPT ![u] = "active"] /\ UNCHANGED <<tiers, scopes>>
        /\ Handle(a, "post", None)
    BY <1>1 DEF CreateConsumer
  <2>2. /\ status' \in [Consumer -> {"absent", "active", "deleted"}]
        /\ \A v \in Consumer : status'[v] = "absent" => status[v] = "absent"
    BY <1>0, <2>1 DEF TypeOK
  <2> QED
    BY <1>0, <2>1, <2>2, HandleStep DEF TypeOK, Op
<1>2. ASSUME NEW u \in Consumer, DeleteConsumer(a, u) PROVE IInv'
  <2>1. /\ status' = [status EXCEPT ![u] = "deleted"] /\ tiers' = tiers
        /\ scopes' = [scopes EXCEPT ![u] = {}] /\ Handle(a, "delete", u)
    BY <1>2 DEF DeleteConsumer
  <2>2. /\ status' \in [Consumer -> {"absent", "active", "deleted"}]
        /\ \A v \in Consumer : status'[v] = "absent" => status[v] = "absent"
        /\ scopes' \in [Consumer -> SUBSET Tier]
    BY <1>0, <2>1 DEF TypeOK
  <2> QED
    BY <1>0, <2>1, <2>2, HandleStep DEF TypeOK, Op
<1>3. ASSUME NEW u \in Consumer, NEW t \in Tier, AddConsumerScope(a, u, t) PROVE IInv'
  <2>1. /\ UNCHANGED <<status, tiers>> /\ Handle(a, "post", None)
        /\ scopes' = [scopes EXCEPT ![u] = @ \cup {t}]
    BY <1>3 DEF AddConsumerScope
  <2>2. scopes' \in [Consumer -> SUBSET Tier]
    BY <1>0, <2>1 DEF TypeOK
  <2> QED
    BY <1>0, <2>1, <2>2, HandleStep DEF TypeOK, Op
<1>4. ASSUME NEW t \in Tier, DeleteTier(a, t) PROVE IInv'
  <2>1. /\ status' = status /\ tiers' = tiers \ {t} /\ Handle(a, "delete", None)
        /\ scopes' = [u \in Consumer |-> scopes[u] \ {t}]
    BY <1>4 DEF DeleteTier
  <2>2. scopes' \in [Consumer -> SUBSET Tier] /\ tiers' \subseteq Tier
    BY <1>0, <2>1 DEF TypeOK
  <2> QED
    BY <1>0, <2>1, <2>2, HandleStep DEF TypeOK, Op
<1>5. ASSUME NEW op \in Op, OtherRequest(a, op) PROVE IInv'
  <2>1. Handle(a, op, None) /\ UNCHANGED <<status, tiers, scopes>>
    BY <1>5 DEF OtherRequest
  <2> QED
    BY <1>0, <2>1, HandleStep DEF TypeOK
<1> QED
    BY <1>1, <1>2, <1>3, <1>4, <1>5 DEF Write

(* The clear takes every entry, and divides every lookup under way from    *)
(* what comes after it.                                                    *)
LEMMA ClearStep == ASSUME IInv, NEW a \in Admin, ClearAfterWrite(a) PROVE IInv'
<1> USE DEF rows, history
<1>0. TypeOK /\ Known /\ Past /\ Clean
    BY DEF IInv
<1>1. /\ admin' = [admin EXCEPT ![a] = NoRequest] /\ UNCHANGED <<rows, call, writes>>
      /\ admin[a].pc = "handled"
    BY DEF ClearAfterWrite
<1>2. admin' \in [Admin -> Requests] /\ revoked' \subseteq Consumer
    BY <1>0, <1>1, NoRequestType DEF ClearAfterWrite, TypeOK, Requests
<1>3. Known'
    BY <1>0, <1>1 DEF Known
<1>4. CASE ClearsAfter(admin[a].op)
  <2>1. entries' = NoEntries /\ clears' = clears + 1
    BY <1>4 DEF ClearAfterWrite
  <2>2. \A u \in Consumer : entries'[u] = None
    BY <2>1 DEF NoEntries
  <2>3. \A c \in Call : call'[c].since <= clears' /\ call'[c].since # clears'
    BY <1>0, <1>1, <2>1 DEF Past, TypeOK, Calls
  <2>4. TypeOK'
    BY <1>0, <1>1, <1>2, <2>1, <2>2 DEF TypeOK, NoEntries
  <2>5. Past' /\ Clean'
    BY <2>2, <2>3 DEF Past, Clean, EntryTrue, LookupTrue
  <2> QED
    BY <1>3, <2>4, <2>5 DEF IInv
<1>5. CASE ~ClearsAfter(admin[a].op)
  <2>1. UNCHANGED <<entries, clears>>
    BY <1>5 DEF ClearAfterWrite
  <2>2. Dirty => Dirty'
    BY <1>0, <1>1, <1>5 DEF Dirty, TypeOK, ClearsAfter
  <2>3. TypeOK'
    BY <1>0, <1>1, <1>2, <2>1 DEF TypeOK
  <2>4. Past' /\ Clean'
    BY <1>0, <1>1, <2>1, <2>2 DEF Past, Clean, EntryTrue, LookupTrue
  <2> QED
    BY <1>3, <2>3, <2>4 DEF IInv
<1> QED
    BY <1>4, <1>5

LEMMA ExpireStep == ASSUME IInv, NEW u \in Consumer, Expire(u) PROVE IInv'
<1> USE DEF rows, history
<1>0. TypeOK /\ Known /\ Past /\ Clean
    BY DEF IInv
<1> DEFINE e == [entries[u] EXCEPT !.expired = TRUE]
<1>1. entries[u] \in Entry /\ entries[u] # None
    BY <1>0 DEF Expire, Cached, TypeOK
<1>2. e \in Entry /\ e.since = entries[u].since /\ e.scopes = entries[u].scopes
    BY <1>1 DEF Entry
<1>3. entries' = [entries EXCEPT ![u] = e]
    BY DEF Expire
<1> HIDE DEF e
<1>4. /\ UNCHANGED <<rows, call, admin, writes, history>> /\ (Dirty' <=> Dirty)
      /\ status[u] # "absent"
    BY <1>0, <1>1 DEF Expire, Dirty, TypeOK
<1>5. TypeOK'
    BY <1>0, <1>2, <1>3, <1>4 DEF TypeOK
<1>6. Known' /\ Past'
    BY <1>0, <1>1, <1>2, <1>3, <1>4 DEF Known, Past, TypeOK
<1>7. Clean'
    BY <1>0, <1>1, <1>2, <1>3, <1>4 DEF Clean, EntryTrue, LookupTrue, TypeOK
<1> QED
    BY <1>5, <1>6, <1>7 DEF IInv

LEMMA StaysRight == IInv /\ [Next]_vars => IInv'
<1> SUFFICES ASSUME IInv, [Next]_vars PROVE IInv'
    OBVIOUS
<1>1. CASE UNCHANGED vars
    BY <1>1 DEF vars, rows, history, IInv, TypeOK, Known, Past, Clean, Dirty, EntryTrue, LookupTrue
<1> QED
    BY <1>1, CallStep, WriteStep, ClearStep, ExpireStep DEF Next

LEMMA Invariant == Spec => []IInv
BY StartsRight, StaysRight, PTL DEF Spec

(* For any number of consumers, tiers, calls and admin requests at once,   *)
(* the cache only ever holds callers, and none for a token nobody has.     *)
THEOREM TypeCorrect == Spec => []TypeOK
<1>1. IInv => TypeOK
    BY DEF IInv
<1> QED
    BY <1>1, Invariant, PTL

(* An entry is never wrong but for a lookup that an admin write overlapped *)
(* (consumerCaller, clearAfterWrite): clearing after the handler, not      *)
(* before it, is what makes this so.                                       *)
THEOREM CacheIsFresh == Spec => []FreshUnlessStraddled
<1>1. IInv => FreshUnlessStraddled
    BY DEF IInv, Clean, Dirty, Settled, FreshUnlessStraddled, EntryTrue
<1> QED
    BY <1>1, Invariant, PTL
=============================================================================
