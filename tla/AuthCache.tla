----------------------------- MODULE AuthCache -----------------------------
(***************************************************************************)
(* internal/api: from a consumer's token to the tiers it may draw from.    *)
(*                                                                         *)
(* A call finds its caller in the cache, or reads the consumer, then its   *)
(* scopes, and caches the result for a minute: three steps with no lock    *)
(* around them.  An admin request commits its write and clears the whole   *)
(* cache when its handler has returned, just before the answer leaves.     *)
(*                                                                         *)
(* A token hash stands for its consumer: the hash is unique and minted     *)
(* with the consumer's id.  The admin token is compared, never looked up.  *)
(***************************************************************************)
EXTENDS Naturals, FiniteSets

CONSTANTS
    Call,       \* goroutines serving GET /key, POST /key/{id}/...
    Admin,      \* goroutines serving /admin/...
    Consumer, Tier,
    None,       \* nil
    MaxWrites   \* bound: admin requests made

ASSUME NoneAssumption == None \notin Consumer
ASSUME BoundsAssumption == MaxWrites \in Nat

VARIABLES
    status,   \* consumers: consumer -> "absent", "active" or "deleted"
    tiers,    \* tiers: those not deleted
    scopes,   \* consumer_scopes: consumer -> set of tiers
    entries,  \* AuthCache.entries: consumer -> entry, None when it has none
    call,     \* call -> where it is in consumerCaller
    admin,    \* admin -> the request it serves
    writes,   \* requests so far (bounded)
    clears,   \* history: times the cache was cleared
    revoked   \* history: consumers whose deletion has been answered

rows == <<status, tiers, scopes>>
history == <<clears, revoked>>
vars == <<rows, entries, call, admin, writes, history>>

Entry == [scopes : SUBSET Tier, expired : BOOLEAN, since : Nat]

PC == {"idle", "consumer", "scopes", "put", "admitted", "refused"}

Calls == [pc : PC, consumer : Consumer \cup {None}, scopes : SUBSET Tier,
          since : Nat,        \* history: clears when its lookup began
          barred : SUBSET Consumer]  \* history: those revoked by then

Idle == [pc |-> "idle", consumer |-> None, scopes |-> {}, since |-> 0, barred |-> {}]

Op == {"get", "post", "delete"}

Requests == [pc : {"idle", "handled"}, op : Op \cup {None},
             consumer : Consumer \cup {None}]  \* the one it deleted

NoRequest == [pc |-> "idle", op |-> None, consumer |-> None]

NoEntries == [u \in Consumer |-> None]

-----------------------------------------------------------------------------
Init ==
    /\ status = [u \in Consumer |-> "absent"]
    /\ tiers = Tier /\ scopes = [u \in Consumer |-> {}]
    /\ entries = NoEntries
    /\ call = [c \in Call |-> Idle] /\ admin = [a \in Admin |-> NoRequest]
    /\ writes = 0 /\ clears = 0 /\ revoked = {}

(* Mutant: an entry is good for as long as it is there.                    *)
Present(u) == entries[u] # None

Cached(u) == entries[u] # None /\ ~entries[u].expired

Becomes(c, lookup) == call' = [call EXCEPT ![c] = lookup]

(* consumerCaller begins: get, under the cache's read lock.                *)
Get(c, u) ==
    /\ call[c].pc = "idle"
    /\ LET begun == [Idle EXCEPT !.pc = "consumer", !.consumer = u,
                                 !.since = clears, !.barred = revoked]
       IN  Becomes(c, IF Cached(u)
                      THEN [begun EXCEPT !.pc = "admitted", !.scopes = entries[u].scopes]
                      ELSE begun)
    /\ UNCHANGED <<rows, entries, admin, writes, history>>

(* Mutant: the lookup takes any token's word.                              *)
AnyConsumer(u) == TRUE

Found(u) == status[u] = "active"

GetConsumerByTokenHash(c) ==
    /\ call[c].pc = "consumer"
    /\ LET next == IF Found(call[c].consumer) THEN "scopes" ELSE "refused"
       IN  Becomes(c, [call[c] EXCEPT !.pc = next])
    /\ UNCHANGED <<rows, entries, admin, writes, history>>

GetConsumerScopes(c) ==
    /\ call[c].pc = "scopes"
    /\ Becomes(c, [call[c] EXCEPT !.pc = "put", !.scopes = scopes[call[c].consumer]])
    /\ UNCHANGED <<rows, entries, admin, writes, history>>

LookupFails(c) ==
    /\ call[c].pc \in {"consumer", "scopes"}
    /\ Becomes(c, [call[c] EXCEPT !.pc = "refused"])
    /\ UNCHANGED <<rows, entries, admin, writes, history>>

Put(c) ==
    /\ call[c].pc = "put"
    /\ entries' = [entries EXCEPT ![call[c].consumer] =
            [scopes |-> call[c].scopes, expired |-> FALSE, since |-> call[c].since]]
    /\ Becomes(c, [call[c] EXCEPT !.pc = "admitted"])
    /\ UNCHANGED <<rows, admin, writes, history>>

Answer(c) ==
    /\ call[c].pc \in {"admitted", "refused"}
    /\ Becomes(c, Idle)
    /\ UNCHANGED <<rows, entries, admin, writes, history>>

(* A minute passes after a put.                                            *)
Expire(u) ==
    /\ Cached(u)
    /\ entries' = [entries EXCEPT ![u].expired = TRUE]
    /\ UNCHANGED <<rows, call, admin, writes, history>>

-----------------------------------------------------------------------------
(* An admin handler runs to its end: its write has committed, or failed.   *)
Handle(a, op, u) ==
    /\ admin[a].pc = "idle"
    /\ writes < MaxWrites /\ writes' = writes + 1
    /\ admin' = [admin EXCEPT ![a] = [pc |-> "handled", op |-> op, consumer |-> u]]
    /\ UNCHANGED <<entries, call, history>>

CreateConsumer(a, u) ==
    /\ Handle(a, "post", None)
    /\ status[u] = "absent"
    /\ status' = [status EXCEPT ![u] = "active"]
    /\ UNCHANGED <<tiers, scopes>>

(* Its scopes and its row go in one transaction.                           *)
DeleteConsumer(a, u) ==
    /\ Handle(a, "delete", u)
    /\ status[u] = "active"
    /\ status' = [status EXCEPT ![u] = "deleted"]
    /\ scopes' = [scopes EXCEPT ![u] = {}]
    /\ UNCHANGED tiers

(* The references of consumer_scopes refuse a deleted consumer or tier.    *)
AddConsumerScope(a, u, t) ==
    /\ Handle(a, "post", None)
    /\ status[u] = "active" /\ t \in tiers
    /\ scopes' = [scopes EXCEPT ![u] = @ \cup {t}]
    /\ UNCHANGED <<status, tiers>>

(* The tier takes its rows of consumer_scopes with it.                     *)
DeleteTier(a, t) ==
    /\ Handle(a, "delete", None)
    /\ t \in tiers
    /\ tiers' = tiers \ {t}
    /\ scopes' = [u \in Consumer |-> scopes[u] \ {t}]
    /\ UNCHANGED status

(* A request that writes nothing of this: a read, another route, a failure.*)
OtherRequest(a, op) ==
    /\ Handle(a, op, None)
    /\ UNCHANGED rows

(* Mutant: only a DELETE clears.                                           *)
DeletesOnly(op) == op = "delete"

ClearsAfter(op) == op # "get"

(* clearAfterWrite, once the handler has returned; the answer then leaves. *)
ClearAfterWrite(a) ==
    /\ admin[a].pc = "handled"
    /\ IF ClearsAfter(admin[a].op) THEN entries' = NoEntries /\ clears' = clears + 1
                                   ELSE UNCHANGED <<entries, clears>>
    /\ revoked' = revoked \cup ({admin[a].consumer} \ {None})
    /\ admin' = [admin EXCEPT ![a] = NoRequest]
    /\ UNCHANGED <<rows, call, writes>>

-----------------------------------------------------------------------------
Lookup(c) ==
    \/ GetConsumerByTokenHash(c) \/ GetConsumerScopes(c) \/ LookupFails(c) \/ Put(c)
    \/ Answer(c)

Write(a) ==
    \/ \E u \in Consumer : CreateConsumer(a, u) \/ DeleteConsumer(a, u)
    \/ \E u \in Consumer, t \in Tier : AddConsumerScope(a, u, t)
    \/ \E t \in Tier : DeleteTier(a, t)
    \/ \E op \in Op : OtherRequest(a, op)

Next ==
    \/ \E c \in Call : Lookup(c) \/ \E u \in Consumer : Get(c, u)
    \/ \E a \in Admin : Write(a) \/ ClearAfterWrite(a)
    \/ \E u \in Consumer : Expire(u)

Spec == Init /\ [][Next]_vars

(* Lookups and admin requests run on, and time passes.                     *)
Fairness ==
    /\ \A c \in Call : WF_vars(Lookup(c))
    /\ \A a \in Admin : WF_vars(ClearAfterWrite(a))
    /\ \A u \in Consumer : WF_vars(Expire(u))

FairSpec == Spec /\ Fairness

-----------------------------------------------------------------------------
(* Every variable has its type, and nobody is cached who never existed.    *)
TypeOK ==
    /\ status \in [Consumer -> {"absent", "active", "deleted"}]
    /\ tiers \subseteq Tier /\ scopes \in [Consumer -> SUBSET Tier]
    /\ entries \in [Consumer -> Entry \cup {None}]
    /\ call \in [Call -> Calls] /\ admin \in [Admin -> Requests]
    /\ writes \in 0..MaxWrites /\ clears \in Nat
    /\ revoked \subseteq Consumer
    /\ \A u \in Consumer : status[u] = "absent" => entries[u] = None

Settled == \A a \in Admin : admin[a].pc = "idle"

(* While no admin request is between its write and its answer, what the    *)
(* cache holds is what the tables say, but for entries whose lookup began  *)
(* before the last clear (consumerCaller, clearAfterWrite): a lookup that  *)
(* no write overlaps is never wrong, torn between its two reads or stale.  *)
FreshUnlessStraddled ==
    Settled => \A u \in Consumer :
        entries[u] # None /\ entries[u].since = clears =>
            status[u] = "active" /\ entries[u].scopes = scopes[u]

(* A deleted consumer is locked out for good in the end: the entry that a  *)
(* lookup may put back after the clear runs out, and none follows it.      *)
RevocationLands ==
    \A u \in Consumer : status[u] = "deleted" ~>
        [](\A c \in Call : call[c].consumer = u => call[c].pc # "admitted")

(* The cache's promise: a call that begins after the deletion of its       *)
(* consumer was answered is refused.                                       *)
RevocationHolds ==
    \A c \in Call : call[c].consumer \in call[c].barred => call[c].pc # "admitted"
=============================================================================
