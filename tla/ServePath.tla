----------------------------- MODULE ServePath -----------------------------
(***************************************************************************)
(* GET /key from draw to database: the pool (KeyPool) decides from its own *)
(* counts, hands each to the write-back queue (Writeback), and reads them  *)
(* back from the rows when the process boots (api/keys.go, persistUsage,   *)
(* NewManager).  The gate of a key in memory and its row are two counts of *)
(* the same serves; here is what keeps them together, and what does not.   *)
(*                                                                         *)
(* The process may die at any step, and it may be asked to stop: it then   *)
(* answers the draws it has, flushes, and exits.                           *)
(***************************************************************************)
EXTENDS Integers, FiniteSets, Sequences, Functions

CONSTANTS
    Caller, Key, Feature, Tier, None,
    Rank, KeyTier, Offers, RateLimit, RateWindow, UsageLimit, UsageWindow, ExpiresAt,
    Scopes, Horizon, MaxDraws,              \* as in KeyPool
    MaxEvents, LostReplies, LostCopies, Overrun, MaxCalls, MaxFaults,  \* as in Writeback
    MaxBoots                                \* bound: times the process is started again

ASSUME NoneAssumption == None \notin Nat \cup Key
ASSUME CallerAssumption == IsFiniteSet(Caller)
ASSUME PoolAssumption ==
    /\ Offers \subseteq Key \X Feature /\ Scopes \subseteq SUBSET Tier
    /\ RateLimit \in [Offers -> Nat] /\ RateWindow \in [Offers -> Nat \ {0}]
    /\ UsageLimit \in [Key -> Nat \cup {None}] /\ UsageWindow \in [Key -> Nat]
ASSUME QueueAssumption == MaxEvents \in Nat \ {0} /\ LostReplies \subseteq Key
ASSUME BoundsAssumption ==
    /\ Horizon \in Nat /\ MaxDraws \in Nat
    /\ MaxCalls \in Nat /\ MaxFaults \in Nat /\ MaxBoots \in Nat

VARIABLES
    clock, next, rate, gate, exhausted, overBudget, call, draws,
    tokens, uses, turns, refused,           \* the pool: see KeyPool
    usage, events, served, batch, phase, cancelled, row, log,
    issued, calls, faults, made, late,      \* the queue: see Writeback
    boots,     \* boots so far after the first (bounded)
    forgotten, \* history: key -> serves in no row when a process ended
    crossed    \* history: keys with another draw in hand as one opened a window

Pool == INSTANCE KeyPool WITH Pool <- Key, Untils <- {}

Queue == INSTANCE Writeback WITH Time <- 0..Horizon

history == <<tokens, uses, turns, refused>>
pool == <<clock, next, rate, gate, exhausted, overBudget, call, draws, history>>
store == <<row, log>>
queue == <<usage, events, served, batch, phase, cancelled, store, issued, calls, faults, made, late>>
process == <<boots, forgotten, crossed>>
vars == <<pool, queue, process>>

-----------------------------------------------------------------------------
Init ==
    /\ Pool!Init /\ Queue!Init
    /\ boots = 0 /\ forgotten = [k \in Key |-> 0] /\ crossed = {}

OnlyPool == UNCHANGED <<queue, process>>
OnlyQueue == UNCHANGED <<pool, process>>

(* Counted at the gate of k, and the queue not told yet.                   *)
Holds(c, k) == call[c].pc = "persist" /\ call[c].key = k

(* Mutant: a window that opened is counted like any other serve.           *)
NeverOpened(c) == FALSE

DidReset(c) == call[c].opened # None

Crossing(k) == \E c, d \in Caller : c # d /\ Holds(c, k) /\ Holds(d, k) /\ DidReset(c)

(* The server takes requests until it is told to stop.                     *)
Draw(c) == ~cancelled /\ Pool!Draw(c) /\ OnlyPool

Decide(c) ==
    /\ Pool!Pick(c) \/ Pool!GiveUp(c) \/ Pool!TryRate(c) \/ Pool!ServeUnlimited(c)
       \/ Pool!TryConsumeUsage(c)
    /\ crossed' = crossed \cup {k \in Key : Crossing(k)'}
    /\ UNCHANGED <<queue, boots, forgotten>>

(* persistUsage: what the draw found at the gate, told to the queue.       *)
Persist(c) ==
    /\ Pool!PersistUsage(c)
    /\ IF DidReset(c) THEN Queue!WindowReset(call[c].key, call[c].opened)
                      ELSE Queue!Served(call[c].key)
    /\ UNCHANGED process

(* The handler's answer: the serve is queued for the audit, unless the key *)
(* cannot be opened (GetKey, GetKeyByID after their draw).                 *)
Respond(c) ==
    /\ Pool!Return(c)
    /\ \/ call[c].outcome = "served" /\ Queue!Event
       \/ UNCHANGED queue
    /\ UNCHANGED process

Flush == (Queue!TickFlush \/ Queue!FinalFlush \/ Queue!FlushStep) /\ OnlyQueue

Tick == Pool!Tick /\ OnlyPool

Drained == \A c \in Caller : call[c].pc = "idle"

(* serveUntilSignalled: Shutdown waits for the handlers, or until its      *)
(* deadline with Overrun; then Run is told.                                *)
Shutdown ==
    /\ Drained \/ Overrun
    /\ Queue!Cancel /\ OnlyQueue

(* Mutants: a new process starts every count at zero, or keeps its window. *)
FreshGate(k) == [count |-> 0, start |-> None]
CountOnly(k) == [count |-> row[k].count, start |-> None]

LoadedGate(k) == [count |-> row[k].count, start |-> row[k].start]

(* The process ends, in the middle of anything or after its last flush,    *)
(* and another reads the rows: NewManager, ReloadKeys for keys not yet in  *)
(* the pool.  exhausted_until and the budget are columns too, rates are    *)
(* not.                                                                    *)
Boot ==
    /\ boots < MaxBoots /\ boots' = boots + 1
    /\ gate' = [k \in Key |-> LoadedGate(k)]
    /\ forgotten' = [k \in Key |->
            IF gate[k].count > row[k].count
            THEN forgotten[k] + (gate[k].count - row[k].count) ELSE forgotten[k]]
    /\ crossed' = {}
    /\ rate' = [p \in Offers |-> [count |-> 0, start |-> None]]
    /\ next' = 0 /\ call' = [c \in Caller |-> Pool!Idle]
    /\ usage' = Queue!NoUsage /\ events' = << >>
    /\ served' = Queue!NoUsage /\ batch' = << >>
    /\ phase' = "idle" /\ cancelled' = FALSE /\ made' = row /\ late' = FALSE
    /\ UNCHANGED <<clock, exhausted, overBudget, draws, history,
                   store, issued, calls, faults>>

Next ==
    \/ \E c \in Caller : Draw(c) \/ Decide(c) \/ Persist(c) \/ Respond(c)
    \/ Flush
    \/ Shutdown
    \/ Tick
    \/ Boot

Spec == Init /\ [][Next]_vars

(* A draw that has begun runs on, and Run goes on flushing (see Writeback).*)
(* Nothing makes a client call, a clock move or a process end.             *)
DrawStep(c) == Decide(c) \/ Persist(c) \/ Respond(c)

Fairness ==
    /\ \A c \in Caller : WF_vars(DrawStep(c))
    /\ WF_vars(Queue!TickFlush /\ OnlyQueue)
    /\ WF_vars(Queue!FlushStep /\ OnlyQueue)
    /\ SF_vars(Queue!FinalFlush /\ OnlyQueue)

FairSpec == Spec /\ Fairness

-----------------------------------------------------------------------------
(* Both halves keep their types while they drive each other.               *)
TypeOK ==
    /\ Pool!TypeOK /\ Queue!TypeOK
    /\ boots \in 0..MaxBoots /\ forgotten \in [Key -> Nat] /\ crossed \subseteq Key

Limited == {k \in Key : UsageLimit[k] # None}
ForLife == {k \in Limited : UsageWindow[k] = 0}

(* Serves past the gate of a key that the queue has not been told of.      *)
InHand(k) == Cardinality({c \in Caller : Holds(c, k)})

(***************************************************************************)
(* Of a key with a lifetime limit, the gate in memory counts each serve    *)
(* that the row, the flight and the queue together count, and no other but *)
(* those in hand: concurrent draws, failed flushes, shutdowns and crashes  *)
(* never part the two.  A lost reply leaves the row ahead, never behind.   *)
(***************************************************************************)
GateIsAccountedFor ==
    \A k \in ForLife :
        LET told == Queue!Truth[k].count + InHand(k)
        IN  gate[k].count <= told /\ (k \notin LostReplies => gate[k].count = told)

(***************************************************************************)
(* Over all the processes that serve it, a key with a lifetime limit is    *)
(* drawn no more often than its limit allows and the dead ones forgot: the *)
(* serves still queued, in flight or in hand when one of them ended.       *)
(***************************************************************************)
LimitOutlivesCrashes ==
    \A k \in ForLife : SumFunction(uses[k]) <= UsageLimit[k] + forgotten[k]

(***************************************************************************)
(* A process told to stop takes nothing with it: when Run has returned and *)
(* no store call has failed, nor been committed after the cancellation cut *)
(* it short, the next process will find in the row of a lifetime limit the *)
(* count that its gate held; with a handler that outlived the deadline of  *)
(* Shutdown too, if it told the queue before the last swap.                *)
(***************************************************************************)
StopForgetsNothing ==
    phase = "stopped" /\ faults = 0 /\ ~late =>
        \A k \in ForLife : InHand(k) = 0 => row[k].count = gate[k].count

(***************************************************************************)
(* Unless a draw that opens a window crosses another of its key, or a      *)
(* reply of its row is lost, the gate and the way to the row have one      *)
(* window with one count: what a draw opens reaches the row with the       *)
(* serves counted in it, before or after a crash and any failed flush      *)
(* (TryConsumeUsage, persistUsage).                                        *)
(***************************************************************************)
WindowsReachTheQueue ==
    \A k \in Limited \ (crossed \cup LostReplies) :
        InHand(k) = 0 /\ UsageLimit[k] > 0 => gate[k] = Queue!Truth[k]

(***************************************************************************)
(* What the gate of a lifetime limit has counted is in its row in the end, *)
(* or its process has stopped or died: from the draw through the queue and *)
(* any failed flush to the database (GetKey, persistUsage, Run).           *)
(***************************************************************************)
CountsReachTheRow ==
    \A k \in ForLife :
        gate[k].count # row[k].count ~>
            (gate[k].count = row[k].count \/ phase = "stopped")

(***************************************************************************)
(* "the 2,001 serves landed as usage_count = 2001" (README): once no draw  *)
(* runs and every count is written, with no fault on the way, the row has  *)
(* the count the gate has.                                                 *)
(***************************************************************************)
ServesLandInTheRow ==
    (Drained /\ faults = 0 /\ Queue!NoUsage = usage /\ Queue!NoUsage = served) =>
        \A k \in Limited : row[k].count = gate[k].count
=============================================================================
