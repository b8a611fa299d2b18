----------------------------- MODULE Writeback -----------------------------
(***************************************************************************)
(* internal/writeback: the queue between the serve path and PostgreSQL.    *)
(* Draws count usage and events in memory under Writer.mu; one goroutine   *)
(* (Run) flushes them every second and once more at shutdown.  A flush     *)
(* takes the whole queue under the lock, writes it without the lock, and   *)
(* puts back what failed, under whatever the draws queued in the meantime. *)
(*                                                                         *)
(* A store call commits and answers in one step here: nothing else in this *)
(* module reads the row in between, so the commit can be moved to the      *)
(* answer.  "lost" is a call that committed but answered with an error.    *)
(***************************************************************************)
EXTENDS Naturals, Sequences, SequencesExt

CONSTANTS
    Key,          \* ids of the keys with a usage limit
    Time,         \* instants a usage window may start at
    None,         \* the nil *time.Time
    MaxEvents,    \* Writer.maxEvents
    LostReplies,  \* the keys whose writes may commit and still return an error
    LostCopies,   \* whether a COPY of events may
    Overrun,      \* whether handlers may outlive the deadline of Shutdown
    MaxCalls,     \* bound: calls the draws make
    MaxFaults     \* bound: store calls that fail although ctx is alive

ASSUME NoneAssumption == None \notin Time
ASSUME MaxEventsAssumption == MaxEvents \in Nat \ {0}
ASSUME LostRepliesAssumption == LostReplies \subseteq Key /\ LostCopies \in BOOLEAN
ASSUME OverrunAssumption == Overrun \in BOOLEAN
ASSUME BoundsAssumption == MaxCalls \in Nat /\ MaxFaults \in Nat

VARIABLES
    usage,      \* Writer.usage: key -> [n, reset], Empty when it has no entry
    events,     \* Writer.events: serial numbers, oldest first
    served,     \* the usage a flush took and has not dealt with yet
    batch,      \* the events a flush took and has not dealt with yet
    phase,      \* where Run is: "idle", "tick", "final" or "stopped"
    cancelled,  \* Run's ctx is done
    row,        \* keys: key -> [count, start] (usage_count, usage_window_start)
    log,        \* usage_events: the set of ids in the table
    issued,     \* serial number of the newest event
    calls,      \* calls made so far (bounded by MaxCalls)
    faults,     \* store faults so far (bounded by MaxFaults)
    made,       \* history: the rows, had every call reached the database at once
    late        \* history: a call came after the final flush had taken the queue

queue == <<usage, events>>
flight == <<served, batch>>
store == <<row, log>>
vars == <<queue, flight, phase, cancelled, store, issued, calls, faults, made, late>>

Start == Time \cup {None}
Entry == [n : Nat, reset : Start]
Rows == [count : Nat, start : Start]
Empty == [n |-> 0, reset |-> None]
NoUsage == [k \in Key |-> Empty]

(* What writing an entry does to a row: AddUsage, or ResetUsageWindow for  *)
(* an entry that saw a window start.                                       *)
Apply(u, r) ==
    IF u.reset = None THEN [count |-> r.count + u.n, start |-> r.start]
                      ELSE [count |-> u.n, start |-> u.reset]

CountOne(u) == [n |-> u.n + 1, reset |-> u.reset]
WindowOpened(u, t) == [n |-> 1, reset |-> t]

(* Mutants: the failed entry is dropped, replaces the new, or loses its    *)
(* window under it.                                                        *)
RequeueDrops(now, failed) == now
RequeueReplaces(now, failed) == IF now.reset # None THEN now ELSE failed
RequeueForgetsReset(now, failed) ==
    IF now.reset # None THEN now
                        ELSE [n |-> now.n + failed.n, reset |-> now.reset]

Requeue(now, failed) ==
    IF now.reset # None THEN now
                        ELSE [n |-> now.n + failed.n, reset |-> failed.reset]

(* Mutant: the bound drops the newest.                                     *)
KeepOldest(s) == SubSeq(s, 1, IF Len(s) > MaxEvents THEN MaxEvents ELSE Len(s))

(* Mutant: the bound is checked before the newest is appended.             *)
KeepOneMore(s) ==
    SubSeq(s, IF Len(s) > MaxEvents + 1 THEN Len(s) - MaxEvents ELSE 1, Len(s))

KeepEvents(s) ==
    SubSeq(s, IF Len(s) > MaxEvents THEN Len(s) - MaxEvents + 1 ELSE 1, Len(s))

(* Mutant: a failed batch goes behind the newer events.                    *)
RequeueBehind(failed, now) == KeepEvents(now \o failed)

(* Mutant: a failed batch is dropped.                                      *)
RequeueNone(failed, now) == KeepEvents(now)

RequeueEvents(failed, now) == KeepEvents(failed \o now)

(* What a flush of everything taken and queued would leave in the rows.    *)
Truth == [k \in Key |-> Apply(usage[k], Apply(served[k], row[k]))]

-----------------------------------------------------------------------------
(* A key starts with the count and window its row was read with.           *)
Init ==
    /\ usage = NoUsage /\ served = NoUsage
    /\ events = << >> /\ batch = << >>
    /\ phase = "idle" /\ cancelled = FALSE
    /\ row = [k \in Key |-> [count |-> 0, start |-> None]]
    /\ log = {} /\ made = row /\ late = FALSE
    /\ issued = 0 /\ calls = 0 /\ faults = 0

(* main.go cancels Run when Shutdown returns: the handlers are done by then*)
(* or its deadline has passed and they still run.                          *)
Call ==
    /\ calls < MaxCalls /\ calls' = calls + 1
    /\ cancelled => Overrun
    /\ late' = (late \/ phase \in {"final", "stopped"})

Served(k) ==
    /\ Call
    /\ usage' = [usage EXCEPT ![k] = CountOne(@)]
    /\ made' = [made EXCEPT ![k] = [count |-> @.count + 1, start |-> @.start]]
    /\ UNCHANGED <<events, flight, phase, cancelled, store, issued, faults>>

WindowReset(k, t) ==
    /\ Call
    /\ usage' = [usage EXCEPT ![k] = WindowOpened(@, t)]
    /\ made' = [made EXCEPT ![k] = [count |-> 1, start |-> t]]
    /\ UNCHANGED <<events, flight, phase, cancelled, store, issued, faults>>

Event ==
    /\ Call
    /\ issued' = issued + 1
    /\ events' = KeepEvents(Append(events, issued'))
    /\ UNCHANGED <<usage, flight, phase, cancelled, store, faults, made>>

-----------------------------------------------------------------------------
(* Mutant: Flush copies the queue out but leaves it in place.              *)
CopyQueue == served' = usage /\ batch' = events /\ UNCHANGED queue

(* Flush: the swap under the lock.                                         *)
TakeQueue ==
    /\ served' = usage /\ batch' = events
    /\ usage' = NoUsage /\ events' = << >>

(* Run picks at random when the ticker and ctx.Done are both ready, so a   *)
(* tick may still win after the cancellation.                              *)
TickFlush ==
    /\ phase = "idle"
    /\ phase' = "tick"
    /\ TakeQueue
    /\ UNCHANGED <<cancelled, store, issued, calls, faults, made, late>>

FinalFlush ==
    /\ phase = "idle" /\ cancelled
    /\ phase' = "final"
    /\ TakeQueue
    /\ UNCHANGED <<cancelled, store, issued, calls, faults, made, late>>

(* A tick flush runs on Run's own ctx; the final one on a fresh ctx.       *)
Doomed == phase = "tick" /\ cancelled

Flushing == phase \in {"tick", "final"}

Fault == faults < MaxFaults /\ faults' = faults + 1

(* How a store call may end: written and acknowledged, refused, or written *)
(* with the answer lost.  A call that the cancelled ctx cuts short while   *)
(* the server commits it is of the last kind: it counts as a fault, and    *)
(* properties of runs without faults do not speak of it.                   *)
StoreCall(outcome, mayLose) ==
    \/ outcome = "committed" /\ ~Doomed /\ faults' = faults
    \/ outcome = "refused" /\ Doomed /\ faults' = faults
    \/ outcome = "refused" /\ ~Doomed /\ Fault
    \/ outcome = "lost" /\ mayLose /\ Fault

Outcome == {"committed", "refused", "lost"}

(* One iteration of the flush loop; a Go map is ranged over in any order.  *)
FlushKey(k) ==
    /\ Flushing
    /\ served[k] # Empty
    /\ \E outcome \in Outcome :
        /\ StoreCall(outcome, k \in LostReplies)
        /\ row' = IF outcome = "refused" THEN row
                  ELSE [row EXCEPT ![k] = Apply(served[k], @)]
        /\ usage' = IF outcome = "committed" THEN usage
                    ELSE [usage EXCEPT ![k] = Requeue(@, served[k])]
    /\ served' = [served EXCEPT ![k] = Empty]
    /\ UNCHANGED <<events, batch, phase, cancelled, log, issued, calls, made, late>>

(* COPY is one statement: an id already in the table refuses all of it.    *)
Conflict == ToSet(batch) \cap log # {}

CopyEvents(outcome) ==
    \/ Conflict /\ outcome = "refused" /\ faults' = faults
    \/ ~Conflict /\ StoreCall(outcome, LostCopies)

FlushEvents ==
    /\ Flushing
    /\ served = NoUsage /\ batch # << >>
    /\ \E outcome \in Outcome :
        /\ CopyEvents(outcome)
        /\ log' = IF outcome = "refused" THEN log ELSE log \cup ToSet(batch)
        /\ events' = IF outcome = "committed" THEN events
                     ELSE RequeueEvents(batch, events)
    /\ batch' = << >>
    /\ UNCHANGED <<usage, served, phase, cancelled, row, issued, calls, made, late>>

(* Mutant: Run returns after any flush that finds its ctx done.            *)
CancelReturns == cancelled

RunReturns == phase = "final"

FlushEnd ==
    /\ Flushing
    /\ served = NoUsage /\ batch = << >>
    /\ phase' = IF RunReturns THEN "stopped" ELSE "idle"
    /\ UNCHANGED <<queue, flight, cancelled, store, issued, calls, faults, made, late>>

Cancel ==
    /\ ~cancelled
    /\ cancelled' = TRUE
    /\ UNCHANGED <<queue, flight, phase, store, issued, calls, faults, made, late>>

-----------------------------------------------------------------------------
FlushStep == (\E k \in Key : FlushKey(k)) \/ FlushEvents \/ FlushEnd

Next ==
    \/ \E k \in Key : Served(k)
    \/ \E k \in Key, t \in Time : WindowReset(k, t)
    \/ Event
    \/ TickFlush
    \/ FinalFlush
    \/ \E k \in Key : FlushKey(k)
    \/ FlushEvents
    \/ FlushEnd
    \/ Cancel

Spec == Init /\ [][Next]_vars

(* The ticker keeps firing and every store call returns (its ctx expires); *)
(* select picks among ready cases at random, so a done ctx that keeps      *)
(* being ready is picked in the end.                                       *)
Fairness ==
    /\ WF_vars(TickFlush)
    /\ WF_vars(FlushStep)
    /\ SF_vars(FinalFlush)

FairSpec == Spec /\ Fairness

-----------------------------------------------------------------------------
(* Every variable of the queue, its flush and the store has its type, and  *)
(* the buffer of events never outgrows its bound (keepEvents), not even by *)
(* putting a failed batch back in front of a full one.                     *)
TypeOK ==
    /\ usage \in [Key -> Entry] /\ served \in [Key -> Entry]
    /\ events \in Seq(1..issued) /\ Len(events) <= MaxEvents
    /\ batch \in Seq(1..issued) /\ Len(batch) <= MaxEvents
    /\ phase \in {"idle", "tick", "final", "stopped"}
    /\ cancelled \in BOOLEAN /\ late \in BOOLEAN
    /\ row \in [Key -> Rows] /\ made \in [Key -> Rows]
    /\ log \subseteq 1..issued
    /\ issued \in Nat
    /\ calls \in 0..MaxCalls /\ faults \in 0..MaxFaults

(* Every key but those whose answers may be lost.                          *)
Answered == Key \ LostReplies

(* A flush that fails is merged under what was queued meanwhile so that    *)
(* the database ends at what the serves made of it: of the keys whose      *)
(* replies are never lost, row, flight and queue together are the ledger,  *)
(* whatever happens to the others (Flush, requeueUsage).                   *)
Ledger == INSTANCE UsageLedger
            WITH Key <- Answered, ledger <- [k \in Answered |-> Truth[k]]

KeepsTheLedger == Ledger!Spec

(* Whatever fails, and whatever answers are lost, the queue never counts   *)
(* fewer serves than were made, nor puts them in another window.           *)
NeverUndercounts ==
    \A k \in Key : Truth[k].start = made[k].start /\ Truth[k].count >= made[k].count

(* When no COPY loses its answer, no event waiting to be written is in the *)
(* table: a retry cannot meet its own rows (RecordUsageEvents).            *)
RetriesMeetNoConflict == ~LostCopies => ToSet(batch \o events) \cap log = {}

(* Of the events the draws ever queued, the newest maxEvents are each in   *)
(* the table or still held, through every failed flush (keepEvents).       *)
NewestEventsKept ==
    \A e \in 1..issued : e > issued - MaxEvents => e \in log \cup ToSet(batch \o events)

(* Events wait in the order they were queued, those of a failed flush      *)
(* before those queued since, so that the bound drops the oldest.          *)
OldestFirst ==
    LET waiting == batch \o events
    IN  \A i, j \in 1..Len(waiting) : i < j => waiting[i] < waiting[j]

(* Once Run has returned, with no store fault on the way (nor a call that  *)
(* the cancellation cut short and the server committed all the same),      *)
(* nothing the draws queued is missing: the flush a cancellation cut short *)
(* put its part back and the final flush wrote it, also for a handler that *)
(* outlived the deadline of Shutdown but not the last swap of the queue.   *)
StopsDrained ==
    phase = "stopped" /\ faults = 0 /\ ~late =>
        /\ row = made
        /\ MaxEvents >= issued => log = 1..issued

(* When the draws pause, each row ends at what the serves made of it, or   *)
(* Run has returned (Run, Flush, requeueUsage).                            *)
UsageLands ==
    \A k \in Answered :
        row[k] # made[k] ~> (row[k] = made[k] \/ phase = "stopped")

(* Each event a draw queued gets into the table, through whatever outage   *)
(* and whatever flush it was in, unless maxEvents newer ones were queued   *)
(* or Run has returned (Flush, requeueEvents, RecordUsageEvents).          *)
EventsLand ==
    \A e \in 1..MaxCalls :
        e <= issued ~> (e \in log \/ e <= issued - MaxEvents \/ phase = "stopped")
=============================================================================
