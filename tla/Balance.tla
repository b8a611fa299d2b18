------------------------------- MODULE Balance -------------------------------
(***************************************************************************)
(* internal/balance: the Syncer asks the provider of each key what is left *)
(* of its limit, once when it is started and then every 15 minutes, and    *)
(* benches a key that is spent: in the pool, then in its row.  Clients     *)
(* bench keys in the same two steps (POST /key/{id}/exhausted), and the    *)
(* next process reads the row.                                             *)
(*                                                                         *)
(* There is no clock.  A bench lasts until the provider's cycle ends, or   *)
(* for a while that may be over at any moment; a provider may name the end *)
(* of its cycle or not.  The balance that SetBalance keeps is only shown.  *)
(***************************************************************************)
EXTENDS Naturals

CONSTANTS       \* Service states what is assumed of them
    Process,    \* processes, each with a pool and a Syncer of its own
    Key,        \* ids of the keys whose features have a source
    None,       \* no key
    MaxFaults,  \* bound: checks and writes that fail
    MaxReports  \* bound: clients' reports

VARIABLES
    spent,     \* the provider's truth: the keys at their limit
    column,    \* keys.exhausted_until: key -> its bench
    bench,     \* process -> key -> PoolKey.ExhaustedUntil
    syncer,    \* process -> where its Syncer is
    report,    \* process -> the report it is handling
    cancelled, \* the processes whose Syncer's ctx is done
    faults, reports,  \* so far (bounded)
    marked     \* history: key -> who benched it, or wrote its row, in the
               \* provider's running cycle

vars == <<spent, column, bench, syncer, report, cancelled, faults, reports, marked>>

Bench == {"open", "while", "cycle"}
Actor == Process \X {"syncer", "client"}

(* In a round: the keys left to check; or with a key in hand, which was    *)
(* found spent, and is benched in memory already or not yet.               *)
Syncers == [pc : {"off", "waiting", "round", "found", "benched"}, left : SUBSET Key,
            key : Key \cup {None}, until : Bench]
Reports == [pc : {"idle", "benched"}, key : Key \cup {None}, until : Bench]

Off == [pc |-> "off", left |-> {}, key |-> None, until |-> "open"]
Waiting == [Off EXCEPT !.pc = "waiting"]
NoReport == [pc |-> "idle", key |-> None, until |-> "open"]

Init ==
    /\ spent = {} /\ column = [k \in Key |-> "open"]
    /\ bench = [p \in Process |-> column]
    /\ syncer = [p \in Process |-> Off] /\ report = [p \in Process |-> NoReport]
    /\ cancelled = {} /\ faults = 0 /\ reports = 0
    /\ marked = [k \in Key |-> {}]

Fault == faults < MaxFaults /\ faults' = faults + 1

-----------------------------------------------------------------------------
(* The provider's side.                                                    *)
Deplete(k) ==
    /\ k \notin spent
    /\ spent' = spent \cup {k}
    /\ UNCHANGED <<column, bench, syncer, report, cancelled, faults, reports, marked>>

(* A bench of k that lasted until the end of the cycle now over is over.   *)
Ended(b) == IF b = "cycle" THEN "open" ELSE b

(* Who has benched k in memory and has yet to write its row.               *)
Halfway(k) ==
    {a \in Actor : IF a[2] = "syncer" THEN syncer[a[1]].pc = "benched" /\ syncer[a[1]].key = k
                                     ELSE report[a[1]].key = k}

Renew(k) ==
    /\ spent' = spent \ {k}
    /\ column' = [column EXCEPT ![k] = Ended(@)]
    /\ bench' = [p \in Process |-> [bench[p] EXCEPT ![k] = Ended(@)]]
    /\ syncer' = [p \in Process |->
            IF syncer[p].key = k THEN [syncer[p] EXCEPT !.until = Ended(@)] ELSE syncer[p]]
    /\ report' = [p \in Process |->
            IF report[p].key = k THEN [report[p] EXCEPT !.until = Ended(@)] ELSE report[p]]
    /\ marked' = [marked EXCEPT ![k] = Halfway(k)]
    /\ UNCHANGED <<cancelled, faults, reports>>

(* A while is over: in one pool, or for the row as later boots read it.    *)
Lapse(k) ==
    /\ \/ \E p \in Process :
            /\ bench[p][k] = "while"
            /\ bench' = [bench EXCEPT ![p][k] = "open"] /\ column' = column
       \/ /\ column[k] = "while"
          /\ column' = [column EXCEPT ![k] = "open"] /\ bench' = bench
    /\ UNCHANGED <<spent, syncer, report, cancelled, faults, reports, marked>>

-----------------------------------------------------------------------------
(* Manager.MarkExhausted, in the pool and then in the row, whoever calls.  *)
MarkExhausted(p, k, until, who) ==
    /\ bench' = [bench EXCEPT ![p][k] = until]
    /\ marked' = [marked EXCEPT ![k] = @ \cup {<<p, who>>}]

SetKeyExhausted(k, until) ==
    \/ column' = [column EXCEPT ![k] = until] /\ faults' = faults
    \/ column' = column /\ Fault

At(p, pc) == syncer[p].pc = pc /\ UNCHANGED <<spent, report, cancelled, reports>>

Turn(p, s) == syncer' = [syncer EXCEPT ![p] = s]

(* Holding: of the keys of each source, benched ones as well.              *)
Round == [Off EXCEPT !.pc = "round", !.left = Key]

(* Run: the ticker.                                                        *)
StartRound(p) ==
    /\ At(p, "waiting")
    /\ Turn(p, Round)
    /\ UNCHANGED <<column, bench, faults, marked>>

(* Mutant: a check that fails ends the loop.                               *)
GivesUp(p, k) == [syncer[p] EXCEPT !.pc = "off", !.left = {}]

Skips(p, k) == [syncer[p] EXCEPT !.left = @ \ {k}]

(* check, up to what the provider answered.                                *)
Check(p, k) ==
    /\ At(p, "round") /\ p \notin cancelled /\ k \in syncer[p].left
    /\ \/ Turn(p, Skips(p, k)) /\ Fault
       \/ k \notin spent /\ Turn(p, [syncer[p] EXCEPT !.left = @ \ {k}]) /\ faults' = faults
       \/ /\ k \in spent /\ faults' = faults
          /\ \E until \in {"while", "cycle"} :
                Turn(p, [pc |-> "found", left |-> syncer[p].left \ {k},
                         key |-> k, until |-> until])
    /\ UNCHANGED <<column, bench, marked>>

BenchSpent(p) ==
    /\ At(p, "found")
    /\ MarkExhausted(p, syncer[p].key, syncer[p].until, "syncer")
    /\ Turn(p, [syncer[p] EXCEPT !.pc = "benched"])
    /\ UNCHANGED <<column, faults>>

WriteSpent(p) ==
    /\ At(p, "benched")
    /\ SetKeyExhausted(syncer[p].key, syncer[p].until)
    /\ Turn(p, [Off EXCEPT !.pc = "round", !.left = syncer[p].left])
    /\ UNCHANGED <<bench, marked>>

(* Every key has had its turn, or ctx is done, which ends Run as well.     *)
EndRound(p) ==
    /\ \/ At(p, "round") /\ (syncer[p].left = {} \/ p \in cancelled)
       \/ At(p, "waiting") /\ p \in cancelled
    /\ Turn(p, IF p \in cancelled THEN Off ELSE Waiting)
    /\ UNCHANGED <<column, bench, faults, marked>>

SyncerStep(p) ==
    \/ StartRound(p)
    \/ \E k \in Key : Check(p, k)
    \/ BenchSpent(p)
    \/ WriteSpent(p)
    \/ EndRound(p)

-----------------------------------------------------------------------------
(* ExhaustKey: a client names the end of a bench, and the last one wins.   *)
Report(p, k) ==
    /\ report[p].pc = "idle"
    /\ reports < MaxReports /\ reports' = reports + 1
    /\ MarkExhausted(p, k, "while", "client")
    /\ report' = [report EXCEPT ![p] = [pc |-> "benched", key |-> k, until |-> "while"]]
    /\ UNCHANGED <<spent, column, syncer, cancelled, faults>>

WriteReport(p) ==
    /\ report[p].pc = "benched"
    /\ SetKeyExhausted(report[p].key, report[p].until)
    /\ report' = [report EXCEPT ![p] = NoReport]
    /\ UNCHANGED <<spent, bench, syncer, cancelled, reports, marked>>

-----------------------------------------------------------------------------
(* NewManager reads the rows, then startBalances starts the Syncer.        *)
Load(p) ==
    /\ bench' = [bench EXCEPT ![p] = column]
    /\ Turn(p, Round)
    /\ UNCHANGED <<spent, column, report, cancelled, faults, reports, marked>>

(* The first half of what startBalances returns: cancel().                 *)
StopBalances(p) ==
    /\ p \notin cancelled
    /\ cancelled' = cancelled \cup {p}
    /\ UNCHANGED <<spent, column, bench, syncer, report, faults, reports, marked>>

(* A pool is gone with its process, and the report that was being handled. *)
Unload(p) ==
    /\ report' = [report EXCEPT ![p] = NoReport]
    /\ bench' = [bench EXCEPT ![p] = [k \in Key |-> "open"]]
    /\ UNCHANGED <<spent, column, reports, marked>>

(* The process exits when its Syncer is done.                              *)
Exit(p) == Unload(p) /\ UNCHANGED <<syncer, cancelled, faults>>

(* The process dies, whatever it was doing.                                *)
Forget(p) == Unload(p) /\ Turn(p, Off) /\ cancelled' = cancelled \ {p}

Provider == \E k \in Key : Deplete(k) \/ Renew(k) \/ Lapse(k)

TypeOK ==
    /\ spent \subseteq Key
    /\ column \in [Key -> Bench] /\ bench \in [Process -> [Key -> Bench]]
    /\ syncer \in [Process -> Syncers] /\ report \in [Process -> Reports]
    /\ cancelled \subseteq Process
    /\ faults \in 0..MaxFaults /\ reports \in 0..MaxReports
    /\ marked \in [Key -> SUBSET Actor]
    /\ \A p \in Process :
        /\ syncer[p].pc \in {"found", "benched"} <=> syncer[p].key # None
        /\ report[p].pc = "benched" <=> report[p].key # None
=============================================================================
