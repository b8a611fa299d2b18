------------------------------- MODULE Service -------------------------------
(***************************************************************************)
(* cmd/keypooler: the life of the processes that share a database.  Each   *)
(* migrates it (Migrations), reads the pool from it, starts its balance    *)
(* checks (Balance) and serves; told to stop it lets its handlers finish,  *)
(* then its balance checks, and exits.  Any error before it serves is      *)
(* fatal, and whoever runs it starts it again (restart: unless-stopped).   *)
(* What the draws of a process count is in ServePath.                      *)
(***************************************************************************)
EXTENDS Naturals, Sequences

CONSTANTS
    Process, File, VersionOf, Shipped,  \* as in Migrations
    Key, None, MaxReports,              \* as in Balance
    MaxFaults                           \* bound: what fails or dies, over both

ASSUME FileAssumption == VersionOf \in [File -> Nat] /\ Shipped \in [Process -> SUBSET File]
ASSUME NoneAssumption == None \notin Key
ASSUME BoundsAssumption == MaxFaults \in Nat /\ MaxReports \in Nat

VARIABLES
    recorded, schema, boot,              \* see Migrations
    spent, column, bench, syncer, report, cancelled, reports, marked,  \* see Balance
    faults,                              \* of both
    stage                                \* process -> where main is

migrations == <<recorded, schema, boot>>
balances == <<spent, column, bench, syncer, report, cancelled, reports, marked>>
vars == <<migrations, balances, faults, stage>>

Mig == INSTANCE Migrations
Bal == INSTANCE Balance

-----------------------------------------------------------------------------
Init == Mig!Init /\ Bal!Init /\ stage = [p \in Process |-> "off"]

In(p, s) == stage[p] = s

Goes(p, from, to) == In(p, from) /\ stage' = [stage EXCEPT ![p] = to]

(* openStore: the migrations.                                              *)
Boot(p) ==
    /\ In(p, "off")
    /\ Mig!RunMigrations(p) \/ Mig!MigrationStep(p)
    /\ UNCHANGED <<balances, stage>>

(* NewManager, startBalances, and the server listens.                      *)
Start(p) ==
    /\ Mig!At(p, "migrated")
    /\ Goes(p, "off", "serving")
    /\ Bal!Load(p)
    /\ UNCHANGED migrations

Handle(p) ==
    /\ \/ In(p, "serving") /\ \E k \in Key : Bal!Report(p, k)
       \/ Bal!WriteReport(p)
    /\ UNCHANGED <<migrations, stage>>

CheckBalances(p) == Bal!SyncerStep(p) /\ UNCHANGED <<migrations, stage>>

(* serveUntilSignalled returns on a signal, when the handlers are done or  *)
(* its deadline is over, and then the balance checks are told.             *)
StopBalances(p) ==
    /\ Goes(p, "serving", "stopping")
    /\ Bal!StopBalances(p)
    /\ UNCHANGED migrations

(* Mutant: the process does not wait for its balance checks.               *)
WaitsForNothing(p) == TRUE

SyncerIsDone(p) == syncer[p].pc = "off"

(* The process exits; a handler that outlived the deadline goes with it.   *)
Stop(p) ==
    /\ SyncerIsDone(p)
    /\ Goes(p, "stopping", "stopped")
    /\ Bal!Exit(p)
    /\ UNCHANGED migrations

(* An error that is fatal, or the process is killed.                       *)
Crash(p) ==
    /\ ~In(p, "stopped")
    /\ stage' = [stage EXCEPT ![p] = "off"]
    /\ Mig!Die(p)
    /\ Bal!Forget(p)

Provider == Bal!Provider /\ UNCHANGED <<migrations, stage>>

Next ==
    \/ \E p \in Process :
        \/ Boot(p)
        \/ Start(p)
        \/ Handle(p)
        \/ CheckBalances(p)
        \/ StopBalances(p)
        \/ Stop(p)
        \/ Crash(p)
    \/ Provider

Spec == Init /\ [][Next]_vars

(* A process that is not up is started (by its restart policy), and each   *)
(* of its statements and checks returns: their contexts end.  No two of    *)
(* these are enabled at once.  Nothing makes a client report, a signal     *)
(* come or a provider's cycle end.                                         *)
Advance(p) == Boot(p) \/ Start(p) \/ CheckBalances(p) \/ Stop(p)

Fairness == \A p \in Process : WF_vars(Advance(p))

FairSpec == Spec /\ Fairness

-----------------------------------------------------------------------------
(* Both halves keep their types, and the balance checks and the reports of *)
(* a process run only from the moment it serves until it has stopped.      *)
TypeOK ==
    /\ Mig!TypeOK /\ Bal!TypeOK
    /\ stage \in [Process -> {"off", "serving", "stopping", "stopped"}]
    /\ \A p \in Process :
        /\ ~In(p, "off") => Mig!At(p, "migrated")
        /\ syncer[p].pc # "off" \/ report[p].pc # "idle" => stage[p] \in {"serving", "stopping"}

(***************************************************************************)
(* "an applied version is never re-run" (README), and each script finds    *)
(* the schema its release expects: every earlier version, whoever ran it.  *)
(* So through boots that race, die half way or miss an answer.             *)
(***************************************************************************)
SchemaGrowsInOrder == Mig!AppliedOnce /\ Mig!AfterTheEarlier

(***************************************************************************)
(* No process reads or writes a row before the schema has every version of *)
(* its release (openStore before NewManager).                              *)
(***************************************************************************)
ServesMigrated ==
    \A p \in Process : ~In(p, "off") =>
        \A f \in Shipped[p] : \E i \in 1..Len(schema) : Mig!Ran(i) = VersionOf[f]

(***************************************************************************)
(* A process that was told to stop leaves every bench for the provider's   *)
(* cycle that only its balance checks made in the row, for the next one to *)
(* read: a check that was under way is finished before the process exits   *)
(* (stopBalances).  Two that bench one key write the row in any order.     *)
(***************************************************************************)
StopKeepsBenches ==
    [][\A p \in Process, k \in Key :
        (/\ Stop(p) /\ faults = 0
         /\ bench[p][k] = "cycle" /\ marked[k] \subseteq {<<p, "syncer">>}) =>
            column[k] = "cycle"]_vars

(***************************************************************************)
(* A key that is spent at its provider and stays so is benched in the end  *)
(* in every process that is not stopped: however its boots, migrations and *)
(* checks fail before, it comes up, and its rounds go on (README: "a key   *)
(* at its limit is skipped").                                              *)
(***************************************************************************)
SpentIsBenched ==
    \A p \in Process, k \in Key :
        k \in spent ~> (bench[p][k] # "open" \/ k \notin spent \/ In(p, "stopped"))
=============================================================================
