----------------------------- MODULE Migrations -----------------------------
(***************************************************************************)
(* internal/db/migrations.go: what each process does to the schema when it *)
(* boots.  It reads which versions are recorded once, and then runs those  *)
(* of its files whose version was not among them, in the order of their    *)
(* versions, each in one transaction with the row that records it.  Any    *)
(* error is fatal, and the process is started again.                       *)
(*                                                                         *)
(* Nothing keeps two processes from migrating one database at once, and a  *)
(* process may come with the files of an older or a newer release.         *)
(***************************************************************************)
EXTENDS Naturals, Sequences

CONSTANTS       \* Service states what is assumed of them
    Process,    \* processes that share the database
    File,       \* migration files, over all releases
    VersionOf,  \* file -> the number its name starts with
    Shipped,    \* process -> the files in its image
    MaxFaults   \* bound: statements that fail, and processes that die

VARIABLES
    recorded,  \* schema_migrations: the versions in it
    schema,    \* history: the scripts committed, in order, and who ran each
    boot,      \* process -> how far its migrations are
    faults     \* faults so far (bounded by MaxFaults)

vars == <<recorded, schema, boot, faults>>

Boots == [pc : {"down", "migrating", "migrated"}, todo : SUBSET File]
Scripts == [file : File, by : Process]

Down == [pc |-> "down", todo |-> {}]

Init ==
    /\ recorded = {} /\ schema = << >>
    /\ boot = [p \in Process |-> Down]
    /\ faults = 0

At(p, pc) == boot[p].pc = pc

Fault == faults < MaxFaults /\ faults' = faults + 1

(* Mutant: only what is newer than all that was ever applied is run.       *)
Newer(files, applied) == {f \in files : \A v \in applied : v < VersionOf[f]}

Pending(files, applied) == {f \in files : VersionOf[f] \notin applied}

(* RunMigrations up to its loop: the files, and the versions recorded now. *)
RunMigrations(p) ==
    /\ At(p, "down")
    /\ boot' = [boot EXCEPT ![p] =
            [pc |-> "migrating", todo |-> Pending(Shipped[p], recorded)]]
    /\ UNCHANGED <<recorded, schema, faults>>

(* Mutant: the files are run in whatever order they were read.             *)
AnyOf(files) == files

(* loadMigrations sorts by version; of one version either may come first.  *)
FirstOf(files) == {f \in files : \A g \in files : VersionOf[f] <= VersionOf[g]}

(* Mutant: schema_migrations has no primary key.                           *)
Unguarded(v) == TRUE

Unrecorded(v) == v \notin recorded

(* executeMigration: script and row in one transaction.  The answer may be *)
(* lost, or the process die before it has it.                              *)
ExecuteMigration(p, f) ==
    /\ At(p, "migrating") /\ f \in FirstOf(boot[p].todo)
    /\ Unrecorded(VersionOf[f])
    /\ recorded' = recorded \cup {VersionOf[f]}
    /\ schema' = Append(schema, [file |-> f, by |-> p])
    /\ \/ boot' = [boot EXCEPT ![p].todo = @ \ {f}] /\ faults' = faults
       \/ boot' = [boot EXCEPT ![p] = Down] /\ Fault

(* The version was recorded since RunMigrations looked: the row is refused *)
(* and the script rolled back.                                             *)
MigrationRefused(p, f) ==
    /\ At(p, "migrating") /\ f \in FirstOf(boot[p].todo)
    /\ ~Unrecorded(VersionOf[f])
    /\ boot' = [boot EXCEPT ![p] = Down]
    /\ UNCHANGED <<recorded, schema, faults>>

Migrated(p) ==
    /\ At(p, "migrating") /\ boot[p].todo = {}
    /\ boot' = [boot EXCEPT ![p].pc = "migrated"]
    /\ UNCHANGED <<recorded, schema, faults>>

(* A statement fails or the five seconds are over, which is fatal, or the  *)
(* process is killed; later too, while it serves.                          *)
Die(p) ==
    /\ ~At(p, "down") /\ Fault
    /\ boot' = [boot EXCEPT ![p] = Down]
    /\ UNCHANGED <<recorded, schema>>

MigrationStep(p) ==
    \/ \E f \in File : ExecuteMigration(p, f) \/ MigrationRefused(p, f)
    \/ Migrated(p)

Next ==
    \E p \in Process :
        \/ RunMigrations(p)
        \/ MigrationStep(p)
        \/ Die(p)

Spec == Init /\ [][Next]_vars

-----------------------------------------------------------------------------
TypeOK ==
    /\ schema \in Seq(Scripts)
    /\ boot \in [Process -> Boots] /\ \A p \in Process : boot[p].todo \subseteq Shipped[p]
    /\ recorded \subseteq Nat
    /\ faults \in 0..MaxFaults

Ran(i) == VersionOf[schema[i].file]

(***************************************************************************)
(* "an applied version is never re-run" (README): no two scripts of one    *)
(* version are ever committed, whichever processes boot at once, however   *)
(* often they die half way and whatever answers they miss.                 *)
(***************************************************************************)
AppliedOnce == \A i, j \in 1..Len(schema) : Ran(i) = Ran(j) => i = j

(***************************************************************************)
(* A script runs on a schema that has every earlier version of its release,*)
(* also when the earlier ones were run by another process or boot.         *)
(***************************************************************************)
AfterTheEarlier ==
    \A i \in 1..Len(schema) : \A f \in Shipped[schema[i].by] :
        VersionOf[f] < Ran(i) => \E j \in 1..(i - 1) : Ran(j) = VersionOf[f]

(***************************************************************************)
(* A process that is past its migrations finds a schema with every version *)
(* of its release, whoever applied it: it serves no half of a schema.      *)
(* Of two files with one version, which nothing here tells apart, one is   *)
(* all it can count on.                                                    *)
(***************************************************************************)
ServesMigrated ==
    \A p \in Process : At(p, "migrated") =>
        \A f \in Shipped[p] : \E i \in 1..Len(schema) : Ran(i) = VersionOf[f]
=============================================================================
