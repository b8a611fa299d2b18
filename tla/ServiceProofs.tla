--------------------------- MODULE ServiceProofs ---------------------------
(***************************************************************************)
(* Theorems about Service, for any processes, files, versions and keys.    *)
(***************************************************************************)
EXTENDS Service, TLAPS

(* A file set is sorted by taking what FirstOf gives: nothing that is left *)
(* has an earlier version.                                                 *)
LEMMA FirstIsFirst ==
    ASSUME NEW files \in SUBSET File, NEW f \in Mig!FirstOf(files), NEW g \in files
    PROVE  f \in files /\ VersionOf[f] <= VersionOf[g]
BY DEF Mig!FirstOf

LEMMA DownIsABoot == Mig!Down \in Mig!Boots
BY DEF Mig!Down, Mig!Boots

(* Taking a file off what a process has yet to run.                        *)
LEMMA EntryOfBoot ==
    ASSUME boot \in [Process -> Mig!Boots], NEW p \in Process, NEW f,
           \/ boot' = [boot EXCEPT ![p].todo = @ \ {f}]
           \/ boot' = [boot EXCEPT ![p] = Mig!Down]
    PROVE  /\ boot' \in [Process -> Mig!Boots] /\ \A q \in Process \ {p} : boot'[q] = boot[q]
           /\ \/ boot'[p].pc = boot[p].pc /\ boot'[p].todo = boot[p].todo \ {f}
              \/ boot'[p] = Mig!Down
<1>1. CASE boot' = [boot EXCEPT ![p].todo = @ \ {f}]
  <2> DEFINE b == [boot[p] EXCEPT !.todo = @ \ {f}]
  <2>1. b \in Mig!Boots /\ b.pc = boot[p].pc /\ b.todo = boot[p].todo \ {f}
    BY DEF Mig!Boots
  <2>2. boot' = [boot EXCEPT ![p] = b]
    BY <1>1
  <2> HIDE DEF b
  <2> QED
    BY <2>1, <2>2
<1>2. CASE boot' = [boot EXCEPT ![p] = Mig!Down]
    BY <1>2, DownIsABoot
<1> QED
    BY <1>1, <1>2

LEMMA MigrationsTypeInit == Mig!Init => Mig!TypeOK
<1> SUFFICES ASSUME Mig!Init PROVE Mig!TypeOK
    OBVIOUS
<1>1. boot \in [Process -> Mig!Boots] /\ \A p \in Process : boot[p].todo = {}
    BY DownIsABoot DEF Mig!Init, Mig!Down
<1> QED
    BY <1>1, BoundsAssumption DEF Mig!Init, Mig!TypeOK

(* What a process does to the schema while it boots, and how it may end.   *)
LEMMA MigrationsType ==
    ASSUME Mig!TypeOK, NEW p \in Process,
           Mig!RunMigrations(p) \/ Mig!MigrationStep(p) \/ Mig!Die(p)
    PROVE  Mig!TypeOK'
<1> USE DownIsABoot DEF Mig!TypeOK
<1>1. CASE Mig!RunMigrations(p)
  <2> DEFINE b == [pc |-> "migrating", todo |-> Mig!Pending(Shipped[p], recorded)]
  <2>1. b.todo \subseteq Shipped[p] /\ Shipped[p] \subseteq File
    BY FileAssumption DEF Mig!Pending
  <2>2. b \in Mig!Boots
    BY <2>1 DEF Mig!Boots
  <2> QED
    BY <1>1, <2>1, <2>2 DEF Mig!RunMigrations
<1>2. ASSUME NEW f \in File, Mig!ExecuteMigration(p, f) PROVE Mig!TypeOK'
  <2>1. VersionOf[f] \in Nat
    BY FileAssumption
  <2>2. [file |-> f, by |-> p] \in Mig!Scripts
    BY DEF Mig!Scripts
  <2>3. schema' \in Seq(Mig!Scripts) /\ recorded' \subseteq Nat
    BY <1>2, <2>1, <2>2 DEF Mig!ExecuteMigration
  <2>4. faults' \in 0..MaxFaults
    BY <1>2, BoundsAssumption DEF Mig!ExecuteMigration, Mig!Fault
  <2>5. \/ boot' = [boot EXCEPT ![p].todo = @ \ {f}]
        \/ boot' = [boot EXCEPT ![p] = Mig!Down]
    BY <1>2, Zenon DEF Mig!ExecuteMigration
  <2>6. /\ boot' \in [Process -> Mig!Boots] /\ \A q \in Process \ {p} : boot'[q] = boot[q]
        /\ \/ boot'[p].todo = boot[p].todo \ {f}
           \/ boot'[p].todo = {}
    <3>1. boot \in [Process -> Mig!Boots]
      OBVIOUS
    <3> HIDE DEF Mig!TypeOK
    <3> QED
      BY <2>5, <3>1, EntryOfBoot DEF Mig!Down
  <2>7. \A q \in Process : boot'[q].todo \subseteq boot[q].todo
    BY <2>6
  <2>8. \A q \in Process : boot'[q].todo \subseteq Shipped[q]
    BY <2>7
  <2> QED
    BY <2>3, <2>4, <2>6, <2>8
<1>3. ASSUME NEW f \in File, Mig!MigrationRefused(p, f) PROVE Mig!TypeOK'
    BY <1>3 DEF Mig!MigrationRefused, Mig!Down
<1>4. CASE Mig!Migrated(p)
  <2>1. [boot[p] EXCEPT !.pc = "migrated"] \in Mig!Boots
    BY DEF Mig!Boots
  <2>2. boot' = [boot EXCEPT ![p] = [boot[p] EXCEPT !.pc = "migrated"]]
    BY <1>4 DEF Mig!Migrated
  <2> QED
    BY <1>4, <2>1, <2>2 DEF Mig!Migrated, Mig!Boots
<1>5. CASE Mig!Die(p)
    BY <1>5, BoundsAssumption DEF Mig!Die, Mig!Fault, Mig!Down
<1> QED
    BY <1>1, <1>2, <1>3, <1>4, <1>5 DEF Mig!MigrationStep

-----------------------------------------------------------------------------
(* What the order of the schema rests on: the table of versions names what *)
(* was run, and what a process has yet to run is all that its release      *)
(* lacks.                                                                  *)
RecordedIsRun == \A v \in Nat : v \in recorded <=> \E i \in 1..Len(schema) : Mig!Ran(i) = v

NothingIsMissed ==
    \A p \in Process : ~Mig!At(p, "down") =>
        \A f \in Shipped[p] : f \in boot[p].todo \/ VersionOf[f] \in recorded

MigratedIsDone == \A p \in Process : Mig!At(p, "migrated") => boot[p].todo = {}

MigInv ==
    /\ RecordedIsRun /\ NothingIsMissed /\ MigratedIsDone
    /\ Mig!AppliedOnce /\ Mig!AfterTheEarlier

LEMMA MigInvInit == Mig!Init => MigInv
BY DEF Mig!Init, MigInv, RecordedIsRun, NothingIsMissed, MigratedIsDone,
       Mig!AppliedOnce, Mig!AfterTheEarlier, Mig!At, Mig!Down

(* The history grows at its end.                                           *)
LEMMA HistoryGrows ==
    ASSUME Mig!TypeOK, NEW p \in Process, NEW f \in File, Mig!ExecuteMigration(p, f)
    PROVE  /\ Len(schema') = Len(schema) + 1 /\ Len(schema) \in Nat
           /\ \A i \in 1..Len(schema) : schema'[i] = schema[i] /\ schema[i] \in Mig!Scripts
           /\ schema'[Len(schema) + 1] = [file |-> f, by |-> p]
<1>1. schema \in Seq(Mig!Scripts) /\ schema' = Append(schema, [file |-> f, by |-> p])
    BY DEF Mig!TypeOK, Mig!ExecuteMigration
<1> QED
    BY <1>1

(* Running a script keeps the table of versions and the order.             *)
LEMMA ExecuteKeepsOrder ==
    ASSUME Mig!TypeOK, MigInv, NEW p \in Process, NEW f \in File, Mig!ExecuteMigration(p, f)
    PROVE  RecordedIsRun' /\ Mig!AppliedOnce' /\ Mig!AfterTheEarlier'
<1> DEFINE n == Len(schema)
<1> USE DEF Mig!Ran
<1>1. /\ Len(schema') = n + 1 /\ n \in Nat
      /\ \A i \in 1..n : schema'[i] = schema[i] /\ schema[i] \in Mig!Scripts
      /\ schema'[n + 1] = [file |-> f, by |-> p]
    BY HistoryGrows
<1>2. recorded' = recorded \cup {VersionOf[f]} /\ VersionOf[f] \notin recorded
    BY DEF Mig!ExecuteMigration, Mig!Unrecorded
<1>3. VersionOf[f] \in Nat /\ \A g \in File : VersionOf[g] \in Nat
    BY FileAssumption
<1>4. \A v \in Nat : v \in recorded <=> \E i \in 1..n : VersionOf[schema[i].file] = v
    BY DEF MigInv, RecordedIsRun
<1> HIDE DEF n
<1>5. RecordedIsRun'
  <2> SUFFICES ASSUME NEW v \in Nat
               PROVE  v \in recorded' <=> \E i \in 1..(n + 1) : VersionOf[schema'[i].file] = v
    BY <1>1 DEF RecordedIsRun
  <2>1. (\E i \in 1..(n + 1) : VersionOf[schema'[i].file] = v)
           <=> (\E i \in 1..n : VersionOf[schema[i].file] = v) \/ VersionOf[f] = v
    BY <1>1
  <2> QED
    BY <1>2, <1>4, <2>1
<1>6. \A i \in 1..n : VersionOf[schema[i].file] # VersionOf[f]
    BY <1>2, <1>3, <1>4
<1>7. Mig!AppliedOnce'
  <2> SUFFICES ASSUME NEW i \in 1..(n + 1), NEW j \in 1..(n + 1),
                      VersionOf[schema'[i].file] = VersionOf[schema'[j].file]
               PROVE  i = j
    BY <1>1 DEF Mig!AppliedOnce
  <2>1. CASE i \in 1..n /\ j \in 1..n
    BY <1>1, <2>1 DEF n, MigInv, Mig!AppliedOnce
  <2>2. CASE i = n + 1 /\ j \in 1..n
    BY <1>1, <1>6, <2>2
  <2>3. CASE i \in 1..n /\ j = n + 1
    BY <1>1, <1>6, <2>3
  <2> QED
    BY <1>1, <2>1, <2>2, <2>3
<1>8. Mig!AfterTheEarlier'
  <2> SUFFICES ASSUME NEW i \in 1..(n + 1), NEW g \in Shipped[schema'[i].by],
                      VersionOf[g] < VersionOf[schema'[i].file]
               PROVE  \E j \in 1..(i - 1) : VersionOf[schema'[j].file] = VersionOf[g]
    BY <1>1 DEF Mig!AfterTheEarlier
  <2>1. CASE i \in 1..n
    <3>1. \E j \in 1..(i - 1) : VersionOf[schema[j].file] = VersionOf[g]
      BY <1>1, <2>1 DEF n, MigInv, Mig!AfterTheEarlier
    <3>2. \A j \in 1..(i - 1) : j \in 1..n
      BY <1>1, <2>1
    <3> QED
      BY <1>1, <3>1, <3>2
  <2>2. CASE i = n + 1
    <3>1. g \in Shipped[p] /\ VersionOf[g] < VersionOf[f]
      BY <1>1, <2>2
    <3>2. g \in File
      BY <3>1, FileAssumption
    <3>3. f \in Mig!FirstOf(boot[p].todo) /\ boot[p].todo \in SUBSET File /\ ~Mig!At(p, "down")
      BY DEF Mig!ExecuteMigration, Mig!At, Mig!TypeOK, Mig!Boots
    <3>4. g \notin boot[p].todo
      BY <1>3, <3>1, <3>2, <3>3, FirstIsFirst
    <3>5. VersionOf[g] \in recorded
      BY <3>1, <3>3, <3>4 DEF MigInv, NothingIsMissed
    <3>6. \E j \in 1..n : VersionOf[schema[j].file] = VersionOf[g]
      BY <1>3, <1>4, <3>2, <3>5
    <3> QED
      BY <1>1, <2>2, <3>6
  <2> QED
    BY <1>1, <2>1, <2>2
<1> QED
    BY <1>5, <1>7, <1>8

LEMMA MigInvStep ==
    ASSUME Mig!TypeOK, MigInv, NEW p \in Process,
           Mig!RunMigrations(p) \/ Mig!MigrationStep(p) \/ Mig!Die(p)
    PROVE  MigInv'
<1> USE DEF Mig!At
<1>1. ASSUME UNCHANGED <<recorded, schema>>
      PROVE  RecordedIsRun' /\ Mig!AppliedOnce' /\ Mig!AfterTheEarlier'
    BY <1>1 DEF MigInv, RecordedIsRun, Mig!AppliedOnce, Mig!AfterTheEarlier, Mig!Ran
<1>2. CASE Mig!RunMigrations(p)
  <2>1. NothingIsMissed' /\ MigratedIsDone'
    BY <1>2 DEF MigInv, NothingIsMissed, MigratedIsDone, Mig!RunMigrations, Mig!Pending,
                Mig!TypeOK
  <2> QED
    BY <1>1, <1>2, <2>1 DEF MigInv, Mig!RunMigrations
<1>3. ASSUME NEW f \in File, Mig!ExecuteMigration(p, f) PROVE MigInv'
  <2>1. /\ boot \in [Process -> Mig!Boots] /\ boot[p].pc = "migrating"
        /\ recorded' = recorded \cup {VersionOf[f]}
    BY <1>3 DEF Mig!TypeOK, Mig!ExecuteMigration
  <2>2. /\ boot' \in [Process -> Mig!Boots] /\ \A q \in Process \ {p} : boot'[q] = boot[q]
        /\ \/ boot'[p].pc = "migrating" /\ boot'[p].todo = boot[p].todo \ {f}
           \/ boot'[p].pc = "down"
    <3>1. \/ boot' = [boot EXCEPT ![p].todo = @ \ {f}]
          \/ boot' = [boot EXCEPT ![p] = Mig!Down]
      BY <1>3, Zenon DEF Mig!ExecuteMigration
    <3> QED
      BY <2>1, <3>1, EntryOfBoot DEF Mig!Down
  <2>3. NothingIsMissed' /\ MigratedIsDone'
    BY <2>1, <2>2 DEF MigInv, NothingIsMissed, MigratedIsDone
  <2> QED
    BY <1>3, <2>3, ExecuteKeepsOrder DEF MigInv
<1>4. ASSUME NEW f \in File, Mig!MigrationRefused(p, f) PROVE MigInv'
  <2>1. NothingIsMissed' /\ MigratedIsDone'
    BY <1>4 DEF MigInv, NothingIsMissed, MigratedIsDone, Mig!MigrationRefused, Mig!Down,
                Mig!TypeOK
  <2> QED
    BY <1>1, <1>4, <2>1 DEF MigInv, Mig!MigrationRefused
<1>5. CASE Mig!Migrated(p)
  <2>1. NothingIsMissed' /\ MigratedIsDone'
    BY <1>5 DEF MigInv, NothingIsMissed, MigratedIsDone, Mig!Migrated, Mig!TypeOK
  <2> QED
    BY <1>1, <1>5, <2>1 DEF MigInv, Mig!Migrated
<1>6. CASE Mig!Die(p)
  <2>1. NothingIsMissed' /\ MigratedIsDone'
    BY <1>6 DEF MigInv, NothingIsMissed, MigratedIsDone, Mig!Die, Mig!Down, Mig!TypeOK
  <2> QED
    BY <1>1, <1>6, <2>1 DEF MigInv, Mig!Die
<1> QED
    BY <1>2, <1>3, <1>4, <1>5, <1>6 DEF Mig!MigrationStep

-----------------------------------------------------------------------------
(* The types of Balance, but for the faults it shares with Migrations.     *)
SyncersAreTyped ==
    /\ syncer \in [Process -> Bal!Syncers]
    /\ \A p \in Process : syncer[p].pc \in {"found", "benched"} <=> syncer[p].key # None

ReportsAreTyped ==
    /\ report \in [Process -> Bal!Reports]
    /\ \A p \in Process : report[p].pc = "benched" <=> report[p].key # None

BenchesAreTyped ==
    /\ spent \subseteq Key
    /\ column \in [Key -> Bal!Bench] /\ bench \in [Process -> [Key -> Bal!Bench]]
    /\ cancelled \subseteq Process /\ reports \in 0..MaxReports
    /\ marked \in [Key -> SUBSET Bal!Actor]

BalancesTyped == SyncersAreTyped /\ ReportsAreTyped /\ BenchesAreTyped

LEMMA BalancesType == Bal!TypeOK <=> BalancesTyped /\ faults \in 0..MaxFaults
BY DEF Bal!TypeOK, BalancesTyped, SyncersAreTyped, ReportsAreTyped, BenchesAreTyped

LEMMA IdleSyncers ==
    /\ Bal!Off \in Bal!Syncers /\ Bal!Off.pc = "off" /\ Bal!Off.key = None
    /\ Bal!Waiting \in Bal!Syncers /\ Bal!Waiting.pc = "waiting" /\ Bal!Waiting.key = None
    /\ \A left \in SUBSET Key :
        LET s == [Bal!Off EXCEPT !.pc = "round", !.left = left]
        IN  s \in Bal!Syncers /\ s.pc = "round" /\ s.key = None
BY DEF Bal!Off, Bal!Waiting, Bal!Syncers, Bal!Bench

LEMMA SyncerEdits ==
    ASSUME NEW s \in Bal!Syncers, NEW k, NEW b \in Bal!Bench
    PROVE  /\ [s EXCEPT !.left = @ \ {k}] \in Bal!Syncers
           /\ [s EXCEPT !.left = @ \ {k}].pc = s.pc /\ [s EXCEPT !.left = @ \ {k}].key = s.key
           /\ [s EXCEPT !.pc = "benched"] \in Bal!Syncers
           /\ [s EXCEPT !.pc = "benched"].pc = "benched" /\ [s EXCEPT !.pc = "benched"].key = s.key
           /\ [s EXCEPT !.until = b] \in Bal!Syncers
           /\ [s EXCEPT !.until = b].pc = s.pc /\ [s EXCEPT !.until = b].key = s.key
BY DEF Bal!Syncers

LEMMA TurnsKeepTypes ==
    ASSUME SyncersAreTyped, NEW p \in Process, NEW s \in Bal!Syncers, Bal!Turn(p, s),
           s.pc \in {"found", "benched"} <=> s.key # None
    PROVE  SyncersAreTyped' /\ syncer'[p] = s /\ \A q \in Process \ {p} : syncer'[q] = syncer[q]
BY DEF SyncersAreTyped, Bal!Turn

LEMMA BalancesTypeInit == Bal!Init => BalancesTyped
<1> SUFFICES ASSUME Bal!Init PROVE BalancesTyped
    OBVIOUS
<1>1. SyncersAreTyped
    BY IdleSyncers DEF Bal!Init, SyncersAreTyped
<1>2. ReportsAreTyped
    BY DEF Bal!Init, ReportsAreTyped, Bal!NoReport, Bal!Reports, Bal!Bench
<1>3. BenchesAreTyped
    BY BoundsAssumption DEF Bal!Init, BenchesAreTyped, Bal!Bench
<1> QED
    BY <1>1, <1>2, <1>3 DEF BalancesTyped

(* What the providers, and time, do to the benches.                        *)
LEMMA ProviderKeepsTypes ==
    ASSUME BalancesTyped, Bal!Provider
    PROVE  /\ BalancesTyped' /\ faults' = faults
           /\ \A p \in Process : syncer'[p].pc = syncer[p].pc /\ report'[p].pc = report[p].pc
<1> USE DEF BalancesTyped
<1>1. ASSUME NEW k \in Key, Bal!Deplete(k) \/ Bal!Lapse(k)
      PROVE  BenchesAreTyped' /\ UNCHANGED <<syncer, report, faults>>
    BY <1>1 DEF Bal!Deplete, Bal!Lapse, BenchesAreTyped, Bal!Bench
<1>2. ASSUME NEW k \in Key, Bal!Renew(k)
      PROVE  /\ BalancesTyped' /\ faults' = faults
             /\ \A p \in Process : syncer'[p].pc = syncer[p].pc /\ report'[p].pc = report[p].pc
  <2>1. \A b \in Bal!Bench : Bal!Ended(b) \in Bal!Bench
    BY DEF Bal!Ended, Bal!Bench
  <2>2. syncer' = [p \in Process |->
            IF syncer[p].key = k THEN [syncer[p] EXCEPT !.until = Bal!Ended(@)] ELSE syncer[p]]
    BY <1>2 DEF Bal!Renew
  <2>3. \A p \in Process : syncer[p] \in Bal!Syncers /\ syncer[p].until \in Bal!Bench
    BY DEF SyncersAreTyped, Bal!Syncers
  <2>4. \A p \in Process :
            /\ syncer'[p] \in Bal!Syncers
            /\ syncer'[p].pc = syncer[p].pc /\ syncer'[p].key = syncer[p].key
    BY <2>1, <2>2, <2>3, SyncerEdits
  <2>5. SyncersAreTyped'
    BY <2>2, <2>4 DEF SyncersAreTyped
  <2>6. report' = [p \in Process |->
            IF report[p].key = k THEN [report[p] EXCEPT !.until = Bal!Ended(@)] ELSE report[p]]
    BY <1>2 DEF Bal!Renew
  <2>7. \A p \in Process :
            /\ report'[p] \in Bal!Reports
            /\ report'[p].pc = report[p].pc /\ report'[p].key = report[p].key
    BY <2>1, <2>6 DEF ReportsAreTyped, Bal!Reports
  <2>8. ReportsAreTyped'
    BY <2>6, <2>7 DEF ReportsAreTyped
  <2>9. BenchesAreTyped' /\ faults' = faults
    <3>1. Bal!Halfway(k) \subseteq Bal!Actor
      BY DEF Bal!Halfway
    <3> QED
      BY <1>2, <2>1, <3>1 DEF Bal!Renew, BenchesAreTyped
  <2> QED
    BY <2>4, <2>5, <2>7, <2>8, <2>9
<1>3. ASSUME UNCHANGED <<syncer, report>> PROVE SyncersAreTyped' /\ ReportsAreTyped'
    BY <1>3 DEF SyncersAreTyped, ReportsAreTyped
<1> QED
    BY <1>1, <1>2, <1>3 DEF Bal!Provider

(* One step of a Syncer.                                                   *)
LEMMA ChecksKeepTypes ==
    ASSUME BalancesTyped, faults \in 0..MaxFaults, NEW p \in Process, Bal!SyncerStep(p)
    PROVE  /\ BalancesTyped' /\ faults' \in 0..MaxFaults
           /\ syncer[p].pc # "off" /\ UNCHANGED report
           /\ \A q \in Process \ {p} : syncer'[q] = syncer[q]
<1> USE DEF BalancesTyped
<1>1. syncer[p] \in Bal!Syncers /\ syncer[p].left \in SUBSET Key
    BY DEF SyncersAreTyped, Bal!Syncers
<1>2. UNCHANGED <<spent, report, cancelled, reports>> /\ syncer[p].pc # "off"
    BY DEF Bal!SyncerStep, Bal!StartRound, Bal!Check, Bal!BenchSpent, Bal!WriteSpent,
           Bal!EndRound, Bal!At
<1>3. ReportsAreTyped'
    BY <1>2 DEF ReportsAreTyped
<1>4. ASSUME NEW s \in Bal!Syncers, Bal!Turn(p, s),
             s.pc \in {"found", "benched"} <=> s.key # None, UNCHANGED <<column, bench, marked>>,
             faults' = faults \/ Bal!Fault
      PROVE  /\ BalancesTyped' /\ faults' \in 0..MaxFaults
             /\ \A q \in Process \ {p} : syncer'[q] = syncer[q]
  <2>1. faults' \in 0..MaxFaults
    BY <1>4, BoundsAssumption DEF Bal!Fault
  <2> QED
    BY <1>2, <1>3, <1>4, <2>1, TurnsKeepTypes DEF BenchesAreTyped
<1>5. CASE Bal!StartRound(p)
  <2>1. Bal!Round \in Bal!Syncers /\ Bal!Round.pc = "round" /\ Bal!Round.key = None
    BY IdleSyncers DEF Bal!Round
  <2>2. Bal!Turn(p, Bal!Round) /\ UNCHANGED <<column, bench, faults, marked>>
    BY <1>5 DEF Bal!StartRound
  <2> QED
    BY <1>2, <1>4, <2>1, <2>2
<1>6. ASSUME NEW k \in Key, Bal!Check(p, k)
      PROVE  /\ BalancesTyped' /\ faults' \in 0..MaxFaults
             /\ \A q \in Process \ {p} : syncer'[q] = syncer[q]
  <2> DEFINE skipped == [syncer[p] EXCEPT !.left = @ \ {k}]
             found(until) == [pc |-> "found", left |-> syncer[p].left \ {k},
                              key |-> k, until |-> until]
  <2>1. skipped \in Bal!Syncers /\ skipped.pc \notin {"found", "benched"} /\ skipped.key = None
    <3>1. syncer[p].pc = "round"
      BY <1>6 DEF Bal!Check, Bal!At
    <3>2. syncer[p].key = None
      BY <3>1 DEF SyncersAreTyped
    <3>3. "open" \in Bal!Bench
      BY DEF Bal!Bench
    <3> QED
      BY <1>1, <3>1, <3>2, <3>3, SyncerEdits
  <2>2. \A until \in {"while", "cycle"} :
            /\ found(until) \in Bal!Syncers /\ found(until).pc = "found"
            /\ found(until).key # None
    BY <1>1, NoneAssumption DEF Bal!Syncers, Bal!Bench
  <2>3. \/ Bal!Turn(p, skipped)
        \/ \E until \in {"while", "cycle"} : Bal!Turn(p, found(until))
    BY <1>6 DEF Bal!Check, Bal!Skips
  <2>4. UNCHANGED <<column, bench, marked>> /\ (faults' = faults \/ Bal!Fault)
    BY <1>6 DEF Bal!Check
  <2> HIDE DEF skipped, found
  <2> QED
    BY <1>4, <2>1, <2>2, <2>3, <2>4
<1>7. ASSUME Bal!BenchSpent(p) \/ Bal!WriteSpent(p)
      PROVE  syncer[p].key \in Key /\ syncer[p].until \in Bal!Bench
  <2>1. syncer[p].pc \in {"found", "benched"}
    BY <1>7 DEF Bal!BenchSpent, Bal!WriteSpent, Bal!At
  <2>2. syncer[p].key # None
    BY <2>1 DEF SyncersAreTyped
  <2> QED
    BY <1>1, <2>2 DEF Bal!Syncers
<1>8. CASE Bal!BenchSpent(p)
  <2> DEFINE s == [syncer[p] EXCEPT !.pc = "benched"]
  <2>0. syncer[p].key # None
    BY <1>7, <1>8, NoneAssumption
  <2>1. s \in Bal!Syncers /\ s.pc = "benched" /\ s.key # None
    <3>1. syncer[p].until \in Bal!Bench
      BY <1>7, <1>8
    <3>2. s \in Bal!Syncers /\ s.pc = "benched" /\ s.key = syncer[p].key
      BY <1>1, <3>1, SyncerEdits
    <3> QED
      BY <2>0, <3>2
  <2>2. Bal!Turn(p, s) /\ UNCHANGED <<column, faults>>
    BY <1>8 DEF Bal!BenchSpent
  <2> HIDE DEF s
  <2>3. SyncersAreTyped' /\ \A q \in Process \ {p} : syncer'[q] = syncer[q]
    BY <2>1, <2>2, TurnsKeepTypes
  <2>4. bench' \in [Process -> [Key -> Bal!Bench]] /\ marked' \in [Key -> SUBSET Bal!Actor]
    BY <1>7, <1>8 DEF Bal!BenchSpent, Bal!MarkExhausted, BenchesAreTyped, Bal!Actor
  <2> QED
    BY <1>2, <1>3, <2>2, <2>3, <2>4 DEF BenchesAreTyped
<1>9. CASE Bal!WriteSpent(p)
  <2> DEFINE s == [Bal!Off EXCEPT !.pc = "round", !.left = syncer[p].left]
  <2>1. s \in Bal!Syncers /\ s.pc = "round" /\ s.key = None
    BY <1>1, IdleSyncers
  <2>2. Bal!Turn(p, s) /\ UNCHANGED <<bench, marked>>
    BY <1>9 DEF Bal!WriteSpent
  <2> HIDE DEF s
  <2>3. SyncersAreTyped' /\ \A q \in Process \ {p} : syncer'[q] = syncer[q]
    BY <2>1, <2>2, TurnsKeepTypes
  <2>4. column' \in [Key -> Bal!Bench] /\ faults' \in 0..MaxFaults
    BY <1>7, <1>9, BoundsAssumption
       DEF Bal!WriteSpent, Bal!SetKeyExhausted, Bal!Fault, BenchesAreTyped
  <2> QED
    BY <1>2, <1>3, <2>2, <2>3, <2>4 DEF BenchesAreTyped
<1>10. CASE Bal!EndRound(p)
  <2>1. \E s \in {Bal!Off, Bal!Waiting} : Bal!Turn(p, s)
    BY <1>10 DEF Bal!EndRound
  <2>2. UNCHANGED <<column, bench, faults, marked>>
    BY <1>10 DEF Bal!EndRound
  <2> QED
    BY <1>2, <1>4, <2>1, <2>2, IdleSyncers
<1> QED
    BY <1>2, <1>5, <1>6, <1>8, <1>9, <1>10 DEF Bal!SyncerStep

(* Reports, and what main does to the balance checks of its process.       *)
LEMMA ReportsKeepTypes ==
    ASSUME BalancesTyped, faults \in 0..MaxFaults, NEW p \in Process,
           (\E k \in Key : Bal!Report(p, k)) \/ Bal!WriteReport(p)
    PROVE  /\ BalancesTyped' /\ faults' \in 0..MaxFaults
           /\ UNCHANGED syncer /\ \A q \in Process \ {p} : report'[q] = report[q]
           /\ Bal!WriteReport(p) => report[p].pc = "benched"
<1> USE DEF BalancesTyped
<1>1. ASSUME NEW k \in Key, Bal!Report(p, k)
      PROVE  /\ ReportsAreTyped' /\ BenchesAreTyped' /\ UNCHANGED <<syncer, faults>>
             /\ \A q \in Process \ {p} : report'[q] = report[q]
  <2>1. UNCHANGED <<spent, column, syncer, cancelled, faults>> /\ reports' \in 0..MaxReports
    BY <1>1, BoundsAssumption DEF Bal!Report, BenchesAreTyped
  <2>2. ReportsAreTyped' /\ \A q \in Process \ {p} : report'[q] = report[q]
    BY <1>1, NoneAssumption DEF Bal!Report, ReportsAreTyped, Bal!Reports, Bal!Bench
  <2>3. bench' \in [Process -> [Key -> Bal!Bench]] /\ marked' \in [Key -> SUBSET Bal!Actor]
    BY <1>1 DEF Bal!Report, Bal!MarkExhausted, BenchesAreTyped, Bal!Bench, Bal!Actor
  <2> QED
    BY <2>1, <2>2, <2>3 DEF BenchesAreTyped
<1>2. CASE Bal!WriteReport(p)
  <2>1. report[p].pc = "benched" /\ report[p].key \in Key /\ report[p].until \in Bal!Bench
    BY <1>2 DEF Bal!WriteReport, ReportsAreTyped, Bal!Reports
  <2>2. column' \in [Key -> Bal!Bench] /\ faults' \in 0..MaxFaults
    BY <1>2, <2>1, BoundsAssumption
       DEF Bal!WriteReport, Bal!SetKeyExhausted, Bal!Fault, BenchesAreTyped
  <2>3. ReportsAreTyped' /\ \A q \in Process \ {p} : report'[q] = report[q]
    BY <1>2 DEF Bal!WriteReport, ReportsAreTyped, Bal!NoReport, Bal!Reports, Bal!Bench
  <2>4. UNCHANGED <<spent, bench, syncer, cancelled, reports, marked>>
    BY <1>2 DEF Bal!WriteReport
  <2> QED
    BY <2>1, <2>2, <2>3, <2>4 DEF BenchesAreTyped, SyncersAreTyped
<1>3. UNCHANGED syncer => SyncersAreTyped'
    BY DEF SyncersAreTyped
<1>4. Bal!WriteReport(p) => report[p].pc = "benched"
    BY DEF Bal!WriteReport
<1> QED
    BY <1>1, <1>2, <1>3, <1>4

LEMMA LoadKeepsTypes ==
    ASSUME BalancesTyped, NEW p \in Process, Bal!Load(p)
    PROVE  /\ BalancesTyped' /\ UNCHANGED <<report, faults>>
           /\ \A q \in Process \ {p} : syncer'[q] = syncer[q]
<1> USE DEF BalancesTyped
<1>1. Bal!Round \in Bal!Syncers /\ Bal!Round.pc = "round" /\ Bal!Round.key = None
    BY IdleSyncers DEF Bal!Round
<1>2. SyncersAreTyped' /\ \A q \in Process \ {p} : syncer'[q] = syncer[q]
    BY <1>1, TurnsKeepTypes DEF Bal!Load
<1> QED
    BY <1>2 DEF Bal!Load, BenchesAreTyped, ReportsAreTyped

LEMMA StopKeepsTypes ==
    ASSUME BalancesTyped, NEW p \in Process, Bal!StopBalances(p)
    PROVE  BalancesTyped' /\ UNCHANGED <<syncer, report, faults>>
BY DEF BalancesTyped, Bal!StopBalances, BenchesAreTyped, ReportsAreTyped, SyncersAreTyped

LEMMA ExitKeepsTypes ==
    ASSUME BalancesTyped, NEW p \in Process, Bal!Exit(p)
    PROVE  /\ BalancesTyped' /\ UNCHANGED syncer /\ UNCHANGED faults /\ report'[p].pc = "idle"
           /\ \A q \in Process \ {p} : report'[q] = report[q]
<1> USE DEF BalancesTyped, Bal!Exit, Bal!Unload
<1>1. /\ ReportsAreTyped' /\ report'[p].pc = "idle"
      /\ \A q \in Process \ {p} : report'[q] = report[q]
    BY DEF ReportsAreTyped, Bal!NoReport, Bal!Reports, Bal!Bench
<1>2. BenchesAreTyped'
    BY DEF BenchesAreTyped, Bal!Bench
<1> QED
    BY <1>1, <1>2 DEF SyncersAreTyped

LEMMA ForgetKeepsTypes ==
    ASSUME BalancesTyped, NEW p \in Process, Bal!Forget(p)
    PROVE  /\ BalancesTyped' /\ syncer'[p].pc = "off" /\ report'[p].pc = "idle"
           /\ \A q \in Process \ {p} : syncer'[q] = syncer[q] /\ report'[q] = report[q]
<1> USE DEF BalancesTyped
<1>1. /\ SyncersAreTyped' /\ syncer'[p].pc = "off"
      /\ \A q \in Process \ {p} : syncer'[q] = syncer[q]
    BY IdleSyncers, TurnsKeepTypes DEF Bal!Forget, Bal!Unload
<1>2. /\ ReportsAreTyped' /\ report'[p].pc = "idle"
      /\ \A q \in Process \ {p} : report'[q] = report[q]
    BY DEF Bal!Forget, Bal!Unload, ReportsAreTyped, Bal!NoReport, Bal!Reports, Bal!Bench
<1>3. BenchesAreTyped'
    BY DEF Bal!Forget, Bal!Unload, BenchesAreTyped, Bal!Bench
<1> QED
    BY <1>1, <1>2, <1>3

-----------------------------------------------------------------------------
(* What holds between the steps of main and of its balance checks.         *)
StagesAgree ==
    \A p \in Process :
        /\ ~In(p, "off") => Mig!At(p, "migrated")
        /\ syncer[p].pc # "off" \/ report[p].pc # "idle" => stage[p] \in {"serving", "stopping"}

Stages == [Process -> {"off", "serving", "stopping", "stopped"}]

IInv == Mig!TypeOK /\ MigInv /\ BalancesTyped /\ stage \in Stages /\ StagesAgree

LEMMA IInvInit == Init => IInv
<1> SUFFICES ASSUME Init PROVE IInv
    OBVIOUS
<1>1. Mig!TypeOK /\ MigInv
    BY MigrationsTypeInit, MigInvInit DEF Init
<1>2. BalancesTyped
    BY BalancesTypeInit DEF Init
<1>3. StagesAgree /\ stage \in Stages
    BY DEF Init, StagesAgree, Stages, In, Bal!Init, Bal!Off, Bal!NoReport
<1> QED
    BY <1>1, <1>2, <1>3 DEF IInv

(* Where the migrations stand still, all that is said of them stands.      *)
LEMMA MigrationsStand ==
    ASSUME Mig!TypeOK, MigInv, UNCHANGED migrations, faults' \in 0..MaxFaults
    PROVE  Mig!TypeOK' /\ MigInv'
<1>1. UNCHANGED recorded /\ UNCHANGED schema /\ UNCHANGED boot
    BY DEF migrations
<1>2. Mig!TypeOK'
    BY <1>1 DEF Mig!TypeOK
<1> QED
    BY <1>1, <1>2 DEF MigInv, RecordedIsRun, NothingIsMissed, MigratedIsDone,
                      Mig!AppliedOnce, Mig!AfterTheEarlier, Mig!Ran, Mig!At

LEMMA BalancesStand ==
    ASSUME BalancesTyped, UNCHANGED balances
    PROVE  BalancesTyped' /\ UNCHANGED syncer /\ UNCHANGED report
BY DEF balances, BalancesTyped, SyncersAreTyped, ReportsAreTyped, BenchesAreTyped

(* The boots of the other processes are left alone by what p does.         *)
LEMMA BootsApart ==
    ASSUME Mig!TypeOK, NEW p \in Process,
           Mig!RunMigrations(p) \/ Mig!MigrationStep(p) \/ Mig!Die(p)
    PROVE  \A q \in Process \ {p} : boot'[q] = boot[q]
<1>1. boot \in [Process -> Mig!Boots]
    BY DEF Mig!TypeOK
<1>2. ASSUME NEW f \in File, Mig!ExecuteMigration(p, f)
      PROVE  \A q \in Process \ {p} : boot'[q] = boot[q]
  <2>1. \/ boot' = [boot EXCEPT ![p].todo = @ \ {f}]
        \/ boot' = [boot EXCEPT ![p] = Mig!Down]
    BY <1>2, Zenon DEF Mig!ExecuteMigration
  <2> QED
    BY <1>1, <2>1, EntryOfBoot
<1>3. CASE Mig!Migrated(p)
    BY <1>1, <1>3 DEF Mig!Migrated, Mig!Boots
<1>4. ASSUME NEW f \in File, Mig!MigrationRefused(p, f)
      PROVE  \A q \in Process \ {p} : boot'[q] = boot[q]
    BY <1>1, <1>4 DEF Mig!MigrationRefused
<1>5. CASE Mig!RunMigrations(p) \/ Mig!Die(p)
    BY <1>1, <1>5 DEF Mig!RunMigrations, Mig!Die
<1> QED
    BY <1>2, <1>3, <1>4, <1>5 DEF Mig!MigrationStep

LEMMA IInvStep == IInv /\ [Next]_vars => IInv'
<1> SUFFICES ASSUME IInv, [Next]_vars PROVE IInv'
    OBVIOUS
<1> USE DEF IInv
<1>1. faults \in 0..MaxFaults
    BY DEF Mig!TypeOK
<1>2. ASSUME NEW p \in Process, Boot(p) PROVE IInv'
  <2>1. Mig!TypeOK' /\ MigInv' /\ \A q \in Process \ {p} : boot'[q] = boot[q]
    BY <1>2, MigrationsType, MigInvStep, BootsApart DEF Boot
  <2>2. BalancesTyped' /\ UNCHANGED syncer /\ UNCHANGED report /\ UNCHANGED stage /\ In(p, "off")
    BY <1>2, BalancesStand DEF Boot
  <2>3. StagesAgree' /\ stage' \in Stages
    BY <2>1, <2>2 DEF StagesAgree, In, Mig!At
  <2> QED
    BY <2>1, <2>2, <2>3
<1>3. ASSUME NEW p \in Process, Start(p) PROVE IInv'
  <2>1. /\ BalancesTyped' /\ UNCHANGED report /\ UNCHANGED faults
        /\ \A q \in Process \ {p} : syncer'[q] = syncer[q]
    BY <1>3, LoadKeepsTypes DEF Start
  <2>2. Mig!TypeOK' /\ MigInv' /\ UNCHANGED boot
    BY <1>1, <1>3, <2>1, MigrationsStand DEF Start, migrations
  <2>3. StagesAgree' /\ stage' \in Stages
    BY <1>3, <2>1, <2>2 DEF Start, Goes, StagesAgree, Stages, In, Mig!At
  <2> QED
    BY <2>1, <2>2, <2>3
<1>4. ASSUME NEW p \in Process, Handle(p) PROVE IInv'
  <2>1. (\E k \in Key : Bal!Report(p, k)) \/ Bal!WriteReport(p)
    BY <1>4 DEF Handle
  <2>2. /\ BalancesTyped' /\ faults' \in 0..MaxFaults /\ UNCHANGED syncer
        /\ \A q \in Process \ {p} : report'[q] = report[q]
        /\ In(p, "serving") \/ report[p].pc = "benched"
    BY <1>1, <1>4, <2>1, ReportsKeepTypes DEF Handle
  <2>3. Mig!TypeOK' /\ MigInv' /\ UNCHANGED boot /\ UNCHANGED stage
    BY <1>4, <2>2, MigrationsStand DEF Handle, migrations
  <2>4. StagesAgree'
    BY <2>2, <2>3 DEF StagesAgree, In, Mig!At
  <2> QED
    BY <2>2, <2>3, <2>4
<1>5. ASSUME NEW p \in Process, CheckBalances(p) PROVE IInv'
  <2>1. /\ BalancesTyped' /\ faults' \in 0..MaxFaults /\ syncer[p].pc # "off"
        /\ UNCHANGED report /\ \A q \in Process \ {p} : syncer'[q] = syncer[q]
    BY <1>1, <1>5, ChecksKeepTypes DEF CheckBalances
  <2>2. Mig!TypeOK' /\ MigInv' /\ UNCHANGED boot /\ UNCHANGED stage
    BY <1>5, <2>1, MigrationsStand DEF CheckBalances, migrations
  <2>3. StagesAgree'
    BY <2>1, <2>2 DEF StagesAgree, In, Mig!At
  <2> QED
    BY <2>1, <2>2, <2>3
<1>6. ASSUME NEW p \in Process, StopBalances(p) PROVE IInv'
  <2>1. BalancesTyped' /\ UNCHANGED syncer /\ UNCHANGED report /\ UNCHANGED faults
    BY <1>6, StopKeepsTypes DEF StopBalances
  <2>2. Mig!TypeOK' /\ MigInv' /\ UNCHANGED boot
    BY <1>1, <1>6, <2>1, MigrationsStand DEF StopBalances, migrations
  <2>3. StagesAgree' /\ stage' \in Stages
    BY <1>6, <2>1, <2>2 DEF StopBalances, Goes, StagesAgree, Stages, In, Mig!At
  <2> QED
    BY <2>1, <2>2, <2>3
<1>7. ASSUME NEW p \in Process, Stop(p) PROVE IInv'
  <2>1. /\ BalancesTyped' /\ UNCHANGED syncer /\ UNCHANGED faults /\ report'[p].pc = "idle"
        /\ \A q \in Process \ {p} : report'[q] = report[q]
    BY <1>7, ExitKeepsTypes DEF Stop
  <2>2. Mig!TypeOK' /\ MigInv' /\ UNCHANGED boot
    BY <1>1, <1>7, <2>1, MigrationsStand DEF Stop, migrations
  <2>3. StagesAgree' /\ stage' \in Stages
    BY <1>7, <2>1, <2>2 DEF Stop, SyncerIsDone, Goes, StagesAgree, Stages, In, Mig!At
  <2> QED
    BY <2>1, <2>2, <2>3
<1>8. ASSUME NEW p \in Process, Crash(p) PROVE IInv'
  <2>1. Mig!TypeOK' /\ MigInv' /\ \A q \in Process \ {p} : boot'[q] = boot[q]
    BY <1>8, MigrationsType, MigInvStep, BootsApart DEF Crash
  <2>2. /\ BalancesTyped' /\ syncer'[p].pc = "off" /\ report'[p].pc = "idle"
        /\ \A q \in Process \ {p} : syncer'[q] = syncer[q] /\ report'[q] = report[q]
    BY <1>8, ForgetKeepsTypes DEF Crash
  <2>3. StagesAgree' /\ stage' \in Stages
    BY <1>8, <2>1, <2>2 DEF Crash, StagesAgree, Stages, In, Mig!At
  <2> QED
    BY <2>1, <2>2, <2>3
<1>9. CASE Provider
  <2>1. /\ BalancesTyped' /\ faults' = faults
        /\ \A p \in Process : syncer'[p].pc = syncer[p].pc /\ report'[p].pc = report[p].pc
    BY <1>9, ProviderKeepsTypes DEF Provider
  <2>2. Mig!TypeOK' /\ MigInv' /\ UNCHANGED boot /\ UNCHANGED stage
    BY <1>1, <1>9, <2>1, MigrationsStand DEF Provider, migrations
  <2>3. StagesAgree'
    BY <2>1, <2>2 DEF StagesAgree, In, Mig!At
  <2> QED
    BY <2>1, <2>2, <2>3
<1>10. CASE UNCHANGED vars
  <2>1. UNCHANGED migrations /\ UNCHANGED balances /\ UNCHANGED faults /\ UNCHANGED stage
    BY <1>10 DEF vars
  <2>2. BalancesTyped' /\ UNCHANGED syncer /\ UNCHANGED report
    BY <2>1, BalancesStand
  <2>3. Mig!TypeOK' /\ MigInv' /\ UNCHANGED boot
    BY <1>1, <2>1, MigrationsStand DEF migrations
  <2> QED
    BY <2>1, <2>2, <2>3 DEF StagesAgree, In, Mig!At
<1> QED
    BY <1>2, <1>3, <1>4, <1>5, <1>6, <1>7, <1>8, <1>9, <1>10 DEF Next

LEMMA IInvHolds == Spec => []IInv
BY IInvInit, IInvStep, PTL DEF Spec

(* Both halves of a process keep their types, for any number of processes, *)
(* files and keys, and no balance check runs outside the stages of main    *)
(* that own it (startBalances, stopBalances).                              *)
THEOREM TypeCorrect == Spec => []TypeOK
<1>1. IInv => TypeOK
  <2>1. BalancesTyped /\ Mig!TypeOK => Bal!TypeOK
    BY BalancesType DEF Mig!TypeOK
  <2> QED
    BY <2>1 DEF IInv, TypeOK, StagesAgree, Stages
<1> QED
    BY <1>1, IInvHolds, PTL

(* However many processes migrate one database at once, of whatever        *)
(* releases, die half way or miss an answer: no version is committed twice,*)
(* and none before an earlier one of its release (RunMigrations).          *)
THEOREM SchemaInOrder == Spec => []SchemaGrowsInOrder
<1>1. IInv => SchemaGrowsInOrder
    BY DEF IInv, MigInv, SchemaGrowsInOrder
<1> QED
    BY <1>1, IInvHolds, PTL

(* A process that reads or writes rows has a schema with every version of  *)
(* its release, whoever applied it (openStore before NewManager).          *)
THEOREM ServingIsMigrated == Spec => []ServesMigrated
<1>1. IInv => ServesMigrated
  <2> SUFFICES ASSUME IInv, NEW p \in Process, ~In(p, "off"), NEW f \in Shipped[p]
               PROVE  \E i \in 1..Len(schema) : Mig!Ran(i) = VersionOf[f]
    BY DEF ServesMigrated
  <2>1. Mig!At(p, "migrated") /\ ~Mig!At(p, "down") /\ boot[p].todo = {}
    BY DEF IInv, StagesAgree, MigInv, MigratedIsDone, Mig!At
  <2>2. VersionOf[f] \in recorded
    BY <2>1 DEF IInv, MigInv, NothingIsMissed
  <2>3. VersionOf[f] \in Nat
    BY FileAssumption
  <2> QED
    BY <2>2, <2>3 DEF IInv, MigInv, RecordedIsRun
<1> QED
    BY <1>1, IInvHolds, PTL

-----------------------------------------------------------------------------
(* A bench for the cycle that only the balance checks of p made is in the  *)
(* row, or they are about to write it there: whoever else benches the key, *)
(* or has yet to write its row, has marked it.                             *)
WriteUnderWay(p, k) == syncer[p].pc = "benched" /\ syncer[p].key = k

ReachesRow(p, k) ==
    IF WriteUnderWay(p, k) THEN syncer[p].until = "cycle" ELSE column[k] = "cycle"

OnlyMarkedBy(p, k) == marked[k] \subseteq {<<p, "syncer">>}

BenchesReachTheRow ==
    \A p \in Process, k \in Key :
        faults = 0 /\ bench[p][k] = "cycle" /\ OnlyMarkedBy(p, k) => ReachesRow(p, k)

HalfwayIsMarked ==
    \A p \in Process, k \in Key :
        /\ syncer[p].pc = "benched" /\ syncer[p].key = k => <<p, "syncer">> \in marked[k]
        /\ report[p].key = k => <<p, "client">> \in marked[k]

Kept == BenchesReachTheRow /\ HalfwayIsMarked

LEMMA KeptInit == Init => Kept
<1> SUFFICES ASSUME Init PROVE Kept
    OBVIOUS
<1>1. \A p \in Process : syncer[p].pc = "off" /\ report[p].key = None
    BY DEF Init, Bal!Init, Bal!Off, Bal!NoReport
<1>2. \A p \in Process, k \in Key : bench[p][k] = "open"
    BY DEF Init, Bal!Init
<1> QED
    BY <1>1, <1>2, NoneAssumption DEF Kept, BenchesReachTheRow, HalfwayIsMarked

(* A step that writes no row and benches no key, though a pool may go, or  *)
(* be read anew from the rows.                                             *)
LEMMA QuietStep ==
    ASSUME Kept, column' = column, marked' = marked, faults' = 0 => faults = 0,
           \A p \in Process :
               /\ \/ bench'[p] = bench[p] /\ (syncer[p].pc = "benched" => syncer'[p] = syncer[p])
                  \/ bench'[p] = column /\ syncer'[p].pc # "benched"
                  \/ \A k \in Key : bench'[p][k] # "cycle"
               /\ syncer'[p].pc = "benched" => syncer'[p] = syncer[p]
               /\ report'[p].key \in {report[p].key, None}
    PROVE  Kept'
<1>1. HalfwayIsMarked'
    BY NoneAssumption DEF Kept, HalfwayIsMarked
<1>2. ASSUME NEW p \in Process, NEW k \in Key,
             faults' = 0, bench'[p][k] = "cycle", OnlyMarkedBy(p, k)'
      PROVE  ReachesRow(p, k)'
    BY <1>2 DEF Kept, BenchesReachTheRow, OnlyMarkedBy, ReachesRow, WriteUnderWay
<1> QED
    BY <1>1, <1>2 DEF Kept, BenchesReachTheRow

LEMMA ChecksAreKept ==
    ASSUME BalancesTyped, faults \in Nat, Kept, NEW p \in Process, Bal!SyncerStep(p)
    PROVE  Kept'
<1>1. /\ syncer \in [Process -> Bal!Syncers] /\ syncer[p] \in Bal!Syncers
      /\ UNCHANGED report /\ syncer[p].left \in SUBSET Key
      /\ syncer[p].pc \in {"found", "benched"} => syncer[p].key \in Key
  <2>1. UNCHANGED report
    BY DEF Bal!SyncerStep, Bal!StartRound, Bal!Check, Bal!BenchSpent, Bal!WriteSpent,
           Bal!EndRound, Bal!At
  <2> QED
    BY <2>1 DEF BalancesTyped, SyncersAreTyped, Bal!Syncers
<1>2. CASE Bal!StartRound(p) \/ Bal!EndRound(p) \/ \E k \in Key : Bal!Check(p, k)
  <2>1. UNCHANGED <<column, marked, bench>> /\ (faults' = 0 => faults = 0)
    <3>1. UNCHANGED <<column, marked, bench>> /\ (faults' = faults \/ faults' = faults + 1)
      BY <1>2, Zenon DEF Bal!StartRound, Bal!EndRound, Bal!Check, Bal!Fault
    <3> QED
      BY <3>1
  <2>2. syncer[p].pc # "benched"
    BY <1>2 DEF Bal!StartRound, Bal!EndRound, Bal!Check, Bal!At
  <2>3. /\ syncer'[p].pc # "benched" /\ \A q \in Process \ {p} : syncer'[q] = syncer[q]
    <3>1. CASE Bal!StartRound(p) \/ Bal!EndRound(p)
      BY <1>1, <3>1, IdleSyncers
         DEF Bal!StartRound, Bal!EndRound, Bal!Turn, Bal!Round, Bal!Off, Bal!Waiting
    <3>2. ASSUME NEW k \in Key, Bal!Check(p, k)
          PROVE  \E s : syncer' = [syncer EXCEPT ![p] = s] /\ s.pc # "benched"
      <4>1. [syncer[p] EXCEPT !.left = @ \ {k}].pc = syncer[p].pc
        BY <1>1 DEF Bal!Syncers
      <4>2. \A until \in {"while", "cycle"} :
                [pc |-> "found", left |-> syncer[p].left \ {k}, key |-> k,
                 until |-> until].pc = "found"
        OBVIOUS
      <4>3. \/ syncer' = [syncer EXCEPT ![p] = [syncer[p] EXCEPT !.left = @ \ {k}]]
            \/ \E until \in {"while", "cycle"} :
                  syncer' = [syncer EXCEPT ![p] =
                        [pc |-> "found", left |-> syncer[p].left \ {k}, key |-> k,
                         until |-> until]]
        BY <3>2 DEF Bal!Check, Bal!Skips, Bal!Turn
      <4>4. CASE syncer' = [syncer EXCEPT ![p] = [syncer[p] EXCEPT !.left = @ \ {k}]]
        BY <2>2, <4>1, <4>4
      <4>5. ASSUME NEW until \in {"while", "cycle"},
                   syncer' = [syncer EXCEPT ![p] =
                        [pc |-> "found", left |-> syncer[p].left \ {k}, key |-> k,
                         until |-> until]]
            PROVE  \E s : syncer' = [syncer EXCEPT ![p] = s] /\ s.pc # "benched"
        BY <4>2, <4>5
      <4> QED
        BY <4>3, <4>4, <4>5
    <3> QED
      BY <1>1, <1>2, <3>1, <3>2
  <2> QED
    BY <1>1, <2>1, <2>2, <2>3, QuietStep
<1>3. CASE Bal!BenchSpent(p)
  <2> DEFINE s == [syncer[p] EXCEPT !.pc = "benched"]
             k == syncer[p].key
  <2>1. /\ k \in Key /\ UNCHANGED <<column, faults>>
        /\ bench' = [bench EXCEPT ![p][k] = syncer[p].until]
        /\ marked' = [marked EXCEPT ![k] = @ \cup {<<p, "syncer">>}]
        /\ syncer' = [syncer EXCEPT ![p] = s]
    BY <1>1, <1>3 DEF Bal!BenchSpent, Bal!MarkExhausted, Bal!At, Bal!Turn
  <2>2. s.pc = "benched" /\ s.key = k /\ s.until = syncer[p].until
    BY <1>1 DEF Bal!Syncers
  <2> HIDE DEF s, k
  <2>3. syncer'[p] = s /\ \A q \in Process \ {p} : syncer'[q] = syncer[q]
    BY <1>1, <2>1
  <2>4. /\ bench'[p][k] = syncer[p].until
        /\ \A q \in Process, j \in Key : q # p \/ j # k => bench'[q][j] = bench[q][j]
        /\ <<p, "syncer">> \in marked'[k]
        /\ \A j \in Key : marked[j] \subseteq marked'[j]
    BY <2>1 DEF BalancesTyped, BenchesAreTyped
  <2>5. HalfwayIsMarked'
    <3> SUFFICES ASSUME NEW q \in Process, NEW j \in Key
                 PROVE  /\ syncer'[q].pc = "benched" /\ syncer'[q].key = j
                              => <<q, "syncer">> \in marked'[j]
                        /\ report'[q].key = j => <<q, "client">> \in marked'[j]
      BY DEF HalfwayIsMarked
    <3>1. report' = report
      BY <1>1
    <3>2. CASE q = p
      BY <2>2, <2>3, <2>4, <3>1, <3>2 DEF Kept, HalfwayIsMarked
    <3>3. CASE q # p
      BY <2>3, <2>4, <3>1, <3>3 DEF Kept, HalfwayIsMarked
    <3> QED
      BY <3>2, <3>3
  <2>6. ASSUME NEW q \in Process, NEW j \in Key,
               faults' = 0, bench'[q][j] = "cycle", OnlyMarkedBy(q, j)'
        PROVE  ReachesRow(q, j)'
    <3>1. CASE q = p /\ j = k
      BY <2>2, <2>3, <2>4, <2>6, <3>1 DEF ReachesRow, WriteUnderWay
    <3>2. CASE q # p /\ j = k
      BY <2>4, <2>6, <3>2 DEF OnlyMarkedBy
    <3>3. CASE j # k
      <4>1. ReachesRow(q, j)
        BY <2>1, <2>4, <2>6, <3>3 DEF Kept, BenchesReachTheRow, OnlyMarkedBy
      <4>2. WriteUnderWay(q, j)' <=> WriteUnderWay(q, j)
        BY <2>2, <2>3, <3>3 DEF k, WriteUnderWay
      <4>3. WriteUnderWay(q, j) => q # p
        BY <3>3 DEF k, WriteUnderWay
      <4> QED
        BY <2>1, <2>3, <4>1, <4>2, <4>3 DEF ReachesRow
    <3> QED
      BY <3>1, <3>2, <3>3
  <2> QED
    BY <2>5, <2>6 DEF Kept, BenchesReachTheRow
<1>4. CASE Bal!WriteSpent(p)
  <2> DEFINE s == [Bal!Off EXCEPT !.pc = "round", !.left = syncer[p].left]
             k == syncer[p].key
  <2>1. /\ k \in Key /\ UNCHANGED <<bench, marked>> /\ syncer[p].pc = "benched"
        /\ syncer' = [syncer EXCEPT ![p] = s]
        /\ \/ column' = [column EXCEPT ![k] = syncer[p].until] /\ faults' = faults
           \/ column' = column /\ faults' = faults + 1
    BY <1>1, <1>4
       DEF Bal!WriteSpent, Bal!SetKeyExhausted, Bal!Fault, Bal!At, Bal!Turn
  <2>2. s.pc = "round"
    BY <1>1, IdleSyncers
  <2> HIDE DEF s, k
  <2>3. syncer'[p] = s /\ \A q \in Process \ {p} : syncer'[q] = syncer[q]
    BY <1>1, <2>1
  <2>4. HalfwayIsMarked'
    BY <1>1, <2>1, <2>2, <2>3 DEF Kept, HalfwayIsMarked
  <2>5. <<p, "syncer">> \in marked[k]
    BY <2>1 DEF k, Kept, HalfwayIsMarked
  <2>6. ASSUME NEW q \in Process, NEW j \in Key,
               faults' = 0, bench'[q][j] = "cycle", OnlyMarkedBy(q, j)'
        PROVE  ReachesRow(q, j)'
    <3>1. /\ faults = 0 /\ column' = [column EXCEPT ![k] = syncer[p].until]
          /\ column \in [Key -> Bal!Bench]
      BY <2>1, <2>6 DEF BalancesTyped, BenchesAreTyped
    <3>2. ReachesRow(q, j)
      BY <2>1, <2>6, <3>1 DEF Kept, BenchesReachTheRow, OnlyMarkedBy
    <3>3. CASE q = p /\ j = k
      <4>1. WriteUnderWay(q, j) /\ ~WriteUnderWay(q, j)'
        BY <2>1, <2>2, <2>3, <3>3 DEF k, WriteUnderWay
      <4>2. column'[j] = syncer[p].until
        BY <2>1, <3>1, <3>3
      <4> QED
        BY <3>2, <3>3, <4>1, <4>2 DEF ReachesRow
    <3>4. CASE q # p /\ j = k
      BY <2>1, <2>5, <2>6, <3>4 DEF OnlyMarkedBy
    <3>5. CASE j # k
      <4>1. WriteUnderWay(q, j)' <=> WriteUnderWay(q, j)
        BY <2>2, <2>3, <3>5 DEF k, WriteUnderWay
      <4>2. WriteUnderWay(q, j) => q # p
        BY <3>5 DEF k, WriteUnderWay
      <4> QED
        BY <2>3, <3>1, <3>2, <3>5, <4>1, <4>2 DEF ReachesRow
    <3> QED
      BY <3>3, <3>4, <3>5
  <2> QED
    BY <2>4, <2>6 DEF Kept, BenchesReachTheRow
<1> QED
    BY <1>2, <1>3, <1>4 DEF Bal!SyncerStep

LEMMA ReportsAreKept ==
    ASSUME BalancesTyped, faults \in Nat, Kept, NEW p \in Process,
           (\E k \in Key : Bal!Report(p, k)) \/ Bal!WriteReport(p)
    PROVE  Kept'
<1>1. UNCHANGED syncer /\ report \in [Process -> Bal!Reports]
    BY DEF Bal!Report, Bal!WriteReport, BalancesTyped, ReportsAreTyped
<1>2. ASSUME NEW k \in Key, Bal!Report(p, k) PROVE Kept'
  <2> DEFINE r == [pc |-> "benched", key |-> k, until |-> "while"]
  <2>1. /\ UNCHANGED <<column, faults>> /\ report' = [report EXCEPT ![p] = r]
        /\ bench' = [bench EXCEPT ![p][k] = "while"]
        /\ marked' = [marked EXCEPT ![k] = @ \cup {<<p, "client">>}]
    BY <1>2 DEF Bal!Report, Bal!MarkExhausted
  <2>2. /\ \A q \in Process, j \in Key : q # p \/ j # k => bench'[q][j] = bench[q][j]
        /\ <<p, "client">> \in marked'[k]
        /\ \A j \in Key : marked[j] \subseteq marked'[j]
        /\ \A j \in Key \ {k} : marked'[j] = marked[j]
    BY <2>1 DEF BalancesTyped, BenchesAreTyped
  <2>3. r.key = k /\ report'[p] = r /\ \A q \in Process \ {p} : report'[q] = report[q]
    BY <1>1, <2>1
  <2> HIDE DEF r
  <2>4. HalfwayIsMarked'
    BY <1>1, <2>2, <2>3 DEF Kept, HalfwayIsMarked
  <2>5. ASSUME NEW q \in Process, NEW j \in Key,
               faults' = 0, bench'[q][j] = "cycle", OnlyMarkedBy(q, j)'
        PROVE  ReachesRow(q, j)'
    <3>1. j # k /\ bench[q][j] = "cycle" /\ OnlyMarkedBy(q, j)
      BY <2>2, <2>5 DEF OnlyMarkedBy
    <3> QED
      BY <1>1, <2>1, <2>5, <3>1
         DEF Kept, BenchesReachTheRow, ReachesRow, WriteUnderWay
  <2> QED
    BY <2>4, <2>5 DEF Kept, BenchesReachTheRow
<1>3. CASE Bal!WriteReport(p)
  <2> DEFINE k == report[p].key
  <2>1. /\ UNCHANGED <<bench, marked>> /\ k \in Key
        /\ report' = [report EXCEPT ![p] = Bal!NoReport]
        /\ \/ column' = [column EXCEPT ![k] = report[p].until] /\ faults' = faults
           \/ column' = column /\ faults' = faults + 1
    BY <1>3 DEF Bal!WriteReport, Bal!SetKeyExhausted, Bal!Fault, BalancesTyped,
                ReportsAreTyped, Bal!Reports
  <2>2. \A q \in Process : report'[q].key \in {report[q].key, None}
    BY <1>1, <2>1 DEF Bal!NoReport
  <2>3. HalfwayIsMarked' /\ <<p, "client">> \in marked[k]
    BY <1>1, <2>1, <2>2, NoneAssumption DEF Kept, HalfwayIsMarked
  <2> HIDE DEF k
  <2>4. ASSUME NEW q \in Process, NEW j \in Key,
               faults' = 0, bench'[q][j] = "cycle", OnlyMarkedBy(q, j)'
        PROVE  ReachesRow(q, j)'
    <3>1. j # k
      BY <2>1, <2>3, <2>4 DEF OnlyMarkedBy
    <3>2. faults = 0 /\ column'[j] = column[j]
      BY <2>1, <2>4, <3>1 DEF BalancesTyped, BenchesAreTyped
    <3> QED
      BY <1>1, <2>1, <2>4, <3>2
         DEF Kept, BenchesReachTheRow, OnlyMarkedBy, ReachesRow, WriteUnderWay
  <2> QED
    BY <2>3, <2>4 DEF Kept, BenchesReachTheRow
<1> QED
    BY <1>2, <1>3

(* A cycle that ends takes every bench for it away, and leaves the marks   *)
(* of those who have yet to write the row.                                 *)
LEMMA ProvidersAreKept ==
    ASSUME BalancesTyped, Kept, Bal!Provider
    PROVE  Kept'
<1>1. ASSUME NEW k \in Key, Bal!Deplete(k) PROVE Kept'
    BY <1>1, QuietStep DEF Bal!Deplete
<1>2. ASSUME NEW k \in Key, Bal!Lapse(k) PROVE Kept'
  <2>1. UNCHANGED syncer /\ UNCHANGED report /\ UNCHANGED marked /\ UNCHANGED faults
    BY <1>2 DEF Bal!Lapse
  <2>2. /\ \A q \in Process, j \in Key : bench'[q][j] = "cycle" => bench[q][j] = "cycle"
        /\ \A j \in Key : column[j] = "cycle" => column'[j] = "cycle"
    BY <1>2 DEF Bal!Lapse, BalancesTyped, BenchesAreTyped
  <2> QED
    BY <2>1, <2>2 DEF Kept, HalfwayIsMarked, BenchesReachTheRow, OnlyMarkedBy, ReachesRow,
                      WriteUnderWay
<1>3. ASSUME NEW k \in Key, Bal!Renew(k) PROVE Kept'
  <2>1. \A q \in Process : syncer'[q].pc = syncer[q].pc /\ report'[q].pc = report[q].pc
    BY <1>3, ProviderKeepsTypes DEF Bal!Provider
  <2>2. \A q \in Process :
            /\ syncer'[q].key = syncer[q].key /\ report'[q].key = report[q].key
            /\ syncer[q].key # k => syncer'[q] = syncer[q]
    <3>1. \A s \in Bal!Syncers : [s EXCEPT !.until = Bal!Ended(@)].key = s.key
      BY DEF Bal!Syncers
    <3>2. \A r \in Bal!Reports : [r EXCEPT !.until = Bal!Ended(@)].key = r.key
      BY DEF Bal!Reports
    <3>3. /\ syncer' = [q \in Process |->
                IF syncer[q].key = k THEN [syncer[q] EXCEPT !.until = Bal!Ended(@)] ELSE syncer[q]]
          /\ report' = [q \in Process |->
                IF report[q].key = k THEN [report[q] EXCEPT !.until = Bal!Ended(@)] ELSE report[q]]
      BY <1>3 DEF Bal!Renew
    <3>4. \A q \in Process : syncer[q] \in Bal!Syncers /\ report[q] \in Bal!Reports
      BY DEF BalancesTyped, SyncersAreTyped, ReportsAreTyped
    <3> QED
      BY <3>1, <3>2, <3>3, <3>4
  <2>3. /\ \A q \in Process : bench'[q][k] # "cycle"
        /\ \A q \in Process, j \in Key \ {k} : bench'[q][j] = bench[q][j]
        /\ \A j \in Key \ {k} : column'[j] = column[j] /\ marked'[j] = marked[j]
        /\ marked'[k] = Bal!Halfway(k) /\ faults' = faults
    BY <1>3 DEF Bal!Renew, Bal!Ended, BalancesTyped, BenchesAreTyped
  <2>4. \A q \in Process :
            /\ syncer[q].pc = "benched" /\ syncer[q].key = k => <<q, "syncer">> \in Bal!Halfway(k)
            /\ report[q].key = k => <<q, "client">> \in Bal!Halfway(k)
    BY DEF Bal!Halfway, Bal!Actor
  <2>5. HalfwayIsMarked'
    <3> SUFFICES ASSUME NEW q \in Process, NEW j \in Key
                 PROVE  /\ syncer'[q].pc = "benched" /\ syncer'[q].key = j
                              => <<q, "syncer">> \in marked'[j]
                        /\ report'[q].key = j => <<q, "client">> \in marked'[j]
      BY DEF HalfwayIsMarked
    <3>1. CASE j = k
      BY <2>1, <2>2, <2>3, <2>4, <3>1
    <3>2. CASE j # k
      BY <2>1, <2>2, <2>3, <3>2 DEF Kept, HalfwayIsMarked
    <3> QED
      BY <3>1, <3>2
  <2>6. ASSUME NEW q \in Process, NEW j \in Key,
               faults' = 0, bench'[q][j] = "cycle", OnlyMarkedBy(q, j)'
        PROVE  ReachesRow(q, j)'
    <3>1. j # k
      BY <2>3, <2>6
    <3>2. ReachesRow(q, j)
      BY <2>3, <2>6, <3>1 DEF Kept, BenchesReachTheRow, OnlyMarkedBy
    <3> QED
      BY <2>1, <2>2, <2>3, <3>1, <3>2 DEF ReachesRow, WriteUnderWay
  <2> QED
    BY <2>5, <2>6 DEF Kept, BenchesReachTheRow
<1> QED
    BY <1>1, <1>2, <1>3 DEF Bal!Provider

(* What main does: pools are read from the rows, and go.                   *)
LEMMA MainKeeps ==
    ASSUME IInv, Kept, NEW p \in Process,
           Boot(p) \/ Start(p) \/ StopBalances(p) \/ Stop(p) \/ Crash(p)
    PROVE  Kept'
<1>1. /\ syncer \in [Process -> Bal!Syncers] /\ report \in [Process -> Bal!Reports]
      /\ bench \in [Process -> [Key -> Bal!Bench]] /\ faults \in Nat
    BY DEF IInv, BalancesTyped, SyncersAreTyped, ReportsAreTyped, BenchesAreTyped, Mig!TypeOK
<1>2. CASE Boot(p)
  <2>1. UNCHANGED balances /\ (faults' = faults \/ faults' = faults + 1)
    BY <1>2, Zenon DEF Boot, Mig!RunMigrations, Mig!MigrationStep, Mig!ExecuteMigration,
                Mig!MigrationRefused, Mig!Migrated, Mig!Fault
  <2> QED
    BY <1>1, <2>1, QuietStep DEF balances
<1>3. CASE Start(p)
  <2>1. /\ bench' = [bench EXCEPT ![p] = column] /\ syncer' = [syncer EXCEPT ![p] = Bal!Round]
        /\ UNCHANGED <<column, report, faults, marked>>
    BY <1>3 DEF Start, Bal!Load, Bal!Turn
  <2>2. Bal!Round.pc = "round"
    BY IdleSyncers DEF Bal!Round
  <2> QED
    BY <1>1, <2>1, <2>2, QuietStep
<1>4. CASE StopBalances(p)
    BY <1>4, QuietStep DEF StopBalances, Bal!StopBalances
<1>5. CASE Stop(p) \/ Crash(p)
  <2>1. /\ UNCHANGED <<column, marked>> /\ (faults' = faults \/ faults' = faults + 1)
        /\ report' = [report EXCEPT ![p] = Bal!NoReport]
        /\ bench' = [bench EXCEPT ![p] = [k \in Key |-> "open"]]
        /\ syncer' = syncer \/ syncer' = [syncer EXCEPT ![p] = Bal!Off]
    BY <1>5 DEF Stop, Crash, Bal!Exit, Bal!Forget, Bal!Unload, Bal!Turn, Mig!Die, Mig!Fault
  <2>2. /\ \A q \in Process : report'[q].key \in {report[q].key, None}
        /\ \A q \in Process : syncer'[q].pc = "benched" => syncer'[q] = syncer[q]
    BY <1>1, <2>1, IdleSyncers DEF Bal!NoReport
  <2>3. \A q \in Process :
            \/ bench'[q] = bench[q] /\ syncer'[q] = syncer[q]
            \/ \A k \in Key : bench'[q][k] # "cycle"
    BY <1>1, <2>1
  <2> QED
    BY <1>1, <2>1, <2>2, <2>3, QuietStep
<1> QED
    BY <1>2, <1>3, <1>4, <1>5

LEMMA KeptStep == IInv /\ Kept /\ [Next]_vars => Kept'
<1> SUFFICES ASSUME IInv, Kept, [Next]_vars PROVE Kept'
    OBVIOUS
<1>1. BalancesTyped /\ faults \in Nat
    BY DEF IInv, Mig!TypeOK
<1>2. ASSUME NEW p \in Process, Handle(p) PROVE Kept'
    BY <1>1, <1>2, ReportsAreKept DEF Handle
<1>3. ASSUME NEW p \in Process, CheckBalances(p) PROVE Kept'
    BY <1>1, <1>3, ChecksAreKept DEF CheckBalances
<1>4. CASE Provider
    BY <1>1, <1>4, ProvidersAreKept DEF Provider
<1>5. CASE UNCHANGED vars
    BY <1>5, QuietStep DEF vars, balances
<1> QED
    BY <1>2, <1>3, <1>4, <1>5, MainKeeps DEF Next

(* A process that stops has had its balance checks write every bench that  *)
(* only they made: none is under way when it exits (what startBalances     *)
(* returns, and serveUntilSignalled calls).                                *)
THEOREM StopsKeepBenches == Spec => StopKeepsBenches
<1> DEFINE StopKeeps ==
        \A p \in Process, k \in Key :
            (/\ Stop(p) /\ faults = 0
             /\ bench[p][k] = "cycle" /\ marked[k] \subseteq {<<p, "syncer">>}) =>
                column[k] = "cycle"
<1>1. Kept => StopKeeps
  <2> SUFFICES ASSUME Kept, NEW p \in Process, NEW k \in Key, Stop(p), faults = 0,
                      bench[p][k] = "cycle", marked[k] \subseteq {<<p, "syncer">>}
               PROVE  column[k] = "cycle"
    OBVIOUS
  <2>1. ReachesRow(p, k)
    BY DEF Kept, BenchesReachTheRow, OnlyMarkedBy
  <2> QED
    BY <2>1 DEF ReachesRow, WriteUnderWay, Stop, SyncerIsDone
<1>2. StopKeepsBenches <=> [][StopKeeps]_vars
    BY DEF StopKeepsBenches
<1> HIDE DEF StopKeeps
<1>3. Kept /\ [Next]_vars => [StopKeeps]_vars
    BY <1>1
<1> QED
    BY <1>2, <1>3, KeptInit, KeptStep, IInvHolds, PTL DEF Spec
=============================================================================
