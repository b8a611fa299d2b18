------------------------------- MODULE Roster -------------------------------
(***************************************************************************)
(* Who is in the pool: the rows of keys, tiers and secrets, the admin      *)
(* writes that change them, and the reload each of these ends in           *)
(* (Manager.ReloadKeys, api/keys.go, api/tiers.go); with the two things of *)
(* a pooled key that reloads share with others: its bench (MarkExhausted,  *)
(* by reports and by the balance check) and its usage count.               *)
(*                                                                         *)
(* A reload reads three tables one after the other without a lock and      *)
(* installs what it read under the pool's lock.  Admin requests, reports,  *)
(* serves and flushes run between any two of these steps.                  *)
(***************************************************************************)
EXTENDS Integers, Sequences, FiniteSets

CONSTANTS
    Admin,      \* goroutines serving /admin/keys and /admin/tiers
    Reporter,   \* those in MarkExhausted: POST /key/{id}/exhausted, the Syncer
    Key, Tier,  \* ids there will ever be: each is minted once
    Feature, Secret,
    None,       \* nil
    TierOf,     \* key -> its tier_id
    SecretsOf,  \* key -> the secrets it is created with
    Opens,      \* the secrets Sealer.Open can open
    Untils,     \* the instants keys are benched until
    MaxWrites, MaxReports, MaxServes, MaxFaults  \* bounds

Bench == Nat \cup {None}
Row == [until : Bench, count : Nat]
Entry == [features : SUBSET Feature, secrets : SUBSET Secret, until : Bench, count : Nat]

ASSUME NoneAssumption == None \notin Nat \cup Key \cup Row \cup Entry
ASSUME KeyAssumption == TierOf \in [Key -> Tier] /\ SecretsOf \in [Key -> SUBSET Secret]
ASSUME InputAssumption == Opens \subseteq Secret /\ Untils \subseteq Nat
ASSUME BoundsAssumption ==
    /\ MaxWrites \in Nat /\ MaxReports \in Nat /\ MaxServes \in Nat /\ MaxFaults \in Nat

VARIABLES
    rows,      \* keys: key -> [until, count], None when it has no row
    features,  \* tier_features: tier -> its features, none when no such tier
    minted,    \* the ids of keys and tiers that have been used
    pool,      \* Manager.keys: key -> [features, secrets, until, count]
    queued,    \* Writer: key -> serves not in its row yet
    admin,     \* admin -> the write it serves and what its reload has read
    report,    \* reporter -> its MarkExhausted
    writes,    \* writes committed: the version of the tables (bounded)
    reports, serves, faults,  \* made, and met, so far (bounded)
    installed, \* history: the version the reads of the pool began at
    dropped,   \* history: keys a reload took out of the pool
    crossed    \* history: keys whose bench a report and another or a reload
               \* moved together, or whose write failed, since row and pool
               \* last agreed

tables == <<rows, features, minted>>
bounds == <<writes, reports, serves, faults>>
history == <<installed, dropped, crossed>>
vars == <<tables, pool, queued, admin, report, bounds, history>>

NewRow == [until |-> None, count |-> 0]
NoRows == [k \in Key |-> None]
NoFeatures == [t \in Tier |-> {}]
NoSecrets == [k \in Key |-> {}]

Writes == [pc : {"idle", "reload"}, reads : 0..3, since : Nat,
           rows : [Key -> Row \cup {None}],
           features : [Tier -> SUBSET Feature],
           secrets : [Key -> SUBSET Secret]]

NoWrite == [pc |-> "idle", reads |-> 0, since |-> 0,
            rows |-> NoRows, features |-> NoFeatures, secrets |-> NoSecrets]

Reports == [pc : {"idle", "held"}, key : Key \cup {None}, until : Bench]
NoReport == [pc |-> "idle", key |-> None, until |-> None]

Stored(k) == rows[k] # None
Pooled(k) == pool[k] # None

-----------------------------------------------------------------------------
Init ==
    /\ rows = NoRows /\ features = NoFeatures /\ minted = {}
    /\ pool = NoRows /\ queued = [k \in Key |-> 0]
    /\ admin = [a \in Admin |-> NoWrite] /\ report = [r \in Reporter |-> NoReport]
    /\ writes = 0 /\ reports = 0 /\ serves = 0 /\ faults = 0
    /\ installed = 0 /\ dropped = {} /\ crossed = {}

(* The admin handlers: a write in one transaction, then a reload.          *)
Commit(a, becomes) ==
    /\ admin[a].pc = "idle"
    /\ writes < MaxWrites /\ writes' = writes + 1
    /\ admin' = [admin EXCEPT ![a] = becomes]
    /\ UNCHANGED <<pool, queued, report, reports, serves, faults, history>>

Reload == [NoWrite EXCEPT !.pc = "reload"]

(* A tier nobody has a key of yet needs no reload.  Features are required. *)
CreateTier(a, t, fs) ==
    /\ Commit(a, NoWrite)
    /\ t \notin minted /\ fs # {}
    /\ features' = [features EXCEPT ![t] = fs]
    /\ minted' = minted \cup {t}
    /\ UNCHANGED rows

(* DELETE and INSERTs in one transaction.  Two calls at once may also leave*)
(* the union of their features (READ COMMITTED); here the later one wins,  *)
(* and no property rests on which features are left.                       *)
UpdateTierFeatures(a, t, fs) ==
    /\ Commit(a, Reload)
    /\ features[t] # {} /\ fs # {}
    /\ features' = [features EXCEPT ![t] = fs]
    /\ UNCHANGED <<rows, minted>>

(* The references of keys refuse to let go of a tier in use.               *)
DeleteTier(a, t) ==
    /\ Commit(a, Reload)
    /\ features[t] # {}
    /\ \A k \in Key : Stored(k) => TierOf[k] # t
    /\ features' = [features EXCEPT ![t] = {}]
    /\ UNCHANGED <<rows, minted>>

AddKey(a, k) ==
    /\ Commit(a, Reload)
    /\ k \notin minted /\ features[TierOf[k]] # {}
    /\ rows' = [rows EXCEPT ![k] = NewRow]
    /\ minted' = minted \cup {k}
    /\ UNCHANGED features

DeleteKey(a, k) ==
    /\ Commit(a, Reload)
    /\ Stored(k)
    /\ rows' = [rows EXCEPT ![k] = None]
    /\ UNCHANGED <<features, minted>>

-----------------------------------------------------------------------------
(* Mutant: what belongs to a key is read before the keys are.              *)
KeysLast == <<"secrets", "features", "keys">>

ReadOrder == <<"keys", "features", "secrets">>

Reads(a, table) ==
    /\ admin[a].pc = "reload" /\ admin[a].reads < 3
    /\ ReadOrder[admin[a].reads + 1] = table
    /\ UNCHANGED <<tables, pool, queued, report, bounds, history>>

(* The version a reload is of is the one its first read finds.             *)
HasRead(a, keys, feats, secrets) ==
    admin' = [admin EXCEPT ![a] =
        [pc |-> "reload", reads |-> @.reads + 1,
         since |-> IF @.reads = 0 THEN writes ELSE @.since,
         rows |-> keys, features |-> feats, secrets |-> secrets]]

GetAllKeys(a) ==
    /\ Reads(a, "keys")
    /\ HasRead(a, rows, admin[a].features, admin[a].secrets)

TierFeaturesByTier(a) ==
    /\ Reads(a, "features")
    /\ HasRead(a, admin[a].rows, features, admin[a].secrets)

StoredSecrets == [k \in Key |-> IF Stored(k) THEN SecretsOf[k] ELSE {}]

KeySecretsByKey(a) ==
    /\ Reads(a, "secrets")
    /\ HasRead(a, admin[a].rows, admin[a].features, StoredSecrets)

Fault == faults < MaxFaults /\ faults' = faults + 1 /\ UNCHANGED <<writes, reports, serves>>

(* A read fails, or its time is up: logged, and the write is answered.     *)
ReloadFails(a) ==
    /\ admin[a].pc = "reload" /\ admin[a].reads < 3
    /\ Fault
    /\ admin' = [admin EXCEPT ![a] = NoWrite]
    /\ UNCHANGED <<tables, pool, queued, report, history>>

(* Mutants: every key takes the count of its row, as it is or less what is *)
(* still queued.                                                           *)
RowCount(a, k) == admin[a].rows[k].count
LessQueued(a, k) == admin[a].rows[k].count - queued[k]

(* A key that is in the pool keeps its count: its row's is behind.         *)
KeptCount(a, k) == IF Pooled(k) THEN pool[k].count ELSE admin[a].rows[k].count

(* Mutant: a key that was not read stays in the pool.                      *)
Merged(a, k) == IF admin[a].rows[k] = None THEN pool[k]
                ELSE [features |-> admin[a].features[TierOf[k]],
                      secrets |-> admin[a].secrets[k] \cap Opens,
                      until |-> admin[a].rows[k].until, count |-> KeptCount(a, k)]

(* A key whose tier was read without features is left out.                 *)
Loaded(a, k) ==
    LET read == admin[a] IN
    IF read.rows[k] = None \/ read.features[TierOf[k]] = {} THEN None
    ELSE [features |-> read.features[TierOf[k]], secrets |-> read.secrets[k] \cap Opens,
          until |-> read.rows[k].until, count |-> KeptCount(a, k)]

MidReport(k) == \E r \in Reporter : report[r].pc = "held" /\ report[r].key = k

Install(a) ==
    LET read == admin[a] IN
    /\ read.pc = "reload" /\ read.reads = 3
    /\ pool' = [k \in Key |-> Loaded(a, k)]
    /\ admin' = [admin EXCEPT ![a] = NoWrite]
    /\ installed' = read.since
    /\ dropped' = dropped \cup {k \in Key : Pooled(k) /\ Loaded(a, k) = None}
    /\ crossed' = {k \in Key : \/ MidReport(k)
                               \/ read.rows[k] # None /\ Stored(k)
                                  /\ read.rows[k].until # rows[k].until}
    /\ UNCHANGED <<tables, queued, report, bounds>>

-----------------------------------------------------------------------------
(* MarkExhausted: the pool under its lock, then the row without it.        *)
MarkExhausted(r, k, until) ==
    /\ report[r].pc = "idle"
    /\ reports < MaxReports /\ reports' = reports + 1
    /\ Pooled(k)
    /\ pool' = [pool EXCEPT ![k].until = until]
    /\ report' = [report EXCEPT ![r] = [pc |-> "held", key |-> k, until |-> until]]
    /\ crossed' = IF MidReport(k) THEN crossed \cup {k} ELSE crossed
    /\ UNCHANGED <<tables, queued, admin, writes, serves, faults, installed, dropped>>

(* Mutant: the bench is held in memory only.                               *)
Unwritten(r) == rows

Benched(r) ==
    LET k == report[r].key
    IN  IF Stored(k) THEN [rows EXCEPT ![k].until = report[r].until] ELSE rows

SetKeyExhausted(r) ==
    /\ report[r].pc = "held"
    /\ rows' = Benched(r)
    /\ report' = [report EXCEPT ![r] = NoReport]
    /\ UNCHANGED <<features, minted, pool, queued, admin, bounds, history>>

SetKeyExhaustedFails(r) ==
    /\ report[r].pc = "held"
    /\ Fault
    /\ crossed' = crossed \cup {report[r].key}
    /\ report' = [report EXCEPT ![r] = NoReport]
    /\ UNCHANGED <<tables, pool, queued, admin, installed, dropped>>

(* A draw of the key, counted at its gate and queued (KeyPool, Writeback). *)
Serve(k) ==
    /\ Pooled(k)
    /\ serves < MaxServes /\ serves' = serves + 1
    /\ pool' = [pool EXCEPT ![k].count = @ + 1]
    /\ queued' = [queued EXCEPT ![k] = @ + 1]
    /\ UNCHANGED <<tables, admin, report, writes, reports, faults, history>>

(* The flush of the key's entry; a deleted row takes no update.            *)
FlushKey(k) ==
    /\ queued[k] > 0
    /\ queued' = [queued EXCEPT ![k] = 0]
    /\ rows' = IF Stored(k) THEN [rows EXCEPT ![k].count = @ + queued[k]] ELSE rows
    /\ UNCHANGED <<features, minted, pool, admin, report, bounds, history>>

Next ==
    \/ \E a \in Admin, t \in Tier, fs \in SUBSET Feature :
            CreateTier(a, t, fs) \/ UpdateTierFeatures(a, t, fs)
    \/ \E a \in Admin, t \in Tier : DeleteTier(a, t)
    \/ \E a \in Admin, k \in Key : AddKey(a, k) \/ DeleteKey(a, k)
    \/ \E a \in Admin : \/ GetAllKeys(a) \/ TierFeaturesByTier(a) \/ KeySecretsByKey(a)
                        \/ ReloadFails(a) \/ Install(a)
    \/ \E r \in Reporter, k \in Key, until \in Untils : MarkExhausted(r, k, until)
    \/ \E r \in Reporter : SetKeyExhausted(r) \/ SetKeyExhaustedFails(r)
    \/ \E k \in Key : Serve(k) \/ FlushKey(k)

Spec == Init /\ [][Next]_vars

-----------------------------------------------------------------------------
(* Every variable has its type, and nothing is in the tables or the pool   *)
(* that was never created.                                                 *)
TypeOK ==
    /\ rows \in [Key -> Row \cup {None}]
    /\ features \in [Tier -> SUBSET Feature]
    /\ minted \subseteq Key \cup Tier
    /\ pool \in [Key -> Entry \cup {None}]
    /\ \A k \in Key : k \notin minted => ~Stored(k) /\ ~Pooled(k)
    /\ queued \in [Key -> Nat]
    /\ admin \in [Admin -> Writes]
    /\ report \in [Reporter -> Reports]
    /\ writes \in 0..MaxWrites /\ reports \in 0..MaxReports /\ serves \in 0..MaxServes
    /\ faults \in 0..MaxFaults
    /\ installed \in 0..writes
    /\ dropped \subseteq Key /\ crossed \subseteq Key

(* What a reload with the tables to itself would make of a key.            *)
InTables(k) == Stored(k) /\ features[TierOf[k]] # {}

SameAsTables(k) ==
    IF InTables(k)
    THEN Pooled(k) /\ pool[k].features = features[TierOf[k]]
                   /\ pool[k].secrets = SecretsOf[k] \cap Opens
    ELSE ~Pooled(k)

(***************************************************************************)
(* When the reads of the installed reload began after the last write had   *)
(* committed, the pool is the tables: its three reads cannot be torn, and  *)
(* no older reload can undo it without being the installed one.            *)
(***************************************************************************)
FreshReloadIsTheTables ==
    installed = writes => \A k \in Key : SameAsTables(k)

(***************************************************************************)
(* The order of a reload's reads (ReloadKeys: keys, features, secrets):    *)
(* whatever is written between them, a key it read and that still has a    *)
(* row is neither left out nor served without the secrets bound to it.     *)
(* A key's tier and secrets are there before it and go after it.           *)
(***************************************************************************)
NoKeyIsTorn ==
    \A a \in Admin : admin[a].pc = "reload" /\ admin[a].reads = 3 =>
        \A k \in Key : admin[a].rows[k] # None /\ Stored(k) =>
            /\ Loaded(a, k) # None
            /\ Loaded(a, k).secrets = SecretsOf[k] \cap Opens

(***************************************************************************)
(* A key that no reload ever took out of the pool has in memory exactly    *)
(* the serves of its row and of the queue: reloads that read the row at    *)
(* any moment, however late they install, never set its gate back.         *)
(***************************************************************************)
ReloadsKeepCounts ==
    \A k \in Key : Pooled(k) /\ Stored(k) /\ k \notin dropped =>
        pool[k].count = rows[k].count + queued[k]

(***************************************************************************)
(* Unless a report crossed a reload or another report of the key, or its   *)
(* write failed, the pool skips a key for as long as its row says, so that *)
(* no reload and no restart cuts a bench short or draws it out.            *)
(***************************************************************************)
BenchIsTheRow ==
    \A k \in Key : Pooled(k) /\ Stored(k) /\ k \notin crossed /\ ~MidReport(k) =>
        pool[k].until = rows[k].until
=============================================================================
