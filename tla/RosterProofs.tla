---------------------------- MODULE RosterProofs ----------------------------
(***************************************************************************)
(* Theorems about Roster, for any admins, reporters, keys, tiers and       *)
(* secrets, and any number of writes, reports, serves and faults.          *)
(***************************************************************************)
EXTENDS Roster, TLAPS

(* What a reload has read: keys that were created, and, when it began      *)
(* after the last write, each table as it is.  Nothing but a write changes *)
(* which keys there are, and a write makes every reload under way an older *)
(* one.                                                                    *)
OnlyMinted(a) == \A k \in Key : admin[a].rows[k] # None => k \in minted

ReadIsCurrent(a) ==
    admin[a].since = writes =>
        /\ admin[a].reads >= 1 => \A k \in Key : admin[a].rows[k] # None <=> Stored(k)
        /\ admin[a].reads >= 2 => \A t \in Tier : admin[a].features[t] = features[t]
        /\ admin[a].reads >= 3 =>
              \A k \in Key : Stored(k) => admin[a].secrets[k] = SecretsOf[k]

ReadsAreSound ==
    \A a \in Admin : admin[a].since <= writes /\ OnlyMinted(a) /\ ReadIsCurrent(a)

ReportsHaveKeys == \A r \in Reporter : report[r].pc = "held" => report[r].key \in Key

IInv == TypeOK /\ ReadsAreSound /\ ReportsHaveKeys /\ FreshReloadIsTheTables

-----------------------------------------------------------------------------
LEMMA NewValues ==
    /\ NewRow \in Row /\ NoWrite \in Writes /\ Reload \in Writes /\ NoReport \in Reports
    /\ NoWrite.since = 0 /\ Reload.since = 0 /\ NoWrite.reads = 0 /\ Reload.reads = 0
    /\ NoWrite.rows = NoRows /\ Reload.rows = NoRows
    /\ NoReport.pc = "idle"
BY DEF NewRow, Row, Bench, NoWrite, Reload, Writes, NoRows, NoFeatures, NoSecrets,
       NoReport, Reports

LEMMA NoneIsNeither == None \notin Row /\ None \notin Entry /\ None \notin Nat /\ None \notin Key
BY NoneAssumption

(* What a reload makes of a key is an entry of the pool or nothing.        *)
LEMMA LoadedEntry ==
    ASSUME TypeOK, NEW a \in Admin, NEW k \in Key, admin[a].rows[k] # None,
           admin[a].features[TierOf[k]] # {}
    PROVE  Loaded(a, k) \in Entry
<1>1. admin[a] \in Writes /\ TierOf[k] \in Tier
    BY KeyAssumption DEF TypeOK
<1>2. admin[a].rows[k] \in Row
    BY <1>1 DEF Writes
<1>3. admin[a].rows[k].until \in Bench /\ admin[a].rows[k].count \in Nat
    BY <1>2 DEF Row
<1>4. admin[a].features[TierOf[k]] \in SUBSET Feature
    BY <1>1 DEF Writes
<1>5. admin[a].secrets[k] \cap Opens \in SUBSET Secret
    BY <1>1 DEF Writes
<1>6. KeptCount(a, k) \in Nat
    BY <1>3 DEF KeptCount, TypeOK, Entry, Pooled
<1> QED
    BY <1>3, <1>4, <1>5, <1>6 DEF Loaded, Entry

LEMMA LoadedType ==
    ASSUME TypeOK, NEW a \in Admin, NEW k \in Key
    PROVE  Loaded(a, k) \in Entry \cup {None}
BY LoadedEntry DEF Loaded

LEMMA InitSound == Init => IInv
<1> SUFFICES ASSUME Init PROVE IInv
    OBVIOUS
<1>1. TypeOK
  <2>1. /\ rows \in [Key -> Row \cup {None}] /\ pool \in [Key -> Entry \cup {None}]
        /\ features \in [Tier -> SUBSET Feature] /\ queued \in [Key -> Nat]
        /\ minted \subseteq Key \cup Tier
        /\ \A k \in Key : ~Stored(k) /\ ~Pooled(k)
    BY DEF Init, NoRows, NoFeatures, Stored, Pooled
  <2>2. admin \in [Admin -> Writes] /\ report \in [Reporter -> Reports]
    BY NewValues DEF Init
  <2>3. /\ writes \in 0..MaxWrites /\ reports \in 0..MaxReports /\ serves \in 0..MaxServes
        /\ faults \in 0..MaxFaults /\ installed \in 0..writes
    BY BoundsAssumption DEF Init
  <2>4. dropped \subseteq Key /\ crossed \subseteq Key
    BY DEF Init
  <2> QED
    BY <2>1, <2>2, <2>3, <2>4 DEF TypeOK
<1>2. ReadsAreSound /\ ReportsHaveKeys
    BY NewValues DEF Init, ReadsAreSound, OnlyMinted, ReadIsCurrent, ReportsHaveKeys, NoRows
<1>3. FreshReloadIsTheTables
    BY DEF Init, FreshReloadIsTheTables, SameAsTables, InTables, Stored, Pooled, NoRows
<1> QED
    BY <1>1, <1>2, <1>3 DEF IInv

-----------------------------------------------------------------------------
(* A write leaves every reload under way, and the pool, an older version.  *)
LEMMA CommitStep ==
    ASSUME IInv, NEW a \in Admin, NEW becomes \in {NoWrite, Reload}, Commit(a, becomes),
           rows' \in [Key -> Row \cup {None}], features' \in [Tier -> SUBSET Feature],
           minted' \subseteq Key \cup Tier, minted \subseteq minted',
           \A k \in Key : rows'[k] # None => k \in minted'
    PROVE  IInv'
<1>1. writes \in Nat /\ writes' = writes + 1 /\ writes' \in 0..MaxWrites
    BY BoundsAssumption DEF Commit, IInv, TypeOK
<1>2. /\ pool' = pool /\ queued' = queued /\ report' = report /\ reports' = reports
      /\ serves' = serves /\ faults' = faults
      /\ installed' = installed /\ dropped' = dropped /\ crossed' = crossed
    BY DEF Commit, history
<1>3. /\ admin' \in [Admin -> Writes]
      /\ \A b \in Admin : admin'[b] = admin[b] \/ (admin'[b].since = 0
            /\ admin'[b].reads = 0 /\ admin'[b].rows = NoRows)
    BY NewValues DEF Commit, IInv, TypeOK
<1>4. TypeOK'
    BY <1>1, <1>2, <1>3 DEF IInv, TypeOK, Stored, Pooled
<1>5. ReadsAreSound'
  <2> SUFFICES ASSUME NEW b \in Admin
               PROVE  admin'[b].since <= writes' /\ OnlyMinted(b)' /\ ReadIsCurrent(b)'
    BY DEF ReadsAreSound
  <2>1. admin[b].since \in Nat /\ admin[b].since <= writes /\ OnlyMinted(b)
    BY DEF IInv, ReadsAreSound, TypeOK, Writes
  <2>2. CASE admin'[b] = admin[b]
    BY <1>1, <2>1, <2>2 DEF OnlyMinted, ReadIsCurrent
  <2>3. CASE admin'[b].since = 0 /\ admin'[b].reads = 0 /\ admin'[b].rows = NoRows
    BY <1>1, <2>3 DEF OnlyMinted, ReadIsCurrent, NoRows
  <2> QED
    BY <1>3, <2>2, <2>3
<1>6. ReportsHaveKeys'
    BY <1>2 DEF IInv, ReportsHaveKeys
<1>7. FreshReloadIsTheTables'
  <2>1. installed' \in 0..writes
    BY <1>2 DEF IInv, TypeOK
  <2> QED
    BY <1>1, <2>1 DEF FreshReloadIsTheTables
<1> QED
    BY <1>4, <1>5, <1>6, <1>7 DEF IInv

LEMMA WriteStep ==
    ASSUME IInv, NEW a \in Admin,
           \/ \E t \in Tier, fs \in SUBSET Feature :
                  CreateTier(a, t, fs) \/ UpdateTierFeatures(a, t, fs)
           \/ \E t \in Tier : DeleteTier(a, t)
           \/ \E k \in Key : AddKey(a, k) \/ DeleteKey(a, k)
    PROVE  IInv'
<1> USE DEF IInv, TypeOK, Stored
<1>1. ASSUME NEW t \in Tier, NEW fs \in SUBSET Feature, CreateTier(a, t, fs) PROVE IInv'
  <2>1. /\ Commit(a, NoWrite) /\ rows' = rows /\ minted' = minted \cup {t}
        /\ features' = [features EXCEPT ![t] = fs]
    BY <1>1 DEF CreateTier
  <2> QED
    BY <2>1, CommitStep
<1>2. ASSUME NEW t \in Tier, NEW fs \in SUBSET Feature, UpdateTierFeatures(a, t, fs)
      PROVE IInv'
  <2>1. /\ Commit(a, Reload) /\ rows' = rows /\ minted' = minted
        /\ features' = [features EXCEPT ![t] = fs]
    BY <1>2 DEF UpdateTierFeatures
  <2> QED
    BY <2>1, CommitStep
<1>3. ASSUME NEW t \in Tier, DeleteTier(a, t) PROVE IInv'
  <2>1. /\ Commit(a, Reload) /\ rows' = rows /\ minted' = minted
        /\ features' = [features EXCEPT ![t] = {}]
    BY <1>3 DEF DeleteTier
  <2> QED
    BY <2>1, CommitStep
<1>4. ASSUME NEW k \in Key, AddKey(a, k) PROVE IInv'
  <2>1. /\ Commit(a, Reload) /\ features' = features /\ minted' = minted \cup {k}
        /\ rows' = [rows EXCEPT ![k] = NewRow]
    BY <1>4 DEF AddKey
  <2>2. /\ rows' \in [Key -> Row \cup {None}]
        /\ \A j \in Key : rows'[j] # None => j \in minted'
    BY <2>1, NewValues
  <2> QED
    BY <2>1, <2>2, CommitStep
<1>5. ASSUME NEW k \in Key, DeleteKey(a, k) PROVE IInv'
  <2>1. /\ Commit(a, Reload) /\ features' = features /\ minted' = minted
        /\ rows' = [rows EXCEPT ![k] = None]
    BY <1>5 DEF DeleteKey
  <2>2. /\ rows' \in [Key -> Row \cup {None}]
        /\ \A j \in Key : rows'[j] # None => j \in minted'
    BY <2>1
  <2> QED
    BY <2>1, <2>2, CommitStep
<1> QED
    BY <1>1, <1>2, <1>3, <1>4, <1>5

-----------------------------------------------------------------------------
(* A read that leaves the others, the tables and the pool as they are.     *)
LEMMA ReadStep ==
    ASSUME IInv, NEW a \in Admin, NEW w \in Writes, admin' = [admin EXCEPT ![a] = w],
           UNCHANGED <<tables, pool, queued, report, bounds, history>>,
           w.since <= writes, \A k \in Key : w.rows[k] # None => k \in minted,
           w.since = writes =>
               /\ w.reads >= 1 => \A k \in Key : w.rows[k] # None <=> Stored(k)
               /\ w.reads >= 2 => \A t \in Tier : w.features[t] = features[t]
               /\ w.reads >= 3 => \A k \in Key : Stored(k) => w.secrets[k] = SecretsOf[k]
    PROVE  IInv'
<1>1. /\ rows' = rows /\ features' = features /\ minted' = minted /\ pool' = pool
      /\ queued' = queued /\ report' = report /\ writes' = writes /\ reports' = reports
      /\ serves' = serves /\ faults' = faults
      /\ installed' = installed /\ dropped' = dropped /\ crossed' = crossed
    BY DEF tables, bounds, history
<1>2. admin' \in [Admin -> Writes] /\ admin'[a] = w /\ \A b \in Admin \ {a} : admin'[b] = admin[b]
    BY DEF IInv, TypeOK
<1>3. TypeOK'
    BY <1>1, <1>2 DEF IInv, TypeOK, Stored, Pooled
<1>4. ReadsAreSound'
  <2> SUFFICES ASSUME NEW b \in Admin
               PROVE  admin'[b].since <= writes' /\ OnlyMinted(b)' /\ ReadIsCurrent(b)'
    BY DEF ReadsAreSound
  <2>1. CASE b = a
    BY <1>1, <1>2, <2>1 DEF OnlyMinted, ReadIsCurrent, Stored
  <2>2. CASE b # a
    BY <1>1, <1>2, <2>2 DEF IInv, ReadsAreSound, OnlyMinted, ReadIsCurrent, Stored
  <2> QED
    BY <2>1, <2>2
<1>5. ReportsHaveKeys' /\ FreshReloadIsTheTables'
    BY <1>1 DEF IInv, ReportsHaveKeys, FreshReloadIsTheTables, SameAsTables, InTables,
                Stored, Pooled
<1> QED
    BY <1>3, <1>4, <1>5 DEF IInv

LEMMA ReadsStep ==
    ASSUME IInv, NEW a \in Admin,
           GetAllKeys(a) \/ TierFeaturesByTier(a) \/ KeySecretsByKey(a)
    PROVE  IInv'
<1>1. /\ admin[a] \in Writes /\ admin[a].reads \in 0..3 /\ admin[a].since \in Nat
      /\ admin[a].since <= writes /\ writes \in Nat
      /\ OnlyMinted(a) /\ ReadIsCurrent(a)
    BY BoundsAssumption DEF IInv, TypeOK, ReadsAreSound, Writes
<1>2. CASE GetAllKeys(a)
  <2> DEFINE w == [pc |-> "reload", reads |-> 1, since |-> writes,
                   rows |-> rows, features |-> admin[a].features, secrets |-> admin[a].secrets]
  <2>1. admin[a].reads = 0 /\ UNCHANGED <<tables, pool, queued, report, bounds, history>>
    BY <1>1, <1>2 DEF GetAllKeys, Reads, ReadOrder
  <2>2. admin' = [admin EXCEPT ![a] = w]
    BY <1>1, <1>2, <2>1 DEF GetAllKeys, HasRead
  <2>3. \A k \in Key : rows[k] # None => k \in minted
    BY DEF IInv, TypeOK, Stored
  <2>4. w \in Writes
    BY <1>1 DEF Writes, IInv, TypeOK
  <2>5. /\ w.since = writes /\ w.reads = 1 /\ w.rows = rows
        /\ w.features = admin[a].features /\ w.secrets = admin[a].secrets
    OBVIOUS
  <2> HIDE DEF w
  <2>6. w.since <= writes /\ \A k \in Key : w.rows[k] # None => k \in minted
    BY <1>1, <2>5, <2>3 DEF OnlyMinted
  <2>7. w.since = writes =>
            /\ w.reads >= 1 => \A k \in Key : w.rows[k] # None <=> Stored(k)
            /\ w.reads >= 2 => \A t \in Tier : w.features[t] = features[t]
            /\ w.reads >= 3 => \A k \in Key : Stored(k) => w.secrets[k] = SecretsOf[k]
    BY <1>1, <2>1, <2>5, <2>3 DEF Stored
  <2> QED
    BY <2>1, <2>2, <2>4, <2>6, <2>7, ReadStep
<1>3. CASE TierFeaturesByTier(a)
  <2> DEFINE w == [pc |-> "reload", reads |-> 2, since |-> admin[a].since,
                   rows |-> admin[a].rows, features |-> features, secrets |-> admin[a].secrets]
  <2>1. admin[a].reads = 1 /\ UNCHANGED <<tables, pool, queued, report, bounds, history>>
    BY <1>1, <1>3 DEF TierFeaturesByTier, Reads, ReadOrder
  <2>2. admin' = [admin EXCEPT ![a] = w]
    BY <1>1, <1>3, <2>1 DEF TierFeaturesByTier, HasRead
  <2>4. w \in Writes
    BY <1>1 DEF Writes, IInv, TypeOK
  <2>5. /\ w.since = admin[a].since /\ w.reads = 2 /\ w.rows = admin[a].rows
        /\ w.features = features /\ w.secrets = admin[a].secrets
    OBVIOUS
  <2> HIDE DEF w
  <2>6. w.since <= writes /\ \A k \in Key : w.rows[k] # None => k \in minted
    BY <1>1, <2>5 DEF OnlyMinted
  <2>7. w.since = writes =>
            /\ w.reads >= 1 => \A k \in Key : w.rows[k] # None <=> Stored(k)
            /\ w.reads >= 2 => \A t \in Tier : w.features[t] = features[t]
            /\ w.reads >= 3 => \A k \in Key : Stored(k) => w.secrets[k] = SecretsOf[k]
    BY <1>1, <2>1, <2>5 DEF ReadIsCurrent
  <2> QED
    BY <2>1, <2>2, <2>4, <2>6, <2>7, ReadStep
<1>4. CASE KeySecretsByKey(a)
  <2> DEFINE w == [pc |-> "reload", reads |-> 3, since |-> admin[a].since,
                   rows |-> admin[a].rows, features |-> admin[a].features, secrets |-> StoredSecrets]
  <2>1. admin[a].reads = 2 /\ UNCHANGED <<tables, pool, queued, report, bounds, history>>
    BY <1>1, <1>4 DEF KeySecretsByKey, Reads, ReadOrder
  <2>2. admin' = [admin EXCEPT ![a] = w]
    BY <1>1, <1>4, <2>1 DEF KeySecretsByKey, HasRead
  <2>3. /\ StoredSecrets \in [Key -> SUBSET Secret]
        /\ \A k \in Key : Stored(k) => StoredSecrets[k] = SecretsOf[k]
    BY KeyAssumption DEF StoredSecrets
  <2>4. w \in Writes
    BY <1>1, <2>3 DEF Writes, IInv, TypeOK
  <2>5. /\ w.since = admin[a].since /\ w.reads = 3 /\ w.rows = admin[a].rows
        /\ w.features = admin[a].features /\ w.secrets = StoredSecrets
    OBVIOUS
  <2> HIDE DEF w
  <2>6. w.since <= writes /\ \A k \in Key : w.rows[k] # None => k \in minted
    BY <1>1, <2>5, <2>3 DEF OnlyMinted
  <2>7. w.since = writes =>
            /\ w.reads >= 1 => \A k \in Key : w.rows[k] # None <=> Stored(k)
            /\ w.reads >= 2 => \A t \in Tier : w.features[t] = features[t]
            /\ w.reads >= 3 => \A k \in Key : Stored(k) => w.secrets[k] = SecretsOf[k]
    BY <1>1, <2>1, <2>5, <2>3 DEF ReadIsCurrent
  <2> QED
    BY <2>1, <2>2, <2>4, <2>6, <2>7, ReadStep
<1> QED
    BY <1>2, <1>3, <1>4

(* The one step that gives the pool a version.                             *)
LEMMA InstallStep ==
    ASSUME IInv, NEW a \in Admin, Install(a)
    PROVE  IInv'
<1>1. /\ admin[a] \in Writes /\ admin[a].reads = 3 /\ admin[a].since \in Nat
      /\ admin[a].since <= writes /\ writes \in Nat
      /\ OnlyMinted(a) /\ ReadIsCurrent(a)
    BY BoundsAssumption DEF IInv, TypeOK, ReadsAreSound, Writes, Install
<1>2. /\ rows' = rows /\ features' = features /\ minted' = minted /\ queued' = queued
      /\ report' = report /\ writes' = writes /\ reports' = reports
      /\ serves' = serves /\ faults' = faults
    BY DEF Install, tables, bounds
<1>3. pool' = [k \in Key |-> Loaded(a, k)] /\ installed' = admin[a].since
    BY DEF Install
<1>4. admin' \in [Admin -> Writes] /\ \A b \in Admin : admin'[b] = admin[b] \/ admin'[b] = NoWrite
    BY NewValues DEF Install, IInv, TypeOK
<1>5. TypeOK'
  <2>1. pool' \in [Key -> Entry \cup {None}]
    BY <1>3, LoadedType DEF IInv
  <2>2. \A k \in Key : k \notin minted => ~Pooled(k)'
    BY <1>1, <1>3 DEF Pooled, Loaded, OnlyMinted
  <2>3. installed' \in 0..writes'
    BY <1>1, <1>2, <1>3
  <2>4. dropped' \subseteq Key /\ crossed' \subseteq Key
    BY DEF Install, IInv, TypeOK
  <2> QED
    BY <1>2, <1>4, <2>1, <2>2, <2>3, <2>4 DEF IInv, TypeOK, Stored
<1>6. ReadsAreSound'
  <2> SUFFICES ASSUME NEW b \in Admin
               PROVE  admin'[b].since <= writes' /\ OnlyMinted(b)' /\ ReadIsCurrent(b)'
    BY DEF ReadsAreSound
  <2>1. CASE admin'[b] = admin[b]
    BY <1>2, <2>1 DEF IInv, ReadsAreSound, OnlyMinted, ReadIsCurrent, Stored
  <2>2. CASE admin'[b] = NoWrite
    BY <1>1, <1>2, <2>2, NewValues DEF OnlyMinted, ReadIsCurrent, NoRows
  <2> QED
    BY <1>4, <2>1, <2>2
<1>7. ReportsHaveKeys'
    BY <1>2 DEF IInv, ReportsHaveKeys
<1>8. FreshReloadIsTheTables'
  <2> SUFFICES ASSUME installed' = writes', NEW k \in Key PROVE SameAsTables(k)'
    BY DEF FreshReloadIsTheTables
  <2>1. /\ admin[a].rows[k] # None <=> Stored(k)
        /\ admin[a].features[TierOf[k]] = features[TierOf[k]]
        /\ Stored(k) => admin[a].secrets[k] = SecretsOf[k]
    BY <1>1, <1>2, <1>3, KeyAssumption DEF ReadIsCurrent
  <2>2. pool'[k] = Loaded(a, k)
    BY <1>3
  <2>3. CASE InTables(k)
    <3>1. /\ Loaded(a, k).features = features[TierOf[k]]
          /\ Loaded(a, k).secrets = SecretsOf[k] \cap Opens
          /\ Loaded(a, k) # None
      <4>1. Loaded(a, k) = [features |-> admin[a].features[TierOf[k]],
                            secrets |-> admin[a].secrets[k] \cap Opens,
                            until |-> admin[a].rows[k].until, count |-> KeptCount(a, k)]
        BY <2>1, <2>3 DEF InTables, Loaded
      <4>2. Loaded(a, k) \in Entry
        BY <2>1, <2>3, LoadedEntry DEF InTables, IInv
      <4>3. admin[a].features[TierOf[k]] = features[TierOf[k]] /\ admin[a].secrets[k] = SecretsOf[k]
        BY <2>1, <2>3 DEF InTables
      <4>4. Loaded(a, k) # None
        BY <4>2, NoneIsNeither
      <4> QED
        BY <4>1, <4>3, <4>4
    <3> QED
      BY <1>2, <2>2, <2>3, <3>1 DEF SameAsTables, InTables, Stored, Pooled
  <2>4. CASE ~InTables(k)
    BY <1>2, <2>1, <2>2, <2>4 DEF SameAsTables, InTables, Stored, Pooled, Loaded
  <2> QED
    BY <2>3, <2>4
<1> QED
    BY <1>5, <1>6, <1>7, <1>8 DEF IInv

-----------------------------------------------------------------------------
(* Every other step leaves which keys there are, in the tables and in the  *)
(* pool, and what each serves with: it moves counts and benches only.      *)
SameRoster ==
    /\ features' = features /\ minted' = minted /\ writes' = writes /\ installed' = installed
    /\ \A k \in Key : rows'[k] # None <=> rows[k] # None
    /\ \A k \in Key : pool'[k] # None <=> pool[k] # None
    /\ \A k \in Key : pool[k] # None =>
            pool'[k].features = pool[k].features /\ pool'[k].secrets = pool[k].secrets
    /\ \A a \in Admin : admin'[a] = admin[a] \/ admin'[a] = NoWrite

LEMMA SameRosterStep ==
    ASSUME IInv, SameRoster, TypeOK', ReportsHaveKeys'
    PROVE  IInv'
<1>1. ReadsAreSound'
  <2> SUFFICES ASSUME NEW a \in Admin
               PROVE  admin'[a].since <= writes' /\ OnlyMinted(a)' /\ ReadIsCurrent(a)'
    BY DEF ReadsAreSound
  <2>1. CASE admin'[a] = admin[a]
    BY <2>1 DEF SameRoster, IInv, ReadsAreSound, OnlyMinted, ReadIsCurrent, Stored
  <2>2. CASE admin'[a] = NoWrite
    <3>1. writes' \in Nat
      BY BoundsAssumption DEF TypeOK
    <3> QED
      BY <2>2, <3>1, NewValues DEF OnlyMinted, ReadIsCurrent, NoRows
  <2> QED
    BY <2>1, <2>2 DEF SameRoster
<1>2. FreshReloadIsTheTables'
  <2> SUFFICES ASSUME installed = writes, NEW k \in Key PROVE SameAsTables(k)'
    BY DEF FreshReloadIsTheTables, SameRoster
  <2>1. SameAsTables(k)
    BY DEF IInv, FreshReloadIsTheTables
  <2>2. InTables(k)' <=> InTables(k)
    BY DEF SameRoster, InTables, Stored
  <2>3. CASE InTables(k)
    BY <2>1, <2>2, <2>3 DEF SameRoster, SameAsTables, Pooled
  <2>4. CASE ~InTables(k)
    BY <2>1, <2>2, <2>4 DEF SameRoster, SameAsTables, Pooled
  <2> QED
    BY <2>3, <2>4
<1> QED
    BY <1>1, <1>2 DEF IInv

LEMMA ReloadFailsStep ==
    ASSUME IInv, NEW a \in Admin, ReloadFails(a)
    PROVE  IInv'
<1>1. /\ rows' = rows /\ features' = features /\ minted' = minted /\ pool' = pool
      /\ queued' = queued /\ report' = report /\ writes' = writes /\ reports' = reports
      /\ serves' = serves /\ faults' \in 0..MaxFaults
      /\ installed' = installed /\ dropped' = dropped /\ crossed' = crossed
    BY BoundsAssumption DEF ReloadFails, Fault, tables, history, IInv, TypeOK
<1>2. admin' \in [Admin -> Writes] /\ \A b \in Admin : admin'[b] = admin[b] \/ admin'[b] = NoWrite
    BY NewValues DEF ReloadFails, IInv, TypeOK
<1>3. TypeOK'
    BY <1>1, <1>2 DEF IInv, TypeOK, Stored, Pooled
<1>4. SameRoster /\ ReportsHaveKeys'
    BY <1>1, <1>2 DEF IInv, SameRoster, ReportsHaveKeys
<1> QED
    BY <1>3, <1>4, SameRosterStep

(* An entry of the pool with another bench or count is one, and serves     *)
(* with the same.                                                          *)
LEMMA EntryChanges ==
    ASSUME NEW e \in Entry, NEW until \in Bench, NEW count \in Nat
    PROVE  /\ [e EXCEPT !.until = until] \in Entry /\ [e EXCEPT !.count = count] \in Entry
           /\ [e EXCEPT !.until = until].features = e.features
           /\ [e EXCEPT !.until = until].secrets = e.secrets
           /\ [e EXCEPT !.count = count].features = e.features
           /\ [e EXCEPT !.count = count].secrets = e.secrets
BY DEF Entry

LEMMA RowChanges ==
    ASSUME NEW w \in Row, NEW until \in Bench, NEW count \in Nat
    PROVE  [w EXCEPT !.until = until] \in Row /\ [w EXCEPT !.count = count] \in Row
BY DEF Row

(* The pool with one entry changed in its bench or count.                  *)
LEMMA PoolStep ==
    ASSUME IInv, NEW k \in Key, Pooled(k), NEW e \in Entry,
           e.features = pool[k].features, e.secrets = pool[k].secrets,
           pool' = [pool EXCEPT ![k] = e], rows' = rows, features' = features,
           minted' = minted, admin' = admin, writes' = writes, installed' = installed
    PROVE  /\ SameRoster /\ pool' \in [Key -> Entry \cup {None}]
           /\ \A j \in Key : Pooled(j)' <=> Pooled(j)
BY NoneIsNeither DEF SameRoster, IInv, TypeOK, Pooled

LEMMA MarkExhaustedStep ==
    ASSUME IInv, NEW r \in Reporter, NEW k \in Key, NEW until \in Untils,
           MarkExhausted(r, k, until)
    PROVE  IInv'
<1>1. /\ rows' = rows /\ features' = features /\ minted' = minted /\ admin' = admin
      /\ queued' = queued /\ writes' = writes /\ reports' \in 0..MaxReports
      /\ serves' = serves /\ faults' = faults
      /\ installed' = installed /\ dropped' = dropped /\ crossed' \subseteq Key
    BY BoundsAssumption DEF MarkExhausted, tables, IInv, TypeOK
<1>2. Pooled(k) /\ pool[k] \in Entry /\ until \in Bench
    BY InputAssumption DEF MarkExhausted, Pooled, IInv, TypeOK, Bench
<1> DEFINE e == [pool[k] EXCEPT !.until = until]
<1>3. pool' = [pool EXCEPT ![k] = e]
    BY DEF MarkExhausted
<1>4. e \in Entry /\ e.features = pool[k].features /\ e.secrets = pool[k].secrets
    BY <1>2, EntryChanges, 0 \in Nat
<1> HIDE DEF e
<1>5. /\ SameRoster /\ pool' \in [Key -> Entry \cup {None}]
      /\ \A j \in Key : Pooled(j)' <=> Pooled(j)
    BY <1>1, <1>2, <1>3, <1>4, PoolStep
<1>6. report' \in [Reporter -> Reports] /\ ReportsHaveKeys'
    BY <1>2 DEF MarkExhausted, IInv, TypeOK, Reports, ReportsHaveKeys
<1>7. TypeOK'
    BY <1>1, <1>5, <1>6 DEF IInv, TypeOK, Stored
<1> QED
    BY <1>5, <1>6, <1>7, SameRosterStep

LEMMA ServeStep ==
    ASSUME IInv, NEW k \in Key, Serve(k)
    PROVE  IInv'
<1>1. /\ rows' = rows /\ features' = features /\ minted' = minted /\ admin' = admin
      /\ report' = report /\ writes' = writes /\ reports' = reports
      /\ serves' \in 0..MaxServes /\ faults' = faults
      /\ installed' = installed /\ dropped' = dropped /\ crossed' = crossed
      /\ queued' \in [Key -> Nat]
    BY BoundsAssumption DEF Serve, tables, history, IInv, TypeOK
<1>2. Pooled(k) /\ pool[k] \in Entry /\ pool[k].count + 1 \in Nat
    BY DEF Serve, Pooled, IInv, TypeOK, Entry
<1> DEFINE e == [pool[k] EXCEPT !.count = pool[k].count + 1]
<1>3. pool' = [pool EXCEPT ![k] = e]
    BY DEF Serve
<1>4. e \in Entry /\ e.features = pool[k].features /\ e.secrets = pool[k].secrets
    BY <1>2, EntryChanges DEF Bench
<1> HIDE DEF e
<1>5. /\ SameRoster /\ pool' \in [Key -> Entry \cup {None}]
      /\ \A j \in Key : Pooled(j)' <=> Pooled(j)
    BY <1>1, <1>2, <1>3, <1>4, PoolStep
<1>6. ReportsHaveKeys'
    BY <1>1 DEF IInv, ReportsHaveKeys
<1>7. TypeOK'
    BY <1>1, <1>5 DEF IInv, TypeOK, Stored
<1> QED
    BY <1>5, <1>6, <1>7, SameRosterStep

(* The tables with one row changed in its bench or count.                  *)
LEMMA RowStep ==
    ASSUME IInv, NEW k \in Key, Stored(k), NEW w \in Row, rows' = [rows EXCEPT ![k] = w],
           pool' = pool, features' = features, minted' = minted, admin' = admin,
           writes' = writes, installed' = installed
    PROVE  /\ SameRoster /\ rows' \in [Key -> Row \cup {None}]
           /\ \A j \in Key : Stored(j)' <=> Stored(j)
BY NoneIsNeither DEF SameRoster, IInv, TypeOK, Stored

LEMMA SetKeyExhaustedStep ==
    ASSUME IInv, NEW r \in Reporter, SetKeyExhausted(r)
    PROVE  IInv'
<1>1. /\ pool' = pool /\ features' = features /\ minted' = minted /\ admin' = admin
      /\ queued' = queued /\ writes' = writes /\ reports' = reports
      /\ serves' = serves /\ faults' = faults
      /\ installed' = installed /\ dropped' = dropped /\ crossed' = crossed
    BY DEF SetKeyExhausted, bounds, history
<1>2. report' \in [Reporter -> Reports] /\ ReportsHaveKeys'
    BY NewValues DEF SetKeyExhausted, IInv, TypeOK, ReportsHaveKeys
<1>3. report[r].key \in Key /\ report[r].until \in Bench
    BY DEF SetKeyExhausted, IInv, TypeOK, ReportsHaveKeys, Reports
<1>4. PICK k \in Key : k = report[r].key
    BY <1>3
<1>5. /\ SameRoster /\ rows' \in [Key -> Row \cup {None}]
      /\ \A j \in Key : Stored(j)' <=> Stored(j)
  <2>1. CASE Stored(k)
    <3> DEFINE w == [rows[k] EXCEPT !.until = report[r].until]
    <3>1. rows' = [rows EXCEPT ![k] = w]
      BY <1>4, <2>1 DEF SetKeyExhausted, Benched
    <3>2. w \in Row
      BY <1>3, <1>4, <2>1, RowChanges, 0 \in Nat DEF IInv, TypeOK, Stored
    <3> HIDE DEF w
    <3> QED
      BY <1>1, <1>4, <2>1, <3>1, <3>2, RowStep
  <2>2. CASE ~Stored(k)
    BY <1>1, <1>4, <2>2 DEF SetKeyExhausted, Benched, SameRoster, IInv, TypeOK, Stored
  <2> QED
    BY <2>1, <2>2
<1>6. TypeOK'
    BY <1>1, <1>2, <1>5 DEF IInv, TypeOK, Pooled
<1> QED
    BY <1>2, <1>5, <1>6, SameRosterStep

LEMMA SetKeyExhaustedFailsStep ==
    ASSUME IInv, NEW r \in Reporter, SetKeyExhaustedFails(r)
    PROVE  IInv'
<1>1. /\ rows' = rows /\ features' = features /\ minted' = minted /\ pool' = pool
      /\ admin' = admin /\ queued' = queued /\ writes' = writes /\ reports' = reports
      /\ serves' = serves /\ faults' \in 0..MaxFaults
      /\ installed' = installed /\ dropped' = dropped
    BY BoundsAssumption DEF SetKeyExhaustedFails, Fault, tables, IInv, TypeOK
<1>2. report' \in [Reporter -> Reports] /\ ReportsHaveKeys'
    BY NewValues DEF SetKeyExhaustedFails, IInv, TypeOK, ReportsHaveKeys
<1>3. crossed' \subseteq Key
    BY DEF SetKeyExhaustedFails, IInv, TypeOK, ReportsHaveKeys
<1>4. TypeOK'
    BY <1>1, <1>2, <1>3 DEF IInv, TypeOK, Stored, Pooled
<1>5. SameRoster
    BY <1>1 DEF SameRoster
<1> QED
    BY <1>2, <1>4, <1>5, SameRosterStep

LEMMA FlushKeyStep ==
    ASSUME IInv, NEW k \in Key, FlushKey(k)
    PROVE  IInv'
<1>1. /\ pool' = pool /\ features' = features /\ minted' = minted /\ admin' = admin
      /\ report' = report /\ writes' = writes /\ reports' = reports
      /\ serves' = serves /\ faults' = faults
      /\ installed' = installed /\ dropped' = dropped /\ crossed' = crossed
    BY DEF FlushKey, bounds, history
<1>2. queued' \in [Key -> Nat] /\ queued[k] \in Nat
    BY DEF FlushKey, IInv, TypeOK
<1>3. /\ SameRoster /\ rows' \in [Key -> Row \cup {None}]
      /\ \A j \in Key : Stored(j)' <=> Stored(j)
  <2>1. CASE Stored(k)
    <3> DEFINE w == [rows[k] EXCEPT !.count = rows[k].count + queued[k]]
    <3>1. rows' = [rows EXCEPT ![k] = w]
      BY <2>1 DEF FlushKey
    <3>2. rows[k] \in Row /\ rows[k].count + queued[k] \in Nat
      BY <1>2, <2>1 DEF IInv, TypeOK, Stored, Row
    <3>3. w \in Row
      BY <3>2, RowChanges DEF Bench
    <3> HIDE DEF w
    <3> QED
      BY <1>1, <2>1, <3>1, <3>3, RowStep
  <2>2. CASE ~Stored(k)
    BY <1>1, <2>2 DEF FlushKey, SameRoster, IInv, TypeOK, Stored
  <2> QED
    BY <2>1, <2>2
<1>4. TypeOK' /\ ReportsHaveKeys'
    BY <1>1, <1>2, <1>3 DEF IInv, TypeOK, Pooled, ReportsHaveKeys
<1> QED
    BY <1>3, <1>4, SameRosterStep

-----------------------------------------------------------------------------
LEMMA StepSound == IInv /\ [Next]_vars => IInv'
<1> SUFFICES ASSUME IInv, [Next]_vars PROVE IInv'
    OBVIOUS
<1>1. CASE Next
    BY <1>1, WriteStep, ReadsStep, ReloadFailsStep, InstallStep, MarkExhaustedStep,
       SetKeyExhaustedStep, SetKeyExhaustedFailsStep, ServeStep, FlushKeyStep DEF Next
<1>2. CASE UNCHANGED vars
  <2>1. /\ rows' = rows /\ features' = features /\ minted' = minted /\ pool' = pool
        /\ queued' = queued /\ admin' = admin /\ report' = report /\ writes' = writes
        /\ reports' = reports /\ serves' = serves /\ faults' = faults
        /\ installed' = installed /\ dropped' = dropped /\ crossed' = crossed
    BY <1>2 DEF vars, tables, bounds, history
  <2>2. TypeOK'
    BY <2>1 DEF IInv, TypeOK, Stored, Pooled
  <2>3. SameRoster /\ ReportsHaveKeys'
    BY <2>1 DEF IInv, SameRoster, ReportsHaveKeys
  <2> QED
    BY <2>2, <2>3, SameRosterStep
<1> QED
    BY <1>1, <1>2

LEMMA AlwaysSound == Spec => []IInv
BY InitSound, StepSound, PTL DEF Spec

(* The tables, the pool, and every write, report and reload under way keep *)
(* their types, and no key is in the pool that was never created.          *)
THEOREM TypeCorrect == Spec => []TypeOK
<1>1. IInv => TypeOK
    BY DEF IInv
<1> QED
    BY <1>1, AlwaysSound, PTL

(* When the reads of the reload that is installed began after the last     *)
(* write, the pool is the tables, whatever reloads, reports and serves ran *)
(* between its steps (Manager.ReloadKeys).                                 *)
THEOREM ReloadIsTheTables == Spec => []FreshReloadIsTheTables
<1>1. IInv => FreshReloadIsTheTables
    BY DEF IInv
<1> QED
    BY <1>1, AlwaysSound, PTL

-----------------------------------------------------------------------------
(* A key in the tables has its tier there; and of a key that a reload has  *)
(* read, and that still has a row, the reads that followed found what      *)
(* belongs to it.  A key that was deleted never comes back to be mistaken. *)
KeysHaveTiers == \A k \in Key : Stored(k) => features[TierOf[k]] # {}

ReadIsWhole(a) ==
    \A k \in Key : admin[a].rows[k] # None /\ Stored(k) =>
        /\ admin[a].reads >= 2 => admin[a].features[TierOf[k]] # {}
        /\ admin[a].reads >= 3 => admin[a].secrets[k] = SecretsOf[k]

Whole == KeysHaveTiers /\ \A a \in Admin : ReadIsWhole(a)

LEMMA WholeInit == Init => Whole
BY NewValues DEF Init, Whole, KeysHaveTiers, ReadIsWhole, NoRows, Stored

(* A step that adds no key but one never seen before, and reads nothing.   *)
LEMMA WholeAfterNoRead ==
    ASSUME IInv, Whole, KeysHaveTiers',
           \A k \in Key : Stored(k)' => Stored(k) \/ k \notin minted,
           \A a \in Admin : admin'[a] = admin[a] \/ admin'[a].reads = 0
    PROVE  Whole'
<1> SUFFICES ASSUME NEW a \in Admin PROVE ReadIsWhole(a)'
    BY DEF Whole
<1>1. ReadIsWhole(a) /\ OnlyMinted(a)
    BY DEF Whole, IInv, ReadsAreSound
<1>2. CASE admin'[a] = admin[a]
    BY <1>1, <1>2 DEF ReadIsWhole, OnlyMinted, Stored
<1>3. CASE admin'[a].reads = 0
    BY <1>3 DEF ReadIsWhole
<1> QED
    BY <1>2, <1>3

LEMMA CommitAdmins ==
    ASSUME IInv, NEW a \in Admin, NEW becomes \in {NoWrite, Reload}, Commit(a, becomes)
    PROVE  \A b \in Admin : admin'[b] = admin[b] \/ admin'[b].reads = 0
BY NewValues DEF Commit, IInv, TypeOK

LEMMA WholeAfterWrite ==
    ASSUME IInv, Whole, NEW a \in Admin,
           \/ \E t \in Tier, fs \in SUBSET Feature :
                  CreateTier(a, t, fs) \/ UpdateTierFeatures(a, t, fs)
           \/ \E t \in Tier : DeleteTier(a, t)
           \/ \E k \in Key : AddKey(a, k) \/ DeleteKey(a, k)
    PROVE  Whole'
<1> USE KeyAssumption DEF IInv, TypeOK, Whole, KeysHaveTiers, Stored
<1>1. ASSUME NEW t \in Tier, NEW fs \in SUBSET Feature, CreateTier(a, t, fs) PROVE Whole'
    BY <1>1, CommitAdmins, WholeAfterNoRead DEF CreateTier
<1>2. ASSUME NEW t \in Tier, NEW fs \in SUBSET Feature, UpdateTierFeatures(a, t, fs)
      PROVE  Whole'
    BY <1>2, CommitAdmins, WholeAfterNoRead DEF UpdateTierFeatures
<1>3. ASSUME NEW t \in Tier, DeleteTier(a, t) PROVE Whole'
    BY <1>3, CommitAdmins, WholeAfterNoRead DEF DeleteTier
<1>4. ASSUME NEW k \in Key, AddKey(a, k) PROVE Whole'
    BY <1>4, CommitAdmins, WholeAfterNoRead DEF AddKey
<1>5. ASSUME NEW k \in Key, DeleteKey(a, k) PROVE Whole'
    BY <1>5, CommitAdmins, WholeAfterNoRead DEF DeleteKey
<1> QED
    BY <1>1, <1>2, <1>3, <1>4, <1>5

LEMMA WholeAfterRead ==
    ASSUME IInv, Whole, NEW a \in Admin,
           GetAllKeys(a) \/ TierFeaturesByTier(a) \/ KeySecretsByKey(a)
    PROVE  Whole'
<1>1. rows' = rows /\ features' = features /\ admin[a] \in Writes
    BY DEF GetAllKeys, TierFeaturesByTier, KeySecretsByKey, Reads, tables, IInv, TypeOK
<1>2. \A b \in Admin \ {a} : admin'[b] = admin[b]
    BY DEF GetAllKeys, TierFeaturesByTier, KeySecretsByKey, HasRead, IInv, TypeOK
<1>3. KeysHaveTiers' /\ \A b \in Admin \ {a} : ReadIsWhole(b)'
    BY <1>1, <1>2 DEF Whole, KeysHaveTiers, ReadIsWhole, Stored
<1>4. KeysHaveTiers /\ ReadIsWhole(a)
    BY DEF Whole
<1>5. ReadIsWhole(a)'
  <2>1. CASE GetAllKeys(a)
    <3>1. admin[a].reads = 0
      BY <1>1, <2>1 DEF GetAllKeys, Reads, ReadOrder, Writes
    <3>2. admin'[a].reads = 1
      BY <2>1, <3>1 DEF GetAllKeys, HasRead, IInv, TypeOK
    <3> QED
      BY <3>2 DEF ReadIsWhole
  <2>2. CASE TierFeaturesByTier(a)
    <3>1. admin[a].reads = 1
      BY <1>1, <2>2 DEF TierFeaturesByTier, Reads, ReadOrder, Writes
    <3>2. /\ admin'[a].reads = 2 /\ admin'[a].rows = admin[a].rows
          /\ admin'[a].features = features
      BY <2>2, <3>1 DEF TierFeaturesByTier, HasRead, IInv, TypeOK
    <3> QED
      BY <1>1, <1>4, <3>2 DEF ReadIsWhole, KeysHaveTiers, Stored
  <2>3. CASE KeySecretsByKey(a)
    <3>1. /\ admin[a].reads = 2 /\ admin'[a].reads = 3
          /\ admin'[a].rows = admin[a].rows /\ admin'[a].features = admin[a].features
          /\ admin'[a].secrets = StoredSecrets
      BY <2>3 DEF KeySecretsByKey, Reads, ReadOrder, HasRead, IInv, TypeOK, Writes
    <3>2. \A k \in Key : Stored(k) => StoredSecrets[k] = SecretsOf[k]
      BY DEF StoredSecrets
    <3> QED
      BY <1>1, <1>4, <3>1, <3>2 DEF ReadIsWhole, Stored
  <2> QED
    BY <2>1, <2>2, <2>3
<1> QED
    BY <1>3, <1>5 DEF Whole

(* The steps that change neither who is in the tables nor what is read.    *)
LEMMA WholeAfterOther ==
    ASSUME IInv, Whole, features' = features,
           \A k \in Key : Stored(k)' <=> Stored(k),
           \A a \in Admin : admin'[a] = admin[a] \/ admin'[a] = NoWrite
    PROVE  Whole'
<1>1. KeysHaveTiers'
    BY DEF Whole, KeysHaveTiers
<1> QED
    BY <1>1, NewValues, WholeAfterNoRead

LEMMA RowsStay ==
    ASSUME IInv,
           \/ \E a \in Admin : ReloadFails(a) \/ Install(a)
           \/ \E r \in Reporter, k \in Key, until \in Untils : MarkExhausted(r, k, until)
           \/ \E r \in Reporter : SetKeyExhausted(r) \/ SetKeyExhaustedFails(r)
           \/ \E k \in Key : Serve(k) \/ FlushKey(k)
           \/ UNCHANGED vars
    PROVE  /\ features' = features
           /\ \A k \in Key : Stored(k)' <=> Stored(k)
           /\ \A a \in Admin : admin'[a] = admin[a] \/ admin'[a] = NoWrite
<1> USE DEF Stored, tables
<1>1. ASSUME NEW a \in Admin, ReloadFails(a) \/ Install(a)
      PROVE  /\ features' = features /\ rows' = rows
             /\ \A b \in Admin : admin'[b] = admin[b] \/ admin'[b] = NoWrite
    BY <1>1 DEF ReloadFails, Install, IInv, TypeOK
<1>2. ASSUME NEW r \in Reporter, NEW k \in Key, NEW until \in Untils, MarkExhausted(r, k, until)
      PROVE  features' = features /\ rows' = rows /\ admin' = admin
    BY <1>2 DEF MarkExhausted
<1>3. ASSUME NEW r \in Reporter, SetKeyExhaustedFails(r)
      PROVE  features' = features /\ rows' = rows /\ admin' = admin
    BY <1>3 DEF SetKeyExhaustedFails
<1>4. ASSUME NEW k \in Key, Serve(k)
      PROVE  features' = features /\ rows' = rows /\ admin' = admin
    BY <1>4 DEF Serve
<1>5. CASE UNCHANGED vars
    BY <1>5 DEF vars
<1>6. ASSUME NEW r \in Reporter, SetKeyExhausted(r)
      PROVE  /\ features' = features /\ admin' = admin
             /\ \A k \in Key : rows'[k] # None <=> rows[k] # None
  <2>1. features' = features /\ admin' = admin /\ rows' = Benched(r) /\ report[r].key \in Key
    BY <1>6 DEF SetKeyExhausted, IInv, ReportsHaveKeys
  <2>2. CASE Stored(report[r].key)
    <3> DEFINE w == [rows[report[r].key] EXCEPT !.until = report[r].until]
    <3>1. rows' = [rows EXCEPT ![report[r].key] = w]
      BY <2>1, <2>2 DEF Benched
    <3>2. w \in Row
      BY <2>1, <2>2, RowChanges, 0 \in Nat DEF IInv, TypeOK, Reports
    <3> HIDE DEF w
    <3> QED
      BY <2>1, <2>2, <3>1, <3>2, NoneIsNeither DEF IInv, TypeOK
  <2>3. CASE ~Stored(report[r].key)
    BY <2>1, <2>3 DEF Benched
  <2> QED
    BY <2>1, <2>2, <2>3
<1>7. ASSUME NEW k \in Key, FlushKey(k)
      PROVE  /\ features' = features /\ admin' = admin
             /\ \A j \in Key : rows'[j] # None <=> rows[j] # None
  <2>1. CASE Stored(k)
    <3> DEFINE w == [rows[k] EXCEPT !.count = rows[k].count + queued[k]]
    <3>1. rows' = [rows EXCEPT ![k] = w]
      BY <1>7, <2>1 DEF FlushKey
    <3>2. rows[k] \in Row /\ rows[k].count + queued[k] \in Nat
      BY <2>1 DEF IInv, TypeOK, Row
    <3>3. w \in Row
      BY <3>2, RowChanges DEF Bench
    <3> HIDE DEF w
    <3> QED
      BY <1>7, <2>1, <3>1, <3>3, NoneIsNeither DEF FlushKey, IInv, TypeOK
  <2>2. CASE ~Stored(k)
    BY <1>7, <2>2 DEF FlushKey
  <2> QED
    BY <2>1, <2>2
<1> QED
    BY <1>1, <1>2, <1>3, <1>4, <1>5, <1>6, <1>7

LEMMA WholeStep == IInv /\ Whole /\ [Next]_vars => Whole'
BY WholeAfterWrite, WholeAfterRead, RowsStay, WholeAfterOther DEF Next

(* Whatever is written between a reload's reads, a key it read and that    *)
(* still has a row is neither left out of the pool nor served without its  *)
(* secrets (the order of the reads in Manager.ReloadKeys).                 *)
THEOREM NoKeyTorn == Spec => []NoKeyIsTorn
<1>1. IInv /\ Whole => NoKeyIsTorn
  <2> SUFFICES ASSUME IInv, Whole, NEW a \in Admin, admin[a].reads = 3,
                      NEW k \in Key, admin[a].rows[k] # None, Stored(k)
               PROVE  /\ Loaded(a, k) # None
                      /\ Loaded(a, k).secrets = SecretsOf[k] \cap Opens
    BY DEF NoKeyIsTorn
  <2>1. admin[a].features[TierOf[k]] # {} /\ admin[a].secrets[k] = SecretsOf[k]
    BY DEF Whole, ReadIsWhole
  <2>2. Loaded(a, k) = [features |-> admin[a].features[TierOf[k]],
                        secrets |-> admin[a].secrets[k] \cap Opens,
                        until |-> admin[a].rows[k].until, count |-> KeptCount(a, k)]
    BY <2>1 DEF Loaded
  <2>3. Loaded(a, k).secrets = SecretsOf[k] \cap Opens
    BY <2>1, <2>2
  <2>4. Loaded(a, k) \in Entry
    BY LoadedEntry, <2>1 DEF IInv
  <2> QED
    BY <2>3, <2>4, NoneIsNeither
<1> QED
    BY <1>1, AlwaysSound, InitSound, StepSound, WholeInit, WholeStep, PTL DEF Spec

-----------------------------------------------------------------------------
(* A key that has never been in the pool has never been served: nothing of *)
(* it is queued, and its row and whatever a reload read of it count zero.  *)
NeverServed(k) ==
    /\ queued[k] = 0
    /\ Stored(k) => rows[k].count = 0
    /\ \A a \in Admin : admin[a].rows[k] # None => admin[a].rows[k].count = 0

Counts ==
    /\ ReloadsKeepCounts
    /\ \A k \in Key \ dropped : ~Pooled(k) => NeverServed(k)

LEMMA CountsInit == Init => Counts
BY NewValues DEF Init, Counts, ReloadsKeepCounts, NeverServed, NoRows, Stored, Pooled

(* A write makes a row of a key that was never in the pool, or takes one.  *)
LEMMA CountsAfterCommit ==
    ASSUME IInv, Counts, NEW a \in Admin, NEW becomes \in {NoWrite, Reload}, Commit(a, becomes),
           \A k \in Key : \/ rows'[k] = rows[k] \/ rows'[k] = None
                          \/ rows'[k] = NewRow /\ k \notin minted
    PROVE  Counts'
<1>1. pool' = pool /\ queued' = queued /\ dropped' = dropped
    BY DEF Commit, history
<1>2. \A b \in Admin : admin'[b].rows = admin[b].rows \/ admin'[b].rows = NoRows
    BY NewValues DEF Commit, IInv, TypeOK
<1>3. \A k \in Key : k \notin minted => ~Pooled(k)
    BY DEF IInv, TypeOK
<1>4. NewRow.count = 0
    BY DEF NewRow
<1>5. ReloadsKeepCounts'
    BY <1>1, <1>3 DEF Counts, ReloadsKeepCounts, Stored, Pooled
<1>6. ASSUME NEW k \in Key \ dropped, ~Pooled(k) PROVE NeverServed(k)'
    BY <1>1, <1>2, <1>4, <1>6 DEF Counts, NeverServed, Stored, NoRows
<1> QED
    BY <1>1, <1>5, <1>6 DEF Counts, Pooled

LEMMA CountsAfterWrite ==
    ASSUME IInv, Counts, NEW a \in Admin,
           \/ \E t \in Tier, fs \in SUBSET Feature :
                  CreateTier(a, t, fs) \/ UpdateTierFeatures(a, t, fs)
           \/ \E t \in Tier : DeleteTier(a, t)
           \/ \E k \in Key : AddKey(a, k) \/ DeleteKey(a, k)
    PROVE  Counts'
<1> USE DEF IInv, TypeOK
<1>1. ASSUME NEW t \in Tier, NEW fs \in SUBSET Feature,
             CreateTier(a, t, fs) \/ UpdateTierFeatures(a, t, fs)
      PROVE  Counts'
    BY <1>1, CountsAfterCommit DEF CreateTier, UpdateTierFeatures
<1>2. ASSUME NEW t \in Tier, DeleteTier(a, t) PROVE Counts'
    BY <1>2, CountsAfterCommit DEF DeleteTier
<1>3. ASSUME NEW k \in Key, AddKey(a, k) PROVE Counts'
    BY <1>3, CountsAfterCommit DEF AddKey
<1>4. ASSUME NEW k \in Key, DeleteKey(a, k) PROVE Counts'
    BY <1>4, CountsAfterCommit DEF DeleteKey
<1> QED
    BY <1>1, <1>2, <1>3, <1>4

(* What a reload holds of the keys changes by a read of the rows only.     *)
LEMMA CountsAfterRead ==
    ASSUME IInv, Counts, NEW a \in Admin,
           GetAllKeys(a) \/ TierFeaturesByTier(a) \/ KeySecretsByKey(a) \/ ReloadFails(a)
    PROVE  Counts'
<1>1. rows' = rows /\ pool' = pool /\ queued' = queued /\ dropped' = dropped
    BY DEF GetAllKeys, TierFeaturesByTier, KeySecretsByKey, Reads, ReloadFails, tables, history
<1>2. \A b \in Admin : \/ admin'[b].rows = admin[b].rows
                       \/ admin'[b].rows = rows \/ admin'[b].rows = NoRows
  <2>1. CASE GetAllKeys(a)
    BY <2>1 DEF GetAllKeys, HasRead, IInv, TypeOK
  <2>2. CASE TierFeaturesByTier(a)
    BY <2>2 DEF TierFeaturesByTier, HasRead, IInv, TypeOK
  <2>3. CASE KeySecretsByKey(a)
    BY <2>3 DEF KeySecretsByKey, HasRead, IInv, TypeOK
  <2>4. CASE ReloadFails(a)
    BY <2>4, NewValues DEF ReloadFails, IInv, TypeOK
  <2> QED
    BY <2>1, <2>2, <2>3, <2>4
<1>3. ASSUME NEW k \in Key \ dropped, ~Pooled(k) PROVE NeverServed(k)'
    BY <1>1, <1>2, <1>3 DEF Counts, NeverServed, Stored, NoRows
<1> QED
    BY <1>1, <1>3 DEF Counts, ReloadsKeepCounts, Stored, Pooled

LEMMA CountsAfterInstall ==
    ASSUME IInv, Counts, NEW a \in Admin, Install(a)
    PROVE  Counts'
<1>1. /\ rows' = rows /\ queued' = queued /\ pool' = [k \in Key |-> Loaded(a, k)]
      /\ dropped' = dropped \cup {k \in Key : Pooled(k) /\ Loaded(a, k) = None}
    BY DEF Install, tables
<1>2. \A b \in Admin : admin'[b].rows = admin[b].rows \/ admin'[b].rows = NoRows
    BY NewValues DEF Install, IInv, TypeOK
<1>3. ASSUME NEW k \in Key, Loaded(a, k) # None
      PROVE  Loaded(a, k).count = KeptCount(a, k) /\ admin[a].rows[k] # None
    BY <1>3 DEF Loaded
<1>4. ASSUME NEW k \in Key \ dropped', Pooled(k)', Stored(k)'
      PROVE  pool'[k].count = rows'[k].count + queued'[k]
  <2>1. /\ pool'[k].count = KeptCount(a, k) /\ admin[a].rows[k] # None
        /\ k \notin dropped /\ Stored(k)
    BY <1>1, <1>3, <1>4 DEF Pooled, Stored
  <2>2. CASE Pooled(k)
    BY <1>1, <2>1, <2>2 DEF KeptCount, Counts, ReloadsKeepCounts
  <2>3. CASE ~Pooled(k)
    BY <1>1, <2>1, <2>3 DEF KeptCount, Counts, NeverServed
  <2> QED
    BY <2>2, <2>3
<1>5. ASSUME NEW k \in Key \ dropped', ~Pooled(k)'
      PROVE  NeverServed(k)'
  <2>1. k \in Key \ dropped /\ ~Pooled(k)
    BY <1>1, <1>5 DEF Pooled
  <2> QED
    BY <1>1, <1>2, <2>1 DEF Counts, NeverServed, Stored, NoRows
<1> QED
    BY <1>4, <1>5 DEF Counts, ReloadsKeepCounts

(* Benches move without counts, and serves and flushes move the two counts *)
(* of a key together.                                                      *)
LEMMA CountsAfterOther ==
    ASSUME IInv, Counts,
           \/ \E r \in Reporter, k \in Key, until \in Untils : MarkExhausted(r, k, until)
           \/ \E r \in Reporter : SetKeyExhausted(r) \/ SetKeyExhaustedFails(r)
           \/ \E k \in Key : Serve(k) \/ FlushKey(k)
           \/ UNCHANGED vars
    PROVE  Counts'
<1>1. ASSUME NEW r \in Reporter, NEW k \in Key, NEW until \in Untils, MarkExhausted(r, k, until)
      PROVE  Counts'
  <2> DEFINE e == [pool[k] EXCEPT !.until = until]
  <2>1. /\ rows' = rows /\ queued' = queued /\ dropped' = dropped /\ admin' = admin
        /\ pool' = [pool EXCEPT ![k] = e] /\ Pooled(k)
    BY <1>1 DEF MarkExhausted, tables
  <2>2. pool[k] \in Entry
    BY <2>1 DEF IInv, TypeOK, Pooled
  <2>3. e \in Entry /\ e.count = pool[k].count
    <3>1. until \in Bench
      BY InputAssumption DEF Bench
    <3>2. e \in Entry
      BY <2>2, <3>1, EntryChanges, 0 \in Nat
    <3> QED
      BY <2>2, <3>2 DEF Entry
  <2> HIDE DEF e
  <2>4. \A j \in Key : Pooled(j)' <=> Pooled(j)
    BY <2>1, <2>3, NoneIsNeither DEF IInv, TypeOK, Pooled
  <2>5. \A j \in Key : Pooled(j) => pool'[j].count = pool[j].count
    BY <2>1, <2>3 DEF IInv, TypeOK
  <2>6. ReloadsKeepCounts'
    <3> SUFFICES ASSUME NEW j \in Key, Pooled(j), Stored(j), j \notin dropped
                 PROVE  pool'[j].count = rows[j].count + queued[j]
      BY <2>1, <2>4 DEF ReloadsKeepCounts, Stored
    <3> QED
      BY <2>5 DEF Counts, ReloadsKeepCounts
  <2>7. ASSUME NEW j \in Key \ dropped, ~Pooled(j) PROVE NeverServed(j)'
    BY <2>1, <2>7 DEF Counts, NeverServed, Stored
  <2> QED
    BY <2>1, <2>4, <2>6, <2>7 DEF Counts
<1>2. ASSUME NEW r \in Reporter, SetKeyExhausted(r) PROVE Counts'
  <2>1. /\ pool' = pool /\ queued' = queued /\ dropped' = dropped /\ admin' = admin
        /\ rows' = Benched(r)
    BY <1>2 DEF SetKeyExhausted, history
  <2>2. \A j \in Key : Stored(j)' <=> Stored(j)
    BY <1>2, RowsStay
  <2>3. \A j \in Key : Stored(j) => rows'[j].count = rows[j].count
    <3> SUFFICES ASSUME NEW j \in Key, Stored(j) PROVE rows'[j].count = rows[j].count
      OBVIOUS
    <3>1. rows[j] \in Row
      BY DEF IInv, TypeOK, Stored
    <3>2. [rows[j] EXCEPT !.until = report[r].until].count = rows[j].count
      BY <3>1 DEF Row
    <3>3. rows'[j] = rows[j] \/ rows'[j] = [rows[j] EXCEPT !.until = report[r].until]
      BY <2>1 DEF Benched, IInv, TypeOK
    <3> QED
      BY <3>2, <3>3
  <2> QED
    BY <2>1, <2>2, <2>3 DEF Counts, ReloadsKeepCounts, NeverServed, Pooled
<1>3. ASSUME NEW r \in Reporter, SetKeyExhaustedFails(r) PROVE Counts'
    BY <1>3 DEF SetKeyExhaustedFails, tables, Counts, ReloadsKeepCounts, NeverServed,
                Stored, Pooled
<1>4. ASSUME NEW k \in Key, Serve(k) PROVE Counts'
  <2> DEFINE e == [pool[k] EXCEPT !.count = pool[k].count + 1]
  <2>1. /\ rows' = rows /\ dropped' = dropped /\ admin' = admin /\ Pooled(k)
        /\ pool' = [pool EXCEPT ![k] = e] /\ queued' = [queued EXCEPT ![k] = @ + 1]
    BY <1>4 DEF Serve, tables, history
  <2>2. pool[k] \in Entry /\ e \in Entry /\ e.count = pool[k].count + 1
    <3>1. pool[k] \in Entry
      BY <2>1 DEF IInv, TypeOK, Pooled
    <3> QED
      BY <3>1 DEF Entry
  <2> HIDE DEF e
  <2>3. \A j \in Key : Pooled(j)' <=> Pooled(j)
    BY <2>1, <2>2, NoneIsNeither DEF Pooled, IInv, TypeOK
  <2>4. pool'[k].count = pool[k].count + 1 /\ queued'[k] = queued[k] + 1
    BY <2>1, <2>2 DEF IInv, TypeOK
  <2>5. \A j \in Key \ {k} : pool'[j] = pool[j] /\ queued'[j] = queued[j]
    BY <2>1 DEF IInv, TypeOK
  <2>6. ReloadsKeepCounts'
    <3> SUFFICES ASSUME NEW j \in Key, Pooled(j), Stored(j), j \notin dropped
                 PROVE  pool'[j].count = rows[j].count + queued'[j]
      BY <2>1, <2>3 DEF ReloadsKeepCounts, Stored
    <3>1. pool[j].count = rows[j].count + queued[j]
      BY DEF Counts, ReloadsKeepCounts
    <3>2. rows[j] \in Row /\ rows[j].count \in Nat /\ queued[j] \in Nat
      BY DEF IInv, TypeOK, Stored, Row
    <3> QED
      BY <2>4, <2>5, <3>1, <3>2
  <2> QED
    BY <2>1, <2>3, <2>5, <2>6 DEF Counts, NeverServed, Stored
<1>5. ASSUME NEW k \in Key, FlushKey(k) PROVE Counts'
  <2>1. /\ pool' = pool /\ dropped' = dropped /\ admin' = admin /\ queued[k] > 0
        /\ queued' = [queued EXCEPT ![k] = 0]
        /\ rows' = IF Stored(k) THEN [rows EXCEPT ![k].count = @ + queued[k]] ELSE rows
    BY <1>5 DEF FlushKey, history
  <2>2. \A j \in Key : Stored(j)' <=> Stored(j)
    BY <1>5, RowsStay
  <2>3. queued'[k] = 0 /\ \A j \in Key \ {k} : rows'[j] = rows[j] /\ queued'[j] = queued[j]
    BY <2>1 DEF IInv, TypeOK
  <2>4. Stored(k) => rows[k].count \in Nat /\ rows'[k].count = rows[k].count + queued[k]
    <3> SUFFICES ASSUME Stored(k)
                 PROVE  rows[k].count \in Nat /\ rows'[k].count = rows[k].count + queued[k]
      OBVIOUS
    <3>1. rows[k] \in Row
      BY DEF IInv, TypeOK, Stored
    <3>2. [rows[k] EXCEPT !.count = @ + queued[k]].count = rows[k].count + queued[k]
      BY <3>1 DEF Row
    <3>3. rows'[k] = [rows[k] EXCEPT !.count = @ + queued[k]]
      BY <2>1 DEF IInv, TypeOK
    <3> QED
      BY <3>1, <3>2, <3>3 DEF Row
  <2>5. k \in dropped \/ Pooled(k)
    BY <2>1 DEF Counts, NeverServed
  <2>6. ReloadsKeepCounts'
    <3> SUFFICES ASSUME NEW j \in Key, Pooled(j), Stored(j), j \notin dropped
                 PROVE  pool[j].count = rows'[j].count + queued'[j]
      BY <2>1, <2>2 DEF ReloadsKeepCounts, Pooled
    <3>1. pool[j].count = rows[j].count + queued[j] /\ queued[j] \in Nat
      BY DEF Counts, ReloadsKeepCounts, IInv, TypeOK
    <3> QED
      BY <2>3, <2>4, <3>1
  <2> QED
    BY <2>1, <2>2, <2>3, <2>5, <2>6 DEF Counts, NeverServed, Pooled
<1>6. CASE UNCHANGED vars
    BY <1>6 DEF vars, tables, history, Counts, ReloadsKeepCounts, NeverServed, Stored, Pooled
<1> QED
    BY <1>1, <1>2, <1>3, <1>4, <1>5, <1>6

LEMMA CountsStep == IInv /\ Counts /\ [Next]_vars => Counts'
BY CountsAfterWrite, CountsAfterRead, CountsAfterInstall, CountsAfterOther DEF Next

(* A key that no reload took out of the pool has in memory the serves of   *)
(* its row and of the queue together, however late a reload installs what  *)
(* it read (the counts that Manager.ReloadKeys carries over).              *)
THEOREM CountsAreKept == Spec => []ReloadsKeepCounts
<1>1. IInv /\ Counts => ReloadsKeepCounts
    BY DEF Counts
<1> QED
    BY <1>1, AlwaysSound, InitSound, StepSound, CountsInit, CountsStep, PTL DEF Spec

-----------------------------------------------------------------------------
(* A bench on its way from the pool to its row is the only one of its key, *)
(* and the pool has it already; with none on its way the row has it too.   *)
HeldBy(r, k) == report[r].pc = "held" /\ report[r].key = k

BenchSettled(k) ==
    /\ ~MidReport(k) => pool[k].until = rows[k].until
    /\ \A r \in Reporter : HeldBy(r, k) =>
            /\ pool[k].until = report[r].until
            /\ \A s \in Reporter \ {r} : ~HeldBy(s, k)

Benches == \A k \in Key : Pooled(k) /\ Stored(k) /\ k \notin crossed => BenchSettled(k)

LEMMA BenchesInit == Init => Benches
BY DEF Init, Benches, NoRows, Pooled

(* A step that moves neither the benches of a key nor its reports.         *)
LEMMA BenchStays ==
    ASSUME Benches, NEW k \in Key, Pooled(k)', Stored(k)', k \notin crossed',
           Pooled(k), Stored(k), k \notin crossed,
           pool'[k].until = pool[k].until, rows'[k].until = rows[k].until,
           \A r \in Reporter :
               \/ report'[r] = report[r]
               \/ ~HeldBy(r, k) /\ (report'[r].pc # "held" \/ report'[r].key # k)
    PROVE  BenchSettled(k)'
<1>1. BenchSettled(k)
    BY DEF Benches
<1>2. \A r \in Reporter : HeldBy(r, k)' <=> HeldBy(r, k)
    BY DEF HeldBy
<1>3. \A r \in Reporter : HeldBy(r, k) => report'[r].until = report[r].until
    OBVIOUS
<1>4. MidReport(k)' <=> MidReport(k)
    BY <1>2 DEF MidReport, HeldBy
<1> QED
    BY <1>1, <1>2, <1>3, <1>4 DEF BenchSettled

(* A write makes a row of a key that was never in the pool, or takes one.  *)
LEMMA BenchesAfterCommit ==
    ASSUME IInv, Benches, NEW a \in Admin, NEW becomes \in {NoWrite, Reload}, Commit(a, becomes),
           \A k \in Key : \/ rows'[k] = rows[k] \/ rows'[k] = None
                          \/ rows'[k] = NewRow /\ k \notin minted
    PROVE  Benches'
<1>1. pool' = pool /\ report' = report /\ crossed' = crossed
    BY DEF Commit, history
<1>2. \A k \in Key : k \notin minted => ~Pooled(k)
    BY DEF IInv, TypeOK
<1> SUFFICES ASSUME NEW k \in Key, Pooled(k)', Stored(k)', k \notin crossed'
             PROVE  BenchSettled(k)'
    BY DEF Benches
<1>3. Pooled(k) /\ rows'[k] = rows[k] /\ Stored(k)
    BY <1>1, <1>2 DEF Pooled, Stored
<1> QED
    BY <1>1, <1>3, BenchStays

LEMMA BenchesAfterWrite ==
    ASSUME IInv, Benches, NEW a \in Admin,
           \/ \E t \in Tier, fs \in SUBSET Feature :
                  CreateTier(a, t, fs) \/ UpdateTierFeatures(a, t, fs)
           \/ \E t \in Tier : DeleteTier(a, t)
           \/ \E k \in Key : AddKey(a, k) \/ DeleteKey(a, k)
    PROVE  Benches'
<1> USE DEF IInv, TypeOK
<1>1. ASSUME NEW t \in Tier, NEW fs \in SUBSET Feature,
             CreateTier(a, t, fs) \/ UpdateTierFeatures(a, t, fs)
      PROVE  Benches'
    BY <1>1, BenchesAfterCommit DEF CreateTier, UpdateTierFeatures
<1>2. ASSUME NEW t \in Tier, DeleteTier(a, t) PROVE Benches'
    BY <1>2, BenchesAfterCommit DEF DeleteTier
<1>3. ASSUME NEW k \in Key, AddKey(a, k) PROVE Benches'
    BY <1>3, BenchesAfterCommit DEF AddKey
<1>4. ASSUME NEW k \in Key, DeleteKey(a, k) PROVE Benches'
    BY <1>4, BenchesAfterCommit DEF DeleteKey
<1> QED
    BY <1>1, <1>2, <1>3, <1>4

(* A reload that meets no report of a key and read its row as it still is  *)
(* leaves pool and row in step; any other crosses the key.                 *)
LEMMA BenchesAfterInstall ==
    ASSUME IInv, Benches, NEW a \in Admin, Install(a)
    PROVE  Benches'
<1>1. /\ rows' = rows /\ report' = report /\ pool' = [k \in Key |-> Loaded(a, k)]
      /\ crossed' = {k \in Key : \/ MidReport(k)
                                 \/ admin[a].rows[k] # None /\ Stored(k)
                                    /\ admin[a].rows[k].until # rows[k].until}
    BY DEF Install, tables
<1> SUFFICES ASSUME NEW k \in Key, Pooled(k)', Stored(k)', k \notin crossed'
             PROVE  BenchSettled(k)'
    BY DEF Benches
<1>2. Stored(k) /\ Loaded(a, k) # None /\ ~MidReport(k)
    BY <1>1 DEF Stored, Pooled
<1>3. admin[a].rows[k] # None /\ Loaded(a, k).until = admin[a].rows[k].until
    BY <1>2 DEF Loaded
<1>4. pool'[k].until = rows'[k].until
    BY <1>1, <1>2, <1>3
<1>5. \A r \in Reporter : ~HeldBy(r, k)'
    BY <1>1, <1>2 DEF HeldBy, MidReport
<1> QED
    BY <1>4, <1>5 DEF BenchSettled

LEMMA BenchesAfterMarkExhausted ==
    ASSUME IInv, Benches, NEW r \in Reporter, NEW k \in Key, NEW until \in Untils,
           MarkExhausted(r, k, until)
    PROVE  Benches'
<1> DEFINE e == [pool[k] EXCEPT !.until = until]
           held == [pc |-> "held", key |-> k, until |-> until]
<1>1. /\ rows' = rows /\ pool' = [pool EXCEPT ![k] = e] /\ Pooled(k)
      /\ report[r].pc = "idle" /\ report' = [report EXCEPT ![r] = held]
      /\ crossed' = IF MidReport(k) THEN crossed \cup {k} ELSE crossed
    BY DEF MarkExhausted, tables
<1>2. pool[k] \in Entry /\ e.until = until
    BY <1>1 DEF IInv, TypeOK, Pooled, Entry
<1>3. /\ held.pc = "held" /\ held.key = k /\ held.until = until
      /\ report'[r] = held /\ \A s \in Reporter \ {r} : report'[s] = report[s]
      /\ pool'[k] = e /\ \A j \in Key \ {k} : pool'[j] = pool[j]
    BY <1>1 DEF IInv, TypeOK
<1> HIDE DEF e, held
<1> SUFFICES ASSUME NEW j \in Key, Pooled(j)', Stored(j)', j \notin crossed'
             PROVE  BenchSettled(j)'
    BY DEF Benches
<1>4. CASE j = k
  <2>1. \A s \in Reporter : ~HeldBy(s, k)
    BY <1>1, <1>4 DEF MidReport, HeldBy
  <2>2. \A s \in Reporter \ {r} : ~HeldBy(s, k)'
    BY <1>3, <2>1 DEF HeldBy
  <2>3. pool'[k].until = report'[r].until /\ MidReport(k)'
    BY <1>2, <1>3 DEF MidReport
  <2> QED
    BY <1>4, <2>2, <2>3 DEF BenchSettled
<1>5. CASE j # k
  <2>1. Pooled(j) /\ Stored(j) /\ j \notin crossed /\ pool'[j] = pool[j] /\ rows'[j] = rows[j]
    BY <1>1, <1>3, <1>5 DEF Pooled, Stored
  <2>2. ~HeldBy(r, j) /\ report'[r].key # j
    BY <1>1, <1>3, <1>5 DEF HeldBy
  <2> QED
    BY <1>3, <2>1, <2>2, BenchStays
<1> QED
    BY <1>4, <1>5

(* The row takes the bench the pool has, and the key has no other report.  *)
LEMMA BenchesAfterSetKeyExhausted ==
    ASSUME IInv, Benches, NEW r \in Reporter, SetKeyExhausted(r)
    PROVE  Benches'
<1>1. /\ pool' = pool /\ crossed' = crossed /\ rows' = Benched(r)
      /\ report[r].pc = "held" /\ report' = [report EXCEPT ![r] = NoReport]
    BY DEF SetKeyExhausted, history
<1>2. /\ report'[r].pc = "idle" /\ \A s \in Reporter \ {r} : report'[s] = report[s]
      /\ report[r].key \in Key
    BY <1>1, NewValues DEF IInv, TypeOK, ReportsHaveKeys
<1> SUFFICES ASSUME NEW k \in Key, Pooled(k)', Stored(k)', k \notin crossed'
             PROVE  BenchSettled(k)'
    BY DEF Benches
<1>3. Pooled(k) /\ Stored(k) /\ k \notin crossed
    BY <1>1, RowsStay DEF Pooled
<1>4. CASE report[r].key = k
  <2>1. BenchSettled(k) /\ HeldBy(r, k)
    BY <1>1, <1>3, <1>4 DEF Benches, HeldBy
  <2>2. \A s \in Reporter : ~HeldBy(s, k)'
    BY <1>2, <2>1 DEF HeldBy, BenchSettled
  <2>3. rows[k] \in Row /\ rows'[k] = [rows[k] EXCEPT !.until = report[r].until]
    BY <1>1, <1>3, <1>4 DEF Benched, IInv, TypeOK, Stored
  <2>4. rows'[k].until = report[r].until
    BY <2>3 DEF Row
  <2>5. pool'[k].until = rows'[k].until
    BY <1>1, <2>1, <2>4 DEF BenchSettled
  <2> QED
    BY <2>2, <2>5 DEF BenchSettled
<1>5. CASE report[r].key # k
  <2>1. rows'[k] = rows[k] /\ pool'[k] = pool[k] /\ ~HeldBy(r, k) /\ report'[r].pc # "held"
    BY <1>1, <1>2, <1>5 DEF Benched, IInv, TypeOK, HeldBy
  <2> QED
    BY <1>2, <1>3, <2>1, BenchStays
<1> QED
    BY <1>4, <1>5

LEMMA BenchesAfterOther ==
    ASSUME IInv, Benches,
           \/ \E a \in Admin : GetAllKeys(a) \/ TierFeaturesByTier(a) \/ KeySecretsByKey(a)
                               \/ ReloadFails(a)
           \/ \E r \in Reporter : SetKeyExhaustedFails(r)
           \/ \E k \in Key : Serve(k) \/ FlushKey(k)
           \/ UNCHANGED vars
    PROVE  Benches'
<1>1. CASE \/ \E a \in Admin : GetAllKeys(a) \/ TierFeaturesByTier(a) \/ KeySecretsByKey(a)
                               \/ ReloadFails(a)
           \/ UNCHANGED vars
  <2>1. rows' = rows /\ pool' = pool /\ report' = report /\ crossed' = crossed
    BY <1>1 DEF GetAllKeys, TierFeaturesByTier, KeySecretsByKey, Reads, ReloadFails, vars,
                tables, history
  <2> QED
    BY <2>1 DEF Benches, BenchSettled, HeldBy, MidReport, Pooled, Stored
<1>2. ASSUME NEW r \in Reporter, SetKeyExhaustedFails(r) PROVE Benches'
  <2>1. /\ rows' = rows /\ pool' = pool /\ crossed' = crossed \cup {report[r].key}
        /\ report' = [report EXCEPT ![r] = NoReport]
    BY <1>2 DEF SetKeyExhaustedFails, tables
  <2>2. report'[r].pc = "idle" /\ \A s \in Reporter \ {r} : report'[s] = report[s]
    BY <2>1, NewValues DEF IInv, TypeOK
  <2> SUFFICES ASSUME NEW k \in Key, Pooled(k)', Stored(k)', k \notin crossed'
               PROVE  BenchSettled(k)'
    BY DEF Benches
  <2>3. Pooled(k) /\ Stored(k) /\ k \notin crossed /\ ~HeldBy(r, k)
    BY <2>1 DEF Pooled, Stored, HeldBy
  <2> QED
    BY <2>1, <2>2, <2>3, BenchStays
<1>3. ASSUME NEW k \in Key, Serve(k) PROVE Benches'
  <2> DEFINE e == [pool[k] EXCEPT !.count = pool[k].count + 1]
  <2>1. /\ rows' = rows /\ report' = report /\ crossed' = crossed /\ Pooled(k)
        /\ pool' = [pool EXCEPT ![k] = e]
    BY <1>3 DEF Serve, tables, history
  <2>2. pool[k] \in Entry
    BY <2>1 DEF IInv, TypeOK, Pooled
  <2>3. e.until = pool[k].until
    BY <2>2 DEF Entry
  <2> HIDE DEF e
  <2>4. \A j \in Key : Pooled(j)' => Pooled(j) /\ pool'[j].until = pool[j].until
    BY <2>1, <2>3 DEF IInv, TypeOK, Pooled
  <2> SUFFICES ASSUME NEW j \in Key, Pooled(j)', Stored(j)', j \notin crossed'
               PROVE  BenchSettled(j)'
    BY DEF Benches
  <2> QED
    BY <2>1, <2>4, BenchStays DEF Stored
<1>4. ASSUME NEW k \in Key, FlushKey(k) PROVE Benches'
  <2>1. /\ pool' = pool /\ report' = report /\ crossed' = crossed
        /\ rows' = IF Stored(k) THEN [rows EXCEPT ![k].count = @ + queued[k]] ELSE rows
    BY <1>4 DEF FlushKey, history
  <2>2. \A j \in Key : Stored(j) => rows'[j].until = rows[j].until
    <3> SUFFICES ASSUME NEW j \in Key, Stored(j) PROVE rows'[j].until = rows[j].until
      OBVIOUS
    <3>1. rows[j] \in Row
      BY DEF IInv, TypeOK, Stored
    <3>2. [rows[j] EXCEPT !.count = @ + queued[k]].until = rows[j].until
      BY <3>1 DEF Row
    <3>3. rows'[j] = rows[j] \/ rows'[j] = [rows[j] EXCEPT !.count = @ + queued[k]]
      BY <2>1 DEF IInv, TypeOK
    <3> QED
      BY <3>2, <3>3
  <2>3. \A j \in Key : Stored(j)' <=> Stored(j)
    BY <1>4, RowsStay
  <2> SUFFICES ASSUME NEW j \in Key, Pooled(j)', Stored(j)', j \notin crossed'
               PROVE  BenchSettled(j)'
    BY DEF Benches
  <2> QED
    BY <2>1, <2>2, <2>3, BenchStays DEF Pooled
<1> QED
    BY <1>1, <1>2, <1>3, <1>4

LEMMA BenchesStep == IInv /\ Benches /\ [Next]_vars => Benches'
BY BenchesAfterWrite, BenchesAfterInstall, BenchesAfterMarkExhausted,
   BenchesAfterSetKeyExhausted, BenchesAfterOther DEF Next

(* Unless a report of the key crossed another or a reload, or could not be *)
(* written, the pool and the row bench a key until the same instant: what  *)
(* Manager.MarkExhausted does under its lock and in the row after it, no   *)
(* reload and no other report draws out or cuts short.                     *)
THEOREM BenchesAreTheRows == Spec => []BenchIsTheRow
<1>1. Benches => BenchIsTheRow
    BY DEF Benches, BenchSettled, BenchIsTheRow
<1> QED
    BY <1>1, AlwaysSound, InitSound, StepSound, BenchesInit, BenchesStep, PTL DEF Spec
=============================================================================
