# keypooler, in TLA+

keypooler hands out API keys from a pool: a client asks for a feature, the
service picks a key in the client's tiers whose limits allow one more use, and
counts it. Everything on that path is decided from memory; PostgreSQL learns of
it a second later. This directory models that system, checks it with TLC and
proves its central invariants with TLAPS.

Paths below are relative to `src/`; line numbers are in `PROJECT.json`, which
maps each definition to the code it stands for.

## The system

| Component | State | Operations | Talks to | What is hard | What makes it correct |
|---|---|---|---|---|---|
| **Write-back queue** `internal/writeback` | counts per key with the window they opened, a bounded buffer of audit events, both under one mutex | `Served`, `WindowReset`, `Event` by draws; `Flush` each second and once at shutdown by `Run` | called by pool and handlers; calls the database | draws queue while a flush is out; some of its calls fail, or commit with the answer lost; cancelled half way | no serve lost from the count, nor counted in another window; events bounded, in order, written once; all written at a stop |
| **Key pool** `internal/keypool` (`manager.go`, `types.go`) | keys in order, rotation counter, per key: rate counters, usage gate, bench, budget | `GetKeyForFeature`, `KeyByID`, `TryRate`, `TryConsumeUsage`, `MarkExhausted` | queue; sealer | draws share the read lock and race on gates, counter and clock | limits hold over all features and draws; nothing benched is handed out; no refusal while a key could serve; every draw answered |
| **Reload and admin writes** `api/keys.go`, `api/tiers.go`, `Manager.ReloadKeys` | rows of keys, tiers, secrets; the pool made of them | add and delete keys, create, update and delete tiers, each ending in a reload | database; pool | three reads and an install, no lock over them; several admins; reports in between | the pool is what the tables say; no torn key; counts survive |
| **Spend budgets** `keypool/budget.go`, `Manager.RecordSpend`, `db/postgres_budget.go` | the row's budget, spent and period; the pool's copy; reported request ids | report spend, set a budget, reload | database; pool | check, commit and hold are three critical sections; periods end; retries | a report counts once, in its unit; the pool decides by the row's total |
| **Auth cache** `internal/api` (`authcache.go`, `middleware.go`) | token hash to tiers, for a minute | look up, put, clear after an admin write, expire | database | two reads and a put without a lock, against a clear | what is cached is true; a revocation takes hold |
| **Serve path, boot and shutdown** `api/keys.go`, `cmd/keypooler` | all of the above | a request from draw to answer; crash, stop, boot | joins pool, queue and rows | the gate in memory and the row count the same serves apart | the two agree, and only what a crash forgets is granted again |
| **Provider balances** `internal/balance` | the round a process is in, the balance last seen of each key | check each key's provider at the start and every 15 minutes, bench what is spent | providers over HTTP; pool | checks and writes fail; a bench is made in memory and then in the row; clients bench too; a stop comes half way | a spent key is benched in the end; a stop leaves its benches to the next process |
| **Sealer** `internal/crypto` | the encryption key | seal, open | handlers, pool | plaintext and sealed values side by side | library code over bytes |
| **Migrations** `internal/db/migrations.go` | `schema_migrations` | run what is missing, at boot | database | a crash, a lost answer, a second process, a file that comes late | each version applied once, after the earlier ones, before its process serves |
| **Process lifecycle** `cmd/keypooler` | how far main is | migrate, load, start the checks, serve, stop in order | all of the above | anything before serving is fatal and begins again | as above |
| **HTTP and configuration** `internal/api`, `internal/config` | none | route, decode, answer | everything | nothing of its own | - |

`docs/design/quota-buckets.md` describes a design that is not implemented; it
is not modelled.

## The modules

| Module | Models | Checked by | Proved in |
|---|---|---|---|
| `UsageLedger` | abstract: each serve counts once, a window reset starts the count over | as a refinement of `Writeback` | `WritebackProofs` |
| `Writeback` | the queue, its flushes, `Run` | `MCWriteback` | `WritebackProofs` |
| `KeyPool` | draws between two reloads | `MCKeyPool` | `KeyPoolProofs` |
| `AuthCache` | lookups, admin writes, the cache | `MCAuthCache` | `AuthCacheProofs` |
| `Calendar` | months of different lengths, the last and the next reset | in `Spend` | `SpendProofs` |
| `Spend` | one key's budget: row, pool, reports, admin writes, restarts | `MCSpend` | `SpendProofs` |
| `Roster` | tables, reloads, benches and counts across reloads | `MCRoster` | `RosterProofs` |
| `ServePath` | `KeyPool` and `Writeback` composed, with crashes, stops and boots | `MCServePath` | `ServePathProofs` |
| `Migrations` | what booting processes do to one schema | in `Service` | `ServiceProofs` |
| `Balance` | the checks of several processes, next to clients' reports and providers' cycles | in `Service` | `ServiceProofs` |
| `Service` | `Migrations` and `Balance` composed along the life of each process | `MCService` | `ServiceProofs` |
| `Sums` | nothing: lemmas about sums over finite sets, for the proofs that count | | itself |

The `MC` modules only give constants their values.

**Time** is a clock of ticks that moves between any two steps; where only
"before or after" matters (`AuthCache`, `Roster`, `Balance`) there is no clock, and
expiry is a step that may come at any moment. **Data** is reduced to identity: a token
hash is its consumer, an event its serial number, a spend amount a small number.
**Locks** are not variables: what happens under one lock is one action, and a
read lock held across actions is a guard on the writers (`KeyPool!WriteLocked`).
**A statement or transaction** is one action. Its answer is part of it where
nothing reads the row in between (`Writeback`); where something does (`Spend`,
`Roster`) commit and what follows are steps of their own.

### Writeback

`usage` and `events` are the queue, `served` and `batch` what `Flush` took out of
it, `row` and `log` the tables `keys` and `usage_events`. `TakeQueue` is the swap
under the lock; `FlushKey` one turn of the loop over the map (any order), with
its requeue on failure; `FlushEvents` the `COPY`; `FlushEnd` goes back to waiting
or returns. A store call ends committed, refused, or - for the keys in `LostReplies`,
and for a `COPY` with `LostCopies` - committed with an error for an answer. The last is also
the call that the cancelled context cuts short and the server commits all the same; it counts
as a fault, so `StopsDrained` and `StopForgetsNothing`, which are about stops without faults,
say nothing of it. A tick flush runs on the context that
shutdown cancels (`Doomed`), the final one on a fresh one. `Overrun` lets handlers
outlive `Shutdown`'s deadline. `made` is history: the rows as if each call had
reached the database at once; so is `late`: a call came after the final flush had taken
the queue, and no flush will come for it.

`Truth`, the rows with the flight and then the queue applied, is the refinement
mapping to `UsageLedger`, for the keys whose answers are not lost (`Answered`).

### KeyPool

One action per lock section of a draw: the filter (`GetKeyForFeature`, `KeyByID`),
the counter (`Pick`), `TryRate`, `TryConsumeUsage`, `PersistUsage`, the answer.
`Position` is the index of a key in the shrinking slice, `Index` the one the counter gives.
`Available` leaves out `IsActive`, which is set when a key is made and never cleared, and
reads the clock once for all keys of a filter. `MarkExhausted` and
`BudgetSpent` (what `holdSpent` amounts to for a draw) wait for the draws.
Membership is fixed: a reload takes the same lock, so a draw never sees one.

### Roster

`Commit` is a handler's transaction; `GetAllKeys`, `TierFeaturesByTier` and
`KeySecretsByKey` are the three reads, in the order `ReadOrder` gives; `Install` is the swap.
`MarkExhausted` and `SetKeyExhausted` are the two halves of a report; the balance
check makes the same two calls, so a `Reporter` is either. `Serve` counts and
queues in one step, because a draw keeps the read lock over both; it does not look at
the bench, which only adds behaviours. `FlushKey` is a whole flush of one entry:
what happens inside a flush is in `Writeback`. `UpdateTierFeatures` replaces a tier's features
at once; in the database two such calls at the same time may leave the union of theirs, and no
property rests on which are left.

### Spend

A report is `Check` (under the read lock), `Stamp` (the clock is read after it),
`Commit` (one transaction: insert the event, and update or read the total) and
`HoldSpent`. `Commit` may lose its answer, and a request may be retried.
`SetKeyBudget` and `OtherWrite` end in a reload: `GetAllKeys` and `Load`.
`Calendar` gives the months: `First` says where each begins, so that they may differ in
length, and `Date` and `AddMonths` are what `periodStart` and `nextReset` use of Go's
calendar. A report keeps the reset it will be told (`resets`). `Lifetime` is the fixed
instant before all months. `Load` installs what a reload read; `LeaveOut` is a reload that
finds the key's tier without features and takes it out of the pool, after which a report
under way holds an orphaned `PoolKey`. `disturbed` is history: something met something
else half way since the pool last took the row over as it was.

### AuthCache

`Get`, the two reads and `Put` are the steps of `consumerCaller`; an admin request
is its handler's write and then `ClearAfterWrite`, after which the answer leaves.
Any request but a read clears, also one that failed (`OtherRequest`).

### ServePath

`Persist` joins `KeyPool!PersistUsage` to `Writeback!WindowReset` or `Served`;
`Respond` joins the answer to `Event`, or to nothing when the key cannot be
opened. `Shutdown` cancels `Run` once the handlers are done, or with `Overrun` at its
deadline, done or not. `Boot` ends the
process at any point and starts one whose gates come from the rows; `forgotten`
counts the serves in no row by then, and `crossed` holds the keys of which a draw
that opened a window had yet to tell the queue while another had too. A key in
`LostReplies` is left out of `WindowsReachTheQueue`: its row may count a serve
twice, and the gate never does.

### Migrations

`recorded` is the table of versions; `boot` is how far each process is, and what it has
yet to run, decided once by `RunMigrations` from what it read then. `ExecuteMigration` is
script and row in one transaction, whose answer may be lost; `MigrationRefused` is the
same transaction when another process has recorded the version since, and fatal. `schema`
is history: the scripts committed, in order, and by whom. A process is a container with a
fixed image, so `Shipped` is a constant; two of them may be of two releases, and a file may
come late with a lower number. A script is only that it was run.

### Balance

A round goes over the keys of each source, benched or not, in any order. `Check` is the
provider's answer: none, something left, or spent, with the end of its cycle ("cycle") or
without one ("while", the 15 minutes). `BenchSpent` and `WriteSpent` are the halves of
`MarkExhausted`; `Report` and `WriteReport` the same two of a client. There is no clock:
`Renew` ends a provider's cycle, and every bench that lasted until then with it; `Lapse` ends
a "while" at any moment, in one pool or in the row, as each compares with its own clock.
`marked` is history: who benched a key in the running cycle.

### Service

The main function of each process: `Boot` runs the migrations, `Start` loads the pool
from the rows and starts the checks, `StopBalances` and `Stop` are its end, with handlers
that outlive the deadline of `Shutdown`. `Crash` is every fatal error and every kill, after
which the process boots again. What handlers do besides reports of spent keys is in the
other modules.

## What is checked

Runs that pass:

| Run | Instance | Shows |
|---|---|---|
| `writeback_answers` | 2 keys, one of which may lose its answers, 2 windows, 2 events kept, 4 calls, 2 faults, overrunning handlers; fair | `NeverUndercounts`, `KeepsTheLedger`, `RetriesMeetNoConflict`, `NewestEventsKept`, `OldestFirst`, `StopsDrained`, `UsageLands`, `EventsLand` |
| `pool_gates` | 2 callers, 2 keys in 2 tiers, one of them with a second feature, 3 instants, 3 draws; limits of 1 and 2, benches, spent budgets, an expiry | `RateHolds`, `UsageHolds`, `DrawsOnlyUnbenched`, `SkipsOnlyClosedKeys` |
| `pool_rotation` | 2 callers, 3 keys, 1 feature, 7 draws by rotation or by id, a rate of 2 for each key and a lifetime limit of 1 for one, so that every gate closes; fair | `RotatesEvenly`, `DrawAnswers` |
| `auth_fresh` | 2 calls, 2 admins, 2 tiers, 3 writes; fair | `FreshUnlessStraddled`, `RevocationLands` |
| `spend_counts` | 2 callers, 1 admin, 3 requests in 2 units, 3 instants over a reset, months of 3, 2 and 3 ticks, 4 budgets | `CountedOnce`, `UnitsKeptApart`, `HeldIsTheRow`, `ResetsAreKept` |
| `serve_counts` | 2 callers, a key for one use in its life and one with windows of a tick, 2 draws, 1 fault, 1 boot, an overrun deadline; fair | `GateIsAccountedFor`, `LimitOutlivesCrashes`, `StopForgetsNothing`, `WindowsReachTheQueue`, `CountsReachTheRow` |
| `roster_reloads` | 2 admins, 2 reporters, 2 keys, 2 features, 4 writes, 2 reports, 1 serve, 1 fault | `FreshReloadIsTheTables`, `NoKeyIsTorn`, `ReloadsKeepCounts`, `BenchIsTheRow` |
| `service_boots` | 2 processes, of an older release and of a newer whose new file has the lower number, 1 key, 1 report, 1 fault or death; fair | `SchemaGrowsInOrder`, `ServesMigrated`, `StopKeepsBenches`, `SpentIsBenched` |

and all but `pool_rotation` their module's `TypeOK`.

Runs that find the code at odds with what the repository says of it (each is a
finding in `PROJECT.json`):

| Run | Property | What happens |
|---|---|---|
| `writeback_poison` | `EventsLand` | a `COPY` whose answer was lost is retried with the same ids and refused for ever, newer events with it |
| `serve_race` | `ServesLandInTheRow` | the draw that opened a window records it after the next one recorded its serve, and erases it |
| `spend_late` | `LateReportsLowerNothing` | a report from before the reset wipes the new period's total |
| `auth_revoked` | `RevocationHolds` | a lookup caches a consumer after the clear that followed its deletion |

They are one pattern: state read outside the lock that installs it. The positive
properties next to them say how far the code holds nevertheless, and
their conditions (`disturbed`, `crossed`, `installed`, `since`) are the
overlap each needs. Where a hazard in `PROJECT.json` is that very overlap, its note says
that the property stops short of it: the code does not prevent it. The same pattern has other cases, which TLC reaches in these
models and which no property here promises away:

- With every admin write answered, a deleted key can be back in the pool
  (`Roster`: every `admin` idle, `Pooled(k)`, not `Stored(k)`): the reload of another
  write reads before the deletion and installs after the deletion's own reload.
- A report that was answered can be gone from the pool (`Roster`, `crossed`): a reload
  reads the row before `SetKeyExhausted` and installs after `MarkExhausted`.
- A key at its budget can find room in it before the reset (`Spend`, `disturbed`): a
  reload reads the row before a report's commit and installs after its hold.
- A report checked against a budget in dollars can be added to one in credits
  (`Spend`): the transaction does not look at the unit.
- `RotatesEvenly` names its conditions for a reason: a key with a closed gate takes its
  turn of the counter and hands it to one neighbour, and draws of two features that
  alternate on the one counter each keep to one key.
- A handler that outlives `Shutdown` queues what no flush comes for (`Writeback` with
  `Overrun`; `StopsDrained` leaves it out by `late`).
- A report whose key leaves the pool and comes back is held by a `PoolKey` that no draw
  sees (`Spend`, `orphan`).
- A client's report with a nearer end replaces the bench until the end of the cycle that a
  check made (`Balance`): the last to write wins, in memory and in the row apart. The key
  is drawn again before the end of its cycle that the README of the repository names, until
  the next check of that process.
- Of two files with one version a boot runs the first and fails on the second, and the next
  boot skips it (`Migrations`): a version is all that is recorded.

**Bounds.** Each hazard here is a crossing of two actors, or of one and the clock,
a fault or a process's end: two of each kind, and enough calls for one to overtake
the other and a third to see what came of it. Limits are 1 or 2, so that they are
reached and passed within the draws a run makes; the event buffer holds 2 with 4
calls made, so that it overflows on an append and on a requeue; clocks run over at
least one border of a window or period. `service_boots` has one key because a round treats
keys one by one and apart; its one fault may be a failed check or write, a lost answer, or
the death of either process at any point. `pool_rotation` has three keys because two
cannot tell a rotation from an alternation, and one draw more than its gates let through:
before the first gate closes the lists have one length and the turns are even; from then on
draws that share the counter hold lists of three, two, one and no keys, in any order, and
each must still find the key of its index or give up. Callers, admins, keys are interchangeable
where the configuration names a symmetry; runs with liveness use none.
The counters that bound a run (`calls`, `faults`, `draws`, `writes`, `reports`,
`serves`, `boots`) stand in guards and nowhere else. Deadlock is not checked: at its
bounds, or after a stop, a run has nothing left to do.

**Fairness.** `Writeback!FairSpec`: the ticker fires while `Run` waits, and every
store call returns because its context ends - weak fairness of the tick and of the
steps of a flush. Between a ticker and a cancelled context that are both ready
Go's `select` picks at random, so the cancellation is taken in the end though a
tick may win each time - strong fairness of `FinalFlush`. `KeyPool!FairSpec`: a draw that holds the
read lock never blocks, so its goroutine runs on. `AuthCache!FairSpec`: lookups and
requests run on (their contexts end), and a minute passes. `ServePath!FairSpec` joins the
first two: a draw runs on, and `Run` goes on flushing. `Service!FairSpec`: a process that is
down is started again (`restart: unless-stopped` in `docker-compose.yml`), and each
statement and check it makes returns, because its context or its client has a timeout - weak
fairness of `Advance`, of which never two steps are enabled at once. Nothing makes a draw, a
write, a report, a cancellation, a death or the end of a provider's cycle happen.

## What is proved

For every value of the constants that satisfies the modules' assumptions, each
invariant and action property of the runs that pass, and the refinement:

- **`WritebackProofs`** `TypeCorrect` (`TypeOK`, with the bound on the event buffers),
  `UndercountsNever` (`NeverUndercounts`, with lost replies and overruns) and
  `QueueKeepsTheLedger`: for the keys outside `LostReplies`, `Writeback` implements
  `UsageLedger`, whatever becomes of the others. The type
  invariant is inductive as it stands; the other two need `NothingInFlight`, that between
  flushes nothing is, or the swap of the next one would drop it. They rest on lemmas about
  how `Requeue` and `Apply` compose: a failed entry put back under what was queued
  since leaves `Truth` as it was, and put back after it was written only adds to it.
  Of the events: `EventsWaitInOrder` (`OldestFirst`), `RetriesAreClean`
  (`RetriesMeetNoConflict`) and `NewestAreSafe` (`NewestEventsKept`) share one invariant
  (`EventsInv`). What waits is sorted by serial number and none is above `issued`, so
  whatever the bound drops has as many newer ones behind it as the bound keeps; and while
  no answer of a `COPY` is lost, what waits is not in the table. `StopsAreDrained`
  (`StopsDrained`) needs that without a fault nothing is counted twice (`Truth = made`) and
  that from the last swap on the queue stays empty but for late calls.
  `FlushesGoForward` bounds a flush by the store calls it has left (`CallsLeft`): each of
  its steps takes one off, and neither the draws nor what it puts back adds one, so a store
  that refuses everything does not keep it in its loop.
- **`KeyPoolProofs`** `TypeCorrect`, `DrawsStayUnbenched` (`DrawsOnlyUnbenched`) and
  `SkipsAreHonest` (`SkipsOnlyClosedKeys`). The first needs the type invariant and
  that a running draw excludes writers. The second needs that a draw in its gates has its
  key among its candidates, that a closed gate stays closed until the clock
  moves, and that a draw begun in this instant filtered by what still holds.
  `RateLimitHolds` (`RateHolds`) and `UsageLimitHolds` (`UsageHolds`) are about sums over
  the history of a gate and share an invariant of gate and history (`WindowKept`): the
  gate's count is the draws since its window opened, at most a limit; of those before it,
  fewer than a limit are within reach of any span that also reaches the window; and none are
  past its end. So no span holds twice the limit, and with a limit of one it holds one draw.
  `RotationIsEven` (`RotatesEvenly`) counts
  turns: with the draws that have been picked for and not yet counted, after `q` rounds of
  `n` keys and `r` more the first `r` have had `q + 1` turns and the others `q`
  (`InRounds`). It holds where nothing gets in the rotation's way: every offer is of one
  feature, each scope has the tier of every key and no key expires (`Rotating`, as in the
  run `pool_rotation`), and no gate has closed (`refused = {}`, which the property asks).
  Beyond that it is not
  claimed: a closed gate gives its turns to one neighbour, as listed above.
  `DrawsShorten` and `DrawsAreNeverStuck` are what `DrawAnswers` rests on besides
  fairness: a draw has at most `3 * n + 1` steps to go with `n` candidates (`StepsLeft`),
  each of its own steps lessens that and nobody else's changes it, and a pick always finds
  the key of its index, because the positions of a list are as many as its keys.
- **`Sums`** what `SumFunctionOnSet` adds up to: over no element, one more, two disjoint
  sets or a part of one, and for a function changed in one place. Its recursion is
  the library's; the induction over the subsets of a finite set is by a least
  counterexample, which the provers can follow where an induction theorem's operator
  cannot be given.
- **`ServePathProofs`** `TypeCorrect`, `GatesAreAccountedFor` (`GateIsAccountedFor`),
  `LimitsOutliveCrashes` (`LimitOutlivesCrashes`), `StopsForgetNothing`
  (`StopForgetsNothing`) and `WindowsReach` (`WindowsReachTheQueue`), for any number of
  callers, keys, faults and boots. The invariant ties the halves together key by key. Of a
  lifetime limit, the gate has counted what the queue was told and what draws have in hand
  (`LifetimeKept`: exactly, or at most where a reply may be lost), and all uses ever are
  within the gate and what was forgotten (`Covered`), because a boot starts the gate
  from the row and adds the difference to `forgotten`. Of a window, one that was opened and
  not told to the queue is the work of one draw, the only one that has the key in hand,
  and the gate is what that draw made it; once it was told, the gate is the queue's window
  with the draws in hand added (`WindowKept`). A stop forgets nothing because from the last
  swap on nothing waits (`Settled`). What a step of either half does is a lemma
  here, as facts proved of `KeyPool` or `Writeback` alone cannot be cited for an instance.
- **`AuthCacheProofs`** `TypeCorrect` and `CacheIsFresh` (`FreshUnlessStraddled`).
  `FreshUnlessStraddled` is not inductive: it says nothing of lookups under way
  nor of the time between a write and its clear. The strengthening says that what a
  lookup has read since the last clear is true unless an admin request is between
  write and clear, and ties `since` to `clears`.
- **`RosterProofs`** `TypeCorrect`, `ReloadIsTheTables` (`FreshReloadIsTheTables`),
  `NoKeyTorn` (`NoKeyIsTorn`), `CountsAreKept` (`ReloadsKeepCounts`) and
  `BenchesAreTheRows` (`BenchIsTheRow`). The invariant has
  a clause for each read a reload has made: if no write has committed since its first,
  what it holds is the tables (`ReadIsCurrent`); if any have, what it holds of a
  key that is still there is whole, because an id is never used twice (`ReadIsWhole`).
  For the counts it adds that a key never in the pool has nothing queued and counts zero
  in its row and in every reload's copy of it (`NeverServed`); for the benches, that one on
  its way to the row is the only one of its key and in the pool already (`BenchSettled`).
- **`ServiceProofs`** `TypeCorrect`, `SchemaInOrder` (`SchemaGrowsInOrder`),
  `ServingIsMigrated` (`ServesMigrated`) and `StopsKeepBenches` (the action property
  `StopKeepsBenches`), for any number of processes and any releases. The
  order of the schema needs three facts about a boot: the table of versions names
  exactly what was run (`RecordedIsRun`), each file of a release is recorded or still to be
  run by each process under way (`NothingIsMissed`), and one that is past its migrations has
  none left (`MigratedIsDone`). A script is run only if its version is not recorded and no
  file still to run has an earlier one, so each earlier one is recorded, and was run. That
  the process serves adds what main keeps between its stages (`StagesAgree`). The benches of
  a stop need that a bench only the checks of one process made is in the row or about to be
  written by them (`BenchesReachTheRow`), and that whoever has yet to write a row has marked
  its key (`HalfwayIsMarked`): another's late write would be on record.
- **`SpendProofs`** `TypeCorrect`, `ResetsKept` (`ResetsAreKept`), `RetriesCountOnce`
  (`CountedOnce`), `UnitsAreApart` (`UnitsKeptApart`) and `HeldAgrees` (`HeldIsTheRow`), for
  any calendar whose
  months have every reset day, any budgets and any number of callers and admins. The lemmas
  are about the calendar: an instant is in one month (`OneMonth`), the last and the next
  reset are in that month and a neighbour of it and frame the instant (`ResetsFrame`), so
  the last reset stays what it is up to the next and no longer (`PeriodRunsUntilReset`).
  The invariant says that each report under way was stamped at some instant past
  (`StampsArePast`) and, for its writes to keep the row's type, that no total is of a
  period that has not begun. For the sums it says that every total anywhere - in the row,
  in the pool, in a report's answer, in a reload's read - is covered by the reports that
  landed in its period, each recorded once (`TotalsCovered`). That the pool
  agrees with the row needs what holds while reports are between commit and hold (`Agree`):
  the pool is not ahead of the row, and if behind, the report that will bring the row's
  total is one of them. `None`, the SQL null, is assumed to be no number, budget or request.

Checked only: liveness and everything under fairness (`UsageLands`, `EventsLand`,
`DrawAnswers`, `RevocationLands`, `CountsReachTheRow`, `SpentIsBenched`), out of the prover's
reach as is `ENABLED`; of a draw and of a flush the step count that must run out is proved. The findings of the second table are counterexamples, and
TLC's.

## Not modelled

- The cipher and its tag, JSON, routing, status codes, logging: data and wording.
- Provider clients: HTTP and JSON; of their answers only whether a key is spent and whether
  the end of its cycle is named. The balance they give is kept to be shown.
- The admin listings and `/admin/health`: they read.
- A key's metadata and a tier's description: shown, never decided by.
- What a migration's SQL does, and the names of files: a malformed name is fatal at boot.
- Two processes drawing from one database: each counts in its own memory, and no document
  promises that two keep one limit. `Service` has two for their boots and benches.

## Plan

In order of what matters most to the system; the first eight are done.

1. `Writeback` with `UsageLedger`, 2. `KeyPool`, 3. `AuthCache`, 4. `Spend`,
   5. `Roster` and `ServePath`.
6. Liveness of `ServePath`; months of different lengths (`Calendar`), and a key that leaves
   the pool, in `Spend`.
7. `Migrations`, `Balance` and `Service`.
8. Proofs of every safety property the runs check.
9. The cases listed under "What is checked" that have no run: as properties of their
   own where a document promises them.
