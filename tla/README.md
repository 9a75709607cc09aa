# llm-meter: formal models

TLA+ models of the parts of `llm-meter` whose correctness depends on the order in
which concurrent handlers, database transactions, keyring calls, provider answers and
crashes meet. TLC checks them on small instances, TLAPS proves every invariant
and every action property of the runs for every instance. Paths are relative to the repository (`src/`);
`crates/` stands for `src/crates/`.

## 1. The system

`llm-meterd` (crate `daemon`) is one multi-threaded Tokio process. It pulls usage from
providers, stores it in one SQLite database behind one mutex (crate `storage`), keeps
credentials in the operating system's keyring (crate `secret-store`), runs local relay
proxies (crate `relay-proxy`), and answers the CLI, the desktop application and Waybar
over a Unix socket.

| Component | State | Operations | Interacts with |
|---|---|---|---|
| Synchronisation runtime, `daemon/scheduler.rs` | `running` (reservation set, memory); `connections.status`, `last_success_at`, `sync_states` (SQLite) | `Scheduler::run`, `request_sync`, `force_sync`, `sync_inner` | adapters, repository, alerts, IPC |
| Connection lifecycle, `daemon/scheduler.rs` | `pending_auth`, `proxies` (memory); rows (SQLite); secrets (keyring); the provider's tokens | `begin_auth`, `complete_auth`, token refresh, `start_proxy`, `stop_proxy`, `remove` | keyring, repository, relay proxy |
| Usage ledger, `storage/lib.rs` | `usage_events`, `metric_samples`, `provider_events` | `commit_sync_batch`, `prune`, `remove_connection` | syncs and proxies commit, the scheduler prunes |
| Alerts and budgets, `daemon/alerts.rs`, `ipc.rs` | `alert_rules`, `budgets` | `evaluate`, `install_defaults`, `budgets/set`, `alerts/upsert` | called after each sync and by users |
| Relay proxy, `relay-proxy/lib.rs` | one SSE collector per response | `forward`, `commit_usage` | upstream, ledger |
| Provider adapters, `provider-*` | cursors, continuation tokens, pending device codes | `begin_auth`, `complete_auth`, `refresh_credentials`, `sync`, `disconnect` | HTTP, Codex app server |
| Local Codex monitor, `daemon/local_codex.rs` | an offset and a parse state per session log | `snapshot`, `read_appended` | files written by Codex |
| Startup, `daemon/runner.rs` | database files, configuration file | `migrate_legacy_layout`, first prune, proxies, scheduler, IPC | all of the above |
| Snapshot and bar, `daemon/snapshot.rs` | none | `build`, `render_waybar` | repository, local Codex |
| Desktop setup, `cli/setup.rs` | files of Hyprland, Noctalia and systemd | `run`, `post_update`, `set_autostart` | the user's configuration, `systemctl` |

What is hard in it:

* `force_sync`, the scheduler and the first sync of a new connection race for one
  reservation; `remove` takes none.
* A row is read under one acquisition of the database mutex and written under a later
  one, with a provider call of up to 90 s in between.
* A timeout drops a future but not the blocking thread that writes to the keyring, nor
  what the provider has already done.
* Relay proxies commit to the same rows as the syncs of their connection.
* Events are delivered more than once, corrected, and may move to another day.
* The row, the secret and the proxy of a connection are changed one after the other, and
  the daemon may stop between two changes.

`PROJECT.json` lists every such hazard at its line, with the properties about it.

What makes the components correct:

* runtime: one provider request per connection; every reservation is released; nobody
  commits over a cursor that has moved; a removed connection stays removed; a due
  connection is attempted;
* ledger: rollups are the sums of the stored events; an event counts once; retention
  keeps long-term data; nothing is stored for a connection without a row;
* lifecycle: row, secret and proxy appear and disappear together; the keyring holds the
  token the provider accepts; one challenge makes one connection;
* alerts: a rule comes to the state its condition gives; an evaluation leaves alone what
  the user has decided; a threshold has one rule;
* adapters: a pull leaves no day out and counts no request twice; an answer is taken for
  the request it answers; the tokens of a login reach the call that waits for them;
* proxy, Codex logs, start, setup, snapshot: what was cut, interrupted or read in
  between comes out as if it had not been.

## 2. Modules

    SyncLease  <--(refinement)--  SyncRuntime  <--  MCSyncRuntime, SyncRuntime_proofs
    EventStore <--(refinement)--  UsageLedger  <--  MCUsageLedger, UsageLedger_proofs
    ConnectionLifecycle           <--  MCConnectionLifecycle, ConnectionLifecycle_proofs
    AlertEngine                   <--  MCAlertEngine, AlertEngine_proofs
    AdminPull, RelayPull, AppServer, KimiLogin    <--  MCBoundary, Providers_proofs
    CodexLog, DesktopSetup, LegacyMigration       <--  MCBoundary, LocalFiles_proofs
    RelayStream, SnapshotView                     <--  MCBoundary, Views_proofs
    FoldTheorems  <--  UsageLedger_proofs, Providers_proofs, LocalFiles_proofs, Views_proofs

### SyncRuntime, and SyncLease which it implements

A *task* is a Tokio task that may call the runtime for its connection: automatic tasks
are those the scheduler or `connections/auth/complete` spawns, force tasks the IPC
handlers that run `force_sync`. `pc` names what a task does next; a step ends where the
code awaits or takes the `running` or the database mutex, so two acquisitions are never
one step.

| Code | Action |
|---|---|
| `connections/auth/complete` + `request_sync` | `AuthComplete` |
| `Scheduler::run` | `SchedulerSpawn` |
| `reserve_sync` | `ReserveGate` (reads `next_retry_at`), `ReserveTake` |
| `force_sync` | `ForceStart`, `ForceReserve`, `ForceWait`, `ForceConfirm`, `ForceReply` |
| `sync_inner` | `SyncLoad`, `SyncMark`, `SyncRefresh`, `SyncAnswer`, then `SyncCommit`, `SyncCommitRefused` or `SyncMarkError` |
| `sync_reserved`, end | `SyncRelease` |
| `commit_usage` of a proxy | `ProxyCommit` |
| `remove_connection` | `RemoveConnection` |
| time | `IntervalElapses`, `RetryTimeReached` |
| stop and restart | `Crash` |

Data is abstracted to what the properties distinguish: a timestamp is a flag (`fresh`:
younger than the sync interval; `armed`: a retry time lies ahead), a cursor is one of two
successive values, a batch is accepted or refused. `moved` holds the user refreshes for
which `last_success_at` differs from the value they started with. `served`, `leaked`,
`faults` and `crashes` are observations no action reads, except for the bounds.

`SyncLease` is what the runtime promises: for each connection one holder at a time, a
holder publishes once and only for a connection that is still there, relinquishes, and
may be lost with the process. `LeaseRefined` maps the holding task to the holder and the
committed default batches to publications. Its mapping is `Holder`, `Published`, `Gone`.

### UsageLedger, and EventStore which it implements

`usage_events` is the set `events`, `metric_samples` the set `metrics` with both the
providers' samples and the derived rollups. An event has a connection, a key (source and
external id), a day, a model and a token count, either of which may be NULL; a sample or
rollup has a period class (`point`, `hour`, `day`), which is all that retention looks at.
`Rebuild`, `Totals` and `RollupsOf` follow `rebuild_daily_rollups`: a metric gets a row
only when some event of the group has a value. One token column stands for the five,
costs and credits, which the same loop sums; currencies are left out because every
adapter uses one unit per metric. `EventStore` is what the table of events promises: of
each event of an open connection one version, as it was delivered, which only another
delivery for that connection replaces and only the connection's end removes; a closed
connection is never opened again. In `StoreRefined` the version of an event is the set of
the rows with its key, so a second row is as much a violation as a lost one. That a batch
which is accepted changes the stored version at all is `Upsert` itself: to the store it
looks like no delivery if it did not. `departed` is an observation: the days an event has
been moved away from and that have not been rebuilt since.

### ConnectionLifecycle

For each connection: where `complete_auth` is, the row, the stored token (its number, 0
for none), the token the provider accepts, where a sync's token refresh is, the keyring
writes in blocking threads, where each caller's `start_proxy` and `remove` are, and the
proxy handle. One sync per connection is what SyncRuntime proves. Kinds of connection:
`key` (an API key), `oauth` (Kimi: the provider rotates the refresh token), `proxy`. The
rotation itself is the provider's; that it refuses an old refresh token is assumed, and
an adapter that gets none back keeps its own, which is the case without rotation.
`strayed`, `bereft`, `cut` and `overlapped` are observations, each set at one kind of
step (a failed or cut deletion of a secret; a removal cut between its two deletions; a
rotation whose token did not reach the keyring; a start concurrent with a removal), so
that the invariants can say that nothing else leads to the state they describe.

### AlertEngine

The tasks are the synchronisation and the budgets/set calls. `SyncWhenDue` is the
scheduler's, which skips three statuses of the connection; any other start of a
synchronisation (`StartSync`) is a user's. It ends in an evaluation when it has committed
a batch or noted the provider's error, both part of `CommitFacts`, and without one
(`GiveUp`) when it fails before that. An evaluation is one action per database call: `ReadConnection`, `ReadQuotas`, `ReadMetrics`,
`ReadBudget`, `ReadRules`, then `EvaluateRule` for each rule it has read, in the order
of their kinds (any order within a kind, as the query leaves it), and `Finish`;
`TaskFails` is the `?` of any of the calls. `budgets/set` is `SetBudget`,
`ListExisting`, `InstallBudgetRule` twice, and an evaluation; `alerts/upsert` is
`UpsertByUser`, which stores any rule a client sends (`UserRule`: any kind, threshold and
state) in the place of one there is or under a new identifier, and compares it with
nothing. `handmade` observes which rules have become a budget's rule of some threshold,
or stopped to be one, in this way. What may be in the tables (`Fact`) is a constant; `Rollups` makes the
metric samples of the events as the ledger does. `copy` holds the rules as they were
read: `Written` is such a copy with another state. `edited` observes which of them the
user has changed since.
`EditsSurvive` excepts those: an evaluation that has read the rules before the user edits
one does write its copy back over the edit.

### The components at the boundary

Nine components meet what is outside of the daemon and share no state with each other
that matters to their properties. Each has a module of its own, with the environment's
actions apart from the component's; `MCBoundary` runs one of them in each behaviour
(`part`), which is the union of nine runs.

| Module | Code | State | Environment |
|---|---|---|---|
| `AdminPull` | `provider-openai/platform.rs` `sync` | cursor, stored buckets, the pull | the reports grow and are corrected, days pass |
| `RelayStream` | `relay-proxy/lib.rs` `forward` | token, requests, collector, `usage_events` | answers and the network's cuts |
| `CodexLog` | `daemon/local_codex.rs` `snapshot` | cache, its mutex, snapshots | sessions write, end, are replaced |
| `LegacyMigration` | `daemon/runner.rs` `migrate_legacy_layout` | files of both layouts | kills, failures, one or two file systems |
| `KimiLogin` | `provider-kimi/subscription.rs` `begin_auth`, `complete_auth`, `poll_token` | pending codes, calls, secret store | the user's answer, time |
| `AppServer` | `provider-openai/subscription.rs` `AppServer` | request number, stream of lines | answers, notifications, noise, silence |
| `RelayPull` | `provider-relay/lib.rs` | profile, rows read, `usage_events` | requests the relay serves and lists |
| `DesktopSetup` | `cli/setup.rs` | configuration files, service, command | the user and the shell edit |
| `SnapshotView` | `daemon/snapshot.rs` | tables, what is read | commits, errors, removals |

Abstractions that matter: a bucket of a report is the version of its contents, and a
group that has been in a bucket stays in it; a line of an answer is its usage; the offset
of a log counts lines; of the database's files only whether they are whole and whose they
are; OpenRouter's row is the list of the requests it stands for; a snapshot's figures, one
for each quota window and day, are a value and the number of the commit that stored it.
A commit upserts the figures its batch carries and deletes none, so a window that the
provider no longer reports, or whose part of the answer failed, keeps an older figure
beside a newer `last_success_at`; `held` of a row observes how old each figure was when
that was set. A snapshot reads of each connection the metrics, the quota windows, the
summary of the reset credits and the credits under four acquisitions of the mutex, which
are four steps. It reads capabilities, accounts, products, the budget and the alerts too,
which say nothing of time. Left out: the limit of 500 metrics a snapshot reads, quota
windows without a remaining ratio, which the bar passes over, and the local Codex history,
which the trend prefers to the providers' totals when there is one.

## 3. Runs

| Run | Instance | Shows |
|---|---|---|
| `sync_safety` | 1 connection, 2 automatic tasks, 1 refresh, 2 polls, 1 fault, 1 crash, rejected batches, removal | `SingleFlight`, `CommitOnCurrentCursor`, `RemovedLeavesNothing`, `ReservationAccounted`, `ForceAnswerExplained`, `ErrorsLeaveThroughSyncing`, `LeaseRefined` |
| `sync_liveness` | the same tasks, fair, no faults, crashes or refused batches | `SyncingIsLive`, `ReservationReleased`, `ForceReturns`, `DueIsAttempted` |
| `sync_force` | violation | an Ok refresh without a successful sync (`ForceHonest`) |
| `sync_backoff` | violation | a request during the retry time (`AutoRespectsBackoff`) |
| `ledger` | 2 connections, 2 days, 2 keys, batches of up to 2 events or 1 sample | `RollupsExact`, `StoreRefined`, `NothingWithoutConnection`, `ModelsWithinDay`, `DailySamplesKept` |
| `ledger_moved` | violation | a moved event is counted on both days (`RollupsAlwaysExact`) |
| `lifecycle` | 2 handlers of 1 challenge of any kind, 2 callers, 3 tokens, 2 faults, 2 crashes | `OneConnectionPerChallenge`, `RowHasSecret`, `KeySecretsGone`, `StoredIsAccepted`, `StoredNeverOlder`, `ProxyOutlivesByRace` |
| `lifecycle_orphan` | violation, no faults or crashes | a removal leaves a renewed secret (`SecretGoneWithConnection`) |
| `lifecycle_proxy` | violation, no faults or crashes | a removal leaves a proxy (`ProxyGoneWithConnection`) |
| `alerts` | synchronisations and budgets/set calls, each kind one after the other, one quota rule at first, one budget, a client that suppresses and acknowledges a rule or writes one on the budget, a connection that is scheduled or waits for a login, 2 changes of facts, budget or rules, fair; 534,000 states | `AlertTypeOK`, `EditsSurvive`, `OneRulePerThreshold`, `AlertsConverge` |
| `alerts_budget` | violation | a budget rule triggers at half its share (`BudgetCountsOnce`) |
| `boundary` | one of the nine components in each behaviour, 555,000 states | see below |

What `boundary` checks, for each component:

* `NoDaySkipped`: a day that no later pull fetches was fetched after it had ended.
  `PullIsFresh`: a commit holds what the provider reported when the pull began.
* `StreamedAsWhole`: however a streamed answer is cut, its row is the one its whole body
  would give; answers with a refused usage, without identifier, ended within a line or
  with an event the store refused are excepted, and do differ.
* `CacheIsReplay`: the totals of a log are what its lines up to the offset say.
  `ReportIsFresh`: a report misses nothing of the logs it has found.
* `OpensWithItsLog`: the database is opened with the log it was left with.
* `TokensReachTheirCall`: two calls never poll for one code, tokens given are stored once.
* `HearsItsServer`: no late answer is taken for another's, no end of a login is missed.
* `CountsEachOnce`: requests listed again and again have one row each.
* `CommandsConverge`: a setup or update that reaches its end leaves everything in place,
  whatever commands were aborted before.
* `ShowsWhatIs`: no figure is older than it was when the success it is shown with was
  noted, and no list of credits older than its summary; the bar warns.

Every passing property has a mutant in `PROJECT.json`: a plausible slip in one mapped
definition, kept beside it as a *Variant*, under which the run finds the property
violated.

**Bounds.** Connections of SyncRuntime share nothing but `running`, whose elements are
independent, so one connection shows every interaction of its tasks; three tasks are
enough for a reservation to be held, wanted and passed on at once, and two polls for a
refresh to wait and to give up (the code's 80 differ only in number). One fault and one
crash reach every error path once; the database functions keep no state between errors.
In the ledger a second connection matters only for batches and cascades that cross, two
days and two keys for moves and for groups that gain and lose members. Connections of
the lifecycle meet only in a shared challenge and in the startup, so the two handlers of
one challenge are the interesting pair; two callers race with each other, two faults and
two crashes cover a failed repair. Symmetry is used in safety runs only, over handlers,
callers, tasks and keys that no definition distinguishes.

In `alerts`, two changes are enough for one between any two reads and another after
them, for a budget that is set twice, or set before or after a client writes a rule of
one of its thresholds. Without the exception for rules a client has written TLC finds
`OneRulePerThreshold` violated in this instance. Its other exception (`raced`: a second
budgets/set call at once, or equal ratios) needs an instance too large for the
evaluation's liveness; the theorem covers those. In `boundary` three commits let a snapshot of two connections see one
before, one while and one after it reads a connection; the four batches are one with
every figure, two that lack a window and one that is refused. In
`boundary` the parameters of the code are scaled with what they bound: two days of
history, overlap and page over five days, two lines of a log, three of an answer, two of
a relay's list with three requests, so that each window is left, each page followed by
another and each list cut. Three starts of the daemon, three commands and two calls for
two codes let one be interrupted, one repair and one find it repaired.

**Fairness** (`sync_liveness`): weak fairness of every task, because the executor polls
spawned tasks, the provider call is under a 90 s timeout and the reservation loop counts
its attempts; weak fairness of the passing of time; strong fairness of the scheduler's
spawn for each connection, because every tick visits every row and a tick may fall on a
moment when the model's few tasks are all busy. Users, clients of the proxy, removals and
crashes owe nothing.

**Fairness** (`alerts`): weak fairness of each task, which runs on the executor without
waiting for anybody, of time, and of the scheduler's start of a synchronisation while the
connection is scheduled; nothing makes a user synchronise or call budgets/set again. That
is all the code owes: `Scheduler::run` passes over connections that are disabled, wait
for a login or are being connected (`scheduler.rs:647-653`), and a synchronisation may
return before it evaluates, at its early errors (`scheduler.rs:296-330`) or at a batch
the store refuses (`360-362`). `AlertsConverge` therefore has two premises: the connection
is scheduled from some time on, and if synchronisations recur, so do evaluations at their
end (`SyncsSucceed`). Without either of them TLC finds it violated: a rule on old data,
or on a login that is required, is not looked at again until the user asks for it.

Deadlock is checked in every run but `boundary`, where the daemon's clock, its starts,
the user's commands and the server's noise are bounded, and where a login that has ended
or an app-server that was asked everything really stops.

## 4. Findings

* `force_sync` answers Ok when `last_success_at` changed for any reason while it waited
  (`sync_force`).
* An automatic sync may start while the retry time lies ahead (`sync_backoff`).
* An event that moves to another day leaves its old day's rollup wrong (`ledger_moved`).
* A removal during a token refresh leaves the renewed secret in the keyring
  (`lifecycle_orphan`).
* A removal during a start leaves the proxy running (`lifecycle_proxy`).
* A budget rule counts each charge twice (`alerts_budget`): once in the day's rollup, once
  in its model's. The same sum is behind `TokenDaily` rules (`alerts.rs:68-80`) and the
  bar's trend (`snapshot.rs:251-276`).

States the models reach that no document speaks about: a reservation lost by the failed
read in `force_sync` (`leaked`); a row whose secret is gone, which no later removal
accepts because the keyring refuses to delete a missing entry (`bereft`); a finished
proxy handle that makes later starts succeed without serving; a copy of the legacy
database between file systems that was cut (`torn`): the target exists, so the next start
opens it, or moves a log beside a newer database, although the comment of
`migrate_legacy_layout` speaks of no data discarded; two budgets/set calls at once, or a
budget whose two ratios are equal, that install a threshold twice (`raced`: the list of
existing rules is read once, before the loop over the ratios, `ipc.rs:222-243`), and a
client that writes a second rule of a threshold by alerts/upsert (`handmade`); an edit of
a rule between the read and the write of an evaluation, which is lost (`edited`); a
provider's new token that a timeout or a failure keeps from the keyring (`cut`); a quota
window the provider no longer reports, which is shown beside a fresh success; a setting the shell has written between the read and the write
of `install_noctalia`, which is lost (`shared`); a plugin the user has disabled, which
`post_update` enables again; a service already active, which `enable --now` leaves on the
old executable; a log replaced by one that is longer than the offset (`replaced`).

## 5. Proofs

All theorems are about the specification of their module (`Spec`, or the one named for the
component, as `PullSpec` or `CodexSpec`, without fairness), for any values of its
constants that satisfy the named assumptions of the module. Most assumptions only say
what kind of value a constant is. Those that say more, and why the code has them:

* the page cap of the admin pull reaches back to any cursor (`PullAssumption`: 100 pages
  of 31 days are eight years), and its overlap of 2 days is no longer than the 31 it
  fetches without a cursor;
* no relay gives as an identifier what the adapter computes as the SHA-256 of another
  request (`RelayAssumption`);
* what a provider reports of a day is not negative (`ViewAssumption`: tokens), and no
  quota window is a day;
* a client sends rules of the type the handler deserializes, and the defaults have no
  rule on the budget (`AlertAssumption`: `serde_json::from_value::<AlertRule>`,
  `alerts.rs:16-24`);
* a batch has finitely many events (`BatchAssumption`) and there are finitely many session
  logs (`CodexAssumption`), which the sums over them need.

**SyncRuntime_proofs.** `TypeCorrect`, `SingleFlightHolds`, `ReservationAccountedHolds`,
`CommitOnCurrentCursorHolds`, `RemovedLeavesNothingHolds`, `ForceAnswerExplainedHolds`,
`ErrorsLeaveThroughSyncingHolds` (an action property), `SyncingIsLiveHolds`,
`LeaseRefinement`. Mutual exclusion is not inductive by itself: a task with a request
pending must be known to hold the reservation, and a reservation to have at most one
holder. The inductive invariant therefore joins the types, the exclusion of *holders* (not only of tasks with
requests), `ReservationAccounted`, the agreement of `base` with the cursor, and the
emptiness of what belongs to removed connections. On top of it: `AnswerInv`, whatever
moves the time of success that a waiting refresh compares is an explanation of its
answer; `MarkedInv`, a sync past its mark finds the status it wrote, because only the
holder of the reservation writes another, so no sync overwrites an error it has not
seen. `SyncingIsLiveHolds` assumes an instance without faults, crashes or refused
batches, which is the instance of `sync_liveness`: after any of these the row may show
`syncing` with no sync at work. The refinement proof takes the same
invariant: one holder makes `Holder` a function of the state, and each action is then a
lease step or leaves the mapped state alone.

**UsageLedger_proofs.** `LedgerTypeCorrect`, `RollupsExactHolds`, `EventsDistinctHolds`,
`NothingWithoutConnectionHolds`, `DailySamplesKeptHolds` (an action property: rebuilding
deletes derived rows only, and a commit deletes a sample only for one of its series).
`RollupsExact` needs the periods of rollup rows
(`RollupSpans`): retention tells rows by their period only. The argument for a commit:
rebuilding gives exactly the rows of the rebuilt days (`RebuildRows`), and the events of
any other day change only when a stored event with the key of a new one lies on it, which
is when `departed` records the day. `StoreRefinement` needs no invariant: a commit keeps one
record of each key it brings (`LastOfKey`) and removes every stored one with it, so the
rows of that key are one version of the batch (`CommitDelivers`), and those of other keys
and connections are what they were. `ModelsWithinDayHolds` needs more than `RollupsExact`
says, because it also speaks of the days that are not exact: the rollups of a day are
always those of *some* finite set of events (`DaysRolledUp`), the one they were last rebuilt
from. The rows of the models partition that set, so they add up to no more than its
day row: a sum over sums, from FoldTheorems.

**ConnectionLifecycle_proofs.** `TypeCorrect`, `OneConnectionPerChallengeHolds`,
`RowHasSecretHolds`, `KeySecretsGoneHolds`, `StoredIsAcceptedHolds`,
`StoredNeverOlderHolds` (an action property), `ProxyOutlivesByRaceHolds`: all invariants
of the run. Each has an invariant of its own, so that a change of one handler touches
few proofs:

* `OwnInv`: the handler that took a challenge owns it, a challenge that is pending has no
  owner, and whatever exists of a connection presupposes that it owns its challenge.
* `RowInv`: rows and removals come after the authentication, which has stored the secret.
* `KeyInv` (needs both): some row, authentication or failed deletion answers for every
  secret that is not renewed, and no write of it is under way when its row is deleted.
* `TokInv` (needs `OwnInv`): at most one keyring write is under way, of the accepted
  token, younger than the stored one; a sync that could rotate holds the accepted token,
  which therefore is not the one being written. This is why the write that a timeout has
  abandoned cannot overtake a later one.
* `ProxyInv`: a connection with a proxy, or a start of one, and a removal is one where the
  two overlapped.

**AlertEngine_proofs.** `AlertTypeCorrect`, `EditsSurviveHolds` (an action property),
`OneRulePerThresholdHolds`. `EditsKnown` carries the first: what a task has read of a
rule and not yet dealt with is what the user has decided of it, unless the rule is in
`edited`. For the second, a rule that the user has not made or unmade a budget's of some
share (`handmade`) keeps its share (`Lasting`), so the list an installer has read stays
true; unless `raced`, there is one installer, which knows every other rule of a budget
but the one it has just made (`Installer`). Steps that install nothing add no share
(`SharesStay`), and one lemma serves them all.

**Providers_proofs**

* `NoDaySkippedHolds`: the stored cursor is the day its pull began, the start of a pull is
  not after the cursor before it, and a pull that is under way has fetched every day from
  its start to its next page (`PullInv`).
* `PullIsFreshHolds` (an action property): the versions of a day only grow, and those of
  the pages a pull has read lie between what was reported when it began and what is
  reported now (`FreshInv`). A pull covers the overlap because its start is not after
  it, which is `PullInv` again.
* `CountsEachOnceHolds`: a row stands, without repetition, for requests of its own key
  (`RowsOK`), so no request is in two rows; an identified request shares its key with no
  other (`NamedKeys`), and OpenRouter lists all requests anew with every pull, so a commit
  that replaces a row takes no request away (`ListsOK`).
* `HearsItsServerHolds`: while the client reads, its answer is still in the stream or its
  request unanswered, with the request's number (`AnswerComes`); and the answer to the
  start of a login comes before the notification of its end (`EndFollows`), so that what
  is passed over on the way to the one cannot be the other.
* `TokensReachTheirCallHolds`: a code is in the adapter's memory or with one call, never
  both; tokens are given only for a code that is with a call.

**LocalFiles_proofs**

* `CacheIsReplayHolds`: what a log has said is a function of its lines alone (`Replayed`,
  the entry after the first lines, given by the last totals and models before each
  line). Reading one more line changes an entry as it changes that function
  (`ReplayStep`); a read of any number of lines is a left fold, so by induction on its
  prefixes it ends where the function does (`FoldReplays`); and writing to a log does not
  change what its earlier lines said (`LinesAgree`).
* `ReportIsFreshHolds`: `SnapsOK` says of every snapshot in progress that each log it has
  found is still to be read, or has an entry that reaches what the snapshot must count, or
  says nothing before that point about the days of a report of today. Entries
  are dropped only for logs of the third kind (`DroppedSaysNothing`), and
  another snapshot's read only moves an offset forward. The report then lies between
  two sums that agree or grow log by log.
* `CommandsConvergeHolds`: the steps a command has left are the end of its list
  (`StepsInOrder`), and their number tells what is already in place (`SoFar`). What the
  user and the shell may edit in between (`Untouched`) undoes none of it; a fold over the
  widgets shows ours once, whichever lists were there before (`WithWidgetShows`).
* `OpensWithItsLogHolds`: unless a copy was cut (`torn`), a file is in both layouts only
  while it is being copied (`OnePlace`), a log is never in the new layout without its
  database (`LogFollows`, from the order of the moves), and a start that opens the
  database has left nothing behind.

**Views_proofs**

* `StreamedAsWholeHolds`: the last usage of two pieces of an answer is that of the second,
  or of the first if the second has none (`ParseOfPieces`); so the row of a named answer
  is, after every chunk, what its lines so far give at once (`RowsFollow`).
* `ShowsWhatIsHolds`: the reads a snapshot has left are the end of one fixed order, in
  which a connection's row comes before its figures (`ReadsRest`), so their number says
  which have been read. A stored figure is of the commit it was of when the last success
  was noted, or of a later one, for a commit replaces figures and takes none away
  (`StoredTogether`, `UpsertedFigures`); so a figure read after its row is no older than
  the row knew it (`SeenInOrder`).
  That the bar warns follows from the arithmetic of its percentage: rounding is monotone,
  so a ratio at or past a threshold is shown at or past it (`RoundedMonotone`,
  `QuotaWarns`).

**FoldTheorems** holds what these proofs need of the community modules' sums, folds,
`Max`, `Min` and `SetToSeq`, which are defined by recursive functions: that the
recursion has a solution, and from it what a sum without one element is, that sums of
naturals are monotone, that a sum over groups is the sum over their union, and what a left
fold does with the next element. Induction is over the *set* of the numbers, or of the
subsets of a finite set, that have a property; it follows from the well-foundedness of
the naturals and takes no operator as a parameter.

Only model-checked: the properties with fairness (`ReservationReleased`, `ForceReturns`,
`DueIsAttempted`, `AlertsConverge`). Their proofs would reason about ENABLED, which the
installed provers do not support.

## 6. Not modelled, and the plan

Left out for good: the translation of provider answers into windows and metrics beyond
what identifies a row, price tables, the forecast of the weekly quota, wording and layout
(pure data); telemetry (independent counters); the provider test kit; the CLI's other
commands and the desktop application (clients that send one request); the standard
adapter, which only validates a key; the programs outside the repository, which are
environments of the models.

Partly modelled: the repository's accounts, products, provider events, hourly rollups and
schema migrations are not; of the IPC server only the handlers that change state.

Next, in this order:

1. An abstract specification of the connection lifecycle, with the refinement proved as
   for `SyncLease` and `EventStore`.
2. A run of `AlertEngine` with two budgets/set calls and equal ratios, which needs a
   smaller evaluation.
3. Pure functions (`error_status`, pricing) against reference definitions.
