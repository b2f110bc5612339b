# Verification of cpa-plugin-zai-coding-plan

TLA+ specifications of the plugin's stateful parts, the TLC models that check
them on small instances, and TLAPS proofs. Paths below are relative to the
repository root. `PROJECT.json` maps every definition to the lines it models.

## 1. The system

The plugin runs inside a proxy host, which calls it from many threads: it
configures the plugin, asks it to pick an account for a request, reports usage,
forwards management requests and shuts it down. A coordinator hosts two
provider modules, `zai` and `opencode-go`.

| component | state | operations | what makes it correct |
|---|---|---|---|
| ABI glue (`src/`) | one Coordinator | decode and forward | nothing of its own |
| Coordinator, registry (`internal/coordinator`) | modules, registry auth id -> provider, `stopped`, `lastErr`, a wait group of reconfigures | reconfigure, pick, handleUsage, management, shutdown | requests reach the module that owns the account; the registry is built and swapped as a whole; nothing runs after shutdown |
| zai runtime (`internal/providers/zai/runtime.go`) | the live snapshot (accounts, quota, health, store, generation), persistence numbers, five wait groups, four mutexes | reconfigure, handleUsage, pollAccount/pollOnce, persistState, shutdown | acknowledged usage is not lost; stale polls and stale writes change nothing; one set of pollers; ordered shutdown |
| zai management (`management.go`) | the current refresh | forceRefresh, unblock, updateAccountConfig | refreshes coalesce and end; live settings are the stored ones; unblock erases no usage |
| zai settings store (`settings.go`) | settings.json and its recovery marker, state.json | recoverSettings, saveSettings, loadStateAt, saveState | an update is in effect or not whatever interrupts it; recovery always succeeds |
| secure store (`internal/securestore`) | a directory handle | ReadJSON, WriteJSON, RemoveJSON, Flush, Close | write by rename; the error says whether the rename happened |
| zai health, failures (`health.go`, `failures.go`) | per account: suspension, exhaustion, throttle | classify a failure, throttle, exhaust, assess | a longer block is not shortened by a weaker signal; bursts do not exhaust |
| zai scheduler (`scheduler.go`) | cursors and sticky sessions | pick | only healthy accounts; a lane is lost only for cause |
| zai windows, credits (`windows.go`, `credits.go`) | events and dedup hashes | addEvent, compact, view, estimate | exhaustion and resets agree with the exact sums; a record is charged once |
| zai quota, config, accounts | none | fetch and parse | outcome only: an answer or an error |
| opencode-go (`internal/providers/opencodego`) | accounts with three quota windows | Reconfigure, Pick, HandleUsage, poll, Close | an authoritative block is kept until it resets |
| deploy, `.github/scripts`, abiclient | - | - | separate programs and test support |

Interaction: the coordinator calls module methods from host threads. Inside the
zai module host calls, one poller goroutine per enabled account and the workers
of forced refreshes share the snapshot under `mu`; commits and shutdown are
ordered by `pollersMu`, writes of state.json by `persistMu`, and the settings
file by `settingsMu`. A poll sends its request with no lock held, so a
reconfigure, an update or a shutdown may happen before its answer is applied.

What is hard: commits that race usage, polls, updates and shutdown; numbered
persistence snapshots written out of order; writes that fail before or after
the rename; crashes between the writes of the settings commit; followers of a
refresh whose leader is cancelled. The full list, line by line, is under
`hazards` in `PROJECT.json`.

## 2. Modules

| module | models |
|---|---|
| `SettingsRegister` | what the settings store promises its callers: one register |
| `SettingsStore` | saveSettings and recoverSettings write by write, with faults, crash and power loss |
| `SettingsStoreProofs` | the theorems about `SettingsStore` |
| `ZaiRuntime` | the life cycle of pluginRuntime: locks, wait groups, pollers, persistence |
| `ZaiRuntimeTypes` | the records of `ZaiRuntime`, its base invariant, and what each step does to them |
| `ZaiRuntimeProofs` | the theorems about types, ledger and store handles of `ZaiRuntime` |
| `ZaiLifecycleProofs` | the theorems about its pollers, refreshes, settings and shutdown |
| `ZaiPersistenceProofs` | the theorems about acknowledged and lost usage |
| `QuotaWindows` | ledger, windows, prices, threshold, quota answer (operators) |
| `AccountHealth` | blocks, throttle, capacity, failure classification (operators) |
| `ZaiRouting` | what usage, polls, picks, unblocks and restarts do to the accounts over time |
| `ZaiRoutingProofs` | the theorems about `ZaiRouting`, with the lemmas on the operators it uses |
| `OpenCodeGo` | the opencode-go module |
| `OpenCodeGoProofs` | the theorems about `OpenCodeGo` |
| `Coordinator` | the coordinator on concurrent host threads |
| `CoordinatorProofs` | the theorems about `Coordinator` |
| `MC...` | symmetry sets and values for TLC |

How they fit. `Coordinator` uses the two modules through their contract.
`ZaiRuntime` and `ZaiRouting` are two views of one module: the first has every
lock and interleaving and of an account only what must not be lost, the second
runs handlers whole and has the account in full. `ZaiRuntime` uses the settings
store through its register: the variable `settings` is the register of each
directory, and `SaveSettings` has exactly the outcomes that `SettingsStore`
shows the code to have, the rejected update that is applied included.

### SettingsStore

`dir` is the directory as system calls see it, `durable` the set of directories
a power loss may leave. A write replaces a file by rename and syncs the
directory. It may be refused (nothing happened), be renamed with a failed sync
(`unsynced`; the code calls it WriteNeedsRecovery), or be renamed and synced
with a failed trailing directory check (`late`; a plain error). With `Ordered`
a power loss keeps a prefix of the renames, as a journalling file system does;
without it each file keeps any content it had since the last sync.

Each write, flush and removal of `saveSettings` is an action (`Stage`,
`Prepare`, `PrepareFlush`, `Commit`, `CommitFlush`, `Clear`), each case of
`recoverSettings` another (`RecoverUnreadable`, `RecoverClean`,
`RecoverMismatch`, `RollForward`, `DropMarker`). `Crash` and `PowerLoss` may
fall between any two. A content stands for its own digest. Reads share the step
of the write that uses them: the caller holds `settingsMu`, so nothing comes
between. `promise` and `base` are history variables.

### ZaiRuntime

`mu` is the atomicity of an action; the other three mutexes are held across
actions and are the variable `lock`. Each host call is an element of a set of
callers (`Reconfigurers`, `Updaters`, `Usage`, `Refreshers`, `Unblockers`,
`Stoppers`) that runs one operation once, with its place in `pc` and what it
carries in `local`. Pollers and refresh workers are in `work`. A wait group is
the set of callers or workers between its Add and its Done (`Busy`).

| code | actions |
|---|---|
| reconfigureWithAccounts | BeginReconfigure, RejectReconfigure, LockSettings, LoadStaged, then the commit |
| updateAccountConfig | BeginUpdate, LockSettings, CloneLive, RejectUpdate, then the commit |
| commitSnapshotAfter | LockPollers, LockPersist, AbortCommit, Publish, Retire |
| handleUsage | LockUsage, DropUsage, ApplyUsage, WriteUsage |
| pollAccount, pollOnce | StartPoll, StopPoller, DropAnswer, ApplyAnswer, LockPoll, WritePoll |
| forceRefresh | JoinRefresh, LeadRefresh, EndRefresh, FollowRefresh, HangUp |
| unblock | unblock |
| shutdown | BeginShutdown, JoinShutdown, WaitGroup, LockFinal, FinalWrite, FinishShutdown, FollowShutdown |

Abstraction. Of an account the model keeps the set of usage records counted,
the stamp of the last authoritative poll, whether it is exhausted by a 429
(`blocked`, which is persisted) and the persistence warning. Of its settings it
keeps the disabled flag. Time does not pass: what it does to an account is
`ZaiRouting`. Each usage record is delivered once.

### QuotaWindows, AccountHealth, ZaiRouting

`QuotaWindows` has the ledger and windows of `windows.go`, the prices of
`credits.go` and the parsed answer of `quota.go` as pure operators;
`AccountHealth` the blocks, the throttle ladder and the classification of
`health.go` and `failures.go`. `ZaiRouting` puts them to work: `HandleUsage`,
`Poll`, `Pick`, `managementStatus`, `unblock` and `Restart` each run whole,
their save included, and `Tick` moves the clock between them.

- A poll is asked at `t` and applied now; answer and capacity are stamped `t`,
  as in `pollOnce`.
- A report is its status, whether its code is one of the request-rate codes, a
  hint and a usage record. A record stands for its hash.
- `saved` is state.json after the handlers that save. `Restart` loads it with
  the configured plans: throttles are gone, blocks and the answer come back.
- `PickAnswer` is what `pick` answers. Which of the healthy accounts the
  rotation or the session hash takes is left open.
- `told` and `evicted` are history: the longest block of each kind the account
  was told of, and the records whose hash the bounded filter has dropped.

The sums and resets are checked against definitions of their own (`Used`,
`Reaches`, `Spent`), written without rounding steps and saturation.

### OpenCodeGo

One mutex is the atomicity of an action. `Status` drops it while it polls, so
it is `BeginStatus`, `ApplyPoll` and `ReportStatus`; a reconfigure or `Close`
may come between, and the answer is merged into the account that has the name
then. A 429 carries the time of its request, so usage arrives late and in any
order. `parseConfig` and `buildState` keep every reason to refuse a
configuration. The model has one window kind where the code has three: nothing
in the code relates two kinds, but that each must be below the threshold.

### Coordinator

A call of the host is a process whose steps are the points where it takes or
leaves the lock or enters a module.

| code | actions |
|---|---|
| reconfigure | BeginReconfigure (with Admit), ReconfigureModule, Collect, SwapRegistry, FinishReconfigure; Fail ends it early |
| a request that does not decode | RejectUndecodable |
| pick | BeginPick, RecognizeNext, Decide |
| handleUsage | LookUp, HandleUsage |
| shutdown | BeginShutdown, WaitReconfigures, CloseModule |

A module is the auth IDs it owns and whether it is closed; each of its methods
is one step, as the contract in `internal/providermodule` has it, and
`ModulePick` is what `ZaiRouting` and `OpenCodeGo` show a `Pick` may answer.
`alone`, `steady`, `due` and `settled` are history: whether a reconfigure was
overlapped by another, which modules a pick has concerned since it began, which
owner a usage record is due to, and how the last reconfigure that changed a
module ended.

## 3. Runs

| run | instance | checks |
|---|---|---|
| `settings_ordered` | 3 contents, all faults, ordered disk | TypeOK, RecoveryNeverStuck, AckedSurvives, refinement of the register |
| `settings_sync_faults` | 3 contents, failed syncs, a disk that may reorder | AckedSurvives, RejectedStaysRejected |
| `settings_rejected` | 3 contents, refused and late faults | RejectedStaysRejected: violated, see findings |
| `zai_persist` | 2 accounts, 2 reconfigures, 2 usage records (one a 429), unblock, a poll, failing writes and requests | DiskKeepsAcked, LiveKeepsAcked, LossIsFlagged, LedgerMonotone |
| `zai_settings` | 2 accounts, 2 directories, 2 reconfigures, 2 updates, a poll, failing loads and saves | TypeOK, PublishedSettings, PollersMatchSnapshot, LiveHandleOpen, NoHandleLeak, DisabledNotPolled |
| `zai_shutdown` | 1 account, 2 directories, 2 reconfigures, an update, a 429, unblock, 2 shutdowns, a poll, failing writes and closes | QuietAfterShutdown, FinalStateOnDisk |
| `zai_live` | 1 account, 2 reconfigures, 2 refreshes with clients that leave, a poll, shutdown, with fairness | RefreshesCoalesce, ShutdownReturns, SupersededPollersEnd, RefreshReturns |
| `zai_close_fails` | 1 account, 2 directories, 2 reconfigures, failing closes | FailedReconfigureNotLive: violated, see findings |
| `zai_routing` | 3 accounts (one disabled, one only throttled), 5 ticks, 4 inputs of 10 reports, 3 answers, unblock, restart; any picks | TypeOK, SavedStateLoads, PickAvoidsBlocked, LossIsJustified, EstimateResetExact, CountedOnce, PlanFollowsAnswer |
| `opencode_go` | 4 good and 5 bad configurations of 2 accounts, 429s and polls over 3 ticks, 2 status calls | TypeOK, PickAvoidsAnnounced, NoCapacityJustified, PollsSpaced |
| `opencode_go_reported` | the same | PickAvoidsReported: violated, see findings |
| `coordinator` | 2 overlapping reconfigures, an account that moves between the modules or is claimed by both, picks, usage, shutdown, with fairness | TypeOK, NeverSilentFallback, NeverBlendsDomains, DrainedBeforeClose, UsageReachesOwner, PartialFailureReported, ShutdownCloses |

Bounds. `SettingsStore` and `Coordinator` need none: their state is finite, so
calls, faults and crashes repeat without limit. Three contents tell the
previous, the desired and an older content apart; two reconfigures are what can
overlap pairwise, and the proofs cover any number of threads. In `ZaiRuntime`
each caller runs once, so the sets of callers bound the run, and `MaxPolls`
bounds the background polls. Two reconfigures give a commit that supersedes
another; with two directories they cover both the kept and the replaced handle;
two writers suffice for a stale write. A refresh that ends after a reconfigure,
while the refresh of the next generation runs, needs two of each.

In `ZaiRouting` the constants keep the order of the code's (five hours < week <
retention, base <= cap of the backoff) and are small enough that within
`MaxTime` windows roll, throttles decay, blocks end and answers go stale.
`MaxInputs` = 4 is what a streak of `MaxThrottles` + 1 with a later success, or
a record evicted from a filter of two and delivered again, takes. Picks, status
requests and the clock are not counted. In `OpenCodeGo` resets and cooldowns
differ by a tick so that one may end before the other, and `MaxConfigs` = 2
covers what is and what is not carried forward.

Deadlock is checked in every run: the models always allow a further call or, in
`ZaiRuntime`, end in `Quiescent` only.

Fairness. `ZaiRuntime` (`FairSpec`): while some goroutine can run, some
goroutine is run. That is less than Go's scheduler and mutexes give, and
enough, as every call is made once and polls are bounded. It does not include
the start of a call, a client that leaves, or the next poll of a poller that
sleeps; a request in flight ends because it has a timeout. `Coordinator`
(`FairSpec`): a reconfigure or shutdown in progress keeps running; no call need
ever begin. `ShutdownCloses` is stated as `[]<>`: the flag is never reset.

### Findings

- `settings_rejected`: an update that fails after its desired marker is renamed
  and synced (the trailing check of WriteJSON), or whose marker cannot be
  removed after settings.json was committed, is reported as failed and not
  published, and recovery applies it later. The comment in `saveSettings`
  wants such an update to be pending. With failed syncs alone a rejected update
  stays rejected (`settings_sync_faults`, `RejectedStaysRejectedAlways`).
- `zai_close_fails`: a reconfigure that cannot close the superseded store
  returns an error after it published its snapshot, and closes the store that
  snapshot uses. The module contract says that on error the previous
  configuration stays in effect. The properties of handles are therefore
  checked with closes that succeed.
- `opencode_go_reported`: a weaker 429 on a window that a poll found exhausted
  leaves the block but adds its own short cooldown; when that passes,
  `refreshWindows` erases the block too, and the account is picked before the
  reset the poll reported. The comment on `mergeWindowSignal` says a weaker 429
  can never clobber such a block. For resets announced by a 429 it holds
  (`PickAvoidsAnnounced`).

`reconfigure` is not atomic over the modules: when a later one rejects its part,
the earlier ones keep theirs under the old registry, although the architecture
document says an invalid reconfiguration retains the last valid snapshot. The
model does the same; `PartialFailureReported` says the status reports it until
another configuration is installed.

## 4. Proofs

`SettingsStoreProofs` proves, for every set of contents and every subset of the
faults:

| theorem | assumption | states |
|---|---|---|
| `TypeCorrect` | - | TypeOK |
| `AckedSurvivesAlways` | - | AckedSurvives, in either disk model |
| `RecoveryNeverStuckAlways` | Ordered | RecoveryNeverStuck |
| `StoreImplementsRegister` | Ordered | every behaviour is one of SettingsRegister |
| `RejectedStaysRejectedAlways` | the only fault is a failed sync | RejectedStaysRejected, in either disk model |

The only assumption on the constants is `SettingsAssumption`. AckedSurvives is
not inductive: that an acknowledged content survives depends on what the marker
and settings.json are at each point of the call. The inductive invariant `IInv`
adds `AtPC`, what the directory is at each control point (at `commit` the only
durable marker names the desired content, and so on), and `Promised`, that
every content a marker or settings.json may name is one the history allows. For
the ordered disk, consistency of every possible directory is preserved given
`IInv`, and the refinement shows each write to be a silent step, a settling
sync or the update taking effect.

`Ordered` is needed: recovery ignores a failed sync of settings.json before it
removes the marker, and a disk that reorders these may leave a later marker
that matches nothing. No run or theorem claims RecoveryNeverStuck there.

`CoordinatorProofs` proves, for every number of host threads and every set of
auth IDs, configurations and requests, from `CoordinatorAssumption` alone (two
distinct modules, each of whose parts is invalid or a set of auth IDs):

| theorem | states |
|---|---|
| `CoordinatorTypes` | TypeOK |
| `NeverSilentFallbackAlways` | NeverSilentFallback |
| `NeverBlendsDomainsAlways` | NeverBlendsDomains |
| `UsageReachesOwnerAlways` | UsageReachesOwner |
| `PartialFailureReportedAlways` | PartialFailureReported |
| `DrainedBeforeCloseAlways` | DrainedBeforeClose |

None of them is inductive. `IInv` adds what ties the calls together:
`Draining`, that a shutdown past its wait met an empty group which the flag
keeps empty; `Solitude`, that a reconfigure nobody overlapped is the only one;
`Collected` and `Agreement`, that what such a reconfigure has collected is what
the modules own, so that its swap makes registry and modules agree until the
next one changes a module (`Dirty`); `Reported`, that nobody who could clear
the error of a failed reconfigure is left; and per call `PickInv` and
`UsageInv`, that a module concerned throughout has recognized the request once
asked and that a usage record is on its way to the owner it is due to. There is
one lemma per action, and `WatchKeeps` for the history that accompanies every
change of a module.

The proofs about `ZaiRuntime` hold for every set of callers of each kind, every
finite set of accounts, every set of directories and every bound on polls. They
assume `RuntimeAssumption` and `NamesAssumption`: a call is of one kind, and the
names of calls, workers, generations and refreshes are not confused.

| theorem | assumption | states |
|---|---|---|
| `RuntimeTypes` | - | TypeOK |
| `LedgerMonotoneAlways` | - | LedgerMonotone |
| `DisabledNotPolledAlways` | - | DisabledNotPolled |
| `NoHandleLeakAlways` | - | NoHandleLeak |
| `LiveHandleOpenAlways` | no failed close | LiveHandleOpen |
| `PollersMatchSnapshotAlways` | - | PollersMatchSnapshot |
| `RefreshesCoalesceAlways` | - | RefreshesCoalesce |
| `PublishedSettingsAlways` | no failed save that took effect | PublishedSettings |
| `QuietAfterShutdownAlways` | - | QuietAfterShutdown |
| `FinalStateOnDiskAlways` | - | FinalStateOnDisk |
| `DiskKeepsAckedAlways` | - | DiskKeepsAcked |
| `LiveKeepsAckedAlways` | - | LiveKeepsAcked |
| `LossIsFlaggedAlways` | - | LossIsFlagged |

The two assumptions are the faults of the findings `zai_close_fails` and
`settings_rejected`: with a close that fails the live store is closed, and with
a save that fails after it took effect the directory is ahead of the snapshot.
All other faults are allowed in every theorem.

All of them rest on one inductive invariant, `Base`:

- `Typed`, the records of the state;
- `Locked`, which call holds which mutex at which program point, so that two
  commits are never past `settingsMu` together and no record is admitted while
  another waits to be written;
- `Calls`, what a call knows at each program point: a staged update is of the
  live snapshot, a staged reconfigure has its own open handle, and a commit that
  has published is followed by no other before it retires the snapshot before;
- `Live`, `Working`, `Numbered`: the live snapshot has a store whose opener has
  published it, workers poll enabled accounts of no later generation, and no
  copy has a number that was not given out;
- `Bounded`, that the generation counts the commits that published and the
  clock the polls that were made. This is what keeps both in the finite ranges
  of the model however many callers there are, so the bounds cut off nothing.

On top of it each group of properties has its own strengthening. `HandlesKept`
says who is responsible for each open handle. `Polling` ties the pollers to the
generation whose cancel function is installed, and says between publish and
retire which generation is still to be stopped. `SettingsStaged` says that a
staged snapshot already agrees with the settings it will publish with. `Draining`
says that there is one first shutdown and that the groups it has waited for stay
empty. `UsageKept` is the largest: for every numbered copy that is still carried
by a call or a poll and may yet be written, it says what the write would leave
on disk (`CopiesCount`, `CopiesFlag`), that the copy of an admitted record is
newer than the last one written (`Writing`), that a copy goes to the store it
was taken from (`Addressed`), and that a snapshot staged for another directory
is what that directory holds (`StagedFromDisk`). Without it, that a late write
does not undo a newer one is not an induction step. There is one lemma per group
of actions that can disturb a conjunct and one for all the others.

`ZaiRoutingProofs` proves, for every set of accounts, plans, prices, reports and
answers, and for every window length, retention, filter size, throttle ladder,
clock and number of inputs:

| theorem | assumption | states |
|---|---|---|
| `RoutingTypes` | - | TypeOK |
| `SavedStateLoadsAlways` | - | SavedStateLoads |
| `PickAvoidsBlockedAlways` | BackoffCap <= FallbackCooldown | PickAvoidsBlocked |
| `LossIsJustifiedAlways` | - | LossIsJustified |
| `CountedOnceAlways` | - | CountedOnce |
| `PlanFollowsAnswerAlways` | - | PlanFollowsAnswer |
| `EstimateResetExactUnlessSaturated` | an unused window is below the threshold of each bucket | Unsaturated => EstimateResetExact |

They rest on the assumptions that the modules name (`QuotaWindowsAssumption`,
`AccountHealthAssumption`, `ZaiRoutingAssumption`, `InputAssumption`): counts and
durations are numbers, the buckets of a plan are within the credit limit, and
reports and answers are of the shape their decoders produce. The fallback
cooldown is configurable, the cap on throttles is one minute. A fallback below
that cap breaks PickAvoidsBlocked: a throttle with a longer hint, once
escalated, is replaced by an exhaustion that ends before the hint.

`IInv` says of each account (`Sound`) how its health, ledger and plan relate to
history and to what is saved of it:

- `BlocksOK`: each block it was told of has passed, or its health still covers
  it; each block in its health has passed, or was told or earned; its streak is
  at most the number of distinct moments at which it was rate-limited. The last
  part needs one clause more, since a throttle in force absorbs a further 429:
  once it has ended, an earlier moment accounts for the streak.
- `LedgerOK`: events in order of time, none beyond the clock skew, each record
  once and known to the filter unless its hash was evicted, and an answer that
  was valid when it was given. It is claimed of the live and of the saved ledger
  alike, which is what makes `Restart` a step of the induction.
- `SavedOK`: what was saved covers every block that has not passed. Throttles are
  not saved; `Restart` clears them from what the account was told.

There is a lemma, or a named step of one, for each operator (`AddEventPlace`,
`CompactKeeps`, `HashedOK`, `ThrottleEffect`, `RefreshHealth`, ...), and a lemma
per action. LossIsJustified also compares the estimator with the exact sums:
`EstimateExact` shows that the saturating running sum of `estimatedWindow` reaches the threshold of a bucket if
and only if the exact sum `Used` does, for every ledger. That is an induction
along the ledger. It is proved without the library's induction rule, from the
well-foundedness of < on the naturals: a set of positions that has 0 and is
closed under successor has no least element outside it (`Least`, `Induction`).

Every fact in scope slows every step, and the library's theorem modules are
large. So they are instantiated at the end of the module only, where `Counts`
proves the two facts that are needed of them: a nonempty set of naturals has a
least element, and how the size of a set of moments grows. The lemmas before
take these facts as the hypothesis `Counting`. The theorems discharge it, and
have no such hypothesis.

`EstimateResetExactUnlessSaturated` is about the reset that `estimatedWindow`
promises: it is after now, the window is below its threshold then, and at no
moment before. The argument (`ResetExact`) compares running sums. What
`Remaining` holds after the first i events is the use minus the sum of those
events (`RemainingExact`). Since events are in order of time, the window at the
reset has lost the events up to that place and gained none, and at any earlier
moment it still holds at least what `Remaining` held one place before
(`SumsCompare`), which reached the threshold.

Its two conditions are needed. `Unsaturated` says that no window uses more than
MaxCredits: a sum that saturatingAdd has cut forgets by how much, so that events
seem to leave it too early. And in a bucket of one or two credits the rounded
threshold may be reached with no use left, so that no event ends the
exhaustion; the code's buckets are at least one credit, counted in microcredits,
with a threshold of at least one percent (`config.go`), so it never meets this.

`OpenCodeGoProofs` proves, for every set of accounts, credentials, keys,
configurations, requests, answers and status calls, from `OpenCodeGoAssumption`:

| theorem | states |
|---|---|
| `OpenCodeGoTypes` | TypeOK |
| `PickAvoidsAnnouncedAlways` | PickAvoidsAnnounced |
| `NoCapacityJustifiedAlways` | NoCapacityJustified |
| `PollsSpacedAlways` | PollsSpaced |

`IInv` there relates each window to what the history says of it (a reset that a
429 announced is covered by the window until it passes or an accepted poll
replaces it; an exhausted window has a poll or a 429 to show for it), and each
status call in flight to the account it will be merged into, which a reconfigure
may have replaced meanwhile.

Only model-checked:

- liveness (`zai_live`, `ShutdownCloses`), which these provers do not reach;
- EstimateResetExact without those two conditions, of which the run's instance
  meets both: it does not hold for every value of the constants.

## 5. Not modelled

- Parsing of requests, responses and configuration, and account discovery: each
  reads one input and keeps no state. The models have the outcomes, and the
  control that follows from them.
- Rendering of status, dashboard and manifest, and routing of management
  requests by path: no state of their own; the manifest is never read back.
- The rotation and session hash of the zai scheduler: they choose among healthy
  accounts only, and no document promises an order.
- The poll schedule (backoff, jitter, failure counts) and a live reconfigure
  that changes plan defaults: see the notes of the hazards at
  `management.go:236` and `runtime.go:629`.
- Permission and path checks of the secure store, which appear as refused
  operations, and the stores of other platforms.
- Deployment scripts, release tooling, the ABI test client: separate programs.
