# TLA+ specification of the Runline backend

Runline judges programs: the API records an *attempt*, workers evaluate it in a
sandbox, the result is credited to the account, and a browser shows it. This
directory specifies the parts of the system where that can go wrong: the path of
an attempt through PostgreSQL, Redis and the workers, the execution of a suite on
a host, the maintenance scripts that run beside them, and the submission and
display of attempts. TLC checks the specifications, and TLAPS proves what matters
most of them.

    tlc -workers 4 -config MCPipeline_crashes.cfg MCEvaluationPipeline
    tlapm EvaluationPipelineProofs.tla

## 1. Inventory

Paths are relative to the repository; `runtime/` is `control_plane/runtime/`.

| Component | State | Operations | Interacts with | What makes it correct |
|---|---|---|---|---|
| Attempt lifecycle (`core/lifecycle.py`, `persistence/lifecycle.py`) | `lifecycle_events`, `attempt_projections` | `append`, `evolve`, `rebuild_projection` | called in every transaction of the API and the workers | dense numbering, one event per dedupe key, projection = replay |
| Attempt rows (`persistence/attempts.py`, `worker/service.py`) | `attempts.phase`, `processed_commands` | open, `claim_for_execution`, `persist_result`, `reset_after_worker_failure`, `mark` | lifecycle, credits | one result, for good, and the first one reported |
| Credits (`persistence/accounts.py`, `persistence/challenges.py`) | `completed_challenge_keys`, `accepted_count` | `record_challenge_completion`, `increment_accepted` | inside `_store_success` | each account counts once at each challenge |
| Outbox (`persistence/outbox.py`, `dispatch_outbox`) | `control_outbox` | `stage`, `next_batch`, `mark_published`, `mark_failure` | API writes, every worker dispatches | no command is marked that is not in the stream |
| Execution queue (`adapters/redis_queue.py`) | work stream, group, pending list, dead stream | `enqueue`, `reserve`, `ack`, `reclaim_stale`, `retry_or_dead_letter` | workers only | at least once; dead letters are decided |
| Evaluation worker (`worker/main.py`, `worker/service.py`) | nothing durable | `run_worker`, `process` | all of the above | no attempt is forgotten, every one is decided |
| Attempt intake (`use_cases/attempts.py`) | request keys | `create` | store, outbox | one attempt per request key |
| Accounts | handles | `get_or_create` | intake | one account per handle |
| Catalogue, seed, revisions (`scripts/seed_challenge_catalog.py`, `persistence/revisions.py`, `storage/bundle_archive.py`) | challenge rows, revisions, snapshots on disk | `seed`, `ensure`, `latest`, `snapshot_bundle` | intake and workers read | an attempt is judged by the content it was opened against |
| Projection rebuild (`scripts/rebuild_attempt_projections.py`) | projections | `rebuild` | races the workers | never loses an event |
| HTTP, contracts, presenters | none | reads, paging, phase names | store | shown data is consistent |
| Notifications (`adapters/notifications.py`) | none | `publish_attempt` | after the ACK | failure is harmless |
| Suite session, verdict policy, checkers (`execution_engine/core`) | per run | `execute`, `from_process`, `check` | sandbox | the verdict follows the first failing test |
| Linux sandbox (`execution_engine/platform/linux`, `core/sandbox.py`) | process, cgroup lease, deadline timer | `execute`, `observe`, `arm`/`cancel`, `attach`/`release` | kernel | nothing outlives a run; limits classify rightly |
| Web console (`web_console`) | list of attempts, poll timer | poll, open | HTTP API | a stale answer never hides an attempt |
| Challenge bank, tooling, wiring | generated data, constants | - | - | - |

The hard behaviours are the concurrency of workers (each is also a dispatcher
and a reclaimer), at-least-once delivery with two kinds of duplicates (the same
command again, and two commands of one attempt), crashes between any two calls,
calls whose effect survives a lost reply, and a visibility timeout that cannot
tell a slow worker from a dead one. `PROJECT.json` lists each hazard at its line.

## 2. Modules

    Lifecycle ── AttemptStore ─┬─ EvaluationPipeline ── EvaluationPipelineProperties ── MCEvaluationPipeline
    JudgingService             │         │                        │
       │              ExecutionQueue ────┘                        │
    ShownService ─ AttemptStoreProperties ────────────────────────┘
       │             ├── MCAttemptStore
       │             ├── AttemptStoreProofs ── ServiceProofs ─┬─ EvaluationPipelineProofs ── PipelineSafetyProofs
       │             │                                        └─ MaintenanceProofs
       │             └── ProjectionRebuild ─┐
       │            ChallengeRevisions ─────┴── Maintenance ── MaintenanceProperties ─┬─ MCMaintenance
       │                                                                              └─ MaintenanceProofs
       │
    AttemptIntake ─┐
    AttemptViews ──┴── AttemptConsole ── ConsoleProperties ─┬─ MCConsole
                                                            └─ IntakeProofs ── ConsoleProofs
    VerdictPolicy ── ProcessSandbox ── SuiteSession ── SuiteProperties ─┬─ MCSuite
                                                                        └─ SuiteProofs

**Lifecycle** holds the pure part: events, projection, the reducer `evolve`, and
`AppendEvent`, which is `LifecycleRepository.append` under the lock of the
attempt row. A history is `[events, projection]`, one for each attempt. A
command is named by its attempt and its retry index: `EvaluationCommand.retry`
derives the later delivery and run keys from the first ones, so the index
determines them, and the dedupe key (delivery key and suffix) becomes the pair
*(type, index)*.

**AttemptStore** is PostgreSQL: `row` (`attempts.phase`), `history`, `processed`
(`processed_commands`), `completed` and `acceptedCount` (the credits), `outbox`
and `published`. One action is one transaction, from the point where it takes
the lock of the attempt row to its commit. That is the right grain: every
transaction that touches an attempt locks its row first (the guarded `UPDATE` or
the `FOR UPDATE` of `append`), then the projection, account and challenge, in
this order, and holds the locks until it commits. (An `append` whose key is
already there takes no lock and does nothing; the log never shrinks, so it does
nothing at the point of the update that follows, either.) What it reads *before* the
lock, the look at `processed_commands`, is a step of its own in the pipeline.
`StoreSpec` is the most general client: any command that was requested may be
claimed, and any that was claimed may report, in any order and as often as the
client likes.

| Action | Code |
|---|---|
| `OpenAttempt` | `AttemptService.create`, from `add` to `commit` |
| `MarkPublished` | `mark_published` of a batch, with the commit of `dispatch_outbox` |
| `Claim` | `_claim` with `claim_for_execution` |
| `StoreSuccess` | `_store_success` after its first look |
| `StoreTerminalFailure` | `_store_terminal_failure`, likewise |
| `ResetForRetry` | `_reset_for_retry`, which has no first look |

**ExecutionQueue** is the use that `RedisExecutionQueue` makes of one stream and
one consumer group. Redis is external: what `XADD`, `XREADGROUP >`, `XAUTOCLAIM`
and `XACK` do is taken from the way the adapter relies on them. `stale` is the
set of pending entries idle for the visibility timeout. Only the evaluation
stream is modelled, since `create` is the one producer and sets that class.

**EvaluationPipeline** composes the two with the workers. `pc[w]` names the next
call worker `w` makes:

    dispatch -> copy* -> publish -> reclaim -> next
    next  -> check                     a reclaimed or a newly reserved entry
    next  -> dispatch                  nothing to do
    check -> claim | drop              _already_processed
    claim -> evaluate | drop           _claim
    drop  -> (return)                  ack of a duplicate
    evaluate -> store | fail           the suite, or an exception before its end
    store -> commit | ack              the look of _store_success
    commit -> ack | fail,  ack -> (return) | fail
    fail -> retry | terminal | deadLetter
    retry -> settle, terminal -> deadLetter -> settle, settle -> (return)

The exceptions of the code are control: one inside the `try` of `process` (a
failed evaluation, commit or ACK) leads to `fail`; one anywhere else leaves
`run_worker`, and is a `Crash`. A call that fails may or may not have had its
effect (`CopyFails`, `CommitFails`, `AckFails`); for calls outside the `try`
this is the step followed by a crash.

**JudgingService** is the abstract specification: an attempt is opened, started,
perhaps requeued, and finished once, and the first accepted one of an account at
a challenge is credited in that same step. It knows no queue and no retry.

**ShownService** adds what the API shows of it. `_snapshot` takes the phase of the
*projection*, and although the result in the row is final, that phase is not: a
fact that comes after the result (a late second result, or the reset after a
failed ACK) moves it. `FinishShown` shows a result in the transaction that gives
it; `ReportLate` is the later fact. The store implements this service too, with
`projected` its projections, and the API's readers are modelled on top of it.

**ProjectionRebuild** is `rebuild_attempt_projections.py`: one transaction that
reads the events of an attempt, then its projection, both without a lock, and
writes what the reducer makes of the events. SQLAlchemy writes the columns that
differ from what was *loaded*, and its flush takes the lock of the row because
`updated_at` always differs; `Merged` is that write.

**ChallengeRevisions** is `seed_challenge_catalog.py`, which docker compose runs at
every start: the working bundles that authors edit, the rows of challenges and
revisions, and the directories of the snapshots. A run is one transaction over
all bundles whose writes are seen at its commit, while what it does on disk
(`temp`, `artifacts`) is seen at once and stays after a crash. `bundle_manifest`
reads one file after another, and so does the copy. A digest *is* the content it
was computed from.

**Maintenance** composes both with `AttemptStore` on one database: an append waits
for a projection row that a rebuild has locked, a credit for a challenge row that
a seeding has locked, and `OpenHere` names the latest revision in the command.

**AttemptIntake** is `POST /attempts`, request by request: the refusals of `create`
in their order, the account, the look-up by request key, the flush of the insert
and the commit. What follows the commit is `ShownService`, whose attempts are
the requests that inserted them. `created_at` is taken before the insert, hence
`stamped`. A duplicate key shows at the *flush* of `add`, where nothing handles
it (the handler of `TransactionConflict` surrounds only `commit`): the client
that loses the race gets an error, not the attempt of the winner.

**AttemptViews** holds pure operators: the public names of phases, the rows of a
query (`Where`, a recursive function, since the provers cannot unfold `SelectSeq`)
and paging.

**AttemptConsole** is the browser. The challenge page keeps a list, which each
synchronisation replaces if it is of the latest generation, and polls by a timer
that the effect on `hasPending` starts and stops. The page of an attempt loads by
an interval that does not wait for its last load. The API answers a listing with
two statements, rows and then projections, and what it shows is the phase of the
projection; a result it showed may be withdrawn (`Withdraw` counts how often, up
to `MaxWithdrawals`). Requests may be slow, fail, or be given up while the API
goes on.

**VerdictPolicy** turns what was seen of a process into a verdict and the verdicts
of the cases into the result. **ProcessSandbox** is `ProcessSandbox.execute` with
all it owns: cgroup leaf, launcher, deadline thread, observer. The contestant's
process and the children it forks take their own steps, the kernel kills at
`memory.max`, the host may fail (`Fault`) and the worker may die (`Crash`). Under
bwrap the process that is launched and waited for is bwrap itself: it may fail
where the program would have begun (`JailFails`), it turns a signal into an exit
code, and what `wait4` counts need not include the program (`Counted`). A program's
CPU time is in two parts, with the children it waits for (`cpu`) and without them
(`away`); only the first is ever counted. Whether leaves are
used (`program.use_cgroup`) is a setting, which `settings.py` and docker compose
leave off. A program owns its work directory: it may remove the file of its
output, or put a pipe in the place of one (`pipes`), and whoever then opens or reads
that waits without a deadline (`CannotOpen`, `CannotRead`).
Several executions of one run key share a host, as the queue's redeliveries make
possible; they share the *names* of their leaves, `<run_key>.<test>`.
**SuiteSession** prepares the program and runs the cases in order until one is not
accepted.

| Step of a case | Code | What can go wrong there |
|---|---|---|
| `Allocate` | `_allocate_cgroup` | cgroups are off, the leaf exists, the host has none to give: no enforcement |
| `Launch` | `ProcessLauncher.launch` | nothing is started: `INTERNAL_ERROR`; the output of the case is a pipe: it waits |
| `Attach` | `attach`, then `arm` | the program has already worked or forked, or ended |
| `Observe` | `wait4`, peak, `fired`, `cancel` | the timer may be going off (`expiring`), and outlives `cancel` (`late`) |
| `ObserveFails` | the `except` of `execute` | arming or waiting raises: the group is killed, `INTERNAL_ERROR` |
| `Release` | `cgroup.kill`, `rmdir` | members survive, and the leaf with them |
| `Judge` | the rest of `_execute_case` | a checker fails, or raises; the output is gone, or a pipe |
| `Report` | `_summarize` and the clean-up | the clean-up raises and the result is lost |

The modules named **...Properties** state what is checked; the **MC** modules give
constants; those named **...Proofs** hold the theorems. Operators whose comment
begins with "Mutant" are plausible bugs that the properties are tested against; no
specification uses them. A few variables only remember: `torn`, `reseeded` and
`overlapped` (maintenance), `raced` (rebuild), `told` and `overtaken` (console),
`withdrawals` with the field `since` of a listed attempt (console; only the bound
`MaxWithdrawals` reads it), `oomKilled`, `unconfined` and `expiry` (engine). No
other guard reads them; `ran` is read where a file of the program is opened.

## 3. Runs

| Run | Instance | Checks | Shows |
|---|---|---|---|
| `store` (`MCAttemptStore.cfg`) | 2 attempts, one account and challenge, 2 executions each, 2 verdicts | `StoreTypeOK`, `ProjectionIsReplay`, `ProjectionIsCurrent`, `FirstResultStands`, `ProcessedMeansDecided`, `CreditsMatchResults`, `ResultsAreFinal`, `ImplementsService`, `ImplementsShownService` | the transactions are safe whoever runs them |
| `crashes` | 1 attempt, 2 workers, 3 executions (the default budget), 2 faults | `TypeOK`, `NoLostWork`, `SafetyInvariant` | accepted work is never lost while only dead workers lose entries, and why |
| `two_attempts` | 2 attempts, 2 workers, batches of 2, 1 fault | `NoLostWork`, `ImplementsService` | batches, concurrent dispatchers, colliding credits |
| `premature` | 1 attempt, 2 workers, 1 fault, entries may go stale under a live worker | `WorkIsKnown`, `DeadLettersAreDecided`, `ImplementsStore` | what holds even then, and why |
| `liveness` | 1 attempt, 2 workers, 2 executions, 2 faults, no symmetry | `EveryAttemptIsDecided`, `EverythingSettles`, `ImplementsFairService` | everything ends |
| `executions` (`MCSuite`) | 2 executions, up to 2 cases, 23 submissions, with and without bwrap and cgroups, 1 fault | `SuiteTypeOK`, `AcceptedIsEarned`, `BlameIsDeserved`, `LeafHasOneHolder`, `CasesLeaveNothing`, `ResultLostForAReason`, `EveryExecutionEnds` | what a verdict means, what is left of a case, and that every execution ends whose files stay files |
| `maintenance` (`MCMaintenance`) | 1 attempt, 1 challenge of 2 files, 2 seeders, 1 rebuilder, 3 script runs, 2 edits | `MaintenanceTypeOK`, `RevisionIsFaithful`, `ProjectionLagsOnlyAfterOverlap`, `CreditsSurviveUnlessReseeded`, `QueuedMeaningIsFixed` | what the scripts keep, and exactly when they do not |
| `console` (`MCConsole`) | 2 requests and submissions, with and without a key, a refused one, 1 restart, pages of 1, 2 overlapping loads, 1 withdrawn result, under fairness | `ConsoleTypeOK`, `KeyedRequestsAgree`, `ConflictMeansSiblingOpened`, `HiddenOnlyByStaleListing`, `ListingsKeepResults`, `ShownSettles` | one attempt per key; a list hides nothing without a reason and is never older than it was; the pages end up with what the API shows |
| `shown_result`, `lost_work`, `two_results`, `oom` | 1 attempt, or 1 execution | one documented claim each | the claim fails (section 5) |

**Bounds.** *Attempts.* Attempts share nothing but the credits and the order of
the queue; two with the same account and challenge make the credits collide, and
one is enough for what happens to a single attempt. *Executions.* Two give a first command, a retry and an
exhausted budget; `crashes` takes the default of three, where a retry is itself
retried. *Workers.* Two workers are the two parties of every race here (old and
new holder, two dispatchers, two duplicates). *Faults.* `MaxFaults` counts
crashes and failed calls; two faults reach a crash during the recovery from a
fault. Failed evaluations are bounded by the retry budget and are not counted.
*Batches.* `BatchSize` is 100 in the code; 1 forces several batches and 2 makes
a batch that is copied in part. *Verdicts.* `ACCEPTED` and one other tell apart all
that the properties do; the reducer and the guards treat all others alike.

*Submissions* (`MCSuite`). A unit of CPU time or memory is the limit, so that 1
is within it and 2 beyond; the programs are those that hang, fork, fail, take too
much of either, answer wrongly, remove their output or put a pipe in the place of
a file, alone or after a good case, and each kind of checker and of preparation
occurs. Four of the submissions run without cgroups, as the system is shipped.
`oom` has the one program it is about. Suites of one case are delivered twice; a
second delivery of a longer suite meets the first in the same way at each case.
*Edits and files* (`maintenance`). Two files and two edits make a manifest and a
copy that mix old and new content; three script runs are two seeders and a
rebuild, or a script that is run again after what it did. *Pages* (`console`). A
page of one attempt is full with the first, so that listings cut off; two loads
overlap, and more only wait behind them. One attempt of the two may have a result
withdrawn, which gives a list that showed a result, one without it and one with it
again. `Verdicts` is empty, so that the one result is `INTERNAL_ERROR`: the console
treats all results alike.

**Fairness.** `liveness` assumes that a worker that is up keeps calling
(weak fairness of its next call: the loop of `run_worker` blocks at most a second
in Redis) and that time passes (weak fairness of `Expire`). Nothing is assumed
about the environment: crashes, failed calls and newly opened attempts need not
happen. Faults come to an end because they are bounded, which is the usual
reading of "eventually"; a crashed worker is started again, as its supervisor
does (`restart` in docker compose, or an operator).

That calls go on includes the evaluation itself, which is one step of the pipeline:
`executions` shows that it returns for every program that leaves its files
files, and a program that does not is outside what `liveness` shows.

`executions` assumes that a worker that lives goes on with its calls where
the host does not fail, that timers go off and that the kernel delivers their
signals, and nothing of the program: one that hangs is ended by its deadline. That
is a thread of the worker, armed before the wait. Opening and reading the files of
the case have no deadline, hence the condition on `pipes` in `EveryExecutionEnds`.
`console` assumes that timers fire and the API reads (weak), and that of answers
that come for ever some arrive (strong: a poll that always fails shows nothing).
Nothing is assumed of the judging, nobody has to submit or to stay on a page, and
what `ShownSettles` concludes is about what the API *shows* for good.

**Premature reclaim.** The visibility timeout runs from the last delivery and is
not renewed during an execution. `PrematureReclaim = FALSE` is the deployment in
which executions are shorter than it; `TRUE` allows it to pass at any time. The
store's guarantees (`ImplementsStore`, and what follows from it) and
`DeadLettersAreDecided` hold in both; `NoLostWork` and `SafetyInvariant` need the
first, and `lost_work` shows that they do.

## 4. What is proved

Every invariant and every safety property of a step that a passing run checks,
and the refinements without fairness, are also theorems: for every set of attempts,
accounts, challenges, workers, executions, scripts and requests, and for every value of
the bounds. What remains with TLC alone is liveness.

The assumptions are named where the constants are declared, and TLC evaluates
them in each run:

| Assumption | Why the code has it |
|---|---|
| `AccountOfAssumption`, `ChallengeOfAssumption` | an attempt row has one account and one challenge, and neither is ever updated |
| `VerdictsAssumption`, `VerdictsAreTerminal` | a result has one of the terminal statuses |
| `MaxAttemptsAssumption` | `queue_max_attempts` is 3 by default; any value below 1 would act like 1 |
| `BatchSizeAssumption`, `MaxFaultsAssumption`, `MaxCrashesAssumption`, `BoundsAssumption`, `PrematureReclaimAssumption` | bounds of the model are numbers, its switch is a Boolean |
| `PageSizeAssumption` | `page_size` is declared between 1 and 100 |
| `MaxWithdrawalsAssumption` | a bound of the model is a number, for each attempt |
| `SubmissionsAssumption`, `LimitsAssumption`, `IsolationsAssumption` | suites are finite, limits are numbers, and `resolve_isolation_mode` raises for any mode but two |
| `BundlesAssumption`, `VersionsAssumption`, `SeededAssumption` | the script writes nothing without a bundle, a file has a first version, and only seeding makes challenges |
| `ScriptsAssumption`, `RebuildersAssumption` | the mark of a free lock is nobody's name |

| Theorem | Statement |
|---|---|
| `StoreTypeCorrect` | `StoreSpec => []StoreTypeOK` |
| `StoreResultsAreFinal` | `StoreSpec => ResultsAreFinal` |
| `StoreProcessedMeansDecided` | `StoreSpec => []ProcessedMeansDecided` |
| `StoreFirstResultStands` | `StoreSpec => []FirstResultStands` |
| `StoreProjectionIsCurrent` | `StoreSpec => []ProjectionIsCurrent` |
| `StoreCreditsMatchResults` | `StoreSpec => []CreditsMatchResults` |
| `StoreProjectionIsReplay` | `StoreSpec => []ProjectionIsReplay` |
| `StoreImplementsService` | `StoreSpec => ImplementsService` |
| `StoreImplementsShownService` | `StoreSpec => ImplementsShownService` |
| `PipelineTypeCorrect` | `Spec => []TypeOK` |
| `PipelineWorkIsKnown` | `Spec => []WorkIsKnown` |
| `PipelineImplementsStore` | `Spec => ImplementsStore` |
| `PipelineImplementsService` | `Spec => ImplementsService` |
| `PipelineFirstResultStands` | `Spec => []FirstResultStands` |
| `PipelineProjectionIsReplay` | `Spec => []ProjectionIsReplay` |
| `PipelineDeadLettersAreDecided` | `Spec => []DeadLettersAreDecided` |
| `PipelineWorkIsSafe` | if `~PrematureReclaim`, `Spec => []SafetyInvariant` |
| `PipelineNoLostWork` | if `~PrematureReclaim`, `Spec => []NoLostWork` |
| `MaintenanceTypeCorrect` | `MaintenanceSpec => []MaintenanceTypeOK` |
| `RevisionsAreFaithful` | `MaintenanceSpec => []RevisionIsFaithful` |
| `QueuedMeaningStays` | `MaintenanceSpec => QueuedMeaningIsFixed` |
| `ProjectionsLagOnlyAfterOverlap` | `MaintenanceSpec => []ProjectionLagsOnlyAfterOverlap` |
| `CreditsSurvive` | `MaintenanceSpec => []CreditsSurviveUnlessReseeded` |
| `IntakeInvariantHolds` | `ConsoleSpec => []IntakeInvariant` |
| `RequestKeyIsHonoured` | `ConsoleSpec => []KeyedRequestsAgree` |
| `ConflictIsHarmless` | `ConsoleSpec => []ConflictMeansSiblingOpened` |
| `ConsoleInvariantHolds` | `ConsoleSpec => []ConsoleInvariant` |
| `ConsoleTypeCorrect` | `ConsoleSpec => []ConsoleTypeOK` |
| `HiddenForAReason` | `ConsoleSpec => []HiddenOnlyByStaleListing` |
| `ListingsAreNeverOlder` | `ConsoleSpec => ListingsKeepResults` |
| `EngineInvariantHolds` | `EngineSpec => []EngineInvariant` |
| `AcceptedMeansEarned` | `EngineSpec => []AcceptedIsEarned` |
| `OneHolderPerLeaf` | `EngineSpec => []LeafHasOneHolder` |
| `SuiteTypeCorrect` | `EngineSpec => []SuiteTypeOK` |
| `BlameAlwaysDeserved` | `EngineSpec => []BlameIsDeserved` |
| `NothingIsLeft` | `EngineSpec => []CasesLeaveNothing` |
| `ResultsAreNotLost` | `EngineSpec => []ResultLostForAReason` |

*Store* (`AttemptStoreProofs`, `ServiceProofs`). `AppendEvent` maps histories to
histories, so the types are inductive; each transaction changes the phase of a
decided row to itself, so results are final, and from this the processed marks.
`FirstResultStands` is
inductive with the types alone: an append adds at most one event at the end, and
the transaction that adds the first finishing event is the one that moves the
row to that result. `ProjectionIsCurrent` needs the numbering and the
projection's last sequence number together, since it is their equality that
makes `evolve` take the next event. `CreditsMatchResults` is strengthened by the
finiteness of `completed`, which the cardinalities need. For
`StoreImplementsService` the strengthening is `KnownIsOpen` (an attempt with an
event is open), which excludes a result for a row that does not exist; every
transaction is then `Open`, `Start`, `Requeue`, `Finish` or a stutter.
`StoreImplementsShownService` follows the projection as well. `FirstResultStands` says
that the row has a result exactly when the log has one, and `ProjectionIsCurrent`
that the projection shows the phase after the newest event; so before the result
an append shows `QUEUED` or `RUNNING`, the transaction that records the first
finishing event shows its verdict, and a row with a result goes with any later fact.

`StoreProjectionIsReplay` needs that a replay of a log with one more event is one
step of `evolve` after the replay of the log (`ReplayAppend`). `Replay` is a
`FoldLeft`, which the library defines as a function that a `CHOOSE` picks among
those on sets of positions that satisfy its equation. Three facts about that
equation give the lemma: it has a solution (`ReplayExists`), so what is chosen
is one (`ChosenReplay`); and two solutions, also for logs of different length,
agree on their common prefix (`ReplaysAgree`). Both are inductions over the
length. The library's induction rule takes an operator as parameter, which the
provers cannot instantiate, so it is replaced by the fact that a set of numbers
that is not empty has a least one (`LeastNumber`), and the hypothesis is a set.

*Pipeline* (`EvaluationPipelineProofs`). These theorems hold for any number of
workers and faults, any batch size and either value of `PrematureReclaim`. Their inductive invariant is
`TypeOK /\ WorkIsKnown`; neither part is inductive alone, since an entry has the
type of a command only because the retry budget was tested before the retry was
built, and that test is a fact about a worker's memory. `WorkIsKnown` says that
Redis and the memories are never ahead of PostgreSQL: every command in the
outbox or the stream has its request in the log, a worker past the claim has
its claim there, one that gives up is beyond the budget and one that enqueues a
retry is within it. The budget is tested by `process` (`Dead`) and again by
`retry_or_dead_letter` (`Exhausted`), which does not look at what was stored in
between; `BudgetsAgree` is where the two have to give one answer, and each of them
has a mutant that breaks a property. The proof first shows that each call of a worker is a
transaction of `AttemptStore` or leaves the store alone (`StepIsStoreStep`) and
a step of the queue (`StepIsQueueStep`). Since the log and the stream only grow,
what a worker knows stays true whatever the others do (`KeptEntry`), and each
action is left to show that it knows enough for its next call (`WorkIsReady`).
The store's theorems then hold of the pipeline because it implements the store.

*Dead letters and lost work* (`PipelineSafetyProofs`). Each call of a worker is
put in a class by what it does to entries and rows (`ReachesDecision`,
`MovesEntry`, `RowMoves` and their like), and each part of an invariant is then
shown for the classes instead of the calls. `DecisionInvariant` adds to
`TypeOK /\ WorkIsKnown` the processed marks and `DecidedSteps`: who is about to
acknowledge a success or to add a dead letter has a decided attempt, since a
step before it committed that, or found it done. Nothing of this depends on who
holds the entry, so it holds when entries are reclaimed too early as well.

`PipelineNoLostWork` does depend on it. Its invariant, `WorkInvariant`, is
`TypeOK /\ WorkIsKnown /\ SafetyInvariant`: an entry is in one memory only
(`ExclusiveHolding`, where `~PrematureReclaim` is used: what goes stale is in no
memory), a queued attempt has a row of the outbox or an entry that nobody is
about to acknowledge, a running one an entry whose holder has it claimed or is
sure to claim it. The proof follows one attempt through a step of one worker.
If the entry that stood for the attempt still stands, nothing is to be shown.
Otherwise the step is the one that releases it, and the transaction before it has
put another in its place: the copy of a command before its mark, the enqueue of a
retry before the ACK, the result before either.

*Intake* (`IntakeProofs`), the console included. `KeyedRequestsAgree` speaks of
committed rows; its strengthening, `IntakeInvariant`, speaks of the rows that a
transaction has inserted and not yet committed as well (`Held`), because it is
the wait for these that the constraint adds, and says that an accepted answer
names the request itself or a sibling. Siblings are the other members of a class
(`SiblingsAreAlike`), which gives the agreement of any two answers.

*Engine* (`SuiteProofs`). `EngineInvariant` follows what is known of a program
from its process to the result: `LeaderIsKnown` (a process that ended with code 0
ran its program, which ended by itself and was held to its leaf), `SeenIsKnown`
(what `wait4` gave is, outside bwrap, the CPU time of what was waited for, and the
memory was within the limit if the program was in its leaf from the start),
`CasesAreEarned` and `CasesAreInOrder` (one case after another, none after a
failure), and `OutcomeIsEarned`. Nothing is said of children that nobody waited for,
nor of CPU time behind bwrap: the observer does not see them (section 5). The
last steps of the argument are the reading of `Summary`: without a failure among
the cases, all of them are accepted. `OneHolderPerLeaf` needs only that a lease is
taken for a leaf that is not there and given back with it; two executions at the
same case then never hold it together.

`BlameAlwaysDeserved` turns it round, one cause for each verdict. Whatever ends a
process that is waited for is its program, the kernel for its memory, a bwrap that
failed, or a deadline that has fired by then (`LeaderIsBlamed`); the observer asks
the deadline after it saw the end, so a process that failed without the deadline
failed by itself, by the kernel or by bwrap, and one that is said to be killed by
the wall has a deadline that went off before the observer had reaped it
(`SeenIsBlamed`). It need not have been what ended it (section 5).
This needs to know where the timers of other cases are: one that is still armed or
going off is that of the case that is waited for, and a late one is of a case that
is no longer waited for (`TimersAreKnown`). An exception of the sandbox is the mark
of a failed host. `NothingIsLeft` has two halves. Under bwrap, a child lives no longer than the
process that forked it runs (`JailInvariant`). Otherwise a process that was confined
keeps its leaf in existence, and no other execution can take or remove that leaf
(`LeafRemains`); so what is left of a case sits in a leaf that is still there, and
with `LeafHasOneHolder` that is a host that failed. `ResultsAreNotLost` follows from the
same two: only a child disturbs the removal of the work directory, and a child that
outlives its cases was outside its leaf or is in a leaf that failed to go.

*Maintenance* (`MaintenanceProofs`). `MaintenanceInvariant` says of each script what
the lock it holds protects. A seeding between the load and the commit of a
challenge holds the lock of its row (`SnapshotIsGuarded`), so there is one snapshot
of it at a time, and what two runs have written does not meet; it has read what
the bundle is unless an edit came between (`SnapshotIsCurrent`), which is `torn`
when it is published. From this, revisions stay unique, have a directory, and
are what they are named after (`RevisionsAreKept`). No step writes to a directory
that a committed revision names, because a run copies only to a name that is not
there: that is `QueuedMeaningStays`. For the rebuild, what a run is about to write
waits under its lock (`ProjectionWriteIsGuarded`), so that an append cannot come
between the write and its commit, and it either restores the replay, keeps the
projection, or is marked `raced`; the appends of the workers go by
`ReplayAppend`. The credits are those of the store with the commit of a seeding
as the one other step that writes them.

*Console* (`ConsoleProofs`). `ConsoleInvariant` follows a listing from its request
to the screen. Its rows are of committed attempts, each once (`Distinct`), and a
result among them is what the API still shows unless that was withdrawn since it
was read (`Truthful`); what was known before the request is among them or the page
is full (`Complete`): this rests on the order of `created_at`, on the lemmas about
`Where` and `PageOf`, and on commits that are not undone. Results in the projection
are *not* final, so that a newer answer may well take one back. What is kept is the
order: of all requests under way only that of the latest generation can be shown,
its projections were read after those on the screen, and so each of its rows
follows the one it replaces (`NotOlder`): the count of withdrawals has not
decreased, and has increased if a result gave way. `HiddenForAReason` is the first
with what a submission adds to the list, `ListingsAreNeverOlder` the second.

**Only model-checked**: `EveryAttemptIsDecided`, `EverythingSettles`,
`EveryExecutionEnds`, `ShownSettles` and the fair refinement
`ImplementsFairService`, since they rest on fairness, and so on `ENABLED`, which the
prover does not expand. The properties of the four runs that expect a violation are
refuted there and are no theorems.

## 5. Where the documentation and the code differ

* **A shown result can be withdrawn** (`shown_result`). The ACK is inside the
  `try` of `process` (`worker/service.py:102`); if it fails after the result was
  stored, `_reset_for_retry` appends its two facts without a look at the row, and
  the projection says `QUEUED` for good while the row is decided. The state
  diagram has no way out of a terminal state.
* **A slow worker can cost an attempt** (`lost_work`). Both holders of a
  reclaimed entry acknowledge the same entry. If the one that is refused the
  claim does so and the other crashes, the attempt stays `RUNNING`.
* **Two results** (`two_results`). A crash between the enqueue of a retry and the
  ACK leaves two deliveries under different keys. Both may complete; the row
  keeps the first verdict (as proved), the projection shows the last.
* **A kernel kill for memory is a runtime error** (`oom`). The observer always
  says `killed_by_oom=False` (`platform/linux/resources.py:60`), and the peak of a
  leaf never exceeds its limit, so the signal decides: `RUNTIME_ERROR`, where
  `docs/LIMITS.md:21` has `MEMORY_LIMIT`.
The models have three more, which a property names as a cause or an excuse, so that
no run of its own refutes a claim:

* **CPU time of children is free.** `wait4` counts the process and the
  children it waited for (`platform/linux/resources.py:36-37`); `cpu.stat` of the leaf is
  not read and `cpu.max` not set. A leased program whose other children exceed the
  budget can be `ACCEPTED`, where `docs/LIMITS.md:22` has `TIME_LIMIT` for an enforced
  excess. `AcceptedIsEarned` promises the budget for `cpu` only, never for `away`.
* **A program that finished can be over its time.** The observer asks
  the deadline after the process is reaped (`resources.py:47-49`) and cancels it later
  still, so a deadline that goes off after a success wins over the exit code, where
  `docs/LIMITS.md:24` has `ACCEPTED`. `BlameIsDeserved` admits a `TIME_LIMIT` for a
  deadline that found the process ended (`expiry`), and for nothing later than that.
* **A failure of the host is a result.** `session.py:93` makes an
  `INTERNAL_ERROR` of every exception of the sandbox, and the worker stores the suite
  as it is; `README.md:338` of the repository has the attempt back in `QUEUED`.
  `BlameIsDeserved` says what an `INTERNAL_ERROR` may come from, not that it is retried.

Not contradictions, but worth knowing, as the models behave this way: a program
that puts a pipe in the place of its output or error file holds its worker for
ever, since opening and reading have no deadline; one that removes its output is
given `INTERNAL_ERROR` by the token checker; a bwrap that starts and fails is a
`RUNTIME_ERROR` of the program; g++ that is missing or slow is a `COMPILATION_ERROR`, and so is a
language without a preparer; a checker that fails, or that the bundle misnames,
is a `WRONG_ANSWER`; seeding sets the solver count of a challenge back
(`CreditsSurviveUnlessReseeded`); a bundle that returns to an older content keeps
judging by the newest number; a rebuild that overlaps a worker can leave a
projection behind its log until the next one (`raced`).

## 6. Not modelled, and the plan

One thing is one step here although the code has several.
`AppendEvent` is atomic: `append` locks the attempt row before it looks at the log a
second time, takes the number and writes, and every other writer of the log or the
projection waits for that lock (the rebuild takes none, and is therefore a process
of its own in `ProjectionRebuild`); what the lock protects is shown, that PostgreSQL
keeps it is assumed.

Left out: the contents of reports and previews, error texts and times; `MAXLEN` trimming; entries
without a command field; the interactive stream; the publish after the ACK; reuse
of process ids (a late kill of the deadline reaches what is left of its own
group); `pids.max`; several hosts (leaves and processes are of one); the browsing
of the catalogue, the views of accounts, the timeline and the download of
sources, which are reads of one statement; the queue page, the explorer and the
dashboard of the console; get_or_create of accounts under races (it is called for
one handle, before the first request); configuration and wiring; the generated
challenge bank and its sequential tooling.

What is left of the plan: a command that always crashes its worker, and a stream
that is trimmed. Both lose work by design at a limit of the deployment; a model
of them would say what is lost and how an operator can tell.
