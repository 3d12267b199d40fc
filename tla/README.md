# Ghost in TLA+

A model of Ghost (`src/src/ghost`): the daemon, the file watcher, the debounced
job queue and the test pipeline; what they call, the provider behind its rate
limiter and pytest in a subprocess; the files they keep under `.ghost`; and the
commands of a user with the settings and the selection of files behind them. TLC
checks it on small instances, and TLAPS proves for every instance the invariants and
action properties that TLC checks, and the safety part of what the rest say of queue and
debouncer.

Ghost watches a Python project. A save becomes an event of the observer thread,
a debounced submission, a job of an asyncio worker pool, and a run of the
pipeline: read the source, generate a test unless there is one, execute it,
consult a judge or heal the test when it fails, and record the hash of the
source. A daemon does so in the background; commands start, probe and stop it
through a locked PID file, or run the pipeline themselves.

Contents: [1 Inventory](#1-inventory), [2 Modules](#2-modules),
[3 Runs](#3-runs), [4 Fairness](#4-fairness), [5 Proofs](#5-proofs),
[6 Findings](#6-findings), [7 Not modelled](#7-not-modelled),
[8 Plan](#8-plan).

## 1 Inventory

### Components, their state and their operations

| Component | State | Operations | What makes it correct |
|---|---|---|---|
| **debouncer** (`job_queue.py` `AsyncDebouncer`) | deadline and asyncio task per path, idle event | `submit`, `cancel`, the debounce loop and its cancellation handler, `wait_idle` | fires once per burst and only after the quiet window; loses no submission; idle event exact |
| **job queue** (`job_queue.py` `JobQueue`) | FIFO and its unfinished count, `_queued`, `_in_flight`, `_rerun_pending`, idle event, workers, running/stopped flags | `submit`, debounce callback, worker loop, `drain`, `start`, `stop` with timeout | one run per path at a time; no change forgotten; `drain` returns, and only when what it promises is done; `stop` returns |
| **daemon lifecycle** (`daemon.py`) | the name `daemon.pid`, the inodes behind it, their text and `flock`, the daemon and command processes | `acquire`, `release`, `run_daemon`, `is_daemon_running`, `start_daemon`, `stop_daemon`, `query_daemon_status` | one daemon; its file holds its PID and carries the name; `stop` reports the truth and signals nobody else; no lock is left behind |
| **test pipeline** (`pipeline.py`) | source, test file, recorded hash; the run's attempt, status, verdict | `run` and its helpers | heal budget; a verdict ends the run; the status is that of the last execution; a hash is recorded only by a run that completes; hand-written tests survive |
| **file watcher** (`watcher.py`) | observer thread, events posted to the loop, clean-up tasks, `_running` | event handler, `_process_file`, `_on_file_deleted`, `start`, `stop` | `hashes.json` and `context.json` follow the files; a stopped watcher is silent; every report is handled |
| **change tracker** (`change_tracker.py`) | `hashes.json` behind a lock of one process | `has_changed`, `mark_processed`, `remove` | no lost update; fails open |
| **history and usage** (`history.py`) | snapshots and metadata per source, `usage.json` | `record_attempt`, `get_records`, `rollback`, `record_call`, `record_success` | snapshots match metadata; rollback restores the baseline; counters add up |
| **language model client** (`client.py`) | none | generate, heal, judge; overwrite guard and header; the index made for a prompt | a test of Ghost is recognised, one by hand protected |
| **providers and retry** (`providers.py`) | HTTP client, key | `chat` with retries and back-off; `get_provider`, `is_available` | what may be retried is, a bounded number of times; the key agreed on is used |
| **rate limiter** (`rate_limiter.py`) | next free time, lock | `acquire` | calls keep the interval, whoever is cancelled |
| **test runner** (`runner.py`) | subprocess and its session | `run_test`, `_kill_process_group`, `classify_error` | timeout ends what it can; every run returns; blame is of a failure |
| **pytest plugin** (`pytest_plugin.py`) | failures by test, the report | `pytest_runtest_makereport`, `pytest_collectreport`, `pytest_sessionfinish` | the report is of tests that failed |
| **indexer** (`indexer.py`) | `context.json` | `walk_and_modify_json`, `walk_and_delete_json`, `get_project_files`, `budget_context` | entries follow the files; context within its budget, by priority |
| **configuration** (`config.py`) | `ghost.toml`, `.env`, the environment | `load_config`, `get_api_key`, `resolve_api_key`, `resolve_base_url` | precedence field by field; the same key everywhere |
| **command line** (`cli.py`) | none of its own | `init`, `watch`, `generate`, `rollback`, `index`, `prompt`, `models`, ... | exit codes tell what happened; hand-written tests survive |
| **console**, **prompts**, **errors** | none | output | – |

### How they interact

    editor ──save──▶ observer thread (watchdog)
                        │ call_soon_threadsafe
                        ▼                       event loop of one process
     FileWatcher: modified ─▶ JobQueue.submit ─▶ AsyncDebouncer ─on_ready▶ JobQueue._enqueue
                  deleted ──▶ clean-up task                                   │
                        │                                                     ▼
                        │                                worker: _process_file(path)
                        │            threads                │                │
                        ├──▶ hashes.json ◀── ChangeTracker ◀┼─ TestPipeline.run
                        └──▶ context.json ◀── indexer ◀─────┘    │  client ▸ rate limiter ▸ provider
                                                                 └─ runner: pytest subprocess
     ghost start/stop/status ──flock, signals──▶ daemon process (run_daemon owns a FileWatcher)
     ghost init ──▶ ghost.toml, .env      ghost generate ──▶ TestPipeline.run, one source at a time
     ghost rollback ──▶ HistoryTracker ──▶ the test file     ghost index, prompt ──▶ context.json

- *Shared state in one loop*: queue and debouncer share the event loop; between
  two awaits nothing else runs, and `JobQueue._lock` guards no await. So the grain
  of their modules is the segment from one suspension to the next.
- *Threads*: file operations run in `asyncio.to_thread`. They interleave with the
  loop and with each other, and cancellation of the awaiting task does not stop
  them.
- *Processes*: the daemon and the commands share nothing but files, `flock` and
  signals; the grain is the system call.

### What is hard

1. The same path is submitted while it is queued, in flight or about to be
   finished: run once more, never twice at once.
2. `drain` waits for three events in turn, each of which may be cleared before the
   waiter resumes.
3. `stop` interrupts timers, waiting and working tasks and a `drain` of its own.
4. The debounce task that `cancel` has taken out of the dictionary is still alive
   and cleans up by path.
5. A PID file can be unlinked between another process' `open` and `flock`.
6. A PID is readable under a lock before its owner has written it.
7. The pipeline reads a source, and seconds later writes, executes and records.
8. Two threads read, change and replace `context.json`.
9. Deletions run beside the pipeline of the same path.
10. `usage.json`, `hashes.json` and `meta.json` are replaced by processes that share
    no lock, and once without the lock there is; a snapshot and its record are two
    files.
11. A slot of the rate limiter is taken in one step and slept for in another; the
    sleeper may be cancelled, late, or retry.
12. Children of a test outlive pytest, ignore SIGTERM or keep its pipes.
13. A key comes from one of four places, and the wizard writes to one of them by
    looking for text in it.
14. Two sources can have the same test file, through generations, edits and
    rollbacks.

`PROJECT.json` lists each hazard at its line, with the properties that cover it.

## 2 Modules

| Module | Lines it stands for | State ↔ code | Actions ↔ code |
|---|---|---|---|
| `PathGuard` | the promise of the queue, no code | `pending`: changes no run has begun to cover; `busy`: who runs a path; `closed` | `Change`, `Begin`, `End`, `EndBegin`, `Close`, `Wind` |
| `AsyncDebouncer` | `job_queue.py` 66-135 | `deadline` = `_deadlines`, `task` = `_tasks`, `idle` = `_idle_event`; `path`, `pc`, `wake` are the asyncio tasks | `Submit`, `Cancel`; one turn of `_debounce_loop` is `Return`, `Sleep`, `Fire` or `HandleCancel` |
| `JobQueue` | `job_queue.py` 138-291 | the fields by name; `debouncing` = the debouncer's tasks; `wpc`/`wpath` the workers, `dpc` the callers of `drain`, `stopPc` that of `stop` | `Submit`, `Fire` (`_enqueue`), `Start`, `Take`/`Finish`/`Interrupt` (`_worker_loop`), `DrainCall`/`DrainResume`, `StopNow`/`StopDraining`/`StopDrained`/`StopTimeout`/`StopFinish` |
| `DaemonLock` | `daemon.py` 59-306, 380-448 | `link` = the name, `text`, `holder` per inode; `dpc`/`dfd` a daemon and `_fd`; `pc`, `cfd`, `cmd`, `stage`, `seen`, `peer`, `polls` a command | one per system call: `Open`, `Lock`, `Truncate`, `WritePid`, `WriteFails`, `Ready`, `ReleaseName`, `ReleaseLock`; `Probe…`, `ReadPid`; `Command`, `Spawn`, `StartupPoll`, `GiveUp`, `Signal`, `GracePoll`, `Kill`, `Finish`; `Terminate`, `ShutsDown`, `Die`, `Crash`, `Abort` |
| `Pipeline` | `pipeline.py` 148-624 | `source`, `author` of the test file, `hash`; `opts`, `snap` = `source_code`, `attempt`, `status`, `verdict` | one per await of `run`, see the comments; `Edit`, `Forget`, `Cancel` around it |
| `Watcher` | `watcher.py` 195-375, `indexer.py` 460-527, `change_tracker.py` 88-123 | `file`, `hash`, `index` on disk; `events` posted; `pc`, `copy`, `snap` of workers and cleaners; `running`, `stopPc` | `Edit`, `OnModified`, `OnDeleted`; `Take`…`RunPipeline` = `_process_file`; `RemoveHash`, `DeleteEntry`, `Deleted` = `_async_file_deleted`; `Start`, `Stop`…`QueueStopped` |
| `Stores` | `history.py` 80-355, `change_tracker.py` 60-123 | `store` = `usage.json`, `hashes.json` and `meta.json`; `snap` = the snapshots; `lock` = `_lock` of each tracker in each process; `pc`, `job`, `copy` a thread | `Begin`, `OpenSnapshot`, `WriteSnapshot`, `ReadStore`, `ReplaceStore`; `ChooseRecord`, `LoadSnapshot`, `RestoreTest` = `rollback`; `WriteFails`, `Crash` |
| `ProviderCalls` | `rate_limiter.py` 40-113, `providers.py` 120-280 | `next` = `_next_schedule`; `pc`, `due`, `attempt` a coroutine in `chat` | `Acquire`, `Send`, `Answer`, `Return`, `Cancel`, `Tick` |
| `TestRunner` | `runner.py`, `pytest_plugin.py` | `leader`, `code` = pytest; `alive`, `holding`, `stubborn` what its tests started; `failures` = `_GHOST_FAILURES`, `report` | `MakeReport`, `CollectReport`, `Fork`, `ChildEnds`, `SessionFinish`, `Die` in pytest and its tests; `Spawn`, `Finish`, `TimeoutStrikes`, `Terminate`, `Waited`, `Kill`, `Drained`, `CancelTask` in `run_test` |
| `Settings` | `config.py` 195-430, `cli.py` 162-226, `providers.py` 406-473, 775-822 | none: functions of environment, `.env` and `ghost.toml` | operators with the names of the functions |
| `SourceSelection` | `watcher.py` 92-174, `indexer.py` 321-384, 530-653, `pipeline.py` 110-145 | none: functions of a path, a set of files and an index | operators with the names of the functions |
| `Commands` | `cli.py` 187-1202, and what `pipeline.py`, `history.py` and `client.py` do for it | `env`, `dotenv`, `toml`; `files`, `tests`, `history`, `fresh`, `context` the project; `todo`, `opts`, `results` a `generate` in progress | one per command: `InitProject`, `Watch`, `GenerateOne`, `GenerateAll`, `RollBack`, `RollBackTest`, `Index`, `Models`, `Report`; one per source of `generate`: `Skip`, `Generate`, `GenerateFails` |
| `MC…` | – | instances for TLC (`DaemonLock` and `Stores` with their symmetry) | – |
| `AsyncDebouncerProofs`, `JobQueueProofs`, `DaemonLockProofs`, `PipelineProofs` (with `TestRunner`), `WatcherProofs`, `ProviderCallsProofs`, `StoresProofs`, `CommandsProofs` | – | theorems | – |

How they compose:

- `JobQueue` implements `PathGuard` (refinement mapping `pending <- Pending`,
  `busy <- Busy`, `closed <- stopped`; model-checked and proved). `Watcher` is
  built on `PathGuard`'s actions in place of the queue, so what holds of `Watcher`
  does not depend on how the queue does it.
- `JobQueue` sees the debouncer as the set of paths it holds, each of which fires
  in the end; `AsyncDebouncer` shows that of the debouncer itself
  (`QuietBurstsFire`, `NoLostSubmission`, `EntriesAgree`).
- `Watcher` sees the pipeline as: raise, or record what was read; `Pipeline` shows
  that a run has no other end. `Pipeline` takes one run at a time of one file,
  which is `JobQueue`'s `MutualExclusion`.
- `Commands` extends `Settings` and `SourceSelection`. It sees a run of the pipeline
  as what it can come to: skipped, a test of attempt n that passed or failed, or an
  error or interrupt at one of its four stages. It sees the history as sets of
  attempts, which `Stores` takes apart. The daemon that `start` and `watch`
  launch is `DaemonLock` and `Watcher`.
- `Pipeline` takes from `ProviderCalls` that a call ends (`CallsEnd`), and from
  `TestRunner` that a test run returns (`RunsReturn`), as fairness of its steps.

Variables commented *history* record what happened and guard nothing. `orphaned`,
`overlap`, `disturbed`, `missed`, `excused`, `collided`, `loose` and `late` mark the
circumstances in which the
code does not keep a promise; the promise is then stated with this exception, and §6 tells
what happens in it.

A definition preceded by the words *faulty variant* is no part of the model. It is
the definition after it with a plausible mistake, which the property that is
paired with it in `PROJECT.json` must detect.

Abstractions worth knowing:

- Paths, contents and PIDs are model values. A test file is its author (`nobody`,
  `ghost`, `unmarked`, `user`): the overwrite guard reads nothing else. `unmarked`
  is a test of Ghost's that the guard takes for a hand-written one, because the
  header comes too late in the file (`client.py` 115-144).
- `max_workers` is 1 in `FileWatcher` as the daemon builds it; `JobQueue` is
  checked with two workers and proved for every number.
- In `DaemonLock` each daemon has a PID of its own. It can be read after its daemon is
  dead, but no later daemon or other program is given it.
- In `Watcher` the observer thread ends within the timeout of `join`, events are
  those of the files themselves (the filters drop the rest), and `context.json` is
  readable. The parse of a file and the reading of `context.json` after it are one
  step: a save in between is reported and handled later.
- `FileWatcher.start` is not called while `stop` is under way: both callers wait for
  `stop` and then end (`daemon.py:418` and 432, `cli.py:940` and 947). `start` itself
  would not refuse.
- A path is its directories and the pieces of its name that the code looks for;
  sizes are weights, so that an index is as long as its entries together. `.endswith` of
  module names (`indexer.py:570`) is by whole pieces.
- A line of `.env` is the variable it is about, a value, whether the pattern of
  `_offer_save_to_env` finds it, and which other variables the rest of it names
  (`within`); that one variable's name is part of another's is the constant
  `ContainedIn`. What is appended to half a line makes its value `Bad` and its `within`
  larger, so a later save finds the variable where no assignment of it is.
- The type of a collection error is what the plugin's pattern finds first: a name the
  report quotes, or its own exception if the pattern matches that, or a guess
  (`Grepped`). What the report quotes is any set.
- In `TestRunner` children that leave the session of pytest are not followed: no
  signal could reach them. Its definitions have names of their own (`RunnerInit`,
  `RunnerNext`, `stage`), because `PipelineProofs` extends it beside `Pipeline`.
- Time in `ProviderCalls` is counted in units; `now` passes only as far as somebody
  sleeps, and `MaxTime` beyond.

## 3 Runs

Every passing run has a type invariant. The deadlock check is on for the queue, the
debouncer, the daemon, the pipeline and the watcher: in each some event of the
environment stays possible, or the bound on it is met by steps that are always
enabled. It is off for `stores`, `calls`, `runner` and `commands`, which stop when the
operations, calls, the one run or the commands that the bound allows are over.

| Run | Bounds | States | Question |
|---|---|---|---|
| `queue` | 2 paths, 2 workers, 4 submissions, one `drain`, one `stop` | 52 000 | Do guards, counts and events agree, does the pool implement `PathGuard`, do changes, `drain` and `stop` end? |
| `debouncer` | 2 paths, 3 tasks, 3 submissions, delay 2, clock to 5 | 481 000 | Fires once, after quiet, and loses nothing, whatever the order of `submit` and `cancel`? |
| `daemon` | 2 daemons, 2 commands, 4 inodes, 1 grace poll | 527 000 (symmetry) | One daemon, found and truthfully reported, no lock left, while processes do not overlap? |
| `pipeline` | 2 contents, budget 2, 2 edits | 469 000 | Budget, verdict, status, hash, overwrite and termination, with every option and answer? |
| `watcher` | 2 paths, 2 contents, 1 worker, 2 cleaners, 2 edits | 704 000 | Do the stores follow the files, is a stopped watcher silent, is every report handled? |
| `stores` | 2 processes, 3 threads, 1 file, 2 texts, 2 attempts, 4 operations | 586 000 (symmetry) | Is anything lost or counted twice that a lock kept apart, do snapshots and records agree? |
| `calls` | 2 coroutines, interval 2, 1 retry, 3 calls | 529 000 | Are slots and requests spaced, do retries stop when and why they should, does every call end? |
| `runner` | 1 file, 2 tests, 1 child, 2 known and 1 unknown exception | 781 000 | What does a timeout leave behind, what is a failure put down to, does `run_test` return? |
| `commands` | 5 paths, 3 providers, 2 keys, 2 attempts, 39 beginnings, 3 commands | 358 000 | Is the key agreed on used, do exit codes tell the truth, do hand-written tests survive, are filters and context right? |
| `daemon_twice`, `rollback_baseline`, `runner_survivors` | small | – | Promises of the documents that the code does not keep, §6 |

Why the bounds are enough:

- *Queue*. Two paths and two workers are what exclusion is about; the fourth
  submission allows the pattern "in flight, noted for rerun, filed again, and noted
  once more" on one path beside a job of the other. The proofs remove the bounds.
- *Debouncer*. Three tasks are the registered one, a cancelled one not yet cleaned
  up, and one after it. The clock allows a burst to be bumped and fired, and a
  second one.
- *Daemon*. A second daemon is needed to lose the name to; a second command to
  probe beside the first. A daemon is launched once, so a run has two, one after the
  other or at once; the proofs are for any number. Four inodes: one per process that can hold one
  open. One grace poll separates "ended in time" from "killed".
- *Pipeline*. A budget of 2 distinguishes the last attempt from the first and a middle
  one; an edit and its undoing are two edits.
- *Watcher*. `context.json` is shared by all paths, so two suffice for a lost
  update; two edits give a deletion beside a run, two deletions, a save of broken
  and of good content, a move over another file and a move back.
- *Stores*. Two threads of one process contend for a lock; the third is in a process
  that does not share it. Four operations are two generations of two attempts, or a
  recording between two others and a rollback. Files do not interact but through
  `hashes.json`, so one is enough for the rest.
- *Calls*. A third call comes when both coroutines have a slot, one has been cancelled
  or is retrying. The interval is longer than the shortest back-off and shorter than
  the longest. The proofs remove the bounds.
- *Runner*. With two tests an entry can be before or after another and be
  overwritten in its place; the file has an exception the plugin's pattern finds and one
  it does not; a child can be stubborn, hold the pipes, both or neither.
- *Commands*. Without source files 36 combinations of environment, `.env` and
  `ghost.toml` are combined with every wizard, edit and look; with files the settings
  are settled and three commands are two generations and a rollback, or an edit
  between two of them. The paths are two of one test, a package, a hidden file and
  one in an ignored directory. Limits 1 and 5 with weights 2 and 3 have a context that is
  everything, a part, and one file beyond the limit; all directories are shallow here,
  the others are the proof's.

### What the properties say

`queue`
- `MutualExclusion`: no path is handled by two workers.
- `BookkeepingExact`: `_queued`, the FIFO, `_in_flight` and the rerun marks tell one
  story until the workers have exited, and so do the two signals `drain` relies on,
  the idle event and the unfinished count.
- `DrainCovers`: when `drain` returns, each change submitted before it has been
  covered by a run that began after it and has ended.
- `ImplementsPathGuard`: no change leaves the sets but by the beginning of a run
  that covers it, or `stop`.
- `ChangesAreHandled`, `CallersReturn`: changes, `drain` and `stop` come to an end.

`debouncer`
- `EntriesAgree`: a deadline has one live task that will look at it in time, and the
  idle event says whether there is one.
- `NoLostSubmission`; `QuietBurstsFire`: a burst fires, once, and not before it is quiet.

`daemon`
- `LocksHaveOwners`: a lock has an owner at the right place, crashes included, and an
  active daemon's file holds its PID.
- `OneDaemonIfApart`, `AnswersAreTrueIfApart`: as long as acquire, release and probe of
  different processes have not overlapped (crashes at any point included), there is
  one daemon, the name is that of its file, `stop` returns True only when the
  daemon it signalled is gone, and who fails to get the lock meets an active daemon.

`pipeline`
- `HealsAreAllowed`: no more heals than the budget, and none against a verdict.
- `ReportsLastTest`, `UnfinishedIsRetried`: see the comments in the module, which quote
  the documents.
- `UndisturbedIsRight`: what a run records was tested, and hand-written tests are not
  overwritten, if the user does not edit during the run.
- `RunsEnd`: each run returns.

`watcher`
- `ApartIsClean`: when all is done, a deleted file has left both stores and a file
  that parses is indexed as it is, unless a deletion overlapped with a run of its
  path or two threads were changing `context.json` at once.
- `StoppedIsSilent`: when `stop` has returned, no callback, task or worker is left.
- `Settles`: what is reported is handled.

`stores`
- `LocksSuffice`: a store holds every update ever written to it, unless updates that no
  lock keeps apart (of two processes, or `record_success` and another call) met.
- `SnapshotsMatch`: a snapshot is the text of the last record of its attempt, unless a
  recording of it was cut short or overtaken.

`calls`
- `CallsAreSpaced`: slots are an interval apart whatever is cancelled; so are the first
  requests of the calls, as long as nobody has had to wait for the loop.
- `GivesUpRightly`: only rate limits are retried, `MaxRetries` times; `CallsEnd`.

`runner`
- `HungRunsAreReaped`: pytest is dead when `run_test` has returned, and so is what its
  tests started if pytest ran into SIGKILL, or died of SIGTERM that nobody ignored.
- `BlameIsOfAFailure`: a reported run that passed had nothing that failed; a failed one is
  put down to the first node of its report, to the class of the type the plugin recorded,
  and if that node is a test that was neither skipped nor expected to fail, to an
  exception it raised. For a file that could not be collected the type may be wrong
  (`RunnerMisreads`, §6).
- `RunsReturn`.

`commands`
- `CommandsKeepTheirWord`: when `generate` succeeds each source was skipped or passed,
  and has the test of an attempt in its history; when it fails there is a reason.
  Hand-written tests are written over by `--force` or a rollback only. A rollback gives a
  test back to the source it was of, if no other with a history has the same test.
- `AgreedKeyIsUsed`: the key that `init` found is the key of the requests, and so is the one
  it saved, if `.env` could take it (`Savable`): its variable has one plain last
  assignment, or is named nowhere and the last line is complete. Otherwise the wizard
  says "Saved" all the same, see *Settings* in §6.
- `SelectionIsSound`: Ghost does not watch its own tests, batch and watcher agree on
  what a source is, and the context is within its budget, except for a first file that exceeds
  it alone (`ContextOverflows`, §6); what is left out first would not have fitted, and
  while no other directory has more than four levels in common with the target's
  (`Shallow`), nothing is left out for a file of lower priority (reference definitions
  `ContextIsRight`, `FiltersAgree`).

## 4 Fairness

Safety runs use the plain specification's behaviours; `FairSpec` adds only this:

- *Event loop*: a task that can resume does (weak fairness per task: workers,
  drainers, debounce tasks, callbacks, coroutines in `chat`). asyncio's ready queue is
  FIFO.
- *Time passes* (`Tick`), so a quiet window, a slot, a back-off and a timeout end.
- *Handlers return* (`Finish` of a worker, `Step` of the pipeline, `Answer` of a
  provider): calls of the model and pytest have timeouts, the retry and heal loops are
  bounded.
- *Threads end* (`ThreadEnds`, `CleanUp`, the observer's `join`).
- In `Watcher`, each path has strong fairness for the beginning of a run that
  covers it. That is what `ChangesAreHandled` says of the queue, which serves its
  paths in FIFO order; weak fairness would let another path come first again and
  again.
- In `TestRunner` only `run_test` is fair (`Run`): no process has to end, whether it
  was signalled or not, and pytest may hang.
- Nothing is assumed of the user, of commands, crashes or calls of `start`, `stop`,
  `submit`, `drain`, `cancel`. No liveness is claimed for `DaemonLock`, `Stores` and
  `Commands`.

## 5 Proofs

TLAPS proves the following for all sets of paths, tasks, workers, contents, daemons,
commands, coroutines, processes, threads, files, tests, exceptions and settings, and all
bounds. The assumptions on the constants are named in the modules that declare them: the
workers are a non-empty finite set, model values that mean "none" are not members, bounds
are natural numbers, an interval is positive, every source has its test among the tests,
a test that can be the n-th attempt can be an earlier one, the table of exception types
maps to its three classes, the answers "not running" and "no PID" are not processes, a
typed key is not blank (`cli.py:206-226` strips it) and every provider has a variable for
its key.

**`JobQueueProofs`**: `Spec => []IInv`, hence `PathsAreExclusive`, `TypeCorrect`,
`BookkeepingIsExact`, `DrainIsSound`. Exclusion alone is not inductive: that `Take`
finds no other worker on its path needs that a queued path is not in flight and
queued only once (`GuardsAgree`), which in turn needs that a rerun is filed only by the
worker whose path it is; that `task_done` does not go below zero needs
`UnfinishedExact`; that `drain` may return needs `DrainDebts`, which says where the
changes it owes are at each of its stages. `IInv` is their conjunction. There is one
lemma per action, and lemmas on appending to and taking from a sequence without
repetitions. The refinement rests on the same invariant:
`PoolImplementsPathGuard`, `Spec => Guard!Spec`. Each
action maps to one of `PathGuard`, or to a stutter: `Submit` to `Change`, `Take` to
`Begin`, `Finish` to `End`, or to `EndBegin` when the worker takes the next path
without suspending, `Interrupt` to `Wind`, the stops to `Close`.

**`AsyncDebouncerProofs`**: `TypeCorrect`, `EntriesAlwaysAgree`, `NothingIsLost`, and
`QuietBurstsOnly`, the safety part of `QuietBurstsFire`. `EntriesAgree` says that the task
registered for a path works for that path, so that no two paths share one (`OwnTasks`);
that is what keeps a cancellation of some paths from touching the others. Two more facts
make it inductive: a deadline is one `Delay` after the last submission of its path
(`DeadlinesAreOwed`), and a path that is owed a callback while a cancelled task of its
still has to clean up was submitted after that cancellation (`HandlersAreHarmless`): the
one case in which a handler may take a deadline that is not its own.

**`DaemonLockProofs`**: `LocksStayOwned`, `OneDaemonAtATime`, `AnswersAreTrue`. Who holds
which lock is a function of where each process is and of its descriptor (`Locks`), and a
command that waits for or signals a process has its PID (`Memories`). The other two need
`AInv`: while nothing has overlapped, at most one process is inside `acquire()`,
`release()` or a probe (`Alone`), every open descriptor is of the file the name stands
for (`Named`), so that two active daemons would hold one lock, and whoever unlinks the
name finds no active daemon (`Emptied`). A daemon that has been signalled is on its way
out and stays so (`Told`), which is why "not running" is still true when `stop_daemon`
returns. Most steps neither enter nor unlink (`Steady`) and need no argument of their own.

**`PipelineProofs`**: `Spec => []IInv` with `IInv == CoreInv /\ Safe /\ SameSource`,
hence `TypeCorrect`, `HealsStayAllowed`, `StatusIsOfLastTest`, `UnfinishedRunsAreRetried`,
`UndisturbedRunsAreRight`. `CoreInv` relates the place in the run to its counters
(before the test runs `heals = attempt = runs`, after it `runs = attempt + 1`, and so
on); without it neither the budget nor the status is inductive. `Safe` and `SameSource`
say what still holds at each place if nobody has edited.

The same module has the theorems about `TestRunner`, which executes what the pipeline
wrote: `RunnerTypeCorrect`, `HangsAreReaped`, `TheFailedAreBlamed`, from `RunnerInv ==
RunnerTypeOK /\ Reaped /\ Blamed`. `Reaped` ties what ended pytest to the place in
`run_test` and to who is still alive, which stays so because only a live pytest forks.
`Blamed` says that before pytest is dead there is neither a report nor a code, that a
report with code 0 means nothing failed, and that the plugin's entries are of nodes that
failed (of a test, with an exception it raised) or were excused; a later phase of a
test, which overwrites its entry in place, keeps that (`EnteredIs`, `Accounted`).

**`WatcherProofs`**: `TypeCorrect`, `StopIsSilent`, `ApartPathsAreClean`,
`KeepsToTheQueue`. A stop is silent because each of its stages leaves less (`LifeInv`,
`CleanerPcs`): no events once the observer has joined, no cleaner once `stop` has
gathered them, no run once the queue is closed. `ApartIsClean` needs to know why a store
may still be wrong. The last callback posted about a path tells whether its file is there
(`Told`); once it has run, a cleaner is at the path or a change of it is pending. For a
path on which deletion and run have not overlapped (`Orderly`): not both are at it
(`Unlike`); if its file is gone and no callback of it is to come, no run of it gets past
its first look and a cleaner is at it or has done it (`Gone`); if its file parses and no
change of it is pending, the index says what the file says, or its run is about to make it
so (`Kept`). A thread that changes
`context.json` alone writes back what it read of the other paths (`SoleMerge`).
`KeepsToTheQueue` says that the watcher uses the queue only by the steps of `PathGuard`,
which the pool implements (`PoolImplementsPathGuard`): the two fit together.

**`ProviderCallsProofs`**: `CallsStaySpaced`, `RetriesAreRight`, `TypeCorrect`. Slots
are spaced because `_next_schedule` is an interval past each of them (`Schedule`).
Requests are spaced only because those who are queued wait for slots of their own that
are still to come, an interval apart from one another and from all requests made
(`OnTime`, while nobody is late). `Counted` relates requests to attempts at each place
in `chat`. The hypothesis of `TypeCorrect` is that the powers of two a back-off can have
are natural numbers: the provers know nothing of `^`.

**`StoresProofs`**: `TypeCorrect`, `NothingIsLost`, `SnapshotsTellTheRecords`.
`LocksSuffice` is inductive only with `SoleUpdate`: in a store that has not collided
there is at most one update under way, and what it is about to write is made from what
the store holds. That rests on `LocksHeld`: who is between reading and replacing under a
lock has the lock, and crashes and failures give it back. `SnapshotsMatch` follows from
`Agreed`: of an attempt whose recordings were neither cut short nor overtaken, either
the snapshot is the text of its last record, or one thread is recording it, and the
snapshot is the text that thread is about to add. That an attempt's last record is the
one appended last, and no other attempt's, is `OneMore`.

**`CommandsProofs`**: `TypeCorrect`, `CommandsAreTrue`, `AgreedKeyIsTheKey`.
`CommandsAreTrue` is `CommandsKeepTheirWord`, with its two action properties. While
`generate` goes on, what it was asked is what is behind it and before it, and nothing
has been raised (`Running`); the sources that have passed have their tests (`Kept`),
which a later source of the same batch cannot take away unless it is a rival; a test is
of sources whose test it is (`Shape`), which is why a rollback that changes it is by
such a source. `AgreedKeyIsTheKey` rests on `Promise`: as long as the key that `init`
agreed on stands, it is in the environment or it is what `.env` assigns to the first
variable of its provider. That is about text: replacing the matching lines leaves the
variable at the new value, and appending one does, unless the file names it elsewhere
or ends in half a line (`ReplacedLines`, `AppendedLines`, `SavedCounts`); and that
value outranks the fall-backs in `Config` and `get_provider` alike (`Resolves`).

`SelectionIsRight` is `SelectionIsSound`, without hypotheses. The priorities of the
documentation are those of the scores only where the index is `Shallow` (a level counts 10,
the same directory 50, an import 100), which is part of the property; the order itself,
and hence where the context ends, takes no such thing: a score is at most `ScoreLimit`,
which depends on the depth of the target. That scores and places order the files
strictly and totally is a lemma about numbers (`LeadsOrders`); that some of them come
first and last is another (`LeadsEnds`). A budgeted context is then all that comes up to
its last file, and the first one left out is the one that did not fit
(`BudgetedContextIsRight`), whatever the size of a set of files may be: of the fold that
adds up sizes only its value on the empty set matters, which takes no induction.
`ShownSteps` and `NextShown` carry this to every command that shows a context;
`FiltersAlwaysAgree` is about any files.

*Numbers without induction.* The library's induction theorems take an operator as a
parameter, which the provers cannot instantiate, but that a non-empty set of naturals has
a least member follows from `WFMin` and `NatLessThanWellFounded`, which take a relation
(`LeastNumber`). What the first or last matching element of a sequence is follows from it:
the last line that assigns a variable, the first key that is not blank, the first record
of an attempt.

Every invariant and action property of the passing runs is proved. Only model-checked: the
liveness properties (fairness and ENABLED are beyond the prover) and the violations.

## 6 Findings

Each is the counterexample of a run.

| Run | Where | What happens |
|---|---|---|
| `daemon_twice` | `daemon.py:176` | `ghost status` finds a stale file free, unlocks and closes it; a daemon locks it; the probe unlinks the name. The daemon runs on a nameless file, the next `ghost start` makes a second one. `daemon.py:80` promises mutual exclusion. |
| `rollback_baseline` | `history.py:104` | A second generation counts its attempts from 0 again and overwrites `attempt_0.py`; the first record still stands, so a rollback to it restores the second generation's text. `history.py:199` promises the earliest. |
| `runner_survivors` | `runner.py:207` | A test has left a process behind that ignores SIGTERM. The timeout strikes, SIGTERM ends pytest, `proc.wait` returns, and SIGKILL is not sent; the process goes on. (As short: pytest has ended and been reaped, `getpgid` raises, nobody is signalled.) `runner.py:17` guarantees the kill. |

Seven more configurations, kept beside these and run by hand, have counterexamples of the
same kind (`tlc -config DaemonStalePid.cfg MCDaemonLock`, and so on):

| Configuration | Where | What happens |
|---|---|---|
| `DaemonStalePid` | `daemon.py:180` | Between `flock` and the write of the PID, the locked file holds the PID of the crashed predecessor; `ghost stop` signals it. `daemon.py:82-84` excludes it. |
| `DaemonGivesUp` | `daemon.py:253` | Window and interval of the startup loop are both 0.5 s: it looks once, right after the launch, sleeps, and terminates a child that is running. |
| `PipelineSkips` | `pipeline.py:402` | The file is edited during a run and restored: the hash recorded is of content no test was executed against, and the next run is skipped. |
| `PipelineOverwrites` | `pipeline.py:227` | A test written by hand while the model is generating one is overwritten. `pipeline.py:19` excludes it. |
| `WatcherLeftovers` | `indexer.py:525` | Two files deleted together: both threads read `context.json`, the later write restores the entry the earlier removed. A deletion beside a run has the same effect on the hash. |
| `RunnerMisreads` | `pytest_plugin.py:55-65` | A file fails to be collected with an exception whose name the pattern does not find, or whose report quotes another first: `ImportError`, or the other, is recorded. `pytest_plugin.py:14` promises the exact class name and no grepping. |
| `ContextOverflows` | `indexer.py:647` | `ghost index --budget 1`: the first file is taken although it exceeds the limit alone. `indexer.py:609-610` guarantees that the size does not exceed it. |

Observations made while modelling, which no run states:

- *Queue and watcher*. `AsyncDebouncer.submit` right after `cancel` of the same path is
  lost: the handler of the cancelled task pops the new entries (`job_queue.py:114`).
  `orphaned` is the exception in `NoLostSubmission`; `JobQueue` cancels only in `stop`.
  `stop` leaves the unfinished count as it is (`job_queue.py:287`), so a `drain` that was
  waiting does not return. `FileWatcher.start` after `stop` watches again, but its queue
  stays closed and drops each event (`watcher.py:334`). `FileWatcher.stop` does not drain
  the queue; README.md:84 says "cleanly drain and stop daemon". `_process_file` ignores
  the `None` of `walk_and_modify_json` (`watcher.py:301`), although `indexer.py:470` calls
  it a signal to skip.
- *Daemon*. Two probes, or a probe and a launch, take each other for a daemon
  (`daemon.py:171`): `overlap`. `start_daemon` reports its own child when another
  start's daemon is up (`daemon.py:257`). `release` unlinks the name without looking
  whether it is still its own file's (`daemon.py:125`).
- *Pipeline*. Errors of the judge escape `run` (`pipeline.py:279`), those of a heal become
  `FAILED`. The header of a test is looked for anywhere when it is written and in five
  lines when it is recognised (`client.py:230`): author `unmarked`.
- *Runner*. The plugin records a skip as a failure (`pytest_plugin.py:35`), so a skipped
  test can be what a failed run is put down to: `excused`. A run that is cancelled signals
  nobody. A session that ended with
  code 0 while a child holds its pipes is reported as a timeout. A test that leaves by
  `os._exit(0)` passes.
- *Provider*. A retry does not pass the rate limiter (`providers.py:242`).
- *Stores*. `record_success` takes no lock (`history.py:321`); no lock is shared by a daemon
  and a command: `collided`.
- *Settings*. `_offer_save_to_env` says "Saved" also when `.env` only mentions the variable,
  in a comment, as `export X=` or as part of another's name (`GROQ_API_KEY` in
  `GROQ_API_KEY3`), and nothing is replaced; and it appends to the last line of a file
  that does not end in a newline (`cli.py:170-182`). After that a second `init` finds the
  variable in the value of that line, replaces nothing, and says "Saved" again: from
  `OPENAI_API_KEY=k1` without a newline no key is used any more. Such saves are not
  `Savable`, and `AgreedKeyIsUsed` promises nothing of them. A key in the environment outranks
  the one just typed. Every provider that is looked at is given the configured
  provider's key (`providers.py:775-822`). Without a `ghost.toml`, `.env` is not read. `init`
  can exit with 1 when `ghost.toml` is written already.
- *Selection*. `src/m.py` and `m.py` share `tests/test_m.py`, against what
  `resolve_test_path` says it avoids, and a batch writes one over the other: `Rivals`. A
  rollback writes over hand-written tests without asking (`cli.py:1115-1159`). In trees
  six levels deep or more, common directories outrank the same directory
  (`indexer.py:589` against 604-607): `Shallow`. A batch of an ignored directory takes files that the watcher ignores,
  and hidden `.py` files are batched but not watched.

## 7 Not modelled

- Data: prompts, answers, requests, Python parsing, formatting of output, log files.
- `prompts.py`, `console.py`, `errors.py`: no state that interacts.
- In `cli.py` and `providers.py`: `auto_detect_provider` and `_detect_default_provider`, which
  fill in the default of a prompt; `doctor`, `logs`, `history`, `stats`, `version`, which print.
- In `config.py`: tables other than `[ai]`, overrides by keyword (no command gives any).
- In `daemon.py`: following and tailing the log, logging set-up, the check for Unix.
- In `indexer.py`: `.endswith` that matches within a piece of a name (line 570); files that
  do not parse, which the index leaves out (442-444).
- In `cli.py`: `generate --output` (698-713).
- In `daemon.py`: PIDs that are used again. In `watcher.py`: a `join` of the observer that
  times out (368), a `start` during `stop`.
- In `runner.py`: processes that leave the session of pytest.

## 8 Plan

Done: all modules of §2. What would add most from here:

1. A refinement of `Stores`: within one process it implements a map whose updates are
   atomic (`ledger` is that map).
2. The daemon's watcher and a `generate` of the command line on one project, composed:
   two pipelines of one source in two processes.
