# A verification of chromite's concurrent core

chromite is the Python code base that builds, tests and ships ChromeOS images. Most of it
runs commands and handles data one step after another. What is hard in it is a small core
on which everything concurrent stands: processes that run build steps in parallel, locks
on files, locks in Google Storage, caches shared by processes, attributes shared by build
stages, signal handlers shared by nested contexts; and two larger programs on top of it,
the build itself and the update of a device. These modules model that core, check it with
TLC and prove parts of it with TLAPS.

Contents: [1 Inventory](#1-inventory) · [2 Modules](#2-modules) · [3 Runs](#3-runs) · [4
Fairness](#4-fairness) · [5 Proofs](#5-proofs) · [6 Disagreements
found](#6-disagreements-found) · [7 What is not modelled](#7-what-is-not-modelled) · [8
Plan](#8-plan)

To repeat the checks: `tlc -config <run>.cfg <module>` for the runs listed in section 3,
`tlapm <module>` for the eight modules whose name ends in `Proofs`.

## 1 Inventory

| Component | State | Operations | Interacts with |
|---|---|---|---|
| **File locks** `lib/locking.py` | `_fd`; the kernel's lock table, shared by all processes | `lock`, `read_lock`, `write_lock`, `unlock`, `close`, `with` | disk cache, download cache, enforced cleanup, chroot and image tools; `timeout_util.Timeout` |
| **Parallel run attributes** `cbuildbot/cbuildbot_run.py` | a queue and an rlock for each attribute, in a manager process | `SetParallel`, `HasParallel`, `SetParallelDefault`, `GetParallel` | the stages of a build, run by `parallel` |
| **Background tasks** `lib/parallel.py` | per child: `_started`, `_killing`, its queue, exit code; a semaphore for all | `ParallelTasks`, `run`, `Wait`, `Kill`, `_KillChildren` | everything that runs steps in parallel; multiprocessing's manager |
| **Task pool** `lib/parallel.py` | a queue of inputs, a queue of results | `TaskRunner`, `BackgroundTaskRunner`, `RunTasksInProcessPool` | built on `ParallelTasks` |
| **Google Storage lock** `lib/paygen/gslock.py` | a file in a bucket with its generation; `_generation` | `Acquire`, `Renew`, `Release` | `lib/gs.py`, which retries the commands |
| **Google Storage client** `lib/gs.py` | none of its own, but for `GSCounter`'s file | `Copy`, `Remove`, `Cat`, `Stat`, `GSCounter` | gslock, paygen, uploads |
| **Disk cache** `lib/cache.py` | entries and two lock files per key; `read_locked` | `CacheReference`: `Exists`, `SetDefault`, `Assign`, `Remove`; `DeleteStale` | file locks |
| **Download cache** `lib/paygen/download_cache.py` | files, a lock of the cache, a lock per file | `GetFileObject`, `Purge`, `_SetupCache` | file locks (flock); several processes |
| **Timeouts** `lib/timeout_util.py` and **deferred signals** `lib/signals.py` | the process's one interval timer and its signal handlers | `Timeout`, `FatalTimeout`, `DeferSignals` | file locks, `parallel`, cgroups, cbuildbot, each other |
| **Enforced cleanup** `lib/cleanup.py` | a process lock, a pipe, a watchdog process | `ForkWatchdog`, `_KillWatchdog`, `_exit` | cbuildbot, whose contexts it unwinds; cgroups |
| **The build** `cbuildbot/builders`, `cbuildbot/stages`, `lib/results_lib.py` | a log of results per process, the checkpoint file | `Builder.Run`, `BuilderStage.Run`, `Complete`, `SaveCompletedStages` | `parallel`; the version repository, to which it pushes uprevs |
| **Device updates** `cli/device_imager.py` | the device: two sides, their priorities, the stateful partition; the updater objects, in parent and children | `_InstallPartitions`, `Run` and `Revert` of each updater, `_Reboot`, `_VerifyBootExpectations` | `parallel`; the device, over ssh |
| All the rest (API controllers, services, command-line tools, configuration, generated and vendored code) | files and remote services | sequential | calls the above |

What makes each of the modelled parts correct, and what is hard in it:

* **File locks.** One writer or several readers, on whatever path a call got its lock;
  what the code believes it holds is what the kernel holds, after upgrades, timeouts,
  refusals and deaths; nobody sleeps for ever. Hard: a call is up to three system calls,
  and an upgrade of two readers deadlocks in the kernel.
* **Run attributes.** A value is never lost and a stale one never hides a newer one;
  waiters are served. Hard: the first `get()` is made without the lock, and a value being
  read is off the queue.
* **Background tasks.** The parent gets every verdict right, never runs more than
  `max_parallel` steps, leaves no child behind and always leaves itself. Hard: children
  die, hang, fall silent or are killed between any two steps.
* **Task pool.** Each input runs at most once, and all of them when the call returns; the
  call never hangs. Hard: failing workers, dead workers, sentinels.
* **Google Storage lock.** Exclusion except through timeouts; a holder keeps its file; a
  dead holder is replaced. Hard: a command may take effect and fail.
* **Disk cache.** An entry does not change under a read lock; nobody takes half an entry
  for a whole one. Hard: `Remove` unlinks the lock files themselves, `DeleteStale` picks
  its victims without a lock, a move may be a copy.
* **Download cache.** A file that was seen is there when it is opened; every read ends.
  Hard: a process has two handles on the cache's lock and can be in its own way.
* **Timeouts and deferred signals.** No deadline is lost or moved by what is nested
  inside, and every handler is put back. Hard: an alarm comes between any two lines, those
  of the contexts' own first and last steps included.
* **Enforced cleanup.** A killed build is cleaned up, never beside a living parent, and
  parent and watchdog do not wait for each other. Hard: fork, signals to the group, locks
  that forks do not inherit.
* **The build.** The checkpoint claims no more than was done, success means that every
  stage is accounted for, and uprevs are pushed only for a good build. Hard: results are
  spread over the logs of processes that fail, are forgiven, are killed, and report in any
  order.
* **Device updates.** The device always has a whole side to boot; success means it runs
  what was asked for. Hard: four writers in parallel, commands that outlive their ssh,
  reboots nobody asked for.

The hazards this code is exposed to, each at its line and with the properties that cover
it, are listed in `PROJECT.json`.

## 2 Modules

```
AdvisoryLocks   the kernel's locks on one inode (external)
 ├─ RWLock      what a readers-writer lock promises (abstract)
 ├─ FileLock    lib/locking.py        implements RWLock     MCFileLock, FileLockProofs
 ├─ DiskCache   lib/cache.py          one key, two lock files, several inodes     DiskCacheProofs
 └─ DownloadCache    lib/paygen/download_cache.py    one URI, two flock locks     DiskCacheProofs
RunAttributes   cbuildbot_run.py      one attribute         MCRunAttributes, RunAttributesProofs
ParallelTasks   lib/parallel.py       parent and children         ParallelTasksProofs
Pool            what a pool of tasks promises (abstract)
 └─ TaskPool    lib/parallel.py       implements Pool, on top of ParallelTasks    ParallelTasksProofs
GSLock          lib/paygen/gslock.py and lib/gs.py      GSLockProofs
SignalContexts  lib/timeout_util.py and lib/signals.py   nested contexts     SignalContextsProofs
EnforcedCleanup lib/cleanup.py, with lib/cgroups.py      parent and watchdog     SignalContextsProofs
Build           cbuildbot/builders, generic_stages.py, results_lib.py    MCBuild, BuildProofs
DeviceImager    cli/device_imager.py     parent, updaters and the device     DeviceImagerProofs
```

`PROJECT.json` maps each definition to its lines. Operators whose comment begins with
"Mutant:" are not part of any specification: each is a plausible mistake in the definition
that follows it, and shows that a property would notice it. The `TypeOK` of a module says
what values its state takes; runs spend their time on the other properties
(`RunAttributes` checks it too), and the proofs prove it.

**FileLock.** `held` is the kernel's table, by process for lockf and by handle for flock;
`fd` is `_fd`; `pc` says in which system call of `_enforce_lock` a handle is. `Grab`,
`Refuse`, `GoBlocking` are the three outcomes of the non-blocking attempt; `Sleep`,
`Acquire`, `BreakDeadlock`, `TimeOut` those of the blocking one. Linux answers EDEADLK to
a lockf caller it would queue behind one that waits for it, which `waits` and `LeadsTo`
say. The timer covers the second system call only, and a call that got its lock there is
`granted` until `with Timeout` ends: the alarm may still come (`LateAlarm`). `grabbed` is
what the caller may count on: it changes only when the caller is told (`Tell`), by a call
that returns or raises or by giving its lock up, and not by what the system calls in
between do to the kernel's table, with which the properties compare it. A process that
dies is replaced by one with fresh handles.

**RunAttributes.** `queue` and `rlock` are the `LockableQueue`, `hand` is the local
`value` of a call, and `pc` the point it is at: each remote call on the queue or the lock
is one step. `Kill` leaves a dead stage's lock held and its value in its hand, which is
lost; a `get()` it was blocked in goes on in the manager. `latest` and `overlapped` record
history for the properties. With several attributes nothing is shared between them, so one
is enough.

**ParallelTasks.** A child's states are the points of `run()` that others can see: before
and after the semaphore (`acquiring`, `running`), before the report, before the release,
exiting. The parent's `pc` goes through the body, `Wait()` of each task (`startup`,
`look`, `poll`, `join`) and `_KillChildren` (`kill`, `killwait`). The times are
conditions: a child that can start, does so within the five minutes of `_WaitForStartup`,
and the assertion fails only for one that waits for a permit others keep. Output and its
printing are left out, but for silence.

**TaskPool.** The workers' loop, the sentinels, `onexit`, and the collection of results.
The exit of `ParallelTasks` is reduced to what that module shows of it: the workers are
waited for in order, one that dies counts as failed, and those that are left are killed. A
worker that dies while blocked in `get()` is an `orphan` until the manager takes an item
for it. `Status` maps each input to what the abstract pool knows of it.

**GSLock.** `file` is the object in the bucket: whose contents, which generation, and
whether it has timed out. Each gsutil command is one step, with outcomes for success,
success with a lost answer (`CopyLost`, `RemoveLost`: gsutil runs again), an answer that
does not tell the generation, a failed precondition, and failure for good. Generations are
named from a set just large enough that a new one differs from all those anybody knows.
`block` is where the client is in Method 1 to 3 of the class comment.

**DiskCache.** `path` names the inode now at each lock file's path, `held` the locks on
each inode, `fd` what each process has open. An operation runs from `entry` to `leave`;
`check`, `write`, `clear`, `insert`, `unlink`, `unlinkEntry`, `read` are its points.
`FileLock` is used as `RWLock` describes it: a lock call ends when the other locks allow
it. `Copy` is a `shutil.move` that copies, during which part of the entry is at its place.
An operation may raise at each of its points (`Raise`, `RaiseWriting`), which gives its
locks back and takes nothing back of what it did.
`ListKey`, `SkipKey` and `DeleteStale` are the loop of `DeleteStale` for this key: it is
listed, its age is asked for later (`getmtime` raises when it is gone, and the call ends),
and what is old is removed by a reference nobody acquired, whose lock file is opened only
when it is locked.

**DownloadCache.** One URI. `cache_lock` has two handles per process, that of
`GetFileObject` (shared) and that of `_SetupCache` and `Purge` (exclusive, non-blocking);
`file_lock` is the lock of the file. `pc` follows the two nested `with` blocks. A download
that fails removes its file; one that is killed leaves what it had (`torn`). Whether a
purge takes this file is a choice, since its age and size are.

**SignalContexts.** `stack` is the contexts the program is in, each with what it saved;
`timer` is the interval timer in ticks, `onSignal` the table of handlers, and `pc` the
line at which the innermost context is. A signal is handled between two lines (`Deliver`);
a handler that raises sends the program to the `finally` of the context, or out of it
where the line is not covered by its `try` (`Raises`). Three ghosts name what the code
gives up: `raced` (an exception came inside the context's own lines and left the timer or
a handler as they were), `lost` (a relayed handler raised and the signals after it were
dropped), `deaf` (the program suppressed what SIGTERM raised). A DeferSignals inside
another is left out: nobody does that.

**EnforcedCleanup.** `parent` and `watchdog` are what each is about to do, from the fork
to the exit, with the contexts that `scripts/cbuildbot.py` enters between the two (sudo,
the temporary directory, the cgroup). `lock` is the ProcessLock, which a fork does not
inherit; `pipe` holds the byte that means "all is well". An interrupt is a signal whose
handler raises (SIGINT, SIGTERM); it may go to the parent's group, which the watchdog
leaves with `setsid`. Before that it takes the watchdog out of `ForkWatchdog` (`stray`,
`astray`): the cgroup, sudo and the section itself skip their end in a process that is not
the primary one, but `osutils.TempDir` does not, and removes the build's directory
(`tempdir`). What the body does when it is interrupted is part of `body`.

**Build.** A run is `Start`, then `SyncStage`, perhaps `Reexecute` (cbuildbot starts
another cbuildbot in the synced tree, and returns its verdict), `SetupStage`, for each
board `BuildPackages`, whose background worker is queued, then `HandOver` of the log of
each worker that is waited for, `Join`, `Complete` and `ReportStage`. `worker`, `blog` and
`leaf` are the processes of a board: a worker and the children in which it runs its
parallel stages. `Outcomes` is `BuilderStage.Run`: what a stage records, raises and does.
`done` remembers what was performed with success, which is what the log is compared with.
Abstractions: one sync, set-up and image stage stand for those that are run in a row, and
one group of parallel stages for the two of a board; which boards share a worker is open
(the pool has as many as there are processors, see `TaskPool`), so that the logs of the
boards are handed over in any order, and a worker that is killed takes with it those of
any set of boards, all but one of which it had done; `_build_image_lock`, which only makes
workers wait, and CIDB are left out, as are a stage's retries (`max_retry`), which no
stage asks for. `WaitUntilReady` is false for the unit tests only, and only the sync stage
ends the build early or calls `sys.exit(0)`.

**DeviceImager.** `part`, `stateful`, `priority`, `minios_priority` and `booted` are the
device; `step`, `child` and `ran_postinst` are the forked children with their copies of
the updater objects. `Send` and `Answer` begin and complete a command on the device;
`Fail` breaks it, and the command may go on without its ssh (`lingering`). A write whose
source ends early succeeds on part of a partition (`EndsEarly`, `truncated`): the readers'
exceptions stay in their threads (lines 501-536), and the pipe into `dd` (648-657) has the
status of `dd`. The miniOS updater does nothing when there is no miniOS (`skipped`).
`Boot` is the boot loader with dm-verity: a side whose kernel and root file system do not
belong together, or that is not whole, does not come up, and the other is booted.

## 3 Runs

| Run | Instance | Distinct states | Shows |
|---|---|---|---|
| `FileLock` | 3 processes with a lockf handle each: blocking, non-blocking, timed; 3 calls each | 21,853 | `CallersHaveTheirLocks`, `Exclusive`, `ThirdCallNeverFails`, `EveryCallReturns`, `ImplementsRWLock` |
| `RunAttributes` | 3 stages, 2 values, 4 calls, 1 stage killed | 45,928 | `TypeOK`, `AtMostOneValue`, `NeverLost`, `LatestSurvives`, `WaitersAreServed` |
| `ParallelTasks` | 3 steps, `max_parallel` None, 1, 2, `halt_on_error` both | 681,728 | `AtMostMaxParallel`, `VerdictsAreRight`, `ResultIsRight`, `NobodyLeftBehind`, `ParentLeaves` |
| `GSLock` | 2 lockers, 1 crash, any number of lost answers and timeouts | 285,616 | `MutualExclusion`, `HolderHasTheFile` (which implies it, and is what makes it last), `Recovered` |
| `TaskPool` | 3 inputs, 3 workers, any of which fails or dies | 366,229 | `CallerLeaves`, `ImplementsPool` |
| `DiskCache` | 2 references, all operations, any of which may raise, 1 removal, 1 death | 276,435 | `ReadLockKeepsEntryAtFirst`, `EntriesAreWhole`, `OperationsReturn` |
| `DownloadCache` | 3 processes, 2 rounds, 1 death | 165,000 | `SeenIsThere`, `GetReturns` |
| `SignalContexts` | 3 contexts deep, timeouts of 1 and 2 ticks, 1 SIGTERM, 1 suppressed exception | 746,000 | `HandlersAreTheInnermosts`, `EarliestDeadlineIsSet`, `AlarmsAreDue`, `TimeoutsEnd` |
| `EnforcedCleanup` | 3 interrupts, 1 SIGKILL, with and without cgroups | 4,490 | `WatchdogWaitsForTheEnd`, `KilledBuildIsCleaned`, `ParentExits` |
| `Build` | 3 runs of 1 board with 2 processes killed; 1 run of 2 boards with 1 | 331,000 | `SuccessIsTrue`, `SuccessIsComplete`, `PublishedIsGood`, `RunEnds` |
| `DeviceImager` | 3 sets of updaters, a good and a bad image, lingering commands, 1 reboot nobody asked for, sources cut short | 1,102,872 | `RunningSideIsWhole`, `PrioritiesAreWhole`, `SuccessMeansUpdated`, `RunEnds` |
| `DeviceImager_revert` | a full update | stops at the violation | that `RevertReverts` does not hold: section 6 |

Every bound is a constant of its module, given its value in the cfg.

* *FileLock.* An upgrade deadlock takes two handles, and a third is the bystander that
  gets the lock in between or wakes up last. Three calls let a handle lock, upgrade and
  lock again. The theorems cover any number of handles, calls, and flock.
* *RunAttributes.* Overlapping getters, a setter between them and a default take three
  stages; two values tell a stale one from the latest.
* *ParallelTasks.* Three tasks are one that is being waited for, one before and one after
  it; limits of 1 and 2 leave two children or one waiting for a permit.
* *GSLock.* Two lockers steal from each other. `lapsed` and `adopted` remember the two
  ways exclusion is given up, so that nothing else excuses a violation.
* *TaskPool.* With three inputs and workers, one can fail, another drain the queue, the
  third die, and a sentinel be taken for a dead one.
* *DiskCache.* One Remove is enough for both lock files to be made anew. The safety
  properties are stated up to the moment when they are; `DiskCache_remove.cfg` shows that
  they do not hold after it. One death is enough for a process to leave half an entry or a
  lock behind.
* *DownloadCache.* A reader, a purger and a downloader; two rounds of the retry loop are
  one that is repeated and one that is the last.
* *SignalContexts.* Three levels put a context inside one that is itself nested, with a
  timeout that is shorter, longer, or already over; one SIGTERM and one suppressed
  exception reach the handlers that switch themselves off and the second alarm of a
  FatalTimeout.
* *EnforcedCleanup.* Three interrupts cut the parent's way out short at three places, and
  one more process can be killed only once. The state space is small because it has two
  processes with one thing to do.
* *Build.* Three runs are one, one that resumes it, and one that resumes that; two
  processes killed are one in each of two runs, or a worker and its builder. Two boards
  are needed for logs that arrive out of order and for a worker that drops its inputs.
* *DeviceImager.* The three sets are all parts but miniOS, all but stateful, and stateful
  alone (four parts at once multiply the states and add nothing: no two share a
  partition). One reboot hits every pair of points of two updaters.

`CHECK_DEADLOCK FALSE` stands where the system may really stop: calls are bounded and a
killed stage may leave the attribute's lock held (`RunAttributes`); the call has ended, or
a child waits for a permit that died with another (`ParallelTasks`, `TaskPool`); processes
have used up their operations (`DiskCache`); the program, the build, the update or the
parent has come to its end (`SignalContexts`, `Build`, `DeviceImager`, `EnforcedCleanup`);
one that sleeps for a lock may be all that is left (`DownloadCache`).

## 4 Fairness

* *FileLock*: the kernel serves a blocked call it can serve, and the timer fires
  (`CallFairness`); every `with` block ends, and a lock object that nobody uses, such as
  one whose `lock()` raised, is closed by its `__del__` (`ClientFairness`), without which
  nobody can promise a lock. `FileLock_timed` does without the second.
* *RunAttributes*: a live stage goes on with its call; the manager serves it.
* *ParallelTasks*: the parent moves when it can; children move outside their step. Steps
  need not end and children need not exit, which is what the silence and exit timeouts are
  for. `Silent` is strongly fair: the time counts on through the parent's looks, each of
  which interrupts it. A step that prints for ever, so that it is never silent, is left
  out.
* *TaskPool*: tasks end (one that does not is killed for its silence), and so does a
  killed process.
* *GSLock*: clients release what they acquired and ask again; failures of gsutil cease at
  some time (`OutageEnds`); a file in the bucket grows older than its timeout.
* *DiskCache*: references are released; a lock that is free again and again is got in the
  end (`SF`). The kernel queues lock requests in order, which is stronger.
* *DownloadCache*: the same of each process's steps; a download ends one way or the other.
  Nobody need begin to read or to purge.
* *SignalContexts*: time passes (`SF(Tick)`: the clock runs on through whatever else
  happens), handlers are called, contexts and exceptions proceed. A body may last for
  ever, which is what a timeout is for, but not that of a DeferSignals (`SF(LeaveDefer)`),
  which holds alarms back.
* *EnforcedCleanup*: both processes run. The body of the build may last for ever.
* *Build*: a stage that has begun ends (its commands and the build have timeouts), so the
  builder, the workers and their children proceed. Nobody need start another run.
* *DeviceImager*: a command is answered or its ssh gives up (`ServerAliveInterval` in
  `lib/remote_access.py`), signals reach the children, the parent proceeds. Lingering
  commands need not end.

## 5 Proofs

`FileLockProofs` proves, for any handles and processes, any set of blocking and timed
handles, and both lock types, under `FileLockAssumption` and `OneHandlePerOwner` (no two
lockf handles of one process on one file, which the class comment asks for; with flock it
always holds):

* `TypeCorrect`, `Agreement`, `Exclusion`, `NoDeadlockTwice`: the type and the three
  invariants of the run. The inductive invariant joins the type, what the kernel holds for
  a handle at each point of a call (`PhasesOK`), exclusion among the owners in the kernel's
  table, and that nobody is queued behind an owner that holds nothing. None of the
  properties is inductive by itself: `CallersHaveTheirLocks` says nothing of a caller that
  is inside a call, and what the kernel compares is its table and not what callers believe.
* `Implementation`: FileLock refines RWLock. Every step is an Acquire, a Release of one or
  several clients, or a stutter; a client inside a call counts as having no lock, since it
  may lose what it had.

`RunAttributesProofs` proves, for any stages and values, `TypeCorrect`, `OneValue`,
`Conservation` and `LatestKept`. The inductive invariant says that stages in a locked
section are the owner of the lock (dead ones included), that the queue is empty from a
drain to the put that follows, and that getters without overlap have at most one value in
hand between them.

`SignalContextsProofs` proves `Handlers`, `Deadlines` and `Alarms`, for contexts of any
depth, times of any length and any number of signals, under `SignalContextsAssumption`.
The inductive invariant goes down the stack and holds until `raced`: the handler of
SIGALRM that a context has saved is that of the level below it (`AlarmOf`), and the time
it has saved, like the one that the timer is set to, is in time for every timeout around
it (`InTime`, `Due`), so that a context that is left puts back what the others need. An
inner timeout may ring for an outer one: an alarm on its way is owed to a timeout no
deeper than the context whose handler it finds (`AlarmFinds`). None of the three properties is inductive, since
each speaks of the innermost context, and the next innermost is known only by what was
saved.

The same module proves `WatchdogWaits`, of EnforcedCleanup (an instance of its own there
with other variables): `WatchdogWaitsForTheEnd` holds for any number of interrupts and
SIGKILLs. The argument goes by the process lock: it leaves the parent's hands only with
the byte in the pipe, or by the parent's end; a watchdog that has the lock and finds no
byte knows which of the two it was. `WatchdogWaitsForTheEnd` alone is not inductive, since
it does not say what the lock means to a watchdog that is still to look into the pipe. The
property excuses one thing, which is in the code: a watchdog led astray takes the
directory (section 6).

`BuildProofs` proves `SuccessTrue`, `SuccessComplete` and `PublishedGood`, the three
invariants of the run, for any number of boards, any options and forgiving stages, and any
number of runs and of processes killed, under `BuildAssumption`. The inductive invariant
has two halves. What the builder's log, those of the workers, the children's results and
the checkpoint call a success was done (`Truth`): this needs the logs of all processes,
whatever their order. And while nothing was raised, the stages behind the builder are in
its log (`Foreground`), while those of a worker that has ended are in the worker's, or
in the builder's once it is waited for, unless some worker has failed (`Background`);
a worker that failed or died makes `Join` raise, so that a run that gets to its verdict
without an exception has every stage in its log. The verdict and the uprevs come last
(`PcFits`).

`ParallelTasksProofs` proves `AtMostMax`, `VerdictsRight`, `ResultRight` and `NobodyLeft`,
the four invariants of the run, for any number of steps, any `max_parallel`, with and
without `halt_on_error`. Permits get lost, with children that die, but none is made: the
semaphore's value and the children that have one to give back are at most `max_parallel`
(`Permits`, by cardinalities). The rest follows the parent: the tasks before the current
one have their verdicts and have exited (`InOrder`), and a killing has one of three
reasons, each of which says whose verdicts are known when it is over (`Killing`). The
properties alone are not inductive: none says why the parent may skip those it kills.

The same module proves `Implementation`: TaskPool, an instance of its own there with other
variables, implements Pool, for any number of inputs and workers (`TaskPoolAssumption` is
a hypothesis, as an instance's assumptions are not facts). An input is to be put, on the
queue, with one worker or done (`OnePlace`), and in no such place only when a worker has
failed or died (`NoneLost`). The inputs are on the queue in order and before every
`AllTasksComplete` (`InputsFirst`), so a worker past its own has left no input behind
(`WorkersEnd`); a caller that returns has waited for them all (`CallerKnows`), and the
results are all there. Each action is then one of Pool's, or unseen by it.

`GSLockProofs` proves `HoldersHaveTheFile` and, from it, `Exclusion`, for any finite set
of lockers and any number of crashes. A command that replaces or removes the file names
its generation, and until a lock is adopted only its owner knows that, or one that found
the file timed out, by which time its owner has lapsed (`GenerationsAreKnown`). A new
generation is known to nobody else: `KnownAreFew` counts them. The assumption that
`NoFile` is not a record is one on the model value only.

`DiskCacheProofs` proves `ReadersKeepTheirEntry` and `NoPartsAreSeen`, for any processes,
removals and deaths. Until a lock file is made again each of the two has one inode
(`Homes`), so that who has a lock has it against everybody; a writer has both for itself,
and a reader has its share of one, or still the other for itself (`LocksHeld`, `Relied`).
A part of an entry is there only in a move, or after one that raised or died (`Whole`).

The same module proves `SeenStays`, of DownloadCache (an instance with other variables):
`SeenIsThere` holds for any processes, retries and deaths. The inductive invariant says
that each of the two locks excludes what it should, which lock a process has at each of
its points, and that a file that is being downloaded has its downloader. What takes a file
away has the cache's lock or the file's for itself, and who has seen the file shares both.
It also shows that the Purge after a download never gets its lock (`NoPurgeWhileGetting`).

`DeviceImagerProofs` proves `RunningSide`, `Priorities` and `Success`, for all sets of
updaters that treat the kernel and the root file system alike, as `_InstallPartitions`
does, and any number of reboots nobody asked for. One side is never written
(`OtherSides`), and of the other it is enough to know when a partition is `Written`, to
the end of its source: before its postinst or its flip is sent, and as long as one of these
lingers (`Progress`, `Lingering`), since no child that has a write to send has a command
lingering. What the device prefers is then written or was never touched, and what it runs
is new or was never touched (`Preferred`), since part of an image does not come up.
`Recovery` says how far the miniOS is, whose priority is flipped once, and `Untouched` that
what nobody asked for is as it was. Of the kernel, `Priorities` says this only for an
update that goes well, once all its children have ended: its write and the switch to its
side are steps of different children.

Each inductive invariant was checked by TLC on the instance of its run before it was
proved.

Only model-checked:

* liveness, here and everywhere, which is out of the prover's reach;
* that DiskCache makes no more inodes than its `Inode` has, which is a bound of the model.

## 6 Disagreements found

Where a doc, a comment or a test says one thing and the code does another. The first is
one of the runs; each of those after it that names a cfg and a module is repeated with
`tlc -config <cfg> <module>`, which stops with a counterexample.

* `cli/device_imager.py:824`, `889`. "If one of the partitions failed to be installed,
  revert all partitions" (343-344): `Run` sets `_ran_postinst` in a forked child, `Revert`
  runs in another child forked from the parent, where it is still False, and does nothing.
  The device boots the side of the failed update (`DeviceImager_revert.cfg`).
* `lib/locking.py:150`. After EDEADLK the lock is asked for again outside the timer: a
  handle with a `blocking_timeout` waits without limit (`FileLock_timed.cfg`,
  `MCFileLock`).
* `cbuildbot/cbuildbot_run.py:451`. `GetParallel` takes the value without the lock, so
  `HasParallel` says no for an attribute that is set, and `SetParallelDefault` then
  overwrites it (`RunAttributes_has.cfg`, `MCRunAttributes`).
* `lib/parallel.py:221`. A child that waits for the semaphore is taken for one that did
  not start, and the call ends under its running siblings (`ParallelTasks_join.cfg`,
  `ParallelTasks`).
* `lib/paygen/gslock.py:202`. `if not self._LockExpired()` tests a pair, which is always
  true: a Release that removed nothing never raises (`GSLock_release.cfg`, `GSLock`).
* `lib/cache.py:142`. `Remove` unlinks lock files that are in use; later references lock
  others, and an entry can go away under a read lock (`DiskCache_remove.cfg`,
  `DiskCache`).
* `lib/signals.py:33-34`. "If a signal comes in for the masked signals, the original
  handler is run": when one handler raises, as that of a timeout does, the signals
  received after it are dropped (`SignalContexts_relay.cfg`, `SignalContexts`).
* `lib/cleanup.py:21-22`. "Even if the parent is sigkilled, the section marked *will* be
  run": the parent dismisses its watchdog before it unwinds the contexts itself, and
  killed after that nobody does (`EnforcedCleanup_kill.cfg`, `EnforcedCleanup`).
* `lib/paygen/download_cache.py:275-277`. "That either means a download is in progress, or
  there is a shared lock which means it's already present": a reader takes the shared lock
  before it looks, whether or not the file is there (`DownloadCache_locked.cfg`,
  `DownloadCache`).
* `scripts/cbuildbot.py:590`. `--resume` is to "skip stages already successfully
  completed": children clear their results when they start (`lib/parallel.py:547`), those
  of the previous run included, so that stages run in the background are done again
  (`Build_resume.cfg`, `MCBuild`).

Met on the way, and part of the models:

* `FileLock`: an alarm that comes after `lockf` has returned, but before `Timeout` cancels
  its timer, raises TimeoutError and leaves the lock with the file
  (`lib/locking.py:131-142`): the caller believes that it has none until it closes the
  object, and the others wait (`late`).
* `EnforcedCleanup`: a signal to the process group between the fork and `setsid`
  (`lib/cleanup.py:59-74`) makes the watchdog remove the build's temporary directory beside
  its parent, which still handles the same signal (`EnforcedCleanup_stray.cfg`); and the
  build has no watchdog then.
* `GSLock`: between Cat and Stat the file may time out and be taken over, and the locker
  then takes the other's generation for its own (`adopted`).
* `DiskCache`: a move that raises (no space left, an interrupt) or dies leaves part of the
  entry at its path (`lib/cache.py:250`), which `Exists` and `SetDefault` take for the
  entry until an `Assign` or a `Remove` (`torn`). No other process need die for it.
* `DeviceImager`: the retry of line 331 never happens, since what leaves is a
  `BackgroundFailure` and no `Error`, and a second attempt would find the generator of
  line 339 used up. A reboot after `--no-rootfs-update` always fails its verification.
* `DeviceImager`: an image that is read or downloaded only in part is installed, and the
  update succeeds (`cli/device_imager.py:501-536`, `648-657`). The reboot at the end tells
  for the kernel and the root file system; nothing does without it, or for miniOS
  (`truncated`).
* `DeviceImager`: postinst makes the new side the next to boot while the kernel's updater
  may still be writing it (`cli/device_imager.py:335-341`, `765`), or has failed to. A
  device that reboots then falls back on its other side (`DeviceImager_kernel.cfg`:
  `KernelIsWritten` does not hold).
* `DownloadCache`: a killed process leaves half a file, which is then served (`torn`). The
  Purge after a download can never get its lock, which its caller shares.
  `RetriesExhaustedError` is raised without a download of one's own when those of others
  fail.
* `Build`: a run from scratch that is killed leaves the checkpoint of an older one, which
  a resumed run believes (`stale`).
* `SignalContexts`: an alarm in the `finally` of an inner timeout
  (`lib/timeout_util.py:102`) leaves the outer timer off or the inner handler on
  (`raced`).

## 7 What is not modelled

* In the modelled files: `PortableLinkLock`, `PipeLock`; the fetching caches of
  `lib/cache.py`; `GSCounter` and the rest of `lib/gs.py`; the tables of attributes and
  builder runs; the polling helpers of `lib/timeout_util.py`; what the stages of a build
  do; how `cli/device_imager.py` finds and reads an image, and virtual machines; a
  downloader that fails before it has opened its pipe, whose `Run` waits in the kernel for
  the silence timeout of its step to end it, as a hung command does.
* Exceptions at some lines: a step of `ParallelTasks` dies (`Die`) only while it runs, not
  while it waits for its permit or reports; a signal between the lines of `DeferSignals`
  itself; the SystemExit of a build that stops early unwinding past its sync stage; and the
  alarm of a timeout set outside a lock's own, in the middle of a call to the lock.
* Slaves of a master build, and the stages that wait for them: they are other builds on
  other machines, seen through CIDB.
* Two lockf handles of one process on one file: the class comment warns of it, and nothing
  holds then.
* Nested `ParallelTasks` (a step that starts steps): each level is the same module.
* The rest of the repository is listed in `PROJECT.json` with the reason for each part:
  sequential I/O, static data, generated or vendored code.

## 8 Plan

Done: FileLock, RunAttributes, ParallelTasks, GSLock, TaskPool, DiskCache (with
`DeleteStale`), DownloadCache, SignalContexts, EnforcedCleanup, Build, DeviceImager;
proofs of the safety properties of all of them, and that FileLock implements RWLock and
TaskPool implements Pool.

Left: *GSCounter* (`lib/gs.py`), increments under retries, lost answers and deletion
against an abstract counter; *PortableLinkLock* (`lib/locking.py`).

