# agentm: verification models

TLA+ models of agentm's stateful parts: the SQLite work queue, the directory
lock, the dreaming pass with its write-ahead journal, the unattended runner, the
supervisors of the model children, the vault committer, the nightly enrichment
with its coverage ledger, and capture with the index. Each module was translated from the code under `src/`; TLC checks
each on a small instance, and TLAPS proves what matters most for every value
of the constants. `PROJECT.json` is the machine-readable side: which lines each
definition models (`map`), the runs, a mutation of the code for every
property, the hazards, the findings and the theorems.

To run, from this directory: `tlc -config MCWorkQueue.cfg MCWorkQueue`, and
likewise for the other `MC*.cfg` (`MCDirLockTakeover.cfg` goes with `MCDirLock`,
`MCDreamJournalUngoverned.cfg` with `MCDreamJournal`, and so on); `tlapm WorkQueueProofs.tla`, and likewise
for the other `*Proofs.tla`.

Paths below are relative to `src/`; `dreaming/`, `ledger/`, `watch/`, `vcs/`,
`embed/`, `enrich/` are packages of `daemon/internal/`.

## 1. The system

agentm keeps an agent's memory as markdown notes in a vault. A Go daemon
indexes the vault, commits its changes to git and enriches the notes; a
second Go binary, the dreaming pass, tidies them at night; Python scripts
write notes, sessions and projects, and an unattended runner starts the
nightly jobs. Most of the 1492 files are text processing, prompts, tests and
documentation. What carries the system's own protocol is this:

| component | state it keeps | operations | interacts with | what is hard |
|---|---|---|---|---|
| **work queue** `ledger/queue.go` | `queue` and `queue_cursor` rows | Enqueue, Drain, Complete, Fail, Revive, SetCursor | stages enqueue for each other in one database | a drain is many statements; others run in between; killed drains; the cap |
| **directory lock** `scripts/vault_lock.py`, `dreaming/lock.go` | a directory, its mtime, a pid file | acquire, heartbeat, release, stale takeover | every Python writer of the vault; the dreaming pass | takeovers that meet, suspended holders, signals, two implementations |
| **dreaming journal** `dreaming/journal.go` | journal lines, the notes, the governance log | Commit, Resolve, moveNote | the operator's editor and the Python writers change the same notes | a kill between any two file calls; a note changed after it was checked |
| **dreaming runs** `dreaming/run.go`, `gate.go`, `state.go`, `entities.go`, `ideas.go`, `manifest.go`, `taskmover.go`, `intents.go` | run-start/run-done lines, `state.json` | Run, ApplyManifest, MoveTasks, ApplyIntents, BuildEntities, Ideas | share one journal and one singleton lock | who resumes a crashed run; a clock saved after the run |
| **unattended runner** `scripts/runner/` | a marker and a failure streak per job | due decision, spend gates, start/done/missed markers, watchdog ladder | starts the dreaming pass and the enrichment batch | killed cycles, torn files, overlapping triggers, windows, spend limits |
| **vault committer** `watch/watch.go`, `vcs/` | pending paths with attribution, absences with a grace, the git index | note changes, reconcile, stage, commit, heal | everything that writes the vault; git run by others | marks used before the commit that needs them, a shared index, rollback |
| **child supervisors** `embed/supervisor.go`, `rerank/supervisor.go` | a child process, a failure count, a backoff, the status | start, health check, request, condemnation, restart, Close | every search and capture | a late failure counted against a new child; a foreign server on the fixed port |
| **coverage ledger** `ledger/ledger.go`, `pending.go`, `follow.go`, `rebuild.go` | what each stage did for each note | record, seen, pending, follow a rename, rebuild | all stages | rows that outlive what they vouch for |
| **enrichment batch** `daemon/cmd/agentmd/main.go`, `enrich_run.go`, `enrich/` | the night's queue and guards, refusals, an in-place write with its own journal | page, gate, judge, write, record | coverage, index, committer, the operator | minutes between reading a note and writing it; money; a kill between write and record |
| **capture** `capture/` | a note and its index row | volume gate, idea card, same source, new name | index, committer | two clients at once; file and row in two systems |
| **index** `index/index.go` | a row per file | upsert, delete, index one file, reconcile | the notifier, capture, every search | files that move on under a pass; lost events |
| **source registry** `sources/` | a row per unit of source, a sidecar | mark, supersede, rebuild | capture | a rebuild that is not one transaction |

The rest (search and ranking, prompts and gates on answers, codecs,
configuration, the MCP surface, health reports, the memory skill's
scripts, installers, lints, the control plane's calls to GitHub) keeps no
state with a protocol of its own; `PROJECT.json` lists each with the reason it
is not modelled.

What makes each component correct:

- *queue*: an item is not handed out twice by a drain, not retried for ever, and
  parked exactly at the cap; a drain that says nothing was deferred is right; every
  item is reached; and in all it does what a ledger of attempts would allow.
- *lock*: at most one process inside; a release removes one's own lock; the
  lock of a crashed holder comes back.
- *journal*: the pass destroys nothing its intent did not name; an applied line
  implies the change and its governance line; no run is closed over an
  unsettled intent; every run ends.
- *runs*: the intents of a crashed run are settled by a later start; passes are
  an interval apart.
- *runner*: a paid job runs once per spend window, the fleet stays under its
  ceiling, a failing job is stopped after so many attempts and stays stopped,
  markers tell the truth, nights do not drift.
- *supervisors*: no child process is left behind; a child is killed on a full count
  of failures since it became warm, of which each request sent to a predecessor adds
  one at most; one that cannot answer is not reported warm for ever; after every
  fault the supervisor serves again.
- *committer*: no staging of anyone's is lost; an absence is recorded only when a
  second look confirms it; every file that is there is committed in the end, as
  long as nobody's index.lock is left behind for good.
- *enrichment, coverage*: an operator's words are never lost while the model
  thinks; no row vouches for text nobody judged; a judgment is paid for once;
  every note is judged in the end.
- *capture, index*: a capture replaces only a note it has read; a source has one
  note per title, as far as the notes could be read; in the end the rows are those of the files.

## 2. The modules

Every module is parameterised by CONSTANTS with a named assumption; an `MC`
module gives TLC its instance, and a `Proofs` module holds the theorems. All
bounds are constants whose comment says BOUND, and appear only in guards.
Variables marked "history" are written and never read by the code's own
actions. A definition marked "(mutant)" is a plausible bug in the one after it,
and no specification uses it: `PROJECT.json` says which property it breaks.

### WorkQueue: `ledger/queue.go`

State: the two tables (`id`, `state`, `attempts` per item, the AUTOINCREMENT
sequence `lastId`, `cursor` per owner) and the local variables of one drain per
owner. One action per SQL statement: `FetchPage`, `BeginItem` (the handler is
called), `SettleItem` (`CompleteItem`, `FailItem`), `AdvanceCursor`
(`SetCursor`), `Report` (the depth is read after the loop). `Enqueue` and
`Revive` run between any two of them. `Abort` is a killed process or a statement
that fails. `tries` counts handler calls since an item was last opened.

One drain per owner at a time: nothing in the repository outside tests calls
`Drain` yet, so no caller says otherwise; two drains of one owner could hand
the same item out twice.

**WorkLedger** is its abstract specification: what the queue promises to those who
enqueue and those who work, without ids, cursors, pages and statements. A piece of
work is discovered, taken, finished, failed, dropped with its worker or revived;
only the failure that reaches the cap parks it, and only the operator brings it
back. `WorkQueue!ImplementsLedger` instantiates it with `working <- InHand`, the
items whose handler has been called and not yet settled.

### DirLock: `scripts/vault_lock.py`, `dreaming/lock.go`

State: the directory (who made it, the age of its mtime, the pid file), and for
each process where it is in acquire or release, its heartbeat thread, and
whether it is alive or suspended. A process is of either kind: `GoProcs` run
`lock.go`, the others `vault_lock.py`. `Mkdir`, `Mark` (pid file or first
touch), `Stat`, `ReadPid`, `Remove`, `Wait` are the calls of acquire;
`Heartbeat` and `Release` those of the holder; `TimePasses` is the clock, which may
not pass a running holder's heartbeat; `Crash`, `Pause`, `Resume` and
`Interrupt` (SIGINT) are the faults. `RemoveAll` is one step. Its `LockInit`,
`LockNext` and so on are named apart from DreamRuns', whose proof module extends
both.

`lock.go` means both kinds to share a directory (44-58), but `VaultLockDir`
has no caller outside tests: in production the pass and the Python writers
use two locks, and `DreamJournal` lets them interleave freely. Were they ever
put on one directory, the Python `rmdir` would fail for ever on a killed Go
holder's directory, which has a pid file in it; the `lock` run has two Go
processes, one of which always survives to reclaim it.

### DreamJournal: `dreaming/journal.go` and the loop of `run.go`

State: the vault (`file`, a version number at each path), the last journaled
intent with what became of it (`cur`), where the pass is (`pc`), what the
running job still has to commit (`plan`), whether the journal has an open
run. Versions are unique to the write that made them and stand for the hashes.
One action per file call of `Commit`, `Resolve` and `moveNote`: the intent
line, the check, the write or removal or rename, the re-read of a moved note
and its rewrite or its return, the copy across devices, the governance line,
the applied or skipped line. `Crash` may fall between any two, `ReturnError` is a call
that fails; `Edit`, `HandMove` and `HandDelete` are everyone else. A journal
has one unsettled intent at most, since each is settled before the next.

### DreamRuns: `dreaming/run.go`, `gate.go`, `state.go`, `entities.go`, `ideas.go`, `manifest.go`, `taskmover.go`, `intents.go`

State: the journal as a sequence of runs, each with its mode, its run-done and
its intents' last lines; `state.json`'s `lastDone`; the clock and the last
activity. The drivers start with `BeginPass`, `BeginManifest` (`ApplyManifest`,
`MoveTasks`, `ApplyIntents`) and `BeginBuild` (`BuildEntities`, `Ideas`); `Commands` says
which are used. An intent is pending or settled: applied and skipped are not told
apart. `built` is the history of the runs a build started, and a run with one of
them right after it is `Hidden` from `Unfinished`. `ResolveOne`, `CloseResumed`, `SaveResumed`,
`Decide`, `CheckManifest`, `StartRun`, `JournalIntent`, `SettleIntent`, `EndRun`, `SaveState` are the
lines and saves a start makes, in the code's order; `Stop` is a kill or an
error return between any two.

It composes with the other two by abstraction: a start takes the lock
DirLock describes as exclusive, and its `SettleLine` is what a whole
`Commit` or `Resolve` of DreamJournal comes to.

### RunnerCycle: `scripts/runner/cycle.py`, `state.py`, `watchdog.py`

State: per job the marker and the failure streak on disk; per running cycle the
job it is at and what it has spent. `Begin` reads the spend; `Skip`,
`SkipOverCeiling`, `Miss` and `Decide` are the outcomes of considering a job, in
the order of the code's checks; `MarkStart`, `MarkDone` and `Record` bracket the
command; `Kill` may leave the file being written empty; `Clear` is the
operator's resume; `Tick` is the clock, which runs on while a command does.
`NextDue` and `InWindow` are the schedule arithmetic, windows over midnight
included. Manifests are a constant: a job's interval, lookback, window and
reported cost.

### ChildSupervisor: `embed/supervisor.go`, `rerank/supervisor.go`

State: where the supervise goroutine is (`loop`), what the last `runOnce`
returned, the backoff, the fields under the lock (`state`, `client`, `killChild`,
`fails`), the children (numbered in order; those alive, those that answer /health,
those that answer it and fail every request), and for each request where it is and
which child it asked. `Spawn`, `Healthy`, `GiveUpLoading`,
`Warm`, `NoticeExit`, `StopServing`, `Retry` and `BackoffOver` are the goroutine's; a
request reads the client (`Ask`), waits without the lock (`Answer`), and comes back to
count (`RecordSuccess`, `RecordFailure`, then `Kill`), so its answer may arrive after any
number of restarts. `own` and `strays` are the history of what the count holds against
the child that is warm: the failures of requests it was sent, and the callers whose
request had gone to a predecessor. Child 0 is a server someone else runs: the
one `Attach` points at, or one that sits on the fixed port and answers in a
child's place. `Close` may come at any time.

### VaultCommits: `watch/watch.go`, `vcs/`

State: the files (`wt`, and `away` for one the sync client is moving), git's index
and HEAD, the attribution marks, the quarantine of absences and which of them are a
grace old (`pend`, `ripe`), index.lock and its holder, and the cycle the watcher
goroutine is in. `Flush` and `Tick` start a cycle with what `Dirty` reports;
`Attribute` consumes the marks; each origin is one commit (`Begin`, path by path
`StagePresent`, `StageAbsent` through `Confirmed`/`Quarantine`/`StageDeletion`,
`Record`), with `SkipCommit` when git's lock is taken and `Heal`, the rollback and
the one retry when an object is missing; a tick goes on with the sweep and the
repack. index.lock is created (`TakeLock`) before it is signed (`Sign`), so `Crash`
leaves a blank lock or a dead daemon's, and half a commit in the index; the dead one's
pid may be taken by another process (`PidIsReused`, `PidEnds`). Only a lock that names
a dead process is taken away (`LockIsFree`); an `Abandoned` one waits for
`RemoveByHand`.
`CliReads`/`CliWrites` are a git client that stages in the same index;
`Vanish`/`ComeBack` a file in transit.

### EnrichNight: `daemon/cmd/agentmd`, `enrich/`, `ledger/`

State: the vault (a text and the judgment on it at each path), the paths the index
holds, the contract, the coverage `rows`, the refusal records, the enrichment
journal, and the running night with its queue, page, guards and candidate. A night
orders the indexed notes by `Cause` (why each is owed), fetches pages, asks
`Seen` and the refusals, and then pays: `CallFails`, `Refuse`, `JudgeFails` and
`Accept` are the outcomes of a model call; `Compose` reads the note again;
`JournalWrite`, `Move`, `Put` and `RecordDone` are the write, one file call each.
`Followed` hands a vanished note's row to the one note it can have become. `Save`,
`HandMove` and `Delete` are the operator, between any two steps; `Bump` is a
change of the contract or of the binary; `GiveUp` is a kill, a time limit or a
token line.

A note's text is an identity: a text is an initial note's, or the number of the
operator's act that wrote it. What a judgment says is left out; that it is a
judgment of this text under this contract is not.

### Capture: `capture/`, `index/index.go`

State: the files (a version, which stands for mtime and size, and what the
capture rules tell apart), the index rows (whose text each holds, and the mtime it
was filed under), the watcher's pending paths, where each client's request is, and
the watcher's pass. `Begin` is `Do` up to the choice between an idea's card, the
source's note and a new name; which of the notes it looks at cannot be read (`unread`)
is a fault of that look. A call keeps when it `began`, and when it last looked `at` the
path it will write. `ReadCard`, `Reserve`, `Put`, `Reread`, `Stat` and
`Row` are its file and index calls, and two requests run side by side. `Flush`
starts a debounced batch, `Tick` a full pass, which reads the rows, lists the
folders, compares (`Visit`), indexes (`ReadFile`, `UpsertFile`) and sweeps
(`SweepRow`). `Edit`, `Arrive` and `Remove` are the vault's other writers, `Lost`
an event the notifier drops, `Kill` the end of the daemon. `Units`, `Titles` and
`Texts` only say what requests and notes are made of (`Request`, `Note`); the files
to begin with (`Early`) are any notes of version 1.

## 3. The runs

| run | instance | shows |
|---|---|---|
| `queue` | one owner, three items, cap 2 a drain, 2 attempts, one aborted drain | safety under arbitrary enqueues and revivals, that every item is reached, and that every step is one `WorkLedger` allows |
| `lock` | two Go processes and a Python one, stale 2 ticks, one fault of any kind | exclusion unless takeovers overlap; reclaim of a crashed holder's lock |
| `lock_takeover` | three Python processes, one crash | **violated**: mutual exclusion |
| `journal` | three paths, one note, four contents, two jobs of up to two intents, two kills, one hand move or deletion | what survives, what an applied line means, every run ends |
| `journal_ungoverned` | two paths, one job of one intent, one kill | **violated**: what was made has its governance line |
| `runs` | passes, manifests and builds, two runs of two intents, interval 2, three ticks, two stops | crashed runs are resumed and settled, unless a build hid them; passes are spaced |
| `runner` | the nightly batch and a paid job that is due more often than the spend window, two and a half days, one kill | both spend limits, the ladder, punctual nights |
| `supervisor` | three concurrent requests, threshold 3, two doublings of the backoff, two faults | no orphan, condemnation for cause, an honest status, service again after every fault |
| `commits` | two paths, one of them the phone's, two changes, two faults | no staging is lost, no absence is recorded on sight, every file is recorded in the end, unless an index.lock is abandoned for good |
| `commits_deletion` | the same with one fault | **violated**: every deletion is recorded |
| `night` | two notes and a free path, pages of 2, a guard of 2 calls, a fuse of 2, one note no call answers for, two events | no edit is lost but in the write's own window, no row vouches for what was not judged, nothing is paid for twice, every note is judged |
| `capture` | two clients, one page and one idea, two names and a card, one change by the operator at the first name or the card, one fault | what a capture writes over, one note per source, the index catches up |

Why the bounds are enough:

- *queue*: three items and a cap of two are the smallest queue a drain cannot
  empty, so the cursor stops inside it, the next drain wraps, and items come and
  go on both sides of the starting point. Ids grow without bound in the code;
  here re-opened items keep theirs, so three items make three ids.
- *lock*: two waiters are needed for takeovers to meet, and a third process to
  have crashed. Stale 2 with heartbeats every tick is the code's ratio, and an
  age of 3 is as good as any later one.
- *journal*: three paths let a move's source, its target and an unrelated
  note differ; two jobs of two intents make a note be edited between the plan and
  the commit; the second kill falls into the resume of the first.
- *runs*: two runs and two stops give a crashed run, a crashed resume and a
  start after it, a build among them. The interval is two ticks of three, so a pass can come too early.
- *runner*: a day of 5 ticks, a window of 2 and a spend window of 3 keep the
  code's relations (a spend window that is shorter than a day, by the night).
  The batch runs on two nights, the second of which a delayed first would push;
  the brief job meets its own spend and the ceiling in between.
- *supervisor*: the threshold is the code's 3, and three requests are the fewest whose
  late failures condemn a child none of them was sent to: the run reaches that. Two
  faults are enough to break one child and the next.
- *commits*: two paths tell a commit's own path from another's; one of them is the
  phone's, so a cycle may have two origins. Two faults let a git client read, the
  daemon be killed before or after it signs its lock, or fail, and
  the client write; versions grow with the changes.
- *night*: a third path is where a note is moved to or renamed onto. The guard, the
  fuse and the page are the smallest that a note which always fails does not fill;
  two events let a note be edited and the night be killed, or moved twice.
- *capture*: two requests meet everywhere between look and write. With the name
  taken by an arriving note the second name is used, and the cap of two is reached.
  The operator's change is at the first name or at the card, where the races are; the
  one fault is a kill, a lost event, or a look that cannot read some of the notes. The
  run takes four minutes.

Deadlock is checked on `lock`, `lock_takeover`, `commits`, `commits_deletion` and
`night`. The others stop when a bound is reached or the child's supervisor is
closed, or, in the queue's case, are never without a step of the environment.

### Fairness

- *queue*: a drain is started again and again and its steps go on (the code's
  handlers return); nothing makes a discovery happen. `EveryItemIsReached` needs no
  more, though other items are re-opened for ever.
- *lock*: callers come back, a process that is neither dead nor suspended runs,
  a suspended one is resumed, critical sections end, time passes. A process
  given a deadline may give up: it is `Start` that brings it back.
- *journal*: the trigger starts a pass again and a running pass goes on.
- *runs*: a step of a running start goes on, and the nightly pass is started for
  ever and gets the lock now and then (strong fairness, as other commands
  may hold it in between).
- *runner*: no liveness is claimed; `RunsOnTime` is a bounded form of it, as an
  invariant over the clock, and counts only what the trigger did not miss.
- *supervisor*: the goroutine goes on, weights load, a child without its port exits,
  whoever sits on the port leaves it one day, and searches keep coming and are
  answered (every request has a timeout). Nothing makes a fault happen.
- *commits*: the watcher's steps go on, its ticker fires (strong fairness: batches
  may always come first), a grace passes, a git client finishes what it began. Nothing
  makes a reused pid end or anybody remove a lock by hand.
- *night*: the runner starts a night again and again, a running night goes on, the
  daemon reconciles. `EveryNoteIsJudged` needs the notes no call answers for to be
  fewer than the fuse and the guard: as many at the head of the queue starve the
  rest in the code too.
- *capture*: requests run to their end and the watcher goes on; its only way to
  go on for ever is to tick.

## 4. What is proved

Each theorem holds for every value of the constants that meets the module's
assumption, and every number of faults, changes and events. The argument is the
usual one: an invariant stronger than the
property, true initially and preserved by every action.

| theorem | needs | the invariant, and why the property is not inductive alone |
|---|---|---|
| `WorkQueueProofs`: `TypeCorrect`, `RetriesBounded`, `ParkedExactlyAtTheCap` | | `RetryInv`. The cap on `attempts` only holds because what a drain holds is pending (`HeldIsPending`), which only holds because a drain's page and its current item are of its own owner and disjoint (`ItemLeftThePage`). `TriesAccounted` says who pays for each handler call: a recorded failure, a drain that was cut short, or the call now running. |
| `WorkQueueProofs`: `SilenceIsCoverage` | | `CoverInv`, beside `RoundInv`: what was owed when a drain began, and has been neither handed over nor settled since, is in front of it in the order it goes (`Ahead`), so nothing is left when it runs out of pages. A page is the first items there are (none is skipped), so only a drain with nothing pending in front of it gets an empty one; that there is a first one is `LeastNatural` below. |
| `WorkQueueProofs`: `QueueImplementsLedger` | | `RetryInv` and `AbsentIsFresh` (work without a row has no attempts): each statement is one step of `WorkLedger` or none, and the interesting ones are the cuts: a drain that is aborted with an item in hand drops it, one without changes nothing. |
| `WorkQueueProofs`: `NoItemTwiceInOneDrain` | | `RoundInv`: ids are unique and newly given ones the highest (`Numbered`), so what a drain has handed over lies, in the order of ids around the cursor, between its start and its position (`Behind`), and everything still to come outside. |
| `DreamJournalProofs`: `TypeCorrect`, `ClobbersOnlyWhatRaced`, `AppliedIsRecorded`, `NoIntentIsLeftBehind` | | `JournalInv`. `Watched`: from the check to the end of the write the intent's paths hold nothing, what the intent names, or what arrived since. `Fresh`: new content exists nowhere before the pass writes it, so a resume that finds it may conclude that the write was made. `Recorded`: the governance line precedes the applied line; `Settled`: run-done follows both. |
| `DreamRunsProofs`: `PassesAreAnIntervalApart` | | `Clocked` and `Spaced`: the saved clock is behind the last pass only between its run-done and its save. |
| `DreamRunsProofs`: `NothingIsForgotten` | | `Kept` and `Closed`: every run but the last is clean or hidden, and a start that is about to write a run-start has found, or made, the last one closed, unless it is a build. A hidden run stays one (`HiddenStays`): run-starts are only appended. |
| `DreamRunsProofs`: `ReportsWriteNothing` | | `Timed` and `Lined` are `TypeOK` in two parts. `Applying` joins them: who journals an intent is applying, and then so is the run it writes to, across a resume too; so a run that only reports has none. |
| `DreamRunsProofs`: `LockIsTyped`, `LockIsExclusive` | | `LockInv`. Until an overlap, a live holder is the process that made the directory (`Sound`) and its age is at most the time since its own heartbeat, so only a dead process's directory is ever found stale or dead, and the one waiter about to remove it removes nobody's lock. |
| `RunnerCycleProofs`: `RealRunsAreHonest` | | `Sorted`, the types and that a busy cycle is at a job. |
| `RunnerCycleProofs`: `LadderBoundsAttempts`, `StoppedStaysStopped` | `OneCycle` | `Ladder`: a job is in hand below the stop rung only, and each start was counted as a failure, was cut short, or is running. |
| `RunnerCycleProofs`: `PaidJobsRunOncePerWindow` | `OneCycle`, `LateIsOutsideWindow` | `Accounted`: a paid run is still on the job's marker, or is outside the window for every cycle there is. |
| `RunnerCycleProofs`: `SpendStaysUnderTheCeiling` | `OneCycle`, `LateIsOutsideWindow` | `Accounted`, `Priced` (a bill and a marker show what the manifest says) and `Funded`: what a cycle read from the markers and spent itself is at least what was spent in its window, though markers are torn, overwritten and missed. |
| `RunnerCycleProofs`: `NightsDoNotDrift` | `OneCycle`, `Regular(j)` for every job | `Clocked` (a cycle takes a tick for each command) and `Timely`: a job nothing disturbed was run so lately that a beat of the trigger at which it may run again still comes (`Room`). |
| `ChildSupervisorProofs`: `SupervisorTypes`, `NoChildIsOrphaned`, `DegradedChildIsCondemned`, `ChildIsCondemnedForCause` | | `SupInv`. `InService`: the only child a request could kill is the youngest, while it serves, or what was in service at `Close`. `CountIsFair`: the count is at most the failures of its own requests and the callers that failed late. That these count once each needs `LateOnce`: a caller that has failed late and asks again asks the child in service. |
| `VaultCommitsProofs`: `CommitTypes`, `StagingIsNotLost` | | `TypeOK` says who may write the index: a client has a copy only under its own lock, the watcher stages only under one it made (`Holding`, `NoCopyMeanwhile`), blank or signed. `CopyIsFresh`: a client's copy differs from the index in its own path only. `OnlyLookedAt`: an attempt that may be rolled back has changed only paths it has looked at. |
| `VaultCommitsProofs`: `AbsenceIsConfirmed` | | `QuarantineInv`: every absence on hold was seen, and a ripe one a grace ago, in the quarantine and in the copy a rollback would bring back. |
| `EnrichNightProofs`: `NightTypes`, `WordsSurviveTheNight` | | `Typed` (versions count events; a writing night has a candidate and a destination) and `Safe`: from the second reading to the write, the note to be replaced holds what was read, or what came in between; and what was read is in the journal before anything moves. |
| `EnrichNightProofs`: `LedgerVouchesForJudged` | | `Vouched`: a done row fits only texts a judgment was made from or that arrived under the night. It needs `Read`: what the night's page holds of a note is what is there, or what is there is accounted for, through the second reading, the rename and `Follow`. |
| `EnrichNightProofs`: `PaidForStaysPaidFor` | | `Dated` (a done row fits no contract that is still to come, so no later one makes it fit again) and `Unpaid` (no row fits the note that is being written): a row is then only replaced by one for what the night read there, which is the note unless it is `Outdated`. |
| `CaptureProofs`: `CaptureIsTyped` | | `Typed`. A row's, a call's and a pass's versions are not younger than the clock, a row that is filed has a text (`text.of # 0`), and a request that has not written yet owes its tick (`Owed`), without which the bound on the clock is not inductive. |
| `CaptureProofs`: `NothingUnreadIsReplaced`, `SecondNotesAreUnseen` | | `Informed`: from its look to its write, what a request knows of the files is true, or came after its look. `ReadLately` says so of the one file it is to write over, `SawNone` of all the notes of its source and title that it could read, when it is to make a new one. Both are about several steps of everyone else, and the properties only speak of the last step. |
| `CaptureProofs`: `SkippedFilesAreCurrent` | | `Filed`: a row, and one a call or the pass is about to file, is filed under its text's own mtime, under none, or under one the path does not have, unless the path is raced. What is held goes on fitting because the file either stays or gets a version younger than any mtime taken before (`Aged`, `FitsStays`). It is what `IndexCatchesUp` needs of every pass; that the passes come is left to the run. |

`OneCycle` says that no two triggers have a cycle running; the code does
not enforce it, and section 5 says what happens otherwise.
`LateIsOutsideWindow` says that a paid job is called missed only once its last
run has left the spend window; without a window `interval + lookback >=
SpendWindow` is enough (`WindowlessIsLate`), and the paid jobs shipped in
`templates/jobs` meet it; section 5 says what happens to one that does not.

`Regular` describes a manifest that does not squeeze its own job out: a window of
whole days that outlasts the fleet's commands, with a lookback as long, or no window
and an interval and lookback of that much; the manifests in `templates/jobs` are
of these two kinds, and `RegularHasRoom` shows that either leaves `Room`. With a
lookback shorter than the commands of a cycle a job can be called missed on a night
that is on time.

Two arguments go beyond the usual one. A sum over a set cannot be proved about
by induction here, as the induction theorems take an operator as a parameter; so
`RunnerCycleProofs` counts a sum's units: `MapThenSumSet` over a finite set is the
size of the set of its units (`SpentIsUnits`), and what was spent is compared with
what the markers show by mapping units to units. And where a least element is
needed (the next page of a drain, the first of a source's notes, the smallest set a
count is wrong for), `LeastNatural` and `SmallestSubset` take it from the well-founded order
of finite sets, which the library states without such a parameter. Both are for the
sets at hand; induction over data in general stays out of reach.

`ParkedExactlyAtTheCap`, `StoppedStaysStopped`, `RealRunsAreHonest`,
`DegradedChildIsCondemned` and `SkippedFilesAreCurrent` are theorems only: no run
repeats them.

Only model-checked:

- liveness, which the prover does not do: `EveryItemIsReached`,
  `CrashedLockIsReclaimed`, `EveryRunEnds`, `EveryIntentIsSettled`, `WarmIsHonest`,
  `ServesAgain`, `EveryFileIsRecorded`, `EveryNoteIsJudged`, `IndexCatchesUp`.

Every other property of a passing run is stated by a theorem.

## 5. What the models found

| run | what the code says | what it does |
|---|---|---|
| `lock_takeover` | `vault_lock.py:373`: mkdir is the guard if two waiters race | both waiters find the directory stale; the later `rmdir` removes the directory the earlier has just made, and both are inside |
| `journal_ungoverned` | `run.go:513`: a crash anywhere leaves a state Resolve can finish | killed after the write, note edited, resumed as a conflict: the governance line is never written |
| `commits_deletion` | `watch.go:235`: git keeps reporting a deleted file until the deletion is recorded | a removal staged by a commit that then failed, or by a git client, is reported for ever and never committed |

The properties that hold say, in their exceptions, what else the code allows.
These were met while modelling, and no run is kept for them:

- *lock*: on SIGINT the lock is removed by the handler and again as the stack
  unwinds, by then perhaps another's (`vault_lock.py:399-401`, 450); the handler takes
  a non-reentrant lock its own thread may hold (248); a holder that is suspended past
  the stale age and wakes up works on and releases its successor's lock
  (399-401), which `ExclusiveUnlessOverlap` excuses as an overlap; a waiter whose
  `rmdir` keeps failing never looks at its deadline (374-379).
- *journal*: "never forced" (`journal.go:213-214`) does not hold for a save between
  the check (420) and the rename (441); the applied line (525) may be durable before
  the rename it speaks of, after a power loss.
- *runs*: an entity or idea build writes its run-start without resuming
  (`entities.go:701`, `ideas.go:335`) and so hides a crashed run from `Unfinished` for
  ever. `NoForgottenIntent` and `EveryIntentIsSettled` excuse exactly those
  runs. A report-only pass that is killed and resumed moves `LastDone` (`run.go:165`, against `state.go:16-17`).
- *runner*: an overlapping cycle takes a running job's start marker for an orphan
  and starts it twice (`cycle.py:319-320`); `mark_missed` writes over the cost that
  held a paid job back (`state.py:118-124`); what an interrupted run spent is on no
  marker (`cycle.py:437`). A job that takes the runner down with it is started in every
  cycle (`cycle.py:319-320`), and a torn health record starts the ladder again
  (`state.py:56`): `AttemptsAreBounded` counts both apart and bounds neither.
- *supervisor*: a child that was healthy once and dies on its first request resets
  the backoff, since `runOnce` returns served (`supervisor.go:221-224`, 238-240).
  `recordFailure` (457) does not ask which child failed: three requests whose answers
  come after the restart kill a healthy child that was sent none of them, though 77-81
  speak of a run of failures against one child. `CondemnedForCause` says that each
  caller adds one such failure at most.
- *committer*: a deletion that a later commit confirms, rather than the sweep, is
  recorded under that commit's origin (`git.go:521-526`), not the one it was first seen
  under, which is what the quarantine keeps it for (122-125). A daemon killed between
  creating index.lock and signing it (`indexlock.go:177-179`) leaves a lock that names
  nobody, which `ownStaleLockPid` (`heal.go:251-268`) does not call stale; nor does it one whose
  pid another process has by now. Every later commit is skipped until somebody removes
  the file: `EveryFileIsRecorded` holds unless that state is the last.
- *enrichment*: a note that is moved or deleted during the model call is written
  again at its old path, since the re-read's error is dropped (`main.go:1706`), though
  `wiki/designs/agentm-vault.md:300` says that a file that moved is skipped. A rename
  onto an existing note destroys it with nothing in the journal. A night that read a
  path before a note was moved there may replace that note's done row. The row of a
  note that was edited during the call vouches for the edit (`ledger.go:37-38` says
  "content the stage was handed"). Notes that always fail, as many as the fuse, at the
  head of the queue starve the rest.
- *capture*: the comment above `reserve` says that it keeps two captures in the same minute
  from overwriting each other (`capture.go:578-580`); it only looks, so of two
  that look before either writes the later rename wins. And the mtime a row is filed
  under is read from the path after the write (553): an edit in between is never
  indexed, as every pass finds the row up to date (`index.go:649`), though that
  pass is what "makes correctness independent of the notifier" (583). The first is what
  `ReplacesWhatItRead` excuses after the last look, the second what `raced` takes out of
  `IndexCatchesUp`. A folder or note that cannot be read is skipped by the search for the
  source's note (`samesource.go:103-105`, 112-114), so one transient error makes a second
  note, with no race: `OneNotePerSource` excuses the notes in `unread`.

## 6. Not modelled

Within the modules: the listings and counts of the queue (`Dead`, `Depth`,
`Blocked`) are queries; Windows's PermissionError branch of the Python lock;
power loss (a kill loses no completed write); what a dreaming job plans;
runner jobs that are disabled or dry runs, which only add to a report, and
the parsing of manifests. A vault's content is a version, not text. Of the
committer: Unicode spellings, backups, worktree checks, the filter of events, and
the index.lock that a repair outside a commit (at the start, or when the status fails)
holds while it repacks: that repair is one step of `Dirty` or of `Crash`. Of
the night: the numbers behind the token and time limits, the cycle budget, gates that
decline a note for good, the compaction of refusals, two nights at once, `--sample`,
and the rebuild of rows from stamps. The night's keys are made from the contract as
read at its start, while rows and stamps read it live: that is modelled. Of capture: the
search for the source's note, which is one step, and which
of a request's fields are valid and how a note is rendered; of the index: the text,
chunk, link and entity rows, which ride in the row's transaction.

Other components: `PROJECT.json` lists each with its reason: pure text functions,
read-only reports, wiring, or services outside the repository. One that has a
protocol and no model yet is the source registry (`sources/registry.go`,
`durability.go`): a rebuild there is not one transaction, so a kill leaves an
emptied table which a later save makes the sidecar.

## 7. Plan

The modules of section 2 are the parts every mutation of a vault goes through.
Next, in this order:

1. **Registry** (`sources/`): mark, supersede and the rebuild over table and sidecar,
   with kills.
2. The rebuild of the coverage rows from stamps (`ledger/rebuild.go`), beside a
   running night.
3. Compositions: `DreamRuns` as the abstract specification that `DreamJournal`
   implements (an intent's life refines its two lines), `DirLock` under
   `DreamRuns` in place of an exclusive lock, and `Capture` under `VaultCommits`.
