# PrAImate: verification of its protocols

PrAImate is a desktop application and a command line around AI agents: chats,
agent packages, knowledge, schedules, backups, and **workers**, runs in which a
lead plans a graph of tasks, several agents carry the tasks out in parallel in
git worktrees, and the user reviews the results and merges them into the target
branch. This directory holds TLA+ modules that model what the code does, TLC
configurations that check them on small instances, and proofs of the properties
that matter most, checked by TLAPS for every instance.

The main subject is the orchestrator (`src/internal/orchestrator/`, with the
snapshot store in `src/internal/core/`): many goroutines over one mutex, state
that is copied, published and saved at different moments, a repository that
changes outside the database, and a restart that must make sense of whatever was
saved last. Three further parts have a protocol of their own, each between
processes: the host's store of skills, which several processes share under a file
lock; backups, which merge the databases of several machines through git; and
detached terminals, which stream a terminal into a window of another process.

Every definition that stands for code names its lines in `PROJECT.json` (`map`).

## 1. Inventory

`PROJECT.json` lists every component with what is modelled of it. The parts that
keep state and interact:

| part | state | operations | hard behaviour | correct when |
|---|---|---|---|---|
| **Task graph runs** `dag_manager.go`, `automatic_retry.go`, `task_recovery.go`, `run_settings.go` | `Run` with its `DAG` (tasks, dependencies, review marks, merge fields) under `Manager.mu`; the executor's private copy of the tasks; one local task per goroutine; the last saved snapshot; the target branch | plan, edit, execute, retry, reset, review, merge, clean up, cancel, restore | copies published at different times; retry timers against Stop; saves that fail; the branch moving before the database knows | dependencies first; accepted results closed under dependencies; nothing merged twice or forgotten; nothing stranded; Stop stops |
| **Worker manager** `manager.go` | the map of runs, their cancel functions, `closed`, the store's rows | start, continue, execute, cancel, delete, stop, restore | capacity over several kinds of runs; a store write between two critical sections; deletion racing execution; shutdown racing start | capacity; a cancel reaches the execution it was meant for; shutdown ends and stays ended; what was started survives a restart, what was deleted does not return |
| **Worktrees and dependency integration** `worktree.go`, `dependency_conflict.go` | a worktree's base, pending base and pending commit; git's own state | create, verify, integrate dependencies, stage a resolution, complete, merge, remove | a crash or a conflict between two cherry-picks | every dependency's change is in the worktree exactly once, in order |
| **Graph algorithms** `dag.go` | none | validate a plan, order dependencies, order a merge | cycles, shared ancestors | the search visits the transitive dependencies, each after its own |
| **Worker runner** `run.go`, `config.go` | step count, shared dispatch count, corrective turns, message history | turn, delegate, correct, return | recursive delegation with shared limits | bounded work; a dispatch is never over the shared limit |
| **Activity journal** `journal.go`, `activity.go`, `attempts.go`, `core/worker_snapshot.go` | pending events, bounded live log, snapshot row and journal rows | record, merge stream events, save, trim | a merge of a new event into one already saved; trimming while saving | every event is journalled once, in order, with the snapshot that shows it |
| **Managed agent runs** `internal/agentic/`, `core/agentic_*.go` | `run.json`, `memory.json`, `checkpoint.json` | start, step, checkpoint, interrupt, recover | three files written one after another | recovery makes sense of each prefix |
| **Approval broker** `cmd/praimate-gui/approval_broker.go` | pending requests, each with a channel and a timer | ask, answer, time out, close | a late answer against the timeout | one outcome per request |
| **Schedules and watchers** `core/schedules*.go`, `core/watchers*.go` | next fire time in the store | tick, fire, mark | a run that fails before its mark | fired or rescheduled |
| **Encrypted store and key envelope** `internal/store/` | database file, key envelope, copies of both while a key changes | open, rekey, recover | a crash between the two files | one key always opens the database |
| **Backup and synchronisation** `internal/backup/`, `core/backup_state.go`, `backup*.go` of the desktop application | each machine's database, branch and working tree; the remote; the directory of a pending restore | sync, push, pull, merge, rebase, reset, force, import, restore | two machines; git merging what is encrypted; a restart between a landing and its import; envelopes of another password | an export overwrites nothing that was not imported; what is imported is in the database; the remote loses no row |
| **Skills host store** `internal/skills/` | the head, immutable records, package generations, a lock | view, update (register, approve, hold, forget, restore, migrate), release a checkpoint, collect | several processes; a death between any two writes; collection against rollback | every retained checkpoint loads; holds and approvals change only as they were told to; no update is lost |
| **Detached sessions** `detached_session.go`, `pty.go`, `DetachedSession.svelte` | a bounded history and queue, a handler per connection, the client's store, the page's cursor | record, publish, stream, reconnect, replay, close | overflow; a left-over handler; a late renderer; chunks, snapshots and resyncs in any order | each chunk is shown once and in order; nothing is forgotten silently; a window never blocks the terminal |

The rest (CLI adapters, document conversion, installers, updater, voice,
packaging, user interface) reads, converts or displays and has no protocol of
its own; `components` gives the reason for each.

**How they interact.** The front ends call `orchestrator.Manager`. Each call
takes `Manager.mu`, checks, changes a `Run`, saves it through `saveRunLocked`
(one SQLite transaction with the pending events), and starts at most one
goroutine per run, which owns `run.cancel`. That goroutine calls back into the
Manager to publish what it did, calls `Worktree` for git, and the `Runner` for
the model or the CLI of a worker, and reports activity through
`recordDAGEvent`, which saves again. Goroutines of one run share nothing but
`Manager.mu` and a result channel. The store of skills, the backup and the
detached windows are called by the front ends apart from that; what they share
with it is the database, which a backup exports and imports row by row.

### Hazards

`PROJECT.json` lists them at their lines with the properties that would catch
them. Those of the orchestrator fall in four groups: decisions taken on a private
copy that another goroutine's view contradicts; a save that fails, or a crash,
between two steps that only make sense together (the branch moves, then the run is
marked merged); sequences of legal user calls over several executions (continue,
reset, reject, merge again); and races with Stop (a retry timer, a result channel,
a run continued meanwhile). Those of the other three are files that only make sense
together and are written or merged one by one, revisions read before a lock is
taken, and messages lost, repeated or reordered between two processes.

## 2. Plan

In order of importance to the system:

1. `TaskGraph`, `WorkerRun`, `ReviewedGraph`: one run with a task graph from its
   plan to its merge, with crashes; its promise as an abstract specification;
   the proofs in `WorkerRunProofs` (types, and the graph) and
   `WorkerRunBranchProofs` (the branch, and the refinement). *Done.*
2. `WorkerManager`: several runs, capacity, start, continue, delete, cancel,
   shutdown and restart, with proofs; `ManagedRun`, which composes it with
   `WorkerRun`, with the proof that the one run is one of the many. *Done.*
3. `DependencyIntegration`: what `WorkerRun` takes as one step that succeeds or
   fails, command by command, with proofs. *Done.*
4. `SkillHost`, `BackupSync`, `DetachedTerminal`: the three protocols between
   processes, each with its proofs. *Done.*
5. `KeyEnvelope`: changing the key of a database, and recovery from a death
   between the two files.
6. Schedules and watchers: what is marked before and after a run that fails.
7. `ActivityJournal`: events, their merging, trimming and the atomic save;
   `WorkerRunner`: the limits of a worker's turns and delegations.
8. Managed agent runs, the approval broker, `dag.go`'s searches.

Every invariant, every action property and both refinements that a passing run
checks are proved. The three liveness properties (`CancelEnds`, `ExecutionEnds`,
`StopEnds`) stay with TLC: TLAPS has no `ENABLED`, which weak fairness is made of.
## 3. One run: `WorkerRun`

### State

| variable | code |
|---|---|
| `run` | `Manager.runs[id]`, the `Run` and its `DAG`, guarded by `Manager.mu` |
| `disk` | the snapshot row: the last `run` for which `saveRunLocked` succeeded |
| `branch` | the target branch, as the list of its commits; a task stands for its result commit, `UserCommit` for anybody else's |
| `active` | whose `run.cancel` it is: the planner's, the executor's, a merge's, or nobody's |
| `cancelled` | `ctx.Err() != nil` of that owner |
| `graph`, `loop` | `executeDAG`'s copy of the tasks, and its loop: it scans, waits on the channel, or has chosen the task it launches next |
| `job[t]` | the goroutine `executeDAG` starts for `t`: where it is, its local task, the dependency results it was handed |
| `merge` | `mergeDAG`'s local variables: where it is, the tip it built, the tasks it selected |

A task record keeps the fields decisions depend on: `Status`, `Review`, whether
a result exists and whether it changes a file, whether it has a worktree,
`DependenciesReady`, `ResolveConflicts`, whether the failure was in the phase
`dependencies`, and `AutomaticRetries`. Names, prompts, routes, timestamps and
error texts are left out.

### Steps

A step is what one goroutine does between two points at which another can see
it: it holds `Manager.mu` once at most, or is one group of git commands. Where a
function restores what it changed when a save fails, the failing call is no step;
where it does not (`executeDAG`, `mergeDAG`, `ResetDAGTask`, `publishTask`), the
step has a second outcome in which `disk` stays behind. `SavesMayFail` says
whether the database may refuse at all.

| actions | code |
|---|---|
| `PlanSucceeds`, `PlanFails`, `RetryPlanning`, `UpdateDAG`, `UpdateRunConfig`, `UseDAGTaskProfile` | `plan`, `RetryPlanning`, `UpdateDAG`, `UpdateRunConfig`, `UseDAGTaskProfile` |
| `ExecuteDAG`, `BlockTask`, `ChooseTask`, `LaunchTask`, `AwaitResult`, `ReceiveResult`, `FinishGraph` | `ExecuteDAG` and the loop of `executeDAG` |
| `SetUp`, `SetUpFails`, `Integrate`, `IntegrateFails`, `Complete`, `ExecuteFails` | `executeDAGTask`, split at its publications |
| `ScheduleRetry`, `RetryNow`, `RetryCancelled` | `executeDAGTaskWithRetries`, `waitForRetry` |
| `RetryDAGTask`, `ResetDAGTask`, `ReviewDAGTask`, `CleanupDAG` | the functions of these names; `ResolveDAGTaskConflicts` is `RetryDAGTask` with `resolve` |
| `MergeDAG`, `MergeCreate`, `MergeIntegrate`, `MergeCheckpoint`, `FastForward`, `RecordMerge`, `RemoveMergedTree`, `FinishMerge` and their failures | `MergeDAG`, `mergeDAG` and `WorktreeManager.Merge`, split at the two checkpoints, the fast-forward and the record |
| `Cancel`, `RecordEvent` | `Cancel`, `recordDAGEvent` |
| `Crash` | the process dies and `restore` runs on the last snapshot |
| `CommitToBranch` | someone commits to the target branch |

`FastForward` has two outcomes for the caller after the branch moved, because git
can be killed, or its context cancelled, after it wrote the reference.

`Crash` keeps git's state and loses everything in memory. There is no separate
restarted state: nothing can observe the program between dying and restoring.

### Abstractions to know about

- The executor's `ctx.Err()` is read without the mutex, and the task is published
  as running afterwards (`dag_manager.go:312`, `316`): these are two steps,
  `ChooseTask` and `LaunchTask`, and `Cancel` may come between them. The `go`
  statement belongs to the second one, since nobody sees the goroutine before
  its own first step. In a goroutine that reads its context, works and then
  publishes, the step stands at the last look: a `Cancel` between the look and the
  publication counts as later. No property distinguishes the two there.
- `executeDAG` scans tasks in index order and then waits; the model scans in any
  order. Every order of the code is one of the model's.
- Read-only git queries (`merge-base --is-ancestor`, `rev-parse`) answer. A
  restart whose query times out is the one hazard this hides; it is listed.
- A task's integration is one step here, and its details are the subject of
  `DependencyIntegration`.
- A planner or worker is anything that answers or fails; the model does not say
  when.

### What is checked

| run | instance | properties |
|---|---|---|
| `graph` | three tasks, a join and a line (editing a draft switches between them), two at a time, results with and without changes, no failing saves | `StartedAfterDependencies`, `ReviewsClosed`, `BranchInOrder`, `CompletedWorkKept`, `KeepsPromise` |
| `crash` | two dependent tasks, one automatic retry each, saves that may fail, one commit from outside | `TypeOK`, `CopiesAgree`, `NoStrandedTask`, `MergesRecoverable`, `MergedForever`, `CancelStops` |
| `live` | two dependent tasks, with and without a retry, fairness | `CancelEnds`, `ExecutionEnds`; `IsManaged` (section 5) |

*Why these bounds.* Three tasks are the fewest with a join (two results combined
in one integration) and with a dependency that is only transitive; two at a time
is the fewest that makes `MaxParallel` bind on them. Every hazard of a snapshot, a
retry or a merge shows on two dependent tasks: one that is a dependency and one
that has one; a second retry or commit repeats the first. Commits from outside,
failing saves and three tasks are not combined in one run, since each multiplies
the states, and the proofs cover the combination for the properties they state.
No other counter is bounded: continuation, reset, merge and crashes repeat for
ever.

`KeepsPromise` is refinement. `ReviewedGraph` knows six sets: the graph, who
works, what is done, what changed files, what is accepted, what landed. It says
that work starts on completed dependencies, that acceptance goes dependencies
first and rejection dependents first, that the branch takes closed sets of
accepted changes, and that a dying process loses completed work only from the
top of the graph and never accepted work. `WorkerRun` computes each of them from
its own state with an `INSTANCE ... WITH`, and every step of it is a step of the
promise or a stutter.

### Fairness

`FairSpec` assumes no more than the scheduler gives:

- a task goroutine and the executor's loop move on, **except** while a worker is
  called (`AwaitsWorker`): a profile may have no timeout, so the call may last for
  ever, until its context is cancelled; every adapter returns when it is;
- a planner likewise ends only when it is cancelled;
- a merge moves on: its git commands have timeouts;
- the user, crashes and the outside world owe nothing.

`CancelEnds` holds under that alone. `ExecutionEnds` says the rest: *if* workers
answer, an execution ends by itself, because retries are counted and every
goroutine sends its result.

### What is proved

For every finite non-empty set of tasks, every set of acyclic graphs, every set
of configurations and every parallelism (the named assumptions
`TasksAssumption`, `GraphsAssumption`, `ConfigsAssumption`, `LimitsAssumption`,
`ResultsAssumption`, `CommitAssumption`, and `LoopAssumption`, that no task is
called `"scan"` or `"wait"`), with crashes, failing saves and commits
from outside without bound:

| theorem | statement |
|---|---|
| `TypeCorrect` | `Spec => []TypeOK` |
| `Invariance` | `Spec => []IndInv` |
| `DependenciesFirst` | `Spec => []StartedAfterDependencies` |
| `ReviewsStayClosed` | `Spec => []ReviewsClosed` |
| `CopiesStayEqual` | `Spec => []CopiesAgree` |
| `NothingStranded` | `Spec => []NoStrandedTask` |
| `BranchInvariance` | `Spec => [](IndInv /\ BranchInv)` |
| `CommitsLandInOrder` | `Spec => []BranchInOrder` |
| `NoMergeForgotten` | `Spec => []MergesRecoverable` |
| `CompletedWorkStays` | `Spec => CompletedWorkKept` |
| `CancelStopsWork` | `Spec => CancelStops` |
| `MarksLast` | `Spec => MergedForever`, if `~SavesMayFail` |
| `RunKeepsPromise` | `Spec => KeepsPromise` |
| `MarkedChangesAreInBranch` | a change marked merged, in memory or on disk, has landed |
| `RestSurvives` | `Spec => []RestSaved`, if `~SavesMayFail`: a run nothing works on is restored as it is shown |
| `NoTaskUntried` | while a task is pending the scan finds something to do, and an execution that is not stopped leaves none pending |

None of these is inductive. That dependencies are complete before a task starts
depends on the executor's copy telling the truth about `run`, which depends on
no user call being possible meanwhile, on the goroutines' copies, and, after a
crash, on what the snapshot could have been. `IndInv` has a part for each:

- `ExecutorInv`: a goroutine lives only inside an execution; what it holds agrees
  with the executor and the run; its dependencies are complete and will stay so;
- `LoopInv`: between the choice of a task and its launch the execution is active,
  the task pending and its dependencies complete, though the context may be gone;
- `MergeInv`: the tasks a merge selected are those the run names, and accepted
  and closed, as long as the merge is under way;
- `GraphRuns`: an execution's run has the status `running`, so a snapshot of it
  is interrupted by a restart and not taken for a settled one;
- `Kept(run)`: dependencies first and reviews closed, in memory;
- `Restorable(disk)`: the same of the snapshot, plus what makes `restore` safe: a
  named merge candidate belongs to a closed set of accepted tasks, and a task
  under way belongs to a run saved as running.

`WorkerRunProofs` first proves lemmas about changes of a snapshot
(publishing a task, marking, resetting, interrupting keep `Kept`), then one lemma
per action or family of actions, then combines them. `IndInv` was checked by TLC
on the instances of `graph` and `crash` before it was proved.

The branch is the one thing a restart does not take back, and `IndInv` says
nothing of it. `BranchInv` (`WorkerRunBranchProofs`) follows a commit from the
acceptance of its task to the branch, and has a part for each place where the two
could part:

- `InOrder(run.deps, branch)`: each task's commit once, dependencies first;
- `CandidateInv`: the tip a merge is building is in that order too, holds only
  what has landed and what was selected, and is named by the snapshot before the
  branch may move to it;
- `Covered`: what has landed is marked merged, or a merge that is about to mark it
  is under way; with `MergesRecoverable` this is why no merge is forgotten;
- `Fresh` and `Planned`: a draft has nothing reviewed and no execution, so
  `UpdateDAG` and a second plan replace no graph that has something on the branch;
- `SavedDeps`: once something landed, the snapshot has the graph it landed for, so
  a crash does not bring another one back.

`MergedForever` needs the hypothesis that no save is refused. A merge of results
that change no file has an empty candidate, which every branch contains; if the
save of its marks is refused it counts as merged in memory, and a crash loses the
marks. Nothing is lost with them: there was no change to land. The run `crash`
checks the property with refused saves and results that all change a file.

`CancelStops` says what `Cancel` can promise. A task that was chosen before it is
published as running and launched after it, so "no task starts after Cancel" is
not true of this code; what is true is that it is at most that one task, that no
other is chosen, and that no retry begins.

For the refinement a third invariant, `PromiseInv`, says what a snapshot may be
behind in: finished work, and never what the user accepted (`Behind`); and that a
mark speaks only of what the branch has (`MarksLanded`), because a candidate that
a restart will recognise holds all the changes it will mark (`Filled`). Then each
action is a step of `ReviewedGraph` or a stutter: `LaunchTask` is `Start`,
`ReceiveResult` is `Finish` or `GiveUp`, `ReviewDAGTask` is `Accept` or `Reject`,
`FastForward` is `Land` of the changes that are new to the branch, `Crash` is
`Interrupt`. `BranchInv` and `PromiseInv` were checked by TLC with refused saves
and results with and without changes before they were proved.

`RestSurvives` says what a user expects of closing the application while nothing
runs. After a crash the snapshot may still say `merging`, and it stays so until
the next save: a second restart must make of it what the first made. It would not
if a commit from outside could turn the candidate into an ancestor of the branch;
`OwnCandidates` says that it cannot, because a candidate the branch does not have
ends in a task's commit. Removed worktrees are exempt (`SameButTrees`):
`CleanupDAG` may stop between a removal and the save. Without the hypothesis it
is false: `ResetDAGTask` and an execution that ends keep in memory what was not
saved.

`NoTaskUntried` is what can be proved of an execution's end for every graph. Among
the pending tasks one depends on none of the others (`FirstOf`, from the
well-foundedness of strict inclusion on the finite sets of ancestors, so an
acyclic graph is needed and `PromiseInv` provides it); when nothing runs its
dependencies are settled, so it is blocked or chosen, unless one is chosen already. Both were checked by TLC,
on two tasks with a commit from outside and on the instance of `graph`, before
they were proved.

Only model-checked: liveness, which TLAPS does not do for lack of `ENABLED`.
`NoTaskUntried` is the part of `ExecutionEnds` that needs no fairness.
`TaskGraph` states the closure as a least closed set instead of computing it, so
that a proof needs no induction on paths; `Acyclic` is all the proofs use of the
graph.

## 4. Dependencies into a worktree: `DependencyIntegration`

`WorkerRun` takes "the dependencies are integrated" as one step. Here it is taken
apart: one task, its worktree, and the git commands `IntegrateDependencies`,
`continueDependency`, `StageResolvedDependency` and `Complete` give, one step each.

| variable | code |
|---|---|
| `head`, `pick`, `index` | git's state: commits above the run's base, `CHERRY_PICK_HEAD`, and what the index looks like to `ls-files --unmerged`, `diff --cached` and `diff --check` |
| `settled` | not in the code: the dependencies whose pick was committed or skipped since the worktree exists; properties compare the record with it |
| `place` | whether the worktree's directory and branch exist, or the branch alone |
| `tree`, `saved` | the task's `Worktree` in memory and in the snapshot (`made`: there is one): `IntegratedCommits`, `PendingCommit`, `PendingBase`, `BaseRef`, `DependenciesReady`, and the task's result |
| `loss` | not in the code: whether the snapshot lacks what was last published, and whether a death has undone `DependenciesReady` for that reason |
| `pc`, `resolving`, `attempt` | where `executeDAGTask` is, whether conflicts go to the worker, the loop's counter |

| actions | code |
|---|---|
| `Begin` | `ExecuteDAG`, which saves the whole run before it starts anything, or refuses |
| `Create`, `SetUp` | the phase "setup": `git worktree add -b`, cut where it can be; or `verify`; the task is published |
| `AskWorker`, `EditsNotAllowed`, `Ready` | the phase "dependencies": a conflict for the worker, or for nobody because its profile may not edit; its end |
| `Cancelled`, `ReceiveResult` | any error return, and the executor's publication of it |
| `ReportConflict`, `Settle`, `Refuse`, `ContinuePick`, `ContinueFails`, `ContinueUnread` | the branches of `continueDependency` |
| `PickApplies`, `PickStops`, `PickFails` | one turn of the loop of `IntegrateDependencies`, by how the cherry-pick ended |
| `Resolve`, `ResolveFails` | the worker on a conflict, and `StageResolvedDependency` |
| `WorkerChanges`, `Complete` | the worker's commits (those of its automatic retries too), and `Complete` |
| `Crash` | git's state stays, the record is the saved one |
| `FinishByHand`, `StageByHand`, `AbortByHand`, `QuitByHand`, `ForeignCommit`, `ForeignPick` | external: what the user may do in a worktree, and what the `default` branches of `continueDependency` are for |
| `StartOver`, `StartOverFails` | `ResetDAGTask` with `Remove`, which may stop between the directory and the branch |

A git command that changes something has three outcomes where the code has: it
did its work and was read; it did its work and the caller's next query, or the
command's exit, failed, because the context was cancelled or the process killed;
it did nothing. A change is named by where it comes from; what a file contains is
only whether it conflicts, differs from HEAD, or has markers left.

A save that fails is ignored by `publishTask` and comes too late in a reset, and
any number of them may fail, one after the other. What a later save of the whole
run, for another task, puts right is then the same as if the first had succeeded.

One branch of the code is left out: `executeDAGTask` takes dependencies for
settled when `BaseRef` moved and no commit is named as integrated (403), which is
for snapshots of an older version; with the present one `BaseRef` moves only
together with an integrated commit.

| run | instance | properties |
|---|---|---|
| `integration` | three dependencies, one commit of a worker or a stranger; 3.5 million states | `TypeOK`, `RecordIsTruthful`, `SettledInOrder`, `ReadyMeansSettled`, `WorkAboveBase`, `EveryConflictAsked` |
| `patch` | two dependencies | `PatchIsOwn`, which the code does not keep |

Three dependencies have a first, a last and one in between; `MaxOthers` stops
workers and strangers from committing for ever, and `MaxHistory` stops a pick that
is repeated after every crash from adding a commit every time. With two such
commits a pick is repeated on top of a worker's commit and of an earlier copy of
itself; a limit of three (ten million states, four minutes) shows no more.

**Why a stale record does no harm.** When a reset removes the worktree and its
save is lost, the record found after a death names dependencies that a new
worktree does not have. It cannot meet one: as long as it is in memory a worktree
that is not there is not made again (`verify` fails, and the task must be reset
once more), and while it is only in the database the next `ExecuteDAG` saves the
run before `Create` can be called, or starts nothing. Hence the properties speak of
records while the worktree exists (`place = "made"`). The mutant of
`RecordIsTruthful` makes that first save an ignored one, like the others.

**Proved**, for every list of dependencies and without the two bounds mattering:
`IntegrationTypeCorrect`, `RecordNeverLies`, `IntegratesInOrder`,
`WorkBeginsOnAll`, `WorkStaysInPatch` (`WorkAboveBase`) and `ConflictsAreAsked`
(`EveryConflictAsked`, where the task has a dependency at all). No theorem assumes
anything of the database. The inductive invariant `IndInv` adds to the properties
that every dependency on `head` is settled, which is what `continueDependency`
concludes from the last commit's message; that a pick under way has its
predecessors settled; that a record either has a worktree or is blank (`Sound`),
and git has nothing of a worktree that is not there (`Blank`); and that during the
setup the database has the record in memory, or a blank one. Truthfulness and
order hold one another up: the next pick is chosen from the record, and the record
is only as good as git's state. The proof has one lemma per action or family, on
two lemmas about steps that leave git alone (`QuietStep`) and steps that settle no
less (`GitStep`).

The last two have an invariant each on top of `IndInv`. `WorkInv`: a worker's
commit is on `head` only while the record in memory says that the dependencies are
ready, and the saved one too unless a save was lost; then nothing moves the
baseline. `AskInv`: the attempts the loop has counted are no more than the picks in
the record, with one more while a resolved pick waits to be recorded, so the loop's
limit, the number of dependencies, is not reached while a conflict is open.

**Finding.** `PatchIsOwn`: a stop between a cherry-pick and `rev-parse HEAD` puts
an inherited change into the dependent's own patch.

**What `WorkAboveBase` excepts.** The save of `DependenciesReady` (444) is not
checked by the code. When it is lost, no later save of the run succeeds and the
process dies, the next attempt finds the picks on `head`, skips them as empty and
moves the baseline over the worker's commits, which are then missing from the
task's patch. `loss = "readiness"` marks exactly that history, and the property
says nothing after it until the task is started over. The other properties need no
such exception.

## 5. Several runs: `WorkerManager`

Assignments and task graphs of one `Manager`, side by side. What `WorkerRun`
looks at from inside is here a job that plans, executes or merges and then ends;
`ManagedRun` says that this is so.

| variable | code |
|---|---|
| `runs` | `Manager.runs`, guarded by `Manager.mu`: whether a run has a graph, whether its plan has arrived, its status, its `cancel` and whether `NextRetryAt` is set |
| `chat` | the rows a run is made of: none, `CreateChat` done, its configuration written too, or deleted |
| `saved`, `lost` | the snapshot rows; the runs a save of which has failed since (not in the code: properties that need saves to succeed speak of the others) |
| `jobs`, `cancelled` | by its context, each goroutine started by `execute`, `plan`, `ExecuteDAG` or `MergeDAG`, its local retry counter, where it is; `ctx.Err() != nil` |
| `stop` | `closed`, and how the call of `Stop` ended |

| actions | code |
|---|---|
| `Start`, `StartFails` | `startWithTier`, `PlanDAG`; in the second a write and the removal of what was written both fail |
| `Continue`, `RetryPlanning`, `ExecuteDAG`, `MergeDAG` | the functions of these names, each up to the `go` statement |
| `UpdateRunConfig`, `Review`, `Delete` | `UpdateRunConfig`; `ReviewDAGTask` and other changes to the tasks of an inactive graph; `Delete` |
| `Event` | any save while a job runs: `Emit` in `execute`, `recordDAGEvent`, the publications of a graph |
| `PauseRetry`, `RetryOrStop` | `pauseAssignmentRetry` before and after the wait, for assignments and plans |
| `Finish` | the last lines of `execute`, `plan`, `executeDAG`, `mergeDAG` |
| `Cancel`, `Stop`, `StopReturns`, `StopGivesUp` | `Cancel`, `Stop` and its loop |
| `Crash`, `CrashStarting` | the process dies, at rest or between the writes of `Start`, and `restore` runs |

Abstractions: `Start` is one step when it succeeds, since it holds the lock from
the capacity check to the `go` statement. `Cancel` calls the function after it
has released the lock; a context is never used twice, so a call that comes late
cancels nothing. `Context` has as many elements as goroutines may exist at once;
a context that is free again is one nobody holds. Ids are random in the code and
never used again here. A graph's own state is reduced to whether its plan is
there; `ExecuteDAG` may therefore begin whenever there is a plan. Left out: a
database that cannot be listed when the manager starts, after which every call
is refused, and the interrupt of the command line, which cancels every job.

| run | instance | properties |
|---|---|---|
| `manager` | two runs of either kind, a limit of one, one retry, saves that may fail | `TypeOK`, `EveryExecutionReachable`, `WorkersBounded`, `StoppedMeansQuiet`, `SettledSurvives`, `ListedIsKept`, `RetryAnnouncedWhileWaiting`, `StopEnds` |

Two runs and a limit of one are enough for a second run to be refused while the
first has a worker, and to merge beside it. One retry is used up, and refused the
second time. No symmetry is used, since a liveness property is checked.

**Fairness.** A retry's timer fires, and a job whose context is cancelled ends
(`Fairness`): `waitForRetry` selects on both, and every call of a worker or of git
takes the context. A worker that is not cancelled may run for ever, so may the
caller of `Stop` wait; `StopEnds` does not depend on either.

**Proved**, for every set of runs, limit and number of retries, with saves that
may fail: all seven invariants, in `WorkerManagerProofs`. The invariant `IndInv`
is a conjunction per run and per context: a job's run names it, and has the
status of the job's kind (`JobInv`); what an inactive run shows is what a restart
makes of its snapshot, and a snapshot is one a restart can make sense of
(`RunInv`). The second is what `SettledSurvives` needs of runs that are active,
as a crash comes before their last save. Most steps touch one run: `OtherRuns`
says so once, and the lemmas above it fall into those about an inactive run
(`IdleKeeps`, `SavedIdleKeeps`), a job that begins (`BeginKeeps`), goes on
(`JobGoesOn`), and ends (`FinishKeeps`). `WorkersBounded` is counted apart, from
`IndInv`: the runs with workers are among those before, or among all active ones
and the one that begins.

### The two together: `ManagedRun`

Both modules model `PlanDAG`, `ExecuteDAG`, `MergeDAG` and `restore`, each with
what it needs of them, so they could disagree: about what a cancelled phase may
end in, about what is left when its first save fails, about what a restart makes
of a merge. `ManagedRun` computes `WorkerManager`'s variables from a state of
`WorkerRun` (one run, one context, no call of `Stop`) and states `IsManaged`: the
run begins as `PlanDAG` leaves it, and every step is one of `WorkerManager`'s or
shows the Manager nothing.

| `WorkerRun` | `WorkerManager` |
|---|---|
| `PlanSucceeds`, `PlanFails`, `FinishGraph`, `RecordMergeUnsaved`, `MergeFails`, `FinishMerge` | `Finish`, with an outcome of the job's kind |
| `RetryPlanning`, `ExecuteDAG`, `MergeDAG` | the same; `BeginGraph` in both of its cases |
| publications of tasks, `RecordEvent`, `MergeCreate`, `MergeCheckpoint`, `RecordMerge`, `RemoveMergedTree` | `Event`, when saved |
| `ReviewDAGTask` | `Review` |
| other calls on a run at rest | `UpdateRunConfig`, when saved |
| `Cancel`, `Crash` | `Cancel`, `Crash` |
| steps in git, in a goroutine's memory, and saves that fail | nothing |

The run `live` checks it across every phase, cancellation and crash of two
dependent tasks. `RunIsManaged` (`ManagedRunProofs`) proves it for every graph and
with saves that may fail. It needs `IndInv` for what an execution's status is,
`BranchInv` for a merge or a review having a plan, and one fact more, that a run
at rest has no cancelled context (`Quiet`). `ManagedAssumption` says that `None`
is nothing else and that the Manager has room for one run. Which saves have
failed is not in `WorkerRun`'s state; `lost` is the run itself wherever saves may
fail, so the refinement says nothing of `lost` itself. Liveness is not part of it.


## 6. The store of skills: `SkillHost`

One directory that every PrAImate process opens: immutable records named by
their content, package generations, an advisory lock and one mutable file, the
head.

| variable | code |
|---|---|
| `head` | the head file (`hostHead`): revision, current checkpoint, retained checkpoints. A checkpoint's id is the hash of its content, so the model uses the content itself |
| `disk` | the records ever written: catalogues, local states (approvals and holds), host checkpoints, drafts |
| `installed` | the generation directory of a package digest: absent, complete, or what a removal that died has left |
| `seen` | the revision a client has read and names in its next call |
| `holder`, `step`, `tx`, `todo` | who has the lock; how far it is; its `SkillHostTransaction`; what its collection still removes |

| actions | code |
|---|---|
| `View`, `BeginUpdate` | `View`; `Update` up to its callback |
| `Register`, `MigrateLegacy`, `Approve`, `Revoke`, `Hold`, `Release`, `Forget`, `SaveDraft`, `DeleteDraft`, `SetLegacyMode`, `Restore` | the calls a callback may make on its transaction |
| `SaveCatalogue`, `SaveLocal`, `SaveHost`, `WriteHead` | the rest of `Update`, one step per file that is renamed into place |
| `ReleaseCheckpoint` | the function of this name |
| `BeginCollect`, `RemoveSome`, `RemoveAll`, `EndCollect` | `Collect`: what it verifies, and the removal of each generation in two steps |
| `Fail` | an error or the death of the process, at any of these points |

An error and a death are one action because they leave the same: whatever was
renamed stays, the transaction is gone, the lock is free. What a package
contains, its validation and the wait for the lock are left out; a
generation that is there either verifies (`complete`) or does not.

| run | instance | properties |
|---|---|---|
| `skills` | two clients, one owner of holds, three versions of which two share a package and two a ref, one draft, four revisions, three retained checkpoints, four calls of callbacks of which a failure takes the place of one | `TypeOK`, `RetainedIntact`, `HoldsUntilReleased`, `ApprovalsAreGiven`, `NoLostUpdate` |

*Why these bounds.* Three revisions are an update, a rollback or a collection
against it, and a third that meets the result. The limits on revisions and on
checkpoints are the code's own (`MaxRevision`, `MaxRetained`), here small enough
to be reached, and one apart: three updates meet the limit of the history while
a revision is still left, so that the two guards of `Update` are told apart, and
a rollback or a release meets the other one. Two versions on one digest are what
makes protection by digest differ from protection by version; two on one ref
make a catalogue incoherent, so that a transaction that installs a package and
then cannot register it happens. Four calls are spread over the transactions in
any way; a failure is bounded with them. The two clients are interchangeable and
no liveness is checked, so symmetry is sound.

**Proved** (`SkillHostProofs`), for any number of clients, owners, versions,
calls and failures: all five, as `SkillsTypeCorrect`, `RetainedStaysIntact`,
`HoldsAreKept`, `ApprovalsAreNotInvented`, `UpdatesAreNotLost`. `RetainedIntact` is
not inductive: a transaction installs packages and writes records that nothing
retains yet, and a collection that began earlier might remove them. The inductive
invariant says of a transaction that it has read the head's revision, that its
content is coherent and its holds and approvals speak of versions it has (`TxInv`),
how its approvals and holds follow from those in force (`AuthorityInv`), and which of
its records exist at which step (`WrittenInv`); and of a collection that what it
still has to remove is in no retained checkpoint.

Not covered: a collection that dies inside `RemoveAll` leaves a generation that
later collections and installations refuse (the model has it, and `BeginCollect`
and `Install` are disabled by it); nothing in the code says the store recovers.

## 7. Two machines and a remote: `BackupSync`

A sync exports the encrypted database into a git working tree, commits and
pushes or pulls; what lands in the tree is merged row by row into the database.

| variable | code |
|---|---|
| `db` | a machine's rows, each by its `updated_at` (`clock` counts the writes; 0: no such row) |
| `commits` | every commit of any machine: the snapshot it contains, its parents, its ancestors, and which operation made it |
| `head`, `origin`, `remote` | a machine's branch, its remote-tracking branch, the branch of the remote |
| `landing` | not in the code: whether the snapshot at `head` was imported whole, has landed without having been imported, or has rows that are missing in the database although nothing says so. The properties speak of it |
| `turn` | the loop of `mergeTable`: a row of the snapshot waits, was found absent or older, is written, or its write was dropped |
| `pending`, `unlocked` | `App.backupRestoreDir`; the envelopes opened in this session (`Store.backupKeys`) |
| `step` | how far the machine is in an operation made of several git commands |

A snapshot is two files: `db.sqlite` (an owner's key and the rows) and
`db.sqlite.key` (an envelope). The encryption is deterministic, so an unchanged
database gives an unchanged file. git merges files one by one, which is the
point of `MergeSnap` and `Rebased`: git's merge and rebase are modelled by what
they do with the driver the code registers (`cp %B %A`).

Rows are of two kinds. Those of tables with an `updated_at` (`Timed`) are inserted,
or updated by a newer one; those of `messages` and `mcp_servers` are only ever
added, so a changed server of another machine is never taken over, and `Covers`
asks of such a row no more than that it is there. `schedules` and `watchers` are
exported but not merged, and are left out.

| actions | code |
|---|---|
| `Write` | the application's work |
| `Sync`, `BackupForcePush`, `ExportRefused` | `stageAndCommit` with the preflight of `coreStateSyncer.Export`, then the comparison of `Sync`; `BackupForcePush` |
| `Push`, `ForcePush`, `PushFails`, `Pull`, `PullFails` | `Push`, `Pull`; another machine may have pushed since the comparison |
| `MergeFromRemote`, `RebaseOntoRemote`, `ResetHardToRemote`, `ForceHead` | the four strategies of `ResolveBackupDivergence` |
| `ProbeRow`, `WriteRow`, `WriteDropped` | one row of `mergeTable`: the SELECT, and the INSERT or UPDATE in a statement of its own. The user may write the row in between; an error of the write is ignored (backup_state.go:280, 290, 299) |
| `ImportState`, `ImportFails`, `RestoreBackupState` | the end of `coreStateSyncer.Import`, in success or with an error after any of the rows, and the user's completion of a pending restore, which imports again |
| `Restart` | the process ends; `pending` and `unlocked` are in memory only |

Left out: cloning, configuring and disconnecting, the driver of `MEMORY.md`,
`config.json`, the agents' files, and deleted rows, which the code does not
propagate.

| run | instance | properties |
|---|---|---|
| `backup` | two machines with different passwords, a timed row or an untimed one, two writes, four commits or three and a fault | `TypeOK`, `ImportedIsHeld`, `ExportKeepsRows`, `TipKeepsRows` |
| `rebase` | the same password, no fault | `RebaseKeepsRows`, which the code does not keep |
| `envelope` | the same | `EnvelopeTravels`, which the code does not keep |

*Why these bounds.* Rows are merged one by one, so a history of one row shows what a
merge does: there are two rows, one of each kind, and `MaxRows = 1` of them is
written. Two writes are one on each side of a divergence, or an older and a newer one,
or one before and one within an import. Four commits hold a common base, a commit on
each side and their merge, which the other machine can then pull. A fault is a
restart, a call that fails offline, an import that runs out of time, or a row that is
not written; it takes the place of a commit (`MaxCommits` bounds the two together), so
a history with a fault has up to three commits. Different passwords make unreadable snapshots happen, and with them the
pending restore. Machines are interchangeable and no liveness is checked, so symmetry
is sound. The run has 1.3 million states. What it is too small for is an UPDATE that
replaces a row the user has just made newer (three writes); the proofs cover it.

**What the properties except.** Two ways to lose rows are in the code, and the
properties name them instead of hiding them. An import that could not write a row
counts as complete; and `pending` is in memory, so a process that dies between a pull
and its import forgets that the import is due. In both cases the next sync replaces a
snapshot of which rows are missing in the database: `landing` is then `missing`, the
commit is `lossy`, and `ExportKeepsRows` and `TipKeepsRows` claim nothing about its
rows. They do claim that the preflight finds a snapshot that cannot be read after a
restart too. A changed row without `updated_at` is not taken over by design.

**Proved** (`BackupSyncProofs`), for any number of machines, rows, commits and
faults, with and without a common password: `BackupTypeCorrect`,
`ImportedStaysHeld`, `ExportsKeepRows`. The inductive invariant adds that a
commit's ancestors are older commits (a merge base, or the last commit a rebase
takes a file from, exists), that no row is dated after the clock, `TurnsHeld` (within
an import a row that was written, or that exists, or is not wanted, is in the database
as `CoversRow` asks), and `LandedIsSeen`: a snapshot that has landed without being imported is one
whose operation is under way or whose restore is pending, which is what the guard of
the next export relies on. That the greatest number of a set exists, which the rebase
needs, comes from the well-foundedness of the naturals.

`TipsKeepRows` proves the fourth property for any number of machines, none of which
forces a push: `Spec /\ [][~Forced]_vars => TipKeepsRows`. The remote's history then
only grows, every commit of the remote keeps the rows of all its ancestors but those
excused (`TrailInv`), and a push that is not forced has the remote's tip among its
ancestors. With forced pushes two machines are the limit: `TipsOfTwoKeepRows` proves
that case, which is the one of the run, by `TipInv`, which says what neither may have
seen of the other. One of them pushed last, and its branch contains the remote's tip;
what the two branches share is in that tip and ends at one commit, so a merge has one
base; and whoever has part of what a merge dropped (git's `cp %B %A` takes one file
whole) has that merge (`Whole`). With a third machine and forced pushes the property is
false: a machine merges one of two snapshots whole and a forced push puts the other one
back under it, after which the merge is a fast-forward that lacks the other's rows.

**Findings.** `RebaseKeepsRows`: the driver that keeps the remote's snapshot in a
merge keeps the local one in a rebase, where git swaps the sides.
`EnvelopeTravels`: database and envelope are merged file by file, and a merge may
put together one machine's database and the other's envelope.

Not covered: times are compared as text, and `RFC3339Nano` does not sort; the
model's times are numbers.

## 8. A detached terminal: `DetachedTerminal`

The window is a process of its own. The reader of the PTY records output in a
bounded history and offers it to the window's queue; an HTTP handler streams the
queue; the page writes what follows its cursor, and asks for the history when it
sees a gap or is told to.

| variable | code |
|---|---|
| `terminal`, `end`, `start`, `published` | the session, which may be closed before its reader has seen the end (`stopped`); output so far, where the history begins, what was offered. Output is counted in chunks |
| `publisher`, `queue`, `suspended` | `detachedCoordinator.publish`, which holds the mutex unless idle; `detachedWindow.events`; the flag that a resync is on its way |
| `serving`, `stale`, `wire`, `up` | the handler of `GET /events`, one of a dead connection that has not noticed, what is between handler and client, whether the client is connected |
| `ready`, `pending`, `batch` | `detachedClient`: events kept until the renderer is ready, and the batch it is emitting |
| `page`, `replay`, `cursor` | `DetachedSession.svelte`: mounted or not, the snapshot call under way, the output it has got to |
| `skipped`, `twice`, `missed` | not in the code: chunks never, or repeatedly, written; up to which output the only sign was thrown away |

| actions | code |
|---|---|
| `Record`, `Exit`, `Publish`, `Overflow`, `DrainCheck`, `DrainReceive`, `Drained`, `Close` | the PTY's reader, `recordOutput`, `publish` with its emptying loop split at the receive; `close`, by the reader after the exit or by a user or the application at any time |
| `Take`, `Clear`, `Flush` and the `Stale` actions | `handleEvents`, between its receive, the mutex and the flush; the old handler also fails to encode and returns |
| `Break`, `Connect`, `ConnectFails` | the connection; `eventLoop`, which dispatches an event of its own when it loses the connection or does not get one |
| `Receive`, `RendererReady`, `EmitBatch` | `dispatch`, `markRendererReady` |
| `Mount`, `Snapshot`, `SnapshotFails`, `Replayed`, and `Show`, `AskReplay` within them | `mountTerminal`, `replayTerminal`, `handleTerminalData` |

| run | instance | properties |
|---|---|---|
| `detached` | a queue, a client's store and a history of two, one event on the wire, four chunks, one fault; 7.5 million states | `TypeOK`, `ShownOnce`, `NothingForgotten` |
| `block` | the same without faults, with fairness | `PublisherGoesOn`, which the code does not keep |

*Why these bounds.* The code's limits are 256 events and a history in bytes; with
two each overflows within four chunks, and the queue holds events both before and
behind a resync. A fault is a connection that breaks or is refused, or a call that runs out of
time; at most one handler is left over from a dead connection.

`NothingForgotten` has an exception, `missed`, and it is the code's: a replay
that is asked for while an older one is under way is ignored, an event written by the
handler of a dead connection is gone, a snapshot call that fails is not repeated,
and a resync whose encoding fails leaves the flag set. `missed` is set exactly
there, and cleared when later output is written. So the property says nothing of
the output these four lose; that what the page gets afterwards is still written in
order is `ShownOnce`.

**Fairness** (`block` only): goroutines and the page go on when they can; nothing
makes the CLI print or end, or a connection break.

**Proved** (`DetachedTerminalProofs`), for all limits (the client keeps at least
two events), any output and any number of faults: `TerminalTypeCorrect`,
`TerminalShowsOnce`, `TerminalForgetsNothing`. The last follows output along its
way: of the events in the queue, at the handler, on the wire, with the client and
in the batch, the last that is not the exit's must be one that makes the renderer
look again (`Chain`), unless something else is under way. `ResyncComes` says that
the flag is up only while its resync is in the queue or at a handler, or was lost
and counted in `missed`; `QueueSigned`, that a queue with anything but the exit in
it ends with such an event; `ExitOnce`, that there is one exit, so that the events
a client keeps are not pushed out by exits alone.

**Finding.** `PublisherGoesOn`: the emptying loop checks the queue's length and
then receives, with the mutex held; a handler that takes the last event in
between leaves the publisher, and everything that needs the mutex, blocked.

## Not modelled, and why

- **What a worker, a terminal's program or a skill does.** Its answers, files
  and output are the environment.
- **Roles, routes, permissions, prompts and budgets of a plan**, and the contents
  of packages. Validation of one input; no step of another actor depends on it.
- **Schedules and watchers.** One hazard is listed at its line; the rest of
  the component is time arithmetic over one table.
- **The approval broker.** One `select`; which outcome is right when an answer and
  the timeout are ready together is stated nowhere.
- **Changing the key of the encrypted store.** Planned; `BackupSync` has its
  snapshots and who can open them.
- **The user interface, adapters, converters, installers.** Input and output.
- **Most of the lines of the repository** are in those last two groups: bindings,
  command lines, prompts, file formats. The modules stand for the parts with
  several actors or several writes that must fit together.
- The components whose status in `PROJECT.json` is `not_modelled` with the note
  "Planned" follow the plan above.
