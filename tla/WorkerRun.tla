------------------------------ MODULE WorkerRun ------------------------------
(***************************************************************************)
(* One worker run with a task graph: planning, parallel execution in       *)
(* worktrees, continuation, reset, review and merge, with cancellation,    *)
(* failing saves, and crashes of the process at any point.                 *)
(*                                                                         *)
(*   run     the Manager's in-memory Run, guarded by Manager.mu            *)
(*   disk    the last snapshot of it that was saved                        *)
(*   branch  the target branch of the repository, as its list of commits   *)
(*   active  which goroutine owns run.cancel; cancelled is its ctx.Err()   *)
(*   graph, loop   executeDAG's private copy of the tasks, and its loop:   *)
(*           it scans the tasks, waits for a result, or launches a task    *)
(*   job     executeDAGTaskWithRetries, one goroutine per launched task    *)
(*   merge   mergeDAG's local variables                                    *)
(*                                                                         *)
(* A step is what one goroutine does between two points at which another   *)
(* one can see it: it takes Manager.mu once at most, or runs one group of  *)
(* git commands.  A goroutine that goes on after such a group is shown as  *)
(* if the context were still whole when it publishes; the executor, whose  *)
(* look at the context decides on a launch, looks in a step of its own.    *)
(* A save that fails in a function that restores what it changed is no     *)
(* step at all.                                                            *)
(***************************************************************************)
EXTENDS TaskGraph, Naturals, SequencesExt

CONSTANTS Graphs,          \* the relations a plan or an edit of it may have
          Configs,         \* run settings: automatic retries, file edits
          MaxParallel,     \* DAG.MaxParallel
          ResultKinds,     \* did the task change a file? {"unchanged", "patch"}
          UserCommit,      \* a commit to the target branch from outside the run
          NoCommit,        \* the empty MergeCommit or LastMergedCommit
          SavesMayFail,    \* can the database refuse a snapshot?
          MaxUserCommits   \* bound on commits from outside

ASSUME GraphsAssumption ==
  Graphs \subseteq Relation /\ Graphs # {} /\ \A D \in Graphs : Acyclic(D)
ASSUME ConfigsAssumption ==
  Configs \subseteq [maxRetries : Nat, allowEdits : BOOLEAN] /\ Configs # {}
ASSUME LimitsAssumption ==
  MaxParallel \in Nat \ {0} /\ MaxUserCommits \in Nat /\ SavesMayFail \in BOOLEAN
ASSUME ResultsAssumption ==
  ResultKinds \subseteq {"unchanged", "patch"}
ASSUME CommitAssumption ==
  UserCommit \notin Task /\ NoCommit \notin Seq(Task \cup {UserCommit})
ASSUME LoopAssumption ==
  Task \cap {"scan", "wait"} = {}

VARIABLES run, disk, branch, active, cancelled, graph, loop, job, merge

vars == <<run, disk, branch, active, cancelled, graph, loop, job, merge>>

------------------------------------------------------------------------------
(* State *)

Commit == Task \cup {UserCommit}
History == Seq(Commit)

(* A commit is the history it ends: git merge-base --is-ancestor. *)
IsAncestor(c, d) == IsPrefix(c, d)

RunStatus == {"planning", "draft", "running", "review", "merging", "completed",
              "failed", "cancelled"}
TaskStatus == {"pending", "running", "retrying", "completed", "failed",
               "blocked", "cancelled"}
Review == {"none", "pending", "accepted", "rejected", "merged"}

(* conflicted: FailurePhase is "dependencies", the one phase a user's choice
   depends on. *)
TaskRecord ==
  [status : TaskStatus, review : Review, result : {"none", "unchanged", "patch"},
   worktree : BOOLEAN, ready : BOOLEAN, resolve : BOOLEAN,
   conflicted : BOOLEAN, retries : Nat]

Snapshot ==
  [status : RunStatus, planned : BOOLEAN, deps : Relation, config : Configs,
   tasks : [Task -> TaskRecord], mergeWorktree : BOOLEAN,
   mergeCommit : History \cup {NoCommit}, mergeTasks : SUBSET Task,
   lastMerged : History \cup {NoCommit}]

(* executeDAGTaskWithRetries, and mergeDAG: where they are, what they hold. *)
Job ==
  [pc : {"idle", "setup", "integrate", "execute", "backoff", "done"},
   task : TaskRecord, inputs : SUBSET Task]
Merge ==
  [pc : {"idle", "create", "integrate", "checkpoint", "ff", "failed", "merged",
         "cleanup"},
   tip : History, selected : SUBSET Task]

NewTask ==
  [status |-> "pending", review |-> "none", result |-> "none",
   worktree |-> FALSE, ready |-> FALSE, resolve |-> FALSE,
   conflicted |-> FALSE, retries |-> 0]
NewTasks == [t \in Task |-> NewTask]

Idle == [pc |-> "idle", task |-> NewTask, inputs |-> {}]
NoJobs == [t \in Task |-> Idle]
NoMerge == [pc |-> "idle", tip |-> <<>>, selected |-> {}]

Unsuccessful == {"failed", "blocked", "cancelled"}
Accepted == {"accepted", "merged"}

TypeOK ==
  /\ run \in Snapshot
  /\ disk \in Snapshot
  /\ branch \in History
  /\ active \in {"none", "plan", "graph", "merge"}
  /\ cancelled \in BOOLEAN
  /\ graph \in [Task -> TaskRecord]
  /\ loop \in {"scan", "wait"} \cup Task
  /\ job \in [Task -> Job]
  /\ merge \in Merge

AncestorsOf(t) == Ancestors(run.deps, t)

------------------------------------------------------------------------------
(* Saving, and what every goroutine shares *)

(* saveRunLocked, where the caller gives up when it fails. *)
Save == disk' = run'
SaveFails == SavesMayFail /\ UNCHANGED disk
(* saveRunLocked, where its error is ignored. *)
TrySave == Save \/ SaveFails

Publish(t, record) ==
  /\ run' = [run EXCEPT !.tasks[t] = record]
  /\ TrySave

Inactive == active = "none"
Begin(kind) == active' = kind /\ cancelled' = FALSE
End == active' = "none" /\ cancelled' = FALSE

(* Fault: a cancelled phase reports what it came to. *)
EndStatusUntold(status) == status

EndStatus(status) == IF cancelled THEN "cancelled" ELSE status

executorVars == <<graph, loop, job>>

(* updateDAGReviewStatus *)
ReviewStatus(r) ==
  IF \A t \in Task : /\ r.tasks[t].status = "completed"
                     /\ r.tasks[t].review \in {"merged", "rejected"}
    THEN "completed"
    ELSE IF r.status = "completed" THEN "review" ELSE r.status
Reviewed(r) == [r EXCEPT !.status = ReviewStatus(r)]

MarkMerged(r, S) ==
  [r EXCEPT !.tasks = [t \in Task |-> IF t \in S
                                        THEN [r.tasks[t] EXCEPT !.review = "merged"]
                                        ELSE r.tasks[t]],
            !.lastMerged = r.mergeCommit]

(* mergedCandidate *)
MergedCandidate(r) ==
  r.mergeCommit # NoCommit /\ IsAncestor(r.mergeCommit, branch)

------------------------------------------------------------------------------
(* Planning *)

Init ==
  /\ \E c \in Configs :
       run = [status |-> "planning", planned |-> FALSE,
              deps |-> [t \in Task |-> {}], config |-> c, tasks |-> NewTasks,
              mergeWorktree |-> FALSE, mergeCommit |-> NoCommit,
              mergeTasks |-> {}, lastMerged |-> NoCommit]
  /\ disk = run
  /\ branch = <<>>
  /\ active = "plan"
  /\ cancelled = FALSE
  /\ graph = NewTasks
  /\ loop = "scan"
  /\ job = NoJobs
  /\ merge = NoMerge

PlanSucceeds ==
  /\ active = "plan"
  /\ \E D \in Graphs :
       run' = [run EXCEPT !.status = EndStatus("draft"), !.planned = TRUE,
                          !.deps = D, !.tasks = NewTasks]
  /\ End
  /\ TrySave
  /\ UNCHANGED <<branch, executorVars, merge>>

PlanFails ==
  /\ active = "plan"
  /\ run' = [run EXCEPT !.status = EndStatus("failed")]
  /\ End
  /\ TrySave
  /\ UNCHANGED <<branch, executorVars, merge>>

RetryPlanning ==
  /\ Inactive
  /\ ~run.planned
  /\ run' = [run EXCEPT !.status = "planning"]
  /\ Save
  /\ Begin("plan")
  /\ UNCHANGED <<branch, executorVars, merge>>

UpdateDAG ==
  /\ Inactive
  /\ run.status = "draft"
  /\ \E D \in Graphs : run' = [run EXCEPT !.deps = D, !.tasks = NewTasks]
  /\ Save
  /\ UNCHANGED <<branch, active, cancelled, executorVars, merge>>

UpdateRunConfig ==
  /\ Inactive
  /\ \E c \in Configs \ {run.config} : run' = [run EXCEPT !.config = c]
  /\ Save
  /\ UNCHANGED <<branch, active, cancelled, executorVars, merge>>

------------------------------------------------------------------------------
(* Executing the graph: executeDAG *)

(* When the save fails the error is returned, the handle is cleared and the
   status stays "running". *)
ExecuteDAG ==
  /\ Inactive
  /\ run.planned
  /\ \E t \in Task : run.tasks[t].status = "pending"
  /\ branch = <<>> \/ branch = run.lastMerged
  /\ run' = [run EXCEPT !.status = "running"]
  /\ \/ Save /\ Begin("graph") /\ graph' = run.tasks
     \/ SaveFails /\ UNCHANGED <<active, cancelled, graph>>
  /\ UNCHANGED <<branch, loop, job, merge>>

Scanning(t) == active = "graph" /\ loop = "scan" /\ graph[t].status = "pending"

Blocked(t) ==
  \E d \in AncestorsOf(t) : graph[d].status \in Unsuccessful

Running == {t \in Task : job[t].pc # "idle"}

(* Fault: a dependency that has started counts as ready. *)
LaunchableEarly(t) ==
  /\ ~Blocked(t)
  /\ Cardinality(Running) < MaxParallel
  /\ \A d \in AncestorsOf(t) : graph[d].status # "pending"
  /\ ~cancelled

Launchable(t) ==
  /\ ~Blocked(t)
  /\ Cardinality(Running) < MaxParallel
  /\ \A d \in AncestorsOf(t) : graph[d].status = "completed"
  /\ ~cancelled

BlockTask(t) ==
  /\ Scanning(t)
  /\ Blocked(t)
  /\ graph' = [graph EXCEPT ![t].status = "blocked"]
  /\ Publish(t, graph'[t])
  /\ UNCHANGED <<branch, active, cancelled, loop, job, merge>>

(* The last look at ctx.Err(), which no mutex guards: Cancel may come between
   it and the launch. *)
ChooseTask(t) ==
  /\ Scanning(t)
  /\ Launchable(t)
  /\ loop' = t
  /\ UNCHANGED <<run, disk, branch, active, cancelled, graph, job, merge>>

(* Nothing is seen of the new goroutine before its first step. *)
LaunchTask(t) ==
  /\ loop = t
  /\ graph' = [graph EXCEPT ![t].status = "running"]
  /\ Publish(t, graph'[t])
  /\ job' = [job EXCEPT ![t] =
               [pc |-> "setup", task |-> graph'[t],
                inputs |-> {d \in AncestorsOf(t) : graph[d].result # "none"}]]
  /\ loop' = "scan"
  /\ UNCHANGED <<branch, active, cancelled, merge>>

ScanEnded ==
  /\ active = "graph"
  /\ loop = "scan"
  /\ \A t \in Task : Scanning(t) => ~Blocked(t) /\ ~Launchable(t)

AwaitResult ==
  /\ ScanEnded
  /\ Running # {}
  /\ loop' = "wait"
  /\ UNCHANGED <<run, disk, branch, active, cancelled, graph, job, merge>>

(* Fault: the task is published before the result is stored in it. *)
ReceiveResultStale(t) ==
  /\ active = "graph"
  /\ loop = "wait"
  /\ job[t].pc = "done"
  /\ graph' = [graph EXCEPT ![t] = job[t].task]
  /\ Publish(t, graph[t])
  /\ job' = [job EXCEPT ![t] = Idle]
  /\ loop' = "scan"
  /\ UNCHANGED <<branch, active, cancelled, merge>>

ReceiveResult(t) ==
  /\ active = "graph"
  /\ loop = "wait"
  /\ job[t].pc = "done"
  /\ graph' = [graph EXCEPT ![t] = job[t].task]
  /\ Publish(t, job[t].task)
  /\ job' = [job EXCEPT ![t] = Idle]
  /\ loop' = "scan"
  /\ UNCHANGED <<branch, active, cancelled, merge>>

FinishGraph ==
  /\ ScanEnded
  /\ Running = {}
  /\ run' = [run EXCEPT !.status =
               EndStatus(IF \A t \in Task : graph[t].status = "completed"
                           THEN "review" ELSE "failed")]
  /\ End
  /\ TrySave
  /\ graph' = NewTasks
  /\ UNCHANGED <<branch, loop, job, merge>>

------------------------------------------------------------------------------
(* One task: executeDAGTaskWithRetries around executeDAGTask *)

(* The local task moves on to pc; Exit hands it to the executor's channel. *)
Step(t, pc, record) ==
  job' = [job EXCEPT ![t] = [@ EXCEPT !.pc = pc, !.task = record]]

Failed(record) ==
  [record EXCEPT !.conflicted = FALSE, !.status = EndStatus("failed")]

(* Fault: the send selects on the context too, and a cancelled task is lost. *)
ExitUnlessCancelled(t, record) ==
  /\ Step(t, IF cancelled THEN "lost" ELSE "done", record)
  /\ UNCHANGED <<run, disk>>

Exit(t, record) ==
  /\ Step(t, "done", record)
  /\ UNCHANGED <<run, disk>>

jobUnchanged == UNCHANGED <<branch, active, cancelled, graph, loop, merge>>

(* The profile resolves, and the worktree is created or verified. *)
SetUp(t) ==
  /\ job[t].pc = "setup"
  /\ ~cancelled
  /\ LET task == [job[t].task EXCEPT !.worktree = TRUE]
     IN  Step(t, "integrate", task) /\ Publish(t, task)
  /\ jobUnchanged

(* Create returns its worktree also when git failed to add it. *)
SetUpFails(t) ==
  /\ job[t].pc = "setup"
  /\ \E w \in {job[t].task.worktree, TRUE} :
       Exit(t, Failed([job[t].task EXCEPT !.worktree = w]))
  /\ jobUnchanged

HasInputs(t) == AncestorsOf(t) \subseteq job[t].inputs

(* IntegrateDependencies, with the worker's resolutions of its conflicts. *)
Integrate(t) ==
  /\ job[t].pc = "integrate"
  /\ HasInputs(t)
  /\ job[t].task.ready \/ ~cancelled
  /\ LET task == IF job[t].task.ready THEN job[t].task
                 ELSE [job[t].task EXCEPT !.ready = TRUE, !.resolve = FALSE]
     IN  Step(t, "execute", task) /\ Publish(t, task)
  /\ jobUnchanged

IntegrateFails(t) ==
  /\ job[t].pc = "integrate"
  /\ HasInputs(t) => ~job[t].task.ready
  /\ Exit(t, [Failed(job[t].task) EXCEPT !.conflicted = HasInputs(t)])
  /\ jobUnchanged

(* RunFromTier answers and the worktree's state is committed. *)
Complete(t) ==
  /\ job[t].pc = "execute"
  /\ ~cancelled
  /\ \E kind \in ResultKinds :
       Exit(t, [job[t].task EXCEPT !.status = "completed", !.review = "pending",
                                   !.result = kind, !.conflicted = FALSE])
  /\ jobUnchanged

(* Either of the two fails, and is not tried again. *)
ExecuteFails(t) ==
  /\ job[t].pc = "execute"
  /\ Exit(t, Failed(job[t].task))
  /\ jobUnchanged

(* Fault: the attempt is not counted. *)
NextAttemptUncounted(record) == [Failed(record) EXCEPT !.status = "retrying"]

NextAttempt(record) ==
  [Failed(record) EXCEPT !.status = "retrying", !.retries = @ + 1]

(* RunFromTier fails and canAutomaticallyRetry: the run is not cancelled, and
   the error is none that asks the user. *)
ScheduleRetry(t) ==
  /\ job[t].pc = "execute"
  /\ ~cancelled
  /\ job[t].task.retries < run.config.maxRetries
  /\ LET task == NextAttempt(job[t].task)
     IN  Step(t, "backoff", task) /\ Publish(t, task)
  /\ jobUnchanged

(* Fault: waitForRetry returns nil when the timer fires first. *)
RetryNowAnyway(t) ==
  /\ job[t].pc = "backoff"
  /\ Step(t, "setup", job[t].task)
  /\ UNCHANGED <<run, disk>>
  /\ jobUnchanged

(* waitForRetry: executeDAGTask runs again, with the status it finds. *)
RetryNow(t) ==
  /\ job[t].pc = "backoff"
  /\ ~cancelled
  /\ Step(t, "setup", job[t].task)
  /\ UNCHANGED <<run, disk>>
  /\ jobUnchanged

RetryCancelled(t) ==
  /\ job[t].pc = "backoff"
  /\ cancelled
  /\ Exit(t, [job[t].task EXCEPT !.status = "cancelled"])
  /\ jobUnchanged

TaskStep(t) ==
  \/ BlockTask(t) \/ ChooseTask(t) \/ LaunchTask(t) \/ ReceiveResult(t)
  \/ SetUp(t) \/ SetUpFails(t)
  \/ Integrate(t) \/ IntegrateFails(t)
  \/ Complete(t) \/ ExecuteFails(t)
  \/ ScheduleRetry(t) \/ RetryNow(t) \/ RetryCancelled(t)

------------------------------------------------------------------------------
(* Events and cancellation *)

(* The user's Stop: run.cancel is called, and nothing waits for its effect. *)
Cancel ==
  /\ ~Inactive
  /\ cancelled' = TRUE
  /\ UNCHANGED <<run, disk, branch, active, executorVars, merge>>

(* recordDAGEvent: an event of a plan or of a task saves the run as it is; a
   run whose events cannot be saved is cancelled. *)
RecordEvent ==
  /\ active \in {"plan", "graph"}
  /\ \/ disk' = run /\ UNCHANGED cancelled
     \/ SaveFails /\ cancelled' = TRUE
  /\ UNCHANGED <<run, branch, active, executorVars, merge>>

------------------------------------------------------------------------------
(* What the user does with an inactive run *)

HasCompletedDependent(t) ==
  \E u \in Task : run.tasks[u].status = "completed" /\ t \in AncestorsOf(u)

(* Fault: completed work can be continued or reset as well. *)
RedoableAlways(t) ==
  /\ Inactive
  /\ ~HasCompletedDependent(t)
  /\ run.tasks[t].status \in Unsuccessful \cup {"completed"}

(* What RetryDAGTask and ResetDAGTask ask of the task. *)
Redoable(t) ==
  /\ Inactive
  /\ ~HasCompletedDependent(t)
  /\ run.tasks[t].status \in Unsuccessful

(* RetryDAGTask, and ResolveDAGTaskConflicts when resolve is TRUE. *)
RetryDAGTask(t, resolve) ==
  LET task == run.tasks[t] IN
  /\ Redoable(t)
  /\ resolve => /\ task.worktree
                /\ task.conflicted
                /\ run.config.allowEdits
  /\ run' = [run EXCEPT !.tasks =
       [u \in Task |->
          IF u = t
            THEN [task EXCEPT !.status = "pending", !.resolve = resolve]
          ELSE IF run.tasks[u].status = "blocked" /\ t \in AncestorsOf(u)
            THEN [run.tasks[u] EXCEPT !.status = "pending"]
          ELSE run.tasks[u]]]
  /\ Save
  /\ UNCHANGED <<branch, active, cancelled, executorVars, merge>>

(* Every blocked task waits again, whatever blocked it; a failed save keeps
   the reset in memory. *)
ResetDAGTask(t) ==
  LET task == run.tasks[t] IN
  /\ Redoable(t)
  /\ run' = [run EXCEPT !.tasks =
       [u \in Task |->
          IF u = t
            THEN [task EXCEPT !.status = "pending", !.ready = FALSE,
                              !.worktree = FALSE, !.result = "none"]
          ELSE IF run.tasks[u].status = "blocked"
            THEN [run.tasks[u] EXCEPT !.status = "pending"]
          ELSE run.tasks[u]]]
  /\ TrySave
  /\ UNCHANGED <<branch, active, cancelled, executorVars, merge>>

(* The route of a task is not modelled; that it is saved with all the rest is. *)
UseDAGTaskProfile(t) ==
  /\ Inactive
  /\ run.planned
  /\ run.tasks[t].status \in Unsuccessful \cup {"pending"}
  /\ disk' = run
  /\ UNCHANGED <<run, branch, active, cancelled, executorVars, merge>>

(* Fault: a result can be rejected under an accepted dependent. *)
DecidableAnyway(t, decision) ==
  decision = "accepted" =>
    \A d \in AncestorsOf(t) : run.tasks[d].review \in Accepted

(* Dependencies are accepted first, dependents rejected first. *)
Decidable(t, decision) ==
  /\ decision = "accepted" =>
       \A d \in AncestorsOf(t) : run.tasks[d].review \in Accepted
  /\ decision = "rejected" =>
       \A u \in Task : run.tasks[u].review \in Accepted => t \notin AncestorsOf(u)

ReviewDAGTask(t, decision) ==
  LET task == run.tasks[t] IN
  /\ Inactive
  /\ task.status = "completed"
  /\ task.result # "none"
  /\ task.review # "merged"
  /\ Decidable(t, decision)
  /\ run' = Reviewed([run EXCEPT !.tasks[t].review = decision])
  /\ Save
  /\ UNCHANGED <<branch, active, cancelled, executorVars, merge>>

(* The worktrees are removed one by one; a failure stops before the save. *)
CleanupDAG ==
  /\ Inactive
  /\ LET owned == {t \in Task : /\ run.tasks[t].worktree
                                /\ run.tasks[t].review \in {"merged", "rejected"}}
     IN \E S \in SUBSET owned :
          /\ run' = [run EXCEPT
               !.mergeWorktree = FALSE,
               !.tasks = [t \in Task |-> [run.tasks[t] EXCEPT
                            !.worktree = @ /\ t \notin S]]]
          /\ IF S = owned THEN TrySave ELSE UNCHANGED disk
  /\ UNCHANGED <<branch, active, cancelled, executorVars, merge>>

------------------------------------------------------------------------------
(* Merging the accepted results: MergeDAG and mergeDAG *)

(* Fault: results that wait for their review are merged too. *)
SelectedUnreviewed ==
  {t \in Task : run.tasks[t].review \in {"accepted", "pending"}}

Selected == {t \in Task : run.tasks[t].review = "accepted"}

(* Fault: the commits are picked in any order. *)
PickAnyOrder(S) == SetToSeqs({t \in S : run.tasks[t].result = "patch"})

(* The commits to pick, each after those of the tasks it depends on. *)
PickOrders(S) ==
  {order \in SetToSeqs({t \in S : run.tasks[t].result = "patch"}) :
     \A i, j \in DOMAIN order : order[i] \in AncestorsOf(order[j]) => i < j}

MergeDAG ==
  /\ Inactive
  /\ ~run.mergeWorktree
  /\ Selected # {}
  /\ \A t \in Selected : /\ run.tasks[t].result # "none"
                         /\ \A d \in AncestorsOf(t) : run.tasks[d].review \in Accepted
  /\ run' = [run EXCEPT !.status = "merging", !.mergeCommit = NoCommit,
                        !.mergeTasks = Selected]
  /\ \/ /\ Save
        /\ Begin("merge")
        /\ merge' = [NoMerge EXCEPT !.pc = "create", !.selected = Selected]
     \/ SaveFails /\ UNCHANGED <<active, cancelled, merge>>
  /\ UNCHANGED <<branch, executorVars>>

Merging(pc) == active = "merge" /\ merge.pc = pc
mergeUnchanged == UNCHANGED <<branch, active, cancelled, executorVars>>

(* Create, and the first checkpoint. *)
MergeCreate ==
  /\ Merging("create")
  /\ ~cancelled
  /\ run' = [run EXCEPT !.mergeWorktree = TRUE]
  /\ Save
  /\ merge' = [merge EXCEPT !.pc = "integrate", !.tip = branch]
  /\ mergeUnchanged

(* The repository is not ready, git fails, or the checkpoint is not saved. *)
MergeCreateFails ==
  /\ Merging("create")
  /\ \E w \in BOOLEAN : run' = [run EXCEPT !.mergeWorktree = w]
  /\ merge' = [merge EXCEPT !.pc = "failed"]
  /\ UNCHANGED disk
  /\ mergeUnchanged

(* The tip is picked on the base the worktree was created from. *)
MergeIntegrate ==
  /\ Merging("integrate")
  /\ ~cancelled
  /\ \E order \in PickOrders(merge.selected) :
       merge' = [merge EXCEPT !.pc = "checkpoint", !.tip = @ \o order]
  /\ UNCHANGED <<run, disk>>
  /\ mergeUnchanged

MergeIntegrateFails ==
  /\ Merging("integrate")
  /\ merge' = [merge EXCEPT !.pc = "failed"]
  /\ UNCHANGED <<run, disk>>
  /\ mergeUnchanged

(* Fault: the branch moves though its checkpoint was not saved. *)
MergeUncheckpointed ==
  /\ Merging("checkpoint")
  /\ run' = [run EXCEPT !.mergeCommit = merge.tip]
  /\ TrySave
  /\ merge' = [merge EXCEPT !.pc = "ff"]
  /\ mergeUnchanged

(* The second checkpoint names the candidate before the branch moves. *)
MergeCheckpoint ==
  /\ Merging("checkpoint")
  /\ run' = [run EXCEPT !.mergeCommit = merge.tip]
  /\ \/ Save /\ merge' = [merge EXCEPT !.pc = "ff"]
     \/ SaveFails /\ merge' = [merge EXCEPT !.pc = "failed"]
  /\ mergeUnchanged

(* git merge --ff-only; it can be killed after it moved the branch. *)
FastForward ==
  /\ Merging("ff")
  /\ ~cancelled
  /\ IsAncestor(branch, merge.tip) \/ IsAncestor(merge.tip, branch)
  /\ branch' = IF IsAncestor(branch, merge.tip) THEN merge.tip ELSE branch
  /\ \E pc \in {"merged", "failed"} : merge' = [merge EXCEPT !.pc = pc]
  /\ UNCHANGED <<run, disk, active, cancelled, executorVars>>

FastForwardFails ==
  /\ Merging("ff")
  /\ merge' = [merge EXCEPT !.pc = "failed"]
  /\ UNCHANGED <<run, disk>>
  /\ mergeUnchanged

Succeeded == Merging("merged") \/ (Merging("failed") /\ MergedCandidate(run))

RecordMerge ==
  /\ Succeeded
  /\ run' = MarkMerged(run, merge.selected)
  /\ Save
  /\ merge' = [merge EXCEPT !.pc = "cleanup"]
  /\ mergeUnchanged

(* The marks stay in memory, and the worktrees where they are. *)
RecordMergeUnsaved ==
  /\ Succeeded
  /\ run' = [MarkMerged(run, merge.selected) EXCEPT !.status = "review"]
  /\ SaveFails
  /\ End
  /\ merge' = NoMerge
  /\ UNCHANGED <<branch, executorVars>>

MergeFails ==
  /\ Merging("failed")
  /\ ~MergedCandidate(run)
  /\ run' = [run EXCEPT !.status = "review"]
  /\ End
  /\ TrySave
  /\ merge' = NoMerge
  /\ UNCHANGED <<branch, executorVars>>

MergedTrees == {t \in merge.selected : run.tasks[t].worktree}

(* The merge worktree goes first. *)
RemoveMergedTree ==
  /\ Merging("cleanup")
  /\ ~cancelled
  /\ \/ run.mergeWorktree /\ run' = [run EXCEPT !.mergeWorktree = FALSE]
     \/ /\ ~run.mergeWorktree
        /\ \E t \in MergedTrees : run' = [run EXCEPT !.tasks[t].worktree = FALSE]
  /\ TrySave
  /\ UNCHANGED merge
  /\ mergeUnchanged

(* Every tree is gone, or one could not be removed. *)
FinishMerge ==
  /\ Merging("cleanup")
  /\ run' = Reviewed([run EXCEPT !.status = "review"])
  /\ End
  /\ TrySave
  /\ merge' = NoMerge
  /\ UNCHANGED <<branch, executorVars>>

MergeStep ==
  \/ MergeCreate \/ MergeCreateFails \/ MergeIntegrate \/ MergeIntegrateFails
  \/ MergeCheckpoint \/ FastForward \/ FastForwardFails \/ RecordMerge
  \/ RecordMergeUnsaved \/ MergeFails \/ RemoveMergedTree \/ FinishMerge

------------------------------------------------------------------------------
(* The process dies, and a new one restores the last snapshot *)

(* Fault: a retry that was waiting is left as it is. *)
InterruptedRunning(r) ==
  [r EXCEPT !.status = "cancelled",
            !.tasks = [t \in Task |->
               IF r.tasks[t].status = "running"
                 THEN [r.tasks[t] EXCEPT !.status = "failed"]
                 ELSE r.tasks[t]]]

(* Fault: tasks get the status restoreAttempts gives to attempts. *)
InterruptedAsAttempts(r) ==
  [r EXCEPT !.status = "cancelled",
            !.tasks = [t \in Task |->
               IF r.tasks[t].status \in {"running", "retrying"}
                 THEN [r.tasks[t] EXCEPT !.status = "interrupted"]
                 ELSE r.tasks[t]]]

Interrupted(r) ==
  [r EXCEPT !.status = "cancelled",
            !.tasks = [t \in Task |->
               IF r.tasks[t].status \in {"running", "retrying"}
                 THEN [r.tasks[t] EXCEPT !.status = "failed"]
                 ELSE r.tasks[t]]]

(* Fault: a merge is interrupted whatever the branch holds. *)
RestoredBlindly(r) ==
  IF r.status \in {"running", "planning", "merging"} THEN Interrupted(r) ELSE r

Restored(r) ==
  IF r.status = "merging" /\ MergedCandidate(r)
    THEN Reviewed([MarkMerged(r, r.mergeTasks) EXCEPT !.status = "review"])
  ELSE IF r.status \in {"running", "planning", "merging"} THEN Interrupted(r)
  ELSE r

Crash ==
  /\ run' = Restored(disk)
  /\ End
  /\ graph' = NewTasks
  /\ loop' = "scan"
  /\ job' = NoJobs
  /\ merge' = NoMerge
  /\ UNCHANGED <<disk, branch>>

CommitToBranch ==
  /\ Cardinality({i \in DOMAIN branch : branch[i] = UserCommit}) < MaxUserCommits
  /\ branch' = Append(branch, UserCommit)
  /\ UNCHANGED <<run, disk, active, cancelled, executorVars, merge>>

------------------------------------------------------------------------------
Executor ==
  \/ \E t \in Task : TaskStep(t)
  \/ AwaitResult \/ FinishGraph

Planner == PlanSucceeds \/ PlanFails

User ==
  \/ RetryPlanning \/ UpdateDAG \/ UpdateRunConfig \/ ExecuteDAG \/ Cancel
  \/ MergeDAG \/ CleanupDAG
  \/ \E t \in Task :
       \/ \E resolve \in BOOLEAN : RetryDAGTask(t, resolve)
       \/ ResetDAGTask(t) \/ UseDAGTaskProfile(t)
       \/ \E decision \in {"accepted", "rejected"} : ReviewDAGTask(t, decision)

Next ==
  \/ Planner \/ Executor \/ MergeStep \/ User
  \/ RecordEvent \/ Crash \/ CommitToBranch

Spec == Init /\ [][Next]_vars

(* A worker's call may take for ever: a profile may have no timeout.  It ends
   when its context is cancelled.  Everything else a goroutine does is a step
   of the host, or a git command, and is taken. *)
AwaitsWorker(t) ==
  job[t].pc = "execute" \/ (job[t].pc = "integrate" /\ job[t].task.resolve)

Fairness ==
  /\ WF_vars(cancelled /\ Planner)
  /\ \A t \in Task : WF_vars((cancelled \/ ~AwaitsWorker(t)) /\ TaskStep(t))
  /\ WF_vars(AwaitResult \/ FinishGraph)
  /\ WF_vars(MergeStep)

FairSpec == Spec /\ Fairness

------------------------------------------------------------------------------
(* What a run never does *)

(* A snapshot keeps work behind its dependencies: a task is running, waits to
   retry, or is completed only on completed dependencies, and a completed
   task has the result its dependents integrate. *)
Ordered(r) ==
  \A t \in Task :
    /\ r.tasks[t].status \in {"running", "retrying", "completed"} =>
         \A d \in Ancestors(r.deps, t) : r.tasks[d].status = "completed"
    /\ r.tasks[t].status = "completed" => r.tasks[t].result # "none"

(* Dependencies complete before a task starts (executeDAG), in memory and in
   what a restart finds, through retries, resets, cancellation and lost saves;
   and the dependency results a worker was launched with are all there. *)
StartedAfterDependencies ==
  /\ Ordered(run)
  /\ Ordered(disk)
  /\ \A t \in Running : AncestorsOf(t) \subseteq job[t].inputs

(* executeDAG decides on its private copy of the tasks, its workers on theirs:
   while it runs, each copy agrees with what the Manager shows, and what a
   task waits for does not change under it. *)
CopiesAgree ==
  /\ active = "graph" =>
       /\ \A t \in Task \ Running : graph[t] = run.tasks[t]
       /\ \A t \in Running :
            /\ graph[t].status = "running"
            /\ run.tasks[t].status \in {"running", "retrying"}
            /\ job[t].pc # "done" => run.tasks[t].status = job[t].task.status
  /\ active # "graph" => Running = {}

(* ReviewDAGTask, MergeDAG and restore together: only completed work is
   reviewed, and a result is accepted or merged only when everything it
   depends on is. *)
ReviewClosed(r) ==
  \A t \in Task :
    /\ r.tasks[t].review # "none" => r.tasks[t].status = "completed"
    /\ r.tasks[t].review \in Accepted =>
         \A d \in Ancestors(r.deps, t) : r.tasks[d].review \in Accepted
    /\ r.tasks[t].review = "merged" =>
         \A d \in Ancestors(r.deps, t) : r.tasks[d].review = "merged"
ReviewsClosed == ReviewClosed(run) /\ ReviewClosed(disk)

(* "Interrupted" work can be continued: with no execution active no task is
   left running or retrying, which neither retry nor reset would take, and
   an unsuccessful task has no completed dependent that keeps it from both. *)
NoStrandedTask ==
  /\ Inactive => \A t \in Task : run.tasks[t].status \notin {"running", "retrying"}
  /\ \A t \in Task : run.tasks[t].status \in Unsuccessful => ~HasCompletedDependent(t)

Landed == {t \in Task : \E i \in DOMAIN branch : branch[i] = t}

(* The target branch receives each task's commit once, after the commits of
   the tasks it depends on, and only with the user's acceptance. *)
BranchInOrder ==
  /\ \A i, j \in DOMAIN branch :
       branch[i] \in Task =>
         /\ branch[i] = branch[j] => i = j
         /\ branch[j] \in AncestorsOf(branch[i]) => j < i
  /\ \A t \in Landed : run.tasks[t].review \in Accepted

(* A merge is never forgotten: what the branch holds is marked merged in the
   saved run, or the saved run is a merge whose candidate a restart finds in
   the branch.  A crash at any point, or a save that fails after the branch
   moved, loses nothing. *)
MergesRecoverable ==
  \A t \in Landed :
    \/ disk.tasks[t].review = "merged"
    \/ disk.status = "merging" /\ MergedCandidate(disk) /\ t \in disk.mergeTasks

(* A merged result stays merged, also across a crash that loses the save of
   its mark. *)
MergedForever ==
  [][\A t \in Task : run.tasks[t].review = "merged" =>
                       run'.tasks[t].review = "merged"]_vars

(* While one process lives a completed task keeps its result: no later call,
   worker or retry invalidates what dependents integrated. *)
CompletedWorkKept ==
  [][~Crash =>
       \A t \in Task : run.tasks[t].status = "completed" =>
         /\ run'.deps = run.deps
         /\ run'.tasks[t].status = "completed"
         /\ run'.tasks[t].result = run.tasks[t].result]_vars

(* After Cancel no retry begins in that execution, and no task is launched but
   the one that executeDAG had already chosen when Cancel came: it is shown
   as running after Cancel returned, and it is the last. *)
CancelStops ==
  [][cancelled /\ cancelled' =>
       \A t \in Task : /\ loop' = t => loop = t
                       /\ job[t].pc = "idle" /\ loop # t => job'[t].pc = "idle"
                       /\ job[t].pc = "backoff" => job'[t].pc # "setup"]_vars

(* Stop works: a cancelled plan, execution or merge ends, whatever its workers
   do, and scheduled retries with it. *)
CancelEnds == cancelled ~> Inactive

(* The executor never waits for a result that does not come: when every call
   of a worker ends, the execution ends, with a bounded number of retries. *)
WorkersAnswer == \A t \in Task : []<>~AwaitsWorker(t)
ExecutionEnds == WorkersAnswer => (active = "graph" ~> active # "graph")

Promise == INSTANCE ReviewedGraph WITH
  deps <- run.deps,
  working <- {t \in Task : run.tasks[t].status \in {"running", "retrying"}},
  done <- {t \in Task : run.tasks[t].status = "completed"},
  changed <- {t \in Task : /\ run.tasks[t].status = "completed"
                           /\ run.tasks[t].result = "patch"},
  accepted <- {t \in Task : run.tasks[t].review \in Accepted},
  landed <- Landed

(* A run keeps the promise of ReviewedGraph. *)
KeepsPromise == Promise!Spec
==============================================================================
