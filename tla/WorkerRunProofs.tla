--------------------------- MODULE WorkerRunProofs ---------------------------
(***************************************************************************)
(* What WorkerRun keeps for every task graph, every number of tasks, every *)
(* limit and every crash: its types; and that work starts only on          *)
(* completed dependencies, and results are accepted and merged             *)
(* dependencies first, in memory and on disk.                              *)
(*                                                                         *)
(* The latter is not inductive.  A result that arrives is put into the run *)
(* from a goroutine's copy of its task, so the invariant speaks of the     *)
(* copies (ExecutorInv); a restart marks as merged what a snapshot names,  *)
(* so it speaks of that list while a merge is recoverable (MergeInv,       *)
(* Mergeable).                                                             *)
(***************************************************************************)
EXTENDS WorkerRun, FiniteSetTheorems, SequenceTheorems, TLAPS

------------------------------------------------------------------------------
(* The closure, which is declarative: no induction is needed *)

(* A task's direct dependencies are among those dependencyOrder visits. *)
LEMMA DirectDependencies ==
  ASSUME NEW D \in Relation, NEW t \in Task
  PROVE  D[t] \subseteq Ancestors(D, t)
BY DEF Relation, Ancestors

(* dependencyOrder visits the dependencies of what it visits. *)
LEMMA AncestorsTransitive ==
  ASSUME NEW D \in Relation, NEW t \in Task, NEW d \in Ancestors(D, t)
  PROVE  Ancestors(D, d) \subseteq Ancestors(D, t)
<1> SUFFICES ASSUME NEW e \in Ancestors(D, d),
                    NEW S \in SUBSET Task, D[t] \subseteq S, ClosedUnder(D, S)
             PROVE  e \in S
  BY DEF Ancestors
<1>1. d \in S
  BY DEF Ancestors
<1>2. D[d] \subseteq S
  BY <1>1 DEF ClosedUnder
<1> QED
  BY <1>2 DEF Ancestors

------------------------------------------------------------------------------
(* Type correctness *)

(* NewDAGTask: a fresh task is a task. *)
LEMMA NewTaskTyped == NewTask \in TaskRecord /\ NewTasks \in [Task -> TaskRecord]
BY DEF NewTask, NewTasks, TaskRecord, TaskStatus, Review

(* The orders in which MergeDAG may pick commits are sequences of tasks. *)
LEMMA PickOrdersTyped ==
  ASSUME NEW S \in SUBSET Task, NEW order \in PickOrders(S)
  PROVE  order \in Seq(Task)
<1> DEFINE P == {t \in S : run.tasks[t].result = "patch"}
<1>1. IsFiniteSet(P)
  BY TasksAssumption, FS_Subset
<1>2. Cardinality(P) \in Nat
  BY <1>1, FS_CardinalityType
<1>3. order \in [1..Cardinality(P) -> P]
  BY DEF PickOrders, SetToSeqs
<1>4. order \in Seq(P)
  BY <1>2, <1>3, SeqDef
<1> QED
  BY <1>4

(* Init of the run, and of everything derived from it, has its type. *)
LEMMA InitTyped == Init => TypeOK
<1> SUFFICES ASSUME Init PROVE TypeOK
  OBVIOUS
<1>1. run \in Snapshot
  BY NewTaskTyped DEF Init, Snapshot, RunStatus, Relation
<1>2. graph \in [Task -> TaskRecord] /\ NewTask \in TaskRecord
  BY NewTaskTyped DEF Init
<1>3. branch \in History
  BY DEF Init, History
<1>4. job \in [Task -> Job]
  BY <1>2 DEF Init, NoJobs, Idle, Job
<1> QED
  BY <1>1, <1>2, <1>3, <1>4 DEF Init, TypeOK, NoMerge, Merge, History

(* A snapshot with other tasks, or another status, is a snapshot. *)
LEMMA SnapshotUpdates ==
  ASSUME NEW r \in Snapshot
  PROVE  /\ \A T \in [Task -> TaskRecord] : [r EXCEPT !.tasks = T] \in Snapshot
         /\ \A t \in Task, x \in TaskRecord : [r EXCEPT !.tasks[t] = x] \in Snapshot
         /\ \A s \in RunStatus : [r EXCEPT !.status = s] \in Snapshot
         /\ r.tasks \in [Task -> TaskRecord]
         /\ r.deps \in Relation
BY DEF Snapshot

(* publishTask keeps both copies of the run well formed. *)
LEMMA PublishTyped ==
  ASSUME TypeOK, NEW t \in Task, NEW x \in TaskRecord, Publish(t, x)
  PROVE  run' \in Snapshot /\ disk' \in Snapshot
<1>1. run' \in Snapshot
  BY SnapshotUpdates DEF TypeOK, Publish
<1> QED
  BY <1>1 DEF TypeOK, Publish, TrySave, Save, SaveFails

(* A local copy of a task moves on with its goroutine. *)
LEMMA StepTyped ==
  ASSUME TypeOK, NEW t \in Task, NEW x \in TaskRecord,
         NEW pc \in {"setup", "integrate", "execute", "backoff", "done"},
         Step(t, pc, x)
  PROVE  job' \in [Task -> Job]
<1>1. job \in [Task -> Job]
  BY DEF TypeOK
<1>2. job[t] \in Job
  BY <1>1
<1>3. [job[t] EXCEPT !.pc = pc, !.task = x] \in Job
  BY <1>2 DEF Job
<1>4. job' = [job EXCEPT ![t] = [job[t] EXCEPT !.pc = pc, !.task = x]]
  BY DEF Step
<1> QED
  BY <1>1, <1>3, <1>4

(* Every record a worker's goroutine builds is a task. *)
LEMMA TaskUpdates ==
  ASSUME NEW x \in TaskRecord
  PROVE  /\ \A s \in TaskStatus : [x EXCEPT !.status = s] \in TaskRecord
         /\ \A w \in BOOLEAN : [x EXCEPT !.worktree = w] \in TaskRecord
         /\ \A c \in BOOLEAN : [x EXCEPT !.conflicted = c] \in TaskRecord
         /\ [x EXCEPT !.ready = TRUE, !.resolve = FALSE] \in TaskRecord
         /\ Failed(x) \in TaskRecord
         /\ NextAttempt(x) \in TaskRecord
         /\ \A kind \in ResultKinds :
              [x EXCEPT !.status = "completed", !.review = "pending",
                        !.result = kind, !.conflicted = FALSE] \in TaskRecord
         /\ x.worktree \in BOOLEAN
<1>1. \A s \in TaskStatus : [x EXCEPT !.status = s] \in TaskRecord
  BY DEF TaskRecord
<1>2. \A w \in BOOLEAN : [x EXCEPT !.worktree = w] \in TaskRecord
  BY DEF TaskRecord
<1>3. \A c \in BOOLEAN : [x EXCEPT !.conflicted = c] \in TaskRecord
  BY DEF TaskRecord
<1>4. [x EXCEPT !.ready = TRUE, !.resolve = FALSE] \in TaskRecord
  BY DEF TaskRecord
<1>5. Failed(x) \in TaskRecord
  BY DEF TaskRecord, TaskStatus, Failed, EndStatus
<1>6. NextAttempt(x) \in TaskRecord
  <2> DEFINE y == Failed(x)
  <2>1. y \in TaskRecord
    BY <1>5
  <2>2. y.retries + 1 \in Nat
    BY <2>1 DEF TaskRecord
  <2> HIDE DEF y
  <2>3. [y EXCEPT !.status = "retrying", !.retries = y.retries + 1] \in TaskRecord
    BY <2>1, <2>2 DEF TaskRecord, TaskStatus
  <2> QED
    BY <2>3 DEF NextAttempt, y
<1>7. ASSUME NEW kind \in ResultKinds
      PROVE  [x EXCEPT !.status = "completed", !.review = "pending",
                       !.result = kind, !.conflicted = FALSE] \in TaskRecord
  BY ResultsAssumption DEF TaskRecord, TaskStatus, Review
<1> QED
  BY <1>1, <1>2, <1>3, <1>4, <1>5, <1>6, <1>7 DEF TaskRecord

(* A step of the executor or of one of its goroutines. *)
LEMMA TaskStepTyped ==
  ASSUME TypeOK, NEW t \in Task, TaskStep(t)
  PROVE  TypeOK'
<1>0. job[t].task \in TaskRecord
  BY DEF TypeOK, Job
<1>1. CASE BlockTask(t)
  <2>1. graph' \in [Task -> TaskRecord]
    BY <1>1 DEF TypeOK, BlockTask, TaskRecord, TaskStatus
  <2>2. run' \in Snapshot /\ disk' \in Snapshot
    BY <1>1, <2>1, PublishTyped DEF BlockTask
  <2> QED
    BY <1>1, <2>1, <2>2 DEF TypeOK, BlockTask
<1>2. CASE LaunchTask(t)
  <2>1. graph' \in [Task -> TaskRecord]
    BY <1>2 DEF TypeOK, LaunchTask, TaskRecord, TaskStatus
  <2>2. run' \in Snapshot /\ disk' \in Snapshot
    BY <1>2, <2>1, PublishTyped DEF LaunchTask
  <2>3. job' \in [Task -> Job]
    BY <1>2, <2>1 DEF TypeOK, LaunchTask, Job, AncestorsOf, Ancestors
  <2> QED
    BY <1>2, <2>1, <2>2, <2>3 DEF TypeOK, LaunchTask
<1>c. CASE ChooseTask(t)
  BY <1>c DEF TypeOK, ChooseTask
<1>3. CASE ReceiveResult(t)
  <2>1. run' \in Snapshot /\ disk' \in Snapshot
    BY <1>3, <1>0, PublishTyped DEF ReceiveResult
  <2>2. job' \in [Task -> Job]
    BY <1>3, NewTaskTyped DEF TypeOK, ReceiveResult, Idle, Job
  <2> QED
    BY <1>3, <1>0, <2>1, <2>2 DEF TypeOK, ReceiveResult
<1>4. ASSUME NEW x \in TaskRecord,
             NEW pc \in {"setup", "integrate", "execute", "backoff", "done"},
             Step(t, pc, x), Publish(t, x) \/ UNCHANGED <<run, disk>>,
             jobUnchanged
      PROVE  TypeOK'
  <2>1. job' \in [Task -> Job]
    BY <1>4, StepTyped
  <2>2. run' \in Snapshot /\ disk' \in Snapshot
    BY <1>4, PublishTyped DEF TypeOK
  <2> QED
    BY <2>1, <2>2, <1>4 DEF TypeOK, jobUnchanged
<1>5. CASE SetUp(t)
  BY <1>0, <1>4, <1>5, TaskUpdates DEF SetUp
<1>6. CASE SetUpFails(t)
  <2>1. PICK w \in {job[t].task.worktree, TRUE} :
          Exit(t, Failed([job[t].task EXCEPT !.worktree = w]))
    BY <1>6 DEF SetUpFails
  <2>2. [job[t].task EXCEPT !.worktree = w] \in TaskRecord
    BY <1>0, TaskUpdates
  <2> QED
    BY <2>1, <2>2, <1>4, <1>6, TaskUpdates DEF SetUpFails, Exit
<1>7. CASE Integrate(t)
  BY <1>0, <1>4, <1>7, TaskUpdates DEF Integrate
<1>8. CASE IntegrateFails(t)
  <2> DEFINE x == [Failed(job[t].task) EXCEPT !.conflicted = HasInputs(t)]
  <2>1. HasInputs(t) \in BOOLEAN
    BY DEF HasInputs
  <2>2. x \in TaskRecord
    BY <1>0, <2>1, TaskUpdates
  <2> QED
    BY <2>2, <1>4, <1>8 DEF IntegrateFails, Exit
<1>9. CASE Complete(t)
  BY <1>0, <1>4, <1>9, TaskUpdates DEF Complete, Exit
<1>10. CASE ExecuteFails(t)
  BY <1>0, <1>4, <1>10, TaskUpdates DEF ExecuteFails, Exit
<1>11. CASE ScheduleRetry(t)
  BY <1>0, <1>4, <1>11, TaskUpdates DEF ScheduleRetry
<1>12. CASE RetryNow(t)
  BY <1>0, <1>4, <1>12 DEF RetryNow
<1>13. CASE RetryCancelled(t)
  BY <1>0, <1>4, <1>13, TaskUpdates DEF RetryCancelled, Exit, TaskStatus
<1> QED
  BY <1>1, <1>2, <1>c, <1>3, <1>5, <1>6, <1>7, <1>8, <1>9, <1>10, <1>11, <1>12, <1>13
     DEF TaskStep

(* A merge is recorded in tasks and commit without leaving the types. *)
LEMMA RecordsTyped ==
  ASSUME NEW r \in Snapshot, NEW S \in SUBSET Task
  PROVE  /\ MarkMerged(r, S) \in Snapshot
         /\ Reviewed(r) \in Snapshot
         /\ Interrupted(r) \in Snapshot
<1>1. MarkMerged(r, S) \in Snapshot
  <2> DEFINE T == [t \in Task |-> IF t \in S
                                    THEN [r.tasks[t] EXCEPT !.review = "merged"]
                                    ELSE r.tasks[t]]
  <2>1. T \in [Task -> TaskRecord]
    BY DEF Snapshot, TaskRecord, Review
  <2> HIDE DEF T
  <2>2. [r EXCEPT !.tasks = T, !.lastMerged = r.mergeCommit] \in Snapshot
    BY <2>1 DEF Snapshot
  <2> QED
    BY <2>2 DEF MarkMerged, T
<1>2. Reviewed(r) \in Snapshot
  <2>1. ReviewStatus(r) \in RunStatus
    BY DEF ReviewStatus, RunStatus, Snapshot
  <2> QED
    BY <2>1, SnapshotUpdates DEF Reviewed
<1>3. Interrupted(r) \in Snapshot
  <2> DEFINE T == [t \in Task |->
                     IF r.tasks[t].status \in {"running", "retrying"}
                       THEN [r.tasks[t] EXCEPT !.status = "failed"]
                       ELSE r.tasks[t]]
  <2>1. T \in [Task -> TaskRecord]
    BY DEF Snapshot, TaskRecord, TaskStatus
  <2> HIDE DEF T
  <2>2. [r EXCEPT !.status = "cancelled", !.tasks = T] \in Snapshot
    BY <2>1 DEF Snapshot, RunStatus
  <2> QED
    BY <2>2 DEF Interrupted, T
<1> QED
  BY <1>1, <1>2, <1>3

(* A step of mergeDAG. *)
LEMMA MergeStepTyped ==
  ASSUME TypeOK, MergeStep
  PROVE  TypeOK'
<1>0. /\ run \in Snapshot /\ disk \in Snapshot /\ merge \in Merge
      /\ merge.selected \in SUBSET Task /\ merge.tip \in History
      /\ branch \in History /\ NoMerge \in Merge
  BY DEF TypeOK, Merge, NoMerge, History
<1>1. ASSUME run' \in Snapshot, TrySave \/ UNCHANGED disk, merge' \in Merge,
             branch' \in History, active' \in {"none", "merge"},
             cancelled' \in BOOLEAN, UNCHANGED executorVars
      PROVE  TypeOK'
  BY <1>1, <1>0 DEF TypeOK, TrySave, Save, SaveFails, executorVars
<1>2. ASSUME NEW pc \in {"create", "integrate", "checkpoint", "ff", "failed",
                         "merged", "cleanup"}
      PROVE  [merge EXCEPT !.pc = pc] \in Merge
  BY <1>0 DEF Merge
<1>3. \A w \in BOOLEAN : [run EXCEPT !.mergeWorktree = w] \in Snapshot
  BY <1>0 DEF Snapshot
<1>4. MarkMerged(run, merge.selected) \in Snapshot
  BY <1>0, RecordsTyped
<1>5. \A pc : Merging(pc) /\ mergeUnchanged =>
        /\ active' \in {"none", "merge"}
        /\ cancelled' \in BOOLEAN
        /\ branch' \in History
        /\ UNCHANGED executorVars
  BY <1>0 DEF TypeOK, Merging, mergeUnchanged
<1>6. End => active' \in {"none", "merge"} /\ cancelled' \in BOOLEAN
  BY DEF End
<1>7. CASE MergeCreate
  <2>1. [merge EXCEPT !.pc = "integrate", !.tip = branch] \in Merge
    BY <1>0 DEF Merge
  <2> QED
    BY <1>7, <2>1, <1>1, <1>3, <1>5 DEF MergeCreate, TrySave
<1>8. CASE MergeCreateFails
  BY <1>8, <1>1, <1>2, <1>3, <1>5 DEF MergeCreateFails
<1>9. CASE MergeIntegrate
  <2>1. PICK order \in PickOrders(merge.selected) :
          merge' = [merge EXCEPT !.pc = "checkpoint", !.tip = merge.tip \o order]
    BY <1>9 DEF MergeIntegrate
  <2>2. order \in Seq(Commit)
    BY <1>0, PickOrdersTyped, SeqMonotonic DEF Commit
  <2>3. merge.tip \o order \in History
    BY <1>0, <2>2, ConcatProperties DEF History
  <2>4. merge' \in Merge
    BY <1>0, <2>1, <2>3 DEF Merge
  <2> QED
    BY <1>9, <2>4, <1>0, <1>1, <1>5 DEF MergeIntegrate
<1>10. CASE MergeIntegrateFails
  BY <1>10, <1>0, <1>1, <1>2, <1>5 DEF MergeIntegrateFails
<1>11. CASE MergeCheckpoint
  <2>1. [run EXCEPT !.mergeCommit = merge.tip] \in Snapshot
    BY <1>0 DEF Snapshot
  <2> QED
    BY <1>11, <2>1, <1>1, <1>2, <1>5 DEF MergeCheckpoint, TrySave
<1>12. CASE FastForward
  BY <1>12, <1>0, <1>1, <1>2, Zenon DEF FastForward, Merging, TypeOK
<1>13. CASE FastForwardFails
  BY <1>13, <1>0, <1>1, <1>2, <1>5 DEF FastForwardFails
<1>14. CASE RecordMerge
  BY <1>14, <1>1, <1>2, <1>4, <1>5 DEF RecordMerge, Succeeded, TrySave
<1>15. CASE RecordMergeUnsaved
  <2>1. [MarkMerged(run, merge.selected) EXCEPT !.status = "review"] \in Snapshot
    BY <1>4, SnapshotUpdates DEF RunStatus
  <2> QED
    BY <1>15, <2>1, <1>0, <1>1, <1>6 DEF RecordMergeUnsaved, TrySave
<1>16. [run EXCEPT !.status = "review"] \in Snapshot
  BY <1>0, SnapshotUpdates DEF RunStatus
<1>17. CASE MergeFails
  BY <1>17, <1>0, <1>1, <1>6, <1>16 DEF MergeFails
<1>18. CASE RemoveMergedTree
  <2>1. ASSUME NEW t \in Task
        PROVE  [run EXCEPT !.tasks[t].worktree = FALSE] \in Snapshot
    <3>1. run.tasks[t] \in TaskRecord
      BY <1>0, SnapshotUpdates
    <3>2. [run.tasks[t] EXCEPT !.worktree = FALSE] \in TaskRecord
      BY <3>1, TaskUpdates
    <3> QED
      BY <1>0, <3>2 DEF Snapshot
  <2>2. run' \in Snapshot
    BY <1>18, <1>3, <2>1 DEF RemoveMergedTree, MergedTrees, TypeOK, Merge
  <2> QED
    BY <1>18, <2>2, <1>0, <1>1, <1>5 DEF RemoveMergedTree
<1>19. CASE FinishMerge
  BY <1>19, <1>0, <1>1, <1>6, <1>16, RecordsTyped DEF FinishMerge
<1> QED
  BY <1>7, <1>8, <1>9, <1>10, <1>11, <1>12, <1>13, <1>14, <1>15, <1>17, <1>18,
     <1>19 DEF MergeStep

(* What the user does with the run. *)
LEMMA UserTyped ==
  ASSUME TypeOK, User
  PROVE  TypeOK'
<1>0. /\ run \in Snapshot /\ disk \in Snapshot /\ branch \in History
      /\ graph \in [Task -> TaskRecord]
      /\ run.tasks \in [Task -> TaskRecord]
      /\ \A t \in Task : run.tasks[t] \in TaskRecord
  BY SnapshotUpdates DEF TypeOK
<1>1. ASSUME run' \in Snapshot, TrySave \/ UNCHANGED disk,
             graph' \in [Task -> TaskRecord],
             UNCHANGED <<branch, loop, job>>, merge' \in Merge,
             active' \in {"none", "plan", "graph", "merge"},
             cancelled' \in BOOLEAN
      PROVE  TypeOK'
  BY <1>1, <1>0 DEF TypeOK, TrySave, Save, SaveFails
<1>2. ASSUME run' \in Snapshot, TrySave \/ UNCHANGED disk,
             UNCHANGED <<branch, active, cancelled, executorVars, merge>>
      PROVE  TypeOK'
  BY <1>1, <1>2, <1>0 DEF TypeOK, executorVars
<1>3. ASSUME NEW T \in [Task -> TaskRecord], run' = [run EXCEPT !.tasks = T]
      PROVE  run' \in Snapshot
  BY <1>0, <1>3, SnapshotUpdates
<1>4. Save => TrySave
  BY DEF TrySave
<1>5. CASE RetryPlanning
  <2>1. run' \in Snapshot
    BY <1>5, <1>0, SnapshotUpdates DEF RetryPlanning, RunStatus
  <2> QED
    BY <1>5, <2>1, <1>0, <1>1, <1>4 DEF RetryPlanning, Begin, executorVars, TypeOK
<1>6. CASE UpdateDAG
  <2>1. run' \in Snapshot
    BY <1>6, <1>0, NewTaskTyped, GraphsAssumption DEF UpdateDAG, Snapshot
  <2> QED
    BY <1>6, <2>1, <1>2, <1>4 DEF UpdateDAG
<1>7. CASE UpdateRunConfig
  <2>1. run' \in Snapshot
    BY <1>7, <1>0 DEF UpdateRunConfig, Snapshot
  <2> QED
    BY <1>7, <2>1, <1>2, <1>4 DEF UpdateRunConfig
<1>8. CASE ExecuteDAG
  <2>1. run' \in Snapshot
    BY <1>8, <1>0, SnapshotUpdates DEF ExecuteDAG, RunStatus
  <2>2. TrySave /\ graph' \in [Task -> TaskRecord]
    BY <1>8, <1>0 DEF ExecuteDAG, TrySave
  <2>3. active' \in {"none", "graph"} /\ cancelled' \in BOOLEAN
    BY <1>8 DEF ExecuteDAG, Begin, Inactive, TypeOK
  <2> QED
    BY <1>8, <2>1, <2>2, <2>3, <1>1 DEF ExecuteDAG, TypeOK
<1>9. CASE Cancel
  BY <1>9, <1>0, <1>1 DEF Cancel, executorVars, TypeOK
<1>10. CASE MergeDAG
  <2>1. Selected \in SUBSET Task
    BY DEF Selected
  <2>2. run' \in Snapshot
    BY <1>10, <1>0, <2>1 DEF MergeDAG, Snapshot, RunStatus
  <2>3. NoMerge \in Merge
    BY DEF NoMerge, Merge, History
  <2>4. TrySave /\ merge' \in Merge
    <3>1. [NoMerge EXCEPT !.pc = "create", !.selected = Selected] \in Merge
      BY <2>1, <2>3 DEF Merge
    <3> QED
      BY <1>10, <3>1 DEF MergeDAG, TrySave, TypeOK
  <2>5. active' \in {"none", "merge"} /\ cancelled' \in BOOLEAN
    BY <1>10 DEF MergeDAG, Begin, Inactive, TypeOK
  <2> QED
    BY <1>10, <2>2, <2>4, <2>5, <1>0, <1>1 DEF MergeDAG, executorVars
<1>11. CASE CleanupDAG
  <2>1. PICK S \in SUBSET Task :
          /\ run' = [run EXCEPT
               !.mergeWorktree = FALSE,
               !.tasks = [t \in Task |-> [run.tasks[t] EXCEPT
                            !.worktree = run.tasks[t].worktree /\ t \notin S]]]
          /\ TrySave \/ UNCHANGED disk
    BY <1>11 DEF CleanupDAG
  <2> DEFINE T == [t \in Task |-> [run.tasks[t] EXCEPT
                     !.worktree = run.tasks[t].worktree /\ t \notin S]]
  <2>2. T \in [Task -> TaskRecord]
    <3>1. ASSUME NEW t \in Task
          PROVE  [run.tasks[t] EXCEPT
                    !.worktree = run.tasks[t].worktree /\ t \notin S] \in TaskRecord
      <4>1. (run.tasks[t].worktree /\ t \notin S) \in BOOLEAN
        OBVIOUS
      <4> QED
        BY <4>1, <1>0, TaskUpdates
    <3> QED
      BY <3>1
  <2> HIDE DEF T
  <2>3. run' = [run EXCEPT !.mergeWorktree = FALSE, !.tasks = T]
    BY <2>1 DEF T
  <2>4. run' \in Snapshot
    BY <2>2, <2>3, <1>0 DEF Snapshot
  <2> QED
    BY <1>11, <2>1, <2>4, <1>2 DEF CleanupDAG
<1>12. ASSUME NEW t \in Task, NEW resolve \in BOOLEAN, RetryDAGTask(t, resolve)
       PROVE  TypeOK'
  <2> DEFINE T == [u \in Task |->
          IF u = t
            THEN [run.tasks[t] EXCEPT !.status = "pending", !.resolve = resolve]
          ELSE IF run.tasks[u].status = "blocked" /\ t \in AncestorsOf(u)
            THEN [run.tasks[u] EXCEPT !.status = "pending"]
          ELSE run.tasks[u]]
  <2>1. [run.tasks[t] EXCEPT !.status = "pending", !.resolve = resolve] \in TaskRecord
    BY <1>0 DEF TaskRecord, TaskStatus
  <2>2. \A u \in Task : [run.tasks[u] EXCEPT !.status = "pending"] \in TaskRecord
    BY <1>0, TaskUpdates DEF TaskStatus
  <2>3. T \in [Task -> TaskRecord]
    BY <1>0, <2>1, <2>2
  <2> HIDE DEF T
  <2>4. run' = [run EXCEPT !.tasks = T]
    BY <1>12 DEF RetryDAGTask, T
  <2> QED
    BY <1>12, <2>3, <2>4, <1>2, <1>3, <1>4 DEF RetryDAGTask
<1>13. ASSUME NEW t \in Task, ResetDAGTask(t)
       PROVE  TypeOK'
  <2> DEFINE T == [u \in Task |->
          IF u = t
            THEN [run.tasks[t] EXCEPT !.status = "pending", !.ready = FALSE,
                                      !.worktree = FALSE, !.result = "none"]
          ELSE IF run.tasks[u].status = "blocked"
            THEN [run.tasks[u] EXCEPT !.status = "pending"]
          ELSE run.tasks[u]]
  <2>1. [run.tasks[t] EXCEPT !.status = "pending", !.ready = FALSE,
                             !.worktree = FALSE, !.result = "none"] \in TaskRecord
    BY <1>0 DEF TaskRecord, TaskStatus
  <2>2. \A u \in Task : [run.tasks[u] EXCEPT !.status = "pending"] \in TaskRecord
    BY <1>0, TaskUpdates DEF TaskStatus
  <2>3. T \in [Task -> TaskRecord]
    BY <1>0, <2>1, <2>2
  <2> HIDE DEF T
  <2>4. run' = [run EXCEPT !.tasks = T]
    BY <1>13 DEF ResetDAGTask, T
  <2> QED
    BY <1>13, <2>3, <2>4, <1>2, <1>3 DEF ResetDAGTask
<1>14. ASSUME NEW t \in Task, NEW decision \in {"accepted", "rejected"},
              ReviewDAGTask(t, decision)
       PROVE  TypeOK'
  <2> DEFINE r == [run EXCEPT !.tasks[t].review = decision]
  <2>1. [run.tasks[t] EXCEPT !.review = decision] \in TaskRecord
    BY <1>0 DEF TaskRecord, Review
  <2>2. r \in Snapshot
    BY <1>0, <2>1 DEF Snapshot
  <2>3. Reviewed(r) \in Snapshot
    BY <2>2, RecordsTyped
  <2> QED
    BY <1>14, <2>3, <1>2, <1>4 DEF ReviewDAGTask
<1>15. ASSUME NEW t \in Task, UseDAGTaskProfile(t)
       PROVE  TypeOK'
  BY <1>15 DEF UseDAGTaskProfile, TypeOK, executorVars
<1> QED
  BY <1>5, <1>6, <1>7, <1>8, <1>9, <1>10, <1>11, <1>12, <1>13, <1>14, <1>15 DEF User

(* Every step keeps every variable in its type. *)
LEMMA NextTyped == TypeOK /\ [Next]_vars => TypeOK'
<1> SUFFICES ASSUME TypeOK, [Next]_vars PROVE TypeOK'
  OBVIOUS
<1>0. /\ run \in Snapshot /\ disk \in Snapshot /\ branch \in History
      /\ NoMerge \in Merge /\ NoJobs \in [Task -> Job]
  BY NewTaskTyped DEF TypeOK, NoMerge, Merge, History, NoJobs, Idle, Job
<1>1. CASE UNCHANGED vars
  BY <1>1 DEF TypeOK, vars
<1>2. CASE Planner
  <2>1. run' \in Snapshot
    <3>1. EndStatus("draft") \in RunStatus /\ EndStatus("failed") \in RunStatus
      BY DEF EndStatus, RunStatus
    <3>2. CASE PlanSucceeds
      BY <3>1, <3>2, <1>0, NewTaskTyped, GraphsAssumption DEF PlanSucceeds, Snapshot
    <3>3. CASE PlanFails
      BY <3>1, <3>3, <1>0, SnapshotUpdates DEF PlanFails
    <3> QED
      BY <3>2, <3>3, <1>2 DEF Planner
  <2> QED
    BY <2>1, <1>2 DEF Planner, PlanSucceeds, PlanFails, TypeOK, TrySave, Save,
                      SaveFails, End, executorVars
<1>3. CASE Executor
  <2>1. CASE \E t \in Task : TaskStep(t)
    BY <2>1, TaskStepTyped
  <2>2. CASE AwaitResult
    BY <2>2 DEF AwaitResult, TypeOK
  <2>3. CASE FinishGraph
    <3>1. run' \in Snapshot
      BY <2>3, <1>0, SnapshotUpdates DEF FinishGraph, EndStatus, RunStatus
    <3> QED
      BY <3>1, <2>3, NewTaskTyped
         DEF FinishGraph, TypeOK, TrySave, Save, SaveFails, End
  <2> QED
    BY <1>3, <2>1, <2>2, <2>3 DEF Executor
<1>4. CASE MergeStep
  BY <1>4, MergeStepTyped
<1>5. CASE User
  BY <1>5, UserTyped
<1>6. CASE RecordEvent
  BY <1>6 DEF RecordEvent, TypeOK, SaveFails, executorVars
<1>7. CASE Crash
  <2>1. Restored(disk) \in Snapshot
    <3>1. disk.mergeTasks \in SUBSET Task
      BY <1>0 DEF Snapshot
    <3>2. MarkMerged(disk, disk.mergeTasks) \in Snapshot /\ Interrupted(disk) \in Snapshot
      BY <1>0, <3>1, RecordsTyped
    <3>3. [MarkMerged(disk, disk.mergeTasks) EXCEPT !.status = "review"] \in Snapshot
      BY <3>2, SnapshotUpdates DEF RunStatus
    <3> QED
      BY <1>0, <3>2, <3>3, RecordsTyped DEF Restored
  <2> QED
    BY <2>1, <1>7, <1>0, NewTaskTyped DEF Crash, TypeOK, End
<1>8. CASE CommitToBranch
  <2>1. branch' \in History
    BY <1>8, <1>0, AppendProperties DEF CommitToBranch, History, Commit
  <2> QED
    BY <2>1, <1>8 DEF CommitToBranch, TypeOK, executorVars
<1> QED
  BY <1>1, <1>2, <1>3, <1>4, <1>5, <1>6, <1>7, <1>8 DEF Next

(* TypeOK is an invariant of every run: each field keeps to the statuses,
   reviews and results the code and the board know, through crashes too. *)
THEOREM TypeCorrect == Spec => []TypeOK
BY InitTyped, NextTyped, PTL DEF Spec

------------------------------------------------------------------------------
(* The copies of the tasks, and what a restart is handed *)

Working == {"running", "retrying"}

(* What a goroutine's own copy of its task can be, from launch to answer. *)
JobInv(t) ==
  /\ AncestorsOf(t) \subseteq job[t].inputs
  /\ job[t].pc \in {"setup", "integrate", "execute", "backoff"} =>
       job[t].task.status \in Working
  /\ job[t].pc = "done" =>
       job[t].task.status \in {"completed", "failed", "cancelled"}
  /\ IF job[t].pc = "done" /\ job[t].task.status = "completed"
       THEN job[t].task.review = "pending" /\ job[t].task.result # "none"
       ELSE job[t].task.review = "none"

ExecutorInv ==
  /\ \A t \in Running :
       /\ active = "graph"
       /\ graph[t].status = "running"
       /\ run.tasks[t].status \in Working
       /\ job[t].pc # "done" => run.tasks[t].status = job[t].task.status
       /\ JobInv(t)
  /\ \A t \in Task \ Running :
       /\ run.tasks[t].status \notin Working
       /\ active = "graph" => graph[t] = run.tasks[t]

(* The task executeDAG has chosen stays what it was when it was chosen, whatever
   Cancel and the goroutines do before it is launched. *)
LoopInv ==
  \A t \in Task : loop = t =>
    /\ active = "graph" /\ graph[t].status = "pending"
    /\ \A d \in AncestorsOf(t) : graph[d].status = "completed"

(* What a merge of S may mark merged. *)
MergeClosed(r, S) ==
  \A t \in S :
    /\ r.tasks[t].review \in Accepted
    /\ \A d \in Ancestors(r.deps, t) : r.tasks[d].review = "merged" \/ d \in S

Mergeable(r) ==
  r.status = "merging" /\ r.mergeCommit # NoCommit => MergeClosed(r, r.mergeTasks)

MergeInv ==
  IF active = "merge"
    THEN merge.selected = run.mergeTasks /\ MergeClosed(run, run.mergeTasks)
    ELSE run.status = "merging" => run.mergeCommit = NoCommit

Kept(r) == Ordered(r) /\ ReviewClosed(r)

(* Work under way is work of a run that is saved as running. *)
Settled(r) == r.status # "running" => \A t \in Task : r.tasks[t].status \notin Working
GraphRuns == active = "graph" => run.status = "running"

(* What restore is handed. *)
Restorable(r) == Kept(r) /\ Mergeable(r) /\ Settled(r)

IndInv ==
  /\ TypeOK
  /\ ExecutorInv
  /\ LoopInv
  /\ MergeInv
  /\ GraphRuns
  /\ Kept(run)
  /\ Restorable(disk)

------------------------------------------------------------------------------
(* Which changes of a snapshot keep its order *)

(* Publishing a task that was not completed keeps the order, when it starts or
   completes only on completed dependencies and brings no acceptance. *)
LEMMA KeptPublish ==
  ASSUME NEW r, NEW q, NEW t \in Task, Kept(r), q.deps = r.deps,
         \A u \in Task \ {t} : q.tasks[u] = r.tasks[u],
         r.tasks[t].status # "completed",
         q.tasks[t].status \in Working \cup {"completed"} =>
           \A d \in Ancestors(r.deps, t) : r.tasks[d].status = "completed",
         q.tasks[t].status = "completed" => q.tasks[t].result # "none",
         q.tasks[t].review # "none" => q.tasks[t].status = "completed",
         q.tasks[t].review \notin Accepted
  PROVE  Kept(q)
<1>1. r.tasks[t].review = "none"
  BY DEF Kept, ReviewClosed
<1>2. Ordered(q)
  <2> SUFFICES ASSUME NEW u \in Task
               PROVE  /\ q.tasks[u].status \in Working \cup {"completed"} =>
                           \A d \in Ancestors(q.deps, u) :
                             q.tasks[d].status = "completed"
                      /\ q.tasks[u].status = "completed" =>
                           q.tasks[u].result # "none"
    BY DEF Ordered, Working
  <2>1. CASE u = t
    <3>1. \A d \in Ancestors(r.deps, t) : d \in Task
      BY DEF Ancestors
    <3> QED
      BY <2>1, <3>1
  <2>2. CASE u # t
    <3>1. \A d \in Ancestors(r.deps, u) : d \in Task
      BY DEF Ancestors
    <3>2. q.tasks[u] = r.tasks[u]
      BY <2>2
    <3> QED
      BY <3>1, <3>2 DEF Kept, Ordered, Working
  <2> QED
    BY <2>1, <2>2
<1>3. ReviewClosed(q)
  <2> SUFFICES ASSUME NEW u \in Task
               PROVE  /\ q.tasks[u].review # "none" => q.tasks[u].status = "completed"
                      /\ q.tasks[u].review \in Accepted =>
                           \A d \in Ancestors(q.deps, u) : q.tasks[d].review \in Accepted
                      /\ q.tasks[u].review = "merged" =>
                           \A d \in Ancestors(q.deps, u) : q.tasks[d].review = "merged"
    BY DEF ReviewClosed
  <2>1. \A d \in Ancestors(r.deps, u) : d \in Task
    BY DEF Ancestors
  <2>2. CASE u = t
    BY <2>2 DEF Accepted
  <2>3. CASE u # t
    <3>1. q.tasks[u] = r.tasks[u]
      BY <2>3
    <3> QED
      BY <1>1, <2>1, <3>1 DEF Kept, ReviewClosed, Accepted
  <2> QED
    BY <2>2, <2>3
<1> QED
  BY <1>2, <1>3 DEF Kept

(* Giving work up, or queueing it again, keeps the order: nothing completed is
   touched, and nothing starts. *)
LEMMA KeptWithdraw ==
  ASSUME NEW r, NEW q, Kept(r), q.deps = r.deps,
         \A u \in Task :
           /\ q.tasks[u].review = r.tasks[u].review
           /\ \/ /\ q.tasks[u].status = r.tasks[u].status
                 /\ q.tasks[u].result = r.tasks[u].result
              \/ /\ r.tasks[u].status # "completed"
                 /\ q.tasks[u].status \notin Working \cup {"completed"}
  PROVE  Kept(q)
<1>0. \A u \in Task : \A d \in Ancestors(r.deps, u) : d \in Task
  BY DEF Ancestors
<1>1. Ordered(q)
  <2> SUFFICES ASSUME NEW u \in Task
               PROVE  /\ q.tasks[u].status \in Working \cup {"completed"} =>
                           \A d \in Ancestors(q.deps, u) :
                             q.tasks[d].status = "completed"
                      /\ q.tasks[u].status = "completed" =>
                           q.tasks[u].result # "none"
    BY DEF Ordered, Working
  <2> QED
    BY <1>0 DEF Kept, Ordered, Working
<1>2. ReviewClosed(q)
  BY <1>0 DEF Kept, ReviewClosed
<1> QED
  BY <1>1, <1>2 DEF Kept

(* MarkMerged touches the reviews it is given, and no other. *)
LEMMA MarkEffect ==
  ASSUME NEW r \in Snapshot, NEW S \in SUBSET Task
  PROVE  LET q == MarkMerged(r, S) IN
           /\ q.deps = r.deps /\ q.status = r.status
           /\ q.mergeTasks = r.mergeTasks
           /\ \A u \in Task : /\ q.tasks[u].status = r.tasks[u].status
                              /\ q.tasks[u].result = r.tasks[u].result
                              /\ u \notin S => q.tasks[u].review = r.tasks[u].review
                              /\ u \in S => q.tasks[u].review = "merged"
BY DEF MarkMerged, Snapshot, TaskRecord

(* Marking a closed set of accepted results merged keeps the order. *)
LEMMA KeptMark ==
  ASSUME NEW r \in Snapshot, NEW S \in SUBSET Task, Kept(r), MergeClosed(r, S)
  PROVE  Kept(MarkMerged(r, S))
<1> DEFINE q == MarkMerged(r, S)
<1>0. \A u \in Task : \A d \in Ancestors(r.deps, u) : d \in Task
  BY DEF Ancestors
<1>1. /\ q.deps = r.deps
      /\ \A u \in Task : /\ q.tasks[u].status = r.tasks[u].status
                         /\ q.tasks[u].result = r.tasks[u].result
                         /\ u \notin S => q.tasks[u].review = r.tasks[u].review
                         /\ u \in S => q.tasks[u].review = "merged"
  BY MarkEffect
<1> HIDE DEF q
<1>2. Ordered(q)
  BY <1>0, <1>1 DEF Kept, Ordered
<1>3. \A u \in S : r.tasks[u].review \in Accepted
  BY DEF MergeClosed
<1>4. ReviewClosed(q)
  <2> SUFFICES ASSUME NEW u \in Task
               PROVE  /\ q.tasks[u].review # "none" => q.tasks[u].status = "completed"
                      /\ q.tasks[u].review \in Accepted =>
                           \A d \in Ancestors(q.deps, u) : q.tasks[d].review \in Accepted
                      /\ q.tasks[u].review = "merged" =>
                           \A d \in Ancestors(q.deps, u) : q.tasks[d].review = "merged"
    BY DEF ReviewClosed
  <2>1. q.tasks[u].review # "none" => q.tasks[u].status = "completed"
    BY <1>1, <1>3 DEF Kept, ReviewClosed, Accepted
  <2>2. q.tasks[u].review = "merged" =>
          \A d \in Ancestors(q.deps, u) : q.tasks[d].review = "merged"
    BY <1>0, <1>1 DEF Kept, ReviewClosed, MergeClosed
  <2>3. q.tasks[u].review \in Accepted =>
          \A d \in Ancestors(q.deps, u) : q.tasks[d].review \in Accepted
    BY <1>0, <1>1, <1>3, <2>2 DEF Kept, ReviewClosed, Accepted
  <2> QED
    BY <2>1, <2>2, <2>3
<1> QED
  BY <1>2, <1>4 DEF Kept, q

------------------------------------------------------------------------------
(* The executor and its goroutines *)

(* publishTask changes one task of the run, and nothing else of it. *)
LEMMA PublishEffect ==
  ASSUME TypeOK, NEW t \in Task, NEW x, Publish(t, x)
  PROVE  /\ run'.tasks[t] = x
         /\ \A u \in Task \ {t} : run'.tasks[u] = run.tasks[u]
         /\ run'.deps = run.deps /\ run'.status = run.status
         /\ run'.mergeCommit = run.mergeCommit /\ run'.mergeTasks = run.mergeTasks
BY DEF Publish, TypeOK, Snapshot

(* A goroutine that moves on leaves the others, and their tasks, alone. *)
LEMMA LocalStep ==
  ASSUME TypeOK, ExecutorInv, Kept(run),
         NEW t \in Task, NEW x,
         NEW pc \in {"setup", "integrate", "execute", "backoff", "done"},
         job[t].pc # "idle",
         Step(t, pc, x),
         \/ Publish(t, x)
         \/ /\ UNCHANGED <<run, disk>>
            /\ pc # "done" => x.status = run.tasks[t].status,
         jobUnchanged,
         pc # "done" => x.status \in Working /\ x.review = "none",
         pc = "done" =>
           /\ UNCHANGED <<run, disk>>
           /\ x.status \in {"completed", "failed", "cancelled"}
           /\ IF x.status = "completed"
                THEN x.review = "pending" /\ x.result # "none"
                ELSE x.review = "none"
  PROVE  ExecutorInv' /\ Kept(run)'
<1>1. /\ t \in Running /\ Running' = Running
      /\ job'[t].pc = pc /\ job'[t].task = x /\ job'[t].inputs = job[t].inputs
      /\ \A u \in Task \ {t} : job'[u] = job[u]
  BY DEF TypeOK, Step, Job, Running
<1>2. /\ run'.deps = run.deps
      /\ \A u \in Task \ {t} : run'.tasks[u] = run.tasks[u]
      /\ run'.tasks[t].status \in Working
      /\ pc # "done" => run'.tasks[t].status = x.status
  <2>1. CASE ~(Publish(t, x) /\ pc # "done")
    BY <2>1, <1>1 DEF ExecutorInv
  <2>2. CASE Publish(t, x) /\ pc # "done"
    <3>1. /\ run'.tasks[t] = x /\ run'.deps = run.deps
          /\ \A u \in Task \ {t} : run'.tasks[u] = run.tasks[u]
      BY <2>2, PublishEffect
    <3> QED
      BY <3>1, <2>2
  <2> QED
    BY <2>1, <2>2
<1>3. \A u \in Task : AncestorsOf(u)' = AncestorsOf(u)
  BY <1>2 DEF AncestorsOf
<1>4. JobInv(t)'
  BY <1>1, <1>3 DEF ExecutorInv, JobInv, Working
<1>5. \A u \in Running \ {t} : JobInv(u)'
  BY <1>1, <1>3 DEF ExecutorInv, JobInv, Running
<1>6. ExecutorInv'
  <2>1. ASSUME NEW u \in Running'
        PROVE  /\ active' = "graph"
               /\ graph'[u].status = "running"
               /\ run'.tasks[u].status \in Working
               /\ job'[u].pc # "done" => run'.tasks[u].status = job'[u].task.status
               /\ JobInv(u)'
    <3>1. u \in Running /\ u \in Task
      BY <1>1 DEF Running
    <3>2. CASE u = t
      BY <3>1, <3>2, <1>1, <1>2, <1>4 DEF ExecutorInv, jobUnchanged
    <3>3. CASE u # t
      BY <3>1, <3>3, <1>1, <1>2, <1>5 DEF ExecutorInv, jobUnchanged
    <3> QED
      BY <3>2, <3>3
  <2>2. ASSUME NEW u \in Task \ Running'
        PROVE  /\ run'.tasks[u].status \notin Working
               /\ active' = "graph" => graph'[u] = run'.tasks[u]
    BY <1>1, <1>2 DEF ExecutorInv, jobUnchanged
  <2> QED
    BY <2>1, <2>2 DEF ExecutorInv
<1>7. Kept(run)'
  <2>1. CASE UNCHANGED <<run, disk>>
    BY <2>1 DEF Kept, Ordered, ReviewClosed
  <2>2. CASE Publish(t, x)
    <3>1. run.tasks[t].status \in Working
      BY <1>1 DEF ExecutorInv
    <3>2. \A d \in Ancestors(run.deps, t) : run.tasks[d].status = "completed"
      BY <3>1 DEF Kept, Ordered, Working
    <3>3. CASE pc = "done"
      BY <3>3, <2>1
    <3>4. CASE pc # "done"
      <4>1. run'.tasks[t] = x
        BY <2>2, PublishEffect
      <4>2. Kept(run')
        BY <1>2, <3>1, <3>2, <3>4, <4>1, KeptPublish DEF Working, Accepted
      <4> QED
        BY <4>2 DEF Kept, Ordered, ReviewClosed
    <3> QED
      BY <3>3, <3>4
  <2> QED
    BY <2>1, <2>2
<1> QED
  BY <1>6, <1>7

(* What a failed attempt leaves of a task is neither working nor reviewed. *)
LEMMA FailedTask ==
  ASSUME NEW x \in TaskRecord
  PROVE  /\ Failed(x).status \in {"failed", "cancelled"}
         /\ Failed(x).review = x.review
         /\ NextAttempt(x).status = "retrying"
         /\ NextAttempt(x).review = x.review
BY DEF TaskRecord, Failed, NextAttempt, EndStatus

(* Blocking, launching and receiving: the three places where the executor
   itself changes a task. *)
LEMMA ExecutorStep ==
  ASSUME TypeOK, ExecutorInv, LoopInv, Kept(run), NEW t \in Task,
         BlockTask(t) \/ LaunchTask(t) \/ ReceiveResult(t)
  PROVE  ExecutorInv' /\ Kept(run)'
<1>0. /\ graph \in [Task -> TaskRecord] /\ job \in [Task -> Job]
      /\ run.tasks \in [Task -> TaskRecord]
      /\ \A u \in Task : graph[u] \in TaskRecord /\ run.tasks[u] \in TaskRecord
  BY SnapshotUpdates DEF TypeOK
<1>1. \A u \in Task : run.tasks[u].status # "completed" => run.tasks[u].review = "none"
  BY DEF Kept, ReviewClosed
<1>a. ASSUME NEW q, q = run', Kept(q) PROVE Kept(run)'
  BY <1>a DEF Kept, Ordered, ReviewClosed
<1>2. CASE BlockTask(t)
  <2>1. t \notin Running /\ graph[t].status = "pending" /\ active = "graph"
    BY <1>2 DEF BlockTask, Scanning, ExecutorInv
  <2>2. run.tasks[t] = graph[t]
    BY <2>1 DEF ExecutorInv
  <2>3. /\ graph'[t] = [graph[t] EXCEPT !.status = "blocked"]
        /\ graph'[t].status = "blocked" /\ graph'[t].review = graph[t].review
        /\ \A u \in Task \ {t} : graph'[u] = graph[u]
    BY <1>2, <1>0 DEF BlockTask, TaskRecord
  <2>4. /\ run'.tasks[t] = graph'[t] /\ run'.deps = run.deps
        /\ \A u \in Task \ {t} : run'.tasks[u] = run.tasks[u]
    BY <1>2, PublishEffect DEF BlockTask
  <2>5. Kept(run')
    <3>1. /\ run.tasks[t].status = "pending" /\ run.tasks[t].review = "none"
          /\ run'.tasks[t].status = "blocked" /\ run'.tasks[t].review = "none"
      BY <1>1, <2>1, <2>2, <2>3, <2>4
    <3> QED
      BY <3>1, <2>4, KeptPublish DEF Working, Accepted
  <2>6. job' = job /\ Running' = Running /\ active' = active
    BY <1>2 DEF BlockTask, Running
  <2>7. \A u \in Running : JobInv(u)'
    BY <2>4, <2>6 DEF ExecutorInv, JobInv, AncestorsOf
  <2>8. ASSUME NEW u \in Running'
        PROVE  /\ active' = "graph"
               /\ graph'[u].status = "running"
               /\ run'.tasks[u].status \in Working
               /\ job'[u].pc # "done" => run'.tasks[u].status = job'[u].task.status
               /\ JobInv(u)'
    <3>1. u \in Running /\ u \in Task \ {t}
      BY <2>1, <2>6 DEF Running
    <3> QED
      BY <3>1, <2>3, <2>4, <2>6, <2>7 DEF ExecutorInv
  <2>9. ASSUME NEW u \in Task \ Running'
        PROVE  /\ run'.tasks[u].status \notin Working
               /\ active' = "graph" => graph'[u] = run'.tasks[u]
    <3>1. CASE u = t
      BY <3>1, <2>1, <2>3, <2>4 DEF Working
    <3>2. CASE u # t
      BY <3>2, <2>3, <2>4, <2>6 DEF ExecutorInv
    <3> QED
      BY <3>1, <3>2
  <2>10. ExecutorInv'
    BY <2>8, <2>9 DEF ExecutorInv
  <2> QED
    BY <2>5, <2>10, <1>a
<1>3. CASE LaunchTask(t)
  <2>1. t \notin Running /\ graph[t].status = "pending" /\ active = "graph"
    BY <1>3 DEF LaunchTask, LoopInv, ExecutorInv
  <2>2. run.tasks[t] = graph[t]
    BY <2>1 DEF ExecutorInv
  <2>3. /\ graph'[t] = [graph[t] EXCEPT !.status = "running"]
        /\ graph'[t].status = "running" /\ graph'[t].review = graph[t].review
        /\ \A u \in Task \ {t} : graph'[u] = graph[u]
    BY <1>3, <1>0 DEF LaunchTask, TaskRecord
  <2>4. /\ run'.tasks[t] = graph'[t] /\ run'.deps = run.deps
        /\ \A u \in Task \ {t} : run'.tasks[u] = run.tasks[u]
    BY <1>3, PublishEffect DEF LaunchTask
  <2>5. \A d \in AncestorsOf(t) : d \in Task /\ graph[d].status = "completed"
    BY <1>3 DEF LaunchTask, LoopInv, AncestorsOf, Ancestors
  <2>6. \A d \in AncestorsOf(t) :
          /\ d \notin Running /\ run.tasks[d] = graph[d]
          /\ run.tasks[d].status = "completed" /\ graph[d].result # "none"
    BY <2>1, <2>5 DEF ExecutorInv, Kept, Ordered
  <2>7. Kept(run')
    <3>1. /\ run.tasks[t].status = "pending" /\ run.tasks[t].review = "none"
          /\ run'.tasks[t].status = "running" /\ run'.tasks[t].review = "none"
      BY <1>1, <2>1, <2>2, <2>3, <2>4
    <3>2. \A d \in Ancestors(run.deps, t) : run.tasks[d].status = "completed"
      BY <2>6 DEF AncestorsOf
    <3> QED
      BY <3>1, <3>2, <2>4, KeptPublish DEF Working, Accepted
  <2>8. /\ job'[t].pc = "setup" /\ job'[t].task = graph'[t]
        /\ job'[t].inputs = {d \in AncestorsOf(t) : graph[d].result # "none"}
        /\ \A u \in Task \ {t} : job'[u] = job[u]
        /\ active' = active
    BY <1>0, <1>3 DEF LaunchTask
  <2>9. Running' = Running \cup {t}
    BY <2>8 DEF Running
  <2>10. \A u \in Task : AncestorsOf(u)' = AncestorsOf(u)
    BY <2>4 DEF AncestorsOf
  <2>11. JobInv(t)'
    BY <1>1, <2>1, <2>2, <2>3, <2>6, <2>8, <2>10 DEF JobInv, Working
  <2>12. \A u \in Running : u \in Task \ {t} /\ JobInv(u)'
    BY <2>1, <2>8, <2>10 DEF ExecutorInv, JobInv, Running
  <2>13. ASSUME NEW u \in Running'
         PROVE  /\ active' = "graph"
                /\ graph'[u].status = "running"
                /\ run'.tasks[u].status \in Working
                /\ job'[u].pc # "done" => run'.tasks[u].status = job'[u].task.status
                /\ JobInv(u)'
    <3>1. CASE u = t
      BY <3>1, <2>1, <2>3, <2>4, <2>8, <2>11 DEF Working
    <3>2. CASE u # t
      BY <3>2, <2>3, <2>4, <2>8, <2>9, <2>12 DEF ExecutorInv
    <3> QED
      BY <3>1, <3>2
  <2>14. ASSUME NEW u \in Task \ Running'
         PROVE  /\ run'.tasks[u].status \notin Working
                /\ active' = "graph" => graph'[u] = run'.tasks[u]
    BY <2>1, <2>3, <2>4, <2>8, <2>9 DEF ExecutorInv
  <2>15. ExecutorInv'
    BY <2>13, <2>14 DEF ExecutorInv
  <2> QED
    BY <2>7, <2>15, <1>a
<1>4. CASE ReceiveResult(t)
  <2> DEFINE x == job[t].task
  <2>1. job[t].pc = "done" /\ t \in Running /\ active = "graph"
    BY <1>4 DEF ReceiveResult, Running
  <2>2. /\ run.tasks[t].status \in Working
        /\ x.status \in {"completed", "failed", "cancelled"}
        /\ IF x.status = "completed"
             THEN x.review = "pending" /\ x.result # "none"
             ELSE x.review = "none"
    BY <2>1 DEF ExecutorInv, JobInv
  <2>3. /\ run'.tasks[t] = x /\ run'.deps = run.deps
        /\ \A u \in Task \ {t} : run'.tasks[u] = run.tasks[u]
    BY <1>4, PublishEffect DEF ReceiveResult
  <2>4. /\ graph'[t] = x
        /\ \A u \in Task \ {t} : graph'[u] = graph[u]
        /\ job'[t].pc = "idle"
        /\ \A u \in Task \ {t} : job'[u] = job[u]
        /\ active' = active
    BY <1>0, <1>4 DEF ReceiveResult, Idle
  <2>5. \A d \in Ancestors(run.deps, t) : run.tasks[d].status = "completed"
    BY <2>2 DEF Kept, Ordered, Working
  <2> HIDE DEF x
  <2>6. Kept(run')
    BY <2>2, <2>3, <2>5, KeptPublish DEF Working, Accepted
  <2>7. Running' = Running \ {t}
    BY <2>4 DEF Running
  <2>8. \A u \in Running \ {t} : u \in Task /\ JobInv(u)'
    BY <2>3, <2>4 DEF ExecutorInv, JobInv, AncestorsOf, Running
  <2>9. ASSUME NEW u \in Running'
        PROVE  /\ active' = "graph"
               /\ graph'[u].status = "running"
               /\ run'.tasks[u].status \in Working
               /\ job'[u].pc # "done" => run'.tasks[u].status = job'[u].task.status
               /\ JobInv(u)'
    BY <2>3, <2>4, <2>7, <2>8 DEF ExecutorInv
  <2>10. ASSUME NEW u \in Task \ Running'
         PROVE  /\ run'.tasks[u].status \notin Working
                /\ active' = "graph" => graph'[u] = run'.tasks[u]
    BY <2>1, <2>2, <2>3, <2>4, <2>7 DEF ExecutorInv, Working
  <2>11. ExecutorInv'
    BY <2>9, <2>10 DEF ExecutorInv
  <2> QED
    BY <2>6, <2>11, <1>a
<1> QED
  BY <1>2, <1>3, <1>4

(* Every other step of a task is a goroutine's own. *)
LEMMA TaskStepKeeps ==
  ASSUME TypeOK, ExecutorInv, LoopInv, Kept(run), NEW t \in Task, TaskStep(t)
  PROVE  ExecutorInv' /\ Kept(run)'
<1> DEFINE x == job[t].task
<1>0. x \in TaskRecord
  BY DEF TypeOK, Job
<1>1. ASSUME job[t].pc \in {"setup", "integrate", "execute", "backoff"}
      PROVE  /\ job[t].pc # "idle"
             /\ x.status \in Working /\ x.review = "none"
             /\ x.status = run.tasks[t].status
  BY <1>1 DEF ExecutorInv, JobInv, Running
<1> HIDE DEF x
<1>2. CASE BlockTask(t) \/ LaunchTask(t) \/ ReceiveResult(t)
  BY <1>2, ExecutorStep
<1>c. CASE ChooseTask(t)
  <2>1. UNCHANGED <<run, active, graph, job>>
    BY <1>c DEF ChooseTask
  <2> QED
    BY <2>1 DEF ExecutorInv, JobInv, Running, AncestorsOf, Kept, Ordered, ReviewClosed
<1>3. CASE SetUp(t)
  <2> DEFINE y == [x EXCEPT !.worktree = TRUE]
  <2>1. y.status = x.status /\ y.review = x.review
    BY <1>0 DEF TaskRecord
  <2>2. job[t].pc = "setup" /\ Step(t, "integrate", y) /\ Publish(t, y) /\ jobUnchanged
    BY <1>3 DEF SetUp, x
  <2> HIDE DEF y
  <2> QED
    BY <1>1, <2>1, <2>2, LocalStep
<1>4. ASSUME NEW y, Exit(t, y), jobUnchanged,
             job[t].pc \in {"setup", "integrate", "execute", "backoff"},
             y.status \in {"failed", "cancelled"}, y.review = "none"
      PROVE  ExecutorInv' /\ Kept(run)'
  <2>1. Step(t, "done", y) /\ UNCHANGED <<run, disk>>
    BY <1>4 DEF Exit
  <2> QED
    BY <1>1, <1>4, <2>1, LocalStep
<1>5. CASE SetUpFails(t)
  <2>1. PICK w \in {x.worktree, TRUE} : Exit(t, Failed([x EXCEPT !.worktree = w]))
    BY <1>5 DEF SetUpFails, x
  <2> DEFINE y == [x EXCEPT !.worktree = w]
  <2>2. y \in TaskRecord /\ y.review = x.review
    BY <1>0 DEF TaskRecord
  <2>3. Exit(t, Failed(y))
    BY <2>1
  <2> HIDE DEF y
  <2>4. Failed(y).status \in {"failed", "cancelled"} /\ Failed(y).review = y.review
    BY <2>2, FailedTask
  <2> QED
    BY <1>1, <1>4, <1>5, <2>2, <2>3, <2>4 DEF SetUpFails
<1>6. CASE Integrate(t)
  <2> DEFINE y == IF x.ready THEN x
                  ELSE [x EXCEPT !.ready = TRUE, !.resolve = FALSE]
  <2>1. y.status = x.status /\ y.review = x.review
    BY <1>0 DEF TaskRecord
  <2>2. /\ job[t].pc = "integrate" /\ Step(t, "execute", y)
        /\ Publish(t, y) /\ jobUnchanged
    BY <1>6 DEF Integrate, x
  <2> HIDE DEF y
  <2> QED
    BY <1>1, <2>1, <2>2, LocalStep
<1>7. CASE IntegrateFails(t)
  <2> DEFINE z == Failed(x)
             y == [z EXCEPT !.conflicted = HasInputs(t)]
  <2>1. z \in TaskRecord /\ z.status \in {"failed", "cancelled"} /\ z.review = x.review
    BY <1>0, FailedTask, TaskUpdates
  <2>2. Exit(t, y) /\ job[t].pc = "integrate" /\ jobUnchanged
    BY <1>7 DEF IntegrateFails, x
  <2> HIDE DEF z
  <2>3. y.status = z.status /\ y.review = z.review
    BY <2>1 DEF TaskRecord
  <2> HIDE DEF y
  <2> QED
    BY <1>1, <1>4, <2>1, <2>2, <2>3
<1>8. CASE Complete(t)
  <2>1. PICK kind \in ResultKinds :
          Exit(t, [x EXCEPT !.status = "completed", !.review = "pending",
                            !.result = kind, !.conflicted = FALSE])
    BY <1>8 DEF Complete, x
  <2> DEFINE y == [x EXCEPT !.status = "completed", !.review = "pending",
                            !.result = kind, !.conflicted = FALSE]
  <2>2. y.status = "completed" /\ y.review = "pending" /\ y.result # "none"
    BY <1>0, ResultsAssumption DEF TaskRecord
  <2>3. Step(t, "done", y) /\ UNCHANGED <<run, disk>>
    BY <2>1 DEF Exit
  <2>4. job[t].pc = "execute" /\ jobUnchanged
    BY <1>8 DEF Complete
  <2> HIDE DEF y
  <2> QED
    BY <1>1, <2>2, <2>3, <2>4, LocalStep
<1>9. CASE ExecuteFails(t)
  <2>1. Exit(t, Failed(x)) /\ job[t].pc = "execute" /\ jobUnchanged
    BY <1>9 DEF ExecuteFails, x
  <2> QED
    BY <1>0, <1>1, <1>4, <2>1, FailedTask
<1>10. CASE ScheduleRetry(t)
  <2> DEFINE y == NextAttempt(x)
  <2>1. y.status = "retrying" /\ y.review = x.review
    BY <1>0, FailedTask
  <2>2. /\ job[t].pc = "execute" /\ Step(t, "backoff", y)
        /\ Publish(t, y) /\ jobUnchanged
    BY <1>10 DEF ScheduleRetry, x
  <2> HIDE DEF y
  <2> QED
    BY <1>1, <2>1, <2>2, LocalStep DEF Working
<1>11. CASE RetryNow(t)
  <2>1. /\ job[t].pc = "backoff" /\ Step(t, "setup", x)
        /\ UNCHANGED <<run, disk>> /\ jobUnchanged
    BY <1>11 DEF RetryNow, x
  <2> QED
    BY <1>1, <2>1, LocalStep
<1>12. CASE RetryCancelled(t)
  <2> DEFINE y == [x EXCEPT !.status = "cancelled"]
  <2>1. y.status = "cancelled" /\ y.review = x.review
    BY <1>0 DEF TaskRecord
  <2>2. Exit(t, y) /\ job[t].pc = "backoff" /\ jobUnchanged
    BY <1>12 DEF RetryCancelled, x
  <2> HIDE DEF y
  <2> QED
    BY <1>1, <1>4, <2>1, <2>2
<1> QED
  BY <1>2, <1>c, <1>3, <1>5, <1>6, <1>7, <1>8, <1>9, <1>10, <1>11, <1>12 DEF TaskStep

------------------------------------------------------------------------------
(* Steps taken while no execution is active *)

(* The executor's invariant with no goroutine about. *)
LEMMA ExecutorQuiet ==
  ASSUME ExecutorInv, active # "graph", job' = job,
         \A t \in Task : run'.tasks[t].status \notin Working,
         active' = "graph" => \A t \in Task : graph'[t] = run'.tasks[t]
  PROVE  ExecutorInv'
<1>1. Running = {}
  BY DEF ExecutorInv
<1>2. Running' = {}
  BY <1>1 DEF Running
<1> QED
  BY <1>2 DEF ExecutorInv

(* The tasks as far as order and review go. *)
SameWork(r, q) ==
  /\ q.deps = r.deps
  /\ \A u \in Task : /\ q.tasks[u].status = r.tasks[u].status
                     /\ q.tasks[u].result = r.tasks[u].result
                     /\ q.tasks[u].review = r.tasks[u].review

(* Steps that change no status, result or review keep all of it. *)
LEMMA QuietStep ==
  ASSUME ExecutorInv, Kept(run), active # "graph", active' # "graph",
         job' = job, SameWork(run, run')
  PROVE  /\ ExecutorInv'
         /\ Kept(run)'
         /\ \A S \in SUBSET Task : MergeClosed(run, S) => MergeClosed(run', S)
<1>1. \A t \in Task : run'.tasks[t].status \notin Working
  BY DEF ExecutorInv, SameWork
<1>2. ExecutorInv'
  BY <1>1, ExecutorQuiet
<1>3. Kept(run')
  BY KeptWithdraw DEF SameWork
<1>4. \A u \in Task : \A d \in Ancestors(run.deps, u) : d \in Task
  BY DEF Ancestors
<1>5. \A S \in SUBSET Task : MergeClosed(run, S) => MergeClosed(run', S)
  BY <1>4 DEF MergeClosed, SameWork
<1> QED
  BY <1>2, <1>3, <1>5 DEF Kept, Ordered, ReviewClosed

(* What the helpers of review and merge do to the tasks. *)
LEMMA RecordsWork ==
  ASSUME NEW r \in Snapshot
  PROVE  /\ \A s \in RunStatus : SameWork(r, [r EXCEPT !.status = s])
         /\ SameWork(r, Reviewed(r))
         /\ Reviewed(r).status \in {r.status, "review", "completed"}
         /\ Reviewed(r).mergeCommit = r.mergeCommit
         /\ Reviewed(r).mergeTasks = r.mergeTasks
         /\ \A w \in BOOLEAN : SameWork(r, [r EXCEPT !.mergeWorktree = w])
BY DEF SameWork, Snapshot, Reviewed, ReviewStatus

(* A merge keeps the order; what it marks is closed under dependencies. *)
LEMMA MergeStepKeeps ==
  ASSUME TypeOK, ExecutorInv, MergeInv, Kept(run), MergeStep
  PROVE  ExecutorInv' /\ MergeInv' /\ Kept(run)'
<1>0. /\ run \in Snapshot /\ merge.selected \in SUBSET Task
      /\ run.tasks \in [Task -> TaskRecord]
      /\ merge.tip \in History
  BY SnapshotUpdates DEF TypeOK, Merge
<1>1. active = "merge" /\ job' = job
  BY DEF MergeStep, MergeCreate, MergeCreateFails, MergeIntegrate,
         MergeIntegrateFails, MergeCheckpoint, FastForward, FastForwardFails,
         RecordMerge, RecordMergeUnsaved, MergeFails, RemoveMergedTree,
         FinishMerge, Succeeded, Merging, mergeUnchanged, executorVars
<1>2. merge.selected = run.mergeTasks /\ MergeClosed(run, run.mergeTasks)
  BY <1>1 DEF MergeInv
<1>3. ASSUME SameWork(run, run'), run'.mergeTasks = run.mergeTasks,
             \/ active' = "merge" /\ merge'.selected = merge.selected
             \/ active' = "none" /\ run'.status # "merging"
      PROVE  ExecutorInv' /\ MergeInv' /\ Kept(run)'
  <2>1. /\ ExecutorInv' /\ Kept(run)'
        /\ MergeClosed(run', run'.mergeTasks)
    BY <1>0, <1>1, <1>2, <1>3, QuietStep
  <2> QED
    BY <1>2, <1>3, <2>1 DEF MergeInv, MergeClosed
<1>4. ASSUME NEW r \in Snapshot, r = MarkMerged(run, merge.selected)
      PROVE  /\ Kept(r)
             /\ r.deps = run.deps /\ r.mergeTasks = run.mergeTasks
             /\ \A u \in Task : r.tasks[u].status = run.tasks[u].status
             /\ MergeClosed(r, run.mergeTasks)
  <2>1. /\ r.deps = run.deps /\ r.mergeTasks = run.mergeTasks
        /\ \A u \in Task : /\ r.tasks[u].status = run.tasks[u].status
                           /\ u \in merge.selected => r.tasks[u].review = "merged"
                           /\ u \notin merge.selected =>
                                r.tasks[u].review = run.tasks[u].review
    BY <1>0, <1>4, MarkEffect
  <2>2. Kept(r)
    BY <1>0, <1>2, <1>4, KeptMark
  <2>3. MergeClosed(r, run.mergeTasks)
    BY <1>0, <1>2, <2>1 DEF MergeClosed, Accepted, Ancestors
  <2> QED
    BY <2>1, <2>2, <2>3
<1>5. merge.selected \in SUBSET Task
      /\ MarkMerged(run, merge.selected) \in Snapshot
  BY <1>0, RecordsTyped
<1>6. mergeUnchanged => active' = "merge"
  BY <1>1 DEF mergeUnchanged
<1>7. \A pc : [merge EXCEPT !.pc = pc].selected = merge.selected
  BY DEF TypeOK, Merge
<1>8. run' = run => SameWork(run, run') /\ run'.mergeTasks = run.mergeTasks
  BY DEF SameWork
<1>9. CASE MergeCreate \/ MergeCreateFails
  <2>1. PICK w \in BOOLEAN : run' = [run EXCEPT !.mergeWorktree = w]
    BY <1>9 DEF MergeCreate, MergeCreateFails
  <2>2. SameWork(run, run') /\ run'.mergeTasks = run.mergeTasks
    BY <1>0, <2>1, RecordsWork DEF Snapshot
  <2>3. merge'.selected = merge.selected /\ mergeUnchanged
    BY <1>9 DEF MergeCreate, MergeCreateFails, TypeOK, Merge
  <2> QED
    BY <1>3, <1>6, <2>2, <2>3
<1>10. CASE MergeIntegrate \/ MergeIntegrateFails \/ FastForwardFails
  <2>1. merge'.selected = merge.selected /\ mergeUnchanged /\ run' = run
    BY <1>10 DEF MergeIntegrate, MergeIntegrateFails, FastForwardFails, TypeOK, Merge
  <2> QED
    BY <1>3, <1>6, <1>8, <2>1
<1>11. CASE MergeCheckpoint
  <2>1. run' = [run EXCEPT !.mergeCommit = merge.tip]
    BY <1>11 DEF MergeCheckpoint
  <2>2. SameWork(run, run') /\ run'.mergeTasks = run.mergeTasks
    BY <1>0, <2>1 DEF SameWork, Snapshot
  <2>3. merge'.selected = merge.selected /\ mergeUnchanged
    BY <1>11, <1>7 DEF MergeCheckpoint
  <2> QED
    BY <1>3, <1>6, <2>2, <2>3
<1>12. CASE FastForward
  <2>1. merge'.selected = merge.selected /\ active' = "merge" /\ run' = run
    BY <1>12, <1>1, <1>7 DEF FastForward
  <2> QED
    BY <1>3, <1>8, <2>1
<1>13. CASE RecordMerge
  <2>1. /\ run' = MarkMerged(run, merge.selected)
        /\ merge'.selected = merge.selected /\ active' = "merge"
    BY <1>13, <1>6, <1>7 DEF RecordMerge
  <2>2. /\ Kept(run') /\ run'.mergeTasks = run.mergeTasks
        /\ \A u \in Task : run'.tasks[u].status = run.tasks[u].status
        /\ MergeClosed(run', run'.mergeTasks)
    BY <2>1, <1>4, <1>5
  <2>3. ExecutorInv'
    BY <2>1, <2>2, <1>1, ExecutorQuiet DEF ExecutorInv
  <2> QED
    BY <1>2, <2>1, <2>2, <2>3 DEF MergeInv, MergeClosed, Kept, Ordered, ReviewClosed
<1>14. CASE RecordMergeUnsaved
  <2> DEFINE r == MarkMerged(run, merge.selected)
  <2>1. run' = [r EXCEPT !.status = "review"] /\ active' = "none"
    BY <1>14 DEF RecordMergeUnsaved, End
  <2>2. r \in Snapshot
    BY <1>5
  <2>3. Kept(r) /\ \A u \in Task : r.tasks[u].status = run.tasks[u].status
    BY <2>2, <1>4
  <2> HIDE DEF r
  <2>4. SameWork(r, run') /\ run'.status = "review"
    BY <2>1, <2>2, RecordsWork DEF RunStatus, Snapshot
  <2>5. Kept(run')
    BY <2>3, <2>4, KeptWithdraw DEF SameWork
  <2>6. \A t \in Task : run'.tasks[t].status \notin Working
    BY <1>1, <2>3, <2>4 DEF SameWork, ExecutorInv
  <2>7. ExecutorInv'
    BY <2>1, <2>6, <1>1, ExecutorQuiet
  <2> QED
    BY <2>1, <2>4, <2>5, <2>7 DEF MergeInv, Kept, Ordered, ReviewClosed
<1>15. CASE MergeFails
  <2>1. run' = [run EXCEPT !.status = "review"] /\ active' = "none"
    BY <1>15 DEF MergeFails, End
  <2>2. /\ SameWork(run, run') /\ run'.mergeTasks = run.mergeTasks
        /\ run'.status # "merging"
    BY <1>0, <2>1, RecordsWork DEF RunStatus, Snapshot
  <2> QED
    BY <1>3, <2>1, <2>2
<1>16. CASE RemoveMergedTree
  <2>1. SameWork(run, run') /\ run'.mergeTasks = run.mergeTasks
    <3>1. CASE run' = [run EXCEPT !.mergeWorktree = FALSE]
      BY <3>1, <1>0, RecordsWork DEF Snapshot
    <3>2. CASE \E t \in MergedTrees : run' = [run EXCEPT !.tasks[t].worktree = FALSE]
      BY <3>2, <1>0 DEF SameWork, Snapshot, TaskRecord
    <3> QED
      BY <1>16, <3>1, <3>2 DEF RemoveMergedTree
  <2>2. merge' = merge /\ mergeUnchanged
    BY <1>16 DEF RemoveMergedTree
  <2> QED
    BY <1>3, <1>6, <2>1, <2>2
<1>17. CASE FinishMerge
  <2> DEFINE r == [run EXCEPT !.status = "review"]
  <2>1. run' = Reviewed(r) /\ active' = "none"
    BY <1>17 DEF FinishMerge, End
  <2>2. r \in Snapshot /\ SameWork(run, r) /\ r.status = "review"
        /\ r.mergeTasks = run.mergeTasks
    <3>1. r \in Snapshot /\ SameWork(run, r)
      BY <1>0, SnapshotUpdates, RecordsWork DEF RunStatus
    <3>2. r.status = "review" /\ r.mergeTasks = run.mergeTasks
      BY <1>0 DEF Snapshot
    <3> QED
      BY <3>1, <3>2
  <2> HIDE DEF r
  <2>3. SameWork(r, run') /\ run'.status # "merging" /\ run'.mergeTasks = r.mergeTasks
    BY <2>1, <2>2, RecordsWork
  <2>4. SameWork(run, run')
    BY <2>2, <2>3 DEF SameWork
  <2> QED
    BY <1>3, <2>1, <2>2, <2>3, <2>4
<1> QED
  BY <1>9, <1>10, <1>11, <1>12, <1>13, <1>14, <1>15, <1>16, <1>17 DEF MergeStep

(* A plan's tasks are new: nothing is started, nothing reviewed. *)
LEMMA KeptNew ==
  ASSUME NEW q, q.tasks = NewTasks
  PROVE  /\ Kept(q)
         /\ \A t \in Task : q.tasks[t].status \notin Working
<1>1. \A t \in Task : /\ q.tasks[t].status = "pending"
                      /\ q.tasks[t].review = "none"
  BY DEF NewTasks, NewTask
<1> QED
  BY <1>1 DEF Kept, Ordered, ReviewClosed, Working, Accepted

(* Continuing or resetting a task leaves everything started or completed as it
   is: the task is neither, and none of its dependents is. *)
LEMMA RedoKeeps ==
  ASSUME TypeOK, ExecutorInv, MergeInv, Kept(run), NEW t \in Task, Redoable(t),
         NEW T \in [Task -> TaskRecord],
         run'.deps = run.deps, run'.tasks = T,
         run'.status = run.status, run'.mergeCommit = run.mergeCommit,
         T[t].status = "pending", T[t].review = run.tasks[t].review,
         \A u \in Task \ {t} :
           \/ T[u] = run.tasks[u]
           \/ /\ run.tasks[u].status = "blocked"
              /\ T[u].status = "pending" /\ T[u].review = run.tasks[u].review,
         active' = active, job' = job
  PROVE  ExecutorInv' /\ MergeInv' /\ Kept(run)'
<1>1. /\ run'.deps = run.deps /\ run'.tasks = T
      /\ run'.status = run.status /\ run'.mergeCommit = run.mergeCommit
  OBVIOUS
<1>2. active = "none" /\ run.tasks[t].status \in Unsuccessful
  BY DEF Redoable, Inactive
<1>3. Kept(run')
  <2>1. \A u \in Task :
          /\ T[u].review = run.tasks[u].review
          /\ \/ T[u] = run.tasks[u]
             \/ /\ run.tasks[u].status # "completed"
                /\ T[u].status \notin Working \cup {"completed"}
    BY <1>2 DEF Unsuccessful, Working
  <2>2. \A u \in Task :
          /\ run'.tasks[u].review = run.tasks[u].review
          /\ \/ /\ run'.tasks[u].status = run.tasks[u].status
                /\ run'.tasks[u].result = run.tasks[u].result
             \/ /\ run.tasks[u].status # "completed"
                /\ run'.tasks[u].status \notin Working \cup {"completed"}
    BY <1>1, <2>1
  <2> QED
    BY <1>1, <2>2, KeptWithdraw
<1>4. \A u \in Task : run'.tasks[u].status \notin Working
  BY <1>1, <1>2 DEF ExecutorInv, Working
<1>5. ExecutorInv'
  BY <1>2, <1>4, ExecutorQuiet
<1>6. MergeInv'
  BY <1>1, <1>2 DEF MergeInv
<1> QED
  BY <1>3, <1>5, <1>6 DEF Kept, Ordered, ReviewClosed

(* A decision that ReviewDAGTask allows keeps acceptance closed. *)
LEMMA ReviewKeeps ==
  ASSUME TypeOK, ExecutorInv, MergeInv, Kept(run), NEW t \in Task,
         NEW decision \in {"accepted", "rejected"}, ReviewDAGTask(t, decision)
  PROVE  ExecutorInv' /\ MergeInv' /\ Kept(run)'
<1> DEFINE r == [run EXCEPT !.tasks[t].review = decision]
<1>0. run \in Snapshot /\ run.tasks[t] \in TaskRecord
  BY SnapshotUpdates DEF TypeOK
<1>1. r \in Snapshot
  <2>1. [run.tasks[t] EXCEPT !.review = decision] \in TaskRecord
    BY <1>0 DEF TaskRecord, Review
  <2> QED
    BY <1>0, <2>1 DEF Snapshot
<1>2. /\ r.deps = run.deps /\ r.status = run.status
      /\ r.mergeCommit = run.mergeCommit
      /\ r.tasks[t].review = decision
      /\ \A u \in Task : /\ r.tasks[u].status = run.tasks[u].status
                         /\ r.tasks[u].result = run.tasks[u].result
      /\ \A u \in Task \ {t} : r.tasks[u].review = run.tasks[u].review
  BY <1>0 DEF Snapshot, TaskRecord
<1>3. /\ active = "none" /\ active' = active /\ job' = job
      /\ run.tasks[t].status = "completed" /\ run.tasks[t].review # "merged"
      /\ decision = "accepted" =>
           \A d \in Ancestors(run.deps, t) : run.tasks[d].review \in Accepted
      /\ decision = "rejected" =>
           \A u \in Task : run.tasks[u].review \in Accepted =>
                             t \notin Ancestors(run.deps, u)
      /\ run' = Reviewed(r)
  BY DEF ReviewDAGTask, Decidable, Inactive, AncestorsOf, executorVars
<1> HIDE DEF r
<1>4. \A u \in Task : \A d \in Ancestors(run.deps, u) : d \in Task
  BY DEF Ancestors
<1>5. Ordered(r)
  BY <1>2, <1>4 DEF Kept, Ordered
<1>6. ReviewClosed(r)
  <2> SUFFICES ASSUME NEW u \in Task
               PROVE  /\ r.tasks[u].review # "none" => r.tasks[u].status = "completed"
                      /\ r.tasks[u].review \in Accepted =>
                           \A d \in Ancestors(r.deps, u) : r.tasks[d].review \in Accepted
                      /\ r.tasks[u].review = "merged" =>
                           \A d \in Ancestors(r.deps, u) : r.tasks[d].review = "merged"
    BY DEF ReviewClosed
  <2>1. r.tasks[u].review # "none" => r.tasks[u].status = "completed"
    BY <1>2, <1>3 DEF Kept, ReviewClosed
  <2>2. r.tasks[u].review \in Accepted =>
          \A d \in Ancestors(r.deps, u) : r.tasks[d].review \in Accepted
    BY <1>2, <1>3, <1>4 DEF Kept, ReviewClosed, Accepted
  <2>3. r.tasks[u].review = "merged" =>
          \A d \in Ancestors(r.deps, u) : r.tasks[d].review = "merged"
    BY <1>2, <1>3, <1>4 DEF Kept, ReviewClosed
  <2> QED
    BY <2>1, <2>2, <2>3
<1>7. /\ SameWork(r, run') /\ run'.status \in {r.status, "review", "completed"}
      /\ run'.mergeCommit = r.mergeCommit
  BY <1>1, <1>3, RecordsWork
<1>8. Kept(run')
  BY <1>5, <1>6, <1>7, KeptWithdraw DEF SameWork, Kept
<1>9. \A u \in Task : run'.tasks[u].status \notin Working
  BY <1>2, <1>3, <1>7 DEF SameWork, ExecutorInv
<1>10. ExecutorInv'
  BY <1>3, <1>9, ExecutorQuiet
<1>11. MergeInv'
  BY <1>2, <1>3, <1>7 DEF MergeInv
<1> QED
  BY <1>8, <1>10, <1>11 DEF Kept, Ordered, ReviewClosed

(* Every call of the user keeps the order. *)
LEMMA UserKeeps ==
  ASSUME TypeOK, ExecutorInv, MergeInv, Kept(run), User
  PROVE  ExecutorInv' /\ MergeInv' /\ Kept(run)'
<1>0. /\ run \in Snapshot /\ run.tasks \in [Task -> TaskRecord]
      /\ \A t \in Task : run.tasks[t] \in TaskRecord
  BY SnapshotUpdates DEF TypeOK
<1>1. ASSUME active = "none", active' \in {"none", "plan"}, job' = job,
             SameWork(run, run'),
             run'.status = "merging" =>
               run.status = "merging" /\ run'.mergeCommit = run.mergeCommit
      PROVE  ExecutorInv' /\ MergeInv' /\ Kept(run)'
  BY <1>1, QuietStep DEF MergeInv
<1>2. CASE RetryPlanning
  <2>1. SameWork(run, run') /\ run'.status = "planning"
    BY <1>2, <1>0, RecordsWork DEF RetryPlanning, RunStatus, Snapshot
  <2> QED
    BY <1>1, <1>2, <2>1 DEF RetryPlanning, Inactive, Begin, executorVars
<1>3. CASE UpdateDAG
  <2>1. /\ active = "none" /\ active' = active /\ job' = job
        /\ run'.tasks = NewTasks /\ run'.status = run.status
        /\ run'.mergeCommit = run.mergeCommit
    BY <1>3, <1>0 DEF UpdateDAG, Inactive, executorVars, Snapshot
  <2>2. Kept(run') /\ \A t \in Task : run'.tasks[t].status \notin Working
    BY <2>1, KeptNew
  <2>3. ExecutorInv'
    BY <2>1, <2>2, ExecutorQuiet
  <2> QED
    BY <2>1, <2>2, <2>3 DEF MergeInv, Kept, Ordered, ReviewClosed
<1>4. CASE UpdateRunConfig
  <2>1. SameWork(run, run') /\ run'.status = run.status
        /\ run'.mergeCommit = run.mergeCommit
    BY <1>4, <1>0 DEF UpdateRunConfig, SameWork, Snapshot
  <2> QED
    BY <1>1, <1>4, <2>1 DEF UpdateRunConfig, Inactive, executorVars
<1>5. CASE ExecuteDAG
  <2>1. /\ SameWork(run, run') /\ run'.status = "running" /\ run'.tasks = run.tasks
        /\ active = "none" /\ job' = job
        /\ active' = "none" \/ (active' = "graph" /\ graph' = run.tasks)
    BY <1>5, <1>0 DEF ExecuteDAG, SameWork, Snapshot, Inactive, Begin
  <2>2. ExecutorInv'
    BY <2>1, ExecutorQuiet DEF ExecutorInv
  <2>3. Kept(run')
    BY <2>1, KeptWithdraw DEF SameWork
  <2> QED
    BY <2>1, <2>2, <2>3 DEF MergeInv, Kept, Ordered, ReviewClosed
<1>6. CASE Cancel
  <2>1. UNCHANGED <<run, disk, active, graph, job, merge>>
    BY <1>6 DEF Cancel, executorVars
  <2> QED
    BY <2>1 DEF ExecutorInv, JobInv, Running, AncestorsOf, MergeInv, MergeClosed,
                Kept, Ordered, ReviewClosed
<1>7. CASE MergeDAG
  <2>1. /\ SameWork(run, run') /\ run'.mergeCommit = NoCommit
        /\ run'.mergeTasks = Selected
    BY <1>7, <1>0 DEF MergeDAG, SameWork, Snapshot
  <2>2. /\ active = "none" /\ job' = job /\ active' \in {"none", "merge"}
        /\ active' = "merge" => merge'.selected = Selected
    BY <1>7 DEF MergeDAG, Inactive, Begin, executorVars, NoMerge
  <2>3. MergeClosed(run, Selected)
    BY <1>7 DEF MergeDAG, MergeClosed, Selected, Accepted, AncestorsOf, Ancestors
  <2>4. /\ ExecutorInv' /\ Kept(run)'
        /\ MergeClosed(run', Selected)
    BY <2>1, <2>2, <2>3, QuietStep DEF Selected
  <2> QED
    BY <2>1, <2>2, <2>4 DEF MergeInv, MergeClosed
<1>8. CASE CleanupDAG
  <2>1. PICK S \in SUBSET Task :
          run' = [run EXCEPT
               !.mergeWorktree = FALSE,
               !.tasks = [t \in Task |-> [run.tasks[t] EXCEPT
                            !.worktree = run.tasks[t].worktree /\ t \notin S]]]
    BY <1>8 DEF CleanupDAG
  <2>2. /\ SameWork(run, run') /\ run'.status = run.status
        /\ run'.mergeCommit = run.mergeCommit
    BY <2>1, <1>0 DEF SameWork, Snapshot, TaskRecord
  <2> QED
    BY <1>1, <1>8, <2>2 DEF CleanupDAG, Inactive, executorVars
<1>9. ASSUME NEW t \in Task, NEW resolve \in BOOLEAN, RetryDAGTask(t, resolve)
      PROVE  ExecutorInv' /\ MergeInv' /\ Kept(run)'
  <2> DEFINE T == [u \in Task |->
          IF u = t
            THEN [run.tasks[t] EXCEPT !.status = "pending", !.resolve = resolve]
          ELSE IF run.tasks[u].status = "blocked" /\ t \in AncestorsOf(u)
            THEN [run.tasks[u] EXCEPT !.status = "pending"]
          ELSE run.tasks[u]]
  <2>0. run' = [run EXCEPT !.tasks = T]
    BY <1>9 DEF RetryDAGTask
  <2> HIDE DEF T
  <2>1. /\ run'.deps = run.deps /\ run'.tasks = T
        /\ run'.status = run.status /\ run'.mergeCommit = run.mergeCommit
    BY <1>0, <2>0 DEF Snapshot
  <2> USE DEF T
  <2>2. [run.tasks[t] EXCEPT !.status = "pending", !.resolve = resolve] \in TaskRecord
    BY <1>0 DEF TaskRecord, TaskStatus
  <2>3. \A u \in Task : [run.tasks[u] EXCEPT !.status = "pending"] \in TaskRecord
    BY <1>0, TaskUpdates DEF TaskStatus
  <2>4. T \in [Task -> TaskRecord]
    BY <1>0, <2>2, <2>3
  <2>5. T[t].status = "pending" /\ T[t].review = run.tasks[t].review
    BY <1>0 DEF TaskRecord
  <2>6. \A u \in Task \ {t} :
          \/ T[u] = run.tasks[u]
          \/ /\ run.tasks[u].status = "blocked"
             /\ T[u].status = "pending" /\ T[u].review = run.tasks[u].review
    BY <1>0 DEF TaskRecord
  <2> HIDE DEF T
  <2> QED
    BY <1>9, <2>1, <2>4, <2>5, <2>6, RedoKeeps DEF RetryDAGTask, executorVars
<1>10. ASSUME NEW t \in Task, ResetDAGTask(t)
       PROVE  ExecutorInv' /\ MergeInv' /\ Kept(run)'
  <2> DEFINE T == [u \in Task |->
          IF u = t
            THEN [run.tasks[t] EXCEPT !.status = "pending", !.ready = FALSE,
                                      !.worktree = FALSE, !.result = "none"]
          ELSE IF run.tasks[u].status = "blocked"
            THEN [run.tasks[u] EXCEPT !.status = "pending"]
          ELSE run.tasks[u]]
  <2>0. run' = [run EXCEPT !.tasks = T]
    BY <1>10 DEF ResetDAGTask
  <2> HIDE DEF T
  <2>1. /\ run'.deps = run.deps /\ run'.tasks = T
        /\ run'.status = run.status /\ run'.mergeCommit = run.mergeCommit
    BY <1>0, <2>0 DEF Snapshot
  <2> USE DEF T
  <2>2. [run.tasks[t] EXCEPT !.status = "pending", !.ready = FALSE,
                             !.worktree = FALSE, !.result = "none"] \in TaskRecord
    BY <1>0 DEF TaskRecord, TaskStatus
  <2>3. \A u \in Task : [run.tasks[u] EXCEPT !.status = "pending"] \in TaskRecord
    BY <1>0, TaskUpdates DEF TaskStatus
  <2>4. T \in [Task -> TaskRecord]
    BY <1>0, <2>2, <2>3
  <2>5. T[t].status = "pending" /\ T[t].review = run.tasks[t].review
    BY <1>0 DEF TaskRecord
  <2>6. \A u \in Task \ {t} :
          \/ T[u] = run.tasks[u]
          \/ /\ run.tasks[u].status = "blocked"
             /\ T[u].status = "pending" /\ T[u].review = run.tasks[u].review
    BY <1>0 DEF TaskRecord
  <2> HIDE DEF T
  <2> QED
    BY <1>10, <2>1, <2>4, <2>5, <2>6, RedoKeeps DEF ResetDAGTask, executorVars
<1>11. ASSUME NEW t \in Task, NEW decision \in {"accepted", "rejected"},
              ReviewDAGTask(t, decision)
       PROVE  ExecutorInv' /\ MergeInv' /\ Kept(run)'
  BY <1>11, ReviewKeeps
<1>12. ASSUME NEW t \in Task, UseDAGTaskProfile(t)
       PROVE  ExecutorInv' /\ MergeInv' /\ Kept(run)'
  <2>1. UNCHANGED <<run, active, graph, job, merge>>
    BY <1>12 DEF UseDAGTaskProfile, executorVars
  <2> QED
    BY <2>1 DEF ExecutorInv, JobInv, Running, AncestorsOf, MergeInv, MergeClosed,
                Kept, Ordered, ReviewClosed
<1> QED
  BY <1>2, <1>3, <1>4, <1>5, <1>6, <1>7, <1>8, <1>9, <1>10, <1>11, <1>12 DEF User

(* Drawing up a plan ends with no work begun, or with what there was. *)
LEMMA PlannerKeeps ==
  ASSUME TypeOK, ExecutorInv, MergeInv, Kept(run), Planner
  PROVE  ExecutorInv' /\ MergeInv' /\ Kept(run)'
<1>0. run \in Snapshot
  BY DEF TypeOK
<1>1. active = "plan" /\ active' = "none" /\ job' = job
  BY DEF Planner, PlanSucceeds, PlanFails, End, executorVars
<1>2. CASE PlanSucceeds
  <2>1. run'.tasks = NewTasks /\ run'.status # "merging"
    BY <1>0, <1>2 DEF PlanSucceeds, EndStatus, Snapshot
  <2>2. Kept(run') /\ \A t \in Task : run'.tasks[t].status \notin Working
    BY <2>1, KeptNew
  <2>3. ExecutorInv'
    BY <1>1, <2>2, ExecutorQuiet
  <2> QED
    BY <1>1, <2>1, <2>2, <2>3 DEF MergeInv, Kept, Ordered, ReviewClosed
<1>3. CASE PlanFails
  <2>1. EndStatus("failed") \in RunStatus \ {"merging"}
    BY DEF EndStatus, RunStatus
  <2>2. SameWork(run, run') /\ run'.status # "merging"
    BY <1>0, <1>3, <2>1, RecordsWork DEF PlanFails, Snapshot
  <2>3. ExecutorInv' /\ Kept(run)'
    BY <1>1, <2>2, QuietStep
  <2> QED
    BY <1>1, <2>2, <2>3 DEF MergeInv
<1> QED
  BY <1>2, <1>3 DEF Planner

(* A task's step is taken within an execution, and is about that task. *)
LEMMA TaskStepScope ==
  ASSUME TypeOK, ExecutorInv, LoopInv, NEW t \in Task, TaskStep(t)
  PROVE  /\ active = "graph" /\ active' = "graph"
         /\ run'.status = run.status /\ run'.mergeCommit = run.mergeCommit
<1>1. \/ \E x : Publish(t, x)
      \/ run' = run
  BY DEF TaskStep, BlockTask, ChooseTask, LaunchTask, ReceiveResult, SetUp, SetUpFails,
         Integrate, IntegrateFails, Complete, ExecuteFails, ScheduleRetry,
         RetryNow, RetryCancelled, Exit
<1>2. run'.status = run.status /\ run'.mergeCommit = run.mergeCommit
  BY <1>1, PublishEffect
<1>3. active' = active
  BY DEF TaskStep, BlockTask, ChooseTask, LaunchTask, ReceiveResult, SetUp, SetUpFails,
         Integrate, IntegrateFails, Complete, ExecuteFails, ScheduleRetry,
         RetryNow, RetryCancelled, jobUnchanged
<1>4. active = "graph" \/ job[t].pc # "idle" \/ loop = t
  BY DEF TaskStep, BlockTask, ChooseTask, LaunchTask, ReceiveResult, SetUp, SetUpFails,
         Integrate, IntegrateFails, Complete, ExecuteFails, ScheduleRetry,
         RetryNow, RetryCancelled, Scanning
<1>5. active = "graph"
  BY <1>4 DEF ExecutorInv, LoopInv, Running
<1> QED
  BY <1>2, <1>3, <1>5

(* The executor keeps the order while it runs, and when it ends. *)
LEMMA ExecutorKeeps ==
  ASSUME TypeOK, ExecutorInv, LoopInv, MergeInv, Kept(run), Executor
  PROVE  ExecutorInv' /\ MergeInv' /\ Kept(run)'
<1>0. run \in Snapshot
  BY DEF TypeOK
<1>1. ASSUME NEW t \in Task, TaskStep(t)
      PROVE  ExecutorInv' /\ MergeInv' /\ Kept(run)'
  <2>1. ExecutorInv' /\ Kept(run)'
    BY <1>1, TaskStepKeeps
  <2>2. MergeInv'
    BY <1>1, TaskStepScope DEF MergeInv
  <2> QED
    BY <2>1, <2>2
<1>2. CASE AwaitResult
  <2>1. UNCHANGED <<run, active, graph, job, merge>>
    BY <1>2 DEF AwaitResult
  <2> QED
    BY <2>1 DEF ExecutorInv, JobInv, Running, AncestorsOf, MergeInv, MergeClosed,
                Kept, Ordered, ReviewClosed
<1>3. CASE FinishGraph
  <2>1. Running = {} /\ Running' = {} /\ active' = "none"
    BY <1>3 DEF FinishGraph, Running, End
  <2>2. PICK s \in RunStatus \ {"merging"} : run' = [run EXCEPT !.status = s]
    BY <1>3 DEF FinishGraph, EndStatus, RunStatus
  <2>3. SameWork(run, run') /\ run'.status # "merging"
    BY <1>0, <2>2, RecordsWork DEF Snapshot
  <2>4. Kept(run')
    BY <2>3, KeptWithdraw DEF SameWork
  <2>5. \A t \in Task : run'.tasks[t].status \notin Working
    BY <2>1, <2>3 DEF ExecutorInv, SameWork
  <2> QED
    BY <2>1, <2>3, <2>4, <2>5 DEF ExecutorInv, MergeInv, Kept, Ordered, ReviewClosed
<1> QED
  BY <1>1, <1>2, <1>3 DEF Executor

------------------------------------------------------------------------------
(* Saving and restoring *)

(* What is in memory may be saved at any time. *)
LEMMA RunRestorable ==
  ASSUME ExecutorInv, MergeInv, GraphRuns, Kept(run)
  PROVE  Restorable(run)
<1>1. Settled(run)
  BY DEF Settled, GraphRuns, ExecutorInv
<1>2. Mergeable(run)
  BY DEF Mergeable, MergeInv
<1> QED
  BY <1>1, <1>2 DEF Restorable

(* A restart finds a settled run in the order its snapshot was in. *)
LEMMA RestoredKept ==
  ASSUME NEW r \in Snapshot, Restorable(r)
  PROVE  LET q == Restored(r) IN
           /\ Kept(q) /\ q.status \notin {"merging", "running"}
           /\ \A t \in Task : q.tasks[t].status \notin Working
<1> DEFINE q == Restored(r)
           Marked == MarkMerged(r, r.mergeTasks)
<1>0. r.mergeTasks \in SUBSET Task /\ \A t \in Task : r.tasks[t] \in TaskRecord
  BY DEF Snapshot
<1>1. CASE r.status = "merging" /\ MergedCandidate(r)
  <2>1. MergeClosed(r, r.mergeTasks) /\ \A t \in Task : r.tasks[t].status \notin Working
    BY <1>1 DEF Restorable, Mergeable, Settled, MergedCandidate
  <2>2. Kept(Marked) /\ Marked \in Snapshot
    BY <1>0, <2>1, KeptMark, RecordsTyped DEF Restorable
  <2>3. \A t \in Task : Marked.tasks[t].status = r.tasks[t].status
    BY <1>0, MarkEffect
  <2>4. q = Reviewed([Marked EXCEPT !.status = "review"])
    BY <1>1 DEF Restored
  <2> HIDE DEF Marked
  <2> DEFINE m == [Marked EXCEPT !.status = "review"]
  <2>5. m \in Snapshot /\ m.status = "review" /\ SameWork(Marked, m)
    <3>1. m \in Snapshot /\ SameWork(Marked, m)
      BY <2>2, SnapshotUpdates, RecordsWork DEF RunStatus
    <3> QED
      BY <3>1, <2>2 DEF Snapshot
  <2> HIDE DEF m
  <2>6. SameWork(m, q) /\ q.status \in {"review", "completed"}
    BY <2>4, <2>5, RecordsWork DEF m
  <2>7. SameWork(Marked, q)
    BY <2>5, <2>6 DEF SameWork
  <2> HIDE DEF q
  <2>8. Kept(q)
    BY <2>2, <2>7, KeptWithdraw DEF SameWork
  <2>9. \A t \in Task : q.tasks[t].status \notin Working
    BY <2>1, <2>3, <2>7 DEF SameWork
  <2> QED
    BY <2>6, <2>8, <2>9 DEF q
<1>2. CASE /\ ~(r.status = "merging" /\ MergedCandidate(r))
           /\ r.status \in {"running", "planning", "merging"}
  <2>1. q = Interrupted(r)
    BY <1>2 DEF Restored
  <2>2. /\ q.deps = r.deps /\ q.status = "cancelled"
        /\ \A u \in Task :
             /\ q.tasks[u].review = r.tasks[u].review
             /\ q.tasks[u].result = r.tasks[u].result
             /\ IF r.tasks[u].status \in Working
                  THEN q.tasks[u].status = "failed"
                  ELSE q.tasks[u].status = r.tasks[u].status
    BY <1>0, <2>1 DEF Interrupted, Snapshot, TaskRecord, Working
  <2> HIDE DEF q
  <2>3. Kept(q)
    BY <2>2, KeptWithdraw DEF Restorable, Working
  <2> QED
    BY <2>2, <2>3 DEF q, Working
<1>3. CASE r.status \notin {"running", "planning", "merging"}
  <2>1. q = r
    BY <1>3 DEF Restored
  <2> QED
    BY <1>3, <2>1 DEF Restorable, Settled
<1> QED
  BY <1>1, <1>2, <1>3

(* A process that dies hands the next one no goroutine and no merge. *)
LEMMA CrashKeeps ==
  ASSUME TypeOK, Restorable(disk), Crash
  PROVE  ExecutorInv' /\ MergeInv' /\ Kept(run)'
<1>1. /\ Kept(run') /\ run'.status # "merging"
      /\ \A t \in Task : run'.tasks[t].status \notin Working
  BY RestoredKept DEF Crash, TypeOK
<1>2. active' = "none" /\ job' = NoJobs
  BY DEF Crash, End
<1>3. Running' = {}
  BY <1>2 DEF Running, NoJobs, Idle
<1> QED
  BY <1>1, <1>2, <1>3 DEF ExecutorInv, MergeInv, Kept, Ordered, ReviewClosed

(* A snapshot is what it was, or what the run is now. *)
LEMMA Saved ==
  ASSUME [Next]_vars
  PROVE  disk' = disk \/ disk' = run'
<1>1. CASE UNCHANGED vars
  BY <1>1 DEF vars
<1>2. CASE Planner
  BY <1>2 DEF Planner, PlanSucceeds, PlanFails, TrySave, Save, SaveFails
<1>3. CASE Executor
  BY <1>3 DEF Executor, AwaitResult, FinishGraph, TrySave, Save, SaveFails,
              TaskStep, BlockTask, ChooseTask, LaunchTask, ReceiveResult, SetUp, SetUpFails,
              Integrate, IntegrateFails, Complete, ExecuteFails, ScheduleRetry,
              RetryNow, RetryCancelled, Exit, Publish
<1>4. CASE MergeStep
  BY <1>4 DEF MergeStep, MergeCreate, MergeCreateFails, MergeIntegrate,
              MergeIntegrateFails, MergeCheckpoint, FastForward,
              FastForwardFails, RecordMerge, RecordMergeUnsaved, MergeFails,
              RemoveMergedTree, FinishMerge, TrySave, Save, SaveFails
<1>5. CASE User
  BY <1>5 DEF User, RetryPlanning, UpdateDAG, UpdateRunConfig, ExecuteDAG,
              Cancel, MergeDAG, CleanupDAG, RetryDAGTask, ResetDAGTask,
              UseDAGTaskProfile,
              ReviewDAGTask, TrySave, Save, SaveFails
<1>6. CASE RecordEvent \/ Crash \/ CommitToBranch
  BY <1>6 DEF RecordEvent, Crash, CommitToBranch, SaveFails
<1> QED
  BY <1>1, <1>2, <1>3, <1>4, <1>5, <1>6 DEF Next

(* While the executor is active the run is shown as running. *)
LEMMA GraphRunsKept ==
  ASSUME TypeOK, ExecutorInv, LoopInv, GraphRuns, [Next]_vars
  PROVE  GraphRuns'
<1>1. CASE UNCHANGED vars
  BY <1>1 DEF vars, GraphRuns
<1>2. ASSUME active' # "graph" PROVE GraphRuns'
  BY <1>2 DEF GraphRuns
<1>3. CASE Planner \/ FinishGraph \/ Crash
  BY <1>2, <1>3 DEF Planner, PlanSucceeds, PlanFails, FinishGraph, Crash, End
<1>4. ASSUME NEW t \in Task, TaskStep(t) PROVE GraphRuns'
  BY <1>4, TaskStepScope DEF GraphRuns
<1>5. CASE AwaitResult \/ RecordEvent \/ CommitToBranch \/ Cancel
  BY <1>5 DEF GraphRuns, AwaitResult, RecordEvent, CommitToBranch, Cancel
<1>6. CASE MergeStep
  <2>1. active' \in {"merge", "none"}
    BY <1>6 DEF MergeStep, MergeCreate, MergeCreateFails, MergeIntegrate,
                MergeIntegrateFails, MergeCheckpoint, FastForward,
                FastForwardFails, RecordMerge, RecordMergeUnsaved, MergeFails,
                RemoveMergedTree, FinishMerge, Merging, mergeUnchanged,
                Succeeded, End
  <2> QED
    BY <1>2, <2>1
<1>7. CASE ExecuteDAG
  BY <1>7 DEF ExecuteDAG, GraphRuns, Inactive, TypeOK, Snapshot
<1>8. CASE User /\ ~ExecuteDAG /\ ~Cancel
  <2>1. active' \in {"none", "plan", "merge"}
    BY <1>8 DEF User, RetryPlanning, UpdateDAG, UpdateRunConfig, MergeDAG,
                CleanupDAG, RetryDAGTask, ResetDAGTask, ReviewDAGTask,
                UseDAGTaskProfile,
                Redoable, Inactive, Begin
  <2> QED
    BY <1>2, <2>1
<1> QED
  BY <1>1, <1>3, <1>4, <1>5, <1>6, <1>7, <1>8 DEF Next, Executor

(* Only the executor moves its loop; while it runs nobody else changes its copy
   or the graph. *)
LEMMA LoopKept ==
  ASSUME TypeOK, ExecutorInv, LoopInv, [Next]_vars
  PROVE  LoopInv'
<1>0. \A t \in Task : t # "scan" /\ t # "wait"
  BY LoopAssumption
<1>1. ASSUME loop' \in {"scan", "wait"} PROVE LoopInv'
  BY <1>0, <1>1 DEF LoopInv
<1>2. ASSUME loop' = loop, active' = active, graph' = graph, run'.deps = run.deps
      PROVE  LoopInv'
  BY <1>2 DEF LoopInv, AncestorsOf
<1>3. ASSUME loop' = loop, active # "graph" PROVE LoopInv'
  BY <1>3 DEF LoopInv
<1>4. CASE UNCHANGED vars
  BY <1>2, <1>4 DEF vars
<1>5. ASSUME NEW t \in Task, TaskStep(t) PROVE LoopInv'
  <2>1. CASE LaunchTask(t) \/ ReceiveResult(t)
    BY <1>1, <2>1 DEF LaunchTask, ReceiveResult
  <2>2. CASE BlockTask(t)
    BY <1>1, <2>2 DEF BlockTask, Scanning
  <2>3. CASE ChooseTask(t)
    <3>1. /\ loop' = t /\ active' = "graph" /\ graph'[t].status = "pending"
          /\ graph' = graph /\ run' = run
          /\ \A d \in AncestorsOf(t) : graph[d].status = "completed"
      BY <2>3 DEF ChooseTask, Scanning, Launchable
    <3> QED
      BY <3>1 DEF LoopInv, AncestorsOf
  <2>4. CASE ~(BlockTask(t) \/ ChooseTask(t) \/ LaunchTask(t) \/ ReceiveResult(t))
    <3>1. (\E x : Publish(t, x)) \/ run' = run
      BY <1>5, <2>4 DEF TaskStep, SetUp, SetUpFails, Integrate, IntegrateFails,
         Complete, ExecuteFails, ScheduleRetry, RetryNow, RetryCancelled, Exit
    <3>2. run'.deps = run.deps
      BY <3>1, PublishEffect
    <3>3. loop' = loop /\ active' = active /\ graph' = graph
      BY <1>5, <2>4 DEF TaskStep, SetUp, SetUpFails, Integrate, IntegrateFails,
         Complete, ExecuteFails, ScheduleRetry, RetryNow, RetryCancelled, jobUnchanged
    <3> QED
      BY <1>2, <3>2, <3>3
  <2> QED
    BY <2>1, <2>2, <2>3, <2>4
<1>6. CASE AwaitResult \/ Crash
  BY <1>1, <1>6 DEF AwaitResult, Crash
<1>7. CASE FinishGraph
  BY <1>1, <1>7 DEF FinishGraph, ScanEnded
<1>8. CASE Cancel \/ RecordEvent \/ CommitToBranch
  BY <1>2, <1>8 DEF Cancel, RecordEvent, CommitToBranch, executorVars
<1>9. CASE Planner \/ MergeStep \/ (User /\ ~Cancel)
  <2>1. loop' = loop
    BY <1>9 DEF Planner, PlanSucceeds, PlanFails, MergeStep, MergeCreate,
       MergeCreateFails, MergeIntegrate, MergeIntegrateFails, MergeCheckpoint,
       FastForward, FastForwardFails, RecordMerge, RecordMergeUnsaved, MergeFails,
       RemoveMergedTree, FinishMerge, mergeUnchanged, executorVars, User,
       RetryPlanning, UpdateDAG, UpdateRunConfig, ExecuteDAG, MergeDAG,
       CleanupDAG, RetryDAGTask, ResetDAGTask, UseDAGTaskProfile, ReviewDAGTask
  <2>2. active # "graph"
    BY <1>9 DEF Planner, PlanSucceeds, PlanFails, MergeStep, MergeCreate,
       MergeCreateFails, MergeIntegrate, MergeIntegrateFails, MergeCheckpoint,
       FastForward, FastForwardFails, RecordMerge, RecordMergeUnsaved, MergeFails,
       RemoveMergedTree, FinishMerge, Merging, Succeeded, User,
       RetryPlanning, UpdateDAG, UpdateRunConfig, ExecuteDAG, MergeDAG,
       CleanupDAG, RetryDAGTask, ResetDAGTask, Redoable, UseDAGTaskProfile,
       ReviewDAGTask, Inactive
  <2> QED
    BY <1>3, <2>1, <2>2
<1> QED
  BY <1>4, <1>5, <1>6, <1>7, <1>8, <1>9 DEF Next, Executor

------------------------------------------------------------------------------
(* The invariant *)

(* Before the plan there is nothing to order. *)
LEMMA InitKeeps == Init => IndInv
<1> SUFFICES ASSUME Init PROVE IndInv
  OBVIOUS
<1>1. TypeOK
  BY InitTyped
<1>2. /\ run.tasks = NewTasks /\ run.status = "planning"
      /\ disk = run /\ active = "plan" /\ job = NoJobs
  BY DEF Init
<1>3. Kept(run) /\ \A t \in Task : run.tasks[t].status \notin Working
  BY <1>2, KeptNew
<1>4. Running = {}
  BY <1>2 DEF Running, NoJobs, Idle
<1>5. ExecutorInv
  BY <1>2, <1>3, <1>4 DEF ExecutorInv
<1>6. MergeInv /\ GraphRuns
  BY <1>2 DEF MergeInv, GraphRuns
<1>8. LoopInv
  BY LoopAssumption DEF Init, LoopInv
<1>7. Restorable(run)
  BY <1>3, <1>5, <1>6, RunRestorable
<1> QED
  BY <1>1, <1>2, <1>3, <1>5, <1>6, <1>7, <1>8 DEF IndInv

(* Every step, of whatever goroutine, keeps it. *)
LEMMA NextKeeps == IndInv /\ [Next]_vars => IndInv'
<1> SUFFICES ASSUME IndInv, [Next]_vars PROVE IndInv'
  OBVIOUS
<1>0. /\ TypeOK /\ ExecutorInv /\ LoopInv /\ MergeInv /\ GraphRuns /\ Kept(run)
      /\ Restorable(disk)
  BY DEF IndInv
<1>1. TypeOK'
  BY <1>0, NextTyped
<1>2. ExecutorInv' /\ MergeInv' /\ Kept(run)'
  <2>1. CASE UNCHANGED <<run, active, graph, job, merge>>
    BY <1>0, <2>1 DEF ExecutorInv, JobInv, Running, AncestorsOf, MergeInv,
                      MergeClosed, Kept, Ordered, ReviewClosed
  <2>2. CASE UNCHANGED vars \/ RecordEvent \/ CommitToBranch
    BY <2>1, <2>2 DEF vars, RecordEvent, CommitToBranch, executorVars
  <2>3. CASE Planner
    BY <1>0, <2>3, PlannerKeeps
  <2>4. CASE Executor
    BY <1>0, <2>4, ExecutorKeeps
  <2>5. CASE MergeStep
    BY <1>0, <2>5, MergeStepKeeps
  <2>6. CASE User
    BY <1>0, <2>6, UserKeeps
  <2>7. CASE Crash
    BY <1>0, <2>7, CrashKeeps
  <2> QED
    BY <2>2, <2>3, <2>4, <2>5, <2>6, <2>7 DEF Next
<1>3. GraphRuns'
  BY <1>0, GraphRunsKept
<1>5. LoopInv'
  BY <1>0, LoopKept
<1>4. Restorable(disk)'
  <2>1. Restorable(run')
    <3>1. Settled(run')
      BY <1>2, <1>3 DEF Settled, GraphRuns, ExecutorInv
    <3>2. Mergeable(run')
      BY <1>2 DEF Mergeable, MergeInv, MergeClosed
    <3>3. Kept(run')
      BY <1>2 DEF Kept, Ordered, ReviewClosed
    <3> QED
      BY <3>1, <3>2, <3>3 DEF Restorable
  <2>2. CASE disk' = disk
    BY <1>0, <2>2 DEF Restorable, Kept, Ordered, ReviewClosed, Mergeable,
                      MergeClosed, Settled
  <2>3. CASE disk' = run'
    BY <2>1, <2>3 DEF Restorable, Kept, Ordered, ReviewClosed, Mergeable,
                      MergeClosed, Settled
  <2> QED
    BY <2>2, <2>3, Saved
<1> QED
  BY <1>1, <1>2, <1>3, <1>4, <1>5 DEF IndInv

(* The inductive invariant holds of every behaviour. *)
THEOREM Invariance == Spec => []IndInv
BY InitKeeps, NextKeeps, PTL DEF Spec

(* executeDAG starts a task only when everything it depends on is completed,
   in memory and in every snapshot a restart may find, whatever is retried,
   reset, cancelled, lost by a failed save or by a crash; and a worker is
   handed the results of all its task's dependencies. *)
THEOREM DependenciesFirst == Spec => []StartedAfterDependencies
<1>1. IndInv => StartedAfterDependencies
  BY DEF IndInv, Kept, Restorable, StartedAfterDependencies, ExecutorInv, JobInv
<1> QED
  BY <1>1, Invariance, PTL

(* ReviewDAGTask, mergeDAG and restore never leave a result accepted, or
   merged, above one that is not, and never review unfinished work. *)
THEOREM ReviewsStayClosed == Spec => []ReviewsClosed
<1>1. IndInv => ReviewsClosed
  BY DEF IndInv, Kept, Restorable, ReviewsClosed
<1> QED
  BY <1>1, Invariance, PTL

(* The executor's copy of the tasks, its goroutines' copies and the run the
   Manager shows agree, and no goroutine outlives its execution. *)
THEOREM CopiesStayEqual == Spec => []CopiesAgree
<1>1. IndInv => CopiesAgree
  BY DEF IndInv, ExecutorInv, CopiesAgree, Working
<1> QED
  BY <1>1, Invariance, PTL

(* With no goroutine left, nothing is left running or retrying; and no
   unsuccessful task is kept from retry and reset by a completed dependent. *)
THEOREM NothingStranded == Spec => []NoStrandedTask
<1>1. ASSUME IndInv PROVE NoStrandedTask
  <2>1. Inactive => \A t \in Task : run.tasks[t].status \notin {"running", "retrying"}
    BY <1>1 DEF IndInv, ExecutorInv, Inactive, Working
  <2>2. \A t \in Task : run.tasks[t].status \in Unsuccessful => ~HasCompletedDependent(t)
    BY <1>1 DEF IndInv, Kept, Ordered, HasCompletedDependent, AncestorsOf, Unsuccessful
  <2> QED
    BY <2>1, <2>2 DEF NoStrandedTask
<1> QED
  BY <1>1, Invariance, PTL

==============================================================================
