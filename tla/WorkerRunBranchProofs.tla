------------------------ MODULE WorkerRunBranchProofs ------------------------
(***************************************************************************)
(* The target branch receives each task's commit once, dependencies first, *)
(* with the user's acceptance, and no merge is forgotten; and a run keeps  *)
(* the promise of ReviewedGraph: for every graph, every number of tasks,   *)
(* every crash and every save that fails.                                  *)
(*                                                                         *)
(* The branch is the one thing here that a restart does not take back, so  *)
(* BranchInv follows a commit from the acceptance of its task through      *)
(* mergeDAG's candidate to the branch, and what names it on disk meanwhile.*)
(* PromiseInv says what a snapshot may be behind in, and that a mark never *)
(* speaks of a change the branch does not have.                            *)
(* The last two parts need no more than these: a run at rest is restored   *)
(* as it is, and an execution leaves no task untried.                      *)
(***************************************************************************)
EXTENDS WorkerRunProofs

(* The tasks whose commits a history holds, and the order they stand in. *)
Contents(h) == {t \in Task : \E i \in DOMAIN h : h[i] = t}
InOrder(D, h) ==
  \A i, j \in DOMAIN h :
    h[i] \in Task => /\ h[i] = h[j] => i = j
                     /\ h[j] \in Ancestors(D, h[i]) => j < i

Marked(r) == {t \in Task : r.tasks[t].review = "merged"}

(* What the branch may hold without its mark: the merge that moved it is about
   to write the marks. *)
Pending ==
  IF active = "merge" /\ merge.pc \in {"merged", "failed"} /\ MergedCandidate(run)
    THEN merge.selected
    ELSE {}
Covered == Landed \subseteq Marked(run) \cup Pending

(* Before a plan is executed there is nothing to merge, ... *)
Fresh(r) ==
  ~r.planned \/ r.status = "draft" =>
    \A t \in Task : r.tasks[t].status = "pending" /\ r.tasks[t].review = "none"
Planned ==
  /\ active = "plan" => ~run.planned
  /\ active \in {"graph", "merge"} => run.planned

(* ... and once there is, the saved graph is the one in memory. *)
SavedDeps == Landed # {} \/ active = "merge" => disk.deps = run.deps

(* mergeDAG's candidate, until the branch moves to it. *)
CandidateInv ==
  active = "merge" =>
    /\ run.status = "merging"
    /\ merge.pc \in {"create", "integrate", "checkpoint", "ff"} =>
         \A t \in merge.selected : run.tasks[t].review = "accepted"
    /\ merge.pc = "integrate" => Contents(merge.tip) \subseteq Landed
    /\ merge.pc \in {"checkpoint", "ff"} =>
         Contents(merge.tip) \subseteq Landed \cup merge.selected
    /\ merge.pc \in {"integrate", "checkpoint", "ff"} => InOrder(run.deps, merge.tip)
    /\ merge.pc = "ff" => /\ run.mergeCommit = merge.tip
                          /\ disk.status = "merging"
                          /\ disk.mergeCommit = merge.tip
                          /\ disk.mergeTasks = merge.selected

(* What a step within one process leaves of the work that is done. *)
Untouched ==
  \A t \in Task : run.tasks[t].status = "pending" /\ run.tasks[t].review = "none"
WorkKept ==
  \/ Untouched
  \/ /\ run'.deps = run.deps
     /\ \A t \in Task :
          /\ run.tasks[t].status = "completed" =>
               /\ run'.tasks[t].status = "completed"
               /\ run'.tasks[t].result = run.tasks[t].result
          /\ run.tasks[t].review = "merged" => run'.tasks[t].review = "merged"

BranchInv ==
  /\ InOrder(run.deps, branch)
  /\ Covered
  /\ MergesRecoverable
  /\ SavedDeps
  /\ Fresh(run)
  /\ Fresh(disk)
  /\ Planned
  /\ CandidateInv

------------------------------------------------------------------------------
(* Histories *)

(* A history that begins with another holds it, place by place. *)
LEMMA PrefixPlaces ==
  ASSUME NEW s \in History, NEW h \in History, IsAncestor(s, h)
  PROVE  \A i \in DOMAIN s : i \in DOMAIN h /\ s[i] = h[i]
<1>1. Len(s) \in Nat /\ Len(h) \in Nat /\ DOMAIN s = 1..Len(s) /\ DOMAIN h = 1..Len(h)
  BY DEF History
<1>2. Len(s) <= Len(h) /\ SubSeq(s, 1, Len(s)) = SubSeq(h, 1, Len(s))
  BY DEF IsAncestor, IsPrefix
<1>3. \A i \in 1..Len(s) : SubSeq(s, 1, Len(s))[i] = s[i] /\ SubSeq(h, 1, Len(s))[i] = h[i]
  BY <1>1, <1>2 DEF History
<1> QED
  BY <1>1, <1>2, <1>3

(* A longer branch still has the candidates it had. *)
LEMMA PrefixAppend ==
  ASSUME NEW s \in History, NEW h \in History, NEW c \in Commit, IsAncestor(s, h)
  PROVE  IsAncestor(s, Append(h, c))
<1>1. Len(s) \in Nat /\ Len(h) \in Nat /\ Len(Append(h, c)) = Len(h) + 1
  BY DEF History
<1>2. Len(s) <= Len(h) /\ SubSeq(s, 1, Len(s)) = SubSeq(h, 1, Len(s))
  BY DEF IsAncestor, IsPrefix
<1>3. SubSeq(Append(h, c), 1, Len(s)) = SubSeq(h, 1, Len(s))
  BY <1>1, <1>2 DEF History
<1> QED
  BY <1>1, <1>2, <1>3 DEF IsAncestor, IsPrefix

(* A commit is its own ancestor. *)
LEMMA PrefixReflexive == ASSUME NEW h \in History PROVE IsAncestor(h, h)
BY DEF IsAncestor, IsPrefix, History

(* Picking new commits, dependencies first, onto an ordered history that is
   closed under dependencies keeps it ordered. *)
LEMMA PicksInOrder ==
  ASSUME NEW D, NEW h \in History, NEW order \in Seq(Task), InOrder(D, h),
         \A i, j \in DOMAIN order :
           /\ order[i] = order[j] => i = j
           /\ order[i] \in Ancestors(D, order[j]) => i < j,
         \A i \in DOMAIN order : order[i] \notin Contents(h),
         \A t \in Contents(h) : \A i \in DOMAIN order : order[i] \notin Ancestors(D, t)
  PROVE  InOrder(D, h \o order)
<1> DEFINE q == h \o order
<1>1. /\ Len(h) \in Nat /\ Len(order) \in Nat
      /\ DOMAIN h = 1..Len(h) /\ DOMAIN order = 1..Len(order)
      /\ DOMAIN q = 1..(Len(h) + Len(order))
  BY DEF History
<1>2. /\ \A i \in DOMAIN q : i <= Len(h) => i \in DOMAIN h /\ q[i] = h[i]
      /\ \A i \in DOMAIN q : i > Len(h) =>
           i - Len(h) \in DOMAIN order /\ q[i] = order[i - Len(h)]
  BY <1>1 DEF History
<1>3. \A i \in DOMAIN order : order[i] \in Task
  BY <1>1
<1> HIDE DEF q
<1> SUFFICES ASSUME NEW i \in DOMAIN q, NEW j \in DOMAIN q, q[i] \in Task
             PROVE  /\ q[i] = q[j] => i = j
                    /\ q[j] \in Ancestors(D, q[i]) => j < i
  BY DEF InOrder, q
<1>4. CASE i <= Len(h) /\ j <= Len(h)
  BY <1>2, <1>4 DEF InOrder
<1>5. CASE i <= Len(h) /\ j > Len(h)
  <2>1. q[i] \in Contents(h)
    BY <1>2, <1>5 DEF Contents
  <2> QED
    BY <1>2, <1>5, <2>1
<1>6. CASE i > Len(h) /\ j <= Len(h)
  <2>1. q[j] \in Task => q[j] \in Contents(h)
    BY <1>2, <1>6 DEF Contents
  <2>2. q[i] # q[j]
    BY <1>2, <1>6, <2>1
  <2> QED
    BY <1>1, <1>6, <2>2
<1>7. CASE i > Len(h) /\ j > Len(h)
  <2>1. /\ i - Len(h) \in DOMAIN order /\ q[i] = order[i - Len(h)]
        /\ j - Len(h) \in DOMAIN order /\ q[j] = order[j - Len(h)]
    BY <1>2, <1>7
  <2>2. q[i] = q[j] => i - Len(h) = j - Len(h)
    BY <2>1
  <2>3. q[j] \in Ancestors(D, q[i]) => j - Len(h) < i - Len(h)
    BY <2>1
  <2> QED
    BY <1>1, <2>2, <2>3
<1> QED
  BY <1>1, <1>4, <1>5, <1>6, <1>7

(* What is in a history with picks on it. *)
LEMMA PicksContents ==
  ASSUME NEW h \in History, NEW S \in SUBSET Task, NEW order \in Seq(S)
  PROVE  Contents(h \o order) \subseteq Contents(h) \cup S
<1> DEFINE q == h \o order
<1>1. /\ Len(h) \in Nat /\ Len(order) \in Nat
      /\ DOMAIN h = 1..Len(h) /\ DOMAIN order = 1..Len(order)
      /\ DOMAIN q = 1..(Len(h) + Len(order))
  BY DEF History
<1>2. /\ \A i \in DOMAIN q : i <= Len(h) => i \in DOMAIN h /\ q[i] = h[i]
      /\ \A i \in DOMAIN q : i > Len(h) => q[i] \in S
  BY <1>1 DEF History
<1> HIDE DEF q
<1> SUFFICES ASSUME NEW i \in DOMAIN q, q[i] \in Task
             PROVE  q[i] \in Contents(h) \cup S
  BY DEF Contents, q
<1>3. i <= Len(h) \/ i > Len(h)
  BY <1>1
<1> QED
  BY <1>2, <1>3 DEF Contents
------------------------------------------------------------------------------
(* Steps taken outside a merge *)

(* What is saved with the branch at hand is recoverable. *)
LEMMA SavedRecovers ==
  ASSUME MergeInv', CandidateInv', Covered', disk' = run'
  PROVE  MergesRecoverable'
BY DEF MergeInv, CandidateInv, Covered, Pending, Marked, MergesRecoverable,
       MergedCandidate, Landed

(* Outside a merge it is enough that a step keeps what was done. *)
LEMMA OutsideMerge ==
  ASSUME BranchInv, MergeInv', branch' = branch,
         active # "merge", active' # "merge",
         disk' = disk \/ disk' = run',
         WorkKept, Fresh(run'), Planned'
  PROVE  BranchInv'
<1>1. Landed' = Landed /\ Landed \subseteq Marked(run)
  BY DEF Landed, BranchInv, Covered, Pending
<1>0. /\ run'.deps = run.deps \/ Landed = {}
      /\ Landed \subseteq Marked(run')
  BY <1>1 DEF WorkKept, Untouched, Marked
<1>2. Covered'
  BY <1>0, <1>1 DEF Covered, Marked
<1>3. CandidateInv'
  BY DEF CandidateInv
<1>4. InOrder(run.deps, branch)'
  <2>1. CASE run'.deps = run.deps
    BY <2>1 DEF InOrder, BranchInv
  <2>2. CASE Landed = {}
    <3>1. \A i \in DOMAIN branch : branch[i] \notin Task
      BY <2>2 DEF Landed
    <3> QED
      BY <3>1 DEF InOrder
  <2> QED
    BY <1>0, <2>1, <2>2
<1>5. CASE disk' = disk
  <2>1. MergesRecoverable'
    BY <1>1, <1>5 DEF BranchInv, MergesRecoverable, MergedCandidate
  <2>2. SavedDeps'
    BY <1>0, <1>1, <1>5 DEF BranchInv, SavedDeps
  <2>3. Fresh(run)' /\ Fresh(disk)'
    BY <1>5 DEF BranchInv, Fresh
  <2> QED
    BY <1>2, <1>3, <1>4, <2>1, <2>2, <2>3 DEF BranchInv
<1>6. CASE disk' = run'
  <2>1. MergesRecoverable'
    BY <1>2, <1>3, <1>6, SavedRecovers
  <2>2. SavedDeps'
    BY <1>6 DEF SavedDeps
  <2>3. Fresh(run)' /\ Fresh(disk)'
    BY <1>6 DEF Fresh
  <2> QED
    BY <1>2, <1>3, <1>4, <2>1, <2>2, <2>3 DEF BranchInv
<1> QED
  BY <1>5, <1>6

(* A task's step is about a task that is neither completed nor merged. *)
LEMMA TaskStepWork ==
  ASSUME IndInv, NEW t \in Task, TaskStep(t)
  PROVE  WorkKept /\ run'.planned = run.planned /\ branch' = branch
<1>0. TypeOK /\ ExecutorInv /\ LoopInv /\ ReviewClosed(run)
  BY DEF IndInv, Kept
<1>1. active = "graph"
  BY <1>0, TaskStepScope
<1>2. \/ job[t].pc # "idle"
      \/ (Scanning(t) \/ loop = t) /\ t \in Task \ Running
  BY <1>0 DEF TaskStep, BlockTask, ChooseTask, LaunchTask, ReceiveResult, SetUp, SetUpFails,
              Integrate, IntegrateFails, Complete, ExecuteFails, ScheduleRetry,
              RetryNow, RetryCancelled, Scanning, ExecutorInv, LoopInv
<1>3. run.tasks[t].status \in Working \cup {"pending"}
  BY <1>0, <1>1, <1>2 DEF ExecutorInv, LoopInv, Running, Scanning
<1>4. run.tasks[t].review = "none" /\ run.tasks[t].status # "completed"
  BY <1>0, <1>3 DEF ReviewClosed, Working
<1>5. branch' = branch
  BY DEF TaskStep, BlockTask, ChooseTask, LaunchTask, ReceiveResult, SetUp, SetUpFails,
         Integrate, IntegrateFails, Complete, ExecuteFails, ScheduleRetry,
         RetryNow, RetryCancelled, jobUnchanged
<1>6. \/ \E x : Publish(t, x)
      \/ run' = run
  BY DEF TaskStep, BlockTask, ChooseTask, LaunchTask, ReceiveResult, SetUp, SetUpFails,
         Integrate, IntegrateFails, Complete, ExecuteFails, ScheduleRetry,
         RetryNow, RetryCancelled, Exit
<1>7. ASSUME NEW x, Publish(t, x)
      PROVE  WorkKept /\ run'.planned = run.planned
  <2>1. \A u \in Task \ {t} : run'.tasks[u] = run.tasks[u]
    BY <1>0, <1>7, PublishEffect
  <2>2. run'.deps = run.deps /\ run'.planned = run.planned
    BY <1>0, <1>7 DEF Publish, TypeOK, Snapshot
  <2> QED
    BY <1>4, <2>1, <2>2 DEF WorkKept
<1>8. run' = run => WorkKept
  BY DEF WorkKept
<1> QED
  BY <1>5, <1>6, <1>7, <1>8

(* The executor leaves the branch and what it holds alone. *)
LEMMA ExecutorBranch ==
  ASSUME IndInv, IndInv', BranchInv, Executor, disk' = disk \/ disk' = run'
  PROVE  BranchInv' /\ WorkKept
<1>0. /\ TypeOK /\ ExecutorInv /\ LoopInv /\ GraphRuns
      /\ MergeInv' /\ GraphRuns'
      /\ run \in Snapshot
  BY DEF IndInv, TypeOK
<1>1. active = "graph" => run.status = "running" /\ run.planned
  BY <1>0 DEF GraphRuns, BranchInv, Planned
<1>2. ASSUME NEW t \in Task, TaskStep(t) PROVE BranchInv' /\ WorkKept
  <2>1. active = "graph" /\ active' = "graph" /\ run'.status = run.status
    BY <1>0, <1>2, TaskStepScope
  <2>2. WorkKept /\ run'.planned = run.planned /\ branch' = branch
    BY <1>2, TaskStepWork
  <2>3. Fresh(run') /\ Planned'
    BY <1>1, <2>1, <2>2 DEF Fresh, Planned
  <2> QED
    BY <1>0, <2>1, <2>2, <2>3, OutsideMerge
<1>3. CASE AwaitResult
  <2>1. UNCHANGED <<run, branch, active>> /\ active = "graph"
    BY <1>3 DEF AwaitResult, ScanEnded
  <2>2. Fresh(run') /\ Planned' /\ WorkKept
    BY <2>1 DEF BranchInv, Fresh, Planned, WorkKept
  <2> QED
    BY <1>0, <2>1, <2>2, OutsideMerge
<1>4. CASE FinishGraph
  <2>1. /\ active = "graph" /\ active' = "none" /\ branch' = branch
        /\ \E s \in RunStatus \ {"draft"} : run' = [run EXCEPT !.status = s]
    BY <1>4 DEF FinishGraph, ScanEnded, End, EndStatus, RunStatus
  <2>2. /\ run'.deps = run.deps /\ run'.tasks = run.tasks
        /\ run'.planned = run.planned /\ run'.status # "draft"
    BY <1>0, <2>1 DEF Snapshot
  <2>3. Fresh(run') /\ Planned' /\ WorkKept
    BY <1>1, <2>1, <2>2 DEF Fresh, Planned, WorkKept
  <2> QED
    BY <1>0, <2>1, <2>2, <2>3, OutsideMerge
<1> QED
  BY <1>2, <1>3, <1>4 DEF Executor

(* A plan is drawn up when nothing has landed. *)
LEMMA PlannerBranch ==
  ASSUME IndInv, IndInv', BranchInv, Planner, disk' = disk \/ disk' = run'
  PROVE  BranchInv' /\ WorkKept
<1>0. run \in Snapshot /\ MergeInv'
  BY DEF IndInv, TypeOK
<1>1. active = "plan" /\ active' = "none" /\ branch' = branch
  BY DEF Planner, PlanSucceeds, PlanFails, End
<1>2. \A t \in Task : run.tasks[t].status = "pending" /\ run.tasks[t].review = "none"
  BY <1>1 DEF BranchInv, Planned, Fresh
<1>3. WorkKept
  BY <1>2 DEF WorkKept, Untouched
<1>4. \A t \in Task : run'.tasks[t].status = "pending" /\ run'.tasks[t].review = "none"
  <2>1. CASE PlanSucceeds
    <3>1. run'.tasks = NewTasks
      BY <1>0, <2>1 DEF PlanSucceeds, Snapshot
    <3> QED
      BY <3>1 DEF NewTasks, NewTask
  <2>2. CASE PlanFails
    <3>1. run'.tasks = run.tasks
      BY <1>0, <2>2 DEF PlanFails, Snapshot
    <3> QED
      BY <1>2, <3>1
  <2> QED
    BY <2>1, <2>2 DEF Planner
<1>5. Fresh(run') /\ Planned'
  BY <1>1, <1>4 DEF Fresh, Planned
<1> QED
  BY <1>0, <1>1, <1>3, <1>5, OutsideMerge
(* Continuing a task, or resetting it, takes no mark away and begins no plan. *)
LEMMA RedoBranch ==
  ASSUME IndInv, IndInv', BranchInv, disk' = disk \/ disk' = run',
         NEW t \in Task, Redoable(t), NEW T,
         run' = [run EXCEPT !.tasks = T],
         \A u \in Task :
           /\ T[u].review = run.tasks[u].review
           /\ run.tasks[u].status = "completed" => T[u] = run.tasks[u],
         branch' = branch, active' = active
  PROVE  BranchInv' /\ WorkKept
<1>1. /\ run'.deps = run.deps /\ run'.tasks = T /\ run'.status = run.status
      /\ run'.planned = run.planned
  BY DEF IndInv, TypeOK, Snapshot
<1>2. active = "none" /\ MergeInv'
  BY DEF Redoable, Inactive, IndInv
<1>3. run.tasks[t].status # "pending"
  BY DEF Redoable, Unsuccessful
<1>4. Fresh(run') /\ Planned'
  BY <1>1, <1>2, <1>3 DEF Fresh, Planned, BranchInv
<1>5. WorkKept
  BY <1>1 DEF WorkKept
<1> QED
  BY <1>1, <1>2, <1>4, <1>5, OutsideMerge

(* The user's steps but the last leave the branch and its marks alone. *)
LEMMA UserBranch ==
  ASSUME IndInv, IndInv', BranchInv, User, ~MergeDAG, disk' = disk \/ disk' = run'
  PROVE  BranchInv' /\ WorkKept
<1>0. /\ run \in Snapshot /\ run.tasks \in [Task -> TaskRecord]
      /\ \A t \in Task : run.tasks[t] \in TaskRecord
      /\ MergeInv' /\ Fresh(run) /\ Planned
  BY SnapshotUpdates DEF IndInv, TypeOK, BranchInv
<1>1. ASSUME active = "none", active' = "none", branch' = branch,
             run'.deps = run.deps, run'.planned = run.planned,
             run'.status = "draft" => run.status = "draft",
             \A t \in Task : /\ run'.tasks[t].status = run.tasks[t].status
                             /\ run'.tasks[t].result = run.tasks[t].result
                             /\ run'.tasks[t].review = run.tasks[t].review
      PROVE  BranchInv' /\ WorkKept
  <2>1. Fresh(run') /\ Planned' /\ WorkKept
    BY <1>0, <1>1 DEF Fresh, Planned, WorkKept
  <2> QED
    BY <1>0, <1>1, <2>1, OutsideMerge
<1>2. CASE RetryPlanning
  <2>1. /\ active = "none" /\ active' = "plan" /\ branch' = branch /\ ~run.planned
        /\ run' = [run EXCEPT !.status = "planning"]
    BY <1>2 DEF RetryPlanning, Inactive, Begin
  <2>2. run'.deps = run.deps /\ run'.tasks = run.tasks /\ run'.planned = run.planned
    BY <1>0, <2>1 DEF Snapshot
  <2>3. Fresh(run') /\ Planned' /\ WorkKept
    BY <1>0, <2>1, <2>2 DEF Fresh, Planned, WorkKept
  <2> QED
    BY <1>0, <2>1, <2>2, <2>3, OutsideMerge
<1>3. CASE UpdateDAG
  <2>1. /\ active = "none" /\ active' = "none" /\ branch' = branch
        /\ run.status = "draft" /\ run'.tasks = NewTasks
    BY <1>0, <1>3 DEF UpdateDAG, Inactive, Snapshot
  <2>2. WorkKept
    BY <1>0, <2>1 DEF Fresh, WorkKept, Untouched
  <2>3. Fresh(run') /\ Planned'
    BY <2>1 DEF Fresh, Planned, NewTasks, NewTask
  <2> QED
    BY <1>0, <2>1, <2>2, <2>3, OutsideMerge
<1>4. CASE UpdateRunConfig
  <2>1. /\ active = "none" /\ active' = "none" /\ branch' = branch
        /\ \E c \in Configs : run' = [run EXCEPT !.config = c]
    BY <1>4 DEF UpdateRunConfig, Inactive
  <2>2. /\ run'.deps = run.deps /\ run'.tasks = run.tasks
        /\ run'.planned = run.planned /\ run'.status = run.status
    BY <1>0, <2>1 DEF Snapshot
  <2> QED
    BY <1>1, <2>1, <2>2
<1>5. CASE ExecuteDAG
  <2>1. /\ active = "none" /\ active' \in {"none", "graph"} /\ branch' = branch
        /\ run.planned /\ run' = [run EXCEPT !.status = "running"]
    BY <1>5 DEF ExecuteDAG, Inactive, Begin
  <2>2. /\ run'.deps = run.deps /\ run'.tasks = run.tasks
        /\ run'.planned = run.planned /\ run'.status = "running"
    BY <1>0, <2>1 DEF Snapshot
  <2>3. Fresh(run') /\ Planned' /\ WorkKept
    BY <1>0, <2>1, <2>2 DEF Fresh, Planned, WorkKept
  <2> QED
    BY <1>0, <2>1, <2>2, <2>3, OutsideMerge
<1>6. CASE Cancel
  <2>1. UNCHANGED <<run, disk, branch, active, merge>>
    BY <1>6 DEF Cancel
  <2>2. WorkKept
    BY <2>1 DEF WorkKept
  <2> QED
    BY <2>1, <2>2 DEF BranchInv, InOrder, Covered, Pending, Landed, Marked, Fresh,
                      Planned, SavedDeps, CandidateInv, Contents, MergesRecoverable,
                      MergedCandidate
<1>7. CASE CleanupDAG
  <2>1. /\ active = "none" /\ active' = "none" /\ branch' = branch
        /\ \E S \in SUBSET Task : run' = [run EXCEPT
               !.mergeWorktree = FALSE,
               !.tasks = [t \in Task |-> [run.tasks[t] EXCEPT
                            !.worktree = run.tasks[t].worktree /\ t \notin S]]]
    BY <1>7 DEF CleanupDAG, Inactive
  <2>2. /\ run'.deps = run.deps /\ run'.planned = run.planned
        /\ run'.status = run.status
        /\ \A t \in Task : /\ run'.tasks[t].status = run.tasks[t].status
                           /\ run'.tasks[t].result = run.tasks[t].result
                           /\ run'.tasks[t].review = run.tasks[t].review
    BY <1>0, <2>1 DEF Snapshot, TaskRecord
  <2> QED
    BY <1>1, <2>1, <2>2
<1>8. ASSUME NEW t \in Task, NEW resolve \in BOOLEAN, RetryDAGTask(t, resolve)
      PROVE  BranchInv' /\ WorkKept
  <2> DEFINE T == [u \in Task |->
          IF u = t
            THEN [run.tasks[t] EXCEPT !.status = "pending", !.resolve = resolve]
          ELSE IF run.tasks[u].status = "blocked" /\ t \in AncestorsOf(u)
            THEN [run.tasks[u] EXCEPT !.status = "pending"]
          ELSE run.tasks[u]]
  <2>1. run' = [run EXCEPT !.tasks = T] /\ Redoable(t)
        /\ branch' = branch /\ active' = active
    BY <1>8 DEF RetryDAGTask
  <2>2. \A u \in Task :
          /\ T[u].review = run.tasks[u].review
          /\ run.tasks[u].status = "completed" => T[u] = run.tasks[u]
    BY <1>0, <2>1 DEF TaskRecord, Redoable, Unsuccessful
  <2> HIDE DEF T
  <2> QED
    BY <2>1, <2>2, RedoBranch
<1>9. ASSUME NEW t \in Task, ResetDAGTask(t)
      PROVE  BranchInv' /\ WorkKept
  <2> DEFINE T == [u \in Task |->
          IF u = t
            THEN [run.tasks[t] EXCEPT !.status = "pending", !.ready = FALSE,
                                      !.worktree = FALSE, !.result = "none"]
          ELSE IF run.tasks[u].status = "blocked"
            THEN [run.tasks[u] EXCEPT !.status = "pending"]
          ELSE run.tasks[u]]
  <2>1. run' = [run EXCEPT !.tasks = T] /\ Redoable(t)
        /\ branch' = branch /\ active' = active
    BY <1>9 DEF ResetDAGTask
  <2>2. \A u \in Task :
          /\ T[u].review = run.tasks[u].review
          /\ run.tasks[u].status = "completed" => T[u] = run.tasks[u]
    BY <1>0, <2>1 DEF TaskRecord, Redoable, Unsuccessful
  <2> HIDE DEF T
  <2> QED
    BY <2>1, <2>2, RedoBranch
<1>10. ASSUME NEW t \in Task, NEW decision \in {"accepted", "rejected"},
              ReviewDAGTask(t, decision)
       PROVE  BranchInv' /\ WorkKept
  <2> DEFINE r == [run EXCEPT !.tasks[t].review = decision]
  <2>1. /\ active = "none" /\ active' = "none" /\ branch' = branch
        /\ run.tasks[t].status = "completed" /\ run.tasks[t].review # "merged"
        /\ run' = Reviewed(r)
    BY <1>10 DEF ReviewDAGTask, Inactive
  <2>2. /\ r.deps = run.deps /\ r.planned = run.planned /\ r.status = run.status
        /\ \A u \in Task : u # t => r.tasks[u].review = run.tasks[u].review
        /\ \A u \in Task : /\ r.tasks[u].status = run.tasks[u].status
                           /\ r.tasks[u].result = run.tasks[u].result
    BY <1>0 DEF Snapshot, TaskRecord
  <2>3. /\ Reviewed(r).deps = r.deps /\ Reviewed(r).tasks = r.tasks
        /\ Reviewed(r).planned = r.planned
        /\ Reviewed(r).status \in {r.status, "review", "completed"}
    BY <1>0 DEF Reviewed, ReviewStatus, Snapshot
  <2> HIDE DEF r
  <2>4. run.planned /\ run.status # "draft"
    BY <1>0, <2>1 DEF Fresh
  <2>5. Fresh(run') /\ Planned' /\ WorkKept
    BY <2>1, <2>2, <2>3, <2>4 DEF Fresh, Planned, WorkKept
  <2> QED
    BY <1>0, <2>1, <2>5, OutsideMerge
<1>11. ASSUME NEW t \in Task, UseDAGTaskProfile(t)
       PROVE  BranchInv' /\ WorkKept
  <2>1. UNCHANGED <<run, branch, active>> /\ active = "none"
    BY <1>11 DEF UseDAGTaskProfile, Inactive
  <2> QED
    BY <1>1, <2>1
<1> QED
  BY <1>2, <1>3, <1>4, <1>5, <1>6, <1>7, <1>8, <1>9, <1>10, <1>11 DEF User
------------------------------------------------------------------------------
(* A merge *)

(* While the branch stays, a merge has to keep the marks and its candidate. *)
LEMMA InsideMerge ==
  ASSUME BranchInv, MergeInv', branch' = branch,
         active = "merge", active' \in {"merge", "none"},
         disk' = disk \/ disk' = run',
         run'.deps = run.deps, run'.planned = run.planned, run'.status # "draft",
         Covered', CandidateInv'
  PROVE  BranchInv'
<1>1. Landed' = Landed
  BY DEF Landed
<1>2. Fresh(run') /\ Planned'
  BY DEF BranchInv, Planned, Fresh
<1>3. InOrder(run.deps, branch)'
  BY DEF InOrder, BranchInv
<1>4. CASE disk' = disk
  <2>1. MergesRecoverable'
    BY <1>1, <1>4 DEF BranchInv, MergesRecoverable, MergedCandidate
  <2>2. SavedDeps'
    BY <1>4 DEF BranchInv, SavedDeps
  <2>3. Fresh(run)' /\ Fresh(disk)'
    BY <1>2, <1>4 DEF BranchInv, Fresh
  <2> QED
    BY <1>2, <1>3, <2>1, <2>2, <2>3 DEF BranchInv
<1>5. CASE disk' = run'
  <2>1. MergesRecoverable'
    BY <1>5, SavedRecovers
  <2>2. SavedDeps'
    BY <1>5 DEF SavedDeps
  <2>3. Fresh(run)' /\ Fresh(disk)'
    BY <1>2, <1>5 DEF Fresh
  <2> QED
    BY <1>2, <1>3, <2>1, <2>2, <2>3 DEF BranchInv
<1> QED
  BY <1>4, <1>5

(* Only accepted results are selected, and the graph is saved with them. *)
LEMMA MergeBegins ==
  ASSUME IndInv, IndInv', BranchInv, MergeDAG, disk' = disk \/ disk' = run'
  PROVE  BranchInv' /\ WorkKept
<1>0. run \in Snapshot /\ MergeInv' /\ Fresh(run) /\ Planned
  BY DEF IndInv, TypeOK, BranchInv
<1>1. /\ active = "none" /\ branch' = branch
      /\ run' = [run EXCEPT !.status = "merging", !.mergeCommit = NoCommit,
                            !.mergeTasks = Selected]
      /\ \E t \in Task : run.tasks[t].review = "accepted"
  BY DEF MergeDAG, Inactive, Selected
<1>2. /\ run'.deps = run.deps /\ run'.tasks = run.tasks /\ run'.planned = run.planned
      /\ run'.status = "merging"
  BY <1>0, <1>1 DEF Snapshot
<1>3. run.planned
  BY <1>0, <1>1 DEF Fresh
<1>4. Fresh(run') /\ WorkKept
  BY <1>2, <1>3 DEF Fresh, WorkKept
<1>5. CASE active' = "merge"
  <2>1. disk' = run' /\ merge'.pc = "create" /\ merge'.selected = Selected
    BY <1>1, <1>5 DEF MergeDAG, Save, NoMerge
  <2>2. Landed' = Landed /\ Landed \subseteq Marked(run)
    BY <1>1 DEF Landed, BranchInv, Covered, Pending
  <2>3. Covered'
    BY <1>2, <2>2 DEF Covered, Marked
  <2>4. CandidateInv'
    BY <1>2, <2>1 DEF CandidateInv, Selected
  <2>5. MergesRecoverable' /\ SavedDeps' /\ Planned'
    BY <1>0, <1>2, <1>3, <1>5, <2>1, <2>3, <2>4, SavedRecovers DEF SavedDeps, Planned
  <2>6. InOrder(run.deps, branch)'
    BY <1>1, <1>2 DEF InOrder, BranchInv
  <2>7. Fresh(run)' /\ Fresh(disk)'
    BY <1>4, <2>1 DEF Fresh
  <2> QED
    BY <1>4, <2>3, <2>4, <2>5, <2>6, <2>7 DEF BranchInv
<1>6. CASE active' # "merge"
  <2>1. active' = "none"
    BY <1>1, <1>6 DEF MergeDAG, Begin
  <2>2. Planned'
    BY <2>1 DEF Planned
  <2> QED
    BY <1>0, <1>1, <1>2, <1>4, <2>1, <2>2, OutsideMerge
<1> QED
  BY <1>5, <1>6

(* The commits to pick: each once, each after those it depends on. *)
LEMMA PickOrdersSorted ==
  ASSUME NEW S \in SUBSET Task, NEW order \in PickOrders(S)
  PROVE  /\ order \in Seq(S)
         /\ \A i, j \in DOMAIN order :
              /\ order[i] = order[j] => i = j
              /\ order[i] \in AncestorsOf(order[j]) => i < j
<1> DEFINE P == {t \in S : run.tasks[t].result = "patch"}
<1>1. Cardinality(P) \in Nat
  BY TasksAssumption, FS_Subset, FS_CardinalityType
<1>2. order \in [1..Cardinality(P) -> P]
      /\ \A i, j \in 1..Cardinality(P) : i # j => order[i] # order[j]
  BY DEF PickOrders, SetToSeqs
<1>3. order \in Seq(S)
  BY <1>1, <1>2, SeqDef
<1> QED
  BY <1>2, <1>3 DEF PickOrders

(* The candidate is the branch, and above it the selected commits in order:
   none of them is there yet, and nothing there depends on one of them. *)
LEMMA CandidateInOrder ==
  ASSUME IndInv, BranchInv, Merging("integrate"),
         NEW order \in PickOrders(merge.selected)
  PROVE  /\ InOrder(run.deps, merge.tip \o order)
         /\ Contents(merge.tip \o order) \subseteq Landed \cup merge.selected
<1>0. /\ merge.selected \in SUBSET Task /\ merge.tip \in History
      /\ active = "merge" /\ merge.pc = "integrate" /\ ReviewClosed(run)
  BY DEF IndInv, TypeOK, Merge, Merging, Kept
<1>1. /\ order \in Seq(merge.selected)
      /\ \A i, j \in DOMAIN order :
           /\ order[i] = order[j] => i = j
           /\ order[i] \in Ancestors(run.deps, order[j]) => i < j
  BY <1>0, PickOrdersSorted DEF AncestorsOf
<1>2. /\ \A t \in merge.selected : run.tasks[t].review = "accepted"
      /\ Contents(merge.tip) \subseteq Landed
      /\ InOrder(run.deps, merge.tip)
  BY <1>0 DEF BranchInv, CandidateInv
<1>3. \A t \in Contents(merge.tip) : t \in Task /\ run.tasks[t].review = "merged"
  BY <1>0, <1>2 DEF BranchInv, Covered, Pending, Marked, Landed
<1>4. \A i \in DOMAIN order : order[i] \in merge.selected
  BY <1>1
<1>5. \A i \in DOMAIN order : order[i] \notin Contents(merge.tip)
  BY <1>2, <1>3, <1>4
<1>6. \A t \in Contents(merge.tip) :
        \A i \in DOMAIN order : order[i] \notin Ancestors(run.deps, t)
  BY <1>0, <1>2, <1>3, <1>4 DEF ReviewClosed
<1>7. order \in Seq(Task)
  BY <1>0, <1>1, SeqDef
<1>8. InOrder(run.deps, merge.tip \o order)
  BY <1>0, <1>1, <1>2, <1>5, <1>6, <1>7, PicksInOrder
<1>9. Contents(merge.tip \o order) \subseteq Contents(merge.tip) \cup merge.selected
  BY <1>0, <1>1, PicksContents
<1> QED
  BY <1>2, <1>8, <1>9

(* The branch moves to the candidate, which the saved run names. *)
LEMMA BranchMoves ==
  ASSUME IndInv, IndInv', BranchInv, FastForward
  PROVE  BranchInv'
<1>0. /\ merge \in Merge /\ merge.tip \in History /\ branch \in History
      /\ branch' \in History /\ MergeInv
  BY DEF IndInv, TypeOK, Merge
<1>1. /\ active = "merge" /\ merge.pc = "ff" /\ active' = "merge"
      /\ run' = run /\ disk' = disk
      /\ branch' \in {branch, merge.tip}
      /\ IsAncestor(branch, branch') /\ IsAncestor(merge.tip, branch')
  BY <1>0, PrefixReflexive DEF FastForward, Merging
<1>2. /\ merge'.pc \in {"merged", "failed"} /\ merge'.selected = merge.selected
  BY <1>0 DEF FastForward, Merge
<1>3. /\ run.status = "merging"
      /\ Contents(merge.tip) \subseteq Landed \cup merge.selected
      /\ InOrder(run.deps, merge.tip)
      /\ run.mergeCommit = merge.tip
      /\ disk.status = "merging" /\ disk.mergeCommit = merge.tip
      /\ disk.mergeTasks = merge.selected
  BY <1>1 DEF BranchInv, CandidateInv
<1>4. merge.tip # NoCommit
  BY <1>0, CommitAssumption DEF History, Commit
<1>5. MergedCandidate(run)' /\ MergedCandidate(disk)'
  BY <1>1, <1>3, <1>4 DEF MergedCandidate
<1>6. Landed' \subseteq Landed \cup merge.selected
  BY <1>1, <1>3 DEF Landed, Contents
<1>7. Pending' = merge.selected
  BY <1>1, <1>2, <1>5 DEF Pending
<1>8. Landed \subseteq Marked(run)
  BY <1>1 DEF BranchInv, Covered, Pending
<1>9. Covered'
  BY <1>1, <1>6, <1>7, <1>8 DEF Covered, Marked
<1>10. MergesRecoverable'
  <2> SUFFICES ASSUME NEW t \in Landed'
               PROVE  \/ disk'.tasks[t].review = "merged"
                      \/ /\ disk'.status = "merging" /\ MergedCandidate(disk)'
                         /\ t \in disk'.mergeTasks
    BY DEF MergesRecoverable
  <2>1. CASE t \in merge.selected
    BY <1>1, <1>3, <1>5, <2>1
  <2>2. CASE t \in Landed /\ t \notin merge.selected
    BY <1>1, <1>3, <2>2 DEF BranchInv, MergesRecoverable
  <2> QED
    BY <1>6, <2>1, <2>2
<1>11. InOrder(run.deps, branch)'
  BY <1>1, <1>3 DEF InOrder, BranchInv
<1>12. SavedDeps' /\ Fresh(run)' /\ Fresh(disk)' /\ Planned'
  BY <1>1 DEF BranchInv, SavedDeps, Fresh, Planned
<1>13. CandidateInv'
  BY <1>1, <1>2, <1>3 DEF CandidateInv
<1> QED
  BY <1>9, <1>10, <1>11, <1>12, <1>13 DEF BranchInv
(* Until the candidate is recorded, whatever fails leaves branch and marks as
   they were, and what is recorded is all that the branch may hold. *)
LEMMA MergeStepBranch ==
  ASSUME IndInv, IndInv', BranchInv, MergeStep, disk' = disk \/ disk' = run'
  PROVE  BranchInv' /\ WorkKept
<1>0. /\ run \in Snapshot /\ run.tasks \in [Task -> TaskRecord]
      /\ \A t \in Task : run.tasks[t] \in TaskRecord
      /\ merge \in Merge /\ merge.selected \in SUBSET Task /\ merge.tip \in History
      /\ branch \in History /\ MergeInv /\ MergeInv'
  BY SnapshotUpdates DEF IndInv, TypeOK, Merge
<1>1. active = "merge" /\ active' \in {"merge", "none"}
  BY DEF MergeStep, MergeCreate, MergeCreateFails, MergeIntegrate,
         MergeIntegrateFails, MergeCheckpoint, FastForward, FastForwardFails,
         RecordMerge, RecordMergeUnsaved, MergeFails, RemoveMergedTree,
         FinishMerge, Succeeded, Merging, mergeUnchanged, End
<1>2. /\ run.status = "merging" /\ merge.selected = run.mergeTasks
      /\ CandidateInv /\ Covered
  BY <1>0, <1>1 DEF BranchInv, CandidateInv, MergeInv
<1>3. merge.pc \notin {"merged", "failed"} => Landed \subseteq Marked(run)
  BY <1>2 DEF Covered, Pending
<1>4. ASSUME branch' = branch, run'.deps = run.deps, run'.planned = run.planned,
             run'.status # "draft",
             \A t \in Task : /\ run'.tasks[t].status = run.tasks[t].status
                             /\ run'.tasks[t].result = run.tasks[t].result
                             /\ run.tasks[t].review = "merged" =>
                                  run'.tasks[t].review = "merged",
             Landed \subseteq Marked(run'), CandidateInv'
      PROVE  BranchInv' /\ WorkKept
  <2>1. Landed' = Landed
    BY <1>4 DEF Landed
  <2>2. Covered'
    BY <1>4, <2>1 DEF Covered, Marked
  <2>3. WorkKept
    BY <1>4 DEF WorkKept
  <2> QED
    BY <1>0, <1>1, <1>4, <2>2, <2>3, InsideMerge
<1>5. ASSUME branch' = branch, run'.deps = run.deps, run'.planned = run.planned,
             run'.status # "draft", run'.tasks = run.tasks,
             Landed \subseteq Marked(run), CandidateInv'
      PROVE  BranchInv' /\ WorkKept
  BY <1>4, <1>5 DEF Marked
<1>6. CASE MergeCreate
  <2>1. /\ merge.pc = "create" /\ branch' = branch /\ active' = "merge"
        /\ run' = [run EXCEPT !.mergeWorktree = TRUE]
        /\ merge'.pc = "integrate" /\ merge'.tip = branch
        /\ merge'.selected = merge.selected
    BY <1>0, <1>6 DEF MergeCreate, Merging, mergeUnchanged, Merge
  <2>2. /\ run'.deps = run.deps /\ run'.planned = run.planned
        /\ run'.status = run.status /\ run'.tasks = run.tasks
    BY <1>0, <2>1 DEF Snapshot
  <2>3. CandidateInv'
    BY <1>1, <1>2, <2>1, <2>2 DEF CandidateInv, Contents, Landed, InOrder, BranchInv
  <2> QED
    BY <1>2, <1>3, <1>5, <2>1, <2>2, <2>3
<1>7. CASE MergeCreateFails \/ MergeIntegrateFails \/ FastForwardFails
  <2>1. /\ merge.pc \in {"create", "integrate", "ff"} /\ branch' = branch
        /\ merge'.pc = "failed"
        /\ run' = run \/ \E w \in BOOLEAN : run' = [run EXCEPT !.mergeWorktree = w]
    BY <1>0, <1>7 DEF MergeCreateFails, MergeIntegrateFails, FastForwardFails,
                      Merging, mergeUnchanged, Merge
  <2>2. /\ run'.deps = run.deps /\ run'.planned = run.planned
        /\ run'.status = run.status /\ run'.tasks = run.tasks
    BY <1>0, <2>1 DEF Snapshot
  <2>3. CandidateInv'
    BY <1>2, <2>1, <2>2 DEF CandidateInv
  <2> QED
    BY <1>2, <1>3, <1>5, <2>1, <2>2, <2>3
<1>8. CASE MergeIntegrate
  <2>1. PICK order \in PickOrders(merge.selected) :
          merge' = [merge EXCEPT !.pc = "checkpoint", !.tip = merge.tip \o order]
    BY <1>8 DEF MergeIntegrate
  <2>2. /\ merge.pc = "integrate" /\ branch' = branch /\ active' = active
        /\ run' = run
        /\ merge'.pc = "checkpoint" /\ merge'.tip = merge.tip \o order
        /\ merge'.selected = merge.selected
    BY <1>0, <1>8, <2>1 DEF MergeIntegrate, Merging, mergeUnchanged, Merge
  <2>3. /\ InOrder(run.deps, merge.tip \o order)
        /\ Contents(merge.tip \o order) \subseteq Landed \cup merge.selected
    BY <1>8, CandidateInOrder DEF MergeIntegrate
  <2>4. /\ InOrder(run.deps, merge.tip)'
        /\ Contents(merge.tip)' \subseteq Landed' \cup merge'.selected
    BY <2>2, <2>3 DEF Contents, Landed, InOrder
  <2>5. CandidateInv'
    BY <1>1, <1>2, <2>2, <2>4 DEF CandidateInv
  <2> QED
    BY <1>2, <1>3, <1>5, <2>2, <2>5
<1>9. CASE MergeCheckpoint
  <2>1. /\ merge.pc = "checkpoint" /\ branch' = branch /\ active' = active
        /\ run' = [run EXCEPT !.mergeCommit = merge.tip]
        /\ merge'.tip = merge.tip /\ merge'.selected = merge.selected
        /\ (merge'.pc = "ff" /\ disk' = run') \/ merge'.pc = "failed"
    BY <1>0, <1>9 DEF MergeCheckpoint, Merging, mergeUnchanged, Merge, Save
  <2>2. /\ run'.deps = run.deps /\ run'.planned = run.planned
        /\ run'.status = run.status /\ run'.tasks = run.tasks
        /\ run'.mergeCommit = merge.tip /\ run'.mergeTasks = run.mergeTasks
    BY <1>0, <2>1 DEF Snapshot
  <2>3. /\ InOrder(run.deps, merge.tip)
        /\ Contents(merge.tip) \subseteq Landed \cup merge.selected
        /\ \A t \in merge.selected : run.tasks[t].review = "accepted"
    BY <1>1, <1>2, <2>1 DEF CandidateInv
  <2>4. /\ InOrder(run.deps, merge.tip)'
        /\ Contents(merge.tip)' \subseteq Landed' \cup merge'.selected
    BY <2>1, <2>2, <2>3 DEF Contents, Landed, InOrder
  <2>5. CandidateInv'
    BY <1>1, <1>2, <2>1, <2>2, <2>3, <2>4 DEF CandidateInv
  <2> QED
    BY <1>2, <1>3, <1>5, <2>1, <2>2, <2>5
<1>10. CASE FastForward
  <2>1. WorkKept
    BY <1>10 DEF FastForward, WorkKept
  <2> QED
    BY <1>10, <2>1, BranchMoves
<1>11. CASE RecordMerge \/ RecordMergeUnsaved
  <2> DEFINE r == MarkMerged(run, merge.selected)
  <2>1. /\ r.deps = run.deps /\ r.planned = run.planned /\ r.status = run.status
        /\ \A t \in Task : /\ r.tasks[t].status = run.tasks[t].status
                           /\ r.tasks[t].result = run.tasks[t].result
                           /\ t \notin merge.selected =>
                                r.tasks[t].review = run.tasks[t].review
                           /\ t \in merge.selected => r.tasks[t].review = "merged"
        /\ [r EXCEPT !.status = "review"].deps = run.deps
        /\ [r EXCEPT !.status = "review"].planned = run.planned
        /\ [r EXCEPT !.status = "review"].tasks = r.tasks
        /\ [r EXCEPT !.status = "review"].status = "review"
    BY <1>0, MarkEffect DEF MarkMerged, Snapshot
  <2>2. /\ branch' = branch
        /\ \/ run' = r /\ merge'.pc = "cleanup"
           \/ run' = [r EXCEPT !.status = "review"] /\ active' = "none"
    BY <1>0, <1>11 DEF RecordMerge, RecordMergeUnsaved, mergeUnchanged, End, Merge
  <2> HIDE DEF r
  <2>3. /\ run'.deps = run.deps /\ run'.planned = run.planned
        /\ run'.status # "draft"
        /\ active' = "merge" => run'.status = "merging" /\ merge'.pc = "cleanup"
        /\ run'.tasks = r.tasks
    BY <1>2, <2>1, <2>2
  <2>4. Landed \subseteq Marked(run')
    BY <1>2, <2>1, <2>3 DEF Covered, Pending, Marked, Landed
  <2>5. CandidateInv'
    BY <2>3 DEF CandidateInv
  <2> QED
    BY <1>4, <2>1, <2>2, <2>3, <2>4, <2>5
<1>12. CASE MergeFails
  <2>1. /\ branch' = branch /\ active' = "none"
        /\ run' = [run EXCEPT !.status = "review"] /\ ~MergedCandidate(run)
    BY <1>12 DEF MergeFails, End
  <2>2. /\ run'.deps = run.deps /\ run'.planned = run.planned
        /\ run'.status = "review" /\ run'.tasks = run.tasks
    BY <1>0, <2>1 DEF Snapshot
  <2>3. Landed \subseteq Marked(run)
    BY <1>2, <2>1 DEF Covered, Pending
  <2>4. CandidateInv'
    BY <2>1 DEF CandidateInv
  <2> QED
    BY <1>5, <2>1, <2>2, <2>3, <2>4
<1>13. CASE RemoveMergedTree
  <2>1. /\ merge.pc = "cleanup" /\ merge' = merge /\ branch' = branch
        /\ \/ run' = [run EXCEPT !.mergeWorktree = FALSE]
           \/ \E t \in MergedTrees : run' = [run EXCEPT !.tasks[t].worktree = FALSE]
    BY <1>13 DEF RemoveMergedTree, Merging, mergeUnchanged
  <2>2. /\ run'.deps = run.deps /\ run'.planned = run.planned
        /\ run'.status = run.status
        /\ \A t \in Task : /\ run'.tasks[t].status = run.tasks[t].status
                           /\ run'.tasks[t].result = run.tasks[t].result
                           /\ run'.tasks[t].review = run.tasks[t].review
    BY <1>0, <2>1 DEF Snapshot, TaskRecord
  <2>3. CandidateInv' /\ Landed \subseteq Marked(run')
    BY <1>2, <1>3, <2>1, <2>2 DEF CandidateInv, Marked
  <2> QED
    BY <1>2, <1>4, <2>1, <2>2, <2>3
<1>14. CASE FinishMerge
  <2> DEFINE r == [run EXCEPT !.status = "review"]
  <2>1. /\ merge.pc = "cleanup" /\ branch' = branch /\ active' = "none"
        /\ run' = Reviewed(r)
    BY <1>14 DEF FinishMerge, Merging, End
  <2>2. /\ Reviewed(r).deps = run.deps /\ Reviewed(r).planned = run.planned
        /\ Reviewed(r).tasks = run.tasks /\ Reviewed(r).status # "draft"
    BY <1>0 DEF Reviewed, ReviewStatus, Snapshot
  <2> HIDE DEF r
  <2>3. CandidateInv'
    BY <2>1 DEF CandidateInv
  <2> QED
    BY <1>3, <1>5, <2>1, <2>2, <2>3
<1> QED
  BY <1>6, <1>7, <1>8, <1>9, <1>10, <1>11, <1>12, <1>13, <1>14 DEF MergeStep
------------------------------------------------------------------------------
(* Restarts, and commits from outside *)

(* A restart finds every mark the snapshot has or stands for. *)
LEMMA RestoredMarks ==
  ASSUME NEW r \in Snapshot, Restorable(r), Fresh(r)
  PROVE  LET q == Restored(r) IN
           /\ q.deps = r.deps /\ Fresh(q)
           /\ \A t \in Task :
                q.tasks[t].review = "merged" <=>
                  \/ r.tasks[t].review = "merged"
                  \/ r.status = "merging" /\ MergedCandidate(r) /\ t \in r.mergeTasks
<1> DEFINE q == Restored(r)
           m == [MarkMerged(r, r.mergeTasks) EXCEPT !.status = "review"]
<1>0. /\ r.mergeTasks \in SUBSET Task
      /\ \A t \in Task : r.tasks[t] \in TaskRecord
      /\ MarkMerged(r, r.mergeTasks) \in Snapshot
  BY RecordsTyped DEF Snapshot
<1>1. CASE r.status = "merging" /\ MergedCandidate(r)
  <2>1. /\ m.deps = r.deps /\ m.planned = r.planned /\ m.status = "review"
        /\ \A t \in Task : /\ m.tasks[t].status = r.tasks[t].status
                           /\ t \notin r.mergeTasks =>
                                m.tasks[t].review = r.tasks[t].review
                           /\ t \in r.mergeTasks => m.tasks[t].review = "merged"
    BY <1>0, MarkEffect DEF MarkMerged, Snapshot
  <2>2. q = Reviewed(m)
    BY <1>1 DEF Restored
  <2>3. /\ q.deps = m.deps /\ q.planned = m.planned /\ q.tasks = m.tasks
        /\ q.status # "draft"
    BY <1>0, <2>2 DEF Reviewed, ReviewStatus, Snapshot
  <2>4. \A t \in r.mergeTasks : r.tasks[t].review \in Accepted
    BY <1>1 DEF Restorable, Mergeable, MergeClosed, MergedCandidate
  <2> HIDE DEF q, m
  <2>5. ~r.planned => \A t \in Task : t \notin r.mergeTasks
    BY <2>4 DEF Fresh, Accepted
  <2>6. Fresh(q)
    BY <2>1, <2>3, <2>5 DEF Fresh
  <2> QED
    BY <1>1, <2>1, <2>3, <2>6 DEF q
<1>2. CASE /\ ~(r.status = "merging" /\ MergedCandidate(r))
           /\ r.status \in {"running", "planning", "merging"}
  <2>1. q = Interrupted(r)
    BY <1>2 DEF Restored
  <2>2. /\ q.deps = r.deps /\ q.planned = r.planned /\ q.status = "cancelled"
        /\ \A t \in Task :
             /\ q.tasks[t].review = r.tasks[t].review
             /\ r.tasks[t].status = "pending" => q.tasks[t].status = "pending"
    BY <1>0, <2>1 DEF Interrupted, Snapshot, TaskRecord
  <2> HIDE DEF q
  <2>3. Fresh(q)
    BY <2>2 DEF Fresh
  <2> QED
    BY <1>2, <2>2, <2>3 DEF q
<1>3. CASE r.status \notin {"running", "planning", "merging"}
  <2>1. q = r
    BY <1>3 DEF Restored
  <2> QED
    BY <1>3, <2>1
<1> QED
  BY <1>1, <1>2, <1>3

(* What has landed is marked again, in the graph it landed for. *)
LEMMA CrashBranch ==
  ASSUME IndInv, BranchInv, Crash
  PROVE  BranchInv'
<1>0. disk \in Snapshot /\ Restorable(disk) /\ Fresh(disk) /\ MergesRecoverable
  BY DEF IndInv, TypeOK, BranchInv
<1>1. /\ run' = Restored(disk) /\ active' = "none" /\ disk' = disk
      /\ branch' = branch /\ Landed' = Landed
  BY DEF Crash, End, Landed
<1>2. /\ run'.deps = disk.deps /\ Fresh(run')
      /\ \A t \in Task :
           run'.tasks[t].review = "merged" <=>
             \/ disk.tasks[t].review = "merged"
             \/ disk.status = "merging" /\ MergedCandidate(disk) /\ t \in disk.mergeTasks
  BY <1>0, <1>1, RestoredMarks
<1>3. Landed \subseteq Marked(run')
  BY <1>0, <1>2 DEF MergesRecoverable, Marked, Landed
<1>4. Covered'
  BY <1>1, <1>3 DEF Covered, Marked
<1>5. InOrder(run.deps, branch)'
  <2>1. CASE Landed = {}
    <3>1. \A i \in DOMAIN branch : branch[i] \notin Task
      BY <2>1 DEF Landed
    <3> QED
      BY <1>1, <3>1 DEF InOrder
  <2>2. CASE Landed # {}
    <3>1. run'.deps = run.deps
      BY <1>2, <2>2 DEF BranchInv, SavedDeps
    <3> QED
      BY <1>1, <3>1 DEF InOrder, BranchInv
  <2> QED
    BY <2>1, <2>2
<1>6. MergesRecoverable'
  BY <1>0, <1>1 DEF MergesRecoverable, MergedCandidate
<1>7. SavedDeps' /\ Planned' /\ CandidateInv'
  BY <1>1, <1>2 DEF SavedDeps, Planned, CandidateInv
<1>8. Fresh(run)' /\ Fresh(disk)'
  BY <1>0, <1>1, <1>2 DEF Fresh
<1> QED
  BY <1>4, <1>5, <1>6, <1>7, <1>8 DEF BranchInv

(* A commit of somebody else's is no task's, and takes no candidate away. *)
LEMMA CommitBranch ==
  ASSUME IndInv, BranchInv, CommitToBranch
  PROVE  BranchInv'
<1>0. /\ branch \in History /\ UserCommit \notin Task /\ UserCommit \in Commit
      /\ run \in Snapshot /\ disk \in Snapshot
      /\ branch' = Append(branch, UserCommit)
      /\ UNCHANGED <<run, disk, active, merge>>
  BY CommitAssumption DEF IndInv, TypeOK, CommitToBranch, Commit
<1>1. /\ Len(branch) \in Nat /\ DOMAIN branch = 1..Len(branch)
      /\ DOMAIN branch' = 1..(Len(branch) + 1)
      /\ \A i \in DOMAIN branch : branch'[i] = branch[i]
      /\ branch'[Len(branch) + 1] = UserCommit
  BY <1>0 DEF History
<1>2. \A i \in DOMAIN branch' : branch'[i] \in Task => i \in DOMAIN branch
  BY <1>0, <1>1
<1>3. Landed' = Landed
  BY <1>1, <1>2 DEF Landed
<1>4. \A d \in Task : d # UserCommit
  BY <1>0
<1>5. InOrder(run.deps, branch)'
  <2> SUFFICES ASSUME NEW i \in DOMAIN branch', NEW j \in DOMAIN branch',
                      branch'[i] \in Task
               PROVE  /\ branch'[i] = branch'[j] => i = j
                      /\ branch'[j] \in Ancestors(run.deps, branch'[i]) => j < i
    BY <1>0 DEF InOrder
  <2>1. i \in DOMAIN branch
    BY <1>2
  <2>2. CASE branch'[j] \notin Task
    BY <2>2 DEF Ancestors
  <2>3. CASE j \in DOMAIN branch
    BY <1>1, <2>1, <2>3 DEF BranchInv, InOrder
  <2> QED
    BY <1>2, <2>2, <2>3
<1>6. \A r \in {run, disk} : r.mergeCommit \in History \cup {NoCommit}
  BY <1>0 DEF Snapshot
<1>7. /\ MergedCandidate(run) => MergedCandidate(run)'
      /\ MergedCandidate(disk) => MergedCandidate(disk)'
  BY <1>0, <1>6, PrefixAppend DEF MergedCandidate
<1>8. Covered'
  BY <1>0, <1>3, <1>7 DEF BranchInv, Covered, Pending, Marked
<1>9. MergesRecoverable'
  BY <1>0, <1>3, <1>7 DEF BranchInv, MergesRecoverable
<1>10. SavedDeps' /\ Planned' /\ Fresh(run)' /\ Fresh(disk)'
  BY <1>0, <1>3 DEF BranchInv, SavedDeps, Planned, Fresh
<1>11. CandidateInv'
  BY <1>0, <1>3 DEF BranchInv, CandidateInv, InOrder, Contents
<1> QED
  BY <1>5, <1>8, <1>9, <1>10, <1>11 DEF BranchInv

------------------------------------------------------------------------------
(* The invariant, and what follows from it *)

(* At first there is nothing on the branch. *)
LEMMA InitBranch == Init => BranchInv
<1> SUFFICES ASSUME Init PROVE BranchInv
  OBVIOUS
<1>1. /\ ~run.planned /\ run.tasks = NewTasks /\ disk = run /\ active = "plan"
      /\ branch = <<>>
  BY DEF Init
<1>2. Landed = {} /\ InOrder(run.deps, branch)
  BY <1>1 DEF Landed, InOrder
<1>3. Fresh(run) /\ Planned
  BY <1>1 DEF Fresh, Planned, NewTasks, NewTask
<1> QED
  BY <1>1, <1>2, <1>3
     DEF BranchInv, Covered, MergesRecoverable, SavedDeps, CandidateInv

(* Every step keeps the branch in order; one that is no crash, the work. *)
LEMMA NextBranch ==
  ASSUME IndInv, BranchInv, [Next]_vars
  PROVE  BranchInv' /\ (~Crash => WorkKept)
<1>0. IndInv' /\ (disk' = disk \/ disk' = run')
  BY NextKeeps, Saved
<1>1. CASE UNCHANGED vars
  BY <1>1 DEF vars, BranchInv, InOrder, Covered, Pending, Landed, Marked, Fresh,
              Planned, SavedDeps, CandidateInv, Contents, MergesRecoverable,
              MergedCandidate, WorkKept
<1>2. CASE Planner
  BY <1>0, <1>2, PlannerBranch
<1>3. CASE Executor
  BY <1>0, <1>3, ExecutorBranch
<1>4. CASE MergeStep
  BY <1>0, <1>4, MergeStepBranch
<1>5. CASE User
  BY <1>0, <1>5, UserBranch, MergeBegins
<1>6. CASE RecordEvent
  <2>1. UNCHANGED <<run, branch, active>> /\ active # "merge"
    BY <1>6 DEF RecordEvent
  <2>2. Fresh(run') /\ Planned' /\ WorkKept /\ MergeInv'
    BY <1>0, <2>1 DEF BranchInv, Fresh, Planned, WorkKept, IndInv
  <2> QED
    BY <1>0, <2>1, <2>2, OutsideMerge
<1>7. CASE Crash
  BY <1>7, CrashBranch
<1>8. CASE CommitToBranch
  <2>1. WorkKept
    BY <1>8 DEF CommitToBranch, WorkKept
  <2> QED
    BY <1>8, <2>1, CommitBranch
<1> QED
  BY <1>1, <1>2, <1>3, <1>4, <1>5, <1>6, <1>7, <1>8 DEF Next

(* Both invariants hold of every behaviour. *)
THEOREM BranchInvariance == Spec => [](IndInv /\ BranchInv)
<1>1. Init => IndInv /\ BranchInv
  BY InitKeeps, InitBranch
<1>2. IndInv /\ BranchInv /\ [Next]_vars => (IndInv /\ BranchInv)'
  BY NextKeeps, NextBranch
<1> QED
  BY <1>1, <1>2, PTL DEF Spec

(* mergeDAG puts each task's commit on the target branch once, after those of
   the tasks it depends on, and only when the user accepted it. *)
THEOREM CommitsLandInOrder == Spec => []BranchInOrder
<1>1. ASSUME IndInv, BranchInv PROVE BranchInOrder
  <2>1. \A t \in Landed : run.tasks[t].review \in Accepted
    BY <1>1 DEF IndInv, MergeInv, MergeClosed, BranchInv, Covered, Pending, Marked,
                Accepted
  <2> QED
    BY <1>1, <2>1 DEF BranchInOrder, BranchInv, InOrder, AncestorsOf
<1> QED
  BY <1>1, BranchInvariance, PTL

(* Whatever save fails and whenever the process dies, what the branch holds is
   marked in the saved run, or named by it for the restart to mark. *)
THEOREM NoMergeForgotten == Spec => []MergesRecoverable
<1>1. BranchInv => MergesRecoverable
  BY DEF BranchInv
<1> QED
  BY <1>1, BranchInvariance, PTL

(* While the process lives no call, worker or retry takes a completed task's
   result from the tasks that were given it. *)
THEOREM CompletedWorkStays == Spec => CompletedWorkKept
<1> DEFINE Kept1 == ~Crash => \A t \in Task : run.tasks[t].status = "completed" =>
                      /\ run'.deps = run.deps
                      /\ run'.tasks[t].status = "completed"
                      /\ run'.tasks[t].result = run.tasks[t].result
<1>1. IndInv /\ BranchInv /\ [Next]_vars => [Kept1]_vars
  <2> SUFFICES ASSUME IndInv, BranchInv, [Next]_vars PROVE Kept1
    OBVIOUS
  <2>1. ~Crash => WorkKept
    BY NextBranch
  <2> QED
    BY <2>1 DEF WorkKept, Untouched
<1> QED
  BY <1>1, BranchInvariance, PTL DEF Spec, CompletedWorkKept

(* The context is read once more between the scan and the launch, and Cancel may
   come after that: then the task that was chosen is launched all the same, and
   shown as running.  After it executeDAG chooses no other, and no goroutine
   that waits to retry goes on, in the execution that was cancelled. *)
THEOREM CancelStopsWork == Spec => CancelStops
<1> DEFINE Held(t) == /\ loop' = t => loop = t
                      /\ job[t].pc = "idle" /\ loop # t => job'[t].pc = "idle"
                      /\ job[t].pc = "backoff" => job'[t].pc # "setup"
           Stopped == cancelled /\ cancelled' => \A t \in Task : Held(t)
<1>1. IndInv /\ [Next]_vars => [Stopped]_vars
  <2> SUFFICES ASSUME IndInv, [Next]_vars, cancelled, cancelled', NEW t \in Task
               PROVE  Held(t)
    OBVIOUS
  <2>0. t # "scan" /\ t # "wait"
    BY LoopAssumption
  <2>1. job \in [Task -> Job] /\ NoJobs[t].pc = "idle"
    BY DEF IndInv, TypeOK, NoJobs, Idle
  <2>2. ASSUME job' = job \/ job' = NoJobs, loop' \in {loop, "scan", "wait"}
        PROVE  Held(t)
    BY <2>0, <2>1, <2>2
  <2>3. ASSUME NEW u \in Task, NEW pc, pc # "setup", NEW x, Step(u, pc, x),
               job[u].pc # "idle", loop' = loop
        PROVE  Held(t)
    BY <2>1, <2>3 DEF Step, Job
  <2>4. ASSUME NEW u \in Task, TaskStep(u)
        PROVE  Held(t)
    <3>1. CASE BlockTask(u)
      BY <2>2, <3>1 DEF BlockTask
    <3>2. CASE LaunchTask(u)
      <4>1. job'[t].pc \in {job[t].pc, "setup"} /\ (u # t => job'[t] = job[t])
        BY <2>1, <3>2 DEF LaunchTask
      <4>2. loop = u /\ loop' = "scan"
        BY <3>2 DEF LaunchTask
      <4>3. job[t].pc = "backoff" => u # t
        BY <4>2 DEF IndInv, ExecutorInv, LoopInv, Running
      <4> QED
        BY <2>0, <4>1, <4>2, <4>3
    <3>3. CASE ReceiveResult(u)
      BY <2>0, <2>1, <3>3 DEF ReceiveResult, Idle
    <3>4. CASE SetUpFails(u) \/ IntegrateFails(u) \/ Complete(u) \/ ExecuteFails(u)
               \/ RetryCancelled(u)
      BY <2>3, <3>4 DEF SetUpFails, IntegrateFails, Complete, ExecuteFails,
                        RetryCancelled, Exit, jobUnchanged
    <3>5. CASE Integrate(u) \/ ScheduleRetry(u)
      BY <2>3, <3>5 DEF Integrate, ScheduleRetry, jobUnchanged
    <3>6. ~ChooseTask(u) /\ ~SetUp(u) /\ ~RetryNow(u)
      BY DEF ChooseTask, Launchable, SetUp, RetryNow
    <3> QED
      BY <2>4, <3>1, <3>2, <3>3, <3>4, <3>5, <3>6 DEF TaskStep
  <2>5. CASE ~\E u \in Task : TaskStep(u)
    BY <2>2, <2>5
       DEF Next, vars, Planner, PlanSucceeds, PlanFails, Executor, AwaitResult,
           FinishGraph, MergeStep, MergeCreate, MergeCreateFails, MergeIntegrate,
           MergeIntegrateFails, MergeCheckpoint, FastForward, FastForwardFails,
           RecordMerge, RecordMergeUnsaved, MergeFails, RemoveMergedTree,
           FinishMerge, mergeUnchanged, executorVars, User, RetryPlanning,
           UpdateDAG, UpdateRunConfig, ExecuteDAG, Cancel, MergeDAG, CleanupDAG,
           RetryDAGTask, ResetDAGTask, UseDAGTaskProfile, ReviewDAGTask,
           RecordEvent, Crash, CommitToBranch
  <2> QED
    BY <2>4, <2>5
<1> QED
  BY <1>1, Invariance, PTL DEF Spec, CancelStops

------------------------------------------------------------------------------
(* Marks survive a crash when every save succeeds *)

(* A mark in memory is one a restart finds or restores. *)
MarksSaved ==
  \A t \in Marked(run) :
    \/ disk.tasks[t].review = "merged"
    \/ disk.status = "merging" /\ MergedCandidate(disk) /\ t \in disk.mergeTasks

(* The branch only grows: a candidate it has it keeps. *)
LEMMA CandidateStays ==
  ASSUME TypeOK, [Next]_vars, NEW c \in History \cup {NoCommit}, c # NoCommit,
         IsAncestor(c, branch)
  PROVE  IsAncestor(c, branch')
<1>0. branch \in History /\ c \in History /\ merge.tip \in History
  BY DEF TypeOK, Merge
<1>1. CASE FastForward
  <2>1. \/ branch' = branch
        \/ IsAncestor(branch, merge.tip) /\ branch' = merge.tip
    BY <1>1 DEF FastForward
  <2>2. ASSUME IsAncestor(branch, merge.tip) PROVE IsAncestor(c, merge.tip)
    <3>1. /\ Len(c) \in Nat /\ Len(branch) \in Nat /\ Len(merge.tip) \in Nat
          /\ Len(c) <= Len(branch) /\ Len(branch) <= Len(merge.tip)
          /\ SubSeq(c, 1, Len(c)) = SubSeq(branch, 1, Len(c))
      BY <1>0, <2>2 DEF IsAncestor, IsPrefix, History
    <3>2. \A i \in 1..Len(c) : branch[i] = merge.tip[i]
      BY <1>0, <2>2, <3>1, PrefixPlaces DEF History
    <3>3. SubSeq(branch, 1, Len(c)) = SubSeq(merge.tip, 1, Len(c))
      BY <1>0, <3>1, <3>2 DEF History
    <3> QED
      BY <3>1, <3>3 DEF IsAncestor, IsPrefix
  <2> QED
    BY <2>1, <2>2
<1>2. CASE CommitToBranch
  BY <1>0, <1>2, PrefixAppend DEF CommitToBranch, Commit
<1>3. CASE ~FastForward /\ ~CommitToBranch
  <2>1. branch' = branch
    BY <1>3
       DEF Next, vars, Planner, PlanSucceeds, PlanFails, Executor, AwaitResult,
           FinishGraph, TaskStep, BlockTask, ChooseTask, LaunchTask, ReceiveResult, SetUp,
           SetUpFails, Integrate, IntegrateFails, Complete, ExecuteFails,
           ScheduleRetry, RetryNow, RetryCancelled, jobUnchanged,
           MergeStep, MergeCreate, MergeCreateFails, MergeIntegrate,
           MergeIntegrateFails, MergeCheckpoint, FastForwardFails,
           RecordMerge, RecordMergeUnsaved, MergeFails, RemoveMergedTree,
           FinishMerge, mergeUnchanged, User, RetryPlanning,
           UpdateDAG, UpdateRunConfig, ExecuteDAG, Cancel, MergeDAG, CleanupDAG,
           RetryDAGTask, ResetDAGTask, UseDAGTaskProfile, ReviewDAGTask,
           RecordEvent, Crash
  <2> QED
    BY <2>1
<1> QED
  BY <1>1, <1>2, <1>3

(* Where a save is never refused, a step that does not save brings no mark. *)
LEMMA MarksAreSaved ==
  ASSUME ~SavesMayFail, TypeOK, [Next]_vars, ~Crash
  PROVE  disk' = run' \/ (disk' = disk /\ Marked(run') \subseteq Marked(run))
<1>0. run \in Snapshot /\ \A t \in Task : run.tasks[t] \in TaskRecord
  BY DEF TypeOK, Snapshot
<1>1. CASE CleanupDAG
  <2>1. PICK S \in SUBSET Task :
          /\ run' = [run EXCEPT
               !.mergeWorktree = FALSE,
               !.tasks = [t \in Task |-> [run.tasks[t] EXCEPT
                            !.worktree = run.tasks[t].worktree /\ t \notin S]]]
          /\ disk' = run' \/ disk' = disk
    BY <1>1 DEF CleanupDAG, TrySave, Save, SaveFails
  <2>2. \A t \in Task : run'.tasks[t].review = run.tasks[t].review
    BY <1>0, <2>1 DEF Snapshot, TaskRecord
  <2> QED
    BY <2>1, <2>2 DEF Marked
<1>2. CASE MergeCreateFails
  <2>1. run'.tasks = run.tasks /\ disk' = disk
    BY <1>0, <1>2 DEF MergeCreateFails, Snapshot
  <2> QED
    BY <2>1 DEF Marked
<1>3. CASE ~CleanupDAG /\ ~MergeCreateFails
  <2>1. disk' = run' \/ (disk' = disk /\ run' = run)
    BY <1>3
       DEF Next, vars, Planner, PlanSucceeds, PlanFails, Executor, AwaitResult,
           FinishGraph, TaskStep, BlockTask, ChooseTask, LaunchTask, ReceiveResult, SetUp,
           SetUpFails, Integrate, IntegrateFails, Complete, ExecuteFails,
           ScheduleRetry, RetryNow, RetryCancelled, Publish, Exit,
           MergeStep, MergeCreate, MergeIntegrate, FastForward,
           MergeIntegrateFails, MergeCheckpoint, FastForwardFails,
           RecordMerge, RecordMergeUnsaved, MergeFails, RemoveMergedTree,
           FinishMerge, User, RetryPlanning,
           UpdateDAG, UpdateRunConfig, ExecuteDAG, Cancel, MergeDAG,
           RetryDAGTask, ResetDAGTask, UseDAGTaskProfile, ReviewDAGTask,
           RecordEvent, CommitToBranch, TrySave, Save, SaveFails
  <2> QED
    BY <2>1 DEF Marked
<1> QED
  BY <1>1, <1>2, <1>3

(* A step keeps the marks, and what of them is saved. *)
LEMMA MarksStay ==
  ASSUME ~SavesMayFail, IndInv, BranchInv, MarksSaved, [Next]_vars
  PROVE  MarksSaved' /\ Marked(run) \subseteq Marked(run')
<1>0. /\ TypeOK /\ disk \in Snapshot /\ Restorable(disk) /\ Fresh(disk)
  BY DEF IndInv, TypeOK, BranchInv
<1>1. MergedCandidate(disk) /\ disk' = disk => MergedCandidate(disk)'
  <2>1. disk.mergeCommit \in History \cup {NoCommit}
    BY <1>0 DEF Snapshot
  <2> QED
    BY <1>0, <2>1, CandidateStays DEF MergedCandidate
<1>2. CASE Crash
  <2>1. run' = Restored(disk) /\ disk' = disk
    BY <1>2 DEF Crash
  <2>2. \A t \in Task :
          run'.tasks[t].review = "merged" <=>
             \/ disk.tasks[t].review = "merged"
             \/ disk.status = "merging" /\ MergedCandidate(disk) /\ t \in disk.mergeTasks
    BY <1>0, <2>1, RestoredMarks
  <2> QED
    BY <1>1, <2>1, <2>2 DEF MarksSaved, Marked
<1>3. CASE ~Crash
  <2>1. Marked(run) \subseteq Marked(run')
    BY <1>3, NextBranch DEF WorkKept, Untouched, Marked
  <2>2. CASE disk' = run'
    BY <2>1, <2>2 DEF MarksSaved, Marked
  <2>3. CASE disk' = disk /\ Marked(run') \subseteq Marked(run)
    BY <1>1, <2>1, <2>3 DEF MarksSaved, Marked
  <2> QED
    BY <1>0, <1>3, <2>1, <2>2, <2>3, MarksAreSaved
<1> QED
  BY <1>2, <1>3

(* A result that is marked merged stays so, whatever is called and whenever the
   process dies, as long as the database takes every snapshot. *)
THEOREM MarksLast == ASSUME ~SavesMayFail PROVE Spec => MergedForever
<1> DEFINE Kept1 == \A t \in Task : run.tasks[t].review = "merged" =>
                                      run'.tasks[t].review = "merged"
<1>1. Init => MarksSaved
  <2> SUFFICES ASSUME Init PROVE Marked(run) = {}
    BY DEF MarksSaved
  <2> QED
    BY DEF Init, Marked, NewTasks, NewTask
<1>2. IndInv /\ BranchInv /\ MarksSaved /\ [Next]_vars => MarksSaved'
  BY MarksStay
<1>3. IndInv /\ BranchInv /\ MarksSaved /\ [Next]_vars => [Kept1]_vars
  BY MarksStay DEF Marked
<1> QED
  BY <1>1, <1>2, <1>3, BranchInvariance, PTL DEF Spec, MergedForever

------------------------------------------------------------------------------
(* A run keeps the promise of ReviewedGraph *)

Done(r) == {t \in Task : r.tasks[t].status = "completed"}
Chosen(r) == {t \in Task : r.tasks[t].review \in Accepted}
Patched(r, S) == {t \in S : r.tasks[t].result = "patch"}

Plans == Graphs \cup [Task -> {{}}]

(* A snapshot is behind the run in finished work, never in what the user said. *)
Behind ==
  /\ Done(disk) # {} => disk.deps = run.deps
  /\ \A t \in Done(disk) : /\ t \in Done(run)
                           /\ disk.tasks[t].result = run.tasks[t].result
  /\ Chosen(disk) = Chosen(run)

(* A change that is marked merged is in the branch, and so is one that is going
   to be: the candidate of a merge holds all the merge is to mark. *)
MarksLanded(r) == Patched(r, Marked(r)) \subseteq Landed
Filled(r) ==
  r.status = "merging" /\ r.mergeCommit # NoCommit =>
    Patched(r, r.mergeTasks) \subseteq Contents(r.mergeCommit)
CandidateFilled ==
  active = "merge" =>
    /\ merge.pc \in {"checkpoint", "ff"} =>
         /\ Patched(run, merge.selected) \subseteq Contents(merge.tip)
         /\ Contents(merge.tip) \subseteq Landed \cup Patched(run, merge.selected)
    /\ merge.pc = "merged" => MergedCandidate(run)

PromiseInv ==
  /\ run.deps \in Plans
  /\ disk.deps \in Plans
  /\ Behind
  /\ MarksLanded(run)
  /\ MarksLanded(disk)
  /\ Filled(run)
  /\ Filled(disk)
  /\ CandidateFilled

SameChosen ==
  \A t \in Task : run'.tasks[t].review \in Accepted <=> run.tasks[t].review \in Accepted
NoNewMarks ==
  \A t \in Task : run'.tasks[t].review = "merged" => run.tasks[t].review = "merged"

(* The two modules mean the same by a transitive dependency. *)
LEMMA PromiseAncestors ==
  \A D, t : Promise!Ancestors(D, t) = Ancestors(D, t)
BY DEF Promise!Ancestors, Promise!ClosedUnder, Ancestors, ClosedUnder

(* What the promise does not see. *)
LEMMA Stutters ==
  ASSUME run'.deps = run.deps, Landed' = Landed,
         \A t \in Task :
           /\ run'.tasks[t].status \in Working <=> run.tasks[t].status \in Working
           /\ run'.tasks[t].status = "completed" <=> run.tasks[t].status = "completed"
           /\ run.tasks[t].status = "completed" =>
                run'.tasks[t].result = run.tasks[t].result,
         SameChosen
  PROVE  UNCHANGED Promise!vars
BY DEF Promise!vars, SameChosen, Working

(* What a step of one process has to do for the promise's invariant: say who
   holds the mark of what, and save what it accepts. *)
LEMMA PromiseInvKept ==
  ASSUME IndInv, BranchInv, PromiseInv, WorkKept, Landed \subseteq Landed',
         disk' = run' \/ (disk' = disk /\ SameChosen),
         run'.deps \in Plans, MarksLanded(run)', Filled(run)', CandidateFilled'
  PROVE  PromiseInv'
<1>1. CASE disk' = run'
  <2>1. Behind'
    BY <1>1 DEF Behind, Done, Chosen
  <2>2. MarksLanded(disk)' /\ Filled(disk)'
    BY <1>1 DEF MarksLanded, Filled, Patched, Marked, Contents, Landed
  <2> QED
    BY <1>1, <2>1, <2>2 DEF PromiseInv
<1>2. CASE disk' = disk /\ SameChosen
  <2>1. Chosen(disk') = Chosen(run')
    BY <1>2 DEF PromiseInv, Behind, Chosen, SameChosen
  <2>2. \A t \in Done(disk') :
          /\ t \in Done(run') /\ disk'.tasks[t].result = run'.tasks[t].result
          /\ disk'.deps = run'.deps
    BY <1>2 DEF PromiseInv, Behind, Done, WorkKept, Untouched
  <2>3. Behind'
    BY <2>1, <2>2 DEF Behind, Done, Chosen
  <2>4. MarksLanded(disk)' /\ Filled(disk)'
    BY <1>2 DEF PromiseInv, MarksLanded, Filled, Patched, Marked, Contents
  <2> QED
    BY <1>2, <2>3, <2>4 DEF PromiseInv
<1> QED
  BY <1>1, <1>2

(* A step that marks nothing leaves the marks where they were. *)
LEMMA NoMarkLands ==
  ASSUME IndInv, PromiseInv, WorkKept, NoNewMarks, Landed \subseteq Landed'
  PROVE  MarksLanded(run)'
<1> SUFFICES ASSUME NEW t \in Task, run'.tasks[t].review = "merged",
                    run'.tasks[t].result = "patch"
             PROVE  t \in Landed'
  BY DEF MarksLanded, Patched, Marked
<1>1. run.tasks[t].review = "merged"
  BY DEF NoNewMarks
<1>2. run.tasks[t].status = "completed"
  BY <1>1 DEF IndInv, Kept, ReviewClosed
<1>3. run.tasks[t].result = "patch"
  BY <1>2 DEF WorkKept, Untouched
<1> QED
  BY <1>1, <1>3 DEF PromiseInv, MarksLanded, Patched, Marked

(* Outside a merge there is no candidate. *)
LEMMA NoCandidate ==
  ASSUME IndInv', active' # "merge"
  PROVE  Filled(run)' /\ CandidateFilled'
BY DEF IndInv, MergeInv, Filled, CandidateFilled

(* Outside a merge, a step that changes neither the graph nor the branch, and
   neither accepts nor marks anything, keeps the invariant. *)
LEMMA WorkStep ==
  ASSUME IndInv, IndInv', BranchInv, PromiseInv, WorkKept, SameChosen, NoNewMarks,
         active' # "merge", disk' = disk \/ disk' = run',
         run'.deps = run.deps, branch' = branch
  PROVE  PromiseInv'
<1>1. Landed' = Landed
  BY DEF Landed
<1>2. MarksLanded(run)'
  BY <1>1, NoMarkLands
<1>3. Filled(run)' /\ CandidateFilled'
  BY NoCandidate
<1>4. run'.deps \in Plans
  BY DEF PromiseInv
<1> QED
  BY <1>1, <1>2, <1>3, <1>4, PromiseInvKept

(* A step of which the promise sees nothing either. *)
LEMMA QuietWork ==
  ASSUME IndInv, IndInv', BranchInv, PromiseInv, WorkKept,
         active' # "merge", disk' = disk \/ disk' = run',
         run'.deps = run.deps, branch' = branch,
         \A t \in Task :
           /\ run'.tasks[t].status \in Working <=> run.tasks[t].status \in Working
           /\ run'.tasks[t].status = "completed" <=> run.tasks[t].status = "completed"
           /\ run.tasks[t].status = "completed" =>
                run'.tasks[t].result = run.tasks[t].result
           /\ run'.tasks[t].review = run.tasks[t].review
  PROVE  PromiseInv' /\ UNCHANGED Promise!vars
<1>1. SameChosen /\ NoNewMarks
  BY DEF SameChosen, NoNewMarks
<1>2. Landed' = Landed
  BY DEF Landed
<1> QED
  BY <1>1, <1>2, WorkStep, Stutters

(* A task starts on completed dependencies, and finishes or is given up. *)
LEMMA TaskStepPromised ==
  ASSUME IndInv, IndInv', BranchInv, PromiseInv, disk' = disk \/ disk' = run',
         NEW t \in Task, TaskStep(t)
  PROVE  PromiseInv' /\ [Promise!Next]_(Promise!vars)
<1>0. /\ TypeOK /\ ExecutorInv /\ LoopInv /\ ReviewClosed(run)
      /\ run.tasks \in [Task -> TaskRecord] /\ job \in [Task -> Job]
      /\ graph \in [Task -> TaskRecord]
  BY SnapshotUpdates DEF IndInv, Kept, TypeOK
<1>1. active = "graph" /\ active' = "graph"
  BY <1>0, TaskStepScope
<1>2. WorkKept /\ branch' = branch /\ Landed' = Landed
  BY TaskStepWork DEF Landed
<1>3. ASSUME NEW x, Publish(t, x), run.tasks[t].review = "none",
             x.review \notin Accepted
      PROVE  /\ PromiseInv' /\ SameChosen
             /\ run'.deps = run.deps /\ run'.tasks[t] = x
             /\ \A u \in Task \ {t} : run'.tasks[u] = run.tasks[u]
  <2>1. /\ run'.tasks[t] = x /\ run'.deps = run.deps
        /\ \A u \in Task \ {t} : run'.tasks[u] = run.tasks[u]
    BY <1>0, <1>3, PublishEffect
  <2>2. SameChosen /\ NoNewMarks
    BY <1>3, <2>1 DEF SameChosen, NoNewMarks, Accepted
  <2> QED
    BY <1>1, <1>2, <2>1, <2>2, WorkStep
<1>4. ASSUME NEW x, Publish(t, x), run.tasks[t].review = "none",
             x.review \notin Accepted,
             run.tasks[t].status # "completed", x.status # "completed",
             x.status \in Working <=> run.tasks[t].status \in Working
      PROVE  PromiseInv' /\ UNCHANGED Promise!vars
  <2>1. /\ PromiseInv' /\ SameChosen
        /\ run'.deps = run.deps /\ run'.tasks[t] = x
        /\ \A u \in Task \ {t} : run'.tasks[u] = run.tasks[u]
    BY <1>3, <1>4
  <2> QED
    BY <1>2, <1>4, <2>1, Stutters
<1>5. ASSUME run' = run PROVE PromiseInv' /\ UNCHANGED Promise!vars
  BY <1>1, <1>2, <1>5, QuietWork
<1>6. ASSUME Scanning(t) \/ loop = t
      PROVE  /\ t \in Task \ Running /\ graph[t] = run.tasks[t]
             /\ run.tasks[t].status = "pending" /\ run.tasks[t].review = "none"
             /\ \A d \in AncestorsOf(t) :
                  graph[d].status = "completed" => run.tasks[d].status = "completed"
  BY <1>0, <1>1, <1>6 DEF Scanning, ExecutorInv, LoopInv, ReviewClosed, AncestorsOf,
                          Ancestors
<1>7. ASSUME job[t].pc # "idle"
      PROVE  /\ run.tasks[t].status \in Working /\ run.tasks[t].review = "none"
             /\ run.tasks[t].status # "completed"
             /\ job[t].pc # "done" =>
                  job[t].task.status \in Working /\ job[t].task.review = "none"
             /\ job[t].pc = "done" =>
                  /\ job[t].task.status \notin Working
                  /\ job[t].task.review \notin Accepted
  BY <1>0, <1>7 DEF ExecutorInv, Running, JobInv, ReviewClosed, Working, Accepted, Job
<1>8. CASE BlockTask(t)
  <2>1. Scanning(t) /\ Publish(t, graph'[t])
    BY <1>8 DEF BlockTask
  <2>2. graph'[t].status = "blocked" /\ graph'[t].review = graph[t].review
    BY <1>0, <1>8 DEF BlockTask, TaskRecord
  <2> QED
    BY <1>4, <1>6, <2>1, <2>2 DEF Working, Accepted
<1>9. CASE LaunchTask(t)
  <2>1. loop = t /\ Publish(t, graph'[t])
    BY <1>9 DEF LaunchTask
  <2>2. graph'[t].status = "running" /\ graph'[t].review = graph[t].review
    BY <1>0, <1>9 DEF LaunchTask, TaskRecord
  <2>3. /\ PromiseInv' /\ SameChosen
        /\ run'.deps = run.deps /\ run'.tasks[t].status = "running"
        /\ \A u \in Task \ {t} : run'.tasks[u] = run.tasks[u]
    BY <1>3, <1>6, <2>1, <2>2 DEF Accepted
  <2>4. \A d \in Ancestors(run.deps, t) : d \in Task /\ run.tasks[d].status = "completed"
    BY <1>0, <1>6, <2>1 DEF LoopInv, AncestorsOf, Ancestors
  <2>5. Promise!Start(t)
    BY <1>2, <1>6, <2>1, <2>3, <2>4, PromiseAncestors DEF Promise!Start, SameChosen, Working
  <2> QED
    BY <2>3, <2>5 DEF Promise!Next
<1>10. CASE ReceiveResult(t)
  <2>1. Publish(t, job[t].task) /\ job[t].pc = "done"
    BY <1>10 DEF ReceiveResult
  <2>2. /\ PromiseInv' /\ SameChosen
        /\ run'.deps = run.deps /\ run'.tasks[t] = job[t].task
        /\ \A u \in Task \ {t} : run'.tasks[u] = run.tasks[u]
    BY <1>3, <1>7, <2>1
  <2>3. CASE run'.tasks[t].status = "completed"
    <3>1. Promise!Finish(t)
      BY <1>2, <1>7, <2>1, <2>2, <2>3 DEF Promise!Finish, SameChosen, Working
    <3> QED
      BY <2>2, <3>1 DEF Promise!Next
  <2>4. CASE run'.tasks[t].status # "completed"
    <3>1. Promise!GiveUp(t)
      BY <1>2, <1>7, <2>1, <2>2, <2>4 DEF Promise!GiveUp, SameChosen, Working
    <3> QED
      BY <2>2, <3>1 DEF Promise!Next
  <2> QED
    BY <2>3, <2>4
<1>11. CASE SetUp(t) \/ Integrate(t) \/ ScheduleRetry(t)
  <2>1. job[t].pc \in {"setup", "integrate", "execute"}
    BY <1>11 DEF SetUp, Integrate, ScheduleRetry
  <2>2. job[t].task \in TaskRecord /\ job[t].pc \notin {"idle", "done"}
    BY <1>0, <2>1 DEF Job
  <2>3. PICK x : /\ Publish(t, x)
                 /\ x.status \in {job[t].task.status, "retrying"}
                 /\ x.review = job[t].task.review
    <3>1. CASE SetUp(t)
      BY <2>2, <3>1 DEF SetUp, TaskRecord
    <3>2. CASE Integrate(t)
      <4> DEFINE y == IF job[t].task.ready THEN job[t].task
                      ELSE [job[t].task EXCEPT !.ready = TRUE, !.resolve = FALSE]
      <4>1. Publish(t, y)
        BY <3>2 DEF Integrate
      <4>2. y.status = job[t].task.status /\ y.review = job[t].task.review
        BY <2>2 DEF TaskRecord
      <4> QED
        BY <4>1, <4>2
    <3>3. CASE ScheduleRetry(t)
      <4>1. Publish(t, NextAttempt(job[t].task))
        BY <3>3 DEF ScheduleRetry
      <4>2. /\ NextAttempt(job[t].task).status = "retrying"
            /\ NextAttempt(job[t].task).review = job[t].task.review
        BY <2>2 DEF NextAttempt, Failed, TaskRecord
      <4> QED
        BY <4>1, <4>2
    <3> QED
      BY <1>11, <3>1, <3>2, <3>3
  <2> QED
    BY <1>4, <1>7, <2>2, <2>3 DEF Working, Accepted
<1>12. CASE ChooseTask(t) \/ SetUpFails(t) \/ IntegrateFails(t) \/ Complete(t)
            \/ ExecuteFails(t) \/ RetryNow(t) \/ RetryCancelled(t)
  BY <1>5, <1>12 DEF ChooseTask, SetUpFails, IntegrateFails, Complete, ExecuteFails,
                     RetryNow, RetryCancelled, Exit
<1> QED
  BY <1>8, <1>9, <1>10, <1>11, <1>12 DEF TaskStep

(* The executor starts and finishes tasks, and ends with none at work. *)
LEMMA ExecutorPromised ==
  ASSUME IndInv, IndInv', BranchInv, PromiseInv, WorkKept,
         disk' = disk \/ disk' = run', Executor
  PROVE  PromiseInv' /\ [Promise!Next]_(Promise!vars)
<1>0. run \in Snapshot
  BY DEF IndInv, TypeOK
<1>1. ASSUME NEW t \in Task, TaskStep(t)
      PROVE  PromiseInv' /\ [Promise!Next]_(Promise!vars)
  BY <1>1, TaskStepPromised
<1>2. CASE AwaitResult
  <2>1. UNCHANGED <<run, branch, active>> /\ active = "graph"
    BY <1>2 DEF AwaitResult, ScanEnded
  <2> QED
    BY <2>1, QuietWork
<1>3. CASE FinishGraph
  <2>1. active' = "none" /\ branch' = branch
        /\ \E s \in RunStatus : run' = [run EXCEPT !.status = s]
    BY <1>3 DEF FinishGraph, End, EndStatus, RunStatus
  <2>2. run'.deps = run.deps /\ run'.tasks = run.tasks
    BY <1>0, <2>1 DEF Snapshot
  <2> QED
    BY <2>1, <2>2, QuietWork
<1> QED
  BY <1>1, <1>2, <1>3 DEF Executor

(* A plan is drawn up, or edited, over tasks that are all as at first. *)
LEMMA PlanPromised ==
  ASSUME IndInv, IndInv', BranchInv, PromiseInv, WorkKept,
         disk' = disk \/ disk' = run', Untouched,
         run'.tasks = NewTasks, run'.deps \in Graphs,
         branch' = branch, active' # "merge"
  PROVE  PromiseInv' /\ Promise!Next
<1>1. \A t \in Task : run'.tasks[t].status = "pending" /\ run'.tasks[t].review = "none"
  BY DEF NewTasks, NewTask
<1>2. Landed' = Landed
  BY DEF Landed
<1>3. SameChosen /\ NoNewMarks
  BY <1>1 DEF SameChosen, NoNewMarks, Untouched, Accepted
<1>4. MarksLanded(run)'
  BY <1>1 DEF MarksLanded, Patched, Marked
<1>5. Filled(run)' /\ CandidateFilled'
  BY NoCandidate
<1>6. PromiseInv'
  BY <1>2, <1>3, <1>4, <1>5, PromiseInvKept DEF Plans
<1>7. Promise!Plan
  BY <1>1, <1>2 DEF Promise!Plan, Untouched, Accepted
<1> QED
  BY <1>6, <1>7 DEF Promise!Next

(* A planner ends with a plan, or with what there was. *)
LEMMA PlannerPromised ==
  ASSUME IndInv, IndInv', BranchInv, PromiseInv, WorkKept,
         disk' = disk \/ disk' = run', Planner
  PROVE  PromiseInv' /\ [Promise!Next]_(Promise!vars)
<1>0. run \in Snapshot
  BY DEF IndInv, TypeOK
<1>1. active = "plan" /\ active' = "none" /\ branch' = branch
  BY DEF Planner, PlanSucceeds, PlanFails, End
<1>2. CASE PlanSucceeds
  <2>1. Untouched
    BY <1>1 DEF BranchInv, Planned, Fresh, Untouched
  <2>2. run'.tasks = NewTasks /\ run'.deps \in Graphs
    BY <1>0, <1>2 DEF PlanSucceeds, Snapshot
  <2> QED
    BY <1>1, <2>1, <2>2, PlanPromised
<1>3. CASE PlanFails
  <2>1. run'.deps = run.deps /\ run'.tasks = run.tasks
    BY <1>0, <1>3 DEF PlanFails, Snapshot
  <2> QED
    BY <1>1, <2>1, QuietWork
<1> QED
  BY <1>2, <1>3 DEF Planner

(* The user accepts dependencies first, and takes back dependents first. *)
LEMMA ReviewPromised ==
  ASSUME IndInv, IndInv', BranchInv, PromiseInv, WorkKept,
         NEW t \in Task, NEW decision \in {"accepted", "rejected"},
         ReviewDAGTask(t, decision)
  PROVE  PromiseInv' /\ [Promise!Next]_(Promise!vars)
<1> DEFINE r == [run EXCEPT !.tasks[t].review = decision]
<1>0. /\ run \in Snapshot /\ ExecutorInv /\ \A u \in Task : run.tasks[u] \in TaskRecord
  BY DEF IndInv, TypeOK, Snapshot
<1>1. /\ active = "none" /\ active' = "none" /\ branch' = branch /\ disk' = run'
      /\ run.tasks[t].status = "completed" /\ run.tasks[t].review # "merged"
      /\ run' = Reviewed(r) /\ Decidable(t, decision)
  BY DEF ReviewDAGTask, Inactive, Save
<1>2. /\ r.deps = run.deps
      /\ r.tasks[t].review = decision
      /\ \A u \in Task : u # t => r.tasks[u].review = run.tasks[u].review
      /\ \A u \in Task : /\ r.tasks[u].status = run.tasks[u].status
                         /\ r.tasks[u].result = run.tasks[u].result
      /\ Reviewed(r).deps = r.deps /\ Reviewed(r).tasks = r.tasks
  BY <1>0 DEF Snapshot, TaskRecord, Reviewed
<1> HIDE DEF r
<1>3. /\ run'.deps = run.deps
      /\ run'.tasks[t].review = decision
      /\ \A u \in Task : u # t => run'.tasks[u].review = run.tasks[u].review
      /\ \A u \in Task : /\ run'.tasks[u].status = run.tasks[u].status
                         /\ run'.tasks[u].result = run.tasks[u].result
      /\ Landed' = Landed
  BY <1>1, <1>2 DEF Landed
<1>4. PromiseInv'
  <2>1. NoNewMarks
    BY <1>3 DEF NoNewMarks
  <2>2. MarksLanded(run)' /\ Filled(run)' /\ CandidateFilled'
    BY <1>1, <1>3, <2>1, NoMarkLands, NoCandidate
  <2> QED
    BY <1>1, <1>3, <2>2, PromiseInvKept DEF PromiseInv
<1>5. \A u \in Task : run.tasks[u].status \notin Working
  BY <1>0, <1>1 DEF ExecutorInv
<1>6. CASE decision = "accepted" /\ run.tasks[t].review \notin Accepted
  <2>1. \A d \in Ancestors(run.deps, t) : d \in Task /\ run.tasks[d].review \in Accepted
    BY <1>1, <1>6 DEF Decidable, AncestorsOf, Ancestors
  <2>2. Promise!Accept(t)
    BY <1>1, <1>3, <1>5, <1>6, <2>1, PromiseAncestors
       DEF Promise!Accept, Accepted, Working
  <2> QED
    BY <1>4, <2>2 DEF Promise!Next
<1>7. CASE decision = "rejected" /\ run.tasks[t].review \in Accepted
  <2>1. \A u \in Task : run.tasks[u].review \in Accepted => t \notin Ancestors(run.deps, u)
    BY <1>1, <1>7 DEF Decidable, AncestorsOf
  <2>2. t \notin Landed
    BY <1>1 DEF BranchInv, Covered, Pending, Marked
  <2>3. Promise!Reject(t)
    BY <1>1, <1>3, <1>5, <1>7, <2>1, <2>2, PromiseAncestors
       DEF Promise!Reject, Accepted, Working
  <2> QED
    BY <1>4, <2>3 DEF Promise!Next
<1>8. CASE decision \in Accepted <=> run.tasks[t].review \in Accepted
  <2>1. SameChosen
    BY <1>3, <1>8 DEF SameChosen
  <2> QED
    BY <1>3, <1>4, <2>1, Stutters
<1> QED
  BY <1>6, <1>7, <1>8 DEF Accepted

(* Everything else the user does outside a merge goes unseen. *)
LEMMA UserPromised ==
  ASSUME IndInv, IndInv', BranchInv, PromiseInv, WorkKept,
         disk' = disk \/ disk' = run', User, ~MergeDAG
  PROVE  PromiseInv' /\ [Promise!Next]_(Promise!vars)
<1>0. /\ run \in Snapshot /\ \A t \in Task : run.tasks[t] \in TaskRecord
  BY DEF IndInv, TypeOK, Snapshot
<1>1. CASE RetryPlanning \/ UpdateRunConfig \/ ExecuteDAG
  <2>1. /\ active' # "merge" /\ branch' = branch
        /\ run'.deps = run.deps /\ run'.tasks = run.tasks
    BY <1>0, <1>1 DEF RetryPlanning, UpdateRunConfig, ExecuteDAG, Begin, Inactive, Snapshot
  <2> QED
    BY <2>1, QuietWork
<1>2. CASE UpdateDAG
  <2>1. Untouched
    BY <1>2 DEF UpdateDAG, BranchInv, Fresh, Untouched
  <2>2. /\ active' # "merge" /\ branch' = branch
        /\ run'.tasks = NewTasks /\ run'.deps \in Graphs
    BY <1>0, <1>2 DEF UpdateDAG, Inactive, Snapshot
  <2> QED
    BY <2>1, <2>2, PlanPromised
<1>3. CASE Cancel
  <2>1. UNCHANGED <<run, disk, branch, active, merge>>
    BY <1>3 DEF Cancel
  <2>2. Landed' = Landed
    BY <2>1 DEF Landed
  <2>3. PromiseInv'
    BY <2>1, <2>2 DEF PromiseInv, Behind, MarksLanded, Filled, CandidateFilled, Patched,
                Marked, Contents, Done, Chosen, MergedCandidate
  <2>4. UNCHANGED Promise!vars
    BY <2>1, <2>2, Stutters DEF SameChosen
  <2> QED
    BY <2>3, <2>4
<1>4. CASE CleanupDAG
  <2>1. /\ active' # "merge" /\ branch' = branch
        /\ \E S \in SUBSET Task : run' = [run EXCEPT
               !.mergeWorktree = FALSE,
               !.tasks = [t \in Task |-> [run.tasks[t] EXCEPT
                            !.worktree = run.tasks[t].worktree /\ t \notin S]]]
    BY <1>4 DEF CleanupDAG, Inactive
  <2>2. /\ run'.deps = run.deps
        /\ \A t \in Task : /\ run'.tasks[t].status = run.tasks[t].status
                           /\ run'.tasks[t].result = run.tasks[t].result
                           /\ run'.tasks[t].review = run.tasks[t].review
    BY <1>0, <2>1 DEF Snapshot, TaskRecord
  <2> QED
    BY <2>1, <2>2, QuietWork
<1>5. ASSUME NEW t \in Task, NEW T, Redoable(t), run' = [run EXCEPT !.tasks = T],
             \A u \in Task :
               /\ T[u].review = run.tasks[u].review
               /\ \/ T[u] = run.tasks[u]
                  \/ run.tasks[u].status \in Unsuccessful /\ T[u].status = "pending",
             branch' = branch, active' = active
      PROVE  PromiseInv' /\ UNCHANGED Promise!vars
  <2>1. run'.deps = run.deps /\ run'.tasks = T /\ active' # "merge"
    BY <1>0, <1>5 DEF Snapshot, Redoable, Inactive
  <2>2. \A u \in Task :
          /\ T[u].status \in Working <=> run.tasks[u].status \in Working
          /\ T[u].status = "completed" <=> run.tasks[u].status = "completed"
          /\ run.tasks[u].status = "completed" => T[u].result = run.tasks[u].result
    BY <1>5 DEF Working, Unsuccessful
  <2> QED
    BY <1>5, <2>1, <2>2, QuietWork
<1>6. ASSUME NEW t \in Task, NEW resolve \in BOOLEAN, RetryDAGTask(t, resolve)
      PROVE  PromiseInv' /\ UNCHANGED Promise!vars
  <2> DEFINE T == [u \in Task |->
          IF u = t
            THEN [run.tasks[t] EXCEPT !.status = "pending", !.resolve = resolve]
          ELSE IF run.tasks[u].status = "blocked" /\ t \in AncestorsOf(u)
            THEN [run.tasks[u] EXCEPT !.status = "pending"]
          ELSE run.tasks[u]]
  <2>1. run' = [run EXCEPT !.tasks = T] /\ Redoable(t)
        /\ branch' = branch /\ active' = active
    BY <1>6 DEF RetryDAGTask
  <2>2. \A u \in Task :
          /\ T[u].review = run.tasks[u].review
          /\ \/ T[u] = run.tasks[u]
             \/ run.tasks[u].status \in Unsuccessful /\ T[u].status = "pending"
    BY <1>0, <2>1 DEF TaskRecord, Redoable, Unsuccessful
  <2> HIDE DEF T
  <2> QED
    BY <1>5, <2>1, <2>2
<1>7. ASSUME NEW t \in Task, ResetDAGTask(t)
      PROVE  PromiseInv' /\ UNCHANGED Promise!vars
  <2> DEFINE T == [u \in Task |->
          IF u = t
            THEN [run.tasks[t] EXCEPT !.status = "pending", !.ready = FALSE,
                                      !.worktree = FALSE, !.result = "none"]
          ELSE IF run.tasks[u].status = "blocked"
            THEN [run.tasks[u] EXCEPT !.status = "pending"]
          ELSE run.tasks[u]]
  <2>1. run' = [run EXCEPT !.tasks = T] /\ Redoable(t)
        /\ branch' = branch /\ active' = active
    BY <1>7 DEF ResetDAGTask
  <2>2. \A u \in Task :
          /\ T[u].review = run.tasks[u].review
          /\ \/ T[u] = run.tasks[u]
             \/ run.tasks[u].status \in Unsuccessful /\ T[u].status = "pending"
    BY <1>0, <2>1 DEF TaskRecord, Redoable, Unsuccessful
  <2> HIDE DEF T
  <2> QED
    BY <1>5, <2>1, <2>2
<1>8. ASSUME NEW t \in Task, UseDAGTaskProfile(t)
      PROVE  PromiseInv' /\ UNCHANGED Promise!vars
  <2>1. UNCHANGED <<run, branch, active>> /\ active # "merge"
    BY <1>8 DEF UseDAGTaskProfile, Inactive
  <2> QED
    BY <2>1, QuietWork
<1> QED
  BY <1>1, <1>2, <1>3, <1>4, <1>6, <1>7, <1>8, ReviewPromised DEF User

------------------------------------------------------------------------------
(* The promise and a merge *)

(* Inside a merge, what is accepted and finished stays as it is; the marks and
   the candidate are what there is to look at. *)
LEMMA MergeWork ==
  ASSUME IndInv, BranchInv, PromiseInv, WorkKept,
         disk' = disk \/ disk' = run', branch' = branch,
         run'.deps = run.deps, SameChosen,
         \A t \in Task : /\ run'.tasks[t].status = run.tasks[t].status
                         /\ run'.tasks[t].result = run.tasks[t].result,
         MarksLanded(run'), Filled(run'), CandidateFilled'
  PROVE  PromiseInv' /\ UNCHANGED Promise!vars
<1>1. Landed' = Landed
  BY DEF Landed
<1>2. MarksLanded(run)' /\ Filled(run)'
  BY <1>1 DEF MarksLanded, Filled, Patched, Marked, Contents
<1>3. run'.deps \in Plans
  BY DEF PromiseInv
<1> QED
  BY <1>1, <1>2, <1>3, PromiseInvKept, Stutters

(* The merge begins with no candidate. *)
LEMMA MergeBeginsPromised ==
  ASSUME IndInv, BranchInv, PromiseInv, WorkKept,
         disk' = disk \/ disk' = run', MergeDAG
  PROVE  PromiseInv' /\ UNCHANGED Promise!vars
<1>1. /\ run'.deps = run.deps /\ run'.tasks = run.tasks /\ run'.mergeCommit = NoCommit
      /\ branch' = branch
  BY DEF MergeDAG, IndInv, TypeOK, Snapshot
<1>2. active' = "merge" => merge'.pc = "create"
  BY DEF MergeDAG, Inactive, NoMerge
<1>3. SameChosen /\ MarksLanded(run') /\ Filled(run') /\ CandidateFilled'
  BY <1>1, <1>2
     DEF SameChosen, MarksLanded, Patched, Marked, Filled, CandidateFilled, PromiseInv
<1> QED
  BY <1>1, <1>3, MergeWork

(* Every selected change is picked: the order leaves none out. *)
LEMMA PickOrdersComplete ==
  ASSUME NEW S \in SUBSET Task, NEW order \in PickOrders(S)
  PROVE  /\ order \in Seq(Patched(run, S))
         /\ \A t \in Patched(run, S) : \E i \in DOMAIN order : order[i] = t
<1> DEFINE P == Patched(run, S)
           n == Cardinality(P)
<1>1. IsFiniteSet(P) /\ n \in Nat
  BY TasksAssumption, FS_Subset, FS_CardinalityType DEF Patched
<1>2. /\ order \in [1..n -> P]
      /\ \A i, j \in 1..n : i # j => order[i] # order[j]
  BY DEF PickOrders, SetToSeqs, Patched
<1>3. order \in Seq(P)
  BY <1>1, <1>2, SeqDef
<1>4. ASSUME NEW t \in P, \A i \in 1..n : order[i] # t PROVE FALSE
  <2>1. IsFiniteSet(P \ {t}) /\ Cardinality(P \ {t}) = n - 1
    BY <1>1, <1>4, FS_RemoveElement
  <2>2. IsFiniteSet(1..n) /\ Cardinality(1..n) = n
    BY <1>1, FS_Interval
  <2>3. order \in [1..n -> P \ {t}]
    BY <1>2, <1>4
  <2>4. \E x, y \in 1..n : x # y /\ order[x] = order[y]
    <3> HIDE DEF P, n
    <3>1. Cardinality(P \ {t}) < Cardinality(1..n)
      BY <1>1, <2>1, <2>2
    <3> QED
      BY <2>1, <2>2, <2>3, <3>1, FS_PigeonHole
  <2> QED
    BY <1>2, <2>4
<1>5. DOMAIN order = 1..n
  BY <1>2
<1> HIDE DEF n
<1> QED
  BY <1>3, <1>4, <1>5

(* A candidate holds what is below it and what is picked on it. *)
LEMMA PicksAll ==
  ASSUME NEW h \in History, NEW S \in SUBSET Task, NEW order \in Seq(S)
  PROVE  /\ Contents(h) \subseteq Contents(h \o order)
         /\ \A i \in DOMAIN order : order[i] \in Contents(h \o order)
<1> DEFINE q == h \o order
<1>1. /\ Len(h) \in Nat /\ Len(order) \in Nat
      /\ DOMAIN h = 1..Len(h) /\ DOMAIN order = 1..Len(order)
      /\ DOMAIN q = 1..(Len(h) + Len(order))
  BY DEF History
<1>2. /\ \A i \in DOMAIN h : i \in DOMAIN q /\ q[i] = h[i]
      /\ \A i \in DOMAIN order :
           /\ i + Len(h) \in DOMAIN q /\ q[i + Len(h)] = order[i]
           /\ order[i] \in Task
  BY <1>1 DEF History
<1> HIDE DEF q
<1> QED
  BY <1>2 DEF Contents, q

(* What a candidate holds has landed once the branch has the candidate. *)
LEMMA CandidateLands ==
  ASSUME NEW h \in History, NEW c \in History, IsAncestor(c, h)
  PROVE  Contents(c) \subseteq Contents(h)
BY PrefixPlaces DEF Contents

(* The branch receives accepted changes, with all they depend on. *)
LEMMA BranchMovesPromised ==
  ASSUME IndInv, BranchInv, PromiseInv, WorkKept, FastForward
  PROVE  PromiseInv' /\ [Promise!Next]_(Promise!vars)
<1>0. /\ merge \in Merge /\ merge.tip \in History /\ branch \in History
      /\ merge.selected \in SUBSET Task
      /\ branch' \in {branch, merge.tip} /\ branch' \in History
      /\ ExecutorInv /\ MergeInv /\ ReviewClosed(run)
  BY DEF IndInv, TypeOK, Merge, FastForward, Kept
<1>1. /\ active = "merge" /\ merge.pc = "ff" /\ active' = "merge"
      /\ run' = run /\ disk' = disk
      /\ IsAncestor(branch, branch') /\ IsAncestor(merge.tip, branch')
      /\ merge'.pc \in {"merged", "failed"}
  BY <1>0, PrefixReflexive DEF FastForward, Merging, Merge
<1>2. /\ run.mergeCommit = merge.tip /\ merge.tip # NoCommit
      /\ merge.selected = run.mergeTasks /\ MergeClosed(run, merge.selected)
      /\ Patched(run, merge.selected) \subseteq Contents(merge.tip)
      /\ Contents(merge.tip) \subseteq Landed \cup Patched(run, merge.selected)
  BY <1>0, <1>1, CommitAssumption
     DEF BranchInv, CandidateInv, PromiseInv, CandidateFilled, MergeInv, History, Commit
<1>3. Landed = Contents(branch) /\ Landed' = Contents(branch')
  BY DEF Landed, Contents
<1>4. /\ Landed \subseteq Landed' /\ Contents(merge.tip) \subseteq Landed'
      /\ Landed' \subseteq Landed \cup Patched(run, merge.selected)
  BY <1>0, <1>1, <1>2, <1>3, CandidateLands
<1>5. PromiseInv'
  <2>1. SameChosen /\ NoNewMarks /\ run'.deps \in Plans
    BY <1>1 DEF SameChosen, NoNewMarks, PromiseInv
  <2>2. MarksLanded(run)'
    BY <1>4, <2>1, NoMarkLands
  <2>3. Filled(run)'
    BY <1>1 DEF PromiseInv, Filled, Patched, Contents
  <2>4. CandidateFilled'
    BY <1>1, <1>2 DEF CandidateFilled, MergedCandidate
  <2> QED
    BY <1>1, <1>4, <2>1, <2>2, <2>3, <2>4, PromiseInvKept
<1>6. Promise!Land(Landed' \ Landed)
  <2> DEFINE S == Landed' \ Landed
  <2>1. \A t \in Task : run.tasks[t].status \notin Working
    BY <1>0, <1>1 DEF ExecutorInv
  <2>2. \A t \in S : /\ t \in merge.selected /\ run.tasks[t].result = "patch"
                     /\ run.tasks[t].review \in Accepted
                     /\ run.tasks[t].status = "completed"
    BY <1>0, <1>2, <1>4 DEF Patched, MergeClosed, ReviewClosed, Accepted
  <2>3. ASSUME NEW t \in S, NEW d \in Ancestors(run.deps, t),
               run.tasks[d].result = "patch"
        PROVE  d \in Landed'
    <3>1. d \in Task /\ (run.tasks[d].review = "merged" \/ d \in merge.selected)
      BY <1>2, <2>2, <2>3 DEF MergeClosed, Ancestors
    <3>2. CASE run.tasks[d].review = "merged"
      BY <1>4, <2>3, <3>1, <3>2 DEF PromiseInv, MarksLanded, Patched, Marked
    <3>3. CASE d \in merge.selected
      BY <1>2, <1>4, <2>3, <3>3 DEF Patched
    <3> QED
      BY <3>1, <3>2, <3>3
  <2>4. Landed' = Landed \cup S /\ S \subseteq Task
    BY <1>3, <1>4 DEF Contents
  <2> HIDE DEF S
  <2>5. Promise!Land(S)
    BY <1>1, <2>1, <2>2, <2>3, <2>4, PromiseAncestors DEF Promise!Land, Working, S
  <2> QED
    BY <2>5 DEF S
<1>7. Landed' \ Landed \in SUBSET Task
  BY <1>3 DEF Contents
<1> QED
  BY <1>5, <1>6, <1>7 DEF Promise!Next

(* A merge moves the branch once, and marks only what is there. *)
LEMMA MergeStepPromised ==
  ASSUME IndInv, IndInv', BranchInv, PromiseInv, WorkKept,
         disk' = disk \/ disk' = run', MergeStep
  PROVE  PromiseInv' /\ [Promise!Next]_(Promise!vars)
<1>0. /\ run \in Snapshot /\ run.tasks \in [Task -> TaskRecord]
      /\ \A t \in Task : run.tasks[t] \in TaskRecord
      /\ merge \in Merge /\ merge.selected \in SUBSET Task /\ merge.tip \in History
      /\ branch \in History /\ MergeInv /\ MergeInv'
      /\ run.mergeCommit \in History \cup {NoCommit}
      /\ MarksLanded(run) /\ Filled(run) /\ CandidateFilled
  BY SnapshotUpdates DEF IndInv, TypeOK, Merge, Snapshot, PromiseInv
<1>1. active = "merge" /\ active' \in {"merge", "none"}
  BY DEF MergeStep, MergeCreate, MergeCreateFails, MergeIntegrate,
         MergeIntegrateFails, MergeCheckpoint, FastForward, FastForwardFails,
         RecordMerge, RecordMergeUnsaved, MergeFails, RemoveMergedTree,
         FinishMerge, Succeeded, Merging, mergeUnchanged, End
<1>2. run.status = "merging" /\ merge.selected = run.mergeTasks
  BY <1>0, <1>1 DEF BranchInv, CandidateInv, MergeInv
<1>3. ASSUME branch' = branch, run'.deps = run.deps,
             \A t \in Task : /\ run'.tasks[t].status = run.tasks[t].status
                             /\ run'.tasks[t].result = run.tasks[t].result
                             /\ run'.tasks[t].review = run.tasks[t].review,
             Filled(run'), CandidateFilled'
      PROVE  PromiseInv' /\ UNCHANGED Promise!vars
  <2>1. SameChosen /\ MarksLanded(run')
    BY <1>0, <1>3 DEF SameChosen, MarksLanded, Patched, Marked
  <2> QED
    BY <1>3, <2>1, MergeWork
<1>4. ASSUME run'.mergeCommit = run.mergeCommit, run'.mergeTasks = run.mergeTasks,
             \A t \in Task : run'.tasks[t].result = run.tasks[t].result
      PROVE  Filled(run')
  <2>1. Patched(run', run.mergeTasks) = Patched(run, run.mergeTasks)
    BY <1>0, <1>2, <1>4 DEF Patched
  <2> QED
    BY <1>0, <1>2, <1>4, <2>1 DEF Filled
<1>5. ASSUME active' = "none" \/ merge'.pc \notin {"checkpoint", "ff", "merged"}
      PROVE  CandidateFilled'
  BY <1>5 DEF CandidateFilled
<1>6. CASE MergeCreate \/ MergeCreateFails
  <2>1. /\ branch' = branch /\ merge'.pc \in {"integrate", "failed"}
        /\ \E w \in BOOLEAN : run' = [run EXCEPT !.mergeWorktree = w]
    BY <1>0, <1>6 DEF MergeCreate, MergeCreateFails, mergeUnchanged, Merge
  <2>2. /\ run'.deps = run.deps /\ run'.tasks = run.tasks
        /\ run'.mergeCommit = run.mergeCommit /\ run'.mergeTasks = run.mergeTasks
    BY <1>0, <2>1 DEF Snapshot
  <2> QED
    BY <1>3, <1>4, <1>5, <2>1, <2>2
<1>7. CASE MergeIntegrateFails \/ FastForwardFails
  <2>1. branch' = branch /\ merge'.pc = "failed" /\ run' = run
    BY <1>0, <1>7 DEF MergeIntegrateFails, FastForwardFails, mergeUnchanged, Merge
  <2> QED
    BY <1>3, <1>4, <1>5, <2>1
<1>8. CASE MergeIntegrate
  <2>1. PICK order \in PickOrders(merge.selected) :
          merge' = [merge EXCEPT !.pc = "checkpoint", !.tip = merge.tip \o order]
    BY <1>8 DEF MergeIntegrate
  <2>2. /\ branch' = branch /\ run' = run /\ merge.pc = "integrate"
        /\ merge'.pc = "checkpoint" /\ merge'.tip = merge.tip \o order
        /\ merge'.selected = merge.selected
    BY <1>0, <1>8, <2>1 DEF MergeIntegrate, Merging, mergeUnchanged, Merge
  <2>3. /\ order \in Seq(Patched(run, merge.selected))
        /\ \A t \in Patched(run, merge.selected) : \E i \in DOMAIN order : order[i] = t
        /\ Patched(run, merge.selected) \in SUBSET Task
    BY <1>0, PickOrdersComplete DEF Patched
  <2>4. Patched(run, merge.selected) \subseteq Contents(merge.tip \o order)
    BY <1>0, <2>3, PicksAll
  <2>5. Contents(merge.tip \o order) \subseteq Contents(merge.tip) \cup Patched(run, merge.selected)
    BY <1>0, <2>3, PicksContents
  <2>6. Contents(merge.tip) \subseteq Landed
    BY <1>1, <2>2 DEF BranchInv, CandidateInv
  <2>7. /\ Contents(merge.tip)' = Contents(merge.tip \o order)
        /\ Patched(run, merge.selected)' = Patched(run, merge.selected)
        /\ Landed' = Landed
    BY <2>2 DEF Contents, Patched, Landed
  <2>8. CandidateFilled'
    BY <2>2, <2>4, <2>5, <2>6, <2>7 DEF CandidateFilled
  <2> QED
    BY <1>3, <1>4, <2>2, <2>8
<1>9. CASE MergeCheckpoint
  <2>1. /\ merge.pc = "checkpoint" /\ branch' = branch
        /\ run' = [run EXCEPT !.mergeCommit = merge.tip]
        /\ merge'.tip = merge.tip /\ merge'.selected = merge.selected
        /\ merge'.pc \in {"ff", "failed"}
    BY <1>0, <1>9 DEF MergeCheckpoint, Merging, mergeUnchanged, Merge
  <2>2. /\ run'.deps = run.deps /\ run'.tasks = run.tasks
        /\ run'.mergeCommit = merge.tip /\ run'.mergeTasks = run.mergeTasks
    BY <1>0, <2>1 DEF Snapshot
  <2>3. /\ Patched(run, merge.selected) \subseteq Contents(merge.tip)
        /\ Contents(merge.tip) \subseteq Landed \cup Patched(run, merge.selected)
    BY <1>0, <1>1, <2>1 DEF CandidateFilled
  <2>4. /\ Contents(merge.tip)' = Contents(merge.tip)
        /\ Patched(run, merge.selected)' = Patched(run, merge.selected)
        /\ Patched(run', run'.mergeTasks) = Patched(run, merge.selected)
        /\ Landed' = Landed
    BY <1>2, <2>1, <2>2 DEF Contents, Patched, Landed
  <2>5. CandidateFilled'
    BY <2>1, <2>3, <2>4 DEF CandidateFilled
  <2>6. Filled(run')
    BY <2>2, <2>3, <2>4 DEF Filled
  <2> QED
    BY <1>3, <2>1, <2>2, <2>5, <2>6
<1>10. CASE FastForward
  BY <1>10, BranchMovesPromised
<1>11. CASE RecordMerge \/ RecordMergeUnsaved
  <2> DEFINE r == MarkMerged(run, merge.selected)
  <2>1. /\ r.deps = run.deps
        /\ r.mergeTasks = run.mergeTasks /\ r.mergeCommit = run.mergeCommit
        /\ \A t \in Task : /\ r.tasks[t].status = run.tasks[t].status
                           /\ r.tasks[t].result = run.tasks[t].result
                           /\ t \notin merge.selected =>
                                r.tasks[t].review = run.tasks[t].review
                           /\ t \in merge.selected => r.tasks[t].review = "merged"
        /\ [r EXCEPT !.status = "review"].deps = run.deps
        /\ [r EXCEPT !.status = "review"].tasks = r.tasks
        /\ [r EXCEPT !.status = "review"].mergeTasks = run.mergeTasks
        /\ [r EXCEPT !.status = "review"].mergeCommit = run.mergeCommit
    BY <1>0, MarkEffect DEF MarkMerged, Snapshot
  <2>2. /\ branch' = branch
        /\ \/ run' = r /\ merge'.pc = "cleanup"
           \/ run' = [r EXCEPT !.status = "review"] /\ active' = "none"
        /\ merge.pc = "merged" \/ MergedCandidate(run)
    BY <1>0, <1>11 DEF RecordMerge, RecordMergeUnsaved, mergeUnchanged, End, Merge,
                       Succeeded, Merging
  <2> HIDE DEF r
  <2>3. /\ run'.deps = run.deps /\ run'.tasks = r.tasks
        /\ run'.mergeTasks = run.mergeTasks /\ run'.mergeCommit = run.mergeCommit
    BY <2>1, <2>2
  <2>4. MergedCandidate(run)
    BY <1>0, <1>1, <2>2 DEF CandidateFilled
  <2>5. Patched(run, merge.selected) \subseteq Landed
    <3>1. /\ run.mergeCommit \in History /\ IsAncestor(run.mergeCommit, branch)
          /\ Patched(run, merge.selected) \subseteq Contents(run.mergeCommit)
      BY <1>0, <1>2, <2>4 DEF Filled, MergedCandidate
    <3>2. Contents(branch) = Landed
      BY DEF Contents, Landed
    <3> QED
      BY <1>0, <3>1, <3>2, CandidateLands
  <2>6. MarksLanded(run')
    BY <1>0, <2>1, <2>3, <2>5 DEF MarksLanded, Patched, Marked
  <2>7. SameChosen
    BY <1>0, <1>1, <1>2, <2>1, <2>3 DEF SameChosen, MergeInv, MergeClosed, Accepted
  <2>8. Filled(run') /\ CandidateFilled'
    BY <1>4, <1>5, <2>1, <2>2, <2>3
  <2> QED
    BY <2>1, <2>2, <2>3, <2>6, <2>7, <2>8, MergeWork
<1>12. CASE MergeFails
  <2>1. branch' = branch /\ active' = "none" /\ run' = [run EXCEPT !.status = "review"]
    BY <1>12 DEF MergeFails, End
  <2>2. /\ run'.deps = run.deps /\ run'.tasks = run.tasks
        /\ run'.mergeCommit = run.mergeCommit /\ run'.mergeTasks = run.mergeTasks
    BY <1>0, <2>1 DEF Snapshot
  <2> QED
    BY <1>3, <1>4, <1>5, <2>1, <2>2
<1>13. CASE RemoveMergedTree
  <2>1. /\ merge.pc = "cleanup" /\ merge' = merge /\ branch' = branch
        /\ \/ run' = [run EXCEPT !.mergeWorktree = FALSE]
           \/ \E t \in MergedTrees : run' = [run EXCEPT !.tasks[t].worktree = FALSE]
    BY <1>13 DEF RemoveMergedTree, Merging, mergeUnchanged
  <2>2. /\ run'.deps = run.deps
        /\ run'.mergeCommit = run.mergeCommit /\ run'.mergeTasks = run.mergeTasks
        /\ \A t \in Task : /\ run'.tasks[t].status = run.tasks[t].status
                           /\ run'.tasks[t].result = run.tasks[t].result
                           /\ run'.tasks[t].review = run.tasks[t].review
    BY <1>0, <2>1 DEF Snapshot, TaskRecord
  <2> QED
    BY <1>3, <1>4, <1>5, <2>1, <2>2
<1>14. CASE FinishMerge
  <2> DEFINE r == [run EXCEPT !.status = "review"]
  <2>1. branch' = branch /\ active' = "none" /\ run' = Reviewed(r)
    BY <1>14 DEF FinishMerge, Merging, End
  <2>2. /\ Reviewed(r).deps = run.deps /\ Reviewed(r).tasks = run.tasks
        /\ Reviewed(r).mergeCommit = run.mergeCommit
        /\ Reviewed(r).mergeTasks = run.mergeTasks
    BY <1>0 DEF Reviewed, ReviewStatus, Snapshot
  <2> HIDE DEF r
  <2> QED
    BY <1>3, <1>4, <1>5, <2>1, <2>2
<1> QED
  BY <1>6, <1>7, <1>8, <1>9, <1>10, <1>11, <1>12, <1>13, <1>14 DEF MergeStep

------------------------------------------------------------------------------
(* The promise, restarts, and commits from outside *)

(* A restart takes back neither a result nor what the user said of it. *)
LEMMA RestoredWork ==
  ASSUME NEW r \in Snapshot, Restorable(r)
  PROVE  LET q == Restored(r) IN
           \A t \in Task :
             /\ q.tasks[t].status = "completed" <=> r.tasks[t].status = "completed"
             /\ q.tasks[t].result = r.tasks[t].result
             /\ q.tasks[t].review \in Accepted <=> r.tasks[t].review \in Accepted
<1> DEFINE q == Restored(r)
           m == [MarkMerged(r, r.mergeTasks) EXCEPT !.status = "review"]
<1>0. /\ r.mergeTasks \in SUBSET Task
      /\ \A t \in Task : r.tasks[t] \in TaskRecord
      /\ MarkMerged(r, r.mergeTasks) \in Snapshot
  BY RecordsTyped DEF Snapshot
<1>1. CASE r.status = "merging" /\ MergedCandidate(r)
  <2>1. \A t \in Task : /\ m.tasks[t].status = r.tasks[t].status
                        /\ m.tasks[t].result = r.tasks[t].result
                        /\ t \notin r.mergeTasks =>
                             m.tasks[t].review = r.tasks[t].review
                        /\ t \in r.mergeTasks => m.tasks[t].review = "merged"
    BY <1>0, MarkEffect DEF MarkMerged, Snapshot
  <2>2. q.tasks = m.tasks
    BY <1>0, <1>1 DEF Restored, Reviewed, ReviewStatus, Snapshot
  <2>3. \A t \in r.mergeTasks : r.tasks[t].review \in Accepted
    BY <1>1 DEF Restorable, Mergeable, MergeClosed, MergedCandidate
  <2> HIDE DEF q, m
  <2>4. "merged" \in Accepted
    BY DEF Accepted
  <2> QED
    BY <2>1, <2>2, <2>3, <2>4 DEF q
<1>2. CASE /\ ~(r.status = "merging" /\ MergedCandidate(r))
           /\ r.status \in {"running", "planning", "merging"}
  <2>1. q = Interrupted(r)
    BY <1>2 DEF Restored
  <2> QED
    BY <1>0, <2>1 DEF Interrupted, Snapshot, TaskRecord
<1>3. CASE r.status \notin {"running", "planning", "merging"}
  <2>1. q = r
    BY <1>3 DEF Restored
  <2> QED
    BY <2>1
<1> QED
  BY <1>1, <1>2, <1>3

(* A crash loses finished work, but none that was accepted and none that kept
   work depends on. *)
LEMMA CrashPromised ==
  ASSUME IndInv, IndInv', BranchInv, PromiseInv, Crash
  PROVE  PromiseInv' /\ Promise!Interrupt
<1>0. /\ disk \in Snapshot /\ run' \in Snapshot
      /\ Restorable(disk) /\ Fresh(disk) /\ Kept(disk)
      /\ branch \in History /\ Behind /\ MarksLanded(disk) /\ Filled(disk)
  BY DEF IndInv, TypeOK, BranchInv, PromiseInv, Restorable
<1>1. /\ run' = Restored(disk) /\ disk' = disk /\ active' = "none"
      /\ branch' = branch /\ Landed' = Landed
  BY DEF Crash, End, Landed
<1>2. \A t \in Task :
        /\ run'.tasks[t].status = "completed" <=> disk.tasks[t].status = "completed"
        /\ run'.tasks[t].result = disk.tasks[t].result
        /\ run'.tasks[t].review \in Accepted <=> disk.tasks[t].review \in Accepted
        /\ run'.tasks[t].status \notin Working
  BY <1>0, <1>1, RestoredWork, RestoredKept
<1>3. /\ run'.deps = disk.deps
      /\ \A t \in Task :
           run'.tasks[t].review = "merged" <=>
             \/ disk.tasks[t].review = "merged"
             \/ disk.status = "merging" /\ MergedCandidate(disk) /\ t \in disk.mergeTasks
  BY <1>0, <1>1, RestoredMarks
<1>4. /\ Done(run') = Done(disk) /\ Done(run') \subseteq Done(run)
      /\ \A t \in Done(run') : run'.tasks[t].result = run.tasks[t].result
      /\ Chosen(run') = Chosen(disk) /\ Chosen(run') = Chosen(run)
      /\ Chosen(run') \subseteq Done(run')
      /\ Done(run') # {} => run'.deps = run.deps
  <2>1. Done(run') = Done(disk) /\ Chosen(run') = Chosen(disk)
    BY <1>2 DEF Done, Chosen
  <2>2. Chosen(disk) \subseteq Done(disk)
    BY <1>0 DEF Chosen, Done, Kept, ReviewClosed, Accepted
  <2>3. \A t \in Done(run') : run'.tasks[t].result = run.tasks[t].result
    BY <1>0, <1>2, <2>1 DEF Behind, Done
  <2> QED
    BY <1>0, <1>3, <2>1, <2>2, <2>3 DEF Behind
<1>5. PromiseInv'
  <2>1. Behind'
    BY <1>1, <1>2, <1>3 DEF Behind, Done, Chosen
  <2>2. MarksLanded(run')
    <3> SUFFICES ASSUME NEW t \in Task, run'.tasks[t].review = "merged",
                        run'.tasks[t].result = "patch"
                 PROVE  t \in Landed
      BY DEF MarksLanded, Patched, Marked
    <3>1. disk.tasks[t].result = "patch"
      BY <1>2
    <3>2. CASE disk.tasks[t].review = "merged"
      BY <1>0, <3>1, <3>2 DEF MarksLanded, Patched, Marked
    <3>3. CASE disk.status = "merging" /\ MergedCandidate(disk) /\ t \in disk.mergeTasks
      <4>1. /\ disk.mergeCommit \in History /\ IsAncestor(disk.mergeCommit, branch)
            /\ t \in Contents(disk.mergeCommit)
        BY <1>0, <3>1, <3>3 DEF MergedCandidate, Snapshot, Filled, Patched
      <4>2. Contents(branch) = Landed
        BY DEF Contents, Landed
      <4> QED
        BY <1>0, <4>1, <4>2, CandidateLands
    <3> QED
      BY <1>3, <3>2, <3>3
  <2>3. MarksLanded(run)' /\ MarksLanded(disk)'
    BY <1>0, <1>1, <2>2 DEF MarksLanded, Patched, Marked
  <2>4. Filled(disk)'
    BY <1>0, <1>1 DEF Filled, Patched, Contents
  <2>5. Filled(run)' /\ CandidateFilled'
    BY <1>1, NoCandidate
  <2>6. run'.deps \in Plans /\ disk'.deps \in Plans
    BY <1>1, <1>3 DEF PromiseInv
  <2> QED
    BY <2>1, <2>3, <2>4, <2>5, <2>6 DEF PromiseInv
<1>6. Promise!Interrupt
  <2>1. Promise!Closed(Done(run'))
    <3>1. ASSUME NEW t \in Done(run') PROVE run.deps[t] \subseteq Done(run')
      <4>1. t \in Task /\ t \in Done(disk) /\ run.deps = disk.deps /\ disk.deps \in Relation
        BY <1>0, <1>3, <1>4, <3>1 DEF Done, Snapshot
      <4>2. Ancestors(disk.deps, t) \subseteq Done(disk)
        BY <1>0, <4>1 DEF Kept, Ordered, Done, Ancestors
      <4> QED
        BY <1>4, <4>1, <4>2, DirectDependencies
    <3> QED
      BY <3>1 DEF Promise!Closed, Promise!ClosedUnder
  <2>2. run'.deps = run.deps \/ (Done(run') = {} /\ run'.deps \in Plans)
    BY <1>3, <1>4 DEF PromiseInv
  <2>3. Patched(run', Done(run')) = Patched(run, Done(run)) \cap Done(run')
    BY <1>4 DEF Patched
  <2>4. {t \in Task : run'.tasks[t].status \in Working} = {}
    BY <1>2
  <2> QED
    BY <1>1, <1>4, <2>1, <2>2, <2>3, <2>4
       DEF Promise!Interrupt, Working, Plans, Patched, Done, Chosen
<1> QED
  BY <1>5, <1>6

(* A commit from outside is nothing the promise speaks of. *)
LEMMA CommitPromised ==
  ASSUME IndInv, BranchInv, PromiseInv, CommitToBranch
  PROVE  PromiseInv' /\ UNCHANGED Promise!vars
<1>0. /\ branch \in History /\ UserCommit \notin Task
      /\ run.mergeCommit \in History \cup {NoCommit}
      /\ branch' = Append(branch, UserCommit)
      /\ UNCHANGED <<run, disk, active, merge>>
  BY CommitAssumption DEF IndInv, TypeOK, CommitToBranch, Snapshot
<1>1. Landed' = Landed
  <2>1. /\ Len(branch) \in Nat /\ DOMAIN branch = 1..Len(branch)
        /\ DOMAIN branch' = 1..(Len(branch) + 1)
        /\ \A i \in DOMAIN branch : branch'[i] = branch[i]
        /\ branch'[Len(branch) + 1] = UserCommit
    BY <1>0 DEF History
  <2>2. \A i \in DOMAIN branch' : branch'[i] \in Task => i \in DOMAIN branch
    BY <1>0, <2>1
  <2> QED
    BY <2>1, <2>2 DEF Landed
<1>2. MergedCandidate(run) => MergedCandidate(run)'
  BY <1>0, PrefixAppend DEF MergedCandidate, Commit
<1>3. PromiseInv'
  BY <1>0, <1>1, <1>2
     DEF PromiseInv, Behind, Done, Chosen, MarksLanded, Patched, Marked, Filled,
         Contents, CandidateFilled
<1>4. UNCHANGED Promise!vars
  BY <1>0, <1>1, Stutters DEF SameChosen
<1> QED
  BY <1>3, <1>4

(* At first nothing is promised. *)
LEMMA InitPromised == Init => PromiseInv /\ Promise!Init
<1> SUFFICES ASSUME Init PROVE PromiseInv /\ Promise!Init
  OBVIOUS
<1>1. /\ branch = <<>> /\ run.tasks = NewTasks /\ disk = run /\ active = "plan"
      /\ run.deps = [t \in Task |-> {}] /\ run.status = "planning"
  BY DEF Init
<1>2. Landed = {}
  BY <1>1 DEF Landed
<1>3. \A t \in Task : run.tasks[t].status = "pending" /\ run.tasks[t].review = "none"
  BY <1>1 DEF NewTasks, NewTask
<1>4. PromiseInv
  BY <1>1, <1>2, <1>3
     DEF PromiseInv, Plans, Behind, Done, Chosen, MarksLanded, Patched, Marked,
         Filled, CandidateFilled
<1>5. Promise!Init
  BY <1>1, <1>2, <1>3 DEF Promise!Init, Accepted
<1> QED
  BY <1>4, <1>5

(* Every step of the run is one of the promise, or none. *)
LEMMA NextPromised ==
  ASSUME IndInv, BranchInv, PromiseInv, [Next]_vars
  PROVE  PromiseInv' /\ [Promise!Next]_(Promise!vars)
<1>0. /\ IndInv' /\ (disk' = disk \/ disk' = run') /\ (~Crash => WorkKept)
  BY NextKeeps, Saved, NextBranch
<1>1. CASE UNCHANGED vars
  <2>1. UNCHANGED <<run, disk, branch, active, merge>>
    BY <1>1 DEF vars
  <2>2. Landed' = Landed
    BY <2>1 DEF Landed
  <2>3. PromiseInv'
    BY <2>1, <2>2
       DEF PromiseInv, Behind, Done, Chosen, MarksLanded, Patched, Marked, Filled,
           Contents, CandidateFilled, MergedCandidate
  <2> QED
    BY <2>1, <2>2, <2>3, Stutters DEF SameChosen
<1>2. CASE Crash
  BY <1>0, <1>2, CrashPromised DEF Promise!Next
<1>3. CASE ~Crash /\ Planner
  BY <1>0, <1>3, PlannerPromised
<1>4. CASE ~Crash /\ Executor
  BY <1>0, <1>4, ExecutorPromised
<1>5. CASE ~Crash /\ MergeStep
  BY <1>0, <1>5, MergeStepPromised
<1>6. CASE ~Crash /\ User
  BY <1>0, <1>6, UserPromised, MergeBeginsPromised
<1>7. CASE ~Crash /\ RecordEvent
  <2>1. UNCHANGED <<run, branch, active>> /\ active # "merge"
    BY <1>7 DEF RecordEvent
  <2> QED
    BY <1>0, <1>7, <2>1, QuietWork
<1>8. CASE CommitToBranch
  BY <1>8, CommitPromised
<1> QED
  BY <1>1, <1>2, <1>3, <1>4, <1>5, <1>6, <1>7, <1>8 DEF Next

(* A run implements ReviewedGraph.  Whatever executes, fails, is cancelled or
   crashes: work starts on completed dependencies, a restart drops finished
   work only from above and never what the user accepted (manager.go restore),
   and what mergeDAG lands is accepted and brings all it depends on. *)
THEOREM RunKeepsPromise == Spec => KeepsPromise
<1>1. Init => PromiseInv /\ Promise!Init
  BY InitPromised
<1>2. IndInv /\ BranchInv /\ PromiseInv /\ [Next]_vars
        => PromiseInv' /\ [Promise!Next]_(Promise!vars)
  BY NextPromised
<1> QED
  BY <1>1, <1>2, BranchInvariance, PTL DEF Spec, KeepsPromise, Promise!Spec

(* The promise's invariant holds of every behaviour. *)
THEOREM PromiseInvariance == Spec => []PromiseInv
<1>1. Init => PromiseInv
  BY InitPromised
<1>2. IndInv /\ BranchInv /\ PromiseInv /\ [Next]_vars => PromiseInv'
  BY NextPromised
<1> QED
  BY <1>1, <1>2, BranchInvariance, PTL DEF Spec

(* What the review shows as merged, and changed a file, has its commit in the
   target branch: mergeDAG and restore write no mark the branch does not bear
   out, in memory or in a snapshot. *)
THEOREM MarkedChangesAreInBranch ==
  Spec => [](\A t \in Task : \A r \in {run, disk} :
               r.tasks[t].review = "merged" /\ r.tasks[t].result = "patch" =>
                 t \in Landed)
<1>1. PromiseInv =>
        \A t \in Task : \A r \in {run, disk} :
          r.tasks[t].review = "merged" /\ r.tasks[t].result = "patch" => t \in Landed
  BY DEF PromiseInv, MarksLanded, Patched, Marked
<1> QED
  BY <1>1, PromiseInvariance, PTL

------------------------------------------------------------------------------
(* A run at rest survives a crash when every save succeeds *)

(* What is shown of a run, worktrees aside: CleanupDAG may stop between a
   removal and the save. *)
SameButTrees(r, q) ==
  /\ r.status = q.status /\ r.planned = q.planned /\ r.deps = q.deps
  /\ r.config = q.config /\ r.mergeCommit = q.mergeCommit
  /\ r.mergeTasks = q.mergeTasks /\ r.lastMerged = q.lastMerged
  /\ \A t \in Task :
       /\ r.tasks[t].status = q.tasks[t].status /\ r.tasks[t].review = q.tasks[t].review
       /\ r.tasks[t].result = q.tasks[t].result /\ r.tasks[t].ready = q.tasks[t].ready
       /\ r.tasks[t].resolve = q.tasks[t].resolve
       /\ r.tasks[t].conflicted = q.tasks[t].conflicted
       /\ r.tasks[t].retries = q.tasks[t].retries

AtRest(r) == r.status \notin {"running", "planning", "merging"}
RestSaved == Inactive => AtRest(run) /\ SameButTrees(Restored(disk), run)

(* A candidate the branch does not have ends in a task's commit: the commits of
   others do not make the branch have it. *)
OwnCommit(c, h) ==
  c # NoCommit /\ ~IsAncestor(c, h) => c # <<>> /\ c[Len(c)] \in Task
OwnCandidates ==
  /\ OwnCommit(run.mergeCommit, branch)
  /\ OwnCommit(disk.mergeCommit, branch)
  /\ active = "merge" /\ merge.pc \in {"integrate", "checkpoint", "ff"} =>
       OwnCommit(merge.tip, branch)

(* A commit of somebody else's makes no candidate merged. *)
LEMMA OthersMergeNothing ==
  ASSUME NEW c \in History, NEW h \in History, OwnCommit(c, h), c # NoCommit,
         IsAncestor(c, Append(h, UserCommit))
  PROVE  IsAncestor(c, h)
<1> DEFINE g == Append(h, UserCommit)
<1>1. /\ Len(c) \in Nat /\ Len(h) \in Nat /\ Len(g) = Len(h) + 1
      /\ g[Len(h) + 1] = UserCommit /\ g \in History
  BY DEF History, Commit
<1>2. \A i \in DOMAIN c : i \in DOMAIN g /\ c[i] = g[i]
  BY <1>1, PrefixPlaces
<1>3. Len(c) <= Len(g) /\ SubSeq(c, 1, Len(c)) = SubSeq(g, 1, Len(c))
  BY DEF IsAncestor, IsPrefix
<1>4. CASE Len(c) <= Len(h)
  <2>1. SubSeq(g, 1, Len(c)) = SubSeq(h, 1, Len(c))
    BY <1>1, <1>4 DEF History
  <2> QED
    BY <1>3, <1>4, <2>1 DEF IsAncestor, IsPrefix
<1>5. CASE Len(c) = Len(h) + 1
  <2>1. Len(c) \in DOMAIN c
    BY <1>1, <1>5 DEF History
  <2>2. c[Len(c)] = UserCommit
    BY <1>1, <1>2, <1>5, <2>1
  <2> QED
    BY <2>2, CommitAssumption DEF OwnCommit
<1> QED
  BY <1>1, <1>3, <1>4, <1>5

(* The picks of a merge end in the commit of a task, or add nothing. *)
LEMMA OwnPicks ==
  ASSUME NEW c \in History, NEW h, OwnCommit(c, h), c # NoCommit,
         NEW order \in Seq(Task)
  PROVE  OwnCommit(c \o order, h)
<1>1. CASE order = <<>>
  <2>1. c \o order = c
    BY <1>1 DEF History
  <2> QED
    BY <2>1
<1>2. CASE order # <<>>
  <2> DEFINE q == c \o order
  <2>1. /\ Len(c) \in Nat /\ Len(order) \in Nat /\ Len(order) > 0
        /\ Len(q) = Len(c) + Len(order)
        /\ q[Len(q)] = order[Len(order)]
    BY <1>2 DEF History
  <2>2. order[Len(order)] \in Task
    BY <2>1
  <2>3. q # <<>>
    BY <2>1
  <2> QED
    BY <2>1, <2>2, <2>3 DEF OwnCommit
<1> QED
  BY <1>1, <1>2

(* A growing branch leaves it so. *)
LEMMA OwnStays ==
  ASSUME TypeOK, [Next]_vars, NEW c \in History \cup {NoCommit}, OwnCommit(c, branch)
  PROVE  OwnCommit(c, branch')
BY CandidateStays DEF OwnCommit

(* What a restart makes of a snapshot is at rest, and one that was at rest is
   left as it is. *)
LEMMA RestoredAtRest ==
  ASSUME NEW r \in Snapshot
  PROVE  /\ AtRest(Restored(r)) /\ Restored(r).mergeCommit = r.mergeCommit
         /\ AtRest(r) => Restored(r) = r
<1>0. r.mergeTasks \in SUBSET Task /\ MarkMerged(r, r.mergeTasks) \in Snapshot
      /\ Interrupted(r) \in Snapshot
  BY RecordsTyped DEF Snapshot
<1>1. CASE r.status = "merging" /\ MergedCandidate(r)
  <2> DEFINE k == MarkMerged(r, r.mergeTasks)
             m == [k EXCEPT !.status = "review"]
  <2>1. k \in Snapshot /\ k.mergeCommit = r.mergeCommit
    BY <1>0 DEF MarkMerged, Snapshot
  <2>2. Restored(r) = Reviewed(m)
    BY <1>1 DEF Restored
  <2> HIDE DEF k
  <2>3. m \in Snapshot /\ m.mergeCommit = r.mergeCommit /\ m.status = "review"
    BY <2>1 DEF Snapshot, RunStatus
  <2> HIDE DEF m
  <2>4. /\ Reviewed(m).mergeCommit = m.mergeCommit
        /\ Reviewed(m).status \in {"review", "completed"}
    BY <2>3 DEF Reviewed, ReviewStatus, Snapshot
  <2> QED
    BY <1>1, <2>2, <2>3, <2>4 DEF AtRest
<1>2. CASE /\ r.status \in {"running", "planning", "merging"}
           /\ ~(r.status = "merging" /\ MergedCandidate(r))
  <2>1. Restored(r) = Interrupted(r)
    BY <1>2 DEF Restored
  <2>2. Interrupted(r).status = "cancelled" /\ Interrupted(r).mergeCommit = r.mergeCommit
    BY DEF Interrupted, Snapshot
  <2> QED
    BY <1>2, <2>1, <2>2 DEF AtRest
<1>3. CASE AtRest(r)
  <2>1. Restored(r) = r
    BY <1>3 DEF Restored, AtRest
  <2> QED
    BY <1>3, <2>1
<1> QED
  BY <1>1, <1>2, <1>3 DEF AtRest

(* Where candidates come from: mergeDAG's checkpoint, a restart, or they go. *)
LEMMA CandidateNames ==
  ASSUME IndInv, [Next]_vars
  PROVE  \/ run'.mergeCommit \in {run.mergeCommit, disk.mergeCommit, NoCommit}
         \/ Merging("checkpoint") /\ run'.mergeCommit = merge.tip
<1>0. TypeOK /\ ExecutorInv /\ LoopInv /\ run \in Snapshot /\ disk \in Snapshot
  BY DEF IndInv, TypeOK
<1>1. CASE UNCHANGED vars
  BY <1>1 DEF vars
<1>2. CASE Planner
  BY <1>0, <1>2 DEF Planner, PlanSucceeds, PlanFails, Snapshot
<1>3. CASE Executor
  <2>1. ASSUME NEW t \in Task, TaskStep(t) PROVE run'.mergeCommit = run.mergeCommit
    BY <1>0, <2>1, TaskStepScope
  <2> QED
    BY <1>0, <1>3, <2>1 DEF Executor, AwaitResult, FinishGraph, Snapshot
<1>4. CASE MergeStep
  <2>1. MarkMerged(run, merge.selected) \in Snapshot
        /\ MarkMerged(run, merge.selected).mergeCommit = run.mergeCommit
    <3>1. merge.selected \in SUBSET Task
      BY <1>0 DEF TypeOK, Merge
    <3>2. MarkMerged(run, merge.selected).mergeCommit = run.mergeCommit
      BY <1>0 DEF MarkMerged, Snapshot
    <3> QED
      BY <1>0, <3>1, <3>2, RecordsTyped
  <2>2. CASE MergeCheckpoint
    BY <1>0, <2>2 DEF MergeCheckpoint, Snapshot
  <2>3. CASE RecordMerge
    BY <2>1, <2>3 DEF RecordMerge
  <2>4. CASE RecordMergeUnsaved
    <3> DEFINE m == MarkMerged(run, merge.selected)
    <3>1. run' = [m EXCEPT !.status = "review"]
      BY <2>4 DEF RecordMergeUnsaved
    <3>2. m \in Snapshot /\ m.mergeCommit = run.mergeCommit
      BY <2>1
    <3> HIDE DEF m
    <3> QED
      BY <3>1, <3>2 DEF Snapshot
  <2>5. CASE FinishMerge
    <3> DEFINE m == [run EXCEPT !.status = "review"]
    <3>1. m \in Snapshot /\ m.mergeCommit = run.mergeCommit /\ run' = Reviewed(m)
      BY <1>0, <2>5 DEF FinishMerge, Snapshot, RunStatus
    <3> HIDE DEF m
    <3> QED
      BY <3>1 DEF Reviewed, Snapshot
  <2>6. CASE MergeCreate \/ MergeCreateFails \/ MergeIntegrate \/ MergeIntegrateFails
             \/ FastForward \/ FastForwardFails
    BY <1>0, <2>6 DEF MergeCreate, MergeCreateFails, MergeIntegrate, MergeIntegrateFails,
                      FastForward, FastForwardFails, Snapshot
  <2>7. CASE MergeFails \/ RemoveMergedTree
    BY <1>0, <2>7 DEF MergeFails, RemoveMergedTree, Snapshot
  <2> QED
    BY <1>4, <2>2, <2>3, <2>4, <2>5, <2>6, <2>7 DEF MergeStep
<1>5. CASE User
  <2>1. CASE RetryPlanning \/ UpdateDAG \/ UpdateRunConfig \/ ExecuteDAG \/ Cancel
             \/ MergeDAG \/ CleanupDAG
    BY <1>0, <2>1 DEF RetryPlanning, UpdateDAG, UpdateRunConfig, ExecuteDAG, Cancel,
                      MergeDAG, CleanupDAG, Snapshot
  <2>2. ASSUME NEW t \in Task, NEW resolve \in BOOLEAN, RetryDAGTask(t, resolve)
        PROVE  run'.mergeCommit = run.mergeCommit
    BY <1>0, <2>2 DEF RetryDAGTask, Snapshot
  <2>3. ASSUME NEW t \in Task, ResetDAGTask(t) \/ UseDAGTaskProfile(t)
        PROVE  run'.mergeCommit = run.mergeCommit
    BY <1>0, <2>3 DEF ResetDAGTask, UseDAGTaskProfile, Snapshot
  <2>4. ASSUME NEW t \in Task, NEW decision \in {"accepted", "rejected"},
               ReviewDAGTask(t, decision)
        PROVE  run'.mergeCommit = run.mergeCommit
    <3> DEFINE x == [run.tasks[t] EXCEPT !.review = decision]
               m == [run EXCEPT !.tasks[t] = x]
    <3>1. m.mergeCommit = run.mergeCommit
      BY <1>0 DEF Snapshot
    <3>2. x \in TaskRecord
      BY <1>0, <2>4 DEF Snapshot, TaskRecord, Review
    <3>3. run' = Reviewed(m)
      BY <2>4 DEF ReviewDAGTask
    <3> HIDE DEF x
    <3>4. m \in Snapshot
      BY <1>0, <3>2, SnapshotUpdates
    <3> HIDE DEF m
    <3> QED
      BY <3>1, <3>3, <3>4 DEF Reviewed, Snapshot
  <2> QED
    BY <1>5, <2>1, <2>2, <2>3, <2>4 DEF User
<1>6. CASE RecordEvent \/ CommitToBranch
  BY <1>6 DEF RecordEvent, CommitToBranch
<1>7. CASE Crash
  BY <1>0, <1>7, RestoredAtRest DEF Crash
<1> QED
  BY <1>1, <1>2, <1>3, <1>4, <1>5, <1>6, <1>7 DEF Next

(* mergeDAG's tip is the branch its worktree was created on, with picks. *)
LEMMA TipNames ==
  ASSUME TypeOK, [Next]_vars, active' = "merge",
         merge'.pc \in {"integrate", "checkpoint", "ff"}
  PROVE  \/ merge'.tip = branch /\ branch' = branch
         \/ /\ active = "merge" /\ merge.pc \in {"integrate", "checkpoint", "ff"}
            /\ \/ merge'.tip = merge.tip
               \/ \E order \in Seq(Task) : merge'.tip = merge.tip \o order
<1>0. merge \in Merge /\ merge.selected \in SUBSET Task
  BY DEF TypeOK, Merge
<1>1. CASE MergeStep
  <2>1. CASE MergeCreate
    BY <1>0, <2>1 DEF MergeCreate, mergeUnchanged, Merge
  <2>2. CASE MergeIntegrate
    <3>1. PICK order \in PickOrders(merge.selected) :
            merge' = [merge EXCEPT !.pc = "checkpoint", !.tip = merge.tip \o order]
      BY <2>2 DEF MergeIntegrate
    <3>2. order \in Seq(Task)
      BY <1>0, PickOrdersTyped
    <3> QED
      BY <1>0, <2>2, <3>1, <3>2 DEF MergeIntegrate, Merging, Merge
  <2>3. CASE MergeCheckpoint
    BY <1>0, <2>3 DEF MergeCheckpoint, Merging, Merge
  <2>4. CASE MergeCreateFails \/ MergeIntegrateFails \/ FastForward \/ FastForwardFails
             \/ RecordMerge \/ RecordMergeUnsaved \/ MergeFails \/ FinishMerge
    <3>1. merge'.pc \in {"failed", "merged", "cleanup"} \/ active' = "none"
      BY <1>0, <2>4 DEF MergeCreateFails, MergeIntegrateFails, FastForward,
         FastForwardFails, RecordMerge, RecordMergeUnsaved, MergeFails, FinishMerge,
         End, Merge
    <3> QED
      BY <3>1
  <2>5. CASE RemoveMergedTree
    BY <2>5 DEF RemoveMergedTree, Merging
  <2> QED
    BY <1>1, <2>1, <2>2, <2>3, <2>4, <2>5 DEF MergeStep
<1>2. CASE MergeDAG
  <2>1. merge'.pc = "create" \/ active' = "none"
    BY <1>2 DEF MergeDAG, Inactive, NoMerge
  <2> QED
    BY <2>1
<1>3. CASE Planner \/ Crash \/ FinishGraph
  BY <1>3 DEF Planner, PlanSucceeds, PlanFails, Crash, FinishGraph, End
<1>4. CASE RetryPlanning \/ ExecuteDAG
  BY <1>4 DEF RetryPlanning, ExecuteDAG, Begin, Inactive
<1>5. ASSUME ~MergeStep, ~MergeDAG, ~Planner, ~Crash, ~FinishGraph, ~RetryPlanning,
             ~ExecuteDAG
      PROVE  merge' = merge /\ active' = active
  BY <1>5 DEF Next, vars, Executor, AwaitResult, TaskStep, BlockTask, ChooseTask, LaunchTask,
       ReceiveResult, SetUp, SetUpFails, Integrate, IntegrateFails, Complete,
       ExecuteFails, ScheduleRetry, RetryNow, RetryCancelled, jobUnchanged, User,
       UpdateDAG, UpdateRunConfig, Cancel, CleanupDAG, RetryDAGTask, ResetDAGTask,
       UseDAGTaskProfile, ReviewDAGTask, RecordEvent, CommitToBranch
<1> QED
  BY <1>1, <1>2, <1>3, <1>4, <1>5

(* mergeDAG and restore name no other candidates. *)
LEMMA OwnCandidatesKept ==
  ASSUME IndInv, OwnCandidates, [Next]_vars
  PROVE  OwnCandidates'
<1>0. /\ TypeOK /\ merge.tip \in History /\ branch \in History
      /\ run.mergeCommit \in History \cup {NoCommit}
      /\ disk.mergeCommit \in History \cup {NoCommit}
  BY DEF IndInv, TypeOK, Snapshot, Merge
<1>1. /\ OwnCommit(run.mergeCommit, branch') /\ OwnCommit(disk.mergeCommit, branch')
      /\ OwnCommit(NoCommit, branch')
      /\ active = "merge" /\ merge.pc \in {"integrate", "checkpoint", "ff"} =>
           OwnCommit(merge.tip, branch')
  <2>1. OwnCommit(NoCommit, branch')
    BY DEF OwnCommit
  <2> QED
    BY <1>0, <2>1, OwnStays DEF OwnCandidates
<1>2. OwnCommit(run'.mergeCommit, branch')
  BY <1>1, CandidateNames DEF Merging
<1>3. OwnCommit(disk'.mergeCommit, branch')
  BY <1>1, <1>2, Saved
<1>4. ASSUME active' = "merge", merge'.pc \in {"integrate", "checkpoint", "ff"}
      PROVE  OwnCommit(merge'.tip, branch')
  <2>1. CASE merge'.tip = branch /\ branch' = branch
    BY <1>0, <2>1, PrefixReflexive DEF OwnCommit
  <2>2. CASE OwnCommit(merge.tip, branch') /\ merge'.tip = merge.tip
    BY <2>2
  <2>3. ASSUME OwnCommit(merge.tip, branch'),
               NEW order \in Seq(Task), merge'.tip = merge.tip \o order
        PROVE  OwnCommit(merge'.tip, branch')
    <3>1. merge.tip # NoCommit
      BY <1>0, CommitAssumption DEF History, Commit
    <3> QED
      BY <1>0, <2>3, <3>1, OwnPicks
  <2> QED
    BY <1>0, <1>1, <1>4, <2>1, <2>2, <2>3, TipNames
<1> QED
  BY <1>2, <1>3, <1>4 DEF OwnCandidates

(* A step that ends at rest saves what it changes, or changes nothing. *)
LEMMA RestChanges ==
  ASSUME ~SavesMayFail, IndInv, [Next]_vars, ~Crash, ~CommitToBranch, ~CleanupDAG,
         active = "none" => AtRest(run), active' = "none"
  PROVE  \/ disk' = run' /\ AtRest(run')
         \/ UNCHANGED <<run, disk, branch, active>>
<1>0. TypeOK /\ ExecutorInv /\ LoopInv /\ run \in Snapshot
  BY DEF IndInv, TypeOK
<1>1. CASE UNCHANGED vars
  BY <1>1 DEF vars
<1>2. CASE Planner
  <2>1. disk' = run'
    BY <1>2 DEF Planner, PlanSucceeds, PlanFails, TrySave, Save, SaveFails
  <2>2. run'.status \in {"draft", "failed", "cancelled"}
    BY <1>0, <1>2 DEF Planner, PlanSucceeds, PlanFails, EndStatus, Snapshot
  <2> QED
    BY <2>1, <2>2 DEF AtRest
<1>3. CASE Executor
  <2>1. FinishGraph
    <3>1. ASSUME NEW t \in Task, TaskStep(t) PROVE FALSE
      BY <1>0, <3>1, TaskStepScope
    <3> QED
      BY <1>3, <3>1 DEF Executor, AwaitResult, ScanEnded
  <2>2. PICK s \in {"review", "failed", "cancelled"} : run' = [run EXCEPT !.status = s]
    BY <2>1 DEF FinishGraph, EndStatus
  <2>3. run'.status = s /\ disk' = run'
    BY <1>0, <2>1, <2>2 DEF FinishGraph, TrySave, Save, SaveFails, Snapshot
  <2> QED
    BY <2>3 DEF AtRest
<1>4. CASE MergeStep
  <2>1. MergeFails \/ FinishMerge
    BY <1>4 DEF MergeStep, MergeCreate, MergeCreateFails, MergeIntegrate,
                MergeIntegrateFails, MergeCheckpoint, FastForward, FastForwardFails,
                RecordMerge, RecordMergeUnsaved, RemoveMergedTree, Merging,
                Succeeded, mergeUnchanged, SaveFails
  <2>2. disk' = run'
    BY <2>1 DEF MergeFails, FinishMerge, TrySave, Save, SaveFails
  <2> DEFINE m == [run EXCEPT !.status = "review"]
  <2>3. m \in Snapshot /\ m.status = "review" /\ run' \in {m, Reviewed(m)}
    BY <1>0, <2>1 DEF MergeFails, FinishMerge, Snapshot, RunStatus
  <2> HIDE DEF m
  <2>4. run'.status \in {"review", "completed"}
    BY <2>3 DEF Reviewed, ReviewStatus, Snapshot
  <2> QED
    BY <2>2, <2>4 DEF AtRest
<1>5. CASE User
  <2>1. CASE RetryPlanning \/ ExecuteDAG \/ MergeDAG \/ Cancel
    BY <2>1 DEF RetryPlanning, ExecuteDAG, MergeDAG, Cancel, Begin, SaveFails, Inactive
  <2>2. CASE UpdateDAG \/ UpdateRunConfig
    <3>1. run'.status = run.status /\ disk' = run' /\ active = "none"
      BY <1>0, <2>2 DEF UpdateDAG, UpdateRunConfig, Save, Inactive, Snapshot
    <3> QED
      BY <3>1 DEF AtRest
  <2>3. ASSUME NEW t \in Task, NEW resolve \in BOOLEAN, RetryDAGTask(t, resolve)
        PROVE  disk' = run' /\ AtRest(run')
    <3>1. run'.status = run.status /\ disk' = run' /\ active = "none"
      BY <1>0, <2>3 DEF RetryDAGTask, Redoable, Save, Inactive, Snapshot
    <3> QED
      BY <3>1 DEF AtRest
  <2>4. ASSUME NEW t \in Task, ResetDAGTask(t) \/ UseDAGTaskProfile(t)
        PROVE  disk' = run' /\ AtRest(run')
    <3>1. run'.status = run.status /\ disk' = run' /\ active = "none"
      BY <1>0, <2>4 DEF ResetDAGTask, UseDAGTaskProfile, Redoable, TrySave, Save,
                        SaveFails, Inactive, Snapshot
    <3> QED
      BY <3>1 DEF AtRest
  <2>5. ASSUME NEW t \in Task, NEW decision \in {"accepted", "rejected"},
               ReviewDAGTask(t, decision)
        PROVE  disk' = run' /\ AtRest(run')
    <3> DEFINE x == [run.tasks[t] EXCEPT !.review = decision]
               m == [run EXCEPT !.tasks[t] = x]
    <3>1. m.status = run.status
      BY <1>0 DEF Snapshot
    <3>2. x \in TaskRecord
      BY <1>0, <2>5 DEF Snapshot, TaskRecord, Review
    <3>3. run' = Reviewed(m) /\ disk' = run' /\ active = "none"
      BY <2>5 DEF ReviewDAGTask, Save, Inactive
    <3> HIDE DEF x
    <3>4. m \in Snapshot
      BY <1>0, <3>2, SnapshotUpdates
    <3> HIDE DEF m
    <3>5. run'.status \in {run.status, "review", "completed"}
      BY <3>1, <3>3, <3>4 DEF Reviewed, ReviewStatus, Snapshot
    <3> QED
      BY <3>3, <3>5 DEF AtRest
  <2> QED
    BY <1>5, <2>1, <2>2, <2>3, <2>4, <2>5 DEF User
<1>6. CASE RecordEvent
  BY <1>6 DEF RecordEvent
<1> QED
  BY <1>1, <1>2, <1>3, <1>4, <1>5, <1>6 DEF Next

(* A step that saves nothing, moves no candidate into the branch, and leaves of
   the run all but its worktrees. *)
LEMMA RestUndisturbed ==
  ASSUME RestSaved, disk' = disk, MergedCandidate(disk)' <=> MergedCandidate(disk),
         active' = active, SameButTrees(run, run')
  PROVE  RestSaved'
<1>1. Restored(disk)' = Restored(disk)
  BY DEF Restored
<1> QED
  BY <1>1 DEF RestSaved, Inactive, AtRest, SameButTrees

(* What is saved at rest is restored as it is. *)
LEMMA RestIsSaved ==
  ASSUME run' \in Snapshot, disk' = run', AtRest(run')
  PROVE  RestSaved'
<1>1. Restored(disk)' = disk'
  BY DEF Restored, AtRest
<1> QED
  BY <1>1 DEF RestSaved, SameButTrees

(* Every step leaves a run that is at rest as the snapshot has it. *)
LEMMA RestKept ==
  ASSUME ~SavesMayFail, IndInv, IndInv', OwnCandidates, RestSaved, [Next]_vars
  PROVE  RestSaved'
<1>0. TypeOK /\ run \in Snapshot /\ disk \in Snapshot /\ run' \in Snapshot
      /\ branch \in History
  BY DEF IndInv, TypeOK
<1>1. CASE Crash
  <2>1. run' = Restored(disk) /\ Restored(disk)' = Restored(disk)
    BY <1>1 DEF Crash, Restored, MergedCandidate
  <2>2. AtRest(run')
    BY <1>0, <2>1, RestoredAtRest
  <2> QED
    BY <2>1, <2>2 DEF RestSaved, SameButTrees
<1>2. CASE CommitToBranch
  <2>1. /\ run' = run /\ disk' = disk /\ active' = active
        /\ branch' = Append(branch, UserCommit)
    BY <1>2 DEF CommitToBranch
  <2>2. disk.mergeCommit \in History \cup {NoCommit} /\ OwnCommit(disk.mergeCommit, branch)
    BY <1>0 DEF OwnCandidates, Snapshot
  <2>3. MergedCandidate(disk)' <=> MergedCandidate(disk)
    BY <1>0, <2>1, <2>2, OthersMergeNothing, PrefixAppend DEF MergedCandidate, Commit
  <2> QED
    BY <2>1, <2>3, RestUndisturbed DEF SameButTrees
<1>3. CASE CleanupDAG /\ active' = "none"
  <2>1. PICK S \in SUBSET Task :
          /\ run' = [run EXCEPT
               !.mergeWorktree = FALSE,
               !.tasks = [t \in Task |-> [run.tasks[t] EXCEPT
                            !.worktree = run.tasks[t].worktree /\ t \notin S]]]
          /\ disk' = run' \/ disk' = disk
    BY <1>3 DEF CleanupDAG, TrySave, Save, SaveFails
  <2>2. SameButTrees(run, run')
    <3>1. /\ run'.status = run.status /\ run'.planned = run.planned
          /\ run'.deps = run.deps /\ run'.config = run.config
          /\ run'.mergeCommit = run.mergeCommit /\ run'.mergeTasks = run.mergeTasks
          /\ run'.lastMerged = run.lastMerged
      BY <1>0, <2>1 DEF Snapshot
    <3>2. ASSUME NEW t \in Task
          PROVE  run'.tasks[t] = [run.tasks[t] EXCEPT
                   !.worktree = run.tasks[t].worktree /\ t \notin S]
      BY <1>0, <2>1 DEF Snapshot
    <3>3. ASSUME NEW t \in Task
          PROVE  /\ run'.tasks[t].status = run.tasks[t].status
                 /\ run'.tasks[t].review = run.tasks[t].review
                 /\ run'.tasks[t].result = run.tasks[t].result
                 /\ run'.tasks[t].ready = run.tasks[t].ready
                 /\ run'.tasks[t].resolve = run.tasks[t].resolve
                 /\ run'.tasks[t].conflicted = run.tasks[t].conflicted
                 /\ run'.tasks[t].retries = run.tasks[t].retries
      <4>1. run.tasks[t] \in TaskRecord
        BY <1>0 DEF Snapshot
      <4> QED
        BY <3>2, <4>1 DEF TaskRecord
    <3> QED
      BY <3>1, <3>3 DEF SameButTrees
  <2>3. active' = active /\ branch' = branch /\ AtRest(run)
    BY <1>3 DEF CleanupDAG, RestSaved
  <2>4. CASE disk' = disk
    <3>1. MergedCandidate(disk)' <=> MergedCandidate(disk)
      BY <2>3, <2>4 DEF MergedCandidate
    <3> QED
      BY <2>2, <2>3, <2>4, <3>1, RestUndisturbed
  <2>5. CASE disk' = run'
    <3>1. AtRest(run')
      BY <2>2, <2>3 DEF SameButTrees, AtRest
    <3> QED
      BY <1>0, <2>5, <3>1, RestIsSaved
  <2> QED
    BY <2>1, <2>4, <2>5
<1>4. CASE ~Crash /\ ~CommitToBranch /\ ~CleanupDAG /\ active' = "none"
  <2>1. \/ disk' = run' /\ AtRest(run')
        \/ UNCHANGED <<run, disk, branch, active>>
    BY <1>4, RestChanges DEF RestSaved, Inactive
  <2>2. CASE UNCHANGED <<run, disk, branch, active>>
    <3>1. MergedCandidate(disk)' <=> MergedCandidate(disk)
      BY <2>2 DEF MergedCandidate
    <3> QED
      BY <2>2, <3>1, RestUndisturbed DEF SameButTrees
  <2> QED
    BY <1>0, <2>1, <2>2, RestIsSaved
<1> QED
  BY <1>1, <1>2, <1>3, <1>4 DEF RestSaved, Inactive

(* A run that nothing works on is what a restart of the application finds in
   the database, and is neither running, nor planning, nor merging: restore
   gives it back as it was shown, whatever was called, recorded, cancelled or
   lost in a crash before, and whatever others committed to the branch since.
   Only worktrees that were being removed may be named once more. *)
THEOREM RestSurvives == ASSUME ~SavesMayFail PROVE Spec => []RestSaved
<1>1. Init => OwnCandidates /\ RestSaved
  BY DEF Init, OwnCandidates, OwnCommit, RestSaved, Inactive
<1>2. IndInv /\ OwnCandidates /\ [Next]_vars => OwnCandidates'
  BY OwnCandidatesKept
<1>3. IndInv /\ IndInv' /\ OwnCandidates /\ RestSaved /\ [Next]_vars => RestSaved'
  BY RestKept
<1> QED
  BY <1>1, <1>2, <1>3, Invariance, PTL DEF Spec

------------------------------------------------------------------------------
(* An execution that is not stopped leaves no task untried *)

(* Among any tasks of an acyclic graph one depends on none of the others. *)
LEMMA FirstOf ==
  ASSUME NEW D \in Relation, Acyclic(D), NEW P \in SUBSET Task, P # {}
  PROVE  \E t \in P : Ancestors(D, t) \cap P = {}
<1> DEFINE A == {Ancestors(D, t) : t \in P}
<1>1. A \subseteq FiniteSubsetsOf(Task) /\ A # {}
  <2>1. ASSUME NEW t \in P PROVE Ancestors(D, t) \in FiniteSubsetsOf(Task)
    <3>1. Ancestors(D, t) \in SUBSET Task
      BY DEF Ancestors
    <3> QED
      BY <3>1, TasksAssumption, FS_Subset DEF FiniteSubsetsOf
  <2> QED
    BY <2>1
<1>2. \E a \in A : \A b \in A : <<b, a>> \notin StrictSubsetOrdering(Task)
  <2> HIDE DEF A
  <2> QED
    BY <1>1, FS_StrictSubsetOrderingWellFounded, WFMin
<1>3. PICK t \in P : \A d \in P :
        <<Ancestors(D, d), Ancestors(D, t)>> \notin StrictSubsetOrdering(Task)
  BY <1>2
<1>4. ASSUME NEW d \in P, d \in Ancestors(D, t) PROVE FALSE
  <2>1. Ancestors(D, d) \subseteq Ancestors(D, t) /\ d \notin Ancestors(D, d)
        /\ Ancestors(D, t) \in SUBSET Task /\ Ancestors(D, d) \in SUBSET Task
    BY <1>4, AncestorsTransitive DEF Acyclic, Ancestors
  <2>2. <<Ancestors(D, d), Ancestors(D, t)>> \in StrictSubsetOrdering(Task)
    BY <1>4, <2>1 DEF StrictSubsetOrdering
  <2> QED
    BY <1>3, <2>2
<1> QED
  BY <1>4

(* Before the plan no task depends on another. *)
LEMMA EmptyAcyclic ==
  ASSUME NEW D \in [Task -> {{}}]
  PROVE  Acyclic(D)
<1> SUFFICES ASSUME NEW t \in Task PROVE t \notin Ancestors(D, t)
  BY DEF Acyclic
<1>1. D[t] \subseteq {} /\ ClosedUnder(D, {})
  BY DEF ClosedUnder
<1> QED
  BY <1>1 DEF Ancestors

(* executeDAG's scan finds something to do while a task is pending, and the
   executor waits only for goroutines it has started. *)
Waits == loop = "wait" => active = "graph" /\ Running # {}
ScanProceeds ==
  active = "graph" /\ Running = {} /\ ~cancelled
    /\ (\E t \in Task : graph[t].status = "pending") =>
      \E t \in Task : loop = t \/ (Scanning(t) /\ (Blocked(t) \/ Launchable(t)))

(* A goroutine's result is received, and the executor scans again. *)
LEMMA WaitsKept ==
  ASSUME IndInv, Waits, [Next]_vars
  PROVE  Waits'
<1>1. CASE UNCHANGED vars
  BY <1>1 DEF vars, Waits, Running
<1>2. CASE AwaitResult
  BY <1>2 DEF AwaitResult, ScanEnded, Waits, Running
<1>3. ASSUME NEW t \in Task, TaskStep(t) PROVE Waits'
  <2>1. CASE BlockTask(t) \/ ChooseTask(t) \/ LaunchTask(t) \/ ReceiveResult(t)
    BY <2>1, LoopAssumption
       DEF BlockTask, ChooseTask, LaunchTask, ReceiveResult, Scanning, Waits
  <2>2. ASSUME ~BlockTask(t), ~ChooseTask(t), ~LaunchTask(t), ~ReceiveResult(t)
        PROVE  /\ active' = active /\ loop' = loop
               /\ \E pc \in {"setup", "integrate", "execute", "backoff", "done"} :
                    \E x : job' = [job EXCEPT ![t] = [@ EXCEPT !.pc = pc, !.task = x]]
    BY <1>3, <2>2 DEF TaskStep, SetUp, SetUpFails, Integrate, IntegrateFails, Complete,
       ExecuteFails, ScheduleRetry, RetryNow, RetryCancelled, jobUnchanged, Exit, Step
  <2>3. CASE ~BlockTask(t) /\ ~ChooseTask(t) /\ ~LaunchTask(t) /\ ~ReceiveResult(t)
    <3>0. PICK pc \in {"setup", "integrate", "execute", "backoff", "done"} :
            \E x : job' = [job EXCEPT ![t] = [job[t] EXCEPT !.pc = pc, !.task = x]]
      BY <2>2, <2>3
    <3>1. PICK x : job' = [job EXCEPT ![t] = [job[t] EXCEPT !.pc = pc, !.task = x]]
      BY <3>0
    <3>2. job'[t].pc = pc
      <4>1. job \in [Task -> Job] /\ job[t] \in Job
        BY DEF IndInv, TypeOK
      <4>2. job'[t] = [job[t] EXCEPT !.pc = pc, !.task = x]
        BY <3>1, <4>1
      <4> QED
        BY <4>1, <4>2 DEF Job
    <3>3. Running' # {}
      BY <3>2 DEF Running
    <3>4. active' = "graph"
      BY <1>3, TaskStepScope DEF IndInv
    <3> QED
      BY <3>3, <3>4 DEF Waits
  <2> QED
    BY <2>1, <2>3
<1>4. CASE FinishGraph \/ Crash
  BY <1>4 DEF FinishGraph, ScanEnded, Crash, Waits
<1>5. CASE Planner \/ MergeStep \/ User \/ RecordEvent \/ CommitToBranch
  <2>1. loop' = loop /\ job' = job
    BY <1>5 DEF Planner, PlanSucceeds, PlanFails, MergeStep, MergeCreate,
       MergeCreateFails, MergeIntegrate, MergeIntegrateFails, MergeCheckpoint,
       FastForward, FastForwardFails, RecordMerge, RecordMergeUnsaved, MergeFails,
       RemoveMergedTree, FinishMerge, mergeUnchanged, executorVars, User,
       RetryPlanning, UpdateDAG, UpdateRunConfig, ExecuteDAG, Cancel, MergeDAG,
       CleanupDAG, RetryDAGTask, ResetDAGTask, UseDAGTaskProfile, ReviewDAGTask,
       RecordEvent, CommitToBranch
  <2>2. active = "graph" => active' = active
    BY <1>5 DEF Planner, PlanSucceeds, PlanFails, MergeStep, MergeCreate,
       MergeCreateFails, MergeIntegrate, MergeIntegrateFails, MergeCheckpoint,
       FastForward, FastForwardFails, RecordMerge, RecordMergeUnsaved, MergeFails,
       RemoveMergedTree, FinishMerge, Merging, Succeeded, User,
       RetryPlanning, UpdateDAG, UpdateRunConfig, ExecuteDAG, Cancel, MergeDAG,
       CleanupDAG, RetryDAGTask, ResetDAGTask, Redoable, UseDAGTaskProfile,
       ReviewDAGTask, RecordEvent, CommitToBranch, Inactive
  <2> QED
    BY <2>1, <2>2 DEF Waits, Running
<1> QED
  BY <1>1, <1>2, <1>3, <1>4, <1>5 DEF Next, Executor

(* A pending task all of whose dependencies are settled is blocked, or can be
   launched when nothing runs. *)
LEMMA ScanFinds ==
  ASSUME IndInv, Waits, Acyclic(run.deps)
  PROVE  ScanProceeds
<1> SUFFICES ASSUME active = "graph", Running = {}, ~cancelled,
                    \E t \in Task : graph[t].status = "pending"
             PROVE  \E t \in Task :
                      loop = t \/ (Scanning(t) /\ (Blocked(t) \/ Launchable(t)))
  BY DEF ScanProceeds
<1> DEFINE P == {t \in Task : graph[t].status = "pending"}
<1>0. TypeOK /\ ExecutorInv /\ LoopInv /\ run.deps \in Relation
  BY DEF IndInv, TypeOK, Snapshot
<1>1. PICK t \in P : AncestorsOf(t) \cap P = {}
  <2>1. P # {} /\ P \in SUBSET Task
    OBVIOUS
  <2> HIDE DEF P
  <2> QED
    BY <1>0, <2>1, FirstOf DEF AncestorsOf
<1>2. Scanning(t) \/ loop \in Task
  BY <1>0 DEF Scanning, Waits, TypeOK
<1>3. \A d \in AncestorsOf(t) : graph[d].status \in Unsuccessful \cup {"completed"}
  <2> SUFFICES ASSUME NEW d \in AncestorsOf(t)
               PROVE  graph[d].status \in Unsuccessful \cup {"completed"}
    OBVIOUS
  <2>1. d \in Task /\ d \notin P
    BY <1>1 DEF AncestorsOf, Ancestors
  <2>2. graph[d] = run.tasks[d] /\ run.tasks[d].status \notin Working
    BY <1>0, <2>1 DEF ExecutorInv
  <2>3. graph[d].status \in TaskStatus
    BY <1>0, <2>1 DEF TypeOK, TaskRecord
  <2> QED
    BY <2>1, <2>2, <2>3 DEF TaskStatus, Unsuccessful, Working
<1>4. Cardinality(Running) < MaxParallel
  BY FS_EmptySet, LimitsAssumption
<1> QED
  BY <1>2, <1>3, <1>4 DEF Blocked, Launchable

(* For every acyclic graph and every limit: the scheduler never waits for a
   result that no goroutine will send, and never stops short of a task.  While
   a task is pending and nothing runs, a task has been chosen and is launched
   next, or the scan blocks or chooses this task or another; an execution that the user does not stop ends only when every
   task has completed, failed, or been blocked by one that did not complete. *)
THEOREM NoTaskUntried ==
  Spec => /\ [](Waits /\ ScanProceeds)
          /\ [][FinishGraph /\ ~cancelled =>
                  \A t \in Task : run.tasks[t].status \in {"completed"} \cup Unsuccessful]_vars
<1> DEFINE Tried == \A t \in Task : run.tasks[t].status \in {"completed"} \cup Unsuccessful
<1>1. Init => Waits
  BY DEF Init, Waits
<1>2. IndInv /\ Waits /\ [Next]_vars => Waits'
  BY WaitsKept
<1>3. IndInv /\ PromiseInv /\ Waits => ScanProceeds
  <2> SUFFICES ASSUME IndInv, PromiseInv, Waits PROVE Acyclic(run.deps)
    BY ScanFinds
  <2>1. CASE run.deps \in Graphs
    BY <2>1, GraphsAssumption
  <2>2. CASE run.deps \in [Task -> {{}}]
    BY <2>2, EmptyAcyclic
  <2> QED
    BY <2>1, <2>2 DEF PromiseInv, Plans
<1>4. IndInv /\ ScanProceeds /\ [Next]_vars => [FinishGraph /\ ~cancelled => Tried]_vars
  <2> SUFFICES ASSUME IndInv, ScanProceeds, FinishGraph, ~cancelled, NEW t \in Task
               PROVE  run.tasks[t].status \in {"completed"} \cup Unsuccessful
    OBVIOUS
  <2>1. \A u \in Task : graph[u].status # "pending"
    BY LoopAssumption DEF ScanProceeds, FinishGraph, ScanEnded
  <2>2. graph[t] = run.tasks[t] /\ run.tasks[t].status \notin Working
    BY DEF IndInv, ExecutorInv, FinishGraph, ScanEnded
  <2>3. graph[t].status \in TaskStatus
    BY DEF IndInv, TypeOK, TaskRecord
  <2> QED
    BY <2>1, <2>2, <2>3 DEF TaskStatus, Unsuccessful, Working
<1> HIDE DEF Tried
<1>5. Spec => [](Waits /\ ScanProceeds) /\ [][FinishGraph /\ ~cancelled => Tried]_vars
  BY <1>1, <1>2, <1>3, <1>4, Invariance, PromiseInvariance, PTL DEF Spec
<1> QED
  BY <1>5 DEF Tried
=============================================================================
