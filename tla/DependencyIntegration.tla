----------------------- MODULE DependencyIntegration -----------------------
(***************************************************************************)
(* How the results of a task's dependencies get into its worktree, and the *)
(* task's own result out of it: executeDAGTask's phases "setup",           *)
(* "dependencies", "execution" and "checkpoint", command by command.       *)
(*                                                                         *)
(* What git keeps survives everything; the Worktree record in memory is    *)
(* lost when the process dies, and what was published of it is found       *)
(* again, unless the database has refused to save it.  Between two runs of *)
(* the task the user may act on the worktree.                              *)
(*                                                                         *)
(*   head     the changes on HEAD above the run's base, oldest first       *)
(*   pick     CHERRY_PICK_HEAD                                             *)
(*   index    what is staged on top of HEAD                                *)
(*   settled  the dependencies whose pick was committed, or skipped        *)
(*   place    whether the worktree's directory and branch exist            *)
(*   tree     the task's Worktree record in memory; saved, in the database *)
(*   loss     not in the code: "save", the database has not what was last  *)
(*            published; "readiness", and a crash has then undone that the *)
(*            dependencies were ready                                      *)
(*   pc, resolving, attempt    executeDAGTask's control                    *)
(*                                                                         *)
(* A retry of the worker (executeDAGTaskWithRetries) is more of its work.  *)
(*                                                                         *)
(* The host's squash of a task's commits into one keeps their tree; head   *)
(* keeps the commits.                                                      *)
(***************************************************************************)
EXTENDS Naturals, SequencesExt

CONSTANTS Deps,          \* dependencyOrder's commits, oldest first
          Work,          \* a commit of the task's worker
          Foreign,       \* a commit, or a pick, of somebody else
          None,          \* an empty CHERRY_PICK_HEAD, PendingCommit or BaseRef
          MaxOthers,     \* bound on the commits of workers and others
          MaxHistory     \* bound on HEAD's length where a pick is repeated

Dep == Range(Deps)

ASSUME DepsAssumption ==
  /\ Deps \in Seq(Dep) /\ IsInjective(Deps)
  /\ {Work, Foreign, None} \cap Dep = {} /\ Work # Foreign
ASSUME BoundsAssumption == MaxOthers \in Nat /\ MaxHistory \in Nat

VARIABLES head, pick, index, settled, place, tree, saved, loss,
          pc, resolving, attempt

git == <<head, pick, index, settled>>
database == <<saved, loss>>
context == <<place, resolving, attempt>>
vars == <<git, tree, database, pc, context>>

Change == Dep \cup {Work, Foreign}
History == Seq(Change)

(* unmerged: files with conflicts; marked: staged with conflict markers left
   in them; empty: nothing differs from HEAD; dirty: changes that belong to
   no pick, left by one that was killed or quit. *)
IndexState == {"clean", "unmerged", "resolved", "empty", "marked", "dirty"}

(* made: the task has a Worktree at all. *)
Worktree ==
  [made : BOOLEAN, integrated : SUBSET Dep, pending : Dep \cup {None},
   pendingBase : History \cup {None}, base : History \cup {None},
   ready : BOOLEAN,
   result : [base : History, content : History] \cup {None}]

Fresh == [made |-> FALSE, integrated |-> {}, pending |-> None, pendingBase |-> None,
          base |-> <<>>, ready |-> FALSE, result |-> None]

TypeOK ==
  /\ head \in History
  /\ pick \in Dep \cup {Foreign, None}
  /\ index \in IndexState
  /\ settled \in SUBSET Dep
  /\ place \in {"none", "branch", "made"}
  /\ tree \in Worktree
  /\ saved \in Worktree
  /\ loss \in {"none", "save", "readiness"}
  /\ pc \in {"idle", "setup", "integrate", "pick", "resolve", "work", "returned",
             "completed"}
  /\ resolving \in BOOLEAN
  /\ attempt \in 0 .. Len(Deps)

Init ==
  /\ head = <<>> /\ pick = None /\ index = "clean" /\ settled = {}
  /\ place = "none"
  /\ tree = Fresh /\ saved = Fresh /\ loss = "none"
  /\ pc = "idle" /\ resolving = FALSE /\ attempt = 0

Others == Cardinality({i \in DOMAIN head : head[i] \notin Dep})

------------------------------------------------------------------------------
(* What the steps of the task share *)

(* publishTask: the record is saved, or the save fails and is ignored. *)
Publish ==
  /\ saved' \in {saved, tree'}
  /\ loss' = IF loss = "readiness" THEN loss
             ELSE IF saved' = tree' THEN "none" ELSE "save"

(* executeDAGTask returns what it has; the executor publishes it later. *)
Return == pc' = "returned" /\ UNCHANGED <<database, context>>

Pending(t, c) ==
  [t EXCEPT !.pending = c, !.pendingBase = IF @ = None THEN head ELSE @]
NotPending(t) == [t EXCEPT !.pending = None, !.pendingBase = None]
Integrated(t, c) == [NotPending(t) EXCEPT !.integrated = @ \cup {c}]
Rebased(t, h) == [t EXCEPT !.base = h]

Commit(c) ==
  /\ head' = Append(head, c)
  /\ settled' = settled \cup ({c} \cap Dep)
  /\ pick' = None /\ index' = "clean"
Skip(c) ==
  /\ head' = head
  /\ settled' = settled \cup {c}
  /\ pick' = None /\ index' = "clean"

------------------------------------------------------------------------------
(* The beginning and the end of an execution of the task *)

(* Fault: a failed first save is ignored like the others. *)
BeginUnsaved(resolve) ==
  /\ pc = "idle"
  /\ pc' = "setup"
  /\ resolving' = resolve /\ attempt' = 0
  /\ UNCHANGED <<git, place, tree>>
  /\ Publish

(* ExecuteDAG saves the whole run before it starts anything, or refuses. *)
Begin(resolve) ==
  /\ pc = "idle"
  /\ pc' = "setup"
  /\ resolving' = resolve /\ attempt' = 0
  /\ UNCHANGED <<git, place, tree>>
  /\ Publish /\ saved' = tree

(* git worktree add -b: it makes the branch and then the directory, refuses
   when one of them is there, or is killed; the record is set all the same. *)
Create ==
  /\ pc = "setup" /\ ~tree.made
  /\ tree' = [tree EXCEPT !.made = TRUE]
  /\ \/ place = "none" /\ place' = "made" /\ UNCHANGED pc
     \/ place = "none" /\ place' \in {"none", "branch", "made"} /\ pc' = "returned"
     \/ place # "none" /\ UNCHANGED place /\ pc' = "returned"
  /\ UNCHANGED <<git, database, resolving, attempt>>

(* The worktree was made, or verified, and is published. *)
SetUp ==
  /\ pc = "setup" /\ tree.made /\ place = "made"
  /\ pc' = IF tree.ready THEN "work" ELSE "integrate"
  /\ UNCHANGED <<git, tree, context>>
  /\ Publish

ReceiveResult ==
  /\ pc = "returned"
  /\ pc' = IF tree.result = None THEN "idle" ELSE "completed"
  /\ UNCHANGED <<git, tree, context>>
  /\ Publish

(* The context is cancelled between two commands, or a query fails; of a
   worktree that is not there all do, and the task must be started over. *)
Cancelled ==
  /\ pc \in {"setup", "integrate", "pick", "resolve", "work"}
  /\ Return
  /\ UNCHANGED <<git, tree>>

------------------------------------------------------------------------------
(* continueDependency: what an earlier execution, or the pick just tried,
   left behind *)

(* Fault: anybody's pick is continued. *)
MineOrForeign == pick # None /\ tree.pending \in {None, pick}

(* A pick that is under way is one of ours, and the one on record. *)
Mine == pick \in Dep /\ tree.pending \in {None, pick}

Conflict ==
  pc = "integrate" /\ index = "unmerged" /\ (pick = None \/ Mine)

Adopted == IF pick = None THEN tree ELSE Pending(tree, pick)

(* Fault: one attempt too few. *)
MayResolveLess == resolving /\ attempt + 1 < Len(Deps)

MayResolve == resolving /\ attempt < Len(Deps)

AskWorker ==
  /\ Conflict /\ MayResolve
  /\ tree' = Adopted
  /\ pc' = "resolve"
  /\ UNCHANGED <<git, context>>
  /\ Publish

(* The worker's profile may not edit files. *)
EditsNotAllowed ==
  /\ Conflict /\ MayResolve
  /\ tree' = Adopted
  /\ Return
  /\ UNCHANGED git

ReportConflict ==
  /\ Conflict /\ ~MayResolve
  /\ tree' = Adopted
  /\ Return
  /\ UNCHANGED git

(* Without a pick under way: the one on record is to be tried again, or was
   completed outside, which the last commit's message tells. *)
CompletedOutside == head # tree.pendingBase /\ head # <<>> /\ Last(head) = tree.pending
ChangedOutside == tree.pending # None /\ head # tree.pendingBase /\ ~CompletedOutside

Settled ==
  IF tree.pending = None THEN tree
  ELSE IF CompletedOutside THEN Rebased(Integrated(tree, tree.pending), head)
  ELSE NotPending(tree)

Settle ==
  /\ pc = "integrate" /\ pick = None /\ index # "unmerged"
  /\ ~ChangedOutside
  /\ tree' = Settled
  /\ pc' = "pick"
  /\ UNCHANGED <<git, database, context>>

(* An unrelated pick or commit, or markers in a staged file. *)
Refuse ==
  /\ pc = "integrate"
  /\ \/ pick # None /\ ~Mine /\ tree' = tree
     \/ pick # None /\ Mine /\ index = "marked" /\ tree' = Adopted
     \/ pick = None /\ index # "unmerged" /\ ChangedOutside /\ tree' = tree
  /\ Return
  /\ UNCHANGED git

(* git cherry-pick --continue, or --skip when nothing is staged. *)
CompletePick == IF index = "empty" THEN Skip(pick) ELSE Commit(pick)

Continuable == pc = "integrate" /\ Mine /\ index \in {"resolved", "empty"}

ContinuePick ==
  /\ Continuable
  /\ CompletePick
  /\ tree' = Rebased(Integrated(Adopted, pick), head')
  /\ pc' = "pick"
  /\ UNCHANGED <<database, context>>

(* The command fails, or is killed before or after its effect. *)
ContinueFails ==
  /\ Continuable
  /\ CompletePick \/ UNCHANGED git
  /\ tree' = Adopted
  /\ Return

(* The command succeeds, and the query for the new HEAD does not. *)
ContinueUnread ==
  /\ Continuable
  /\ CompletePick
  /\ tree' = Rebased(Integrated(Adopted, pick), None)
  /\ Return

------------------------------------------------------------------------------
(* The loop of IntegrateDependencies *)

(* Fault: any dependency that is not integrated may come next. *)
NextAny == Dep \ tree.integrated

NextDependency ==
  {Deps[i] : i \in {k \in DOMAIN Deps :
     /\ Deps[k] \notin tree.integrated
     /\ \A j \in 1 .. k - 1 : Deps[j] \in tree.integrated}}

Picking(c) == pc = "pick" /\ c \in NextDependency
Picked(c) == Pending(NotPending(tree), c)

PickApplies(c) ==
  /\ Picking(c)
  /\ index = "clean" /\ c \notin settled
  /\ Commit(c)
  /\ \/ (* and HEAD is read *)
        tree' = Rebased(Integrated(tree, c), head')
        /\ UNCHANGED <<pc, database, context>>
     \/ (* or is not: the context was cancelled meanwhile *)
        tree' = Integrated(tree, c) /\ Return
     \/ (* or git was killed after it had committed *)
        tree' = Picked(c) /\ Return

StopsWith(c) ==
  IF c \in settled /\ Len(head) >= MaxHistory THEN {"empty"}
  ELSE {"unmerged", "resolved", "empty"}

(* Conflicts, which rerere may resolve; or the change is there already.
   continueDependency looks at it at once, if the context allows. *)
PickStops(c) ==
  /\ Picking(c)
  /\ index = "clean"
  /\ pick' = c
  /\ index' \in StopsWith(c)
  /\ UNCHANGED <<head, settled>>
  /\ tree' = Picked(c)
  /\ (pc' = "integrate" /\ UNCHANGED <<database, context>>) \/ Return

(* Git refuses to pick on changes that are not committed, or is killed. *)
PickFails(c) ==
  /\ Picking(c)
  /\ index' \in {index, "dirty"}
  /\ UNCHANGED <<head, pick, settled>>
  /\ tree' = Picked(c)
  /\ Return

------------------------------------------------------------------------------
(* The worker *)

(* RunFromTier on the conflict, and StageResolvedDependency. *)
Resolve ==
  /\ pc = "resolve"
  /\ index' \in IF pick = None THEN {"dirty"} ELSE {"resolved", "empty"}
  /\ attempt' = attempt + 1
  /\ pc' = "integrate"
  /\ UNCHANGED <<head, pick, settled, place, tree, database, resolving>>

(* It gives up, leaves markers, or some of the files are staged. *)
ResolveFails ==
  /\ pc = "resolve"
  /\ index' \in {"unmerged", IF pick = None THEN "dirty" ELSE "resolved"}
  /\ Return
  /\ UNCHANGED <<head, pick, settled, tree>>

(* Fault: the flag is published with the result only. *)
ReadyUnpublished ==
  /\ pc = "pick" /\ Dep \subseteq tree.integrated
  /\ tree' = [tree EXCEPT !.ready = TRUE]
  /\ resolving' = FALSE
  /\ pc' = "work"
  /\ UNCHANGED <<git, place, database, attempt>>

(* Fault: the loop ends one dependency early. *)
ReadyEarly ==
  /\ pc = "pick" /\ Cardinality(Dep \ tree.integrated) <= 1
  /\ tree' = [tree EXCEPT !.ready = TRUE]
  /\ resolving' = FALSE
  /\ pc' = "work"
  /\ UNCHANGED <<git, place, attempt>>
  /\ Publish

Ready ==
  /\ pc = "pick" /\ Dep \subseteq tree.integrated
  /\ tree' = [tree EXCEPT !.ready = TRUE]
  /\ resolving' = FALSE
  /\ pc' = "work"
  /\ UNCHANGED <<git, place, attempt>>
  /\ Publish

(* The worker changes the worktree, and may be cancelled after that. *)
WorkerChanges ==
  /\ pc = "work"
  /\ Others < MaxOthers
  /\ head' = Append(head, Work)
  /\ UNCHANGED <<pick, index, settled, tree, database, pc, context>>

(* Complete: everything above BaseRef is the task's patch.  It fails when
   BaseRef is not in HEAD, which the worker may have rewritten. *)
Complete ==
  /\ pc = "work"
  /\ tree.base # None /\ IsPrefix(tree.base, head)
  /\ tree' = [tree EXCEPT !.result = [base |-> tree.base, content |-> head]]
  /\ Return
  /\ UNCHANGED git

------------------------------------------------------------------------------
(* The process dies, and the user acts on the worktree of a task that is not
   being executed *)

Crash ==
  /\ tree' = saved
  /\ loss' = IF loss = "save" /\ tree.ready /\ ~saved.ready THEN "readiness" ELSE loss
  /\ pc' = IF saved.result = None THEN "idle" ELSE "completed"
  /\ resolving' = FALSE /\ attempt' = 0
  /\ UNCHANGED <<git, place, saved>>

idleUnchanged == UNCHANGED <<tree, database, pc, context>>

FinishByHand ==
  /\ pc = "idle" /\ pick \in Dep /\ index \in {"resolved", "empty"}
  /\ CompletePick
  /\ idleUnchanged

StageByHand ==
  /\ pc = "idle" /\ index = "unmerged"
  /\ index' \in IF pick = None THEN {"dirty"} ELSE {"resolved", "empty", "marked"}
  /\ UNCHANGED <<head, pick, settled>>
  /\ idleUnchanged

(* cherry-pick --abort, or reset --hard. *)
AbortByHand ==
  /\ pc = "idle" /\ index # "clean"
  /\ pick' = None /\ index' = "clean"
  /\ UNCHANGED <<head, settled>>
  /\ idleUnchanged

(* cherry-pick --quit keeps the files as they are. *)
QuitByHand ==
  /\ pc = "idle" /\ pick # None
  /\ pick' = None
  /\ index' = CASE index = "empty" -> "clean"
                [] index = "unmerged" -> "unmerged"
                [] OTHER -> "dirty"
  /\ UNCHANGED <<head, settled>>
  /\ idleUnchanged

ForeignCommit ==
  /\ pc = "idle" /\ place = "made" /\ pick = None /\ index = "clean" /\ Others < MaxOthers
  /\ Commit(Foreign)
  /\ idleUnchanged

ForeignPick ==
  /\ pc = "idle" /\ place = "made" /\ pick = None /\ index = "clean"
  /\ pick' = Foreign /\ index' = "unmerged"
  /\ UNCHANGED <<head, settled>>
  /\ idleUnchanged

Removed ==
  /\ pc = "idle" /\ tree.made
  /\ head' = <<>> /\ pick' = None /\ index' = "clean" /\ settled' = {}
  /\ UNCHANGED <<pc, resolving, attempt>>

(* ResetDAGTask: the worktree is removed, and its record with it; the save is
   the last thing and may fail. *)
StartOver ==
  /\ Removed
  /\ place' = "none"
  /\ tree' = Fresh
  /\ saved' \in {saved, tree'}
  /\ loss' = IF saved' = tree' THEN "none" ELSE "save"

(* The branch cannot be deleted after the directory; the record stays. *)
StartOverFails ==
  /\ Removed
  /\ place = "made" /\ place' = "branch"
  /\ UNCHANGED <<tree, database>>

User ==
  \/ \E resolve \in BOOLEAN : Begin(resolve)
  \/ FinishByHand \/ StageByHand \/ AbortByHand \/ QuitByHand
  \/ ForeignCommit \/ ForeignPick \/ StartOver \/ StartOverFails

Task ==
  \/ Create \/ SetUp \/ ReceiveResult \/ Cancelled
  \/ AskWorker \/ EditsNotAllowed \/ ReportConflict \/ Settle \/ Refuse
  \/ ContinuePick \/ ContinueFails \/ ContinueUnread
  \/ \E c \in Dep : PickApplies(c) \/ PickStops(c) \/ PickFails(c)
  \/ Resolve \/ ResolveFails
  \/ Ready \/ WorkerChanges \/ Complete

Next == User \/ Task \/ Crash

Spec == Init /\ [][Next]_vars

------------------------------------------------------------------------------
(* What the user and the dependents may rely on *)

(* The record never claims an integration git does not have, in memory or
   where a restart finds it, whatever was killed, aborted or done by hand, and
   whatever the database refused to save.  (A record may outlive its worktree,
   when the save of a reset fails: then the worktree is not there.) *)
RecordIsTruthful ==
  place = "made" =>
    tree.integrated \subseteq settled /\ saved.integrated \subseteq settled

(* IntegrateDependencies takes the dependencies in order also when it starts
   again: none is settled before one that comes first. *)
SettledInOrder ==
  \A i, j \in DOMAIN Deps : i < j /\ Deps[j] \in settled => Deps[i] \in settled

(* A worker begins on all its dependencies, picked or resolved; and so it
   does when an interrupted task is continued. *)
ReadyMeansSettled ==
  /\ pc = "work" => settled = Dep
  /\ place = "made" /\ (tree.ready \/ saved.ready) => settled = Dep

(* A retry does not move the baseline over worker changes: they stay in the
   task's patch (TestDependencyContinuationKeepsWorkerCommitsInResult), unless
   the database refused to save that the dependencies were ready and the
   process died before anything else was saved. *)
WorkAboveBase ==
  place = "made" /\ loss # "readiness" => \A t \in {tree, saved} :
    t.base # None => \A i \in DOMAIN t.base : t.base[i] # Work

(* The dependent's patch has no inherited changes
   (TestWorktreeDependencyIntegrationReviewAndConflict). *)
PatchIsOwn ==
  tree.result # None =>
    \A i \in DOMAIN tree.result.content :
      i > Len(tree.result.base) => tree.result.content[i] \notin Dep

(* With "Resolve conflicts with worker" the worker is asked about every
   conflict: the attempts of the loop never run out. *)
EveryConflictAsked == resolving /\ Conflict => MayResolve
==============================================================================
