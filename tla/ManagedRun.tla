----------------------------- MODULE ManagedRun -----------------------------
(***************************************************************************)
(* A run with a task graph as its Manager sees it: what WorkerRun does to  *)
(* its status, its cancel function and its snapshot are steps that         *)
(* WorkerManager allows, in a manager that has started this run.           *)
(***************************************************************************)
EXTENDS WorkerRun

CONSTANTS Id,            \* the run's, and its context's
          Ctx,
          None, MaxActive, MaxRetries

(* Of the tasks the Manager's decisions know only that there are some. *)
Shown(r, cancel) ==
  [graph |-> TRUE, planned |-> r.planned, status |-> r.status,
   cancel |-> cancel, retry |-> FALSE]

Kind == [plan |-> "plan", graph |-> "execute", merge |-> "merge"]

shownRuns == [r \in {Id} |-> Shown(run, IF Inactive THEN None ELSE Ctx)]
shownSaved == [r \in {Id} |-> Shown(disk, None)]
shownJobs ==
  [h \in {Ctx} |->
     IF Inactive THEN None
     ELSE [run |-> Id, kind |-> Kind[active], pc |-> "work", used |-> 0]]
shownCancelled == IF cancelled THEN {Ctx} ELSE {}

(* Which saves have failed is not in the state: where they may, one has. *)
Manager == INSTANCE WorkerManager WITH
  Run <- {Id}, Context <- {Ctx},
  runs <- shownRuns, chat <- [r \in {Id} |-> "configured"], saved <- shownSaved,
  lost <- IF SavesMayFail THEN {Id} ELSE {},
  jobs <- shownJobs, cancelled <- shownCancelled, stop <- "no"

(* Nothing else is None, and there is room for one run. *)
ASSUME ManagedAssumption ==
  /\ None \notin {Id, Ctx}
  /\ None \notin Manager!RunRecord \cup Manager!Job
  /\ MaxActive \in Nat \ {0} /\ MaxRetries \in Nat

(* What PlanDAG leaves, a run that is being planned, ... *)
Begun ==
  /\ shownRuns[Id] = Shown([planned |-> FALSE, status |-> "planning"], Ctx)
  /\ shownSaved[Id] = Shown([planned |-> FALSE, status |-> "planning"], None)
  /\ shownCancelled = {}

(* ... is from then on moved only as WorkerManager moves a run: it is planned,
   executed and merged one at a time, each has the outcomes its kind may have,
   none of them the plain one once cancelled, but for a merge, and what a
   restart makes of the snapshot is what WorkerManager says it does. *)
IsManaged == Begun /\ [][Manager!Next]_(Manager!vars)
=============================================================================
