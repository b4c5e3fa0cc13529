------------------------------ MODULE TaskGraph ------------------------------
(***************************************************************************)
(* The dependency relation of a worker run's task graph.  D[t] is the set  *)
(* of task t's direct dependencies (DAGTask.Dependencies).  The closure is *)
(* stated as the least closed set, not computed as the code's searches do, *)
(* so that a proof can use it for any set of tasks.                        *)
(***************************************************************************)
EXTENDS FiniteSets

CONSTANT Task   \* ValidateDAG: 1 to 32 tasks

ASSUME TasksAssumption == IsFiniteSet(Task) /\ Task # {}

Relation == [Task -> SUBSET Task]

(* No task of S has a dependency outside S. *)
ClosedUnder(D, S) == \A t \in S : D[t] \subseteq S

(* The tasks dependencyOrder(tasks, t) visits: t's transitive dependencies. *)
Ancestors(D, t) ==
  {d \in Task : \A S \in SUBSET Task :
                  D[t] \subseteq S /\ ClosedUnder(D, S) => d \in S}

(* The graphs ValidateDAG accepts, as far as the relation goes. *)
Acyclic(D) == \A t \in Task : t \notin Ancestors(D, t)

==============================================================================
