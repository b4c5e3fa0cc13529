-------------------------- MODULE ManagedRunProofs --------------------------
(***************************************************************************)
(* A run with a task graph is moved as WorkerManager says its Manager      *)
(* moves one: the two modules, each written from its own functions of the  *)
(* code, agree on where they meet, for every graph, every failing save and *)
(* every crash.                                                            *)
(*                                                                         *)
(* First what the Manager's variables are in a state of WorkerRun, then,   *)
(* for each of its actions, which change of a run is that action, then the *)
(* actions of WorkerRun one by one.  IndInv and BranchInv say in what      *)
(* status an execution may be and that a merge has a plan; Quiet is what   *)
(* is needed beside them.                                                  *)
(***************************************************************************)
EXTENDS WorkerRunBranchProofs, ManagedRun, FiniteSetTheorems

(* What a goroutine of a run does. *)
Phases == {"plan", "graph", "merge"}

(* A snapshot is a record, and no record is None. *)
LEMMA ShownFacts ==
  ASSUME NEW r, r.status \in RunStatus, r.planned \in BOOLEAN,
         NEW c \in {None, Ctx}
  PROVE  /\ Shown(r, c) # None
         /\ Shown(r, c).graph = TRUE /\ Shown(r, c).planned = r.planned
         /\ Shown(r, c).status = r.status /\ Shown(r, c).cancel = c
         /\ Shown(r, c).retry = FALSE
<1>1. Shown(r, c) \in Manager!RunRecord
  BY DEF Shown, Manager!RunRecord, Manager!Settled, Manager!Resumable, Manager!Busy, RunStatus
<1> QED
  BY <1>1, ManagedAssumption DEF Shown

(* What the Manager's variables are. *)
LEMMA View ==
  ASSUME TypeOK
  PROVE  /\ shownRuns[Id] = Shown(run, IF active = "none" THEN None ELSE Ctx)
         /\ shownRuns[Id] # None
         /\ shownRuns[Id].graph = TRUE /\ shownRuns[Id].planned = run.planned
         /\ shownRuns[Id].status = run.status /\ shownRuns[Id].retry = FALSE
         /\ shownRuns[Id].cancel = IF active = "none" THEN None ELSE Ctx
         /\ active = "none" => shownJobs[Ctx] = None
         /\ active # "none" => /\ shownJobs[Ctx] # None
                               /\ shownJobs[Ctx].run = Id /\ shownJobs[Ctx].pc = "work"
                               /\ shownJobs[Ctx].kind = Kind[active]
                               /\ shownJobs[Ctx].used = 0
<1>1. run.status \in RunStatus /\ run.planned \in BOOLEAN
  BY DEF TypeOK, Snapshot
<1>2. shownRuns[Id] = Shown(run, IF active = "none" THEN None ELSE Ctx)
  BY DEF shownRuns, Inactive
<1>3. (IF active = "none" THEN None ELSE Ctx) \in {None, Ctx}
  OBVIOUS
<1>4. active = "none" => shownJobs[Ctx] = None
  BY DEF shownJobs, Inactive
<1>5. ASSUME active # "none"
      PROVE  /\ shownJobs[Ctx] # None
             /\ shownJobs[Ctx].run = Id /\ shownJobs[Ctx].pc = "work"
             /\ shownJobs[Ctx].kind = Kind[active] /\ shownJobs[Ctx].used = 0
  <2>1. shownJobs[Ctx] = [run |-> Id, kind |-> Kind[active], pc |-> "work", used |-> 0]
    BY <1>5 DEF shownJobs, Inactive
  <2>2. Kind[active] \in Manager!JobKind
    BY <1>5 DEF TypeOK, Kind, Manager!JobKind
  <2>3. 0 \in 0 .. MaxRetries
    BY ManagedAssumption
  <2>4. shownJobs[Ctx] \in Manager!Job
    BY <2>1, <2>2, <2>3 DEF Manager!Job
  <2> QED
    BY <2>1, <2>4, ManagedAssumption
<1>6. PICK c \in {None, Ctx} :
        shownRuns[Id] = Shown(run, c) /\ c = IF active = "none" THEN None ELSE Ctx
  BY <1>2
<1>7. /\ Shown(run, c) # None
      /\ Shown(run, c).graph = TRUE /\ Shown(run, c).planned = run.planned
      /\ Shown(run, c).status = run.status /\ Shown(run, c).cancel = c
      /\ Shown(run, c).retry = FALSE
  BY <1>1, ShownFacts
<1> QED
  BY <1>2, <1>4, <1>5, <1>6, <1>7

(* What the Manager's assignments make of a record. *)
Cleared(record) == [record EXCEPT !.cancel = None]
WithStatus(F, status) == [F EXCEPT ![Id].status = status]
WithContext(F, status, c, kept) ==
  [F EXCEPT ![Id].status = status, ![Id].cancel = c, ![Id].retry = @ /\ kept]
WithOutcome(F, status, plan) ==
  [F EXCEPT ![Id].cancel = None, ![Id].status = status, ![Id].planned = @ \/ plan]

(* A record of a run, after each of them, field by field. *)
LEMMA ClearedRecord ==
  ASSUME NEW record \in Manager!RunRecord
  PROVE  Cleared(record) = [graph |-> record.graph, planned |-> record.planned,
                            status |-> record.status, cancel |-> None,
                            retry |-> record.retry]
BY DEF Cleared, Manager!RunRecord

(* A new status, as MergeDAG sets it. *)
LEMMA StatusSet ==
  ASSUME NEW F \in [{Id} -> Manager!RunRecord], NEW H, H = [r \in {Id} |-> H[r]],
         NEW status,
         H[Id] = [graph |-> F[Id].graph, planned |-> F[Id].planned, status |-> status,
                  cancel |-> F[Id].cancel, retry |-> F[Id].retry]
  PROVE  H = WithStatus(F, status)
BY DEF WithStatus, Manager!RunRecord

(* A new status and cancel function, as Begin sets them. *)
LEMMA ContextSet ==
  ASSUME NEW F \in [{Id} -> Manager!RunRecord], NEW H, H = [r \in {Id} |-> H[r]],
         NEW status, NEW c, NEW kept \in BOOLEAN, ~F[Id].retry,
         H[Id] = [graph |-> F[Id].graph, planned |-> F[Id].planned, status |-> status,
                  cancel |-> c, retry |-> FALSE]
  PROVE  H = WithContext(F, status, c, kept)
BY DEF WithContext, Manager!RunRecord

(* An outcome, as Settle sets it. *)
LEMMA OutcomeSet ==
  ASSUME NEW F \in [{Id} -> Manager!RunRecord], NEW H, H = [r \in {Id} |-> H[r]],
         NEW status, NEW plan \in BOOLEAN,
         NEW planned \in BOOLEAN, planned <=> F[Id].planned \/ plan,
         H[Id] = [graph |-> F[Id].graph, planned |-> planned,
                  status |-> status, cancel |-> None, retry |-> F[Id].retry]
  PROVE  H = WithOutcome(F, status, plan)
BY DEF WithOutcome, Manager!RunRecord

(* The records have their types. *)
LEMMA ShownTypes ==
  ASSUME TypeOK
  PROVE  /\ shownRuns \in [{Id} -> Manager!RunRecord]
         /\ shownRuns = [r \in {Id} |-> shownRuns[r]]
         /\ shownRuns[Id] = [graph |-> TRUE, planned |-> run.planned, status |-> run.status,
                             cancel |-> IF active = "none" THEN None ELSE Ctx,
                             retry |-> FALSE]
         /\ shownRuns[Id].graph = TRUE /\ shownRuns[Id].planned = run.planned
         /\ shownRuns[Id].status = run.status /\ shownRuns[Id].retry = FALSE
         /\ shownRuns[Id].cancel = IF active = "none" THEN None ELSE Ctx
<1>1. run.status \in RunStatus /\ run.planned \in BOOLEAN
  BY DEF TypeOK, Snapshot
<1>2. shownRuns[Id] = [graph |-> TRUE, planned |-> run.planned, status |-> run.status,
                       cancel |-> IF active = "none" THEN None ELSE Ctx,
                       retry |-> FALSE]
  BY DEF shownRuns, Shown, Inactive
<1>3. (IF active = "none" THEN None ELSE Ctx) \in {Ctx} \cup {None}
  OBVIOUS
<1>4. shownRuns[Id] \in Manager!RunRecord
  BY <1>1, <1>2, <1>3
  DEF Manager!RunRecord, Manager!Settled, Manager!Resumable, Manager!Busy, RunStatus
<1>5. shownRuns = [r \in {Id} |-> shownRuns[r]]
  BY DEF shownRuns
<1>6. /\ shownRuns[Id].graph = TRUE /\ shownRuns[Id].planned = run.planned
      /\ shownRuns[Id].status = run.status /\ shownRuns[Id].retry = FALSE
      /\ shownRuns[Id].cancel = IF active = "none" THEN None ELSE Ctx
  BY <1>2
<1> QED
  BY <1>2, <1>4, <1>5, <1>6

(* ... after a step, too. *)
LEMMA ShownTypesNext ==
  ASSUME TypeOK'
  PROVE  /\ shownRuns' \in [{Id} -> Manager!RunRecord]
         /\ shownRuns' = [r \in {Id} |-> shownRuns'[r]]
         /\ shownRuns'[Id] = [graph |-> TRUE, planned |-> run'.planned, status |-> run'.status,
                              cancel |-> IF active' = "none" THEN None ELSE Ctx,
                              retry |-> FALSE]
         /\ shownRuns'[Id].graph = TRUE /\ shownRuns'[Id].planned = run'.planned
         /\ shownRuns'[Id].status = run'.status /\ shownRuns'[Id].retry = FALSE
         /\ shownRuns'[Id].cancel = IF active' = "none" THEN None ELSE Ctx
<1>1. run'.status \in RunStatus /\ run'.planned \in BOOLEAN
  BY DEF TypeOK, Snapshot
<1>2. shownRuns'[Id] = [graph |-> TRUE, planned |-> run'.planned, status |-> run'.status,
                        cancel |-> IF active' = "none" THEN None ELSE Ctx,
                        retry |-> FALSE]
  BY DEF shownRuns, Shown, Inactive
<1>3. (IF active' = "none" THEN None ELSE Ctx) \in {Ctx} \cup {None}
  OBVIOUS
<1>4. shownRuns'[Id] \in Manager!RunRecord
  BY <1>1, <1>2, <1>3
  DEF Manager!RunRecord, Manager!Settled, Manager!Resumable, Manager!Busy, RunStatus
<1>5. shownRuns' = [r \in {Id} |-> shownRuns'[r]]
  BY DEF shownRuns
<1>6. /\ shownRuns'[Id].graph = TRUE /\ shownRuns'[Id].planned = run'.planned
      /\ shownRuns'[Id].status = run'.status /\ shownRuns'[Id].retry = FALSE
      /\ shownRuns'[Id].cancel = IF active' = "none" THEN None ELSE Ctx
  BY <1>2
<1> QED
  BY <1>2, <1>4, <1>5, <1>6

(* A save, or one that fails where saves may. *)
LEMMA Saves ==
  ASSUME TypeOK'
  PROVE  /\ disk' = run' => Manager!Save(Id)
         /\ SavesMayFail /\ disk' = disk => Manager!SaveFails(Id)
<1>1. ASSUME disk' = run' PROVE Manager!Save(Id)
  <2>1. shownSaved'[Id] = [graph |-> TRUE, planned |-> run'.planned, status |-> run'.status,
                           cancel |-> None, retry |-> FALSE]
    BY <1>1 DEF shownSaved, Shown
  <2>2. shownSaved'[Id] = Cleared(shownRuns'[Id])
    <3>1. shownRuns'[Id] \in Manager!RunRecord
      BY ShownTypesNext
    <3>2. Cleared(shownRuns'[Id]) =
            [graph |-> shownRuns'[Id].graph, planned |-> shownRuns'[Id].planned,
             status |-> shownRuns'[Id].status, cancel |-> None,
             retry |-> shownRuns'[Id].retry]
      BY <3>1, ClearedRecord
    <3> QED
      BY <2>1, <3>2, ShownTypesNext
  <2>3. shownSaved'[Id] = Manager!Snapshot(Id)
    BY <2>2 DEF Manager!Snapshot, Cleared
  <2>4. shownSaved' = [shownSaved EXCEPT ![Id] = shownSaved'[Id]]
    BY DEF shownSaved
  <2> QED
    BY <2>3, <2>4 DEF Manager!Save
<1>2. ASSUME SavesMayFail, disk' = disk PROVE Manager!SaveFails(Id)
  <2>1. shownSaved' = shownSaved
    BY <1>2 DEF shownSaved
  <2> QED
    BY <1>2, <2>1 DEF Manager!SaveFails
<1> QED
  BY <1>1, <1>2

(* Nothing the Manager sees. *)
LEMMA Unseen ==
  ASSUME run'.status = run.status, run'.planned = run.planned, disk' = disk,
         active' = active, cancelled' = cancelled
  PROVE  UNCHANGED Manager!vars
<1>1. shownRuns' = shownRuns /\ shownSaved' = shownSaved /\ shownJobs' = shownJobs
      /\ shownCancelled' = shownCancelled
  BY DEF shownRuns, shownSaved, shownJobs, shownCancelled, Inactive, Shown
<1> QED
  BY <1>1 DEF Manager!vars, Manager!database, Manager!contexts

(* A publication or a recorded event of a goroutine: Emit. *)
LEMMA Publication ==
  ASSUME TypeOK, TypeOK', active \in Phases,
         run'.status = run.status, run'.planned = run.planned,
         active' = active,
         \/ disk' = run' /\ cancelled' = cancelled
         \/ SavesMayFail /\ disk' = disk /\ cancelled'
  PROVE  Manager!Event(Ctx)
<1>1. active # "none"
  BY DEF Phases
<1>2. shownRuns' = shownRuns /\ shownJobs' = shownJobs
  BY DEF shownRuns, shownJobs, Inactive, Shown
<1>3. Manager!Works(Ctx, "work") /\ shownJobs[Ctx].run = Id /\ shownRuns[Id] # None
  BY <1>1, View DEF Manager!Works
<1>4. CASE disk' = run' /\ cancelled' = cancelled
  <2>1. shownCancelled' = shownCancelled
    BY <1>4 DEF shownCancelled
  <2> QED
    BY <1>2, <1>3, <1>4, <2>1, Saves DEF Manager!Event, Manager!Listed
<1>5. CASE SavesMayFail /\ disk' = disk /\ cancelled'
  <2>1. shownCancelled' = shownCancelled \cup {Ctx}
    BY <1>5 DEF shownCancelled
  <2> QED
    BY <1>2, <1>3, <1>5, <2>1, Saves DEF Manager!Event, Manager!Listed
<1> QED
  BY <1>4, <1>5

(* A change the user makes of a run at rest, that its status does not show. *)
LEMMA Configured ==
  ASSUME TypeOK, TypeOK', active = "none", active' = "none",
         run'.status = run.status, run'.planned = run.planned,
         cancelled' = cancelled, disk' = run'
  PROVE  Manager!UpdateRunConfig(Id)
<1>1. shownRuns' = shownRuns /\ shownJobs' = shownJobs /\ shownCancelled' = shownCancelled
  BY DEF shownRuns, shownJobs, shownCancelled, Inactive, Shown
<1>2. Manager!Inactive(Id)
  BY View DEF Manager!Inactive, Manager!Listed
<1> QED
  BY <1>1, <1>2, Saves DEF Manager!UpdateRunConfig, Manager!Closed, Manager!contexts

(* The same where the save fails and the change stays in memory. *)
LEMMA Tried ==
  ASSUME TypeOK, TypeOK', active = "none", active' = "none",
         run'.status = run.status, run'.planned = run.planned,
         cancelled' = cancelled, disk' = run' \/ disk' = disk
  PROVE  Manager!UpdateRunConfig(Id) \/ UNCHANGED Manager!vars
BY Configured, Unseen

(* The cancel function and the status are set, the goroutine starts. *)
LEMMA Begins ==
  ASSUME TypeOK, TypeOK', active = "none", NEW kind \in Phases, active' = kind,
         run'.planned = run.planned, cancelled = FALSE, cancelled' = FALSE
  PROVE  Manager!Begin(Id, Kind[kind], run'.status)
<1>1. shownJobs[Ctx] = None /\ Manager!FreeContexts = {Ctx}
  BY View DEF Manager!FreeContexts
<1>2. Manager!NewContext = Ctx
  BY <1>1 DEF Manager!NewContext
<1>3. shownRuns' = WithContext(shownRuns, run'.status, Ctx,
                                Kind[kind] \in {"execute", "merge"})
  <2>1. active' # "none"
    BY DEF Phases
  <2>2. shownRuns'[Id] =
          [graph |-> shownRuns[Id].graph, planned |-> shownRuns[Id].planned,
           status |-> run'.status, cancel |-> Ctx, retry |-> FALSE]
    BY <2>1, ShownTypes, ShownTypesNext
  <2> DEFINE kept == Kind[kind] \in {"execute", "merge"}
  <2>3. kept \in BOOLEAN
    OBVIOUS
  <2> HIDE DEF kept
  <2>4. shownRuns' = WithContext(shownRuns, run'.status, Ctx, kept)
    BY <2>2, <2>3, ShownTypes, ShownTypesNext, ContextSet
  <2> QED
    BY <2>4 DEF kept
<1>4. shownJobs' = [shownJobs EXCEPT ![Ctx] =
                      [run |-> Id, kind |-> Kind[kind], pc |-> "work", used |-> 0]]
  <2>1. active' # "none"
    BY DEF Phases
  <2> QED
    BY <2>1 DEF shownJobs, Inactive
<1>5. shownCancelled' = shownCancelled
  BY DEF shownCancelled
<1> QED
  BY <1>1, <1>2, <1>3, <1>4, <1>5 DEF Manager!Begin, WithContext

(* A phase whose first save fails: the status stays, and nothing begins. *)
LEMMA BeginsNot ==
  ASSUME TypeOK, TypeOK', active = "none", active' = "none",
         run'.planned = run.planned, cancelled' = cancelled,
         NEW kind \in Manager!JobKind, SavesMayFail, disk' = disk
  PROVE  Manager!BeginGraph(Id, kind, run'.status)
<1>1. shownRuns' = WithStatus(shownRuns, run'.status)
  <2>1. shownRuns'[Id] =
          [graph |-> shownRuns[Id].graph, planned |-> shownRuns[Id].planned,
           status |-> run'.status, cancel |-> shownRuns[Id].cancel,
           retry |-> shownRuns[Id].retry]
    BY ShownTypes, ShownTypesNext
  <2> QED
    BY <2>1, ShownTypes, ShownTypesNext, StatusSet
<1>2. shownJobs' = shownJobs /\ shownCancelled' = shownCancelled
  BY DEF shownJobs, shownCancelled, Inactive
<1> QED
  BY <1>1, <1>2, Saves DEF Manager!BeginGraph, WithStatus, Manager!contexts

(* What is decided of the results of a run at rest. *)
LEMMA Reviews ==
  ASSUME TypeOK, TypeOK', active = "none", active' = "none",
         run.planned, run'.planned = run.planned, cancelled' = cancelled, disk' = run',
         run'.status \in {run.status, "completed", "review"},
         run'.status = "review" => run.status \in {"completed", "review"}
  PROVE  Manager!Review(Id)
<1>1. shownRuns' = WithStatus(shownRuns, run'.status)
  <2>1. shownRuns'[Id] =
          [graph |-> shownRuns[Id].graph, planned |-> shownRuns[Id].planned,
           status |-> run'.status, cancel |-> shownRuns[Id].cancel,
           retry |-> shownRuns[Id].retry]
    BY ShownTypes, ShownTypesNext
  <2> QED
    BY <2>1, ShownTypes, ShownTypesNext, StatusSet
<1>2. shownJobs' = shownJobs /\ shownCancelled' = shownCancelled
  BY DEF shownJobs, shownCancelled, Inactive
<1>3. /\ Manager!Inactive(Id) /\ shownRuns[Id].graph /\ shownRuns[Id].planned
      /\ shownRuns[Id].status = run.status
  BY View DEF Manager!Inactive, Manager!Listed
<1> QED
  BY <1>1, <1>2, <1>3, Saves DEF Manager!Review, WithStatus, Manager!contexts

(* A phase ends, with an outcome of its kind. *)
LEMMA Ends ==
  ASSUME TypeOK, TypeOK', active \in Phases, active' = "none", cancelled' = FALSE,
         disk' = run' \/ (SavesMayFail /\ disk' = disk),
         active = "plan" => \/ /\ ~cancelled /\ run'.status = "draft" /\ run'.planned
                            \/ /\ ~cancelled /\ run'.status = "failed"
                               /\ run'.planned = run.planned
                            \/ /\ cancelled /\ run'.status = "cancelled"
                               /\ run'.planned \/ run'.planned = run.planned,
         active # "plan" => run'.planned = run.planned,
         active = "graph" => IF cancelled THEN run'.status = "cancelled"
                                          ELSE run'.status \in {"review", "failed"},
         active = "merge" => run'.status \in {"review", "completed"}
  PROVE  Manager!Finish(Ctx)
<1> DEFINE plan == active = "plan" /\ run'.planned /\ run'.status # "failed"
<1>0. active # "none" /\ run.planned \in BOOLEAN /\ run'.planned \in BOOLEAN
  BY DEF Phases, TypeOK, Snapshot
<1>1. /\ shownJobs[Ctx] # None /\ shownJobs[Ctx].run = Id /\ shownRuns[Id] # None
      /\ Manager!Works(Ctx, "work") /\ shownJobs[Ctx].kind = Kind[active]
  BY <1>0, View DEF Manager!Works
<1>2. Ctx \in shownCancelled <=> cancelled
  BY DEF shownCancelled
<1>3. shownRuns' = WithOutcome(shownRuns, run'.status, plan)
  <2>1. (run'.planned <=> run.planned \/ plan) /\ plan \in BOOLEAN
    BY <1>0 DEF Phases
  <2>2. shownRuns'[Id] =
          [graph |-> shownRuns[Id].graph, planned |-> run'.planned,
           status |-> run'.status, cancel |-> None, retry |-> shownRuns[Id].retry]
    BY ShownTypes, ShownTypesNext
  <2> HIDE DEF plan
  <2> QED
    BY <1>0, <2>1, <2>2, ShownTypes, ShownTypesNext, OutcomeSet
<1>4. run'.status \in Manager!Outcomes(Ctx)
  <2>1. CASE active = "plan"
    BY <1>1, <1>2, <2>1 DEF Manager!Outcomes, Manager!Ends, Kind
  <2>2. CASE active = "graph"
    BY <1>1, <1>2, <2>2 DEF Manager!Outcomes, Manager!Ends, Kind
  <2>3. CASE active = "merge"
    BY <1>1, <1>2, <2>3 DEF Manager!Outcomes, Manager!Ends, Kind
  <2> QED
    BY <2>1, <2>2, <2>3 DEF Phases
<1>5. plan \in Manager!MayPlan(Ctx, run'.status)
  <2>1. CASE active = "plan"
    BY <1>0, <1>1, <2>1 DEF Manager!MayPlan, Kind
  <2>2. CASE active # "plan"
    BY <1>1, <2>2 DEF Manager!MayPlan, Kind, Phases
  <2> QED
    BY <2>1, <2>2
<1>6. shownJobs' = [shownJobs EXCEPT ![Ctx] = None] /\ shownCancelled' = shownCancelled \ {Ctx}
  BY DEF shownJobs, shownCancelled, Inactive
<1> HIDE DEF plan
<1>7. shownRuns' = Manager!Settle(Ctx, run'.status, plan)
  BY <1>1, <1>3 DEF Manager!Settle, WithOutcome
<1> QED
  BY <1>1, <1>4, <1>5, <1>6, <1>7, Saves DEF Manager!Finish, Manager!Listed, Manager!End

(* The cancel function is called. *)
LEMMA Cancels ==
  ASSUME TypeOK, active \in Phases, active' = active, run' = run, disk' = disk,
         cancelled'
  PROVE  Manager!Cancel(Id)
<1>1. active # "none"
  BY DEF Phases
<1>2. Ctx # None
  BY ManagedAssumption
<1>3. Manager!Active(Id) /\ shownRuns[Id].cancel = Ctx
  BY <1>1, <1>2, View DEF Manager!Active, Manager!Listed
<1>4. /\ shownRuns' = shownRuns /\ shownSaved' = shownSaved /\ shownJobs' = shownJobs
      /\ shownCancelled' = shownCancelled \cup {Ctx}
  BY DEF shownRuns, shownSaved, shownJobs, shownCancelled, Inactive
<1> QED
  BY <1>3, <1>4 DEF Manager!Cancel, Manager!database

(* The number of runs is the same for both. *)
LEMMA NobodyCounted == Manager!Cardinality({}) = Cardinality({})
BY DEF Manager!Cardinality, Cardinality

(* Its only run is at rest, so there is room. *)
LEMMA Room ==
  ASSUME TypeOK, active = "none"
  PROVE  /\ Manager!HasCapacity /\ ~Manager!Closed /\ Manager!Inactive(Id)
         /\ shownRuns[Id].graph /\ shownRuns[Id].planned = run.planned
<1>1. Manager!Inactive(Id) /\ shownRuns[Id].graph /\ shownRuns[Id].planned = run.planned
  BY View DEF Manager!Inactive, Manager!Listed
<1>2. {r \in {Id} : Manager!Active(r)} = {}
  BY <1>1 DEF Manager!Active, Manager!Inactive
<1>3. Manager!Cardinality({r \in {Id} : Manager!Active(r)}) = 0
  BY <1>2, NobodyCounted, FS_EmptySet
<1>4. Manager!HasCapacity
  BY <1>3, ManagedAssumption DEF Manager!HasCapacity
<1> QED
  BY <1>1, <1>4 DEF Manager!Closed

(* What a restart may make of a snapshot. *)
Repaired(s) == [s EXCEPT !.status = "cancelled", !.retry = FALSE]
Found(s, status) == [s EXCEPT !.status = status]

(* Both, field by field: an interrupted phase, ... *)
LEMMA RepairedRecord ==
  ASSUME NEW s \in Manager!RunRecord, NEW g, g = Repaired(s)
  PROVE  g = [graph |-> s.graph, planned |-> s.planned, status |-> "cancelled",
              cancel |-> s.cancel, retry |-> FALSE]
BY DEF Repaired, Manager!RunRecord

(* ... and a merge that had reached the branch. *)
LEMMA FoundRecord ==
  ASSUME NEW s \in Manager!RunRecord, NEW status
  PROVE  Found(s, status) = [graph |-> s.graph, planned |-> s.planned, status |-> status,
                             cancel |-> s.cancel, retry |-> s.retry]
BY DEF Found, Manager!RunRecord

(* restore changes the status of a run, and its tasks. *)
LEMMA RestoredStatus ==
  ASSUME TypeOK
  PROVE  /\ Restored(disk).planned = disk.planned
         /\ Restored(disk) \in Snapshot
         /\ \/ Restored(disk).status = disk.status
               /\ disk.status \notin {"running", "planning", "merging"}
            \/ Restored(disk).status = "cancelled"
               /\ disk.status \in {"running", "planning", "merging"}
            \/ Restored(disk).status \in {"review", "completed"}
               /\ disk.status = "merging"
<1>0. /\ disk \in Snapshot /\ disk.mergeTasks \in SUBSET Task
      /\ MarkMerged(disk, disk.mergeTasks) \in Snapshot
  BY RecordsTyped DEF TypeOK, Snapshot
<1>1. CASE disk.status = "merging" /\ MergedCandidate(disk)
  <2> DEFINE m == [MarkMerged(disk, disk.mergeTasks) EXCEPT !.status = "review"]
  <2>1. m.planned = disk.planned /\ m.status = "review" /\ m \in Snapshot
    BY <1>0 DEF MarkMerged, Snapshot, RunStatus
  <2>2. Restored(disk) = Reviewed(m)
    BY <1>1 DEF Restored
  <2> HIDE DEF m
  <2>3. Reviewed(m).planned = m.planned /\ Reviewed(m).status \in {"review", "completed"}
        /\ Reviewed(m) \in Snapshot
    BY <2>1 DEF Reviewed, ReviewStatus, Snapshot, RunStatus
  <2> QED
    BY <1>1, <2>1, <2>2, <2>3
<1>2. CASE disk.status \in {"running", "planning", "merging"}
           /\ ~(disk.status = "merging" /\ MergedCandidate(disk))
  <2>1. Restored(disk) = Interrupted(disk)
    BY <1>2 DEF Restored
  <2>2. Interrupted(disk) \in Snapshot
    BY <1>0, RecordsTyped
  <2>3. Interrupted(disk).planned = disk.planned /\ Interrupted(disk).status = "cancelled"
    BY <1>0 DEF Interrupted, Snapshot
  <2> QED
    BY <1>2, <2>1, <2>2, <2>3
<1>3. CASE disk.status \notin {"running", "planning", "merging"}
  <2>1. Restored(disk) = disk
    BY <1>3 DEF Restored
  <2> QED
    BY <1>0, <1>3, <2>1
<1> QED
  BY <1>1, <1>2, <1>3

(* A restart makes of the snapshot what WorkerManager says it may. *)
LEMMA Restarts ==
  ASSUME TypeOK, TypeOK', Crash
  PROVE  Manager!Crash
<1> DEFINE s == shownSaved[Id]
           q == Restored(disk)
<1>1. /\ run' = q /\ disk' = disk /\ active' = "none" /\ cancelled' = FALSE
  BY DEF Crash, End
<1>2. disk.status \in RunStatus /\ disk.planned \in BOOLEAN
  BY DEF TypeOK, Snapshot
<1>3. /\ s = [graph |-> TRUE, planned |-> disk.planned, status |-> disk.status,
              cancel |-> None, retry |-> FALSE]
      /\ s # None
      /\ s.graph = TRUE /\ s.planned = disk.planned /\ s.status = disk.status
      /\ s.cancel = None /\ s.retry = FALSE
      /\ s \in Manager!RunRecord
  <2>1. s = Shown(disk, None)
    BY DEF shownSaved
  <2>2. s # None /\ s.graph = TRUE /\ s.planned = disk.planned /\ s.status = disk.status
        /\ s.cancel = None /\ s.retry = FALSE
    <3> DEFINE x == Shown(disk, None)
    <3>1. /\ x # None /\ x.graph = TRUE /\ x.planned = disk.planned
          /\ x.status = disk.status /\ x.cancel = None /\ x.retry = FALSE
      <4>1. None \in {None, Ctx}
        OBVIOUS
      <4> QED
        BY <1>2, <4>1, ShownFacts
    <3> HIDE DEF x, s
    <3>2. s = x
      BY <2>1 DEF x
    <3> QED
      BY <3>1, <3>2
  <2>3. s = [graph |-> TRUE, planned |-> disk.planned, status |-> disk.status,
              cancel |-> None, retry |-> FALSE]
    BY <2>1 DEF Shown
  <2>4. s \in Manager!RunRecord
    BY <1>2, <2>3
    DEF Manager!RunRecord, Manager!Settled, Manager!Resumable, Manager!Busy, RunStatus
  <2> QED
    BY <2>2, <2>3, <2>4
<1>4. shownRuns'[Id] = [graph |-> TRUE, planned |-> q.planned, status |-> q.status,
                        cancel |-> None, retry |-> FALSE]
  BY <1>1, ShownTypesNext
<1>5. /\ q.planned = disk.planned
      /\ \/ q.status = disk.status
            /\ disk.status \notin {"running", "planning", "merging"}
         \/ q.status = "cancelled"
            /\ disk.status \in {"running", "planning", "merging"}
         \/ q.status \in {"review", "completed"} /\ disk.status = "merging"
  BY RestoredStatus
<1> HIDE DEF s, q
<1>6. Manager!Restorations("configured", s) =
        {Manager!Recovered(s)} \cup
        {Found(s, status) :
           status \in {x \in {"review", "completed"} : s # None /\ s.status = "merging"}}
  BY DEF Manager!Restorations, Found
<1>7. shownRuns'[Id] \in Manager!Restorations("configured", s)
  <2>1. CASE q.status = disk.status /\ disk.status \notin {"running", "planning", "merging"}
    <3>1. Manager!Recovered(s) = s
      BY <1>3, <2>1 DEF Manager!Recovered, Manager!Busy
    <3>2. shownRuns'[Id] = s
      BY <1>3, <1>4, <1>5, <2>1
    <3> QED
      BY <1>6, <3>1, <3>2
  <2>2. CASE q.status = "cancelled" /\ disk.status \in {"running", "planning", "merging"}
    <3>1. Manager!Recovered(s) = Repaired(s)
      BY <1>3, <2>2 DEF Manager!Recovered, Manager!Busy, Repaired
    <3>2. Repaired(s) =
            [graph |-> s.graph, planned |-> s.planned, status |-> "cancelled",
             cancel |-> s.cancel, retry |-> FALSE]
      BY <1>3, RepairedRecord
    <3>3. shownRuns'[Id] = Repaired(s)
      BY <1>3, <1>4, <1>5, <2>2, <3>2
    <3> QED
      BY <1>6, <3>1, <3>3
  <2>3. CASE q.status \in {"review", "completed"} /\ disk.status = "merging"
    <3>1. Found(s, q.status) = [graph |-> s.graph, planned |-> s.planned,
                                status |-> q.status, cancel |-> s.cancel,
                                retry |-> s.retry]
      BY <1>3, FoundRecord
    <3>2. shownRuns'[Id] = Found(s, q.status)
      BY <1>3, <1>4, <1>5, <3>1
    <3> QED
      BY <1>3, <1>6, <2>3, <3>2
  <2> QED
    BY <1>5, <2>1, <2>2, <2>3
<1>8. /\ shownRuns' = [r \in {Id} |-> shownRuns'[r]]
      /\ shownSaved' = shownSaved
      /\ shownJobs' = [h \in {Ctx} |-> None] /\ shownCancelled' = {}
  BY <1>1 DEF shownRuns, shownSaved, shownJobs, shownCancelled, Inactive
<1> DEFINE chats == [r \in {Id} |-> "configured"]
<1>9. Manager!Restart(chats)
  <2>1. \A r \in {Id} : shownRuns'[r] \in Manager!Restorations(chats[r], shownSaved[r])
    BY <1>7 DEF s
  <2>2. shownRuns' \in [{Id} -> UNION {Manager!Restorations(chats[r], shownSaved[r]) : r \in {Id}}]
    BY <1>8, <2>1
  <2> QED
    BY <1>8, <2>1, <2>2 DEF Manager!Restart
<1> QED
  BY <1>9 DEF Manager!Crash
------------------------------------------------------------------------------
(* Each step of a run *)

(* A cancelled context belongs to an execution. *)
Quiet == Inactive => ~cancelled

(* Every step keeps it so. *)
LEMMA QuietKept ==
  ASSUME TypeOK, Quiet, [Next]_vars
  PROVE  Quiet'
<1>1. CASE UNCHANGED vars
  BY <1>1 DEF vars, Quiet, Inactive
<1>2. CASE Planner
  BY <1>2 DEF Planner, PlanSucceeds, PlanFails, End, Quiet
<1>3. CASE Executor
  <2>1. ASSUME NEW t \in Task, TaskStep(t)
        PROVE  active' = active /\ cancelled' = cancelled
    BY <2>1 DEF TaskStep, BlockTask, ChooseTask, LaunchTask, ReceiveResult, SetUp, SetUpFails,
                Integrate, IntegrateFails, Complete, ExecuteFails, ScheduleRetry,
                RetryNow, RetryCancelled, jobUnchanged
  <2>2. AwaitResult \/ FinishGraph => Quiet'
    BY DEF AwaitResult, FinishGraph, End, Quiet, Inactive
  <2> QED
    BY <1>3, <2>1, <2>2 DEF Executor, Quiet, Inactive
<1>4. CASE MergeStep
  BY <1>4 DEF MergeStep, MergeCreate, MergeCreateFails, MergeIntegrate,
     MergeIntegrateFails, MergeCheckpoint, FastForward, FastForwardFails, RecordMerge,
     RecordMergeUnsaved, MergeFails, RemoveMergedTree, FinishMerge, mergeUnchanged,
     End, Quiet, Inactive
<1>5. CASE User
  <2>1. RetryPlanning \/ UpdateDAG \/ UpdateRunConfig \/ ExecuteDAG \/ Cancel
        \/ MergeDAG \/ CleanupDAG => Quiet'
    BY DEF RetryPlanning, UpdateDAG, UpdateRunConfig, ExecuteDAG, Cancel, MergeDAG,
           CleanupDAG, Begin, Quiet, Inactive
  <2>2. ASSUME NEW t \in Task,
               \/ \E resolve \in BOOLEAN : RetryDAGTask(t, resolve)
               \/ ResetDAGTask(t) \/ UseDAGTaskProfile(t)
               \/ \E decision \in {"accepted", "rejected"} : ReviewDAGTask(t, decision)
        PROVE  Quiet'
    BY <2>2 DEF RetryDAGTask, ResetDAGTask, UseDAGTaskProfile, ReviewDAGTask, Quiet,
                Inactive
  <2> QED
    BY <1>5, <2>1, <2>2 DEF User
<1>6. CASE RecordEvent
  BY <1>6 DEF RecordEvent, Quiet, Inactive
<1>7. CASE Crash
  BY <1>7 DEF Crash, End, Quiet
<1>8. CASE CommitToBranch
  BY <1>8 DEF CommitToBranch, Quiet, Inactive
<1> QED
  BY <1>1, <1>2, <1>3, <1>4, <1>5, <1>6, <1>7, <1>8 DEF Next

(* The steps WorkerManager knows of a single run. *)
ManagedStep ==
  \/ Manager!Event(Ctx) \/ Manager!Finish(Ctx) \/ Manager!Cancel(Id)
  \/ Manager!UpdateRunConfig(Id) \/ Manager!Review(Id) \/ Manager!RetryPlanning(Id)
  \/ Manager!ExecuteDAG(Id) \/ Manager!MergeDAG(Id) \/ Manager!Crash
  \/ UNCHANGED Manager!vars

(* ... are steps of its next-state relation. *)
LEMMA StepAllowed == ManagedStep => [Manager!Next]_(Manager!vars)
BY DEF ManagedStep, Manager!Next

(* What a goroutine does between its first save and its last. *)
LEMMA Works ==
  ASSUME TypeOK, TypeOK', active \in Phases,
         run'.status = run.status, run'.planned = run.planned,
         active' = active, cancelled' = cancelled, disk' = run' \/ disk' = disk
  PROVE  ManagedStep
BY Publication, Unseen DEF ManagedStep

(* plan ends as a plan may. *)
LEMMA PlannerManaged ==
  ASSUME TypeOK, TypeOK', BranchInv, Planner
  PROVE  ManagedStep
<1>0. active = "plan" /\ ~run.planned /\ run \in Snapshot
  BY DEF Planner, PlanSucceeds, PlanFails, BranchInv, Planned, TypeOK
<1>1. active' = "none" /\ cancelled' = FALSE /\ (disk' = run' \/ (SavesMayFail /\ disk' = disk))
  BY DEF Planner, PlanSucceeds, PlanFails, End, TrySave, Save, SaveFails
<1>2. CASE PlanSucceeds
  <2>1. run'.planned /\ run'.status = EndStatus("draft")
    BY <1>0, <1>2 DEF PlanSucceeds, Snapshot
  <2> QED
    BY <1>0, <1>1, <2>1, Ends DEF EndStatus, ManagedStep, Phases
<1>3. CASE PlanFails
  <2>1. run'.planned = run.planned /\ run'.status = EndStatus("failed")
    BY <1>0, <1>3 DEF PlanFails, Snapshot
  <2> QED
    BY <1>0, <1>1, <2>1, Ends DEF EndStatus, ManagedStep, Phases
<1> QED
  BY <1>2, <1>3 DEF Planner

(* executeDAG publishes, and ends as an execution may. *)
LEMMA ExecutorManaged ==
  ASSUME IndInv, IndInv', Executor
  PROVE  ManagedStep
<1>0. TypeOK /\ TypeOK' /\ ExecutorInv /\ LoopInv /\ run \in Snapshot
  BY DEF IndInv, TypeOK
<1>1. ASSUME NEW t \in Task, TaskStep(t) PROVE ManagedStep
  <2>1. active = "graph" /\ active' = "graph" /\ run'.status = run.status
    BY <1>0, <1>1, TaskStepScope
  <2>2. run'.planned = run.planned
    BY <1>1, TaskStepWork
  <2>3. cancelled' = cancelled /\ (disk' = run' \/ disk' = disk)
    BY <1>1 DEF TaskStep, BlockTask, ChooseTask, LaunchTask, ReceiveResult, SetUp, SetUpFails,
                Integrate, IntegrateFails, Complete, ExecuteFails, ScheduleRetry,
                RetryNow, RetryCancelled, jobUnchanged, Publish, Exit, TrySave, Save,
                SaveFails
  <2> QED
    BY <1>0, <2>1, <2>2, <2>3, Works DEF Phases
<1>2. CASE AwaitResult
  BY <1>2, Unseen DEF AwaitResult, ManagedStep
<1>3. CASE FinishGraph
  <2>1. active = "graph" /\ active' = "none" /\ cancelled' = FALSE
        /\ (disk' = run' \/ (SavesMayFail /\ disk' = disk))
    BY <1>3 DEF FinishGraph, ScanEnded, End, TrySave, Save, SaveFails
  <2> DEFINE end == IF \A t \in Task : graph[t].status = "completed"
                      THEN "review" ELSE "failed"
  <2>2. run' = [run EXCEPT !.status = EndStatus(end)]
    BY <1>3 DEF FinishGraph
  <2>3. end \in {"review", "failed"}
    OBVIOUS
  <2> HIDE DEF end
  <2>4. run'.planned = run.planned /\ run'.status = EndStatus(end)
    BY <1>0, <2>2 DEF Snapshot
  <2> QED
    BY <1>0, <2>1, <2>3, <2>4, Ends DEF EndStatus, ManagedStep, Phases
<1> QED
  BY <1>1, <1>2, <1>3 DEF Executor

(* recordDAGEvent saves, or cancels. *)
LEMMA RecordEventManaged ==
  ASSUME TypeOK, TypeOK', RecordEvent
  PROVE  ManagedStep
<1>1. /\ active \in Phases /\ run' = run /\ active' = active
      /\ \/ disk' = run' /\ cancelled' = cancelled
         \/ SavesMayFail /\ disk' = disk /\ cancelled'
  BY DEF RecordEvent, SaveFails, Phases
<1> QED
  BY <1>1, Publication DEF ManagedStep

(* mergeDAG saves its checkpoints and its marks, and ends in review or completed. *)
LEMMA MergeStepManaged ==
  ASSUME TypeOK, TypeOK', BranchInv, MergeStep
  PROVE  ManagedStep
<1>0. /\ active = "merge" /\ active \in Phases /\ run.status = "merging"
      /\ run \in Snapshot
      /\ MarkMerged(run, merge.selected) \in Snapshot
      /\ MarkMerged(run, merge.selected).planned = run.planned
      /\ MarkMerged(run, merge.selected).status = run.status
  <2>1. active = "merge"
    BY DEF MergeStep, MergeCreate, MergeCreateFails, MergeIntegrate,
       MergeIntegrateFails, MergeCheckpoint, FastForward, FastForwardFails, RecordMerge,
       RecordMergeUnsaved, MergeFails, RemoveMergedTree, FinishMerge, Merging, Succeeded
  <2>2. run \in Snapshot /\ merge.selected \in SUBSET Task
    BY DEF TypeOK, Merge
  <2>3. MarkMerged(run, merge.selected).planned = run.planned
        /\ MarkMerged(run, merge.selected).status = run.status
    BY <2>2 DEF MarkMerged, Snapshot
  <2> QED
    BY <2>1, <2>2, <2>3, RecordsTyped DEF BranchInv, CandidateInv, Phases
<1>1. CASE MergeCreate \/ MergeCreateFails \/ MergeCheckpoint \/ RecordMerge
           \/ RemoveMergedTree
  <2>1. /\ active' = active /\ cancelled' = cancelled
        /\ disk' = run' \/ disk' = disk
    BY <1>1 DEF MergeCreate, MergeCreateFails, MergeCheckpoint, RecordMerge,
                RemoveMergedTree, mergeUnchanged, TrySave, Save, SaveFails
  <2>2. run'.status = run.status /\ run'.planned = run.planned
    <3>1. CASE MergeCreate \/ MergeCreateFails \/ MergeCheckpoint
      BY <1>0, <3>1 DEF MergeCreate, MergeCreateFails, MergeCheckpoint, Snapshot
    <3>2. CASE RecordMerge
      BY <1>0, <3>2 DEF RecordMerge
    <3>3. CASE RemoveMergedTree
      BY <1>0, <3>3 DEF RemoveMergedTree, Snapshot
    <3> QED
      BY <1>1, <3>1, <3>2, <3>3
  <2> QED
    BY <1>0, <2>1, <2>2, Works
<1>2. CASE MergeIntegrate \/ MergeIntegrateFails \/ FastForward \/ FastForwardFails
  <2>1. run' = run /\ disk' = disk /\ active' = active /\ cancelled' = cancelled
    BY <1>2 DEF MergeIntegrate, MergeIntegrateFails, FastForward, FastForwardFails,
                mergeUnchanged
  <2> QED
    BY <2>1, Unseen DEF ManagedStep
<1>3. CASE RecordMergeUnsaved \/ MergeFails \/ FinishMerge
  <2>1. /\ active' = "none" /\ cancelled' = FALSE
        /\ disk' = run' \/ (SavesMayFail /\ disk' = disk)
    BY <1>3 DEF RecordMergeUnsaved, MergeFails, FinishMerge, End, TrySave, Save,
                SaveFails
  <2>2. run'.planned = run.planned /\ run'.status \in {"review", "completed"}
    <3>1. CASE RecordMergeUnsaved
      <4> DEFINE m == MarkMerged(run, merge.selected)
      <4>1. run' = [m EXCEPT !.status = "review"]
        BY <3>1 DEF RecordMergeUnsaved
      <4> HIDE DEF m
      <4>2. m \in Snapshot /\ m.planned = run.planned
        BY <1>0 DEF m
      <4> QED
        BY <4>1, <4>2 DEF Snapshot
    <3>2. CASE MergeFails
      BY <1>0, <3>2 DEF MergeFails, Snapshot
    <3>3. CASE FinishMerge
      <4> DEFINE m == [run EXCEPT !.status = "review"]
      <4>1. m \in Snapshot /\ m.planned = run.planned /\ m.status = "review"
        BY <1>0 DEF Snapshot, RunStatus
      <4>2. run' = Reviewed(m)
        BY <3>3 DEF FinishMerge
      <4> HIDE DEF m
      <4> QED
        BY <4>1, <4>2 DEF Reviewed, ReviewStatus, Snapshot
    <3> QED
      BY <1>3, <3>1, <3>2, <3>3
  <2> QED
    BY <1>0, <2>1, <2>2, Ends DEF ManagedStep
<1> QED
  BY <1>1, <1>2, <1>3 DEF MergeStep

(* A phase begins on a run at rest, for which there is room. *)
LEMMA PhaseManaged ==
  ASSUME TypeOK, TypeOK', BranchInv, Kept(run), Quiet,
         RetryPlanning \/ ExecuteDAG \/ MergeDAG
  PROVE  ManagedStep
<1>0. /\ active = "none" /\ cancelled = FALSE /\ run \in Snapshot
      /\ Manager!HasCapacity /\ ~Manager!Closed /\ Manager!Inactive(Id)
      /\ shownRuns[Id].graph /\ shownRuns[Id].planned = run.planned
  BY Room DEF RetryPlanning, ExecuteDAG, MergeDAG, Inactive, Quiet, TypeOK
<1>1. CASE RetryPlanning
  <2>1. /\ run'.status = "planning" /\ run'.planned = run.planned /\ ~run.planned
        /\ disk' = run' /\ active' = "plan" /\ cancelled' = FALSE
    BY <1>0, <1>1 DEF RetryPlanning, Save, Begin, Snapshot
  <2>2. Manager!Begin(Id, Kind["plan"], "planning") /\ Manager!Save(Id)
    BY <1>0, <2>1, Begins, Saves DEF Phases
  <2> QED
    BY <1>0, <2>1, <2>2 DEF Manager!RetryPlanning, ManagedStep, Kind
<1>2. CASE ExecuteDAG
  <2>1. /\ run'.status = "running" /\ run'.planned = run.planned /\ run.planned
        /\ \/ disk' = run' /\ active' = "graph" /\ cancelled' = FALSE
           \/ SavesMayFail /\ disk' = disk /\ active' = active /\ cancelled' = cancelled
    BY <1>0, <1>2 DEF ExecuteDAG, Save, SaveFails, Begin, Snapshot
  <2>2. CASE disk' = run' /\ active' = "graph" /\ cancelled' = FALSE
    <3>1. Manager!Begin(Id, Kind["graph"], "running") /\ Manager!Save(Id)
      BY <1>0, <2>1, <2>2, Begins, Saves DEF Phases
    <3> QED
      BY <1>0, <2>1, <3>1 DEF Manager!ExecuteDAG, Manager!BeginGraph, ManagedStep, Kind
  <2>3. CASE SavesMayFail /\ disk' = disk /\ active' = active /\ cancelled' = cancelled
    <3>1. Manager!BeginGraph(Id, "execute", "running")
      BY <1>0, <2>1, <2>3, BeginsNot DEF Manager!JobKind
    <3> QED
      BY <1>0, <2>1, <3>1 DEF Manager!ExecuteDAG, ManagedStep
  <2> QED
    BY <2>1, <2>2, <2>3
<1>3. CASE MergeDAG
  <2>0. run.planned
    <3>1. PICK t \in Task : run.tasks[t].review = "accepted"
      BY <1>3 DEF MergeDAG, Selected
    <3> QED
      BY <3>1 DEF BranchInv, Fresh
  <2>1. /\ run'.status = "merging" /\ run'.planned = run.planned
        /\ \/ disk' = run' /\ active' = "merge" /\ cancelled' = FALSE
           \/ SavesMayFail /\ disk' = disk /\ active' = active /\ cancelled' = cancelled
    BY <1>0, <1>3 DEF MergeDAG, Save, SaveFails, Begin, Snapshot
  <2>2. CASE disk' = run' /\ active' = "merge" /\ cancelled' = FALSE
    <3>1. Manager!Begin(Id, Kind["merge"], "merging") /\ Manager!Save(Id)
      BY <1>0, <2>1, <2>2, Begins, Saves DEF Phases
    <3> QED
      BY <1>0, <2>0, <3>1 DEF Manager!MergeDAG, Manager!BeginGraph, ManagedStep, Kind
  <2>3. CASE SavesMayFail /\ disk' = disk /\ active' = active /\ cancelled' = cancelled
    <3>1. Manager!BeginGraph(Id, "merge", "merging")
      BY <1>0, <2>1, <2>3, BeginsNot DEF Manager!JobKind
    <3> QED
      BY <1>0, <2>0, <3>1 DEF Manager!MergeDAG, ManagedStep
  <2> QED
    BY <2>1, <2>2, <2>3
<1> QED
  BY <1>1, <1>2, <1>3

(* What the user changes of a run at rest leaves its status. *)
LEMMA RestManaged ==
  ASSUME TypeOK, TypeOK', BranchInv,
         \/ UpdateDAG \/ UpdateRunConfig \/ CleanupDAG
         \/ \E t \in Task :
              \/ \E resolve \in BOOLEAN : RetryDAGTask(t, resolve)
              \/ ResetDAGTask(t) \/ UseDAGTaskProfile(t)
  PROVE  ManagedStep
<1>0. run \in Snapshot
  BY DEF TypeOK
<1>1. /\ active = "none" /\ active' = "none" /\ cancelled' = cancelled
      /\ disk' = run' \/ disk' = disk
  BY DEF UpdateDAG, UpdateRunConfig, CleanupDAG, RetryDAGTask, ResetDAGTask, Redoable,
         UseDAGTaskProfile, Inactive, TrySave, Save, SaveFails
<1>2. run'.status = run.status /\ run'.planned = run.planned
  <2>1. UpdateDAG \/ UpdateRunConfig => run'.status = run.status /\ run'.planned = run.planned
    BY <1>0 DEF UpdateDAG, UpdateRunConfig, Snapshot
  <2>2. CleanupDAG => run'.status = run.status /\ run'.planned = run.planned
    BY <1>0 DEF CleanupDAG, Snapshot
  <2>3. ASSUME NEW t \in Task, NEW resolve \in BOOLEAN, RetryDAGTask(t, resolve)
        PROVE  run'.status = run.status /\ run'.planned = run.planned
    BY <1>0, <2>3 DEF RetryDAGTask, Snapshot
  <2>4. ASSUME NEW t \in Task, ResetDAGTask(t) \/ UseDAGTaskProfile(t)
        PROVE  run'.status = run.status /\ run'.planned = run.planned
    BY <1>0, <2>4 DEF ResetDAGTask, UseDAGTaskProfile, Snapshot
  <2> QED
    BY <2>1, <2>2, <2>3, <2>4
<1> QED
  BY <1>1, <1>2, Tried DEF ManagedStep

(* A decision moves the status between review and completed only. *)
LEMMA ReviewManaged ==
  ASSUME TypeOK, TypeOK', BranchInv, NEW t \in Task,
         NEW decision \in {"accepted", "rejected"}, ReviewDAGTask(t, decision)
  PROVE  ManagedStep
<1> DEFINE x == [run.tasks[t] EXCEPT !.review = decision]
           m == [run EXCEPT !.tasks[t] = x]
<1>0. run \in Snapshot
  BY DEF TypeOK
<1>1. /\ active = "none" /\ active' = "none" /\ cancelled' = cancelled /\ disk' = run'
      /\ run' = Reviewed(m) /\ run.tasks[t].status = "completed"
  BY DEF ReviewDAGTask, Inactive, Save
<1>2. m.status = run.status /\ m.planned = run.planned /\ m \in Snapshot
  <2>1. m.status = run.status /\ m.planned = run.planned
    BY <1>0 DEF Snapshot
  <2>2. x \in TaskRecord
    BY <1>0 DEF Snapshot, TaskRecord, Review
  <2> HIDE DEF x
  <2> QED
    BY <1>0, <2>1, <2>2, SnapshotUpdates
<1> HIDE DEF m
<1>3. run'.planned = run.planned
      /\ run'.status = ReviewStatus(m)
  BY <1>1, <1>2 DEF Reviewed, Snapshot
<1>4. run'.status \in {run.status, "completed", "review"}
      /\ (run'.status = "review" => run.status \in {"completed", "review"})
  BY <1>2, <1>3 DEF ReviewStatus
<1>5. run.planned
  BY <1>1 DEF BranchInv, Fresh
<1> QED
  BY <1>1, <1>3, <1>4, <1>5, Reviews DEF ManagedStep

(* Every step of a run is one its Manager knows, or shows it nothing. *)
LEMMA NextManaged ==
  ASSUME IndInv, BranchInv, Quiet, [Next]_vars
  PROVE  [Manager!Next]_(Manager!vars)
<1> SUFFICES ManagedStep
  BY StepAllowed
<1>0. IndInv' /\ TypeOK /\ TypeOK' /\ Kept(run)
  BY NextKeeps DEF IndInv
<1>1. CASE UNCHANGED vars
  BY <1>1, Unseen DEF vars, ManagedStep
<1>2. CASE Planner
  BY <1>0, <1>2, PlannerManaged
<1>3. CASE Executor
  BY <1>0, <1>3, ExecutorManaged
<1>4. CASE MergeStep
  BY <1>0, <1>4, MergeStepManaged
<1>5. CASE User
  <2>1. CASE Cancel
    <3>1. active \in Phases
      BY <1>0, <2>1 DEF Cancel, Inactive, TypeOK, Phases
    <3> QED
      BY <1>0, <2>1, <3>1, Cancels DEF Cancel, ManagedStep
  <2>2. CASE RetryPlanning \/ ExecuteDAG \/ MergeDAG
    BY <1>0, <2>2, PhaseManaged
  <2>3. CASE \/ UpdateDAG \/ UpdateRunConfig \/ CleanupDAG
             \/ \E t \in Task :
                  \/ \E resolve \in BOOLEAN : RetryDAGTask(t, resolve)
                  \/ ResetDAGTask(t) \/ UseDAGTaskProfile(t)
    BY <1>0, <2>3, RestManaged
  <2>4. CASE \E t \in Task : \E decision \in {"accepted", "rejected"} :
               ReviewDAGTask(t, decision)
    BY <1>0, <2>4, ReviewManaged
  <2> QED
    BY <1>5, <2>1, <2>2, <2>3, <2>4 DEF User
<1>6. CASE RecordEvent
  BY <1>0, <1>6, RecordEventManaged
<1>7. CASE Crash
  BY <1>0, <1>7, Restarts DEF ManagedStep
<1>8. CASE CommitToBranch
  BY <1>8, Unseen DEF CommitToBranch, ManagedStep
<1> QED
  BY <1>1, <1>2, <1>3, <1>4, <1>5, <1>6, <1>7, <1>8 DEF Next

(* PlanDAG leaves a run that is being planned. *)
LEMMA InitManaged == ASSUME Init PROVE Begun /\ Quiet
<1>1. /\ run.status = "planning" /\ run.planned = FALSE /\ disk = run
      /\ active = "plan" /\ cancelled = FALSE
  BY DEF Init
<1> QED
  BY <1>1 DEF Begun, Quiet, Inactive, Shown, shownRuns, shownSaved, shownCancelled

(* A run with a task graph implements the run of WorkerManager: whatever is
   called, published, refused by the database or lost with the process, its
   status, its cancel function, its goroutine and its snapshot change as the
   Manager's own functions change them, and what WorkerManager takes for granted
   of the inside of such a run is so. *)
THEOREM RunIsManaged == Spec => IsManaged
<1>1. Init => Begun /\ Quiet
  BY InitManaged
<1>2. IndInv /\ Quiet /\ [Next]_vars => Quiet'
  BY QuietKept DEF IndInv
<1>3. IndInv /\ BranchInv /\ Quiet /\ [Next]_vars => [Manager!Next]_(Manager!vars)
  BY NextManaged
<1> QED
  BY <1>1, <1>2, <1>3, BranchInvariance, PTL DEF Spec, IsManaged
=============================================================================
