---------------------------- MODULE WorkerManager ----------------------------
(***************************************************************************)
(* The manager of all worker runs: creating, continuing, cancelling and    *)
(* deleting them while others execute, their automatic retries, shutdown,  *)
(* and what a restart makes of the database.  What happens inside a run    *)
(* with a task graph is WorkerRun's; here such a run is planned, executed  *)
(* or merged, or is not.                                                   *)
(*                                                                         *)
(*   runs     Manager.runs, guarded by Manager.mu                          *)
(*   chat     how much of a run's chat the database has                    *)
(*   saved    its snapshot; lost, the runs a save of which has failed      *)
(*   jobs     by its context: the goroutine that plans, executes or merges *)
(*   cancelled  the contexts of these that are                             *)
(*   stop     the call of Stop                                             *)
(*                                                                         *)
(* Each step holds Manager.mu once.  Cancel calls the function after the   *)
(* lock; a context is used once, so it has no effect on a later execution. *)
(***************************************************************************)
EXTENDS Naturals, FiniteSets

CONSTANTS Run,           \* ids; random in the code, so never used twice
          Context,
          None,          \* no run, no job, no cancel function
          MaxActive,     \* 3 in the code
          MaxRetries,    \* Config.MaxRetries
          SavesMayFail

ASSUME ManagerAssumption ==
  /\ None \notin Run \cup Context
  /\ IsFiniteSet(Run)
  /\ MaxActive \in Nat /\ MaxRetries \in Nat
  /\ SavesMayFail \in BOOLEAN

VARIABLES runs, chat, saved, lost, jobs, cancelled, stop

database == <<chat, saved, lost>>
contexts == <<jobs, cancelled>>
vars == <<runs, database, contexts, stop>>

Resumable == {"completed", "failed", "cancelled"}
Settled == Resumable \cup {"draft", "review"}
Busy == {"running", "planning", "merging"}
JobKind == {"assignment", "plan", "execute", "merge"}

(* What decisions depend on: graph, DAG # nil; planned, it has tasks;
   retry, NextRetryAt # nil. *)
RunRecord ==
  [graph : BOOLEAN, planned : BOOLEAN, status : Settled \cup Busy,
   cancel : Context \cup {None}, retry : BOOLEAN]
Job == [run : Run, kind : JobKind, pc : {"work", "wait", "unsaved", "stopping"},
        used : 0 .. MaxRetries]

ASSUME NoneAssumption == None \notin RunRecord \cup Job

TypeOK ==
  /\ runs \in [Run -> RunRecord \cup {None}]
  /\ chat \in [Run -> {"none", "created", "configured", "deleted"}]
  /\ saved \in [Run -> RunRecord \cup {None}]
  /\ lost \subseteq Run
  /\ jobs \in [Context -> Job \cup {None}]
  /\ cancelled \subseteq Context
  /\ stop \in {"no", "waiting", "returned", "gaveUp"}

Init ==
  /\ runs = [r \in Run |-> None]
  /\ chat = [r \in Run |-> "none"] /\ saved = runs /\ lost = {}
  /\ jobs = [h \in Context |-> None] /\ cancelled = {}
  /\ stop = "no"

------------------------------------------------------------------------------
Listed(r) == runs[r] # None
Active(r) == Listed(r) /\ runs[r].cancel # None
Inactive(r) == Listed(r) /\ runs[r].cancel = None
Closed == stop # "no"
HasCapacity == Cardinality({r \in Run : Active(r)}) < MaxActive

FreeContexts == {h \in Context : jobs[h] = None}
NewContext == CHOOSE h \in FreeContexts : TRUE

Snapshot(r) == [runs'[r] EXCEPT !.cancel = None]

Save(r) ==
  /\ saved' = [saved EXCEPT ![r] = Snapshot(r)]
  /\ UNCHANGED <<chat, lost>>
SaveFails(r) ==
  /\ SavesMayFail
  /\ lost' = lost \cup {r}
  /\ UNCHANGED <<chat, saved>>

Begin(r, kind, status) ==
  /\ FreeContexts # {}
  /\ runs' = [runs EXCEPT ![r].status = status, ![r].cancel = NewContext,
                          ![r].retry = @ /\ kind \in {"execute", "merge"}]
  /\ jobs' = [jobs EXCEPT ![NewContext] =
                [run |-> r, kind |-> kind, pc |-> "work", used |-> 0]]
  /\ UNCHANGED <<cancelled, stop>>

------------------------------------------------------------------------------
(* Creating a run *)

NewRun(graph) ==
  [graph |-> graph, planned |-> FALSE,
   status |-> IF graph THEN "planning" ELSE "running",
   cancel |-> NewContext, retry |-> FALSE]

(* startWithTier and PlanDAG: the chat, its configuration, the snapshot. *)
Start(r, graph) ==
  /\ ~Closed /\ chat[r] = "none" /\ HasCapacity
  /\ FreeContexts # {}
  /\ runs' = [runs EXCEPT ![r] = NewRun(graph)]
  /\ chat' = [chat EXCEPT ![r] = "configured"]
  /\ saved' = [saved EXCEPT ![r] = Snapshot(r)]
  /\ jobs' = [jobs EXCEPT ![NewContext] =
                [run |-> r, kind |-> IF graph THEN "plan" ELSE "assignment",
                 pc |-> "work", used |-> 0]]
  /\ UNCHANGED <<lost, cancelled, stop>>

(* The second or third write fails, and so does the removal of the chat;
   when it does not, nothing is left. *)
StartFails(r) ==
  /\ ~Closed /\ chat[r] = "none" /\ HasCapacity
  /\ SavesMayFail
  /\ \E left \in {"created", "configured"} : chat' = [chat EXCEPT ![r] = left]
  /\ UNCHANGED <<runs, saved, lost, contexts, stop>>

------------------------------------------------------------------------------
(* Continuing a run, and the phases of a task graph *)

(* Fault: Stop's flag is not looked at. *)
ContinueClosed(r) ==
  /\ Inactive(r) /\ ~runs[r].graph /\ runs[r].status \in Resumable
  /\ HasCapacity
  /\ Begin(r, "assignment", "running")
  /\ Save(r)

Continue(r) ==
  /\ ~Closed
  /\ Inactive(r) /\ ~runs[r].graph /\ runs[r].status \in Resumable
  /\ HasCapacity
  /\ Begin(r, "assignment", "running")
  /\ Save(r)

RetryPlanning(r) ==
  /\ ~Closed
  /\ Inactive(r) /\ runs[r].graph /\ ~runs[r].planned
  /\ HasCapacity
  /\ Begin(r, "plan", "planning")
  /\ Save(r)

(* A save that fails leaves the new status on a run that is not active. *)
BeginGraph(r, kind, status) ==
  \/ Begin(r, kind, status) /\ Save(r)
  \/ /\ runs' = [runs EXCEPT ![r].status = status]
     /\ SaveFails(r)
     /\ UNCHANGED <<contexts, stop>>

(* Fault: the other runs are not counted. *)
ExecuteUncounted(r) ==
  /\ ~Closed
  /\ Inactive(r) /\ runs[r].graph /\ runs[r].planned
  /\ BeginGraph(r, "execute", "running")

ExecuteDAG(r) ==
  /\ ~Closed
  /\ Inactive(r) /\ runs[r].graph /\ runs[r].planned
  /\ HasCapacity
  /\ BeginGraph(r, "execute", "running")

(* Merging asks for no capacity: no worker takes part in it. *)
MergeDAG(r) ==
  /\ ~Closed
  /\ Inactive(r) /\ runs[r].graph /\ runs[r].planned
  /\ BeginGraph(r, "merge", "merging")

(* A call whose save fails changes nothing. *)
UpdateRunConfig(r) ==
  /\ ~Closed /\ Inactive(r)
  /\ UNCHANGED <<runs, contexts, stop>>
  /\ Save(r)

(* ReviewDAGTask, and what else is done to the tasks of an inactive graph:
   when all is merged or rejected the run is completed. *)
Review(r) ==
  /\ Inactive(r) /\ runs[r].graph /\ runs[r].planned
  /\ \E status \in {runs[r].status, "completed", "review"} :
       /\ status = "review" => runs[r].status \in {"completed", "review"}
       /\ runs' = [runs EXCEPT ![r].status = status]
  /\ UNCHANGED <<contexts, stop>>
  /\ Save(r)

(* Fault: a run that executes is deleted. *)
DeleteActive(r) ==
  /\ Listed(r)
  /\ chat' = [chat EXCEPT ![r] = "deleted"]
  /\ saved' = [saved EXCEPT ![r] = None]
  /\ runs' = [runs EXCEPT ![r] = None]
  /\ UNCHANGED <<lost, contexts, stop>>

(* Fault: the run is dropped whatever the database says. *)
DeleteAnyhow(r) ==
  /\ Inactive(r)
  /\ \/ /\ chat' = [chat EXCEPT ![r] = "deleted"]
        /\ saved' = [saved EXCEPT ![r] = None] /\ UNCHANGED lost
     \/ SaveFails(r)
  /\ runs' = [runs EXCEPT ![r] = None]
  /\ UNCHANGED <<contexts, stop>>

Delete(r) ==
  /\ Inactive(r)
  /\ chat' = [chat EXCEPT ![r] = "deleted"]
  /\ saved' = [saved EXCEPT ![r] = None]
  /\ runs' = [runs EXCEPT ![r] = None]
  /\ UNCHANGED <<lost, contexts, stop>>

------------------------------------------------------------------------------
(* The goroutines *)

Works(h, pc) == jobs[h] # None /\ jobs[h].pc = pc

(* Emit: activity is saved from time to time; if it cannot be, the job is
   cancelled.  The steps of a task graph publish the same way. *)
Event(h) ==
  /\ Works(h, "work") \/ Works(h, "wait")
  /\ Listed(jobs[h].run)
  /\ UNCHANGED <<runs, jobs, stop>>
  /\ \/ Save(jobs[h].run) /\ UNCHANGED cancelled
     \/ SaveFails(jobs[h].run) /\ cancelled' = cancelled \cup {h}

(* Fault: one retry too many. *)
PauseOnceMore(h) ==
  LET job == jobs[h] IN
  /\ Works(h, "work") /\ Listed(job.run)
  /\ job.kind \in {"assignment", "plan"}
  /\ job.used <= MaxRetries /\ h \notin cancelled
  /\ runs' = [runs EXCEPT ![job.run].retry = TRUE]
  /\ Save(job.run)
  /\ jobs' = [jobs EXCEPT ![h].pc = "wait", ![h].used = @ + 1]
  /\ UNCHANGED <<cancelled, stop>>

(* An attempt fails with an error that allows another: NextRetryAt is
   published and its time awaited. *)
PauseRetry(h) ==
  LET job == jobs[h] IN
  /\ Works(h, "work") /\ Listed(job.run)
  /\ job.kind \in {"assignment", "plan"}
  /\ job.used < MaxRetries /\ h \notin cancelled
  /\ runs' = [runs EXCEPT ![job.run].retry = TRUE]
  /\ \/ Save(job.run) /\ jobs' = [jobs EXCEPT ![h].pc = "wait", ![h].used = @ + 1]
     \/ SaveFails(job.run) /\ jobs' = [jobs EXCEPT ![h].pc = "unsaved", ![h].used = @ + 1]
  /\ UNCHANGED <<cancelled, stop>>

RetryOrStop(h) ==
  /\ Works(h, "wait") /\ Listed(jobs[h].run)
  /\ runs' = [runs EXCEPT ![jobs[h].run].retry = FALSE]
  /\ jobs' = [jobs EXCEPT ![h].pc = IF h \in cancelled THEN "stopping" ELSE "work"]
  /\ UNCHANGED <<database, cancelled, stop>>

(* What a job leaves its run in.  Once cancelled, only an assignment or a
   merge may still tell of its own end. *)
Ends ==
  [assignment |-> {"completed", "failed"}, plan |-> {"draft", "failed"},
   execute |-> {"review", "failed"}, merge |-> {"review", "completed"}]

Outcomes(h) ==
  LET kind == jobs[h].kind
      told == h \in cancelled
      stops == \/ Works(h, "stopping")
               \/ Works(h, "work") /\ told /\ kind # "merge"
               \/ Works(h, "unsaved") /\ told /\ kind = "plan"
      says == ~(told /\ kind \in {"plan", "execute"})
  IN  (IF stops THEN {"cancelled"} ELSE {})
      \cup (IF Works(h, "work") /\ says THEN Ends[kind] ELSE {})
      \cup (IF Works(h, "unsaved") /\ says THEN {"failed"} ELSE {})

(* A plan that arrives after its cancellation is kept. *)
MayPlan(h, status) ==
  IF jobs[h].kind # "plan" THEN {FALSE}
  ELSE CASE status = "draft" -> {TRUE}
         [] status = "cancelled" /\ Works(h, "work") -> BOOLEAN
         [] OTHER -> {FALSE}

Settle(h, status, plan) ==
  [runs EXCEPT ![jobs[h].run].cancel = None, ![jobs[h].run].status = status,
               ![jobs[h].run].planned = @ \/ plan]

End(h) ==
  /\ jobs' = [jobs EXCEPT ![h] = None]
  /\ cancelled' = cancelled \ {h}
  /\ UNCHANGED stop

(* Fault: the outcome is not saved. *)
FinishUnsaved(h) ==
  /\ jobs[h] # None /\ Listed(jobs[h].run)
  /\ \E status \in Outcomes(h) : \E plan \in MayPlan(h, status) :
       runs' = Settle(h, status, plan)
  /\ UNCHANGED database
  /\ End(h)

Finish(h) ==
  /\ jobs[h] # None /\ Listed(jobs[h].run)
  /\ \E status \in Outcomes(h) : \E plan \in MayPlan(h, status) :
       runs' = Settle(h, status, plan)
  /\ Save(jobs[h].run) \/ SaveFails(jobs[h].run)
  /\ End(h)

------------------------------------------------------------------------------
(* Cancellation, shutdown and restart *)

Cancel(r) ==
  /\ Active(r)
  /\ cancelled' = cancelled \cup {runs[r].cancel}
  /\ UNCHANGED <<runs, database, jobs, stop>>

Stop ==
  /\ stop = "no" /\ stop' = "waiting"
  /\ cancelled' = cancelled \cup {runs[r].cancel : r \in {q \in Run : Active(q)}}
  /\ UNCHANGED <<runs, database, jobs>>

(* Fault: it returns when everybody has been told. *)
ReturnsEarly ==
  /\ stop = "waiting" /\ stop' = "returned"
  /\ UNCHANGED <<runs, database, contexts>>

StopReturns ==
  /\ stop = "waiting" /\ ~\E r \in Run : Active(r)
  /\ stop' = "returned"
  /\ UNCHANGED <<runs, database, contexts>>

StopGivesUp ==
  /\ stop = "waiting" /\ stop' = "gaveUp"
  /\ UNCHANGED <<runs, database, contexts>>

Interrupted == [graph |-> FALSE, planned |-> FALSE, status |-> "cancelled",
                cancel |-> None, retry |-> FALSE]

(* Fault: only the status is repaired. *)
RecoveredStatus(s) ==
  IF s = None THEN Interrupted
  ELSE IF s.status \in Busy THEN [s EXCEPT !.status = "cancelled"]
  ELSE s

(* A chat without a snapshot is listed as an assignment. *)
Recovered(s) ==
  IF s = None THEN Interrupted
  ELSE IF s.status \in Busy THEN [s EXCEPT !.status = "cancelled", !.retry = FALSE]
  ELSE s

(* A merge that had reached the branch was not interrupted: what is left to
   decide or to clean is under review. *)
Restorations(c, s) ==
  IF c # "configured" THEN {None}
  ELSE {Recovered(s)} \cup
       {[s EXCEPT !.status = status] :
          status \in {x \in {"review", "completed"} : s # None /\ s.status = "merging"}}

Restart(c) ==
  /\ runs' \in [Run -> UNION {Restorations(c[r], saved[r]) : r \in Run}]
  /\ \A r \in Run : runs'[r] \in Restorations(c[r], saved[r])
  /\ chat' = c /\ UNCHANGED <<saved, lost>>
  /\ jobs' = [h \in Context |-> None] /\ cancelled' = {}
  /\ stop' = "no"

(* The process dies; or it does between the writes that create a run. *)
Crash == Restart(chat)
CrashStarting(r) ==
  /\ ~Closed /\ chat[r] = "none" /\ HasCapacity
  /\ \E left \in {"created", "configured"} : Restart([chat EXCEPT ![r] = left])

------------------------------------------------------------------------------
Next ==
  \/ \E r \in Run :
       \/ \E graph \in BOOLEAN : Start(r, graph)
       \/ StartFails(r) \/ Continue(r) \/ RetryPlanning(r)
       \/ ExecuteDAG(r) \/ MergeDAG(r) \/ UpdateRunConfig(r)
       \/ Review(r) \/ Delete(r) \/ Cancel(r) \/ CrashStarting(r)
  \/ \E h \in Context : Event(h) \/ PauseRetry(h) \/ RetryOrStop(h) \/ Finish(h)
  \/ Stop \/ StopReturns \/ StopGivesUp \/ Crash

Spec == Init /\ [][Next]_vars

(* A worker that is called may take for ever, unless its context is
   cancelled; timers fire. *)
Fairness ==
  \A h \in Context :
    /\ WF_vars(RetryOrStop(h))
    /\ WF_vars(h \in cancelled /\ Finish(h))

FairSpec == Spec /\ Fairness

------------------------------------------------------------------------------
(* What the user may rely on *)

(* Whatever executes is the execution its run names, so that Cancel, Stop and
   Delete know of it, there is one for a run, and mergeDAG, which does not ask
   whether its run still exists, finds it. *)
EveryExecutionReachable ==
  /\ \A h \in Context : jobs[h] # None =>
       Listed(jobs[h].run) /\ runs[jobs[h].run].cancel = h
  /\ \A r \in Run : Active(r) =>
       jobs[runs[r].cancel] # None /\ jobs[runs[r].cancel].run = r

(* At most so many runs have workers at once, merges set aside. *)
WorkersBounded ==
  Cardinality({r \in Run : Active(r) /\ runs[r].status # "merging"}) <= MaxActive

(* Once Stop has returned nothing executes, nor ever begins to. *)
StoppedMeansQuiet == stop = "returned" => \A h \in Context : jobs[h] = None

(* A run whose saves succeeded is shown after a restart as its user saw it
   when it had settled. *)
SettledSurvives ==
  \A r \in Run \ lost : Inactive(r) => runs[r] \in Restorations(chat[r], saved[r])

(* What is listed is listed after a restart, and what was deleted is not; and
   no assignment is left in a state that it can neither leave nor be continued
   from, whatever saves fail. *)
ListedIsKept ==
  \A r \in Run :
    /\ Listed(r) => chat[r] = "configured"
    /\ saved[r] # None => Listed(r)
    /\ Inactive(r) /\ ~runs[r].graph => runs[r].status \in Resumable

WaitsToRetry(r) == Active(r) /\ Works(runs[r].cancel, "wait")

(* A retry is announced only while one is waited for, also after a restart,
   on a run whose saves succeeded. *)
RetryAnnouncedWhileWaiting ==
  \A r \in Run \ lost : Listed(r) /\ runs[r].retry => WaitsToRetry(r)

(* After Stop everything ends, whether or not Stop's caller waits for it, and
   whatever a worker does. *)
StopEnds == Closed ~> \A h \in Context : jobs[h] = None
==============================================================================
