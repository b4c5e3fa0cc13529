------------------------- MODULE WorkerManagerProofs -------------------------
(***************************************************************************)
(* For any set of runs, any limit and any number of retries, with saves    *)
(* that fail and crashes: every execution is the one its run names, Stop   *)
(* leaves nothing behind, and a restart shows what was last seen.          *)
(***************************************************************************)
EXTENDS WorkerManager, FiniteSetTheorems, TLAPS

StatusOf(kind) ==
  CASE kind = "plan" -> "planning" [] kind = "merge" -> "merging" [] OTHER -> "running"

JobInv(h) ==
  jobs[h] # None =>
    /\ Listed(jobs[h].run)
    /\ runs[jobs[h].run].cancel = h
    /\ runs[jobs[h].run].status = StatusOf(jobs[h].kind)
    /\ runs[jobs[h].run].graph <=> jobs[h].kind # "assignment"
    /\ jobs[h].pc = "wait" => jobs[h].kind \in {"assignment", "plan"}
    /\ stop # "returned"

(* A snapshot that a restart may take as it is, or repair. *)
Restorable(s, sound) ==
  /\ s.cancel = None
  /\ s.graph \/ s.status \in Resumable \cup {"running"}
  /\ sound /\ s.retry => s.status \in {"running", "planning"}

RunInv(r) ==
  /\ Listed(r) => chat[r] = "configured"
  /\ saved[r] # None => Listed(r) /\ Restorable(saved[r], r \notin lost)
  /\ Active(r) => jobs[runs[r].cancel] # None /\ jobs[runs[r].cancel].run = r
  /\ Inactive(r) => runs[r].graph \/ runs[r].status \in Resumable
  /\ Inactive(r) /\ r \notin lost =>
       runs[r].status \in Settled /\ runs[r] \in Restorations(chat[r], saved[r])
  /\ Listed(r) /\ runs[r].retry /\ r \notin lost => WaitsToRetry(r)

IndInv ==
  /\ TypeOK
  /\ \A r \in Run : RunInv(r)
  /\ \A h \in Context : JobInv(h)

------------------------------------------------------------------------------
(* A step that touches one run and its jobs *)

OnlyRun(r) ==
  /\ \A q \in Run \ {r} :
       /\ runs'[q] = runs[q] /\ chat'[q] = chat[q] /\ saved'[q] = saved[q]
       /\ q \in lost' <=> q \in lost
  /\ \A h \in Context :
       jobs'[h] = jobs[h] \/ /\ jobs[h] = None \/ jobs[h].run = r
                             /\ jobs'[h] = None \/ jobs'[h].run = r
  /\ stop' = stop

LEMMA OtherRuns ==
  ASSUME IndInv, TypeOK', NEW r \in Run, OnlyRun(r), RunInv(r)',
         \A h \in Context : jobs'[h] # None /\ jobs'[h].run = r => JobInv(h)'
  PROVE  IndInv'
<1>1. ASSUME NEW q \in Run PROVE RunInv(q)'
  <2>1. CASE q = r
    BY <2>1
  <2>2. CASE q # r
    <3>1. /\ runs'[q] = runs[q] /\ chat'[q] = chat[q] /\ saved'[q] = saved[q]
          /\ q \in lost' <=> q \in lost
      BY <2>2 DEF OnlyRun
    <3>2. RunInv(q)
      BY DEF IndInv
    <3>3. Active(q) => jobs'[runs[q].cancel] = jobs[runs[q].cancel]
      <4> SUFFICES ASSUME Active(q) PROVE jobs'[runs[q].cancel] = jobs[runs[q].cancel]
        OBVIOUS
      <4>1. runs[q].cancel \in Context
        BY DEF IndInv, TypeOK, RunRecord, Active, Listed
      <4>2. jobs[runs[q].cancel] # None /\ jobs[runs[q].cancel].run = q
        BY <3>2 DEF RunInv
      <4> QED BY <2>2, <4>1, <4>2 DEF OnlyRun
    <3> QED BY <3>1, <3>2, <3>3 DEF RunInv, Listed, Active, Inactive, WaitsToRetry, Works,
               Restorable, Restorations, Recovered
  <2> QED BY <2>1, <2>2
<1>2. ASSUME NEW h \in Context PROVE JobInv(h)'
  <2>1. CASE jobs'[h] # None /\ jobs'[h].run = r
    BY <2>1
  <2>2. CASE ~(jobs'[h] # None /\ jobs'[h].run = r)
    <3> SUFFICES ASSUME jobs'[h] # None PROVE JobInv(h)'
      BY DEF JobInv
    <3>1. jobs'[h].run # r /\ jobs'[h] = jobs[h] /\ stop' = stop
      BY <2>2 DEF OnlyRun
    <3>2. jobs[h].run \in Run
      BY <3>1 DEF IndInv, TypeOK, Job
    <3>3. runs'[jobs[h].run] = runs[jobs[h].run]
      BY <3>1, <3>2 DEF OnlyRun
    <3> QED BY <3>1, <3>3 DEF IndInv, JobInv, Listed
  <2> QED BY <2>1, <2>2
<1> QED BY <1>1, <1>2 DEF IndInv

(* No job is an inactive run's, nor one's that is not listed. *)
LEMMA NoJob ==
  ASSUME IndInv, NEW r \in Run, ~Active(r), NEW h \in Context
  PROVE  jobs[h] = None \/ jobs[h].run # r
<1> SUFFICES ASSUME jobs[h] # None, jobs[h].run = r PROVE FALSE
  OBVIOUS
<1>1. Listed(r) /\ runs[r].cancel = h
  BY DEF IndInv, JobInv
<1>2. h # None
  BY ManagerAssumption
<1> QED BY <1>1, <1>2 DEF Active

------------------------------------------------------------------------------
(* Beginning an execution *)

LEMMA FreshContext ==
  ASSUME FreeContexts # {}
  PROVE  NewContext \in Context /\ jobs[NewContext] = None /\ NewContext # None
<1>1. NewContext \in FreeContexts
  BY DEF NewContext
<1> QED BY <1>1, ManagerAssumption DEF FreeContexts

(* What StartFails leaves is no run, and what Start leaves is one. *)
LEMMA StartKeeps ==
  ASSUME IndInv, NEW r \in Run, NEW graph \in BOOLEAN, Start(r, graph)
  PROVE  IndInv'
<1> DEFINE h == NewContext
           new == NewRun(graph)
           job == [run |-> r, kind |-> IF graph THEN "plan" ELSE "assignment",
                   pc |-> "work", used |-> 0]
<1>1. h \in Context /\ jobs[h] = None /\ h # None
  BY FreshContext DEF Start
<1>2. /\ runs' = [runs EXCEPT ![r] = new]
      /\ chat' = [chat EXCEPT ![r] = "configured"]
      /\ saved' = [saved EXCEPT ![r] = Snapshot(r)]
      /\ jobs' = [jobs EXCEPT ![h] = job]
      /\ UNCHANGED <<lost, cancelled, stop>> /\ stop = "no" /\ chat[r] = "none"
  BY DEF Start, Closed
<1>3. TypeOK
  BY DEF IndInv
<1>4. /\ new \in RunRecord /\ new # None
      /\ new.cancel = h /\ new.graph = graph /\ new.retry = FALSE
      /\ new.status = IF graph THEN "planning" ELSE "running"
  <2>1. /\ new.cancel = h /\ new.graph = graph /\ new.retry = FALSE
        /\ new.status = IF graph THEN "planning" ELSE "running"
    BY DEF NewRun
  <2>2. new \in RunRecord
    <3>1. (IF graph THEN "planning" ELSE "running") \in Settled \cup Busy
      BY DEF Busy
    <3> QED BY <1>1, <3>1 DEF NewRun, RunRecord
  <2>3. new # None
    BY <2>2, NoneAssumption
  <2> QED BY <2>1, <2>2, <2>3
<1>5. job \in Job /\ job # None /\ job.run = r /\ job.pc = "work"
  BY ManagerAssumption, NoneAssumption DEF Job, JobKind
<1>6. runs'[r] = new /\ chat'[r] = "configured" /\ jobs'[h] = job
  BY <1>1, <1>2, <1>3 DEF TypeOK
<1>7. /\ saved'[r] = [new EXCEPT !.cancel = None]
      /\ saved'[r] \in RunRecord /\ saved'[r].cancel = None
      /\ saved'[r].retry = FALSE /\ saved'[r].graph = graph
      /\ saved'[r].status = new.status
  BY <1>2, <1>3, <1>4, <1>6 DEF Snapshot, TypeOK, RunRecord
<1>8. TypeOK'
  BY <1>1, <1>2, <1>3, <1>4, <1>5, <1>7 DEF TypeOK
<1>9. OnlyRun(r)
  BY <1>1, <1>2, <1>3, <1>5 DEF OnlyRun, TypeOK
<1>10. RunInv(r)'
  BY <1>1, <1>4, <1>5, <1>6, <1>7
     DEF RunInv, Restorable, Listed, Active, Inactive, Resumable
<1>11. ASSUME NEW k \in Context, jobs'[k] # None, jobs'[k].run = r PROVE JobInv(k)'
  <2>1. k = h
    <3>1. ~Active(r)
      BY <1>2, <1>3 DEF IndInv, RunInv, Active
    <3> QED BY <1>2, <1>3, <1>11, <3>1, NoJob DEF TypeOK
  <2> QED BY <2>1, <1>2, <1>4, <1>5, <1>6 DEF JobInv, Listed, StatusOf
<1> QED BY <1>8, <1>9, <1>10, <1>11, OtherRuns

(* An inactive run whose saves succeeded announces no retry. *)
LEMMA QuietRetry ==
  ASSUME IndInv, NEW r \in Run, Inactive(r), r \notin lost PROVE ~runs[r].retry
BY DEF IndInv, RunInv, Inactive, WaitsToRetry, Active

LEMMA BeginKeeps ==
  ASSUME IndInv, NEW r \in Run, NEW kind \in JobKind, Inactive(r), stop = "no",
         runs[r].graph <=> kind # "assignment",
         Begin(r, kind, StatusOf(kind)), Save(r)
  PROVE  IndInv'
<1> DEFINE h == NewContext
           status == StatusOf(kind)
           job == [run |-> r, kind |-> kind, pc |-> "work", used |-> 0]
           retry == runs[r].retry /\ kind \in {"execute", "merge"}
<1>1. h \in Context /\ jobs[h] = None /\ h # None
  BY FreshContext DEF Begin
<1>2. /\ runs' = [runs EXCEPT ![r].status = status, ![r].cancel = h, ![r].retry = retry]
      /\ saved' = [saved EXCEPT ![r] = Snapshot(r)]
      /\ jobs' = [jobs EXCEPT ![h] = job]
      /\ UNCHANGED <<chat, lost, cancelled, stop>>
  BY DEF Begin, Save
<1>3. TypeOK /\ RunInv(r) /\ runs[r] \in RunRecord /\ runs[r].cancel = None
  BY DEF IndInv, TypeOK, Inactive, Listed
<1>4. status \in Busy /\ (kind = "assignment" => status = "running")
  BY DEF StatusOf, Busy, JobKind
<1>5. job \in Job /\ job # None /\ job.run = r /\ job.pc = "work" /\ job.kind = kind
  BY ManagerAssumption, NoneAssumption DEF Job
<1>6. /\ runs'[r] = [runs[r] EXCEPT !.status = status, !.cancel = h, !.retry = retry]
      /\ jobs'[h] = job /\ saved'[r] = Snapshot(r)
  BY <1>1, <1>2, <1>3 DEF TypeOK
<1>7. /\ runs'[r] \in RunRecord /\ runs'[r] # None
      /\ runs'[r].cancel = h /\ runs'[r].status = status
  <2>1. runs'[r] \in RunRecord
    BY <1>1, <1>3, <1>4, <1>6 DEF RunRecord
  <2>2. runs'[r].cancel = h /\ runs'[r].status = status
    BY <1>3, <1>6 DEF RunRecord
  <2> QED BY <2>1, <2>2, NoneAssumption
<1>8. runs'[r].graph = runs[r].graph
  BY <1>3, <1>6 DEF RunRecord
<1>9. r \notin lost => runs'[r].retry = FALSE
  <2> SUFFICES ASSUME r \notin lost PROVE runs'[r].retry = FALSE
    OBVIOUS
  <2>1. ~retry
    BY QuietRetry
  <2>2. runs'[r].retry = retry
    BY <1>3, <1>6 DEF RunRecord
  <2> QED BY <2>1, <2>2
<1>10. /\ saved'[r] \in RunRecord /\ saved'[r].cancel = None
       /\ saved'[r].status = status
       /\ saved'[r].graph = runs'[r].graph /\ saved'[r].retry = runs'[r].retry
  BY <1>6, <1>7 DEF Snapshot, RunRecord
<1>11. TypeOK'
  BY <1>1, <1>2, <1>3, <1>5, <1>7, <1>10 DEF TypeOK
<1>12. OnlyRun(r)
  BY <1>1, <1>2, <1>3, <1>5 DEF OnlyRun, TypeOK
<1>13. RunInv(r)'
  <2>1. chat'[r] = "configured"
    BY <1>2, <1>3 DEF RunInv, Inactive
  <2>2. Restorable(saved'[r], r \notin lost')
    BY <1>2, <1>4, <1>8, <1>9, <1>10 DEF Restorable
  <2> QED BY <1>1, <1>2, <1>5, <1>6, <1>7, <1>9, <2>1, <2>2
          DEF RunInv, Listed, Active, Inactive
<1>14. ASSUME NEW k \in Context, jobs'[k] # None, jobs'[k].run = r PROVE JobInv(k)'
  <2>1. k = h
    <3>1. ~Active(r)
      BY <1>3 DEF Active
    <3> QED BY <1>2, <1>3, <1>14, <3>1, NoJob DEF TypeOK
  <2>2. /\ jobs'[k].run = r /\ jobs'[k].kind = kind /\ jobs'[k].pc = "work"
        /\ stop' = "no" /\ runs'[r] # None /\ runs'[r].cancel = k
        /\ runs'[r].status = StatusOf(kind)
    BY <2>1, <1>2, <1>5, <1>6, <1>7
  <2>3. runs'[r].graph <=> kind # "assignment"
    BY <1>8
  <2> QED BY <2>2, <2>3 DEF JobInv, Listed, StatusOf
<1> QED BY <1>11, <1>12, <1>13, <1>14, OtherRuns

------------------------------------------------------------------------------
(* What is done to a run that is not active *)

LEMMA IdleKeeps ==
  ASSUME IndInv, NEW r \in Run, ~Active(r),
         UNCHANGED <<jobs, stop>>, cancelled' \subseteq Context, lost' \subseteq Run,
         runs'[r] \in RunRecord \cup {None},
         runs'[r] = None \/ runs'[r].cancel = None,
         chat'[r] \in {"none", "created", "configured", "deleted"},
         saved'[r] \in RunRecord \cup {None},
         runs' = [runs EXCEPT ![r] = runs'[r]],
         chat' = [chat EXCEPT ![r] = chat'[r]],
         saved' = [saved EXCEPT ![r] = saved'[r]],
         lost' \in {lost, lost \cup {r}},
         RunInv(r)'
  PROVE  IndInv'
<1>1. TypeOK
  BY DEF IndInv
<1>2. TypeOK'
  BY <1>1 DEF TypeOK
<1>3. OnlyRun(r)
  BY <1>1 DEF OnlyRun, TypeOK
<1>4. ASSUME NEW k \in Context, jobs'[k] # None, jobs'[k].run = r PROVE JobInv(k)'
  BY <1>4, NoJob
<1> QED BY <1>2, <1>3, <1>4, OtherRuns

LEMMA StartFailsKeeps ==
  ASSUME IndInv, NEW r \in Run, StartFails(r) PROVE IndInv'
<1>1. /\ TypeOK /\ RunInv(r) /\ chat[r] = "none"
      /\ UNCHANGED <<runs, saved, lost, jobs, cancelled, stop>>
  BY DEF IndInv, StartFails, contexts
<1>2. PICK left \in {"created", "configured"} : chat' = [chat EXCEPT ![r] = left]
  BY DEF StartFails
<1>3. runs[r] = None /\ saved[r] = None
  BY <1>1 DEF RunInv, Listed
<1>4. chat'[r] = left
  BY <1>1, <1>2 DEF TypeOK
<1>5. RunInv(r)'
  BY <1>1, <1>3 DEF RunInv, Listed, Active, Inactive
<1>6. ~Active(r)
  BY <1>3 DEF Active, Listed
<1> QED BY <1>1, <1>2, <1>3, <1>4, <1>5, <1>6, IdleKeeps DEF TypeOK

LEMMA DeleteKeeps ==
  ASSUME IndInv, NEW r \in Run, Delete(r) PROVE IndInv'
<1>1. /\ TypeOK /\ ~Active(r) /\ UNCHANGED <<lost, jobs, cancelled, stop>>
      /\ chat' = [chat EXCEPT ![r] = "deleted"]
      /\ saved' = [saved EXCEPT ![r] = None]
      /\ runs' = [runs EXCEPT ![r] = None]
  BY DEF IndInv, Delete, contexts, Active, Inactive
<1>2. runs'[r] = None /\ saved'[r] = None /\ chat'[r] = "deleted"
  BY <1>1 DEF TypeOK
<1>3. RunInv(r)'
  BY <1>2 DEF RunInv, Listed, Active, Inactive
<1> QED BY <1>1, <1>2, <1>3, IdleKeeps DEF TypeOK

(* A restart takes a snapshot that was not busy as it is. *)
LEMMA TakenAsItIs ==
  ASSUME NEW s, s # None, s.status \notin Busy PROVE s \in Restorations("configured", s)
BY DEF Restorations, Recovered

(* The status of an inactive run changes, and is saved: its snapshot is then
   what a restart shows. *)
LEMMA SavedIdleKeeps ==
  ASSUME IndInv, NEW r \in Run, Inactive(r), NEW status \in Settled \cup Busy,
         runs' = [runs EXCEPT ![r].status = status],
         UNCHANGED <<contexts, stop>>, Save(r),
         runs[r].graph \/ status \in Resumable,
         r \notin lost => status \in Settled
  PROVE  IndInv'
<1>1. /\ TypeOK /\ RunInv(r) /\ ~Active(r)
      /\ runs[r] \in RunRecord /\ runs[r] # None /\ runs[r].cancel = None
  BY DEF IndInv, TypeOK, Inactive, Active, Listed
<1>2. /\ saved' = [saved EXCEPT ![r] = Snapshot(r)]
      /\ UNCHANGED <<chat, lost, jobs, cancelled, stop>>
  BY DEF Save, contexts
<1>3. runs'[r] = [runs[r] EXCEPT !.status = status] /\ saved'[r] = Snapshot(r)
  BY <1>1, <1>2 DEF TypeOK
<1>4. /\ runs'[r] \in RunRecord /\ runs'[r] # None /\ runs'[r].cancel = None
      /\ runs'[r].status = status /\ runs'[r].graph = runs[r].graph
      /\ runs'[r].retry = runs[r].retry
  <2>1. runs'[r] \in RunRecord
    BY <1>1, <1>3 DEF RunRecord
  <2>2. /\ runs'[r].cancel = None /\ runs'[r].status = status
        /\ runs'[r].graph = runs[r].graph /\ runs'[r].retry = runs[r].retry
    BY <1>1, <1>3 DEF RunRecord
  <2> QED BY <2>1, <2>2, NoneAssumption
<1>5. saved'[r] = runs'[r]
  BY <1>3, <1>4 DEF Snapshot, RunRecord
<1>6. runs' = [runs EXCEPT ![r] = runs'[r]] /\ chat' = [chat EXCEPT ![r] = chat'[r]]
  BY <1>1, <1>2, <1>3 DEF TypeOK
<1>7. r \notin lost => ~runs'[r].retry
  BY <1>4, QuietRetry
<1>8. RunInv(r)'
  <2>1. chat'[r] = "configured"
    BY <1>1, <1>2 DEF RunInv, Inactive
  <2>2. Restorable(saved'[r], r \notin lost')
    BY <1>2, <1>4, <1>5, <1>7 DEF Restorable, Resumable
  <2>3. r \notin lost' => runs'[r].status \in Settled
    BY <1>2, <1>4
  <2>4. r \notin lost' => runs'[r] \in Restorations(chat'[r], saved'[r])
    BY <1>4, <1>5, <2>1, <2>3, TakenAsItIs DEF Settled, Resumable, Busy
  <2> QED BY <1>2, <1>4, <1>7, <2>1, <2>2, <2>3, <2>4
          DEF RunInv, Listed, Active, Inactive
<1> QED BY <1>1, <1>2, <1>4, <1>5, <1>6, <1>8, IdleKeeps DEF TypeOK

LEMMA UpdateRunConfigKeeps ==
  ASSUME IndInv, NEW r \in Run, UpdateRunConfig(r) PROVE IndInv'
<1>1. /\ TypeOK /\ RunInv(r) /\ Inactive(r) /\ runs' = runs
      /\ UNCHANGED <<contexts, stop>> /\ Save(r)
  BY DEF IndInv, UpdateRunConfig
<1>2. runs[r] \in RunRecord
  BY <1>1 DEF TypeOK, Inactive, Listed
<1>3. runs[r].status \in Settled \cup Busy
  BY <1>2 DEF RunRecord
<1>4. runs' = [runs EXCEPT ![r].status = runs[r].status]
  BY <1>1, <1>2 DEF TypeOK, RunRecord
<1>5. /\ runs[r].graph \/ runs[r].status \in Resumable
      /\ r \notin lost => runs[r].status \in Settled
  BY <1>1 DEF RunInv
<1> QED BY <1>1, <1>3, <1>4, <1>5, SavedIdleKeeps

LEMMA ReviewKeeps ==
  ASSUME IndInv, NEW r \in Run, Review(r) PROVE IndInv'
<1>1. /\ RunInv(r) /\ Inactive(r) /\ runs[r].graph
      /\ UNCHANGED <<contexts, stop>> /\ Save(r)
  BY DEF IndInv, Review
<1>2. PICK status \in {runs[r].status, "completed", "review"} :
        runs' = [runs EXCEPT ![r].status = status]
  BY DEF Review
<1>3. runs[r].status \in Settled \cup Busy
  BY <1>1 DEF IndInv, TypeOK, Inactive, Listed, RunRecord
<1>4. status \in Settled \cup Busy /\ (r \notin lost => status \in Settled)
  BY <1>1, <1>3 DEF RunInv, Settled, Resumable
<1> QED BY <1>1, <1>2, <1>4, SavedIdleKeeps

(* A phase of a task graph that could not be saved does not begin. *)
LEMMA BeginGraphKeeps ==
  ASSUME IndInv, NEW r \in Run, NEW kind \in {"execute", "merge"},
         stop = "no", Inactive(r), runs[r].graph,
         BeginGraph(r, kind, StatusOf(kind))
  PROVE  IndInv'
<1>1. CASE Begin(r, kind, StatusOf(kind)) /\ Save(r)
  BY <1>1, BeginKeeps DEF JobKind
<1>2. CASE /\ runs' = [runs EXCEPT ![r].status = StatusOf(kind)]
           /\ SaveFails(r) /\ UNCHANGED <<contexts, stop>>
  <2>1. /\ TypeOK /\ RunInv(r) /\ ~Active(r)
        /\ runs[r] \in RunRecord /\ runs[r] # None /\ runs[r].cancel = None
    BY DEF IndInv, TypeOK, Inactive, Active, Listed
  <2>2. /\ lost' = lost \cup {r} /\ UNCHANGED <<chat, saved, jobs, cancelled, stop>>
    BY <1>2 DEF SaveFails, contexts
  <2>3. runs'[r] = [runs[r] EXCEPT !.status = StatusOf(kind)]
    BY <1>2, <2>1 DEF TypeOK
  <2>4. StatusOf(kind) \in Settled \cup Busy
    BY DEF StatusOf, Busy
  <2>5. runs'[r] \in RunRecord /\ runs'[r].cancel = None /\ runs'[r].graph
    BY <2>1, <2>3, <2>4 DEF RunRecord
  <2>6. runs'[r] # None
    BY <2>5, NoneAssumption
  <2>7. RunInv(r)'
    BY <2>1, <2>2, <2>5, <2>6 DEF RunInv, Listed, Active, Inactive, Restorable
  <2>8. runs' = [runs EXCEPT ![r] = runs'[r]] /\ chat' = [chat EXCEPT ![r] = chat'[r]]
        /\ saved' = [saved EXCEPT ![r] = saved'[r]]
    BY <1>2, <2>1, <2>2, <2>3 DEF TypeOK
  <2> QED BY <2>1, <2>2, <2>5, <2>7, <2>8, IdleKeeps DEF TypeOK
<1> QED BY <1>1, <1>2 DEF BeginGraph

LEMMA ContinueKeeps ==
  ASSUME IndInv, NEW r \in Run,
         Continue(r) \/ RetryPlanning(r) \/ ExecuteDAG(r) \/ MergeDAG(r)
  PROVE  IndInv'
<1>1. /\ StatusOf("assignment") = "running" /\ StatusOf("plan") = "planning"
      /\ StatusOf("execute") = "running" /\ StatusOf("merge") = "merging"
  BY DEF StatusOf
<1>2. CASE Continue(r)
  BY <1>1, <1>2, BeginKeeps DEF Continue, Closed, JobKind
<1>3. CASE RetryPlanning(r)
  BY <1>1, <1>3, BeginKeeps DEF RetryPlanning, Closed, JobKind
<1>4. CASE ExecuteDAG(r)
  BY <1>1, <1>4, BeginGraphKeeps DEF ExecuteDAG, Closed
<1>5. CASE MergeDAG(r)
  BY <1>1, <1>5, BeginGraphKeeps DEF MergeDAG, Closed
<1> QED BY <1>2, <1>3, <1>4, <1>5

(* Contexts are cancelled, or Stop goes on. *)
LEMMA TellKeeps ==
  ASSUME IndInv, UNCHANGED <<runs, database, jobs>>, cancelled' \subseteq Context,
         stop' \in {"no", "waiting", "returned", "gaveUp"},
         stop' = "returned" => \A h \in Context : jobs[h] = None
  PROVE  IndInv'
<1>1. /\ runs' = runs /\ chat' = chat /\ saved' = saved /\ lost' = lost /\ jobs' = jobs
  BY DEF database
<1>2. TypeOK'
  BY <1>1 DEF IndInv, TypeOK
<1>3. ASSUME NEW r \in Run PROVE RunInv(r)'
  <2>1. RunInv(r)
    BY DEF IndInv
  <2> QED BY <1>1, <2>1 DEF RunInv, Listed, Active, Inactive, WaitsToRetry, Works,
             Restorable, Restorations, Recovered
<1>4. ASSUME NEW h \in Context PROVE JobInv(h)'
  BY <1>1 DEF IndInv, JobInv, Listed
<1> QED BY <1>2, <1>3, <1>4 DEF IndInv

LEMMA StopKeeps ==
  ASSUME IndInv, (\E r \in Run : Cancel(r)) \/ Stop \/ StopReturns \/ StopGivesUp
  PROVE  IndInv'
<1>1. ASSUME NEW r \in Run, Active(r) PROVE runs[r].cancel \in Context
  BY <1>1 DEF IndInv, TypeOK, RunRecord, Active, Listed
<1>2. CASE \E r \in Run : Cancel(r)
  BY <1>1, <1>2, TellKeeps DEF Cancel, IndInv, TypeOK, JobInv
<1>3. CASE Stop
  BY <1>1, <1>3, TellKeeps DEF Stop, IndInv, TypeOK
<1>4. CASE StopReturns
  <2>1. ASSUME NEW h \in Context, jobs[h] # None PROVE FALSE
    <3>1. jobs[h].run \in Run
      BY <2>1 DEF IndInv, TypeOK, Job
    <3> QED BY <1>4, <2>1, <3>1, NoJob DEF StopReturns
  <2> QED BY <1>4, <2>1, TellKeeps DEF StopReturns, contexts, IndInv, TypeOK
<1>5. CASE StopGivesUp
  BY <1>5, TellKeeps DEF StopGivesUp, contexts, IndInv, TypeOK
<1> QED BY <1>2, <1>3, <1>4, <1>5

------------------------------------------------------------------------------
(* The goroutines *)

(* What is known of a job and its run. *)
LEMMA JobFacts ==
  ASSUME IndInv, NEW h \in Context, jobs[h] # None
  PROVE  /\ jobs[h] \in Job /\ jobs[h].run \in Run
         /\ runs[jobs[h].run] \in RunRecord /\ runs[jobs[h].run] # None
         /\ runs[jobs[h].run].cancel = h /\ h # None
         /\ Active(jobs[h].run) /\ chat[jobs[h].run] = "configured"
         /\ TypeOK /\ RunInv(jobs[h].run) /\ JobInv(h)
         /\ \A k \in Context \ {h} : jobs[k] = None \/ jobs[k].run # jobs[h].run
<1>1. TypeOK /\ JobInv(h) /\ jobs[h] \in Job /\ jobs[h].run \in Run
  BY DEF IndInv, TypeOK, Job
<1>2. /\ Listed(jobs[h].run) /\ runs[jobs[h].run].cancel = h
      /\ RunInv(jobs[h].run) /\ h # None
  BY <1>1, ManagerAssumption DEF JobInv, IndInv
<1>3. \A k \in Context \ {h} : jobs[k] = None \/ jobs[k].run # jobs[h].run
  BY <1>2 DEF IndInv, JobInv
<1> QED BY <1>1, <1>2, <1>3 DEF TypeOK, Listed, Active, RunInv

(* A save of a run that is active. *)
LEMMA ActiveSave ==
  ASSUME TypeOK, NEW r \in Run, runs'[r] \in RunRecord, Save(r),
         runs'[r].graph \/ runs'[r].status \in Resumable \cup {"running"},
         r \notin lost /\ runs'[r].retry => runs'[r].status \in {"running", "planning"}
  PROVE  /\ saved'[r] \in RunRecord /\ Restorable(saved'[r], r \notin lost')
         /\ saved' = [saved EXCEPT ![r] = saved'[r]]
         /\ UNCHANGED <<chat, lost>>
<1>1. saved'[r] = [runs'[r] EXCEPT !.cancel = None] /\ UNCHANGED <<chat, lost>>
  BY DEF Save, Snapshot, TypeOK
<1>2. /\ saved'[r] \in RunRecord /\ saved'[r].cancel = None
      /\ saved'[r].graph = runs'[r].graph /\ saved'[r].status = runs'[r].status
      /\ saved'[r].retry = runs'[r].retry
  BY <1>1 DEF RunRecord
<1>3. Restorable(saved'[r], r \notin lost')
  BY <1>1, <1>2 DEF Restorable
<1>4. saved' = [saved EXCEPT ![r] = saved'[r]]
  BY <1>1 DEF Save, TypeOK
<1> QED BY <1>1, <1>2, <1>3, <1>4

(* The run of a job that goes on, with a retry announced or not. *)
LEMMA JobGoesOn ==
  ASSUME IndInv, NEW h \in Context, jobs[h] # None, NEW r \in Run, r = jobs[h].run,
         NEW job \in Job, NEW retry \in BOOLEAN,
         job.run = r, job.kind = jobs[h].kind,
         job.pc = "wait" => job.kind \in {"assignment", "plan"},
         r \notin lost' /\ retry => job.pc = "wait",
         runs' = [runs EXCEPT ![r].retry = retry], jobs' = [jobs EXCEPT ![h] = job],
         cancelled' \subseteq Context, UNCHANGED stop,
         Save(r) \/ SaveFails(r) \/ UNCHANGED database
  PROVE  IndInv'
<1>1. /\ runs[r] \in RunRecord /\ runs[r] # None /\ runs[r].cancel = h /\ h # None
      /\ chat[r] = "configured" /\ TypeOK /\ RunInv(r) /\ JobInv(h)
      /\ \A k \in Context \ {h} : jobs[k] = None \/ jobs[k].run # r
  BY JobFacts
<1>2. job # None
  BY NoneAssumption
<1>3. runs'[r] = [runs[r] EXCEPT !.retry = retry] /\ jobs'[h] = job
  BY <1>1 DEF TypeOK
<1>4. /\ runs'[r] \in RunRecord /\ runs'[r].cancel = h /\ runs'[r].retry = retry
      /\ runs'[r].status = runs[r].status
  BY <1>1, <1>3 DEF RunRecord
<1>5. runs'[r].graph = runs[r].graph
  BY <1>1, <1>3 DEF RunRecord
<1>6. runs'[r] # None
  BY <1>4, NoneAssumption
<1>7. /\ runs[r].status = StatusOf(job.kind) /\ (runs[r].graph <=> job.kind # "assignment")
      /\ stop # "returned"
  BY <1>1 DEF JobInv
<1>8. /\ runs'[r].graph \/ runs'[r].status \in Resumable \cup {"running"}
      /\ job.pc = "wait" => runs'[r].status \in {"running", "planning"}
  BY <1>4, <1>5, <1>7 DEF StatusOf
<1>9. /\ saved'[r] \in RunRecord \cup {None}
      /\ saved'[r] # None => Restorable(saved'[r], r \notin lost')
      /\ saved' = [saved EXCEPT ![r] = saved'[r]]
      /\ chat' = chat /\ lost' \in {lost, lost \cup {r}}
  <2>1. CASE Save(r)
    <3>1. lost' = lost
      BY <2>1 DEF Save
    <3> QED BY <1>1, <1>4, <1>8, <2>1, <3>1, ActiveSave
  <2>2. CASE SaveFails(r) \/ UNCHANGED database
    <3>1. saved' = saved /\ chat' = chat /\ lost' \in {lost, lost \cup {r}}
      BY <2>2 DEF SaveFails, database
    <3> QED BY <1>1, <3>1 DEF TypeOK, RunInv, Restorable
  <2> QED BY <2>1, <2>2
<1>10. TypeOK'
  BY <1>1, <1>4, <1>9 DEF TypeOK
<1>11. OnlyRun(r)
  BY <1>1, <1>2, <1>9 DEF OnlyRun, TypeOK
<1>12. RunInv(r)'
  BY <1>1, <1>2, <1>3, <1>4, <1>6, <1>9
     DEF RunInv, Listed, Active, Inactive, WaitsToRetry, Works
<1>13. ASSUME NEW k \in Context, jobs'[k] # None, jobs'[k].run = r PROVE JobInv(k)'
  <2>1. k = h
    BY <1>1, <1>13 DEF TypeOK
  <2>2. runs'[r].graph <=> job.kind # "assignment"
    BY <1>5, <1>7
  <2> QED BY <1>3, <1>4, <1>6, <1>7, <2>1, <2>2 DEF JobInv, Listed
<1> QED BY <1>10, <1>11, <1>12, <1>13, OtherRuns

LEMMA EventKeeps ==
  ASSUME IndInv, NEW h \in Context, Event(h) PROVE IndInv'
<1> DEFINE r == jobs[h].run
           retry == runs[r].retry
<1>1. /\ jobs[h] # None /\ UNCHANGED <<runs, jobs, stop>>
      /\ Save(r) \/ SaveFails(r)
      /\ cancelled' \in {cancelled, cancelled \cup {h}}
  BY DEF Event, Works
<1>2. /\ jobs[h] \in Job /\ r \in Run /\ runs[r] \in RunRecord /\ TypeOK
      /\ RunInv(r) /\ JobInv(h) /\ runs[r].cancel = h /\ Listed(r)
  BY <1>1, JobFacts DEF Active
<1>3. runs' = [runs EXCEPT ![r].retry = retry] /\ jobs' = [jobs EXCEPT ![h] = jobs[h]]
  BY <1>1, <1>2 DEF TypeOK, RunRecord
<1>4. r \notin lost' /\ retry => jobs[h].pc = "wait"
  BY <1>1, <1>2 DEF RunInv, WaitsToRetry, Works, Save, SaveFails
<1>5. jobs[h].pc = "wait" => jobs[h].kind \in {"assignment", "plan"}
  BY <1>1, <1>2 DEF JobInv
<1>6. retry \in BOOLEAN /\ cancelled' \subseteq Context
  BY <1>1, <1>2 DEF RunRecord, TypeOK
<1> DEFINE job == jobs[h]
<1>7. /\ job \in Job /\ job.run = r /\ job.kind = jobs[h].kind
      /\ job.pc = "wait" => job.kind \in {"assignment", "plan"}
      /\ r \notin lost' /\ retry => job.pc = "wait"
      /\ runs' = [runs EXCEPT ![r].retry = retry] /\ jobs' = [jobs EXCEPT ![h] = job]
  BY <1>2, <1>3, <1>4, <1>5
<1> HIDE DEF retry, job
<1>8. CASE retry = TRUE
  BY <1>1, <1>2, <1>6, <1>7, <1>8, JobGoesOn
<1>9. CASE retry = FALSE
  BY <1>1, <1>2, <1>6, <1>7, <1>9, JobGoesOn
<1> QED BY <1>6, <1>8, <1>9

LEMMA PauseRetryKeeps ==
  ASSUME IndInv, NEW h \in Context, PauseRetry(h) PROVE IndInv'
<1> DEFINE r == jobs[h].run
           waiting == [jobs[h] EXCEPT !.pc = "wait", !.used = @ + 1]
           unsaved == [jobs[h] EXCEPT !.pc = "unsaved", !.used = @ + 1]
<1>1. /\ jobs[h] # None /\ jobs[h].kind \in {"assignment", "plan"}
      /\ jobs[h].used < MaxRetries
      /\ runs' = [runs EXCEPT ![r].retry = TRUE]
      /\ UNCHANGED <<cancelled, stop>>
  BY DEF PauseRetry, Works
<1>2. jobs[h] \in Job /\ r \in Run /\ TypeOK
  BY <1>1, JobFacts
<1>3. /\ waiting \in Job /\ unsaved \in Job
      /\ waiting.run = r /\ unsaved.run = r
      /\ waiting.kind = jobs[h].kind /\ unsaved.kind = jobs[h].kind
      /\ waiting.pc = "wait" /\ unsaved.pc = "unsaved"
  <2>1. jobs[h].used + 1 \in 0 .. MaxRetries
    BY <1>1, <1>2, ManagerAssumption DEF Job
  <2> DEFINE used == jobs[h].used + 1
  <2>2. /\ waiting = [jobs[h] EXCEPT !.pc = "wait", !.used = used]
        /\ unsaved = [jobs[h] EXCEPT !.pc = "unsaved", !.used = used]
    BY <1>2 DEF Job
  <2>3. used \in 0 .. MaxRetries
    BY <2>1
  <2> HIDE DEF used, waiting, unsaved
  <2> QED BY <1>2, <2>2, <2>3 DEF Job
<1>4. cancelled' \subseteq Context
  BY <1>1, <1>2 DEF TypeOK
<1>5. CASE Save(r) /\ jobs' = [jobs EXCEPT ![h] = waiting]
  BY <1>1, <1>2, <1>3, <1>4, <1>5, JobGoesOn
<1>6. CASE SaveFails(r) /\ jobs' = [jobs EXCEPT ![h] = unsaved]
  <2>1. r \in lost'
    BY <1>6 DEF SaveFails
  <2> QED BY <1>1, <1>2, <1>3, <1>4, <1>6, <2>1, JobGoesOn
<1>7. \/ Save(r) /\ jobs' = [jobs EXCEPT ![h] = waiting]
      \/ SaveFails(r) /\ jobs' = [jobs EXCEPT ![h] = unsaved]
  BY DEF PauseRetry
<1> QED BY <1>5, <1>6, <1>7

LEMMA RetryOrStopKeeps ==
  ASSUME IndInv, NEW h \in Context, RetryOrStop(h) PROVE IndInv'
<1> DEFINE r == jobs[h].run
           pc == IF h \in cancelled THEN "stopping" ELSE "work"
           next == [jobs[h] EXCEPT !.pc = pc]
<1>1. /\ jobs[h] # None
      /\ runs' = [runs EXCEPT ![r].retry = FALSE]
      /\ jobs' = [jobs EXCEPT ![h] = next]
      /\ UNCHANGED <<database, cancelled, stop>>
  BY DEF RetryOrStop, Works
<1>2. jobs[h] \in Job /\ r \in Run /\ TypeOK
  BY <1>1, JobFacts
<1>3. next \in Job /\ next.run = r /\ next.kind = jobs[h].kind /\ next.pc # "wait"
  BY <1>2 DEF Job
<1> QED BY <1>1, <1>2, <1>3, JobGoesOn DEF TypeOK

(* Whatever a job ends with, its run has settled, and announces no retry: one
   that waits for a retry does not end. *)
LEMMA OutcomeFacts ==
  ASSUME IndInv, NEW h \in Context, jobs[h] # None, NEW status \in Outcomes(h)
  PROVE  /\ status \in Settled
         /\ jobs[h].kind = "assignment" => status \in Resumable
         /\ ~Works(h, "wait")
<1>1. jobs[h] \in Job
  BY JobFacts
<1>2. ~Works(h, "wait")
  BY DEF Outcomes, Works
<1>3. status \in {"cancelled", "failed"} \cup Ends[jobs[h].kind]
  BY DEF Outcomes
<1>4. /\ Ends[jobs[h].kind] \subseteq Settled
      /\ jobs[h].kind = "assignment" => Ends[jobs[h].kind] \subseteq Resumable
  BY <1>1 DEF Ends, Job, JobKind, Settled, Resumable
<1> QED BY <1>2, <1>3, <1>4 DEF Settled, Resumable

LEMMA FinishKeeps ==
  ASSUME IndInv, NEW h \in Context, Finish(h) PROVE IndInv'
<1>0. PICK r \in Run : r = jobs[h].run
  BY JobFacts DEF Finish
<1>1. /\ jobs[h] # None
      /\ Save(r) \/ SaveFails(r)
      /\ jobs' = [jobs EXCEPT ![h] = None] /\ cancelled' = cancelled \ {h}
      /\ UNCHANGED stop
  BY <1>0 DEF Finish, End
<1>2. PICK status \in Outcomes(h) :
        \E plan \in MayPlan(h, status) : runs' = Settle(h, status, plan)
  BY DEF Finish
<1>2a. PICK plan \in MayPlan(h, status) : runs' = Settle(h, status, plan)
  BY <1>2
<1>3. /\ r \in Run /\ runs[r] \in RunRecord /\ runs[r].cancel = h /\ TypeOK
      /\ chat[r] = "configured" /\ RunInv(r) /\ JobInv(h) /\ Listed(r)
      /\ \A k \in Context \ {h} : jobs[k] = None \/ jobs[k].run # r
  BY <1>0, <1>1, JobFacts DEF Active
<1>4. /\ status \in Settled /\ ~Works(h, "wait")
      /\ jobs[h].kind = "assignment" => status \in Resumable
  BY <1>1, OutcomeFacts
<1>5. plan \in BOOLEAN
  BY DEF MayPlan
<1>6. runs'[r] = [runs[r] EXCEPT !.cancel = None, !.status = status, !.planned = @ \/ plan]
  BY <1>0, <1>2a, <1>3 DEF Settle, TypeOK
<1>7. /\ runs'[r] \in RunRecord /\ runs'[r] # None /\ runs'[r].cancel = None
      /\ runs'[r].status = status
  <2>1. (runs[r].planned \/ plan) \in BOOLEAN
    OBVIOUS
  <2>2. runs'[r] \in RunRecord
    BY <1>3, <1>4, <1>6, <2>1 DEF RunRecord
  <2>3. runs'[r].cancel = None /\ runs'[r].status = status
    BY <1>3, <1>6 DEF RunRecord
  <2> QED BY <2>2, <2>3, NoneAssumption
<1>8. runs'[r].graph = runs[r].graph /\ runs'[r].retry = runs[r].retry
  BY <1>3, <1>6 DEF RunRecord
<1>9. runs'[r].graph \/ status \in Resumable
  BY <1>0, <1>1, <1>3, <1>4, <1>8 DEF JobInv
<1>10. r \notin lost => ~runs'[r].retry
  BY <1>0, <1>3, <1>4, <1>8 DEF RunInv, WaitsToRetry
<1>11. /\ chat' = chat /\ saved' = [saved EXCEPT ![r] = saved'[r]]
       /\ lost' \in {lost, lost \cup {r}} /\ saved'[r] \in RunRecord \cup {None}
       /\ saved'[r] # None => Restorable(saved'[r], r \notin lost')
       /\ r \notin lost' => saved'[r] = runs'[r]
  <2>1. CASE Save(r)
    <3>1. saved' = [saved EXCEPT ![r] = [runs'[r] EXCEPT !.cancel = None]]
          /\ UNCHANGED <<chat, lost>>
      BY <2>1 DEF Save, Snapshot
    <3>2. [runs'[r] EXCEPT !.cancel = None] = runs'[r]
      BY <1>7 DEF RunRecord
    <3>3. saved'[r] = runs'[r]
      BY <1>3, <3>1, <3>2 DEF TypeOK
    <3> QED BY <1>3, <1>7, <1>9, <1>10, <3>1, <3>2, <3>3 DEF Restorable, TypeOK
  <2>2. CASE SaveFails(r)
    <3>1. saved' = saved /\ chat' = chat /\ lost' = lost \cup {r}
      BY <2>2 DEF SaveFails
    <3> QED BY <1>3, <3>1 DEF TypeOK, RunInv, Restorable
  <2> QED BY <1>1, <2>1, <2>2
<1>12. TypeOK'
  <2>1. runs' = [runs EXCEPT ![r] = runs'[r]]
    BY <1>0, <1>2a, <1>3 DEF Settle, TypeOK
  <2> QED BY <1>1, <1>3, <1>7, <1>11, <2>1 DEF TypeOK
<1>13. OnlyRun(r)
  BY <1>0, <1>1, <1>2a, <1>3, <1>11 DEF OnlyRun, TypeOK, Settle
<1>14. RunInv(r)'
  <2>1. chat'[r] = "configured"
    BY <1>3, <1>11
  <2>2. r \notin lost' => runs'[r] \in Restorations(chat'[r], saved'[r])
    BY <1>4, <1>7, <1>11, <2>1, TakenAsItIs DEF Settled, Resumable, Busy
  <2>3. r \notin lost' => ~runs'[r].retry
    BY <1>10, <1>11
  <2> QED BY <1>4, <1>7, <1>9, <1>11, <2>1, <2>2, <2>3 DEF RunInv, Listed, Active, Inactive
<1>15. ASSUME NEW k \in Context, jobs'[k] # None, jobs'[k].run = r PROVE JobInv(k)'
  BY <1>0, <1>1, <1>3, <1>15 DEF TypeOK
<1> QED BY <1>3, <1>12, <1>13, <1>14, <1>15, OtherRuns

------------------------------------------------------------------------------
(* A restart *)

(* What is made of a sound snapshot has settled and announces no retry. *)
LEMMA RestorationFacts ==
  ASSUME NEW s \in RunRecord \cup {None}, NEW sound, s # None => Restorable(s, sound),
         NEW run \in Restorations("configured", s)
  PROVE  /\ run \in RunRecord /\ run # None /\ run.cancel = None
         /\ run.status \in Settled
         /\ run.graph \/ run.status \in Resumable
         /\ sound => ~run.retry
<1>1. CASE s = None
  <2>1. run = Interrupted
    BY <1>1 DEF Restorations, Recovered
  <2>2. /\ run.status = "cancelled" /\ run.cancel = None /\ run.retry = FALSE
        /\ run \in RunRecord
    BY <2>1 DEF Interrupted, RunRecord, Settled, Resumable
  <2>3. run # None
    BY <2>2, NoneAssumption
  <2> QED BY <2>2, <2>3 DEF Settled, Resumable
<1>2. CASE s # None
  <2>1. s \in RunRecord /\ Restorable(s, sound)
    BY <1>2
  <2>2. run \in RunRecord
    BY <1>2, <2>1 DEF Restorations, Recovered, RunRecord, Settled, Resumable
  <2>3. run # None
    BY <2>2, NoneAssumption
  <2>4. CASE s.status \notin Busy
    <3>1. run = s /\ s.status \in Settled
      BY <1>2, <2>1, <2>4 DEF Restorations, Recovered, Busy, RunRecord
    <3> QED BY <2>1, <2>2, <2>3, <3>1 DEF Restorable, Settled, Resumable
  <2>5. CASE s.status \in Busy
    <3>1. run.cancel = None /\ run.status \in {"cancelled", "review", "completed"}
      BY <1>2, <2>1, <2>5 DEF Restorations, Recovered, RunRecord, Restorable
    <3>2. run.graph \/ run.status \in Resumable
      BY <1>2, <2>1, <2>5 DEF Restorations, Recovered, RunRecord, Restorable, Resumable
    <3>3. sound => ~run.retry
      BY <1>2, <2>1, <2>5 DEF Restorations, Recovered, RunRecord, Restorable
    <3> QED BY <2>2, <2>3, <3>1, <3>2, <3>3 DEF Settled, Resumable
  <2> QED BY <2>4, <2>5
<1> QED BY <1>1, <1>2

LEMMA RestartKeeps ==
  ASSUME IndInv, NEW c \in [Run -> {"none", "created", "configured", "deleted"}],
         \A r \in Run : c[r] # chat[r] => chat[r] = "none",
         Restart(c)
  PROVE  IndInv'
<1>1. /\ TypeOK /\ chat' = c /\ UNCHANGED <<saved, lost>> /\ stop' = "no"
      /\ jobs' = [h \in Context |-> None] /\ cancelled' = {}
      /\ runs' \in [Run -> UNION {Restorations(c[r], saved[r]) : r \in Run}]
      /\ \A r \in Run : runs'[r] \in Restorations(c[r], saved[r])
  BY DEF IndInv, Restart
<1>2. ASSUME NEW r \in Run PROVE RunInv(r)' /\ runs'[r] \in RunRecord \cup {None}
  <2>1. /\ RunInv(r) /\ saved'[r] = saved[r] /\ (r \in lost' <=> r \in lost)
        /\ saved[r] \in RunRecord \cup {None} /\ chat'[r] = c[r]
        /\ runs'[r] \in Restorations(c[r], saved[r])
    BY <1>1 DEF IndInv, TypeOK
  <2>2. CASE c[r] # "configured"
    <3>1. runs'[r] = None
      BY <2>1, <2>2 DEF Restorations
    <3>2. saved[r] = None
      BY <2>1, <2>2 DEF RunInv
    <3> QED BY <2>1, <3>1, <3>2 DEF RunInv, Listed, Active, Inactive
  <2>3. CASE c[r] = "configured"
    <3>1. saved[r] # None => Restorable(saved[r], r \notin lost)
      BY <2>1 DEF RunInv
    <3>2. /\ runs'[r] \in RunRecord /\ runs'[r] # None /\ runs'[r].cancel = None
          /\ runs'[r].status \in Settled
          /\ runs'[r].graph \/ runs'[r].status \in Resumable
          /\ r \notin lost => ~runs'[r].retry
      BY <2>1, <2>3, <3>1, RestorationFacts
    <3>3. Restorations(c[r], saved[r])' = Restorations(c[r], saved[r])
      BY <2>1 DEF Restorations, Recovered
    <3>4. runs'[r] \in Restorations(chat'[r], saved'[r])
      BY <2>1
    <3> QED BY <2>1, <2>3, <3>1, <3>2, <3>4
            DEF RunInv, Listed, Active, Inactive, Restorable
  <2> QED BY <2>2, <2>3
<1>3. runs' \in [Run -> RunRecord \cup {None}]
  BY <1>1, <1>2
<1>4. TypeOK'
  BY <1>1, <1>3 DEF TypeOK
<1>5. ASSUME NEW h \in Context PROVE JobInv(h)'
  BY <1>1 DEF JobInv
<1> QED BY <1>2, <1>4, <1>5 DEF IndInv

LEMMA CrashKeeps ==
  ASSUME IndInv, Crash \/ \E r \in Run : CrashStarting(r) PROVE IndInv'
<1>1. TypeOK
  BY DEF IndInv
<1>2. CASE Crash
  BY <1>1, <1>2, RestartKeeps DEF Crash, TypeOK
<1>3. CASE \E r \in Run : CrashStarting(r)
  <2>1. PICK r \in Run, left \in {"created", "configured"} :
          chat[r] = "none" /\ Restart([chat EXCEPT ![r] = left])
    BY <1>3 DEF CrashStarting
  <2> DEFINE c == [chat EXCEPT ![r] = left]
  <2>2. /\ c \in [Run -> {"none", "created", "configured", "deleted"}]
        /\ \A q \in Run : c[q] # chat[q] => chat[q] = "none"
    BY <1>1, <2>1 DEF TypeOK
  <2> HIDE DEF c
  <2>3. Restart(c)
    BY <2>1 DEF c
  <2> QED BY <2>2, <2>3, RestartKeeps
<1> QED BY <1>2, <1>3

------------------------------------------------------------------------------
(* The invariant of the manager *)

LEMMA InitInvariant == Init => IndInv
<1> SUFFICES ASSUME Init PROVE IndInv
  OBVIOUS
<1>1. TypeOK
  BY DEF Init, TypeOK
<1>2. ASSUME NEW r \in Run PROVE RunInv(r)
  BY DEF Init, RunInv, Listed, Active, Inactive
<1>3. ASSUME NEW h \in Context PROVE JobInv(h)
  BY DEF Init, JobInv
<1> QED BY <1>1, <1>2, <1>3 DEF IndInv

LEMMA StepKeeps == IndInv /\ [Next]_vars => IndInv'
<1> SUFFICES ASSUME IndInv, [Next]_vars PROVE IndInv'
  OBVIOUS
<1>1. CASE UNCHANGED vars
  <2>1. stop = "returned" => \A h \in Context : jobs[h] = None
    BY DEF IndInv, JobInv
  <2> QED BY <1>1, <2>1, TellKeeps DEF vars, contexts, IndInv, TypeOK
<1>2. ASSUME NEW r \in Run, NEW graph \in BOOLEAN, Start(r, graph) PROVE IndInv'
  BY <1>2, StartKeeps
<1>3. ASSUME NEW r \in Run, StartFails(r) PROVE IndInv'
  BY <1>3, StartFailsKeeps
<1>4. ASSUME NEW r \in Run,
             Continue(r) \/ RetryPlanning(r) \/ ExecuteDAG(r) \/ MergeDAG(r)
      PROVE  IndInv'
  BY <1>4, ContinueKeeps
<1>5. ASSUME NEW r \in Run, UpdateRunConfig(r) PROVE IndInv'
  BY <1>5, UpdateRunConfigKeeps
<1>6. ASSUME NEW r \in Run, Review(r) PROVE IndInv'
  BY <1>6, ReviewKeeps
<1>7. ASSUME NEW r \in Run, Delete(r) PROVE IndInv'
  BY <1>7, DeleteKeeps
<1>8. ASSUME NEW h \in Context, Event(h) PROVE IndInv'
  BY <1>8, EventKeeps
<1>9. ASSUME NEW h \in Context, PauseRetry(h) PROVE IndInv'
  BY <1>9, PauseRetryKeeps
<1>10. ASSUME NEW h \in Context, RetryOrStop(h) PROVE IndInv'
  BY <1>10, RetryOrStopKeeps
<1>11. ASSUME NEW h \in Context, Finish(h) PROVE IndInv'
  BY <1>11, FinishKeeps
<1>12. CASE (\E r \in Run : Cancel(r)) \/ Stop \/ StopReturns \/ StopGivesUp
  BY <1>12, StopKeeps
<1>13. CASE Crash \/ \E r \in Run : CrashStarting(r)
  BY <1>13, CrashKeeps
<1> QED BY <1>1, <1>2, <1>3, <1>4, <1>5, <1>6, <1>7, <1>8, <1>9, <1>10, <1>11, <1>12,
           <1>13 DEF Next

(* The inductive invariant of the manager holds in every behaviour. *)
THEOREM Invariance == Spec => []IndInv
BY InitInvariant, StepKeeps, PTL DEF Spec

(* The values of every variable, and so that no job retries more often than
   its configuration says (automatic_retry.go:148). *)
THEOREM ManagerTypeCorrect == Spec => []TypeOK
<1>1. IndInv => TypeOK
  BY DEF IndInv
<1> QED BY <1>1, Invariance, PTL

(* However calls interleave, what executes is what its run names: Delete and
   Continue never touch a run that a goroutine works for (manager.go:353, 525). *)
THEOREM ExecutionsReachable == Spec => []EveryExecutionReachable
<1>1. IndInv => EveryExecutionReachable
  BY DEF IndInv, JobInv, RunInv, EveryExecutionReachable
<1> QED BY <1>1, Invariance, PTL

(* When Stop returns without an error no goroutine is left, and no later call
   starts one (manager.go:585-608). *)
THEOREM StopLeavesNothing == Spec => []StoppedMeansQuiet
<1>1. IndInv => StoppedMeansQuiet
  BY DEF IndInv, JobInv, StoppedMeansQuiet
<1> QED BY <1>1, Invariance, PTL

(* Whenever the process dies, a run that had settled and whose saves succeeded
   comes back as it was (manager.go:111-193, 480). *)
THEOREM SettledRunsSurvive == Spec => []SettledSurvives
<1>1. IndInv => SettledSurvives
  BY DEF IndInv, RunInv, SettledSurvives
<1> QED BY <1>1, Invariance, PTL

(* No run is lost or comes back from deletion, wherever creating or deleting
   it stops (manager.go:293-318, 536-546), and an assignment that does not
   execute can be continued, also when its saves fail (manager.go:353, 395). *)
THEOREM ListKept == Spec => []ListedIsKept
<1>1. IndInv => ListedIsKept
  BY DEF IndInv, RunInv, ListedIsKept
<1> QED BY <1>1, Invariance, PTL

(* While saves succeed an announced retry is one a goroutine waits for
   (automatic_retry.go:118-139, manager.go:150-155). *)
THEOREM RetryAnnouncedTruly == Spec => []RetryAnnouncedWhileWaiting
<1>1. IndInv => RetryAnnouncedWhileWaiting
  BY DEF IndInv, RunInv, RetryAnnouncedWhileWaiting
<1> QED BY <1>1, Invariance, PTL

------------------------------------------------------------------------------
(* The limit on workers *)

Working == {r \in Run : Active(r) /\ runs[r].status # "merging"}
Executing == {r \in Run : Active(r)}

LEMMA NoMoreWorking ==
  ASSUME WorkersBounded, Working' \subseteq Working PROVE WorkersBounded'
<1>1. IsFiniteSet(Working)
  BY ManagerAssumption, FS_Subset DEF Working
<1>2. Cardinality(Working') \leq Cardinality(Working) /\ Cardinality(Working) \leq MaxActive
  BY <1>1, FS_Subset DEF WorkersBounded, Working
<1>3. IsFiniteSet(Working')
  BY <1>1, FS_Subset
<1>4. Cardinality(Working) \in Nat /\ Cardinality(Working') \in Nat
  BY <1>1, <1>3, FS_CardinalityType
<1>5. Cardinality(Working') \leq MaxActive
  BY <1>2, <1>4, ManagerAssumption
<1> QED BY <1>5 DEF WorkersBounded, Working

(* A run that begins has been counted with all that execute. *)
LEMMA OneMoreWorking ==
  ASSUME HasCapacity, NEW r \in Run, Working' \subseteq Executing \cup {r}
  PROVE  WorkersBounded'
<1>1. IsFiniteSet(Executing)
  BY ManagerAssumption, FS_Subset DEF Executing
<1>2. /\ IsFiniteSet(Executing \cup {r})
      /\ Cardinality(Executing \cup {r}) \leq Cardinality(Executing) + 1
  BY <1>1, FS_AddElement, FS_CardinalityType
<1>3. IsFiniteSet(Working') /\ Cardinality(Working') \leq Cardinality(Executing \cup {r})
  BY <1>2, FS_Subset
<1>4. Cardinality(Executing) < MaxActive
  BY DEF HasCapacity, Executing
<1>5. /\ Cardinality(Executing) \in Nat /\ Cardinality(Executing \cup {r}) \in Nat
      /\ Cardinality(Working') \in Nat
  BY <1>1, <1>2, <1>3, FS_CardinalityType
<1>6. Cardinality(Working') \leq MaxActive
  BY <1>2, <1>3, <1>4, <1>5, ManagerAssumption
<1> QED BY <1>6 DEF WorkersBounded, Working

LEMMA BeginWorks ==
  ASSUME TypeOK, HasCapacity, NEW r \in Run, \A q \in Run \ {r} : runs'[q] = runs[q]
  PROVE  WorkersBounded'
<1>1. Working' \subseteq Executing \cup {r}
  BY DEF Working, Executing, Active, Listed
<1> QED BY <1>1, OneMoreWorking

(* A run whose status and context stay, or that is inactive, or merges. *)
LEMMA SameWork ==
  ASSUME WorkersBounded,
         \A r \in Run : \/ ~Active(r)'
                        \/ runs'[r].status = "merging"
                        \/ Active(r) /\ runs'[r].status = runs[r].status
  PROVE  WorkersBounded'
<1>1. Working' \subseteq Working
  BY DEF Working
<1> QED BY <1>1, NoMoreWorking

LEMMA WorkStep == IndInv /\ WorkersBounded /\ [Next]_vars => WorkersBounded'
<1> SUFFICES ASSUME IndInv, WorkersBounded, [Next]_vars PROVE WorkersBounded'
  OBVIOUS
<1>0. TypeOK
  BY DEF IndInv
<1>1. ASSUME UNCHANGED runs PROVE WorkersBounded'
  BY <1>1 DEF WorkersBounded, Active, Listed
<1>2. ASSUME NEW r \in Run, NEW graph \in BOOLEAN, Start(r, graph) PROVE WorkersBounded'
  BY <1>0, <1>2, BeginWorks DEF Start, TypeOK
<1>3. ASSUME NEW r \in Run, Continue(r) \/ RetryPlanning(r) \/ ExecuteDAG(r)
      PROVE  WorkersBounded'
  BY <1>0, <1>3, BeginWorks DEF Continue, RetryPlanning, ExecuteDAG, BeginGraph, Begin, TypeOK
<1>4. ASSUME NEW r \in Run, MergeDAG(r) PROVE WorkersBounded'
  <2>1. Inactive(r) /\ runs[r] \in RunRecord
    BY <1>0, <1>4 DEF MergeDAG, TypeOK, Inactive, Listed
  <2>2. runs'[r].status = "merging" /\ \A q \in Run \ {r} : runs'[q] = runs[q]
    BY <1>0, <1>4, <2>1 DEF MergeDAG, BeginGraph, Begin, TypeOK, RunRecord
  <2> QED BY <2>2, SameWork DEF Active, Listed
<1>5. ASSUME NEW r \in Run, Review(r) \/ Delete(r) PROVE WorkersBounded'
  <2>1. Inactive(r) /\ runs[r] \in RunRecord
    BY <1>0, <1>5 DEF Review, Delete, TypeOK, Inactive, Listed
  <2>2. ~Active(r)' /\ \A q \in Run \ {r} : runs'[q] = runs[q]
    BY <1>0, <1>5, <2>1 DEF Review, Delete, TypeOK, RunRecord, Active, Inactive, Listed
  <2> QED BY <2>2, SameWork DEF Active, Listed
<1>6. ASSUME NEW h \in Context, PauseRetry(h) \/ RetryOrStop(h) PROVE WorkersBounded'
  <2>1. PICK r \in Run, retry \in BOOLEAN :
          runs[r] \in RunRecord /\ Active(r) /\ runs' = [runs EXCEPT ![r].retry = retry]
    BY <1>6, JobFacts DEF PauseRetry, RetryOrStop, Works
  <2>2. /\ runs'[r].status = runs[r].status
        /\ \A q \in Run \ {r} : runs'[q] = runs[q]
    BY <1>0, <2>1 DEF TypeOK, RunRecord
  <2> QED BY <2>1, <2>2, SameWork DEF Active, Listed
<1>7. ASSUME NEW h \in Context, Finish(h) PROVE WorkersBounded'
  <2>1. PICK r \in Run, status \in Settled \cup Busy, plan \in BOOLEAN :
          /\ runs[r] \in RunRecord
          /\ runs' = [runs EXCEPT ![r].cancel = None, ![r].status = status,
                                  ![r].planned = @ \/ plan]
    <3>1. PICK status \in Outcomes(h) :
            \E plan \in MayPlan(h, status) : runs' = Settle(h, status, plan)
      BY <1>7 DEF Finish
    <3>2. PICK plan \in MayPlan(h, status) : runs' = Settle(h, status, plan)
      BY <3>1
    <3>3. jobs[h].run \in Run /\ runs[jobs[h].run] \in RunRecord /\ status \in Settled
      BY <1>7, JobFacts, OutcomeFacts DEF Finish
    <3>4. plan \in BOOLEAN
      BY DEF MayPlan
    <3> QED BY <3>2, <3>3, <3>4 DEF Settle
  <2>2. runs'[r].cancel = None /\ \A q \in Run \ {r} : runs'[q] = runs[q]
    BY <1>0, <2>1 DEF TypeOK, RunRecord
  <2> QED BY <2>2, SameWork DEF Active, Listed
<1>8. ASSUME Crash \/ \E r \in Run : CrashStarting(r) PROVE WorkersBounded'
  <2>1. ASSUME NEW r \in Run PROVE ~Active(r)'
    <3>1. IndInv' /\ \A h \in Context : jobs'[h] = None
      BY <1>8, CrashKeeps DEF Crash, CrashStarting, Restart
    <3>2. Active(r)' => runs'[r].cancel \in Context /\ jobs'[runs'[r].cancel] # None
      BY <3>1 DEF IndInv, RunInv, TypeOK, RunRecord, Active, Listed
    <3> QED BY <3>1, <3>2
  <2> QED BY <2>1, SameWork
<1>9. CASE UNCHANGED runs
  BY <1>1, <1>9
<1>10. ASSUME [Next]_vars, ~UNCHANGED runs
       PROVE  \/ \E r \in Run : \/ \E graph \in BOOLEAN : Start(r, graph)
                               \/ Continue(r) \/ RetryPlanning(r) \/ ExecuteDAG(r)
                               \/ MergeDAG(r) \/ Review(r) \/ Delete(r) \/ CrashStarting(r)
              \/ \E h \in Context : PauseRetry(h) \/ RetryOrStop(h) \/ Finish(h)
              \/ Crash
  BY <1>10 DEF Next, vars, StartFails, UpdateRunConfig, Cancel, Event, Stop, StopReturns,
     StopGivesUp
<1> QED BY <1>2, <1>3, <1>4, <1>5, <1>6, <1>7, <1>8, <1>9, <1>10

LEMMA InitWorks == Init => WorkersBounded
<1> SUFFICES ASSUME Init PROVE WorkersBounded
  OBVIOUS
<1>1. {r \in Run : Active(r) /\ runs[r].status # "merging"} = {}
  BY DEF Init, Active, Listed
<1> QED BY <1>1, FS_EmptySet, ManagerAssumption DEF WorkersBounded

(* However many runs are asked for, and from wherever, no more than the limit
   have workers; a merge, which has none, is not held up
   (dag_manager.go:128-139, 525-597). *)
THEOREM WorkersStayBounded == Spec => []WorkersBounded
BY InitWorks, WorkStep, Invariance, PTL DEF Spec
==============================================================================
