---------------------------- MODULE ReviewedGraph ----------------------------
(***************************************************************************)
(* What a worker run promises about its task graph, whatever executes,     *)
(* fails, is cancelled or crashes: work starts only on completed           *)
(* dependencies, completed work is lost only when the process dies and     *)
(* then never under something that was kept, results are accepted          *)
(* dependencies first, and the target branch receives sets of accepted     *)
(* changes that are closed under dependencies, each change once.           *)
(***************************************************************************)
EXTENDS TaskGraph

CONSTANT Graphs

VARIABLES deps,      \* the graph
          working,   \* tasks a worker has
          done,      \* tasks with a result
          changed,   \* those of them that changed a file
          accepted,  \* results the user accepted
          landed     \* changes in the target branch

vars == <<deps, working, done, changed, accepted, landed>>

Init ==
  /\ deps \in [Task -> {{}}]
  /\ working = {} /\ done = {} /\ changed = {} /\ accepted = {} /\ landed = {}

Closed(S) == ClosedUnder(deps, S)

(* A plan is drawn up or edited before any work. *)
Plan ==
  /\ working = {} /\ done = {}
  /\ deps' \in Graphs
  /\ UNCHANGED <<working, done, changed, accepted, landed>>

Start(t) ==
  /\ t \notin working \cup done
  /\ Ancestors(deps, t) \subseteq done
  /\ working' = working \cup {t}
  /\ UNCHANGED <<deps, done, changed, accepted, landed>>

Finish(t) ==
  /\ t \in working
  /\ working' = working \ {t}
  /\ done' = done \cup {t}
  /\ changed' \in {changed, changed \cup {t}}
  /\ UNCHANGED <<deps, accepted, landed>>

GiveUp(t) ==
  /\ t \in working
  /\ working' = working \ {t}
  /\ UNCHANGED <<deps, done, changed, accepted, landed>>

Accept(t) ==
  /\ working = {}
  /\ t \in done
  /\ Ancestors(deps, t) \subseteq accepted
  /\ accepted' = accepted \cup {t}
  /\ UNCHANGED <<deps, working, done, changed, landed>>

Reject(t) ==
  /\ working = {}
  /\ t \in accepted \ landed
  /\ \A u \in accepted : t \notin Ancestors(deps, u)
  /\ accepted' = accepted \ {t}
  /\ UNCHANGED <<deps, working, done, changed, landed>>

(* One fast-forward of the target branch. *)
Land(S) ==
  /\ working = {}
  /\ S \subseteq (accepted \cap changed) \ landed
  /\ \A t \in S : Ancestors(deps, t) \cap changed \subseteq landed \cup S
  /\ landed' = landed \cup S
  /\ UNCHANGED <<deps, working, done, changed, accepted>>

(* The process dies.  What was not saved is gone; what the user accepted,
   and what is in the branch, is not. *)
Interrupt ==
  /\ working' = {}
  /\ done' \in SUBSET done
  /\ Closed(done')
  /\ accepted \subseteq done'
  /\ changed' = changed \cap done'
  /\ deps' = deps \/ (done' = {} /\ deps' \in Graphs \cup [Task -> {{}}])
  /\ UNCHANGED <<accepted, landed>>

Next ==
  \/ Plan \/ Interrupt
  \/ \E t \in Task : \/ Start(t) \/ Finish(t) \/ GiveUp(t)
                     \/ Accept(t) \/ Reject(t)
  \/ \E S \in SUBSET Task : Land(S)

Spec == Init /\ [][Next]_vars
==============================================================================
