-------------------- MODULE DependencyIntegrationProofs --------------------
(***************************************************************************)
(* For any list of dependencies: the record of an integration is truthful, *)
(* the dependencies are settled in order, a worker begins on all of them,  *)
(* its commits stay in its patch, and it is asked about every conflict,    *)
(* whatever is killed, crashes, is done by hand, or is not saved.          *)
(*                                                                         *)
(* A save that fails leaves an older record, which claims less, or that of *)
(* a worktree that was removed.  The latter never meets the next worktree: *)
(* ExecuteDAG saves the whole run before a new one can be made.            *)
(***************************************************************************)
EXTENDS DependencyIntegration, FiniteSetTheorems, TLAPS

(* Of a worktree that exists. *)
Truthful(t) ==
  place = "made" => t.integrated \subseteq settled /\ (t.ready => settled = Dep)

Sound(t) == t.made \/ t = Fresh

Executing == pc \in {"integrate", "pick", "resolve", "work"}

(* Git has nothing of a worktree that is not there. *)
Blank == place # "made" => head = <<>> /\ pick = None

HeadSettled == \A i \in DOMAIN head : head[i] \in Dep => head[i] \in settled

(* The dependencies before c are settled. *)
Reached(c) == \A i, j \in DOMAIN Deps : i < j /\ Deps[j] = c => Deps[i] \in settled

IndInv ==
  /\ TypeOK
  /\ Truthful(tree) /\ Truthful(saved)
  /\ Sound(tree) /\ Sound(saved)
  /\ Executing => place = "made" /\ tree.made
  /\ pc = "setup" => saved \in {tree, Fresh}
  /\ Blank
  /\ HeadSettled
  /\ SettledInOrder
  /\ pick \in Dep => Reached(pick)
  /\ pc = "work" => settled = Dep
  /\ pc = "resolve" => attempt < Len(Deps)

------------------------------------------------------------------------------
(* What the record's changes do to its type *)

LEMMA DepsFacts ==
  /\ Len(Deps) \in Nat
  /\ None \notin Dep /\ Foreign \notin Dep /\ Work \notin Dep
  /\ \A i \in DOMAIN Deps : Deps[i] \in Dep
  /\ \A i, j \in DOMAIN Deps : Deps[i] = Deps[j] => i = j
<1>1. Deps \in Seq(Dep) /\ {Work, Foreign, None} \cap Dep = {}
  BY DepsAssumption
<1>2. \A i, j \in DOMAIN Deps : Deps[i] = Deps[j] => i = j
  BY DepsAssumption DEF IsInjective
<1> QED BY <1>1, <1>2

LEMMA PendingType ==
  ASSUME NEW t \in Worktree, NEW c \in Dep, head \in History
  PROVE  /\ Pending(t, c) \in Worktree
         /\ Pending(t, c).integrated = t.integrated
         /\ Pending(t, c).ready = t.ready /\ Pending(t, c).made = t.made
BY DEF Pending, Worktree

LEMMA NotPendingType ==
  ASSUME NEW t \in Worktree
  PROVE  /\ NotPending(t) \in Worktree
         /\ NotPending(t).integrated = t.integrated
         /\ NotPending(t).ready = t.ready /\ NotPending(t).made = t.made
BY DEF NotPending, Worktree

LEMMA IntegratedType ==
  ASSUME NEW t \in Worktree, NEW c \in Dep
  PROVE  /\ Integrated(t, c) \in Worktree
         /\ Integrated(t, c).integrated = t.integrated \cup {c}
         /\ Integrated(t, c).ready = t.ready /\ Integrated(t, c).made = t.made
BY DEF Integrated, NotPending, Worktree

LEMMA RebasedType ==
  ASSUME NEW t \in Worktree, NEW h \in History \cup {None}
  PROVE  /\ Rebased(t, h) \in Worktree
         /\ Rebased(t, h).integrated = t.integrated
         /\ Rebased(t, h).ready = t.ready /\ Rebased(t, h).made = t.made
BY DEF Rebased, Worktree

LEMMA AdoptedType ==
  ASSUME TypeOK, pick = None \/ Mine
  PROVE  /\ Adopted \in Worktree
         /\ Adopted.integrated = tree.integrated
         /\ Adopted.ready = tree.ready /\ Adopted.made = tree.made
<1>1. CASE pick = None
  BY <1>1 DEF Adopted, TypeOK
<1>2. CASE pick # None
  <2>1. pick \in Dep
    BY <1>2 DEF Mine
  <2> QED BY <1>2, <2>1, PendingType DEF Adopted, TypeOK
<1> QED BY <1>1, <1>2

(* A commit on HEAD, or a pick that is skipped, settles what it picked. *)
LEMMA CommitKeeps ==
  ASSUME TypeOK, HeadSettled, SettledInOrder,
         NEW c \in Change, c \in Dep => Reached(c), Commit(c)
  PROVE  /\ head' \in History /\ settled' \in SUBSET Dep
         /\ pick' = None /\ index' = "clean"
         /\ settled \subseteq settled' /\ (c \in Dep => c \in settled')
         /\ HeadSettled' /\ SettledInOrder'
<1>1. /\ head' = Append(head, c) /\ settled' = settled \cup ({c} \cap Dep)
      /\ pick' = None /\ index' = "clean"
  BY DEF Commit
<1>2. head' \in History /\ settled' \in SUBSET Dep
  BY <1>1 DEF TypeOK, History
<1>3. HeadSettled'
  <2> SUFFICES ASSUME NEW i \in DOMAIN head', head'[i] \in Dep
               PROVE  head'[i] \in settled'
    BY DEF HeadSettled
  <2>1. head'[i] = IF i = Len(head) + 1 THEN c ELSE head[i]
    BY <1>1 DEF TypeOK, History
  <2>2. i # Len(head) + 1 => i \in DOMAIN head
    BY <1>1 DEF TypeOK, History
  <2> QED BY <1>1, <2>1, <2>2 DEF HeadSettled
<1>4. SettledInOrder'
  BY <1>1 DEF SettledInOrder, Reached
<1> QED BY <1>1, <1>2, <1>3, <1>4

LEMMA CompletePickKeeps ==
  ASSUME TypeOK, HeadSettled, SettledInOrder, pick \in Dep, Reached(pick), CompletePick
  PROVE  /\ head' \in History /\ settled' \in SUBSET Dep
         /\ pick' = None /\ index' = "clean"
         /\ settled \subseteq settled' /\ pick \in settled'
         /\ HeadSettled' /\ SettledInOrder'
<1>1. CASE index = "empty"
  <2>1. /\ head' = head /\ settled' = settled \cup {pick}
        /\ pick' = None /\ index' = "clean"
    BY <1>1 DEF CompletePick, Skip
  <2> QED BY <2>1 DEF TypeOK, HeadSettled, SettledInOrder, Reached
<1>2. CASE index # "empty"
  <2>1. Commit(pick) /\ pick \in Change
    BY <1>2 DEF CompletePick, Change
  <2> QED BY <2>1, CommitKeeps
<1> QED BY <1>1, <1>2

(* More is settled, the record names no more than that, and what is published
   is the record or what was published before. *)
LEMMA RecordKeeps ==
  ASSUME IndInv, UNCHANGED place, tree' \in Worktree, Sound(tree'),
         settled \subseteq settled', settled' \in SUBSET Dep,
         place = "made" => /\ tree'.integrated \subseteq settled'
                           /\ tree'.ready => settled' = Dep,
         saved' \in {saved, tree'}
  PROVE  saved' \in Worktree /\ Truthful(tree)' /\ Truthful(saved)' /\ Sound(saved')
<1>1. saved' \in Worktree /\ Sound(saved')
  BY DEF IndInv, TypeOK
<1>2. Truthful(tree)' /\ Truthful(saved)'
  BY DEF IndInv, TypeOK, Truthful
<1> QED BY <1>1, <1>2

------------------------------------------------------------------------------
(* A task without a worktree satisfies the invariant. *)
THEOREM Initial == Init => IndInv
<1> SUFFICES ASSUME Init PROVE IndInv
  OBVIOUS
<1>1. Fresh \in Worktree
  BY DEF Fresh, Worktree, History
<1>2. TypeOK
  <2>1. head \in History
    BY DEF Init, History
  <2>2. attempt \in 0 .. Len(Deps)
    BY DepsFacts DEF Init
  <2>3. settled \in SUBSET Dep /\ index \in IndexState
    BY DEF Init, IndexState
  <2>4. pick \in Dep \cup {Foreign, None} /\ resolving \in BOOLEAN
    BY DEF Init
  <2>5. /\ place \in {"none", "branch", "made"}
        /\ loss \in {"none", "save", "readiness"}
    BY DEF Init
  <2> QED BY <1>1, <2>1, <2>2, <2>3, <2>4, <2>5 DEF Init, TypeOK
<1>3. Truthful(tree) /\ Truthful(saved) /\ Sound(tree) /\ Sound(saved) /\ Blank
  <2>1. Fresh.integrated = {} /\ Fresh.ready = FALSE
    BY DEF Fresh
  <2> QED BY <2>1 DEF Init, Truthful, Sound, Blank
<1>4. HeadSettled
  BY DEF Init, HeadSettled
<1>5. SettledInOrder
  BY DEF Init, SettledInOrder
<1> QED BY <1>2, <1>3, <1>4, <1>5, DepsFacts DEF IndInv, Init, Executing

(* Steps that leave git alone, and the record's claims too. *)
LEMMA QuietStep ==
  ASSUME IndInv, UNCHANGED <<git, place>>, tree' \in Worktree, Sound(tree'),
         place = "made" => /\ tree'.integrated \subseteq settled
                           /\ tree'.ready => settled = Dep,
         saved' \in {saved, tree'}, loss' \in {"none", "save", "readiness"},
         pc' \in {"idle", "setup", "integrate", "pick", "resolve", "work", "returned",
                  "completed"},
         Executing' => place = "made" /\ tree'.made,
         pc' = "setup" => saved' = tree',
         resolving' \in BOOLEAN, attempt' \in 0 .. Len(Deps),
         pc' = "work" => settled = Dep, pc' = "resolve" => attempt' < Len(Deps)
  PROVE  IndInv'
<1>1. /\ head' = head /\ pick' = pick /\ index' = index /\ settled' = settled
      /\ place' = place
  BY DEF git
<1>2. TypeOK
  BY DEF IndInv
<1>3. settled \subseteq settled' /\ settled' \in SUBSET Dep
  BY <1>1, <1>2 DEF TypeOK
<1>4. saved' \in Worktree /\ Truthful(tree)' /\ Truthful(saved)' /\ Sound(saved')
  BY <1>1, <1>3, RecordKeeps
<1>5. TypeOK'
  BY <1>1, <1>2, <1>4 DEF TypeOK
<1>6. HeadSettled' /\ SettledInOrder' /\ (pick' \in Dep => Reached(pick)') /\ Blank'
  BY <1>1 DEF IndInv, HeadSettled, SettledInOrder, Reached, Blank
<1>7. Sound(tree)' /\ Sound(saved)' /\ (Executing => place = "made" /\ tree.made)'
  BY <1>1, <1>4 DEF Sound
<1> QED BY <1>1, <1>4, <1>5, <1>6, <1>7 DEF IndInv

(* Steps of git that settle no less than before. *)
LEMMA GitStep ==
  ASSUME IndInv, UNCHANGED place,
         \/ Executing /\ tree'.made = tree.made
         \/ pc' = "idle" /\ tree' = tree /\ Blank',
         head' \in History, pick' \in Dep \cup {Foreign, None}, index' \in IndexState,
         settled \subseteq settled', settled' \in SUBSET Dep,
         HeadSettled', SettledInOrder', pick' \in Dep => Reached(pick)',
         tree' \in Worktree, place = "made" => tree'.integrated \subseteq settled',
         tree'.ready = tree.ready, saved' \in {saved, tree'}, loss' = loss,
         pc' \in {pc, "integrate", "pick", "returned"},
         resolving' \in BOOLEAN, attempt' \in 0 .. Len(Deps),
         pc' = "resolve" => attempt' < Len(Deps)
  PROVE  IndInv'
<1>1. TypeOK /\ Truthful(tree) /\ Sound(tree) /\ (Executing => place = "made" /\ tree.made)
  BY DEF IndInv
<1>2. place = "made" => (tree'.ready => settled' = Dep)
  BY <1>1 DEF Truthful
<1>3. Sound(tree')
  BY <1>1 DEF Sound
<1>4. saved' \in Worktree /\ Truthful(tree)' /\ Truthful(saved)' /\ Sound(saved')
  BY <1>2, <1>3, RecordKeeps
<1>5. TypeOK'
  BY <1>1, <1>4 DEF TypeOK
<1>6. pc' = "work" => settled' = Dep
  BY DEF IndInv, Executing
<1>7. Blank' /\ pc' # "setup" /\ (Executing => place = "made" /\ tree.made)'
  BY <1>1 DEF Blank, Executing
<1>8. Sound(tree)' /\ Sound(saved)'
  BY <1>3, <1>4 DEF Sound
<1> QED BY <1>4, <1>5, <1>6, <1>7, <1>8 DEF IndInv

------------------------------------------------------------------------------
(* The steps of the task *)

(* What publishing, and returning, may leave in the database. *)
LEMMA PublishedIs ==
  ASSUME Publish
  PROVE  saved' \in {saved, tree'} /\ loss' \in {"none", "save", "readiness"}
BY DEF Publish

LEMMA BeginKeeps ==
  ASSUME IndInv, NEW resolve \in BOOLEAN, Begin(resolve)
  PROVE  IndInv'
<1>1. /\ UNCHANGED <<git, place>> /\ tree' = tree /\ saved' = tree
      /\ resolving' \in BOOLEAN /\ attempt' = 0 /\ pc' = "setup"
      /\ loss' \in {"none", "save", "readiness"}
  BY PublishedIs DEF Begin
<1>2. TypeOK /\ Truthful(tree) /\ Sound(tree)
  BY DEF IndInv
<1> QED BY <1>1, <1>2, QuietStep, DepsFacts DEF TypeOK, Truthful, Executing, Sound

(* A new worktree is one of which nothing was ever saved. *)
LEMMA CreateKeeps ==
  ASSUME IndInv, Create PROVE IndInv'
<1>1. /\ pc = "setup" /\ ~tree.made /\ tree' = [tree EXCEPT !.made = TRUE]
      /\ pc' \in {"setup", "returned"} /\ place' \in {"none", "branch", "made"}
      /\ place' # place => place = "none"
      /\ UNCHANGED <<head, pick, index, settled, saved, loss, resolving, attempt>>
  BY DEF Create, git, database, IndInv, TypeOK
<1>2. tree = Fresh /\ saved = Fresh
  BY <1>1 DEF IndInv, Sound
<1>3. /\ tree' \in Worktree /\ tree'.made /\ tree'.integrated = {} /\ ~tree'.ready
      /\ saved \in Worktree /\ saved.integrated = {} /\ ~saved.ready
  <2>1. Fresh \in Worktree /\ Fresh.integrated = {} /\ ~Fresh.ready
    BY DEF Fresh, Worktree, History
  <2>2. tree \in Worktree /\ tree.integrated = {} /\ ~tree.ready
    BY <1>2, <2>1
  <2>3. tree' \in Worktree /\ tree'.made /\ tree'.integrated = tree.integrated
    BY <1>1, <2>2 DEF Worktree
  <2>4. tree'.ready = tree.ready
    BY <1>1, <2>2 DEF Worktree
  <2> QED BY <1>2, <2>1, <2>2, <2>3, <2>4
<1>4. TypeOK'
  BY <1>1, <1>3 DEF IndInv, TypeOK
<1>5. Truthful(tree)' /\ Truthful(saved)' /\ Sound(tree)' /\ Sound(saved)'
  BY <1>1, <1>2, <1>3 DEF Truthful, Sound
<1>6. HeadSettled' /\ SettledInOrder' /\ (pick' \in Dep => Reached(pick)') /\ Blank'
  BY <1>1 DEF IndInv, HeadSettled, SettledInOrder, Reached, Blank
<1> QED BY <1>1, <1>2, <1>4, <1>5, <1>6 DEF IndInv, Executing

LEMMA SetUpKeeps ==
  ASSUME IndInv, SetUp PROVE IndInv'
<1>1. /\ UNCHANGED <<git, place>> /\ tree' = tree /\ tree.made /\ place = "made"
      /\ resolving' = resolving /\ attempt' = attempt
      /\ pc' = IF tree.ready THEN "work" ELSE "integrate"
      /\ saved' \in {saved, tree'} /\ loss' \in {"none", "save", "readiness"}
  BY PublishedIs DEF SetUp, context
<1>2. TypeOK /\ Truthful(tree)
  BY DEF IndInv
<1>3. pc' \in {"work", "integrate"} /\ (pc' = "work" => settled = Dep)
  <2>1. CASE tree.ready
    BY <1>1, <1>2, <2>1 DEF Truthful
  <2>2. CASE ~tree.ready
    BY <1>1, <2>2
  <2> QED BY <2>1, <2>2
<1> QED BY <1>1, <1>2, <1>3, QuietStep DEF TypeOK, Truthful, Sound

LEMMA ReceiveResultKeeps ==
  ASSUME IndInv, ReceiveResult PROVE IndInv'
<1>1. /\ UNCHANGED <<git, tree, context>>
      /\ pc' \in {"idle", "completed"}
      /\ saved' \in {saved, tree'} /\ loss' \in {"none", "save", "readiness"}
  BY PublishedIs DEF ReceiveResult
<1> QED BY <1>1, QuietStep DEF IndInv, TypeOK, Truthful, context, Executing

LEMMA CancelledKeeps ==
  ASSUME IndInv, Cancelled PROVE IndInv'
<1>1. UNCHANGED <<git, tree, database, context>> /\ pc' = "returned"
  BY DEF Cancelled, Return
<1> QED BY <1>1, QuietStep DEF IndInv, TypeOK, Truthful, context, database, Executing

LEMMA ConflictKeeps ==
  ASSUME IndInv, AskWorker \/ EditsNotAllowed \/ ReportConflict PROVE IndInv'
<1>1. /\ UNCHANGED <<git, context>> /\ tree' = Adopted /\ pc = "integrate"
      /\ pc' \in {"resolve", "returned"}
      /\ pc' = "resolve" => attempt < Len(Deps)
      /\ saved' \in {saved, tree'}
      /\ loss' \in {"none", "save", "readiness"}
  BY PublishedIs DEF AskWorker, EditsNotAllowed, ReportConflict, Conflict, MayResolve,
     Return, database, IndInv, TypeOK
<1>2. TypeOK /\ Truthful(tree) /\ place = "made" /\ tree.made
  BY <1>1 DEF IndInv, Executing
<1>3. /\ tree' \in Worktree /\ tree'.integrated = tree.integrated
      /\ tree'.ready = tree.ready /\ tree'.made
  BY <1>1, <1>2, AdoptedType DEF AskWorker, EditsNotAllowed, ReportConflict, Conflict
<1> QED BY <1>1, <1>2, <1>3, QuietStep DEF TypeOK, Truthful, context, Sound

(* A pick completed outside left its commit on HEAD, so it is settled. *)
LEMMA SettleKeeps ==
  ASSUME IndInv, Settle PROVE IndInv'
<1>1. /\ UNCHANGED <<git, database, context>> /\ tree' = Settled
      /\ pc = "integrate" /\ pc' = "pick"
  BY DEF Settle
<1>2. TypeOK /\ Truthful(tree) /\ HeadSettled /\ place = "made" /\ tree.made
  BY <1>1 DEF IndInv, Executing
<1>3. /\ Settled \in Worktree
      /\ Settled.integrated \subseteq settled
      /\ Settled.ready = tree.ready /\ Settled.made
  <2>1. CASE tree.pending = None
    BY <2>1, <1>2 DEF Settled, TypeOK, Truthful
  <2>2. CASE tree.pending # None /\ ~CompletedOutside
    BY <2>2, <1>2, NotPendingType DEF Settled, TypeOK, Truthful
  <2>3. CASE tree.pending # None /\ CompletedOutside
    <3>1. tree.pending \in Dep
      BY <2>3, <1>2 DEF TypeOK, Worktree
    <3>2. Len(head) \in DOMAIN head /\ head[Len(head)] = tree.pending
      BY <2>3, <1>2 DEF CompletedOutside, Last, TypeOK, History
    <3>3. tree.pending \in settled
      BY <1>2, <3>1, <3>2 DEF HeadSettled
    <3>4. Settled = Rebased(Integrated(tree, tree.pending), head)
      BY <2>3 DEF Settled
    <3>5. /\ tree \in Worktree /\ head \in History \cup {None}
          /\ tree.integrated \subseteq settled
      BY <1>2 DEF TypeOK, Truthful
    <3>6. /\ Integrated(tree, tree.pending) \in Worktree
          /\ Integrated(tree, tree.pending).integrated = tree.integrated \cup {tree.pending}
          /\ Integrated(tree, tree.pending).ready = tree.ready
          /\ Integrated(tree, tree.pending).made = tree.made
      BY <3>1, <3>5, IntegratedType
    <3> QED BY <1>2, <3>3, <3>4, <3>5, <3>6, RebasedType
  <2> QED BY <2>1, <2>2, <2>3
<1> QED BY <1>1, <1>2, <1>3, QuietStep DEF TypeOK, Truthful, context, database, Sound

LEMMA RefuseKeeps ==
  ASSUME IndInv, Refuse PROVE IndInv'
<1>1. /\ UNCHANGED <<git, database, context>> /\ pc = "integrate" /\ pc' = "returned"
      /\ tree' = tree \/ (Mine /\ tree' = Adopted)
  BY DEF Refuse, Return
<1>2. TypeOK /\ Truthful(tree) /\ place = "made" /\ tree.made
  BY <1>1 DEF IndInv, Executing
<1>3. /\ tree' \in Worktree /\ tree'.integrated = tree.integrated
      /\ tree'.ready = tree.ready /\ tree'.made
  BY <1>1, <1>2, AdoptedType DEF TypeOK
<1> QED BY <1>1, <1>2, <1>3, QuietStep DEF TypeOK, Truthful, context, database, Sound

LEMMA ContinueKeeps ==
  ASSUME IndInv, ContinuePick \/ ContinueFails \/ ContinueUnread
  PROVE  IndInv'
<1>1. /\ Mine /\ pick \in Dep /\ UNCHANGED <<database, context>>
      /\ pc = "integrate" /\ pc' \in {"pick", "returned"}
  BY DEF ContinuePick, ContinueFails, ContinueUnread, Continuable, Mine, Return
<1>2. /\ TypeOK /\ Truthful(tree) /\ HeadSettled /\ SettledInOrder /\ Reached(pick)
      /\ Executing /\ place = "made" /\ tree.made
  BY <1>1 DEF IndInv, Executing
<1>3. /\ Adopted \in Worktree /\ Adopted.integrated = tree.integrated
      /\ Adopted.ready = tree.ready /\ Adopted.made = tree.made
  BY <1>1, <1>2, AdoptedType
<1>4. CASE CompletePick
  <2>1. /\ head' \in History /\ settled' \in SUBSET Dep
        /\ pick' = None /\ index' = "clean"
        /\ settled \subseteq settled' /\ pick \in settled'
        /\ HeadSettled' /\ SettledInOrder'
    BY <1>1, <1>2, <1>4, CompletePickKeeps
  <2>2. tree' \in {Adopted, Rebased(Integrated(Adopted, pick), head'),
                   Rebased(Integrated(Adopted, pick), None)}
    BY DEF ContinuePick, ContinueFails, ContinueUnread
  <2>3. /\ tree' \in Worktree /\ tree'.integrated \subseteq settled'
        /\ tree'.ready = tree.ready /\ tree'.made = tree.made
    <3>1. /\ Integrated(Adopted, pick) \in Worktree
          /\ Integrated(Adopted, pick).integrated = tree.integrated \cup {pick}
          /\ Integrated(Adopted, pick).ready = tree.ready
          /\ Integrated(Adopted, pick).made = tree.made
      BY <1>1, <1>3, IntegratedType
    <3>2. head' \in History \cup {None} /\ None \in History \cup {None}
      BY <2>1
    <3>3. tree.integrated \subseteq settled
      BY <1>2 DEF Truthful
    <3>4. CASE tree' = Adopted
      BY <1>3, <2>1, <3>3, <3>4
    <3>5. CASE tree' = Rebased(Integrated(Adopted, pick), head')
      BY <2>1, <3>1, <3>2, <3>3, <3>5, RebasedType
    <3>6. CASE tree' = Rebased(Integrated(Adopted, pick), None)
      BY <2>1, <3>1, <3>2, <3>3, <3>6, RebasedType
    <3> QED BY <2>2, <3>4, <3>5, <3>6
  <2> QED BY <1>1, <1>2, <2>1, <2>3, GitStep, DepsFacts
               DEF TypeOK, IndexState, context, database
<1>5. CASE UNCHANGED git /\ ContinueFails
  BY <1>1, <1>2, <1>3, <1>5, QuietStep
     DEF ContinueFails, Return, TypeOK, Truthful, context, database, Sound, Executing
<1> QED BY <1>4, <1>5 DEF ContinuePick, ContinueFails, ContinueUnread

LEMMA PickKeeps ==
  ASSUME IndInv, NEW c \in Dep,
         PickApplies(c) \/ PickStops(c) \/ PickFails(c)
  PROVE  IndInv'
<1>1. pc = "pick" /\ c \in NextDependency
  BY DEF PickApplies, PickStops, PickFails, Picking
<1>2. /\ TypeOK /\ Truthful(tree) /\ HeadSettled /\ SettledInOrder
      /\ Executing /\ place = "made" /\ tree.made
  BY <1>1 DEF IndInv, Executing
<1>3. Reached(c)
  <2>1. PICK k \in DOMAIN Deps :
          Deps[k] = c /\ \A j \in 1 .. k - 1 : Deps[j] \in tree.integrated
    BY <1>1 DEF NextDependency
  <2> SUFFICES ASSUME NEW i \in DOMAIN Deps, NEW j \in DOMAIN Deps, i < j, Deps[j] = c
               PROVE  Deps[i] \in settled
    BY DEF Reached
  <2>2. j = k
    BY <2>1, DepsFacts
  <2>3. DOMAIN Deps = 1 .. Len(Deps)
    BY DepsAssumption
  <2>4. i \in 1 .. k - 1
    BY <2>2, <2>3, DepsFacts
  <2> QED BY <1>2, <2>1, <2>4 DEF Truthful
<1>4. /\ Picked(c) \in Worktree /\ Picked(c).integrated = tree.integrated
      /\ Picked(c).ready = tree.ready /\ Picked(c).made = tree.made
  BY <1>2, NotPendingType, PendingType DEF Picked, TypeOK
<1>5. /\ Integrated(tree, c) \in Worktree
      /\ Integrated(tree, c).integrated = tree.integrated \cup {c}
      /\ Integrated(tree, c).ready = tree.ready
      /\ Integrated(tree, c).made = tree.made
  BY <1>2, IntegratedType DEF TypeOK
<1>6. CASE PickApplies(c)
  <2>1. Commit(c) /\ c \in Change
    BY <1>6 DEF PickApplies, Change
  <2>2. /\ head' \in History /\ settled' \in SUBSET Dep
        /\ pick' = None /\ index' = "clean"
        /\ settled \subseteq settled' /\ c \in settled'
        /\ HeadSettled' /\ SettledInOrder'
    BY <1>2, <1>3, <2>1, CommitKeeps
  <2>3. /\ tree' \in {Rebased(Integrated(tree, c), head'), Integrated(tree, c), Picked(c)}
        /\ UNCHANGED <<database, context>> /\ pc' \in {pc, "returned"}
    BY <1>6 DEF PickApplies, Return
  <2>4. head' \in History \cup {None}
    BY <2>2
  <2>5. /\ Rebased(Integrated(tree, c), head') \in Worktree
        /\ Rebased(Integrated(tree, c), head').integrated = tree.integrated \cup {c}
        /\ Rebased(Integrated(tree, c), head').ready = tree.ready
        /\ Rebased(Integrated(tree, c), head').made = tree.made
    BY <1>5, <2>4, RebasedType
  <2>6. /\ tree' \in Worktree /\ tree'.integrated \subseteq settled'
        /\ tree'.ready = tree.ready /\ tree'.made = tree.made
    BY <1>2, <1>4, <1>5, <2>2, <2>3, <2>5 DEF Truthful
  <2> QED BY <1>2, <1>1, <2>2, <2>3, <2>6, GitStep, DepsFacts
             DEF TypeOK, IndexState, context, database
<1>7. CASE PickStops(c)
  <2>1. /\ pick' = c /\ index' \in IndexState /\ UNCHANGED <<head, settled, database, context>>
        /\ tree' = Picked(c) /\ pc' \in {"integrate", "returned"}
    BY <1>7 DEF PickStops, StopsWith, Return, IndexState
  <2>2. HeadSettled' /\ SettledInOrder' /\ Reached(pick)'
    BY <1>2, <1>3, <2>1 DEF HeadSettled, SettledInOrder, Reached
  <2> QED BY <1>2, <1>4, <2>1, <2>2, GitStep DEF TypeOK, Truthful, context, database
<1>8. CASE PickFails(c)
  <2>1. /\ UNCHANGED <<head, pick, settled, database, context>> /\ index' \in IndexState
        /\ tree' = Picked(c) /\ pc' = "returned"
    BY <1>2, <1>8 DEF PickFails, Return, IndexState, TypeOK
  <2>2. HeadSettled' /\ SettledInOrder' /\ (pick' \in Dep => Reached(pick)')
    BY <1>2, <2>1 DEF HeadSettled, SettledInOrder, Reached, IndInv
  <2> QED BY <1>2, <1>4, <2>1, <2>2, GitStep DEF TypeOK, Truthful, context, database
<1> QED BY <1>6, <1>7, <1>8

LEMMA WorkerKeeps ==
  ASSUME IndInv,
         Resolve \/ ResolveFails \/ Ready \/ WorkerChanges \/ Complete
  PROVE  IndInv'
<1>1. /\ TypeOK /\ Truthful(tree) /\ HeadSettled /\ SettledInOrder
      /\ pick \in Dep => Reached(pick)
      /\ Executing /\ place = "made" /\ tree.made
  BY DEF IndInv, Executing, Resolve, ResolveFails, Ready, WorkerChanges, Complete
<1>2. CASE Resolve \/ ResolveFails
  <2>1. /\ UNCHANGED <<head, pick, settled, place, tree, saved, loss, resolving>>
        /\ index' \in IndexState /\ pc' \in {"integrate", "returned"}
        /\ attempt' \in 0 .. Len(Deps)
    BY <1>1, <1>2, DepsFacts
       DEF Resolve, ResolveFails, Return, IndexState, context, database, TypeOK, IndInv
  <2>2. HeadSettled' /\ SettledInOrder' /\ (pick' \in Dep => Reached(pick)')
    BY <1>1, <2>1 DEF HeadSettled, SettledInOrder, Reached
  <2> QED BY <1>1, <2>1, <2>2, GitStep DEF TypeOK, Truthful
<1>3. CASE Ready
  <2>1. /\ UNCHANGED <<git, place>> /\ attempt' = attempt /\ resolving' = FALSE
        /\ pc' = "work"
        /\ tree' = [tree EXCEPT !.ready = TRUE] /\ Dep \subseteq tree.integrated
        /\ saved' \in {saved, tree'} /\ loss' \in {"none", "save", "readiness"}
    BY <1>3, PublishedIs DEF Ready
  <2>2. settled = Dep
    BY <1>1, <2>1 DEF Truthful, TypeOK
  <2>3. tree' \in Worktree /\ tree'.integrated = tree.integrated /\ tree'.made
    BY <1>1, <2>1 DEF TypeOK, Worktree
  <2> QED BY <1>1, <2>1, <2>2, <2>3, QuietStep DEF TypeOK, Truthful, Sound
<1>4. CASE WorkerChanges
  <2>1. /\ head' = Append(head, Work)
        /\ UNCHANGED <<pick, index, settled, tree, database, pc, context>>
    BY <1>4 DEF WorkerChanges
  <2>2. head' \in History
    BY <1>1, <2>1 DEF TypeOK, History, Change
  <2>3. HeadSettled'
    <3> SUFFICES ASSUME NEW i \in DOMAIN head', head'[i] \in Dep
                 PROVE  head'[i] \in settled
      BY <2>1 DEF HeadSettled
    <3>1. head'[i] = IF i = Len(head) + 1 THEN Work ELSE head[i]
      BY <1>1, <2>1 DEF TypeOK, History
    <3>2. i # Len(head) + 1 => i \in DOMAIN head
      BY <1>1, <2>1 DEF TypeOK, History
    <3> QED BY <1>1, <3>1, <3>2, DepsFacts DEF HeadSettled
  <2>4. SettledInOrder' /\ (pick' \in Dep => Reached(pick)')
    BY <1>1, <2>1 DEF SettledInOrder, Reached
  <2> QED BY <1>1, <2>1, <2>2, <2>3, <2>4, GitStep DEF TypeOK, Truthful, context, database, IndInv
<1>5. CASE Complete
  <2>1. /\ UNCHANGED <<git, database, context>> /\ pc' = "returned"
        /\ tree.base # None
        /\ tree' = [tree EXCEPT !.result = [base |-> tree.base, content |-> head]]
    BY <1>5 DEF Complete, Return
  <2>2. /\ tree' \in Worktree /\ tree'.integrated = tree.integrated
        /\ tree'.ready = tree.ready /\ tree'.made
    BY <1>1, <2>1 DEF TypeOK, Worktree
  <2> QED BY <1>1, <2>1, <2>2, QuietStep
             DEF TypeOK, Truthful, context, database, Sound, Executing
<1> QED BY <1>2, <1>3, <1>4, <1>5

------------------------------------------------------------------------------
(* The process dies, and the user acts on the worktree *)

LEMMA CrashKeeps ==
  ASSUME IndInv, Crash PROVE IndInv'
<1>1. /\ tree' = saved /\ UNCHANGED <<git, place, saved>>
      /\ pc' \in {"idle", "completed"} /\ resolving' = FALSE /\ attempt' = 0
      /\ loss' \in {"none", "save", "readiness"}
  BY DEF Crash, IndInv, TypeOK
<1>2. /\ tree' \in Worktree /\ Sound(tree')
      /\ place = "made" => /\ tree'.integrated \subseteq settled
                           /\ tree'.ready => settled = Dep
  BY <1>1 DEF IndInv, TypeOK, Truthful
<1>3. attempt' \in 0 .. Len(Deps)
  BY <1>1, DepsFacts
<1> QED BY <1>1, <1>2, <1>3, QuietStep DEF Executing

LEMMA HandKeeps ==
  ASSUME IndInv,
         \/ FinishByHand \/ StageByHand \/ AbortByHand \/ QuitByHand
         \/ ForeignCommit \/ ForeignPick
  PROVE  IndInv'
<1>1. /\ TypeOK /\ Truthful(tree) /\ HeadSettled /\ SettledInOrder
      /\ pick \in Dep => Reached(pick)
      /\ Blank
  BY DEF IndInv
<1>2. pc = "idle" /\ UNCHANGED <<tree, database, pc, context>>
  BY DEF FinishByHand, StageByHand, AbortByHand, QuitByHand, ForeignCommit,
         ForeignPick, idleUnchanged
<1>3. CASE FinishByHand
  <2>1. /\ head' \in History /\ settled' \in SUBSET Dep
        /\ pick' = None /\ index' = "clean" /\ settled \subseteq settled'
        /\ HeadSettled' /\ SettledInOrder'
    BY <1>1, <1>3, CompletePickKeeps DEF FinishByHand
  <2>2. Blank'
    BY <1>1, <1>2, <1>3, DepsFacts DEF Blank, FinishByHand, context
  <2> QED BY <1>1, <1>2, <2>1, <2>2, GitStep, DepsFacts
             DEF TypeOK, Truthful, IndexState, context, database
<1>4. CASE ForeignCommit
  <2>1. Commit(Foreign) /\ Foreign \in Change /\ Foreign \notin Dep
    BY <1>4, DepsFacts DEF ForeignCommit, Change
  <2>2. /\ head' \in History /\ settled' \in SUBSET Dep
        /\ pick' = None /\ index' = "clean" /\ settled \subseteq settled'
        /\ HeadSettled' /\ SettledInOrder'
    BY <1>1, <2>1, CommitKeeps
  <2>3. Blank'
    BY <1>2, <1>4 DEF Blank, ForeignCommit, context
  <2> QED BY <1>1, <1>2, <2>2, <2>3, GitStep, DepsFacts
             DEF TypeOK, Truthful, IndexState, context, database
<1>5. CASE StageByHand \/ AbortByHand \/ QuitByHand \/ ForeignPick
  <2>1. /\ UNCHANGED <<head, settled>> /\ index' \in IndexState
        /\ pick' \in {pick, None, Foreign}
    BY <1>1, <1>5
       DEF StageByHand, AbortByHand, QuitByHand, ForeignPick, IndexState, TypeOK
  <2>2. HeadSettled' /\ SettledInOrder' /\ (pick' \in Dep => Reached(pick)')
    BY <1>1, <2>1, DepsFacts DEF HeadSettled, SettledInOrder, Reached
  <2>3. Blank'
    BY <1>1, <1>2, <1>5, <2>1
       DEF Blank, StageByHand, AbortByHand, QuitByHand, ForeignPick, context
  <2> QED BY <1>1, <1>2, <2>1, <2>2, <2>3, GitStep DEF TypeOK, Truthful, context, database
<1> QED BY <1>3, <1>4, <1>5

(* Of a worktree that is not there the records may say anything. *)
LEMMA StartOverKeeps ==
  ASSUME IndInv, StartOver \/ StartOverFails PROVE IndInv'
<1>1. /\ pc = "idle" /\ UNCHANGED <<pc, resolving, attempt>>
      /\ head' = <<>> /\ pick' = None /\ index' = "clean" /\ settled' = {}
      /\ place' \in {"none", "branch"} /\ tree' \in {tree, Fresh}
      /\ saved' \in {saved, Fresh}
      /\ loss' \in {"none", "save", "readiness"}
  BY DEF StartOver, StartOverFails, Removed, database, IndInv, TypeOK
<1>2. Fresh \in Worktree
  BY DEF Fresh, Worktree, History
<1>3. head' \in History /\ HeadSettled' /\ SettledInOrder'
  BY <1>1 DEF History, HeadSettled, SettledInOrder
<1>4. TypeOK'
  BY <1>1, <1>2, <1>3 DEF TypeOK, IndInv, IndexState
<1>5. Sound(tree)' /\ Sound(saved)' /\ Truthful(tree)' /\ Truthful(saved)' /\ Blank'
  BY <1>1 DEF IndInv, Sound, Truthful, Blank
<1> QED BY <1>1, <1>3, <1>4, <1>5, DepsFacts DEF IndInv, Executing

(* Every step of the task, of the user, and of a dying process keeps the
   invariant, whatever is saved. *)
THEOREM StepKeeps ==
  ASSUME IndInv, [Next]_vars PROVE IndInv'
<1>1. CASE User
  BY <1>1, BeginKeeps, HandKeeps, StartOverKeeps DEF User
<1>2. CASE Task
  BY <1>2, CreateKeeps, SetUpKeeps, ReceiveResultKeeps, CancelledKeeps, ConflictKeeps, SettleKeeps,
     RefuseKeeps, ContinueKeeps, PickKeeps, WorkerKeeps DEF Task
<1>3. CASE Crash
  BY <1>3, CrashKeeps
<1>4. CASE UNCHANGED vars
  <2>1. UNCHANGED <<git, place, tree, saved, loss, pc, resolving, attempt>>
    BY <1>4 DEF vars, context, database
  <2>2. TypeOK /\ Truthful(tree) /\ Truthful(saved) /\ HeadSettled /\ SettledInOrder
    BY DEF IndInv
  <2> QED BY <2>1 DEF IndInv, TypeOK, Truthful, Sound, Executing, Blank, HeadSettled,
             SettledInOrder, Reached, git
<1> QED BY <1>1, <1>2, <1>3, <1>4 DEF Next

(* The invariant holds through every git command, kill, restart, lost save and
   command of the user. *)
THEOREM Invariance == Spec => []IndInv
<1>1. IndInv /\ [Next]_vars => IndInv'
  BY StepKeeps
<1> QED BY <1>1, Initial, PTL DEF Spec

(* The variables of an integration keep their types. *)
THEOREM IntegrationTypeCorrect == Spec => []TypeOK
<1>1. IndInv => TypeOK
  BY DEF IndInv
<1> QED BY <1>1, Invariance, PTL

(* Neither the record in memory nor the one a restart finds claims a
   dependency whose pick was not committed or skipped. *)
THEOREM RecordNeverLies == Spec => []RecordIsTruthful
<1>1. IndInv => RecordIsTruthful
  BY DEF IndInv, Truthful, RecordIsTruthful
<1> QED BY <1>1, Invariance, PTL

(* However often the integration starts again, and whatever the user settles
   by hand, no dependency is settled before an earlier one. *)
THEOREM IntegratesInOrder == Spec => []SettledInOrder
<1>1. IndInv => SettledInOrder
  BY DEF IndInv
<1> QED BY <1>1, Invariance, PTL

(* A worker never begins, nor is one that was interrupted continued, on a
   part of the task's dependencies. *)
THEOREM WorkBeginsOnAll == Spec => []ReadyMeansSettled
<1>1. IndInv => ReadyMeansSettled
  BY DEF IndInv, Truthful, ReadyMeansSettled
<1> QED BY <1>1, Invariance, PTL

------------------------------------------------------------------------------
(* Work in the patch.  A worker's commit is on HEAD only while the record says
   that the dependencies are ready, and so does the saved one unless its save
   failed; and then nothing moves the baseline. *)
NoWork(h) == \A i \in DOMAIN h : h[i] # Work
BaseClean(t) == t.base # None => NoWork(t.base)

Integrating == pc \in {"integrate", "pick", "resolve"}

BasesClean == BaseClean(tree) /\ BaseClean(saved)

WorkInv ==
  /\ Integrating => ~tree.ready
  /\ pc = "work" => tree.ready
  /\ place = "made" =>
       /\ saved.ready => tree.ready
       /\ loss = "none" => saved.ready = tree.ready
       /\ loss # "readiness" => (NoWork(head) \/ tree.ready) /\ BasesClean

LEMMA RecordBase ==
  ASSUME NEW t \in Worktree
  PROVE  /\ \A c : Pending(t, c).base = t.base /\ Integrated(t, c).base = t.base
         /\ NotPending(t).base = t.base
         /\ \A h : Rebased(t, h).base = h
BY DEF Pending, NotPending, Integrated, Rebased, Worktree

LEMMA AppendedWork ==
  ASSUME head \in History, NEW c, head' = Append(head, c), c # Work, NoWork(head)
  PROVE  NoWork(head')
<1> SUFFICES ASSUME NEW i \in DOMAIN head' PROVE head'[i] # Work
  BY DEF NoWork
<1>1. head'[i] = IF i = Len(head) + 1 THEN c ELSE head[i]
  BY DEF History
<1>2. i # Len(head) + 1 => i \in DOMAIN head
  BY DEF History
<1> QED BY <1>1, <1>2 DEF NoWork

(* A step of the integration moves the baseline to HEAD at most. *)
LEMMA IntegratingKeeps ==
  ASSUME IndInv, WorkInv, Integrating, place' = place, tree'.ready = tree.ready,
         tree'.base \in {tree.base, None, head, head'}, NoWork(head) => NoWork(head'),
         pc' \in {"integrate", "pick", "resolve", "returned"}, saved' \in {saved, tree'},
         loss # "readiness" \/ loss' = "readiness"
  PROVE  WorkInv'
<1>1. /\ place = "made" /\ ~tree.ready /\ ~saved.ready
      /\ loss # "readiness" => NoWork(head) /\ NoWork(head') /\ BasesClean
  BY DEF WorkInv, IndInv, Integrating, Executing
<1>2. loss # "readiness" => BaseClean(tree') /\ BaseClean(saved')
  BY <1>1 DEF BaseClean, BasesClean
<1>3. ~saved'.ready /\ ~tree'.ready
  BY <1>1
<1>4. saved'.ready = tree'.ready
  <2>1. saved.ready \in BOOLEAN /\ tree.ready \in BOOLEAN
    BY DEF IndInv, TypeOK, Worktree
  <2> QED BY <1>1, <2>1
<1> QED BY <1>1, <1>2, <1>3, <1>4 DEF WorkInv, Integrating, BasesClean, BaseClean

LEMMA WorkInitially == Init => WorkInv
<1>1. Fresh.ready = FALSE /\ Fresh.base = <<>>
  BY DEF Fresh
<1> QED BY <1>1 DEF Init, WorkInv, NoWork, BaseClean, Integrating

LEMMA ContinuedWork ==
  ASSUME IndInv, WorkInv, ContinuePick \/ ContinueFails \/ ContinueUnread
  PROVE  WorkInv'
<1>1. /\ Mine /\ pick \in Dep /\ pc = "integrate" /\ saved' = saved
      /\ loss' = loss /\ place' = place
      /\ pc' \in {"pick", "returned"} /\ tree \in Worktree /\ head \in History
  BY DEF ContinuePick, ContinueFails, ContinueUnread, Continuable, Mine, Return,
         IndInv, TypeOK, database, context
<1>2. Adopted \in Worktree /\ Adopted.ready = tree.ready
  BY <1>1, AdoptedType DEF IndInv
<1>3. Adopted.base = tree.base
  BY <1>1, RecordBase DEF Adopted
<1>4. /\ Integrated(Adopted, pick) \in Worktree
      /\ Integrated(Adopted, pick).ready = tree.ready
  BY <1>1, <1>2, IntegratedType
<1>5. CASE CompletePick
  <2>1. head' = head \/ head' = Append(head, pick)
    BY <1>5 DEF CompletePick, Skip, Commit
  <2>2. NoWork(head) => NoWork(head')
    BY <1>1, <2>1, AppendedWork, DepsFacts
  <2>3. head' \in History
    BY <1>1, <2>1 DEF History, Change
  <2>4. tree' \in {Adopted, Rebased(Integrated(Adopted, pick), head'),
                   Rebased(Integrated(Adopted, pick), None)}
    BY DEF ContinuePick, ContinueFails, ContinueUnread
  <2>5. tree'.ready = tree.ready /\ tree'.base \in {tree.base, None, head, head'}
    BY <1>2, <1>3, <1>4, <2>3, <2>4, RebasedType, RecordBase
  <2> QED BY <1>1, <2>2, <2>5, IntegratingKeeps DEF Integrating
<1>6. CASE UNCHANGED git /\ ContinueFails
  <2>1. tree' = Adopted /\ head' = head
    BY <1>6 DEF ContinueFails, git
  <2> QED BY <1>1, <1>2, <1>3, <2>1, IntegratingKeeps DEF Integrating
<1> QED BY <1>5, <1>6 DEF ContinuePick, ContinueFails, ContinueUnread

LEMMA PickedWork ==
  ASSUME IndInv, WorkInv, NEW c \in Dep, PickApplies(c) \/ PickStops(c) \/ PickFails(c)
  PROVE  WorkInv'
<1>1. /\ pc = "pick" /\ tree \in Worktree /\ head \in History /\ saved' = saved
      /\ loss' = loss /\ place' = place
      /\ pc' \in {"pick", "integrate", "returned"}
  BY DEF PickApplies, PickStops, PickFails, Picking, IndInv, TypeOK, Return,
         database, context
<1>2. /\ NotPending(tree) \in Worktree /\ NotPending(tree).ready = tree.ready
      /\ Picked(c).ready = tree.ready /\ Picked(c).base = tree.base
  BY <1>1, NotPendingType, PendingType, RecordBase DEF Picked
<1>3. /\ Integrated(tree, c) \in Worktree /\ Integrated(tree, c).ready = tree.ready
      /\ Integrated(tree, c).base = tree.base
  BY <1>1, IntegratedType, RecordBase
<1>4. CASE PickApplies(c)
  <2>1. head' = Append(head, c)
    BY <1>4 DEF PickApplies, Commit
  <2>2. NoWork(head) => NoWork(head')
    BY <1>1, <2>1, AppendedWork, DepsFacts
  <2>3. head' \in History
    BY <1>1, <2>1 DEF History, Change
  <2>4. tree' \in {Rebased(Integrated(tree, c), head'), Integrated(tree, c), Picked(c)}
    BY <1>4 DEF PickApplies
  <2>5. tree'.ready = tree.ready /\ tree'.base \in {tree.base, None, head, head'}
    BY <1>2, <1>3, <2>3, <2>4, RebasedType, RecordBase
  <2> QED BY <1>1, <2>2, <2>5, IntegratingKeeps DEF Integrating
<1>5. CASE PickStops(c) \/ PickFails(c)
  <2>1. tree' = Picked(c) /\ head' = head
    BY <1>5 DEF PickStops, PickFails
  <2> QED BY <1>1, <1>2, <2>1, IntegratingKeeps DEF Integrating
<1> QED BY <1>4, <1>5

LEMMA ConflictWork ==
  ASSUME IndInv, WorkInv,
         \/ AskWorker \/ EditsNotAllowed \/ ReportConflict
         \/ Settle \/ Refuse \/ Resolve \/ ResolveFails
  PROVE  WorkInv'
<1>1. /\ tree \in Worktree /\ head \in History /\ Integrating /\ head' = head
      /\ place' = place
      /\ pc' \in {"integrate", "pick", "resolve", "returned"}
  BY DEF AskWorker, EditsNotAllowed, ReportConflict, Settle, Refuse, Resolve,
         ResolveFails, Conflict, Return, Integrating, git, context, IndInv, TypeOK
<1>2. saved' \in {saved, tree'} /\ (loss # "readiness" \/ loss' = "readiness")
  BY DEF AskWorker, EditsNotAllowed, ReportConflict, Settle, Refuse, Resolve,
         ResolveFails, Return, Publish, database
<1>3. CASE tree' = tree
  BY <1>1, <1>2, <1>3, IntegratingKeeps
<1>4. CASE tree' = Adopted /\ (pick = None \/ Mine)
  <2>1. Adopted.ready = tree.ready
    BY <1>4, AdoptedType DEF IndInv
  <2>2. Adopted.base = tree.base
    BY <1>1, RecordBase DEF Adopted
  <2> QED BY <1>1, <1>2, <1>4, <2>1, <2>2, IntegratingKeeps
<1>5. CASE tree' = Settled
  <2>1. CASE tree.pending # None /\ CompletedOutside
    <3>1. tree.pending \in Dep
      BY <1>1, <2>1 DEF Worktree
    <3>2. /\ Integrated(tree, tree.pending) \in Worktree
          /\ Integrated(tree, tree.pending).ready = tree.ready
      BY <1>1, <3>1, IntegratedType
    <3>3. Settled = Rebased(Integrated(tree, tree.pending), head)
      BY <2>1 DEF Settled
    <3>4. head \in History \cup {None}
      BY <1>1
    <3>5. Settled.ready = tree.ready /\ Settled.base = head
      BY <3>2, <3>3, <3>4, RebasedType, RecordBase
    <3> QED BY <1>1, <1>2, <1>5, <3>5, IntegratingKeeps
  <2>2. CASE tree.pending = None \/ ~CompletedOutside
    <3>1. Settled \in {tree, NotPending(tree)}
      BY <2>2 DEF Settled
    <3>2. Settled.ready = tree.ready /\ Settled.base = tree.base
      BY <1>1, <3>1, NotPendingType, RecordBase
    <3> QED BY <1>1, <1>2, <1>5, <3>2, IntegratingKeeps
  <2> QED BY <2>1, <2>2
<1> QED BY <1>3, <1>4, <1>5
     DEF AskWorker, EditsNotAllowed, ReportConflict, Settle, Refuse, Resolve,
         ResolveFails, Conflict

(* A publication is lost, or both records say the same. *)
LEMMA PublishedReady ==
  ASSUME Publish
  PROVE  /\ saved' \in {saved, tree'}
         /\ loss' = "none" => saved' = tree'
         /\ loss' # "readiness" => loss # "readiness"
BY DEF Publish

(* Steps that leave the record's claims alone, outside the integration. *)
LEMMA OutsideWork ==
  ASSUME WorkInv, place' = place, tree'.ready = tree.ready, tree'.base = tree.base,
         \/ saved' = saved /\ loss' = loss
         \/ Publish
         \/ saved' = tree' /\ (loss' # "readiness" => loss # "readiness"),
         NoWork(head) => NoWork(head') \/ tree.ready,
         pc' \in {"work", "idle", "setup", "returned", "completed"} \cup {pc},
         pc' = "work" => tree.ready
  PROVE  WorkInv'
<1>1. /\ saved' \in {saved, tree'}
      /\ loss' = "none" => saved' = tree' \/ (saved' = saved /\ loss = "none")
      /\ loss' # "readiness" => loss # "readiness"
  BY PublishedReady
<1>2. place = "made" /\ loss' # "readiness" =>
        (NoWork(head') \/ tree'.ready) /\ BaseClean(tree') /\ BaseClean(saved')
  BY <1>1 DEF WorkInv, BaseClean, BasesClean
<1>3. place = "made" => (saved'.ready => tree'.ready)
                        /\ (loss' = "none" => saved'.ready = tree'.ready)
  BY <1>1 DEF WorkInv
<1>4. (Integrating' => ~tree'.ready) /\ (pc' = "work" => tree'.ready)
  BY DEF WorkInv, Integrating
<1> QED BY <1>2, <1>3, <1>4 DEF WorkInv, BasesClean, BaseClean

LEMMA HandWork ==
  ASSUME IndInv, WorkInv,
         \/ FinishByHand \/ StageByHand \/ AbortByHand \/ QuitByHand
         \/ ForeignCommit \/ ForeignPick
  PROVE  WorkInv'
<1>1. /\ tree' = tree /\ saved' = saved /\ loss' = loss /\ place' = place
      /\ pc' = "idle" /\ head \in History
  BY DEF FinishByHand, StageByHand, AbortByHand, QuitByHand, ForeignCommit,
         ForeignPick, idleUnchanged, database, context, IndInv, TypeOK
<1>2. head' = head \/ \E c \in Dep \cup {Foreign} : head' = Append(head, c)
  BY DEF FinishByHand, StageByHand, AbortByHand, QuitByHand, ForeignCommit,
         ForeignPick, CompletePick, Skip, Commit
<1>3. NoWork(head) => NoWork(head')
  BY <1>1, <1>2, AppendedWork, DepsFacts, DepsAssumption
<1> QED BY <1>1, <1>3, OutsideWork

LEMMA SetsUpWork ==
  ASSUME IndInv, WorkInv, (\E resolve \in BOOLEAN : Begin(resolve)) \/ Create \/ SetUp
  PROVE  WorkInv'
<1>0. tree \in Worktree
  BY DEF IndInv, TypeOK
<1>1. CASE \E resolve \in BOOLEAN : Begin(resolve)
  <2>1. /\ tree' = tree /\ Publish /\ head' = head /\ place' = place /\ pc' = "setup"
    BY <1>1 DEF Begin, git
  <2> QED BY <2>1, OutsideWork
<1>2. CASE Create
  <2>1. /\ pc = "setup" /\ ~tree.made /\ tree' = [tree EXCEPT !.made = TRUE]
        /\ pc' \in {"setup", "returned"} /\ (place' # place => place = "none")
        /\ head' = head /\ saved' = saved /\ loss' = loss
    BY <1>2 DEF Create, git, database
  <2>2. tree = Fresh /\ saved = Fresh
    BY <2>1 DEF IndInv, Sound
  <2>3. ~Fresh.ready /\ Fresh.base = <<>> /\ Fresh.ready = FALSE
    BY DEF Fresh
  <2>4. tree'.ready = tree.ready /\ tree'.base = tree.base
    BY <1>0, <2>1 DEF Worktree
  <2>5. BaseClean(tree') /\ BaseClean(saved')
    BY <2>1, <2>2, <2>3, <2>4 DEF BaseClean, NoWork
  <2>6. place = "made" /\ loss # "readiness" => NoWork(head)
    BY <2>2, <2>3 DEF WorkInv
  <2>7. place = "none" => NoWork(head)
    BY DEF IndInv, Blank, NoWork
  <2>8. ~Integrating' /\ pc' # "work"
    BY <2>1 DEF Integrating
  <2>9. NoWork(head') \/ place' # "made" \/ loss' = "readiness"
    BY <2>1, <2>6, <2>7 DEF NoWork
  <2>10. tree'.ready = FALSE /\ saved'.ready = FALSE
    BY <2>1, <2>2, <2>3, <2>4
  <2> QED BY <2>5, <2>8, <2>9, <2>10 DEF WorkInv, BasesClean
<1>3. CASE SetUp
  <2>1. /\ tree' = tree /\ head' = head /\ place' = place /\ place = "made"
        /\ pc' = IF tree.ready THEN "work" ELSE "integrate"
    BY <1>3 DEF SetUp, git, context
  <2>2. /\ saved' \in {saved, tree'}
        /\ loss' = "none" => saved' = tree'
        /\ loss' # "readiness" => loss # "readiness"
    BY <1>3, PublishedReady DEF SetUp
  <2>3. pc' \in {"work", "integrate"} /\ (pc' = "work" <=> tree.ready)
    BY <2>1
  <2>4. loss' # "readiness" =>
          (NoWork(head') \/ tree'.ready) /\ BaseClean(tree') /\ BaseClean(saved')
    BY <2>1, <2>2 DEF WorkInv, BasesClean, BaseClean
  <2>5. /\ saved'.ready => tree'.ready
        /\ loss' = "none" => saved'.ready = tree'.ready
    BY <2>1, <2>2 DEF WorkInv
  <2> QED BY <2>1, <2>3, <2>4, <2>5 DEF WorkInv, BasesClean, BaseClean, Integrating
<1> QED BY <1>1, <1>2, <1>3

LEMMA TaskEndsWork ==
  ASSUME IndInv, WorkInv,
         \/ ReceiveResult \/ Cancelled \/ Ready \/ WorkerChanges \/ Complete
         \/ Crash \/ StartOver \/ StartOverFails \/ UNCHANGED vars
  PROVE  WorkInv'
<1>0. tree \in Worktree /\ saved \in Worktree /\ loss \in {"none", "save", "readiness"}
  BY DEF IndInv, TypeOK
<1>1. CASE ReceiveResult
  BY <1>1, OutsideWork DEF ReceiveResult, git, context
<1>2. CASE Cancelled
  BY <1>2, OutsideWork DEF Cancelled, Return, git, database, context
<1>3. CASE Ready
  <2>1. /\ tree' = [tree EXCEPT !.ready = TRUE] /\ head' = head /\ pc' = "work"
        /\ place' = place
    BY <1>3 DEF Ready, git
  <2>2. /\ saved' \in {saved, tree'}
        /\ loss' = "none" => saved' = tree'
        /\ loss' # "readiness" => loss # "readiness"
    BY <1>3, PublishedReady DEF Ready
  <2>3. tree'.ready /\ tree'.base = tree.base
    BY <1>0, <2>1 DEF Worktree
  <2>4. place = "made" /\ loss' # "readiness" => BaseClean(tree') /\ BaseClean(saved')
    BY <2>2, <2>3 DEF WorkInv, BaseClean, BasesClean
  <2>5. loss' = "none" => saved'.ready = tree'.ready
    BY <2>2
  <2> QED BY <2>1, <2>3, <2>4, <2>5 DEF WorkInv, BasesClean, BaseClean, Integrating
<1>4. CASE WorkerChanges
  BY <1>4, OutsideWork DEF WorkerChanges, WorkInv, database, context
<1>5. CASE Complete
  <2>1. /\ tree' = [tree EXCEPT !.result = [base |-> tree.base, content |-> head]]
        /\ head' = head /\ pc' = "returned" /\ saved' = saved /\ loss' = loss
        /\ place' = place
    BY <1>5 DEF Complete, Return, git, database, context
  <2>2. tree'.ready = tree.ready /\ tree'.base = tree.base
    BY <1>0, <2>1 DEF Worktree
  <2> QED BY <2>1, <2>2, OutsideWork
<1>6. CASE Crash
  <2>1. /\ tree' = saved /\ saved' = saved /\ head' = head /\ place' = place
        /\ pc' \in {"idle", "completed"}
        /\ loss' # "readiness" => loss' = loss /\ ~(loss = "save" /\ tree.ready /\ ~saved.ready)
    BY <1>6 DEF Crash, git
  <2>2. place = "made" /\ loss' # "readiness" =>
          (NoWork(head) \/ saved.ready) /\ BaseClean(saved)
    BY <1>0, <2>1 DEF WorkInv, BasesClean
  <2> QED BY <2>1, <2>2 DEF WorkInv, BasesClean, BaseClean, Integrating
<1>7. CASE StartOver \/ StartOverFails
  <2>1. place' \in {"none", "branch"} /\ pc' = "idle"
    BY <1>7 DEF StartOver, StartOverFails, Removed
  <2> QED BY <2>1 DEF WorkInv, Integrating
<1>8. CASE UNCHANGED vars
  BY <1>8, OutsideWork DEF vars, git, database, context, WorkInv
<1> QED BY <1>1, <1>2, <1>3, <1>4, <1>5, <1>6, <1>7, <1>8

(* A retry, a restart or the user's commands never move the baseline over a
   worker's commits, unless it was never saved that the dependencies are ready. *)
THEOREM WorkStaysInPatch == Spec => []WorkAboveBase
<1>1. IndInv /\ WorkInv /\ [Next]_vars => IndInv' /\ WorkInv'
  <2> SUFFICES ASSUME IndInv, WorkInv, [Next]_vars PROVE WorkInv'
    BY StepKeeps
  <2>1. CASE User
    BY <2>1, HandWork, SetsUpWork, TaskEndsWork DEF User
  <2>2. CASE Task
    BY <2>2, SetsUpWork, ConflictWork, ContinuedWork, PickedWork, TaskEndsWork DEF Task
  <2>3. CASE Crash \/ UNCHANGED vars
    BY <2>3, TaskEndsWork
  <2> QED BY <2>1, <2>2, <2>3 DEF Next
<1>2. WorkInv => WorkAboveBase
  BY DEF WorkInv, BasesClean, BaseClean, NoWork, WorkAboveBase
<1> QED BY <1>1, <1>2, Initial, WorkInitially, PTL DEF Spec

------------------------------------------------------------------------------
(* The attempts of the loop.  Each is spent on a pick that is in the record
   before the next one; the pick under way is not in it. *)
Spent == Cardinality(tree.integrated)

PickResolved == pc = "integrate" /\ pick \in Dep /\ index \in {"resolved", "empty"}

AskInv ==
  /\ place = "made" => saved.integrated \subseteq tree.integrated
  /\ pc = "setup" => attempt = 0
  /\ pick \in Dep => pick \notin tree.integrated
  /\ pc = "resolve" => index = "unmerged" /\ pick \in Dep \cup {None}
  /\ pc = "pick" => pick = None
  /\ resolving /\ Integrating =>
       \/ index = "dirty"
       \/ attempt <= Spent
       \/ PickResolved /\ attempt <= Spent + 1
  /\ resolving /\ pc \in {"integrate", "resolve"} /\ pick = None /\ index = "unmerged"
       => attempt = 0

LEMMA DepsAreCounted ==
  /\ IsFiniteSet(Dep) /\ Cardinality(Dep) \in Nat /\ Cardinality(Dep) <= Len(Deps)
<1>1. Deps \in [1 .. Len(Deps) -> Dep] /\ Len(Deps) \in Nat
  BY DepsAssumption
<1>2. \A c \in Dep : \E i \in 1 .. Len(Deps) : Deps[i] = c
  BY <1>1 DEF Dep, Range
<1>3. Deps \in Surjection(1 .. Len(Deps), Dep)
  BY <1>1, <1>2 DEF Surjection
<1>4. IsFiniteSet(1 .. Len(Deps)) /\ Cardinality(1 .. Len(Deps)) = Len(Deps)
  <2>1. 1 \in Int /\ Len(Deps) \in Int /\ Len(Deps) >= 0
    BY <1>1
  <2>2. /\ IsFiniteSet(1 .. Len(Deps))
        /\ Cardinality(1 .. Len(Deps)) = IF 1 > Len(Deps) THEN 0 ELSE Len(Deps) - 1 + 1
    BY <2>1, FS_Interval
  <2> QED BY <1>1, <2>2
<1>5. IsFiniteSet(Dep) /\ Cardinality(Dep) <= Len(Deps)
  BY <1>3, <1>4, FS_Surjection
<1> QED BY <1>5, FS_CardinalityType

LEMMA SpentFacts ==
  ASSUME NEW S \in SUBSET Dep
  PROVE  /\ Cardinality(S) \in Nat
         /\ \A c \in Dep \ S : /\ Cardinality(S \cup {c}) = Cardinality(S) + 1
                               /\ Cardinality(S) < Len(Deps)
<1>1. IsFiniteSet(S) /\ Cardinality(S) \in Nat
  BY DepsAreCounted, FS_Subset, FS_CardinalityType
<1>2. ASSUME NEW c \in Dep \ S
      PROVE  Cardinality(S \cup {c}) = Cardinality(S) + 1 /\ Cardinality(S) < Len(Deps)
  <2>1. Cardinality(S \cup {c}) = Cardinality(S) + 1
    BY <1>1, FS_AddElement
  <2>2. Cardinality(S \cup {c}) <= Cardinality(Dep)
    <3>1. S \cup {c} \in SUBSET Dep
      OBVIOUS
    <3> QED BY <3>1, DepsAreCounted, FS_Subset
  <2>3. Cardinality(Dep) \in Nat /\ Cardinality(Dep) <= Len(Deps) /\ Len(Deps) \in Nat
    BY DepsAreCounted, DepsFacts
  <2> QED BY <1>1, <2>1, <2>2, <2>3
<1> QED BY <1>1, <1>2

LEMMA Counted ==
  ASSUME IndInv
  PROVE  /\ tree \in Worktree /\ tree.integrated \in SUBSET Dep /\ Spent \in Nat
         /\ attempt \in Nat /\ resolving \in BOOLEAN
         /\ pick \in Dep \cup {Foreign, None} /\ None \notin Dep /\ Foreign \notin Dep
<1>1. tree \in Worktree /\ tree.integrated \in SUBSET Dep
  BY DEF IndInv, TypeOK, Worktree
<1> QED BY <1>1, SpentFacts, DepsFacts DEF IndInv, TypeOK, Spent

LEMMA AskedInitially == Init => AskInv
<1>1. Fresh.integrated = {}
  BY DEF Fresh
<1> QED BY <1>1, DepsFacts DEF Init, AskInv, Integrating

(* Steps after which the integration is not under way, or begins. *)
LEMMA RestKeeps ==
  ASSUME IndInv, AskInv, pc' \notin {"integrate", "pick", "resolve"},
         tree'.integrated = tree.integrated, saved' \in {saved, tree'},
         pick' \in {pick, None, Foreign}, place' # "made" \/ place' = place,
         pc' = "setup" => attempt' = 0
  PROVE  AskInv'
BY Counted DEF AskInv, Integrating

LEMMA SetsUpAsks ==
  ASSUME IndInv, AskInv, (\E resolve \in BOOLEAN : Begin(resolve)) \/ Create \/ SetUp
  PROVE  AskInv'
<1>1. CASE \E resolve \in BOOLEAN : Begin(resolve)
  <2>1. /\ pick' = pick /\ tree' = tree /\ saved' = tree /\ attempt' = 0
        /\ place' = place /\ pc' = "setup"
    BY <1>1 DEF Begin, git
  <2> QED BY <2>1, RestKeeps
<1>2. CASE Create
  <2>1. /\ pc = "setup" /\ ~tree.made /\ tree' = [tree EXCEPT !.made = TRUE]
        /\ pc' \in {"setup", "returned"} /\ attempt' = attempt
        /\ pick' = pick /\ saved' = saved
    BY <1>2 DEF Create, git, database
  <2>2. tree = Fresh /\ saved = Fresh /\ Fresh.integrated = {}
    BY <2>1 DEF IndInv, Sound, Fresh
  <2>3. tree'.integrated = {} /\ saved'.integrated = {}
    BY <2>1, <2>2, Counted DEF Worktree
  <2> QED BY <2>1, <2>3 DEF AskInv, Integrating
<1>3. CASE SetUp
  <2>1. /\ pc = "setup" /\ place = "made" /\ place' = place /\ attempt' = attempt
        /\ pick' = pick /\ tree' = tree
        /\ pc' = IF tree.ready THEN "work" ELSE "integrate"
    BY <1>3 DEF SetUp, git, context
  <2>2. saved' \in {saved, tree'}
    BY <1>3, PublishedIs DEF SetUp
  <2>3. attempt = 0
    BY <2>1 DEF AskInv
  <2>4. attempt' <= Spent' /\ pc' \in {"work", "integrate"}
    BY <2>1, <2>3, Counted DEF Spent
  <2> QED BY <2>1, <2>2, <2>3, <2>4 DEF AskInv, Integrating
<1> QED BY <1>1, <1>2, <1>3

LEMMA ConflictAsks ==
  ASSUME IndInv, AskInv,
         AskWorker \/ EditsNotAllowed \/ ReportConflict \/ Settle \/ Refuse
  PROVE  AskInv'
<1>1. /\ UNCHANGED <<git, context>> /\ saved' \in {saved, tree'} /\ pc = "integrate"
      /\ pick' = pick /\ index' = index /\ resolving' = resolving /\ attempt' = attempt
      /\ place' = place
  BY PublishedIs DEF AskWorker, EditsNotAllowed, ReportConflict, Settle, Refuse, Return,
                     Conflict, git, database, context
<1>2. CASE tree' = tree \/ (tree' = Adopted /\ (pick = None \/ Mine))
  <2>1. tree'.integrated = tree.integrated
    BY <1>2, AdoptedType DEF IndInv
  <2>2. CASE AskWorker
    <3>1. pc' = "resolve" /\ index = "unmerged" /\ pick \in Dep \cup {None}
      BY <2>2 DEF AskWorker, Conflict, Mine
    <3>2. ~PickResolved
      BY <3>1 DEF PickResolved
    <3> QED BY <1>1, <2>1, <3>1, <3>2 DEF AskInv, Integrating, Spent
  <2>3. CASE EditsNotAllowed \/ ReportConflict \/ Refuse
    <3>1. pc' = "returned"
      BY <2>3 DEF EditsNotAllowed, ReportConflict, Refuse, Return
    <3> QED BY <1>1, <2>1, <3>1, RestKeeps
  <2>4. CASE Settle
    <3>1. pc' = "pick" /\ pick = None /\ saved' = saved
      BY <2>4 DEF Settle, database
    <3>2. ~PickResolved
      BY <3>1, DepsFacts DEF PickResolved
    <3> QED BY <1>1, <2>1, <3>1, <3>2, DepsFacts DEF AskInv, Integrating, Spent
  <2> QED BY <2>2, <2>3, <2>4
<1>3. CASE Settle /\ tree' = Settled
  <2>1. pc' = "pick" /\ pick = None /\ saved' = saved
    BY <1>3 DEF Settle, database
  <2>2. tree.integrated \subseteq tree'.integrated /\ tree'.integrated \in SUBSET Dep
    <3>1. CASE tree.pending # None /\ CompletedOutside
      <4>1. tree.pending \in Dep /\ tree.integrated \in SUBSET Dep
        BY <3>1, Counted DEF Worktree
      <4>2. /\ Integrated(tree, tree.pending) \in Worktree
            /\ Integrated(tree, tree.pending).integrated
                 = tree.integrated \cup {tree.pending}
        BY <4>1, Counted, IntegratedType
      <4>3. head \in History \cup {None}
        BY DEF IndInv, TypeOK
      <4> QED BY <1>3, <3>1, <4>1, <4>2, <4>3, RebasedType DEF Settled
    <3>2. CASE tree.pending = None \/ ~CompletedOutside
      BY <1>3, <3>2, Counted, NotPendingType DEF Settled
    <3> QED BY <3>1, <3>2
  <2>3. Spent <= Spent' /\ Spent' \in Nat
    <3>1. tree'.integrated \in SUBSET Dep /\ tree.integrated \in SUBSET tree'.integrated
      BY <2>2
    <3>2. IsFiniteSet(tree'.integrated)
      BY <3>1, DepsAreCounted, FS_Subset
    <3> QED BY <3>1, <3>2, FS_Subset, SpentFacts DEF Spent
  <2>4. ~PickResolved
    BY <2>1, DepsFacts DEF PickResolved
  <2> QED BY <1>1, <2>1, <2>2, <2>3, <2>4, Counted DEF AskInv, Integrating
<1> QED BY <1>2, <1>3
        DEF AskWorker, EditsNotAllowed, ReportConflict, Settle, Refuse, Conflict

LEMMA ContinueAsks ==
  ASSUME IndInv, AskInv, ContinuePick \/ ContinueFails \/ ContinueUnread
  PROVE  AskInv'
<1>1. /\ Mine /\ pick \in Dep /\ pick \notin tree.integrated /\ pc = "integrate"
      /\ index \in {"resolved", "empty"} /\ saved' = saved
      /\ resolving' = resolving /\ attempt' = attempt /\ place' = place
  BY DEF ContinuePick, ContinueFails, ContinueUnread, Continuable, Mine, Return,
         database, context, AskInv
<1>2. Adopted \in Worktree /\ Adopted.integrated = tree.integrated
  BY <1>1, AdoptedType DEF IndInv
<1>3. /\ Integrated(Adopted, pick) \in Worktree
      /\ Integrated(Adopted, pick).integrated = tree.integrated \cup {pick}
  BY <1>1, <1>2, IntegratedType
<1>4. CompletePick => pick' = None /\ (head' = head \/ head' = Append(head, pick))
  BY DEF CompletePick, Skip, Commit
<1>5. CompletePick => head' \in History
  BY <1>1, <1>4 DEF IndInv, TypeOK, History, Change
<1>6. Cardinality(tree.integrated \cup {pick}) = Spent + 1
  BY <1>1, Counted, SpentFacts DEF Spent
<1>7. CASE ContinuePick
  <2>1. /\ CompletePick /\ pc' = "pick" /\ index' = "clean"
        /\ tree' = Rebased(Integrated(Adopted, pick), head')
    BY <1>7 DEF ContinuePick, CompletePick, Skip, Commit
  <2>2. tree'.integrated = tree.integrated \cup {pick}
    BY <1>3, <1>5, <2>1, RebasedType
  <2>3. Spent' = Spent + 1
    BY <1>6, <2>2 DEF Spent
  <2>4. resolving => attempt <= Spent + 1
    BY <1>1, Counted DEF AskInv, Integrating
  <2> QED BY <1>1, <1>4, <2>1, <2>2, <2>3, <2>4, DepsFacts DEF AskInv, Integrating
<1>8. CASE ContinueFails
  <2>1. /\ tree' = Adopted /\ pc' = "returned" /\ pick' \in {pick, None}
    BY <1>4, <1>8 DEF ContinueFails, Return, git
  <2> QED BY <1>1, <1>2, <2>1, RestKeeps
<1>9. CASE ContinueUnread
  <2>1. /\ tree' = Rebased(Integrated(Adopted, pick), None) /\ pc' = "returned"
        /\ pick' = None
    BY <1>4, <1>9 DEF ContinueUnread, Return
  <2>2. tree'.integrated = tree.integrated \cup {pick}
    BY <1>3, <2>1, RebasedType
  <2> QED BY <1>1, <2>1, <2>2, DepsFacts DEF AskInv, Integrating
<1> QED BY <1>7, <1>8, <1>9

LEMMA PickAsks ==
  ASSUME IndInv, AskInv, NEW c \in Dep,
         PickApplies(c) \/ PickStops(c) \/ PickFails(c)
  PROVE  AskInv'
<1>1. /\ pc = "pick" /\ pick = None /\ saved' = saved /\ c \notin tree.integrated
      /\ resolving' = resolving /\ attempt' = attempt /\ place' = place
  BY DEF PickApplies, PickStops, PickFails, Picking, NextDependency, Return, database,
         context, AskInv
<1>2. Picked(c).integrated = tree.integrated
  BY Counted, NotPendingType, PendingType DEF Picked, IndInv, TypeOK
<1>3. /\ Integrated(tree, c) \in Worktree
      /\ Integrated(tree, c).integrated = tree.integrated \cup {c}
  BY Counted, IntegratedType
<1>4. ~PickResolved
  BY <1>1 DEF PickResolved
<1>5. CASE PickApplies(c)
  <2>1. head' = Append(head, c) /\ pick' = None /\ index = "clean" /\ index' = "clean"
    BY <1>5 DEF PickApplies, Commit
  <2>2. head' \in History \cup {None}
    BY <2>1 DEF IndInv, TypeOK, History, Change
  <2>3. CASE tree' = Picked(c)
    <3>1. pc' = "returned" \/ tree'.integrated = tree.integrated \cup {c}
      BY <1>3, <1>5, <2>2, RebasedType DEF PickApplies, Return
    <3> QED BY <1>1, <1>2, <2>1, <2>3, <3>1, RestKeeps
  <2>4. CASE tree' # Picked(c)
    <3>1. tree'.integrated = tree.integrated \cup {c} /\ pc' \in {"pick", "returned"}
      BY <1>1, <1>3, <1>5, <2>2, <2>4, RebasedType DEF PickApplies, Return
    <3>2. Spent' = Spent + 1
      BY <1>1, <3>1, Counted, SpentFacts DEF Spent
    <3> QED BY <1>1, <1>4, <2>1, <3>1, <3>2, Counted DEF AskInv, Integrating
  <2> QED BY <2>3, <2>4
<1>6. CASE PickStops(c)
  <2>1. pick' = c /\ index = "clean" /\ tree' = Picked(c) /\ pc' \in {"integrate", "returned"}
    BY <1>6 DEF PickStops, Return
  <2>2. Spent' = Spent /\ tree'.integrated = tree.integrated
    BY <1>2, <2>1 DEF Spent
  <2>3. resolving => attempt <= Spent
    BY <1>1, <1>4, <2>1 DEF AskInv, Integrating
  <2> QED BY <1>1, <2>1, <2>2, <2>3, Counted DEF AskInv, Integrating
<1>7. CASE PickFails(c)
  <2>1. pick' = pick /\ tree' = Picked(c) /\ pc' = "returned"
    BY <1>7 DEF PickFails, Return
  <2> QED BY <1>1, <1>2, <2>1, RestKeeps
<1> QED BY <1>5, <1>6, <1>7

LEMMA ResolveAsks ==
  ASSUME IndInv, AskInv, Resolve \/ ResolveFails
  PROVE  AskInv'
<1>1. /\ pc = "resolve" /\ index = "unmerged" /\ pick \in Dep \cup {None}
      /\ UNCHANGED <<pick, tree, saved, resolving, place>>
  BY DEF Resolve, ResolveFails, AskInv, Return, database, context
<1>2. CASE Resolve
  <2>1. /\ index' \in IF pick = None THEN {"dirty"} ELSE {"resolved", "empty"}
        /\ attempt' = attempt + 1 /\ pc' = "integrate"
    BY <1>2 DEF Resolve
  <2>2. resolving => attempt <= Spent
    BY <1>1 DEF AskInv, Integrating, PickResolved
  <2>3. Spent' = Spent
    BY <1>1 DEF Spent
  <2> QED BY <1>1, <2>1, <2>2, <2>3, Counted DEF AskInv, Integrating, PickResolved
<1>3. CASE ResolveFails
  BY <1>1, <1>3, RestKeeps DEF ResolveFails, Return
<1> QED BY <1>2, <1>3

LEMMA OtherAsks ==
  ASSUME IndInv, AskInv,
         \/ ReceiveResult \/ Cancelled \/ Ready \/ WorkerChanges \/ Complete
         \/ Crash \/ StartOver \/ StartOverFails \/ UNCHANGED vars
         \/ FinishByHand \/ StageByHand \/ AbortByHand \/ QuitByHand
         \/ ForeignCommit \/ ForeignPick
  PROVE  AskInv'
<1>1. CASE ReceiveResult \/ Cancelled \/ Ready \/ WorkerChanges \/ Complete
  <2>1. /\ pick' = pick /\ pc' \in {"idle", "completed", "returned", "work"}
        /\ saved' \in {saved, tree'} /\ place' = place
    BY <1>1, PublishedIs
       DEF ReceiveResult, Cancelled, Ready, WorkerChanges, Complete, Return, git,
           database, context
  <2>2. tree'.integrated = tree.integrated
    <3>1. \/ tree' = tree \/ tree' = [tree EXCEPT !.ready = TRUE]
          \/ tree' = [tree EXCEPT !.result = [base |-> tree.base, content |-> head]]
      BY <1>1 DEF ReceiveResult, Cancelled, Ready, WorkerChanges, Complete
    <3> QED BY <3>1, Counted DEF Worktree
  <2> QED BY <2>1, <2>2, RestKeeps
<1>2. CASE Crash
  <2>1. /\ tree' = saved /\ saved' = saved /\ pick' = pick
        /\ pc' \in {"idle", "completed"} /\ place' = place
    BY <1>2 DEF Crash, git
  <2>2. pick \in Dep => place = "made"
    BY DepsFacts DEF IndInv, Blank
  <2> QED BY <2>1, <2>2 DEF AskInv, Integrating
<1>3. CASE StartOver \/ StartOverFails
  <2>1. pick' = None /\ place' # "made" /\ pc' = "idle"
    BY <1>3 DEF StartOver, StartOverFails, Removed
  <2> QED BY <2>1, DepsFacts DEF AskInv, Integrating
<1>4. CASE UNCHANGED vars
  <2>1. /\ pick' = pick /\ index' = index /\ tree' = tree /\ saved' = saved /\ pc' = pc
        /\ resolving' = resolving /\ attempt' = attempt /\ place' = place
    BY <1>4 DEF vars, git, database, context
  <2>2. Spent' = Spent
    BY <2>1 DEF Spent
  <2> QED BY <2>1, <2>2 DEF AskInv, Integrating, PickResolved
<1>5. CASE \/ FinishByHand \/ StageByHand \/ AbortByHand \/ QuitByHand
           \/ ForeignCommit \/ ForeignPick
  <2>1. pc' = "idle" /\ tree' = tree /\ saved' = saved /\ place' = place
    BY <1>5 DEF FinishByHand, StageByHand, AbortByHand, QuitByHand, ForeignCommit,
                ForeignPick, idleUnchanged, database, context
  <2>2. pick' \in {pick, None, Foreign}
    BY <1>5 DEF FinishByHand, StageByHand, AbortByHand, QuitByHand, ForeignCommit,
                ForeignPick, CompletePick, Skip, Commit
  <2> QED BY <2>1, <2>2, RestKeeps
<1> QED BY <1>1, <1>2, <1>3, <1>4, <1>5

(* A task with dependencies, told to resolve conflicts with its worker, asks
   it about every one: the attempts never run out before the conflicts do. *)
THEOREM ConflictsAreAsked ==
  ASSUME Deps # <<>> PROVE Spec => []EveryConflictAsked
<1>1. IndInv /\ AskInv /\ [Next]_vars => IndInv' /\ AskInv'
  <2> SUFFICES ASSUME IndInv, AskInv, [Next]_vars PROVE AskInv'
    BY StepKeeps
  <2>1. CASE User
    BY <2>1, SetsUpAsks, OtherAsks DEF User
  <2>2. CASE Task
    BY <2>2, SetsUpAsks, ConflictAsks, ContinueAsks, PickAsks, ResolveAsks, OtherAsks DEF Task
  <2>3. CASE Crash \/ UNCHANGED vars
    BY <2>3, OtherAsks
  <2> QED BY <2>1, <2>2, <2>3 DEF Next
<1>2. IndInv /\ AskInv => EveryConflictAsked
  <2> SUFFICES ASSUME IndInv, AskInv, resolving, Conflict PROVE attempt < Len(Deps)
    BY DEF EveryConflictAsked, MayResolve
  <2>1. pc = "integrate" /\ index = "unmerged" /\ (pick = None \/ pick \in Dep)
    BY DEF Conflict, Mine
  <2>2. CASE pick = None
    BY <2>1, <2>2, DepsAssumption DEF AskInv
  <2>3. CASE pick \in Dep
    <3>1. attempt <= Spent /\ pick \in Dep \ tree.integrated
      BY <2>1, <2>3 DEF AskInv, Integrating, PickResolved
    <3>2. tree.integrated \in SUBSET Dep /\ Spent < Len(Deps)
      BY <3>1, Counted, SpentFacts DEF Spent
    <3> QED BY <3>1, <3>2, Counted, DepsFacts
  <2> QED BY <2>1, <2>2, <2>3
<1> QED BY <1>1, <1>2, Initial, AskedInitially, PTL DEF Spec
=============================================================================
