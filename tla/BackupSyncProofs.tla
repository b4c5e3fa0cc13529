---------------------------- MODULE BackupSyncProofs ----------------------------
(***************************************************************************)
(* Proofs about BackupSync, for every number of machines and rows, any     *)
(* passwords, and histories of any length.                                 *)
(*                                                                         *)
(* The branches stay well formed: a commit's ancestors are older commits,  *)
(* so every snapshot a merge or a rebase picks exists, and no row anywhere *)
(* is newer than the clock.  A snapshot that has landed and is not yet     *)
(* imported is so for a reason the machine can see: the operation that     *)
(* landed it is under way, or its restore is pending.                      *)
(*                                                                         *)
(* An import goes row by row: TurnsHeld says that what it has passed is in *)
(* the database, also when the user has written in between.                *)
(*                                                                         *)
(* Then what a push does to the rows of the remote, twice.  Between two    *)
(* machines, with forced pushes: TipInv says what each may not have seen   *)
(* of the other, and that a commit keeps the rows of its ancestors but for *)
(* those a merge did not take.  Among any number of machines, without      *)
(* forced pushes: TrailInv says that what a branch has of the remote is    *)
(* the history of one commit, whose rows the branch has kept.              *)
(***************************************************************************)
EXTENDS BackupSync, Integers, WellFoundedInduction, TLAPS

Dated(rows, now) == \A r \in Row : rows[r] <= now

WellFormed == \A c \in 1 .. Len(commits) :
  /\ commits[c].past \subseteq 1 .. c
  /\ commits[c].ours < c
  /\ Dated(commits[c].snap.rows, clock)

LandedIsSeen == \A m \in Machine :
  landing[m] = "landed" => pending[m] \/ step[m] \in {"pulled", "joined"}

(* A row that has been written, or that the user has made since the probe. *)
Had(m, r) == turn[m][r] = "done" \/ (turn[m][r] = "absent" /\ db[m][r] # 0)

TurnsHeld == \A m \in Machine : \A r \in Row :
  /\ ~Importing(m) => turn[m][r] = "waiting"
  /\ Had(m, r) => CoversRow(db[m], Snap(head[m]).rows, r)

IndInv ==
  /\ TypeOK
  /\ WellFormed
  /\ \A m \in Machine : Dated(db[m], clock)
  /\ LandedIsSeen
  /\ TurnsHeld
  /\ ImportedIsHeld

-----------------------------------------------------------------------------
(* Every set of numbers has a least one, every bounded set a greatest one. *)
LEMMA LeastNumber ==
  ASSUME NEW T, T \subseteq Nat, T # {}
  PROVE  \E x \in T : \A y \in T : x <= y
<1> DEFINE R == OpToRel(<, Nat)
<1>1. IsWellFoundedOn(R, Nat)
  BY NatLessThanWellFounded
<1>2. \A x, y \in Nat : x < y => <<x, y>> \in R
  BY DEF OpToRel
<1> HIDE DEF R
<1>3. PICK x \in T : \A y \in T : ~ (<<y, x>> \in R)
  BY <1>1, WFMin
<1>4. \A y \in T : x \in Nat /\ y \in Nat /\ ~ (y < x)
  BY <1>2, <1>3
<1>5. \A y \in T : x <= y
  BY <1>4
<1> QED
  BY <1>5

LEMMA GreatestNumber ==
  ASSUME NEW n \in Nat, NEW T, T \subseteq 1 .. n, T # {}
  PROVE  \E x \in T : \A y \in T : y <= x
<1> DEFINE D == {i \in Nat : \E x \in T : i = n - x}
<1>1. D \subseteq Nat /\ D # {}
  <2>1. PICK x \in T : TRUE
    OBVIOUS
  <2>2. n - x \in D
    BY <2>1
  <2> QED
    BY <2>2
<1>2. PICK i \in D : \A j \in D : i <= j
  BY <1>1, LeastNumber
<1>3. PICK x \in T : i = n - x
  BY <1>2
<1>4. \A y \in T : n - y \in D
  OBVIOUS
<1>5. \A y \in T : y <= x
  BY <1>2, <1>3, <1>4
<1> QED
  BY <1>5

-----------------------------------------------------------------------------
(* What the branches and the snapshots are. *)
Good(s) == s \in Snapshot /\ Dated(s.rows, clock)

LEMMA Numbers ==
  ASSUME IndInv
  PROVE  /\ Len(commits) \in Nat /\ MaxCommits \in Nat /\ Len(commits) <= MaxCommits
         /\ clock \in 0 .. MaxWrites /\ MaxWrites \in Nat /\ faults \in 0 .. MaxFaults
         /\ MaxFaults \in Nat
         /\ commits \in Seq(Commit)
         /\ head \in [Machine -> 0 .. Len(commits)] /\ remote \in 0 .. Len(commits)
         /\ origin \in [Machine -> 0 .. Len(commits)]
BY BackupAssumption DEF IndInv, TypeOK

LEMMA CommitFacts ==
  ASSUME IndInv, NEW c \in 1 .. Len(commits)
  PROVE  /\ commits[c] \in Commit /\ Good(Snap(c))
         /\ Past(c) \subseteq 1 .. Len(commits)
         /\ commits[c].ours \in 0 .. Len(commits)
<1>1. commits[c] \in Commit /\ Len(commits) \in Nat
  BY Numbers
<1>2. commits[c].past \subseteq 1 .. c /\ commits[c].ours < c /\ Dated(Snap(c).rows, clock)
  BY DEF IndInv, WellFormed, Snap
<1>3. commits[c].snap \in Snapshot /\ commits[c].ours \in Branch
  BY <1>1 DEF Commit
<1>4. commits[c].ours \in 0 .. Len(commits)
  BY <1>1, <1>2, <1>3, Numbers DEF Branch
<1>5. Past(c) = commits[c].past
  BY DEF Past, PastOf
<1>6. 1 .. c \subseteq 1 .. Len(commits)
  BY <1>1
<1> QED
  BY <1>1, <1>2, <1>3, <1>4, <1>5, <1>6 DEF Good, Snap

LEMMA PastFacts ==
  ASSUME IndInv, NEW b \in 0 .. Len(commits)
  PROVE  Past(b) \subseteq 1 .. Len(commits)
<1>1. CASE b = 0
  BY <1>1 DEF Past, PastOf
<1>2. CASE b # 0
  <2>1. b \in 1 .. Len(commits)
    BY <1>2, Numbers
  <2> QED
    BY <2>1, CommitFacts
<1> QED
  BY <1>1, <1>2

LEMMA SnapshotParts ==
  /\ \A s \in Snapshot : s.owner \in Machine /\ s.rows \in Rows /\ s.envelope \in Machine
  /\ \A a, e \in Machine : \A rows \in Rows :
       [owner |-> a, rows |-> rows, envelope |-> e] \in Snapshot
BY DEF Snapshot

(* A merge of each file puts together what the three snapshots have. *)
LEMMA MergeSnapGood ==
  ASSUME NEW b, NEW a, NEW t, Good(b), Good(a), Good(t)
  PROVE  Good(MergeSnap(b, a, t))
<1>1. \/ MergeFile(Database(b), Database(a), Database(t)) = Database(a)
      \/ MergeFile(Database(b), Database(a), Database(t)) = Database(t)
  BY DEF MergeFile
<1>2. \/ MergeFile(b.envelope, a.envelope, t.envelope) = a.envelope
      \/ MergeFile(b.envelope, a.envelope, t.envelope) = t.envelope
  BY DEF MergeFile
<1> DEFINE d == MergeFile(Database(b), Database(a), Database(t))
           e == MergeFile(b.envelope, a.envelope, t.envelope)
<1>3. d.owner \in Machine /\ d.rows \in Rows /\ Dated(d.rows, clock)
  BY <1>1, SnapshotParts DEF Good, Database
<1>4. e \in Machine
  BY <1>2, SnapshotParts DEF Good
<1>5. MergeSnap(b, a, t) = [owner |-> d.owner, rows |-> d.rows, envelope |-> e]
  BY DEF MergeSnap
<1> HIDE DEF d, e
<1> QED
  BY <1>3, <1>4, <1>5, SnapshotParts DEF Good

LEMMA MergedGood ==
  ASSUME IndInv, NEW h \in 1 .. Len(commits), NEW o \in 1 .. Len(commits)
  PROVE  Good(Merged(h, o))
<1>1. CASE MergeBases(h, o) = {}
  BY <1>1, CommitFacts DEF Merged
<1>2. CASE MergeBases(h, o) # {}
  <2> DEFINE b == CHOOSE c \in MergeBases(h, o) : TRUE
  <2>1. b \in MergeBases(h, o)
    BY <1>2
  <2>2. MergeBases(h, o) \subseteq Past(h)
    BY DEF MergeBases
  <2>3. b \in 1 .. Len(commits)
    BY <2>1, <2>2, CommitFacts
  <2>4. Merged(h, o) = MergeSnap(Snap(b), Snap(h), Snap(o))
    BY <1>2 DEF Merged
  <2> HIDE DEF b
  <2> QED
    BY <2>3, <2>4, CommitFacts, MergeSnapGood
<1> QED
  BY <1>1, <1>2

(* A rebase takes each file from a commit that is there. *)
LEMMA GreatestCommit ==
  ASSUME IndInv, NEW h \in 1 .. Len(commits), NEW o \in 1 .. Len(commits),
         NEW changing, changing \subseteq Replayed(h, o), changing # {}
  PROVE  (CHOOSE c \in changing : \A d \in changing : d <= c) \in 1 .. Len(commits)
<1>1. changing \subseteq 1 .. Len(commits)
  BY CommitFacts DEF Replayed
<1>2. \E c \in changing : \A d \in changing : d <= c
  BY <1>1, GreatestNumber, Numbers
<1>3. (CHOOSE c \in changing : \A d \in changing : d <= c) \in changing
  BY <1>2
<1> QED
  BY <1>1, <1>3

LEMMA LastChangeIsThere ==
  ASSUME IndInv, NEW h \in 1 .. Len(commits), NEW o \in 1 .. Len(commits), NEW file
  PROVE  \E b \in 1 .. Len(commits) : LastChange(h, o, file) = file[b]
<1> DEFINE changing == {c \in Replayed(h, o) :
                          LET p == commits[c].ours IN p # 0 => file[p] # file[c]}
           last == CHOOSE c \in changing : \A d \in changing : d <= c
<1>1. LastChange(h, o, file) = file[IF changing = {} THEN o ELSE last]
  BY DEF LastChange
<1>2. changing \subseteq Replayed(h, o)
  OBVIOUS
<1>3. changing # {} => last \in 1 .. Len(commits)
  BY <1>2, GreatestCommit
<1> QED
  BY <1>1, <1>3

LEMMA RebasedGood ==
  ASSUME IndInv, NEW h \in 1 .. Len(commits), NEW o \in 1 .. Len(commits)
  PROVE  Good(Rebased(h, o))
<1> DEFINE databases == [c \in DOMAIN commits |-> Database(Snap(c))]
           envelopes == [c \in DOMAIN commits |-> Snap(c).envelope]
<1>0. DOMAIN commits = 1 .. Len(commits)
  BY Numbers
<1> HIDE DEF databases, envelopes
<1>1. PICK b \in 1 .. Len(commits) : LastChange(h, o, databases) = databases[b]
  BY LastChangeIsThere
<1>2. PICK e \in 1 .. Len(commits) : LastChange(h, o, envelopes) = envelopes[e]
  BY LastChangeIsThere
<1>3. databases[b].owner = Snap(b).owner /\ databases[b].rows = Snap(b).rows
  BY <1>0 DEF Database, databases
<1>4. envelopes[e] = Snap(e).envelope
  BY <1>0 DEF envelopes
<1>5. Rebased(h, o) = [owner |-> LastChange(h, o, databases).owner,
                       rows |-> LastChange(h, o, databases).rows,
                       envelope |-> LastChange(h, o, envelopes)]
  BY DEF Rebased, databases, envelopes
<1>6. Rebased(h, o) = [owner |-> Snap(b).owner, rows |-> Snap(b).rows,
                       envelope |-> Snap(e).envelope]
  BY <1>1, <1>2, <1>3, <1>4, <1>5
<1>7. Good(Snap(b)) /\ Good(Snap(e))
  BY CommitFacts
<1> QED
  BY <1>6, <1>7, SnapshotParts DEF Good

(* A new commit keeps the branches well formed. *)
LEMMA AppendKeeps ==
  ASSUME IndInv, Len(commits) + faults < MaxCommits, NEW snap, Good(snap),
         NEW ours \in 0 .. Len(commits), NEW theirs \in 0 .. Len(commits),
         NEW kind \in {"export", "lossy", "merge", "rebase"},
         commits' = Append(commits, NewCommit(snap, ours, theirs, kind)),
         UNCHANGED clock
  PROVE  /\ commits' \in Seq(Commit) /\ Len(commits') = Len(commits) + 1
         /\ Len(commits') <= MaxCommits
         /\ \A c \in 1 .. Len(commits) : commits'[c] = commits[c]
         /\ commits'[Len(commits) + 1].snap = snap
         /\ commits'[Len(commits) + 1].kind = kind
         /\ WellFormed'
<1> DEFINE new == NewCommit(snap, ours, theirs, kind)
           n == Len(commits) + 1
<1>0. /\ Len(commits) \in Nat /\ MaxCommits \in Nat /\ n \in 1 .. MaxCommits
      /\ commits \in Seq(Commit)
  BY Numbers
<1>1. Past(ours) \subseteq 1 .. Len(commits) /\ Past(theirs) \subseteq 1 .. Len(commits)
  BY PastFacts
<1>2. /\ new.snap = snap /\ new.ours = ours /\ new.theirs = theirs /\ new.kind = kind
      /\ new.past = Past(ours) \cup Past(theirs) \cup {n}
  BY DEF NewCommit
<1>3. new.past \subseteq 1 .. n /\ new.past \subseteq 1 .. MaxCommits
  BY <1>0, <1>1, <1>2
<1>4. ours \in Branch /\ theirs \in Branch /\ snap \in Snapshot
  BY <1>0 DEF Branch, Good
<1>5. new \in Commit
  <2>1. new = [snap |-> snap, ours |-> ours, theirs |-> theirs, kind |-> kind,
               past |-> Past(ours) \cup Past(theirs) \cup {n}]
    BY DEF NewCommit
  <2>2. Past(ours) \cup Past(theirs) \cup {n} \in SUBSET (1 .. MaxCommits)
    BY <1>2, <1>3
  <2> HIDE DEF new, n
  <2> QED
    BY <1>4, <2>1, <2>2 DEF Commit
<1> HIDE DEF new
<1>6. /\ commits' \in Seq(Commit) /\ Len(commits') = n
      /\ \A c \in 1 .. Len(commits) : commits'[c] = commits[c]
      /\ commits'[n] = new
  BY <1>0, <1>5 DEF new
<1>7. \A c \in 1 .. Len(commits) : /\ commits[c].past \subseteq 1 .. c
                                   /\ commits[c].ours < c
                                   /\ Dated(commits[c].snap.rows, clock)
  BY DEF IndInv, WellFormed
<1>9. ASSUME NEW c \in 1 .. n
      PROVE  /\ commits'[c].past \subseteq 1 .. c
             /\ commits'[c].ours < c
             /\ Dated(commits'[c].snap.rows, clock)
  <2>1. CASE c = n
    BY <1>0, <1>2, <1>3, <1>6, <2>1 DEF Good
  <2>2. CASE c # n
    <3>1. c \in 1 .. Len(commits)
      BY <1>0, <2>2
    <3> QED
      BY <1>6, <1>7, <3>1
  <2> QED
    BY <2>1, <2>2
<1>10. WellFormed'
  BY <1>6, <1>9 DEF WellFormed
<1> QED
  BY <1>0, <1>2, <1>6, <1>10

-----------------------------------------------------------------------------
(* What the parts of the operations keep. *)
Grown ==
  /\ commits' \in Seq(Commit)
  /\ Len(commits) <= Len(commits') /\ Len(commits') <= MaxCommits
  /\ \A c \in 1 .. Len(commits) : commits'[c] = commits[c]
  /\ WellFormed'

LandingType == [Machine -> Landing]
TurnType == [Machine -> [Row -> Turn]]
StepType == [Machine -> {"idle", "pushing", "forcing", "pulling", "pulled", "joined",
                         "restoring"}]

LEMMA SameGrown ==
  ASSUME IndInv, UNCHANGED <<commits, clock>>
  PROVE  Grown
BY Numbers DEF Grown, IndInv, WellFormed

LEMMA BranchGrows ==
  ASSUME IndInv, Grown
  PROVE  /\ Len(commits') \in Nat
         /\ \A b \in 0 .. Len(commits) : b \in 0 .. Len(commits')
         /\ \A f \in [Machine -> 0 .. Len(commits)] : f \in [Machine -> 0 .. Len(commits')]
<1>1. Len(commits') \in Nat /\ Len(commits) \in Nat
  BY Numbers DEF Grown
<1>2. 0 .. Len(commits) \subseteq 0 .. Len(commits')
  BY <1>1 DEF Grown
<1> QED
  BY <1>1, <1>2

(* The type invariant of the next state from its parts. *)
LEMMA TypeParts ==
  ASSUME IndInv, Grown, UNCHANGED clock,
         db' \in [Machine -> Rows], head' \in [Machine -> 0 .. Len(commits')],
         origin' \in [Machine -> 0 .. Len(commits')], remote' \in 0 .. Len(commits'),
         landing' \in LandingType, turn' \in TurnType, pending' \in [Machine -> BOOLEAN],
         unlocked' \in [Machine -> SUBSET Machine], step' \in StepType,
         faults' \in 0 .. MaxFaults,
         \A n \in Machine : head'[n] = 0 =>
           landing'[n] = "imported" /\ ~pending'[n] /\ step'[n] = "idle"
  PROVE  TypeOK'
<1>1. clock' \in 0 .. MaxWrites
  BY Numbers
<1> QED
  BY <1>1 DEF TypeOK, Grown, LandingType, TurnType, StepType

LEMMA FetchTypes ==
  ASSUME IndInv, Grown, NEW m \in Machine, Fetch(m)
  PROVE  origin' \in [Machine -> 0 .. Len(commits')] /\ faults' \in 0 .. MaxFaults
<1>1. CASE origin' = [origin EXCEPT ![m] = remote] /\ UNCHANGED faults
  <2>1. origin' \in [Machine -> 0 .. Len(commits)]
    BY <1>1, Numbers
  <2> QED
    BY <1>1, <2>1, BranchGrows, Numbers
<1>2. CASE UNCHANGED origin /\ Fault
  BY <1>2, BranchGrows, Numbers DEF Fault
<1> QED
  BY <1>1, <1>2 DEF Fetch

LEMMA HeadSnapshot ==
  ASSUME IndInv, NEW m \in Machine, head[m] # 0
  PROVE  /\ head[m] \in 1 .. Len(commits) /\ Good(Snap(head[m]))
         /\ Grown => commits'[head[m]] = commits[head[m]]
<1>1. head[m] \in 1 .. Len(commits)
  BY Numbers
<1> QED
  BY <1>1, CommitFacts DEF Grown

LEMMA ExportedGood ==
  ASSUME IndInv, NEW m \in Machine
  PROVE  Good(Exported(m)) /\ Exported(m).rows = db[m]
<1>1. db[m] \in Rows /\ Dated(db[m], clock)
  BY DEF IndInv, TypeOK
<1> QED
  BY <1>1, SnapshotParts DEF Exported, Good

LEMMA CoversItself == \A rows \in Rows : Covers(rows, rows)
BY BackupAssumption DEF Covers, CoversRow, Rows

(* A step of m that changes no database, and after which no row of m has had
   its turn. *)
LEMMA NoTurns ==
  ASSUME IndInv, Grown, NEW m \in Machine, UNCHANGED db,
         \A r \in Row : turn'[m][r] = "waiting",
         \A n \in Machine \ {m} :
           turn'[n] = turn[n] /\ head'[n] = head[n] /\ step'[n] = step[n]
  PROVE  TurnsHeld'
<1> SUFFICES ASSUME NEW n \in Machine, NEW r \in Row
             PROVE  /\ ~(Importing(n)') => turn'[n][r] = "waiting"
                    /\ Had(n, r)' => CoversRow(db[n], commits'[head'[n]].snap.rows, r)
  BY DEF TurnsHeld, Snap
<1>1. CASE n = m
  BY <1>1 DEF Had
<1>2. CASE n # m
  <2>1. turn'[n] = turn[n] /\ head'[n] = head[n] /\ step'[n] = step[n]
    BY <1>2
  <2>2. /\ ~Importing(n) => turn[n][r] = "waiting"
        /\ Had(n, r) => CoversRow(db[n], commits[head[n]].snap.rows, r)
        /\ Had(n, r)' = Had(n, r)
    BY <2>1 DEF IndInv, TurnsHeld, Snap, Had
  <2>3. CASE Had(n, r)
    <3>1. head[n] # 0
      BY <2>2, <2>3 DEF IndInv, TypeOK, Importing, Had
    <3>2. commits'[head[n]] = commits[head[n]]
      BY <3>1, HeadSnapshot
    <3> QED
      BY <2>1, <2>2, <2>3, <3>2 DEF Importing
  <2> QED
    BY <2>1, <2>2, <2>3 DEF Importing
<1> QED
  BY <1>1, <1>2

(* Export and commit: the snapshot is what the database holds. *)
LEMMA StageFacts ==
  ASSUME IndInv, NEW m \in Machine, StageAndCommit(m), UNCHANGED <<db, clock>>
  PROVE  /\ Grown
         /\ head' \in [Machine -> 0 .. Len(commits')] /\ landing' \in LandingType
         /\ head'[m] # 0
         /\ \A n \in Machine \ {m} : head'[n] = head[n] /\ landing'[n] = landing[n]
         /\ head'[m] # head[m] => /\ landing'[m] = "imported"
                                  /\ commits'[head'[m]].snap.rows = db[m]
         /\ head'[m] = head[m] => landing'[m] = landing[m]
         /\ ImportedIsHeld'
<1>0. /\ head \in [Machine -> 0 .. Len(commits)] /\ landing \in LandingType
      /\ Len(commits) \in Nat
  BY Numbers DEF IndInv, TypeOK, LandingType, Landing
<1>1. CASE head[m] # 0 /\ UNCHANGED <<commits, head, landing>>
  <2>1. Grown
    BY <1>1, SameGrown
  <2>2. ImportedIsHeld'
    BY <1>1 DEF IndInv, ImportedIsHeld, Snap
  <2> QED
    BY <1>0, <1>1, <2>1, <2>2
<1>2. CASE /\ Len(commits) + faults < MaxCommits
           /\ commits' = Append(commits,
                NewCommit(Exported(m), head[m], 0,
                          IF landing[m] = "missing" THEN "lossy" ELSE "export"))
           /\ head' = [head EXCEPT ![m] = Len(commits) + 1]
           /\ landing' = [landing EXCEPT ![m] = "imported"]
  <2> DEFINE kind == IF landing[m] = "missing" THEN "lossy" ELSE "export"
  <2>1. kind \in {"export", "lossy", "merge", "rebase"} /\ 0 \in 0 .. Len(commits)
        /\ head[m] \in 0 .. Len(commits)
    BY <1>0
  <2>2. commits' = Append(commits, NewCommit(Exported(m), head[m], 0, kind))
    BY <1>2
  <2> HIDE DEF kind
  <2>3. /\ commits' \in Seq(Commit) /\ Len(commits') = Len(commits) + 1
        /\ Len(commits') <= MaxCommits
        /\ \A c \in 1 .. Len(commits) : commits'[c] = commits[c]
        /\ commits'[Len(commits) + 1].snap = Exported(m)
        /\ WellFormed'
    BY <1>2, <2>1, <2>2, ExportedGood, AppendKeeps
  <2>4. Grown
    BY <1>0, <2>3 DEF Grown
  <2>5. head' \in [Machine -> 0 .. Len(commits')]
    BY <1>0, <1>2, <2>3
  <2>6. /\ head'[m] = Len(commits) + 1 /\ head'[m] # 0 /\ head'[m] # head[m]
        /\ landing' \in LandingType /\ landing'[m] = "imported"
        /\ \A n \in Machine \ {m} : head'[n] = head[n] /\ landing'[n] = landing[n]
    BY <1>0, <1>2 DEF LandingType, Landing
  <2>7. ImportedIsHeld'
    <3> SUFFICES ASSUME NEW n \in Machine, landing'[n] = "imported", head'[n] # 0
                 PROVE  Covers(db[n], commits'[head'[n]].snap.rows)
      BY DEF ImportedIsHeld, Snap
    <3>1. CASE n = m
      BY <2>3, <2>6, <3>1, ExportedGood, CoversItself DEF IndInv, TypeOK
    <3>2. CASE n # m
      BY <2>4, <2>6, <3>2, HeadSnapshot DEF IndInv, ImportedIsHeld, Snap
    <3> QED
      BY <3>1, <3>2
  <2> QED
    BY <2>3, <2>4, <2>5, <2>6, <2>7, ExportedGood
<1> QED
  BY <1>1, <1>2 DEF StageAndCommit

(* The branch and the working tree move to a commit. *)
LEMMA LandKeeps ==
  ASSUME IndInv, Grown, NEW m \in Machine, NEW b \in 1 .. Len(commits'),
         NEW next \in {"pulled", "joined"}, Land(m, b, next), ~Importing(m),
         origin' \in [Machine -> 0 .. Len(commits')], faults' \in 0 .. MaxFaults
  PROVE  IndInv'
<1>0. /\ head \in [Machine -> 0 .. Len(commits)] /\ landing \in LandingType
      /\ step \in StepType /\ Len(commits') \in Nat /\ db \in [Machine -> Rows]
      /\ pending \in [Machine -> BOOLEAN] /\ unlocked \in [Machine -> SUBSET Machine]
      /\ head \in [Machine -> 0 .. Len(commits')] /\ remote \in 0 .. Len(commits')
  BY Numbers, BranchGrows DEF IndInv, TypeOK, LandingType, StepType
<1>1. /\ head' = [head EXCEPT ![m] = b]
      /\ landing' = [landing EXCEPT ![m] = IF b = head[m] THEN landing[m] ELSE "landed"]
      /\ step' = [step EXCEPT ![m] = next]
      /\ UNCHANGED <<db, remote, turn, pending, unlocked, clock>>
  BY DEF Land
<1>2. /\ head' \in [Machine -> 0 .. Len(commits')] /\ landing' \in LandingType
      /\ step' \in StepType
  BY <1>0, <1>1 DEF LandingType, Landing, StepType
<1>3. /\ head'[m] = b /\ b # 0 /\ step'[m] = next
      /\ landing'[m] = "imported" => b = head[m] /\ landing[m] = "imported"
      /\ \A n \in Machine \ {m} :
           head'[n] = head[n] /\ landing'[n] = landing[n] /\ step'[n] = step[n]
  BY <1>0, <1>1 DEF LandingType, Landing, StepType
<1>4. TypeOK'
  <2>1. turn' \in TurnType
    BY <1>1 DEF IndInv, TypeOK, TurnType
  <2> QED
    BY <1>0, <1>1, <1>2, <1>3, <2>1, TypeParts DEF IndInv, TypeOK
<1>5. ImportedIsHeld'
  <2> SUFFICES ASSUME NEW n \in Machine, landing'[n] = "imported", head'[n] # 0
               PROVE  Covers(db[n], commits'[head'[n]].snap.rows)
    BY <1>1 DEF ImportedIsHeld, Snap
  <2>1. head'[n] = head[n] /\ landing[n] = "imported"
    BY <1>3
  <2> QED
    BY <2>1, HeadSnapshot DEF IndInv, ImportedIsHeld, Snap
<1>6. LandedIsSeen'
  BY <1>1, <1>3 DEF IndInv, LandedIsSeen
<1>7. \A r \in Row : turn[m][r] = "waiting"
  BY DEF IndInv, TurnsHeld
<1>8. TurnsHeld'
  BY <1>1, <1>3, <1>7, NoTurns
<1> QED
  BY <1>1, <1>4, <1>5, <1>6, <1>8 DEF IndInv, Grown

(* A step that leaves databases, branches and landings alone. *)
LEMMA QuietKeeps ==
  ASSUME IndInv, UNCHANGED <<db, commits, head, landing, clock>>,
         origin' \in [Machine -> 0 .. Len(commits)], remote' \in 0 .. Len(commits),
         pending' \in [Machine -> BOOLEAN], unlocked' \in [Machine -> SUBSET Machine],
         step' \in StepType, faults' \in 0 .. MaxFaults,
         turn' \in TurnType, TurnsHeld',
         \A n \in Machine : head[n] = 0 => ~pending'[n] /\ step'[n] = "idle",
         \A n \in Machine : landing[n] = "landed" =>
           pending'[n] \/ step'[n] \in {"pulled", "joined"}
  PROVE  IndInv'
<1>1. Grown
  BY SameGrown
<1>2. TypeOK'
  BY <1>1, TypeParts DEF IndInv, TypeOK, LandingType, Landing
<1> QED
  BY <1>2 DEF IndInv, WellFormed, ImportedIsHeld, LandedIsSeen, Snap

-----------------------------------------------------------------------------
(* One lemma per group of operations. *)
LEMMA StateTypes ==
  ASSUME IndInv
  PROVE  /\ db \in [Machine -> Rows] /\ landing \in LandingType /\ step \in StepType
         /\ turn \in TurnType
         /\ \A m \in Machine : ~Importing(m) => \A r \in Row : turn[m][r] = "waiting"
         /\ pending \in [Machine -> BOOLEAN] /\ unlocked \in [Machine -> SUBSET Machine]
         /\ \A m \in Machine : head[m] = 0 =>
              landing[m] = "imported" /\ ~pending[m] /\ step[m] = "idle"
         /\ \A m \in Machine : Ready(m) => landing[m] # "landed"
BY DEF IndInv, TypeOK, LandingType, TurnType, StepType, Ready, LandedIsSeen, TurnsHeld

LEMMA WriteKeeps ==
  ASSUME IndInv, NEW m \in Machine, NEW r \in Row, Write(m, r)
  PROVE  IndInv'
<1>0. /\ clock < MaxWrites /\ clock' = clock + 1 /\ db' = [db EXCEPT ![m][r] = clock + 1]
      /\ UNCHANGED <<commits, head, origin, remote, landing, turn, pending, unlocked, step,
                     faults>>
  BY DEF Write, repository, session
<1>1. clock \in Nat /\ MaxWrites \in Nat /\ clock' \in 0 .. MaxWrites
  BY <1>0, Numbers
<1>2. /\ db \in [Machine -> Rows] /\ \A n \in Machine : db[n] \in [Row -> 0 .. MaxWrites]
  BY StateTypes DEF Rows
<1>3. /\ db' = [db EXCEPT ![m] = [db[m] EXCEPT ![r] = clock + 1]]
      /\ [db[m] EXCEPT ![r] = clock + 1] \in Rows
  BY <1>0, <1>1, <1>2 DEF Rows
<1>4. db' \in [Machine -> Rows]
  BY <1>2, <1>3
<1>5. TypeOK'
  BY <1>0, <1>1, <1>4 DEF IndInv, TypeOK
<1>6. \A n \in Machine : \A x \in Row : db[n][x] \in Nat /\ db[n][x] <= clock
  BY <1>1, <1>2 DEF IndInv, Dated
<1>7. \A n \in Machine : \A x \in Row :
        db'[n][x] \in Nat /\ db'[n][x] <= clock + 1 /\ db'[n][x] >= db[n][x]
  BY <1>1, <1>2, <1>3, <1>6
<1>12. ASSUME NEW n \in Machine, head[n] # 0, NEW x \in Row,
              CoversRow(db[n], commits[head[n]].snap.rows, x)
       PROVE  CoversRow(db'[n], commits[head[n]].snap.rows, x)
  <2>1. commits[head[n]].snap.rows \in [Row -> 0 .. MaxWrites]
    BY <1>12, HeadSnapshot, SnapshotParts DEF Good, Snap, Rows
  <2> QED
    BY <1>1, <1>6, <1>7, <1>12, <2>1 DEF CoversRow
<1>8. WellFormed'
  <2> SUFFICES ASSUME NEW c \in 1 .. Len(commits)
               PROVE  /\ commits[c].past \subseteq 1 .. c /\ commits[c].ours < c
                      /\ Dated(commits[c].snap.rows, clock')
    BY <1>0 DEF WellFormed
  <2>1. commits[c].snap.rows \in Rows /\ Dated(commits[c].snap.rows, clock)
    BY CommitFacts, SnapshotParts DEF Good, Snap
  <2>2. Dated(commits[c].snap.rows, clock')
    BY <1>0, <1>1, <2>1 DEF Dated, Rows
  <2> QED
    BY <2>2 DEF IndInv, WellFormed
<1>9. ImportedIsHeld'
  <2> SUFFICES ASSUME NEW n \in Machine, landing[n] = "imported", head[n] # 0
               PROVE  Covers(db'[n], commits[head[n]].snap.rows)
    BY <1>0 DEF ImportedIsHeld, Snap
  <2>1. Covers(db[n], commits[head[n]].snap.rows)
    BY DEF IndInv, ImportedIsHeld, Snap
  <2> QED
    BY <1>12, <2>1 DEF Covers
<1>10. \A n \in Machine : Dated(db'[n], clock')
  BY <1>0, <1>7 DEF Dated
<1>11. LandedIsSeen'
  BY <1>0 DEF IndInv, LandedIsSeen
<1>13. TurnsHeld'
  <2> SUFFICES ASSUME NEW n \in Machine, NEW x \in Row, Had(n, x)'
               PROVE  CoversRow(db'[n], commits[head[n]].snap.rows, x)
    BY <1>0 DEF TurnsHeld, Snap, Importing, IndInv
  <2>1. turn[n][x] # "waiting" /\ head[n] # 0
    BY <1>0 DEF IndInv, TypeOK, TurnsHeld, Importing, Had
  <2>2. CASE Had(n, x)
    BY <1>12, <2>1, <2>2 DEF IndInv, TurnsHeld, Snap
  <2>3. CASE ~Had(n, x)
    <3>1. db'[n][x] = clock + 1
      BY <1>0, <1>2, <1>3, <2>3 DEF Had
    <3>2. commits[head[n]].snap.rows \in [Row -> 0 .. MaxWrites]
          /\ Dated(commits[head[n]].snap.rows, clock)
      BY <2>1, HeadSnapshot, SnapshotParts DEF Good, Snap, Rows
    <3> QED
      BY <1>1, <3>1, <3>2 DEF CoversRow, Dated
  <2> QED
    BY <2>2, <2>3
<1> QED
  BY <1>5, <1>8, <1>9, <1>10, <1>11, <1>13 DEF IndInv

(* A sync, or a forced push, has exported and goes on with next. *)
LEMMA StageKeeps ==
  ASSUME IndInv, NEW m \in Machine, StageAndCommit(m), NEW next,
         next \in {"idle", "pushing", "pulling", "forcing"},
         step' = [step EXCEPT ![m] = next],
         UNCHANGED <<db, remote, turn, pending, unlocked, clock>>,
         origin' \in [Machine -> 0 .. Len(commits')], faults' \in 0 .. MaxFaults
  PROVE  IndInv'
<1>0. /\ Ready(m) /\ landing[m] # "landed" /\ ~pending[m] /\ ~Importing(m)
  BY StateTypes DEF StageAndCommit, Ready, Importing
<1>1. /\ Grown
      /\ head' \in [Machine -> 0 .. Len(commits')] /\ landing' \in LandingType
      /\ head'[m] # 0
      /\ \A n \in Machine \ {m} : head'[n] = head[n] /\ landing'[n] = landing[n]
      /\ head'[m] # head[m] => landing'[m] = "imported"
      /\ head'[m] = head[m] => landing'[m] = landing[m]
      /\ ImportedIsHeld'
  BY StageFacts
<1>2. step' \in StepType /\ \A n \in Machine \ {m} : step'[n] = step[n]
  BY StateTypes DEF StepType
<1>3. remote' \in 0 .. Len(commits')
  BY <1>1, BranchGrows, Numbers
<1>4. TypeOK'
  BY <1>1, <1>2, <1>3, StateTypes, TypeParts
<1>5. LandedIsSeen'
  BY <1>0, <1>1, <1>2 DEF IndInv, LandedIsSeen
<1>6. TurnsHeld'
  BY <1>0, <1>1, <1>2, StateTypes, NoTurns
<1> QED
  BY <1>1, <1>4, <1>5, <1>6 DEF IndInv, Grown

LEMMA SyncKeeps ==
  ASSUME IndInv, NEW m \in Machine, Sync(m)
  PROVE  IndInv'
<1> DEFINE h == head'[m]
           o == origin'[m]
           next == IF o = 0 \/ o \in PastOf(commits', h) \ {h} THEN "pushing"
                   ELSE IF h \in PastOf(commits', o) \ {o} THEN "pulling" ELSE "idle"
<1>1. /\ StageAndCommit(m) /\ Fetch(m) /\ step' = [step EXCEPT ![m] = next]
      /\ UNCHANGED <<db, remote, turn, pending, unlocked, clock>>
  BY DEF Sync
<1>2. Grown
  BY <1>1, StageFacts
<1>3. origin' \in [Machine -> 0 .. Len(commits')] /\ faults' \in 0 .. MaxFaults
  BY <1>1, <1>2, FetchTypes
<1>4. next \in {"idle", "pushing", "pulling", "forcing"}
  OBVIOUS
<1> HIDE DEF next
<1> QED
  BY <1>1, <1>3, <1>4, StageKeeps

LEMMA BackupForcePushKeeps ==
  ASSUME IndInv, NEW m \in Machine, BackupForcePush(m)
  PROVE  IndInv'
<1>1. /\ StageAndCommit(m) /\ step' = [step EXCEPT ![m] = "forcing"]
      /\ UNCHANGED <<db, origin, remote, turn, pending, unlocked, clock, faults>>
  BY DEF BackupForcePush
<1>2. Grown
  BY <1>1, StageFacts
<1>3. origin' \in [Machine -> 0 .. Len(commits')] /\ faults' \in 0 .. MaxFaults
  BY <1>1, <1>2, BranchGrows, Numbers
<1> QED
  BY <1>1, <1>3, StageKeeps

LEMMA ExportRefusedKeeps ==
  ASSUME IndInv, NEW m \in Machine, ExportRefused(m)
  PROVE  IndInv'
<1>0. /\ Exportable(m) = FALSE /\ step[m] = "idle"
      /\ pending' = [pending EXCEPT ![m] = TRUE]
      /\ UNCHANGED <<db, commits, head, origin, remote, landing, turn, unlocked, step,
                     clock, faults>>
  BY DEF ExportRefused, repository, Ready
<1>1. head[m] # 0
  BY <1>0 DEF Exportable
<1>2. pending' \in [Machine -> BOOLEAN] /\ pending'[m]
      /\ \A n \in Machine \ {m} : pending'[n] = pending[n]
  BY <1>0, StateTypes
<1>3. \A n \in Machine : head[n] = 0 => ~pending'[n] /\ step'[n] = "idle"
  BY <1>0, <1>1, <1>2, StateTypes
<1>4. \A n \in Machine : landing[n] = "landed" =>
           pending'[n] \/ step'[n] \in {"pulled", "joined"}
  BY <1>0, <1>2 DEF IndInv, LandedIsSeen
<1>5. TurnsHeld'
  BY <1>0 DEF IndInv, TurnsHeld, Had, Importing, Snap
<1> QED
  BY <1>0, <1>2, <1>3, <1>4, <1>5, StateTypes, Numbers, QuietKeeps

(* A git operation begins or ends that moves no branch of a machine. *)
LEMMA StepKeeps ==
  ASSUME IndInv, NEW m \in Machine, head[m] # 0,
         ~Importing(m),
         NEW next \in {"idle", "forcing", "restoring"}, next = "restoring" => pending[m],
         step' = [step EXCEPT ![m] = next],
         UNCHANGED <<db, commits, head, landing, turn, pending, clock>>,
         unlocked' \in [Machine -> SUBSET Machine],
         origin' \in [Machine -> 0 .. Len(commits)], remote' \in 0 .. Len(commits),
         faults' \in 0 .. MaxFaults
  PROVE  IndInv'
<1>1. step' \in StepType /\ step'[m] = next /\ \A n \in Machine \ {m} : step'[n] = step[n]
  BY StateTypes DEF StepType
<1>2. \A n \in Machine : head[n] = 0 => ~pending'[n] /\ step'[n] = "idle"
  BY <1>1, StateTypes
<1>3. \A n \in Machine : landing[n] = "landed" =>
           pending'[n] \/ step'[n] \in {"pulled", "joined"}
  BY <1>1 DEF IndInv, LandedIsSeen, Importing
<1>4. TurnsHeld'
  BY <1>1, SameGrown, StateTypes, NoTurns
<1> QED
  BY <1>1, <1>2, <1>3, <1>4, StateTypes, QuietKeeps

LEMMA PushedKeeps ==
  ASSUME IndInv, NEW m \in Machine, step[m] \in {"pushing", "forcing"}, Pushed(m)
  PROVE  IndInv'
<1>1. /\ remote' = head[m] /\ origin' = [origin EXCEPT ![m] = head[m]]
      /\ step' = [step EXCEPT ![m] = "idle"]
      /\ UNCHANGED <<db, commits, head, landing, turn, pending, unlocked, clock, faults>>
  BY DEF Pushed
<1>2. head[m] # 0 /\ head[m] \in 0 .. Len(commits) /\ ~Importing(m)
  BY StateTypes, Numbers DEF Importing
<1>3. origin' \in [Machine -> 0 .. Len(commits)] /\ remote' \in 0 .. Len(commits)
      /\ faults' \in 0 .. MaxFaults
  BY <1>1, <1>2, Numbers
<1>4. unlocked' \in [Machine -> SUBSET Machine]
  BY <1>1, StateTypes
<1> QED
  BY <1>1, <1>2, <1>3, <1>4, StepKeeps

(* The failures of a push or a pull. *)
LEMMA FailKeeps ==
  ASSUME IndInv, NEW m \in Machine, PushFails(m) \/ PullFails(m)
  PROVE  IndInv'
<1>1. /\ step[m] \in {"pushing", "forcing", "pulling"}
      /\ Fetch(m) \/ (UNCHANGED origin /\ Fault)
      /\ step' = [step EXCEPT ![m] = "idle"]
      /\ UNCHANGED <<db, commits, head, remote, landing, turn, pending, unlocked, clock>>
  BY DEF PushFails, PullFails
<1>2. head[m] # 0 /\ ~Importing(m)
  BY <1>1, StateTypes DEF Importing
<1>3. Grown
  BY <1>1, SameGrown
<1>4. origin' \in [Machine -> 0 .. Len(commits)] /\ faults' \in 0 .. MaxFaults
  <2>1. CASE Fetch(m)
    BY <1>1, <1>3, <2>1, FetchTypes
  <2>2. CASE UNCHANGED origin /\ Fault
    BY <2>2, Numbers DEF Fault
  <2> QED
    BY <1>1, <2>1, <2>2
<1>5. remote' \in 0 .. Len(commits)
  BY <1>1, Numbers
<1>6. unlocked' \in [Machine -> SUBSET Machine]
  BY <1>1, StateTypes
<1> QED
  BY <1>1, <1>2, <1>4, <1>5, <1>6, StepKeeps

LEMMA ForceHeadKeeps ==
  ASSUME IndInv, NEW m \in Machine, ForceHead(m)
  PROVE  IndInv'
<1>1. /\ ~Importing(m) /\ head[m] # 0 /\ step' = [step EXCEPT ![m] = "forcing"]
      /\ UNCHANGED <<db, commits, head, origin, remote, landing, turn, pending, unlocked,
                     clock, faults>>
  BY DEF ForceHead, Ready, Importing, repository
<1>2. unlocked' \in [Machine -> SUBSET Machine]
  BY <1>1, StateTypes
<1> QED
  BY <1>1, <1>2, Numbers, StepKeeps

LEMMA LandRemote ==
  ASSUME IndInv, NEW m \in Machine, remote # 0,
         origin' = [origin EXCEPT ![m] = remote], Land(m, remote, "pulled"), ~Importing(m),
         UNCHANGED <<commits, faults>>
  PROVE  IndInv'
<1>1. Grown
  BY SameGrown DEF Land
<1>2. origin' \in [Machine -> 0 .. Len(commits')] /\ faults' \in 0 .. MaxFaults
      /\ remote \in 1 .. Len(commits')
  BY Numbers
<1> QED
  BY <1>1, <1>2, LandKeeps

LEMMA PullKeeps ==
  ASSUME IndInv, NEW m \in Machine, Pull(m) \/ ResetHardToRemote(m)
  PROVE  IndInv'
<1>1. remote # 0 /\ ~Importing(m)
  BY DEF Pull, ResetHardToRemote, Resettable, Ready, Importing, Past, PastOf
<1> QED
  BY <1>1, LandRemote DEF Pull, ResetHardToRemote

(* A divergence is resolved: the branch moves to one of the two, or to a new
   commit with a snapshot that is put together from those there are. *)
LEMMA JoinKeeps ==
  ASSUME IndInv, NEW m \in Machine, Fetch(m), ~Importing(m),
         NEW b \in 1 .. Len(commits), Land(m, b, "joined"), UNCHANGED commits
  PROVE  IndInv'
<1>1. Grown
  BY SameGrown DEF Land
<1>2. origin' \in [Machine -> 0 .. Len(commits')] /\ faults' \in 0 .. MaxFaults
  BY <1>1, FetchTypes
<1> QED
  BY <1>1, <1>2, LandKeeps

LEMMA JoinNewKeeps ==
  ASSUME IndInv, NEW m \in Machine, Fetch(m), ~Importing(m), Len(commits) + faults < MaxCommits,
         NEW snap, Good(snap),
         NEW ours \in 0 .. Len(commits), NEW theirs \in 0 .. Len(commits),
         NEW kind \in {"merge", "rebase"},
         commits' = Append(commits, NewCommit(snap, ours, theirs, kind)),
         Land(m, Len(commits) + 1, "joined")
  PROVE  IndInv'
<1>1. UNCHANGED clock
  BY DEF Land
<1>2. /\ commits' \in Seq(Commit) /\ Len(commits') = Len(commits) + 1
      /\ Len(commits') <= MaxCommits
      /\ \A c \in 1 .. Len(commits) : commits'[c] = commits[c]
      /\ WellFormed'
  BY <1>1, AppendKeeps
<1>3. Grown
  BY <1>2, Numbers DEF Grown
<1>4. origin' \in [Machine -> 0 .. Len(commits')] /\ faults' \in 0 .. MaxFaults
  BY <1>3, FetchTypes
<1>5. Len(commits) + 1 \in 1 .. Len(commits')
  BY <1>2, Numbers
<1> QED
  BY <1>3, <1>4, <1>5, LandKeeps

LEMMA FetchedBranch ==
  ASSUME IndInv, NEW m \in Machine, Fetch(m)
  PROVE  origin'[m] \in 0 .. Len(commits)
BY Numbers DEF Fetch

LEMMA MergeKeeps ==
  ASSUME IndInv, NEW m \in Machine, MergeFromRemote(m)
  PROVE  IndInv'
<1> DEFINE h == head[m]
           o == origin'[m]
<1>1. /\ Fetch(m) /\ h # 0 /\ o # 0 /\ ~Importing(m)
      /\ \/ Land(m, h, "joined") /\ UNCHANGED commits
         \/ Land(m, o, "joined") /\ UNCHANGED commits
         \/ /\ Len(commits) + faults < MaxCommits
            /\ commits' = Append(commits, NewCommit(Merged(h, o), h, o, "merge"))
            /\ Land(m, Len(commits) + 1, "joined")
  BY DEF MergeFromRemote, Ready, Importing
<1>2. h \in 1 .. Len(commits) /\ o \in 1 .. Len(commits)
  BY <1>1, FetchedBranch, HeadSnapshot
<1>3. h \in 0 .. Len(commits) /\ o \in 0 .. Len(commits) /\ Good(Merged(h, o))
  BY <1>2, MergedGood, Numbers
<1> HIDE DEF h, o
<1> QED
  BY <1>1, <1>2, <1>3, JoinKeeps, JoinNewKeeps

LEMMA RebaseKeeps ==
  ASSUME IndInv, NEW m \in Machine, RebaseOntoRemote(m)
  PROVE  IndInv'
<1> DEFINE h == head[m]
           o == origin'[m]
<1>1. /\ Fetch(m) /\ h # 0 /\ o # 0 /\ ~Importing(m)
      /\ \/ Land(m, h, "joined") /\ UNCHANGED commits
         \/ Land(m, o, "joined") /\ UNCHANGED commits
         \/ /\ Len(commits) + faults < MaxCommits
            /\ commits' = Append(commits, NewCommit(Rebased(h, o), o, 0, "rebase"))
            /\ Land(m, Len(commits) + 1, "joined")
  BY DEF RebaseOntoRemote, Ready, Importing
<1>2. h \in 1 .. Len(commits) /\ o \in 1 .. Len(commits)
  BY <1>1, FetchedBranch, HeadSnapshot
<1>3. 0 \in 0 .. Len(commits) /\ o \in 0 .. Len(commits) /\ Good(Rebased(h, o))
  BY <1>2, RebasedGood, Numbers
<1> HIDE DEF h, o
<1> QED
  BY <1>1, <1>2, <1>3, JoinKeeps, JoinNewKeeps

(* What is done to one row in its turn. *)
Turned(m, r, t) == turn' = [turn EXCEPT ![m][r] = t]

(* ... leaves the others as they were. *)
LEMMA TurnTypes ==
  ASSUME IndInv, NEW m \in Machine, NEW r \in Row, NEW t \in Turn, Turned(m, r, t)
  PROVE  /\ turn' \in TurnType /\ turn'[m][r] = t
         /\ \A n \in Machine : \A q \in Row :
              n # m \/ q # r => turn'[n][q] = turn[n][q]
<1>1. turn \in [Machine -> [Row -> Turn]]
  BY StateTypes DEF TurnType
<1>2. turn' = [turn EXCEPT ![m] = [turn[m] EXCEPT ![r] = t]]
  BY DEF Turned
<1>3. /\ [turn[m] EXCEPT ![r] = t] \in [Row -> Turn]
      /\ [turn[m] EXCEPT ![r] = t][r] = t
      /\ \A q \in Row : q # r => [turn[m] EXCEPT ![r] = t][q] = turn[m][q]
  BY <1>1
<1>4. turn' \in [Machine -> [Row -> Turn]]
  BY <1>1, <1>2, <1>3
<1>5. /\ turn'[m] = [turn[m] EXCEPT ![r] = t]
      /\ \A n \in Machine : n # m => turn'[n] = turn[n]
  BY <1>1, <1>2
<1> QED
  BY <1>3, <1>4, <1>5 DEF TurnType

(* A row that is not waiting belongs to an import. *)
LEMMA TurnImports ==
  ASSUME IndInv, NEW m \in Machine, NEW r \in Row, turn[m][r] # "waiting"
  PROVE  Importing(m) /\ head[m] # 0
<1>1. Importing(m)
  BY DEF IndInv, TurnsHeld
<1> QED
  BY <1>1 DEF IndInv, TypeOK, Importing

(* A row is read, or its write fails: the database stays. *)
LEMMA ProbeKeeps ==
  ASSUME IndInv, NEW m \in Machine, NEW r \in Row, ProbeRow(m, r) \/ WriteDropped(m, r)
  PROVE  IndInv'
<1>1. /\ Importing(m)
      /\ UNCHANGED <<db, commits, head, origin, remote, landing, pending, unlocked, step,
                     clock>>
      /\ UNCHANGED faults \/ Fault
  BY TurnImports DEF ProbeRow, WriteDropped, repository, session
<1>2. PICK t \in Turn : /\ Turned(m, r, t)
                        /\ t # "done" /\ (t = "absent" => db[m][r] = 0)
  BY DEF ProbeRow, WriteDropped, Turn, Turned
<1>3. /\ turn' \in TurnType /\ turn'[m][r] = t
      /\ \A n \in Machine : \A q \in Row : n # m \/ q # r => turn'[n][q] = turn[n][q]
  BY <1>2, TurnTypes
<1>4. TurnsHeld'
  BY <1>1, <1>2, <1>3 DEF IndInv, TurnsHeld, Had, Importing, Snap
<1>5. faults' \in 0 .. MaxFaults
  BY <1>1, Numbers DEF Fault
<1>6. \A n \in Machine : head[n] = 0 => ~pending'[n] /\ step'[n] = "idle"
  BY <1>1, StateTypes
<1>7. \A n \in Machine : landing[n] = "landed" =>
        pending'[n] \/ step'[n] \in {"pulled", "joined"}
  BY <1>1 DEF IndInv, LandedIsSeen
<1> QED
  BY <1>1, <1>3, <1>4, <1>5, <1>6, <1>7, StateTypes, Numbers, QuietKeeps

(* A row is written: it is the snapshot's, or one the user has made since, and
   covers the snapshot's either way. *)
LEMMA RowFacts ==
  ASSUME IndInv, NEW m \in Machine, NEW r \in Row, WriteRow(m, r)
  PROVE  /\ db' \in [Machine -> Rows] /\ \A n \in Machine : Dated(db'[n], clock)
         /\ \A n \in Machine : \A q \in Row : n # m \/ q # r => db'[n][q] = db[n][q]
         /\ CoversRow(db'[m], Snap(head[m]).rows, r)
<1> DEFINE rows == Snap(head[m]).rows
           v == IF turn[m][r] = "absent" /\ db[m][r] # 0 THEN db[m][r] ELSE rows[r]
<1>1. db \in [Machine -> [Row -> 0 .. MaxWrites]] /\ clock \in Nat /\ MaxWrites \in Nat
  BY StateTypes, Numbers DEF Rows
<1>2. turn[m][r] \in {"absent", "older"} /\ db' = [db EXCEPT ![m] = [db[m] EXCEPT ![r] = v]]
  BY DEF WriteRow
<1>3. head[m] # 0
  BY <1>2, TurnImports
<1>4. rows \in [Row -> 0 .. MaxWrites] /\ Dated(rows, clock)
  BY <1>3, HeadSnapshot, SnapshotParts DEF Good, Rows
<1>5. v \in 0 .. MaxWrites /\ v <= clock
  BY <1>1, <1>4 DEF IndInv, Dated
<1> HIDE DEF v, rows
<1>6. [db[m] EXCEPT ![r] = v] \in [Row -> 0 .. MaxWrites]
  BY <1>1, <1>5
<1>7. /\ db'[m][r] = v
      /\ \A n \in Machine : \A q \in Row : n # m \/ q # r => db'[n][q] = db[n][q]
      /\ db' \in [Machine -> Rows]
  BY <1>1, <1>2, <1>6 DEF Rows
<1>8. \A n \in Machine : Dated(db'[n], clock)
  BY <1>5, <1>7 DEF IndInv, Dated
<1>9. CoversRow(db'[m], rows, r)
  <2>1. CASE v = rows[r]
    BY <1>4, <1>7, <2>1 DEF CoversRow
  <2>2. CASE v # rows[r]
    <3>1. turn[m][r] = "absent" /\ v = db[m][r] /\ db[m][r] # 0
      BY <2>2 DEF v
    <3>2. CoversRow(db[m], rows, r)
      BY <3>1 DEF IndInv, TurnsHeld, Had, rows
    <3> QED
      BY <1>7, <3>1, <3>2 DEF CoversRow
  <2> QED
    BY <2>1, <2>2
<1> QED
  BY <1>7, <1>8, <1>9 DEF rows

LEMMA WriteRowKeeps ==
  ASSUME IndInv, NEW m \in Machine, NEW r \in Row, WriteRow(m, r)
  PROVE  IndInv'
<1>1. /\ Turned(m, r, "done") /\ turn[m][r] # "waiting"
      /\ UNCHANGED <<commits, head, origin, remote, landing, pending, unlocked, step,
                     clock, faults>>
  BY DEF WriteRow, Turned, repository, session
<1>2. /\ db' \in [Machine -> Rows] /\ \A n \in Machine : Dated(db'[n], clock)
      /\ \A n \in Machine : \A q \in Row : n # m \/ q # r => db'[n][q] = db[n][q]
      /\ CoversRow(db'[m], Snap(head[m]).rows, r)
  BY RowFacts
<1>3. "done" \in Turn
  BY DEF Turn
<1>4. /\ turn' \in TurnType /\ turn'[m][r] = "done"
      /\ \A n \in Machine : \A q \in Row : n # m \/ q # r => turn'[n][q] = turn[n][q]
  BY <1>1, <1>3, TurnTypes
<1>5. Importing(m)
  BY <1>1, TurnImports
<1>6. Grown
  BY <1>1, SameGrown
<1>7. TypeOK'
  BY <1>1, <1>2, <1>4, <1>6, StateTypes, Numbers, TypeParts
<1>8. ASSUME NEW n \in Machine, NEW q \in Row, CoversRow(db[n], Snap(head[n]).rows, q)
      PROVE  CoversRow(db'[n], Snap(head[n]).rows, q)
  BY <1>2, <1>8 DEF CoversRow
<1>9. TurnsHeld'
  <2> SUFFICES ASSUME NEW n \in Machine, NEW q \in Row
               PROVE  /\ ~Importing(n) => turn'[n][q] = "waiting"
                      /\ Had(n, q)' => CoversRow(db'[n], Snap(head[n]).rows, q)
    BY <1>1 DEF TurnsHeld, Snap, Importing
  <2>1. CASE n = m /\ q = r
    BY <1>2, <1>5, <2>1
  <2>2. CASE n # m \/ q # r
    <3>1. turn'[n][q] = turn[n][q] /\ db'[n][q] = db[n][q]
      BY <1>2, <1>4, <2>2
    <3> QED
      BY <1>8, <3>1 DEF IndInv, TurnsHeld, Had
  <2> QED
    BY <2>1, <2>2
<1>10. ImportedIsHeld'
  BY <1>1, <1>8 DEF IndInv, ImportedIsHeld, Covers, Snap
<1>11. LandedIsSeen'
  BY <1>1 DEF IndInv, LandedIsSeen
<1> QED
  BY <1>1, <1>2, <1>6, <1>7, <1>9, <1>10, <1>11 DEF IndInv, Grown

(* An import ends, one way or another. *)
LEMMA UnturnedTypes ==
  ASSUME IndInv, NEW m \in Machine, Unturned(m)
  PROVE  /\ turn' \in TurnType /\ \A r \in Row : turn'[m][r] = "waiting"
         /\ \A n \in Machine \ {m} : turn'[n] = turn[n]
<1>1. [r \in Row |-> "waiting"] \in [Row -> Turn]
  BY DEF Turn
<1> QED
  BY <1>1, StateTypes DEF Unturned, TurnType

LEMMA ImportStateKeeps ==
  ASSUME IndInv, NEW m \in Machine, ImportState(m)
  PROVE  IndInv'
<1>0. /\ Importing(m)
      /\ \A r \in Row : \/ turn[m][r] \in {"done", "dropped"}
                        \/ turn[m][r] = "waiting" /\ ~Wanted(m, r)
      /\ landing' = [landing EXCEPT ![m] = IF \E r \in Row : turn[m][r] = "dropped"
                                           THEN "missing" ELSE "imported"]
      /\ pending' = [pending EXCEPT ![m] = FALSE]
      /\ step' = [step EXCEPT ![m] = IF step[m] = "joined" THEN "pushing" ELSE "idle"]
      /\ Unturned(m)
      /\ UNCHANGED <<db, commits, head, origin, remote, unlocked, clock, faults>>
  BY DEF ImportState, repository
<1>1. /\ step' \in StepType /\ landing' \in LandingType /\ pending' \in [Machine -> BOOLEAN]
      /\ landing'[m] # "landed" /\ ~pending'[m]
      /\ landing'[m] = "imported" => \A r \in Row : turn[m][r] # "dropped"
      /\ \A n \in Machine \ {m} : /\ step'[n] = step[n] /\ landing'[n] = landing[n]
                                  /\ pending'[n] = pending[n]
  BY <1>0, StateTypes DEF StepType, LandingType, Landing
<1>2. Grown /\ head[m] # 0
  BY <1>0, SameGrown DEF IndInv, TypeOK, Importing
<1>3. /\ turn' \in TurnType /\ \A r \in Row : turn'[m][r] = "waiting"
      /\ \A n \in Machine \ {m} : turn'[n] = turn[n]
  BY <1>0, UnturnedTypes
<1>4. TypeOK'
  BY <1>0, <1>1, <1>2, <1>3, StateTypes, Numbers, TypeParts
<1>5. TurnsHeld'
  BY <1>0, <1>1, <1>2, <1>3, NoTurns
<1>6. ASSUME landing'[m] = "imported"
      PROVE  Covers(db[m], Snap(head[m]).rows)
  <2> SUFFICES ASSUME NEW r \in Row
               PROVE  CoversRow(db[m], Snap(head[m]).rows, r)
    BY DEF Covers
  <2>1. CASE turn[m][r] = "done"
    BY <2>1 DEF IndInv, TurnsHeld, Had
  <2>2. CASE ~Wanted(m, r)
    <3>1. Snap(head[m]).rows \in [Row -> 0 .. MaxWrites] /\ db[m] \in [Row -> 0 .. MaxWrites]
          /\ MaxWrites \in Nat
      BY <1>2, HeadSnapshot, SnapshotParts, StateTypes, Numbers DEF Good, Rows
    <3> QED
      BY <2>2, <3>1 DEF Wanted, CoversRow
  <2> QED
    BY <1>0, <1>1, <1>6, <2>1, <2>2
<1>7. ImportedIsHeld'
  <2> SUFFICES ASSUME NEW n \in Machine, landing'[n] = "imported", head[n] # 0
               PROVE  Covers(db[n], Snap(head[n]).rows)
    BY <1>0 DEF ImportedIsHeld, Snap
  <2> QED
    BY <1>1, <1>6 DEF IndInv, ImportedIsHeld
<1>8. LandedIsSeen'
  BY <1>1 DEF IndInv, LandedIsSeen
<1> QED
  BY <1>0, <1>2, <1>4, <1>5, <1>7, <1>8 DEF IndInv, Grown

LEMMA RestoreKeeps ==
  ASSUME IndInv, NEW m \in Machine, RestoreBackupState(m)
  PROVE  IndInv'
<1>1. /\ step[m] = "idle" /\ pending[m] /\ step' = [step EXCEPT ![m] = "restoring"]
      /\ \/ UNCHANGED unlocked
         \/ unlocked' = [unlocked EXCEPT ![m] = @ \cup {Snap(head[m]).owner}]
      /\ UNCHANGED <<db, commits, head, origin, remote, landing, turn, pending, clock, faults>>
  BY DEF RestoreBackupState, repository
<1>2. head[m] # 0 /\ ~Importing(m)
  BY <1>1, StateTypes DEF Importing
<1>3. Snap(head[m]).owner \in Machine
  BY <1>2, HeadSnapshot, SnapshotParts DEF Good
<1>4. unlocked' \in [Machine -> SUBSET Machine]
  BY <1>1, <1>3, StateTypes
<1> QED
  BY <1>1, <1>2, <1>4, Numbers, StepKeeps

LEMMA ImportFailsKeeps ==
  ASSUME IndInv, NEW m \in Machine, ImportFails(m)
  PROVE  IndInv'
<1>1. /\ Importing(m) /\ Unturned(m)
      /\ UNCHANGED faults \/ Fault
      /\ pending' = [pending EXCEPT ![m] = TRUE]
      /\ step' = [step EXCEPT ![m] = "idle"]
      /\ UNCHANGED <<db, commits, head, origin, remote, landing, unlocked, clock>>
  BY DEF ImportFails, repository
<1>2. head[m] # 0 /\ faults' \in 0 .. MaxFaults
  BY <1>1, StateTypes, Numbers DEF Fault, Importing
<1>3. /\ step' \in StepType /\ pending' \in [Machine -> BOOLEAN] /\ pending'[m]
      /\ \A n \in Machine \ {m} : step'[n] = step[n] /\ pending'[n] = pending[n]
  BY <1>1, StateTypes DEF StepType
<1>4. \A n \in Machine : head[n] = 0 => ~pending'[n] /\ step'[n] = "idle"
  BY <1>2, <1>3, StateTypes
<1>5. \A n \in Machine : landing[n] = "landed" =>
           pending'[n] \/ step'[n] \in {"pulled", "joined"}
  BY <1>3 DEF IndInv, LandedIsSeen
<1>6. turn' \in TurnType /\ TurnsHeld'
  BY <1>1, <1>3, SameGrown, UnturnedTypes, NoTurns
<1> QED
  BY <1>1, <1>2, <1>3, <1>4, <1>5, <1>6, StateTypes, Numbers, QuietKeeps

LEMMA RestartKeeps ==
  ASSUME IndInv, NEW m \in Machine, Restart(m)
  PROVE  IndInv'
<1>1. /\ Fault
      /\ landing' = [landing EXCEPT ![m] = IF landing[m] = "landed" THEN "missing"
                                           ELSE landing[m]]
      /\ pending' = [pending EXCEPT ![m] = FALSE]
      /\ unlocked' = [unlocked EXCEPT ![m] = {}]
      /\ step' = [step EXCEPT ![m] = "idle"]
      /\ Unturned(m)
      /\ UNCHANGED <<db, commits, head, origin, remote, clock>>
  BY DEF Restart, repository
<1>2. faults' \in 0 .. MaxFaults
  BY <1>1, Numbers DEF Fault
<1>3. /\ landing' \in LandingType /\ step' \in StepType
      /\ pending' \in [Machine -> BOOLEAN] /\ unlocked' \in [Machine -> SUBSET Machine]
      /\ ~pending'[m] /\ step'[m] = "idle" /\ landing'[m] # "landed"
      /\ landing[m] = "imported" <=> landing'[m] = "imported"
      /\ \A n \in Machine \ {m} : /\ step'[n] = step[n] /\ landing'[n] = landing[n]
                                  /\ pending'[n] = pending[n]
  BY <1>1, StateTypes DEF LandingType, Landing, StepType
<1>4. Grown
  BY <1>1, SameGrown
<1>8. turn' \in TurnType /\ TurnsHeld'
  BY <1>1, <1>3, <1>4, UnturnedTypes, NoTurns
<1>5. TypeOK'
  BY <1>1, <1>2, <1>3, <1>4, <1>8, StateTypes, Numbers, TypeParts
<1>6. ImportedIsHeld'
  <2>1. \A n \in Machine : landing'[n] = "imported" => landing[n] = "imported"
    BY <1>3
  <2> QED
    BY <1>1, <2>1 DEF IndInv, ImportedIsHeld, Snap
<1>7. LandedIsSeen'
  BY <1>3 DEF IndInv, LandedIsSeen
<1> QED
  BY <1>1, <1>4, <1>5, <1>6, <1>7, <1>8 DEF IndInv, Grown

-----------------------------------------------------------------------------
LEMMA InitInv == Init => IndInv
<1> SUFFICES ASSUME Init
             PROVE  IndInv
  OBVIOUS
<1>0. /\ db = [m \in Machine |-> [r \in Row |-> 0]] /\ commits = <<>>
      /\ \A m \in Machine : head[m] = 0 /\ landing[m] = "imported"
      /\ MaxWrites \in Nat /\ MaxCommits \in Nat /\ MaxFaults \in Nat
  BY BackupAssumption DEF Init
<1>1. db \in [Machine -> Rows] /\ \A m \in Machine : Dated(db[m], clock)
  BY <1>0 DEF Init, Rows, Dated
<1>2. commits \in Seq(Commit) /\ Len(commits) = 0
  BY <1>0
<1>3. TypeOK
  BY <1>0, <1>1, <1>2 DEF Init, TypeOK, Landing, Turn
<1>5. TurnsHeld
  BY DEF Init, TurnsHeld, Had
<1>4. WellFormed
  BY <1>2 DEF WellFormed
<1> QED
  BY <1>0, <1>1, <1>3, <1>4, <1>5 DEF IndInv, LandedIsSeen, ImportedIsHeld

LEMMA NextKeeps == IndInv /\ [Next]_vars => IndInv'
<1> SUFFICES ASSUME IndInv, [Next]_vars
             PROVE  IndInv'
  OBVIOUS
<1>1. CASE UNCHANGED vars
  BY <1>1 DEF vars, repository, session, IndInv, TypeOK, WellFormed, LandedIsSeen,
              TurnsHeld, Had, Importing, ImportedIsHeld, Snap
<1>2. CASE Next
  <2> PICK m \in Machine :
    \/ \E r \in Row : Write(m, r)
    \/ \E r \in Row : ProbeRow(m, r) \/ WriteRow(m, r) \/ WriteDropped(m, r)
    \/ Sync(m) \/ BackupForcePush(m) \/ ExportRefused(m)
    \/ Push(m) \/ ForcePush(m) \/ PushFails(m)
    \/ Pull(m) \/ PullFails(m)
    \/ MergeFromRemote(m) \/ RebaseOntoRemote(m)
    \/ ResetHardToRemote(m) \/ ForceHead(m)
    \/ ImportState(m) \/ ImportFails(m) \/ RestoreBackupState(m)
    \/ Restart(m)
    BY <1>2 DEF Next
  <2>1. CASE \E r \in Row : Write(m, r)
    BY <2>1, WriteKeeps
  <2>2. CASE Sync(m)
    BY <2>2, SyncKeeps
  <2>3. CASE BackupForcePush(m)
    BY <2>3, BackupForcePushKeeps
  <2>4. CASE ExportRefused(m)
    BY <2>4, ExportRefusedKeeps
  <2>5. CASE Push(m) \/ ForcePush(m)
    BY <2>5, PushedKeeps DEF Push, ForcePush
  <2>6. CASE PushFails(m) \/ PullFails(m)
    BY <2>6, FailKeeps
  <2>7. CASE Pull(m) \/ ResetHardToRemote(m)
    BY <2>7, PullKeeps
  <2>8. CASE MergeFromRemote(m)
    BY <2>8, MergeKeeps
  <2>9. CASE RebaseOntoRemote(m)
    BY <2>9, RebaseKeeps
  <2>10. CASE ForceHead(m)
    BY <2>10, ForceHeadKeeps
  <2>11. CASE ImportState(m)
    BY <2>11, ImportStateKeeps
  <2>12. CASE ImportFails(m)
    BY <2>12, ImportFailsKeeps
  <2>13. CASE RestoreBackupState(m)
    BY <2>13, RestoreKeeps
  <2>14. CASE Restart(m)
    BY <2>14, RestartKeeps
  <2>15. CASE \E r \in Row : ProbeRow(m, r) \/ WriteRow(m, r) \/ WriteDropped(m, r)
    BY <2>15, ProbeKeeps, WriteRowKeeps
  <2> QED
    BY <2>1, <2>2, <2>3, <2>4, <2>5, <2>6, <2>7, <2>8, <2>9, <2>10, <2>11, <2>12,
       <2>13, <2>14, <2>15
<1> QED
  BY <1>1, <1>2

(* The databases, the commits, the branches and the landings of every machine
   have their types in every reachable state, and a machine without a branch
   has no operation under way. *)
THEOREM BackupTypeCorrect == Spec => []TypeOK
<1>1. IndInv => TypeOK
  BY DEF IndInv
<1> QED
  BY <1>1, InitInv, NextKeeps, PTL DEF Spec

(* Whatever is pulled, merged, rebased, reset or restored, a machine that
   counts the snapshot at its head as imported has every row of it. *)
THEOREM ImportedStaysHeld == Spec => []ImportedIsHeld
<1>1. IndInv => ImportedIsHeld
  BY DEF IndInv
<1> QED
  BY <1>1, InitInv, NextKeeps, PTL DEF Spec

(* A commit that is the machine's own export counts as imported only if the
   export made it. *)
LEMMA OnlyStageExports ==
  ASSUME IndInv, [Next]_vars, NEW m \in Machine, head[m] # 0, head'[m] # head[m],
         landing'[m] = "imported"
  PROVE  StageAndCommit(m) /\ UNCHANGED <<db, clock>>
<1>1. /\ head \in [Machine -> 0 .. Len(commits)] /\ landing \in LandingType
  BY Numbers, StateTypes
<1>2. ASSUME NEW n \in Machine, NEW b, NEW next, Land(n, b, next)
      PROVE  FALSE
  <2>1. /\ head' = [head EXCEPT ![n] = b]
        /\ landing' = [landing EXCEPT ![n] = IF b = head[n] THEN landing[n] ELSE "landed"]
    BY <1>2 DEF Land
  <2>2. n = m /\ b # head[m]
    BY <1>1, <2>1
  <2> QED
    BY <1>1, <2>1, <2>2 DEF LandingType, Landing
<1>3. ~ UNCHANGED head
  OBVIOUS
<1>4. PICK n \in Machine : Sync(n) \/ BackupForcePush(n)
  BY <1>2, <1>3 DEF Next, vars, repository, Write, ExportRefused, Push, ForcePush,
     Pushed, PushFails, PullFails, Pull, MergeFromRemote, RebaseOntoRemote,
     ResetHardToRemote, ForceHead, ProbeRow, WriteRow, WriteDropped, ImportState, ImportFails,
     RestoreBackupState, Restart
<1>5. StageAndCommit(n) /\ UNCHANGED <<db, clock>>
  BY <1>4 DEF Sync, BackupForcePush
<1>6. n = m
  BY <1>5, StageFacts
<1> QED
  BY <1>5, <1>6

(* An export overwrites no snapshot it cannot read; nor a row it has not, unless
   a restart has forgotten that the snapshot had landed, or its import has
   dropped a row. *)
THEOREM ExportsKeepRows == Spec => ExportKeepsRows
<1>1. ASSUME IndInv, [Next]_vars
      PROVE  \A m \in Machine : LET h == head[m] IN
               h # 0 /\ head'[m] # h /\ commits'[head'[m]].kind \in {"export", "lossy"}
                     /\ commits'[head'[m]].snap.owner = m /\ landing'[m] = "imported"
                 => /\ Readable(m, Snap(h))
                    /\ landing[m] # "missing" =>
                         Covers(commits'[head'[m]].snap.rows, Snap(h).rows)
  <2> SUFFICES ASSUME NEW m \in Machine, head[m] # 0, head'[m] # head[m],
                      landing'[m] = "imported"
               PROVE  /\ Readable(m, Snap(head[m]))
                      /\ landing[m] # "missing" =>
                           Covers(commits'[head'[m]].snap.rows, Snap(head[m]).rows)
    OBVIOUS
  <2>1. StageAndCommit(m) /\ UNCHANGED <<db, clock>>
    BY <1>1, OnlyStageExports
  <2>2. Readable(m, Snap(head[m])) /\ landing[m] # "landed"
    BY <1>1, <2>1, StateTypes DEF StageAndCommit, Exportable
  <2>3. commits'[head'[m]].snap.rows = db[m]
    BY <1>1, <2>1, StageFacts
  <2>4. landing[m] # "missing" => Covers(db[m], Snap(head[m]).rows)
    BY <1>1, <2>2, StateTypes DEF IndInv, ImportedIsHeld, LandingType, Landing
  <2> QED
    BY <2>2, <2>3, <2>4
<1> QED
  BY <1>1, InitInv, NextKeeps, PTL DEF Spec, ExportKeepsRows

-----------------------------------------------------------------------------
(* Two machines and their remote.  The lemmas speak of any history, and of what
   points into it: made stands for commits, at for head, known for origin, tip
   for remote.  What is lost when a machine merges or publishes depends on what
   it has not seen; the invariant says what that can be.

   A commit's history contains those of its parents and of its ancestors. *)
Ancestry(made) == \A d \in 1 .. Len(made) :
  /\ d \in PastOf(made, d) /\ PastOf(made, d) \subseteq 1 .. d
  /\ made[d].ours \in 0 .. Len(made) /\ made[d].ours < d
  /\ made[d].theirs \in 0 .. Len(made) /\ made[d].theirs < d
  /\ PastOf(made, made[d].ours) \subseteq PastOf(made, d)
  /\ \A c \in PastOf(made, d) : PastOf(made, c) \subseteq PastOf(made, d)

(* What a merge takes into its history but not into its snapshot. *)
Dropped(made, k) ==
  {c \in PastOf(made, made[k].ours) :
     made[k].theirs # 0 /\ c \notin PastOf(made, made[k].theirs)}

(* Whoever has part of what a merge dropped has that merge. *)
Whole(made, b) == \A k \in 1 .. Len(made) :
  PastOf(made, b) \cap Dropped(made, k) # {} => k \in PastOf(made, b)

(* What the branches of two machines have in common. *)
Shared(made, at, p, n) == PastOf(made, at[p]) \cap PastOf(made, at[n])

(* p pushed last, so its branch contains the tip, and what p and n share is in
   the tip.  n's branch contains what n knows of the remote, or that is still
   part of the tip and contains all they share.  What they share is the history
   of one commit. *)
Apart(made, at, known, tip, p, n) ==
  /\ known[p] = tip /\ PastOf(made, tip) \subseteq PastOf(made, at[p])
  /\ Shared(made, at, p, n) \subseteq PastOf(made, tip)
  /\ \/ PastOf(made, known[n]) \subseteq PastOf(made, at[n])
     \/ /\ PastOf(made, known[n]) \subseteq PastOf(made, tip)
        /\ Shared(made, at, p, n) \subseteq PastOf(made, known[n])
  /\ \E b \in 0 .. Len(made) : Shared(made, at, p, n) = PastOf(made, b)

(* Every branch ends at a commit that exists, or is empty. *)
Pointers(made, at, known, tip) ==
  /\ made \in Seq(Commit)
  /\ at \in [Machine -> 0 .. Len(made)] /\ known \in [Machine -> 0 .. Len(made)]
  /\ tip \in 0 .. Len(made)
  /\ Ancestry(made)

(* Between two machines, one of which pushed last. *)
Line(made, at, known, tip) ==
  /\ Pointers(made, at, known, tip)
  /\ Whole(made, tip)
  /\ \A m \in Machine : Whole(made, at[m]) /\ Whole(made, known[m])
  /\ \E p, n \in Machine :
       p # n /\ Machine = {p, n} /\ Apart(made, at, known, tip, p, n)

-----------------------------------------------------------------------------
(* An ancestor's history is part of the history. *)
LEMMA AncestorIsSubset ==
  ASSUME NEW made \in Seq(Commit), Ancestry(made),
         NEW c \in 0 .. Len(made), NEW b \in 0 .. Len(made)
  PROVE  /\ c \in PastOf(made, b) => PastOf(made, c) \subseteq PastOf(made, b)
         /\ c # 0 /\ PastOf(made, c) \subseteq PastOf(made, b) => c \in PastOf(made, b)
         /\ PastOf(made, c) \subseteq 1 .. Len(made)
<1>0. Len(made) \in Nat
  OBVIOUS
<1>1. b = 0 => PastOf(made, b) = {}
  BY DEF PastOf
<1>2. b # 0 => b \in 1 .. Len(made)
  BY <1>0
<1>3. c # 0 => c \in 1 .. Len(made)
  BY <1>0
<1>4. c = 0 => PastOf(made, c) = {}
  BY DEF PastOf
<1>5. c # 0 => c \in PastOf(made, c) /\ PastOf(made, c) \subseteq 1 .. c
  BY <1>3 DEF Ancestry
<1>6. c # 0 => PastOf(made, c) \subseteq 1 .. Len(made)
  BY <1>0, <1>3, <1>5
<1> QED
  BY <1>1, <1>2, <1>4, <1>5, <1>6 DEF Ancestry

(* The last pusher, and the machine that has not pushed since. *)
LEMMA LineParts ==
  ASSUME NEW made, NEW at, NEW known, NEW tip, Line(made, at, known, tip),
         NEW m \in Machine
  PROVE  /\ made \in Seq(Commit) /\ Len(made) \in Nat /\ Ancestry(made)
         /\ at[m] \in 0 .. Len(made) /\ known[m] \in 0 .. Len(made)
         /\ tip \in 0 .. Len(made)
         /\ Whole(made, tip) /\ Whole(made, at[m]) /\ Whole(made, known[m])
BY DEF Line, Pointers

(* The machine learns the tip. *)
LEMMA FetchLine ==
  ASSUME NEW made, NEW at, NEW known, NEW tip, Line(made, at, known, tip),
         NEW m \in Machine, NEW now, now = [known EXCEPT ![m] = tip]
  PROVE  Line(made, at, now, tip)
<1>0. /\ Pointers(made, at, now, tip) /\ \A o \in Machine : now[o] = IF o = m THEN tip ELSE known[o]
  BY DEF Line, Pointers
<1>1. PICK p, n \in Machine :
        p # n /\ Machine = {p, n} /\ Apart(made, at, known, tip, p, n)
  BY DEF Line
<1>2. Apart(made, at, now, tip, p, n)
  BY <1>0, <1>1 DEF Apart
<1>3. \A o \in Machine : Whole(made, now[o])
  BY <1>0 DEF Line
<1> QED
  BY <1>0, <1>1, <1>2, <1>3 DEF Line

(* The machine publishes its branch. *)
LEMMA PushLine ==
  ASSUME NEW made, NEW at, NEW known, NEW tip, Line(made, at, known, tip),
         NEW m \in Machine, NEW now, now = [known EXCEPT ![m] = at[m]]
  PROVE  Line(made, at, now, at[m])
<1>0. /\ Pointers(made, at, now, at[m])
      /\ \A o \in Machine : now[o] = IF o = m THEN at[m] ELSE known[o]
  BY DEF Line, Pointers
<1>1. PICK p, n \in Machine :
        p # n /\ Machine = {p, n} /\ Apart(made, at, known, tip, p, n)
  BY DEF Line
<1>2. CASE m = p
  <2>1. Apart(made, at, now, at[m], p, n)
    BY <1>0, <1>1, <1>2 DEF Apart, Shared
  <2> QED
    BY <1>0, <1>1, <1>2, <2>1 DEF Line
<1>3. CASE m = n
  <2>1. Shared(made, at, n, p) = Shared(made, at, p, n)
    BY DEF Shared
  <2>2. Apart(made, at, now, at[m], n, p)
    BY <1>0, <1>1, <1>3, <2>1 DEF Apart, Shared
  <2> QED
    BY <1>0, <1>1, <1>3, <2>2 DEF Line
<1> QED
  BY <1>1, <1>2, <1>3

(* The machine moves to the tip. *)
LEMMA ResetLine ==
  ASSUME NEW made, NEW at, NEW known, NEW tip, Line(made, at, known, tip),
         NEW m \in Machine, NEW now, now = [known EXCEPT ![m] = tip],
         NEW to, to = [at EXCEPT ![m] = tip]
  PROVE  Line(made, to, now, tip)
<1>0. /\ Pointers(made, to, now, tip)
      /\ \A o \in Machine : now[o] = IF o = m THEN tip ELSE known[o]
      /\ \A o \in Machine : to[o] = IF o = m THEN tip ELSE at[o]
  BY DEF Line, Pointers
<1>1. PICK p, n \in Machine :
        p # n /\ Machine = {p, n} /\ Apart(made, at, known, tip, p, n)
  BY DEF Line
<1>2. CASE m = p
  <2>1. Shared(made, to, p, n) = Shared(made, at, p, n)
    BY <1>0, <1>1, <1>2 DEF Apart, Shared
  <2>2. Apart(made, to, now, tip, p, n)
    BY <1>0, <1>1, <1>2, <2>1 DEF Apart
  <2> QED
    BY <1>0, <1>1, <1>2, <2>2 DEF Line
<1>3. CASE m = n
  <2>1. Shared(made, to, p, n) = PastOf(made, tip)
    BY <1>0, <1>1, <1>3 DEF Apart, Shared
  <2>2. tip \in 0 .. Len(made)
    BY DEF Line, Pointers
  <2>3. Apart(made, to, now, tip, p, n)
    BY <1>0, <1>1, <1>3, <2>1, <2>2 DEF Apart
  <2> QED
    BY <1>0, <1>1, <1>3, <2>3 DEF Line
<1> QED
  BY <1>1, <1>2, <1>3

(* p has pushed after m last looked: all that m knows of the remote, and all
   they have in common, is in p's branch. *)
Behind(made, at, known, tip, p, m) ==
  /\ p # m /\ Machine = {p, m} /\ Apart(made, at, known, tip, p, m)
  /\ PastOf(made, known[m]) \subseteq PastOf(made, at[p])
  /\ PastOf(made, known[m]) \subseteq PastOf(made, tip)
  /\ Shared(made, at, p, m) = PastOf(made, at[m]) \cap PastOf(made, known[m])

(* A machine whose known tip is not in its branch: the other pushed last, and
   what the two have in common is known to both. *)
LEMMA Fork ==
  ASSUME NEW made, NEW at, NEW known, NEW tip, Line(made, at, known, tip),
         NEW m \in Machine, known[m] # 0, known[m] \notin PastOf(made, at[m])
  PROVE  \E p \in Machine : Behind(made, at, known, tip, p, m)
<1>1. PICK p, n \in Machine :
        p # n /\ Machine = {p, n} /\ Apart(made, at, known, tip, p, n)
  BY DEF Line
<1>2. ~ (PastOf(made, known[m]) \subseteq PastOf(made, at[m]))
  BY LineParts, AncestorIsSubset
<1>3. m = n
  BY <1>1, <1>2 DEF Apart
<1>4. /\ PastOf(made, known[m]) \subseteq PastOf(made, tip)
      /\ PastOf(made, tip) \subseteq PastOf(made, at[p])
      /\ Shared(made, at, p, m) \subseteq PastOf(made, known[m])
  BY <1>1, <1>2, <1>3 DEF Apart
<1> QED
  BY <1>1, <1>3, <1>4 DEF Behind, Shared

(* What a merge finds: one commit that ends the common history, if any. *)
LEMMA OneBase ==
  ASSUME NEW made, NEW at, NEW known, NEW tip, Line(made, at, known, tip),
         NEW m \in Machine, known[m] # 0, known[m] \notin PastOf(made, at[m])
  PROVE  \E b \in 0 .. Len(made) :
           PastOf(made, at[m]) \cap PastOf(made, known[m]) = PastOf(made, b)
<1>1. PICK p \in Machine : Behind(made, at, known, tip, p, m)
  BY Fork
<1> QED
  BY <1>1 DEF Behind, Apart

(* The machine moves to the tip it knows, when that is not in its branch. *)
LEMMA LandLine ==
  ASSUME NEW made, NEW at, NEW known, NEW tip, Line(made, at, known, tip),
         NEW m \in Machine, known[m] # 0, known[m] \notin PastOf(made, at[m]),
         NEW to, to = [at EXCEPT ![m] = known[m]]
  PROVE  Line(made, to, known, tip)
<1>0. /\ Pointers(made, to, known, tip)
      /\ \A o \in Machine : to[o] = IF o = m THEN known[m] ELSE at[o]
  BY DEF Line, Pointers
<1>1. PICK p \in Machine : Behind(made, at, known, tip, p, m)
  BY Fork
<1>2. Shared(made, to, p, m) = PastOf(made, known[m])
  BY <1>0, <1>1 DEF Behind, Shared
<1>3. known[m] \in 0 .. Len(made)
  BY LineParts
<1>4. Apart(made, to, known, tip, p, m)
  BY <1>0, <1>1, <1>2, <1>3 DEF Behind, Apart
<1> QED
  BY <1>0, <1>1, <1>4 DEF Behind, Line

-----------------------------------------------------------------------------
(* A commit with the parents ours and theirs is added. *)
Added(made, more, ours, theirs) ==
  /\ more \in Seq(Commit) /\ Len(more) = Len(made) + 1
  /\ \A c \in 1 .. Len(made) : more[c] = made[c]
  /\ more[Len(more)].ours = ours /\ more[Len(more)].theirs = theirs
  /\ more[Len(more)].past =
       PastOf(made, ours) \cup PastOf(made, theirs) \cup {Len(more)}

(* The new commit is in no older history, and the older ones are what they were. *)
LEMMA AddedFacts ==
  ASSUME NEW made \in Seq(Commit), Ancestry(made), NEW more,
         NEW ours \in 0 .. Len(made), NEW theirs \in 0 .. Len(made),
         Added(made, more, ours, theirs)
  PROVE  /\ Ancestry(more) /\ Len(more) \in Nat /\ Len(more) # 0
         /\ \A b \in 0 .. Len(made) : /\ b \in 0 .. Len(more) /\ b # Len(more)
                                      /\ PastOf(more, b) = PastOf(made, b)
                                      /\ Len(more) \notin PastOf(made, b)
         /\ \A k \in 1 .. Len(made) : Dropped(more, k) = Dropped(made, k)
         /\ \A k \in 1 .. Len(more) : k \in 1 .. Len(made) \/ k = Len(more)
         /\ PastOf(more, Len(more)) =
              PastOf(made, ours) \cup PastOf(made, theirs) \cup {Len(more)}
         /\ \A c : c \in Dropped(more, Len(more)) <=>
              c \in PastOf(made, ours) /\ theirs # 0 /\ c \notin PastOf(made, theirs)
<1> DEFINE d == Len(more)
<1>0. /\ Len(made) \in Nat /\ d = Len(made) + 1 /\ d \in Nat /\ d # 0
      /\ \A k \in 1 .. d : k \in 1 .. Len(made) \/ k = d
      /\ 0 .. Len(made) \subseteq 0 .. d /\ 1 .. Len(made) \subseteq 1 .. d
      /\ d \notin 0 .. Len(made) /\ d \in 1 .. d
      /\ \A k \in 1 .. Len(made) : k < d
      /\ ours < d /\ theirs < d
  BY DEF Added
<1>1. \A b \in 0 .. Len(made) : PastOf(made, b) \subseteq 1 .. Len(made)
  BY AncestorIsSubset
<1>2. \A b \in 0 .. Len(made) : b # 0 => b \in 1 .. Len(made)
  BY <1>0
<1>3. \A b \in 0 .. Len(made) : PastOf(more, b) = PastOf(made, b)
  BY <1>2 DEF PastOf, Added
<1>4. PastOf(more, d) = PastOf(made, ours) \cup PastOf(made, theirs) \cup {d}
  BY <1>0 DEF PastOf, Added
<1>5. \A k \in 1 .. Len(made) : /\ made[k].ours \in 0 .. Len(made)
                                /\ made[k].theirs \in 0 .. Len(made)
                                /\ more[k] = made[k]
  BY DEF Ancestry, Added
<1>6. \A k \in 1 .. Len(made) : Dropped(more, k) = Dropped(made, k)
  BY <1>3, <1>5 DEF Dropped
<1>7. more[d].ours = ours /\ more[d].theirs = theirs
  BY DEF Added
<1>8. \A c : c \in Dropped(more, d) <=>
        c \in PastOf(made, ours) /\ theirs # 0 /\ c \notin PastOf(made, theirs)
  BY <1>3, <1>7 DEF Dropped
<1> HIDE DEF d
<1>9. Ancestry(more)
  <2> SUFFICES ASSUME NEW k \in 1 .. d
               PROVE  /\ k \in PastOf(more, k) /\ PastOf(more, k) \subseteq 1 .. k
                      /\ more[k].ours \in 0 .. Len(more) /\ more[k].ours < k
                      /\ more[k].theirs \in 0 .. Len(more) /\ more[k].theirs < k
                      /\ PastOf(more, more[k].ours) \subseteq PastOf(more, k)
                      /\ \A c \in PastOf(more, k) : PastOf(more, c) \subseteq PastOf(more, k)
    BY DEF Ancestry, d
  <2>1. CASE k \in 1 .. Len(made)
    <3>1. /\ k \in PastOf(made, k) /\ PastOf(made, k) \subseteq 1 .. k
          /\ made[k].ours \in 0 .. Len(made) /\ made[k].ours < k
          /\ made[k].theirs \in 0 .. Len(made) /\ made[k].theirs < k
          /\ PastOf(made, made[k].ours) \subseteq PastOf(made, k)
          /\ \A c \in PastOf(made, k) : PastOf(made, c) \subseteq PastOf(made, k)
      BY <2>1 DEF Ancestry
    <3>2. k \in 0 .. Len(made) /\ more[k] = made[k]
      BY <1>0, <1>5, <2>1
    <3>3. PastOf(more, k) = PastOf(made, k)
      BY <1>3, <3>2
    <3>4. \A c \in PastOf(made, k) : c \in 0 .. Len(made)
      BY <1>0, <1>1, <3>2
    <3> QED
      BY <1>0, <1>3, <3>1, <3>2, <3>3, <3>4 DEF d
  <2>2. CASE k = d
    <3>1. PastOf(more, d) \subseteq 1 .. d /\ d \in PastOf(more, d)
      BY <1>0, <1>1, <1>4
    <3>2. /\ more[k].ours \in 0 .. Len(more) /\ more[k].ours < k
          /\ more[k].theirs \in 0 .. Len(more) /\ more[k].theirs < k
      BY <1>0, <1>7, <2>2 DEF d
    <3>3. ASSUME NEW b \in 0 .. Len(made), NEW c \in PastOf(made, b)
          PROVE  PastOf(more, c) \subseteq PastOf(made, b)
      <4>1. c \in 0 .. Len(made)
        BY <1>0, <1>1
      <4> QED
        BY <1>3, <4>1, AncestorIsSubset
    <3>4. \A c \in PastOf(more, d) : PastOf(more, c) \subseteq PastOf(more, d)
      BY <1>4, <3>3
    <3>5. PastOf(more, more[k].ours) \subseteq PastOf(more, k)
      BY <1>3, <1>4, <1>7, <2>2
    <3> QED
      BY <2>2, <3>1, <3>2, <3>4, <3>5
  <2> QED
    BY <1>0, <2>1, <2>2
<1>10. \A b \in 0 .. Len(made) : b \in 0 .. d /\ b # d /\ d \notin PastOf(made, b)
  BY <1>0, <1>1
<1> QED
  BY <1>0, <1>3, <1>4, <1>6, <1>8, <1>9, <1>10 DEF d

(* The branches that were whole stay whole unless the new commit has dropped
   some of theirs, and the new commit is whole if its parents are. *)
LEMMA AddedWhole ==
  ASSUME NEW made \in Seq(Commit), Ancestry(made), NEW more,
         NEW ours \in 0 .. Len(made), NEW theirs \in 0 .. Len(made),
         Added(made, more, ours, theirs)
  PROVE  /\ \A b \in 0 .. Len(made) :
              Whole(made, b) /\ PastOf(made, b) \cap Dropped(more, Len(more)) = {}
                => Whole(more, b)
         /\ Whole(made, ours) /\ Whole(made, theirs) => Whole(more, Len(more))
<1>0. /\ \A b \in 0 .. Len(made) : /\ PastOf(more, b) = PastOf(made, b)
                                   /\ Len(more) \notin PastOf(made, b)
      /\ \A k \in 1 .. Len(made) : Dropped(more, k) = Dropped(made, k)
      /\ \A k \in 1 .. Len(more) : k \in 1 .. Len(made) \/ k = Len(more)
      /\ PastOf(more, Len(more)) =
           PastOf(made, ours) \cup PastOf(made, theirs) \cup {Len(more)}
  BY AddedFacts
<1>1. ASSUME NEW k \in 1 .. Len(made)
      PROVE  Len(more) \notin Dropped(made, k)
  BY <1>0 DEF Dropped, Ancestry
<1>2. ASSUME NEW b \in 0 .. Len(made), Whole(made, b),
             PastOf(made, b) \cap Dropped(more, Len(more)) = {}
      PROVE  Whole(more, b)
  BY <1>0, <1>2 DEF Whole
<1>3. ASSUME Whole(made, ours), Whole(made, theirs)
      PROVE  Whole(more, Len(more))
  BY <1>0, <1>1, <1>3 DEF Whole
<1> QED
  BY <1>2, <1>3

(* The pointers are still into the history, and one moves to its end. *)
LEMMA AddedPointers ==
  ASSUME NEW made, NEW at, NEW known, NEW tip, Pointers(made, at, known, tip),
         NEW more, NEW ours \in 0 .. Len(made), NEW theirs \in 0 .. Len(made),
         Added(made, more, ours, theirs)
  PROVE  Pointers(more, at, known, tip) /\ Len(more) \in 0 .. Len(more)
<1>0. made \in Seq(Commit) /\ Ancestry(made)
  BY DEF Pointers
<1>1. /\ Ancestry(more) /\ Len(more) \in Nat
      /\ \A b \in 0 .. Len(made) : b \in 0 .. Len(more)
  BY <1>0, AddedFacts
<1>2. more \in Seq(Commit)
  BY DEF Added
<1> QED
  BY <1>1, <1>2 DEF Pointers

(* An export: the machine's branch grows by one commit. *)
LEMMA ExportLine ==
  ASSUME NEW made, NEW at, NEW known, NEW tip, Line(made, at, known, tip),
         NEW m \in Machine, NEW more, Added(made, more, at[m], 0),
         NEW to, to = [at EXCEPT ![m] = Len(more)]
  PROVE  Line(more, to, known, tip)
<1>0. /\ made \in Seq(Commit) /\ Ancestry(made) /\ at[m] \in 0 .. Len(made)
      /\ 0 \in 0 .. Len(made) /\ tip \in 0 .. Len(made)
      /\ \A o \in Machine : at[o] \in 0 .. Len(made) /\ known[o] \in 0 .. Len(made)
      /\ Pointers(made, at, known, tip)
  BY DEF Line, Pointers
<1>1. /\ Pointers(more, to, known, tip)
      /\ to[m] = Len(more) /\ \A o \in Machine \ {m} : to[o] = at[o]
  <2>1. Pointers(more, at, known, tip) /\ Len(more) \in 0 .. Len(more)
    BY <1>0, AddedPointers
  <2> QED
    BY <2>1 DEF Pointers
<1>2. /\ \A b \in 0 .. Len(made) : /\ b \in 0 .. Len(more)
                                   /\ PastOf(more, b) = PastOf(made, b)
                                   /\ Len(more) \notin PastOf(made, b)
      /\ PastOf(more, Len(more)) = PastOf(made, at[m]) \cup {Len(more)}
      /\ Dropped(more, Len(more)) = {}
  <2>1. PastOf(made, 0) = {}
    BY DEF PastOf
  <2>2. /\ \A b \in 0 .. Len(made) : /\ b \in 0 .. Len(more)
                                     /\ PastOf(more, b) = PastOf(made, b)
                                     /\ Len(more) \notin PastOf(made, b)
        /\ PastOf(more, Len(more)) =
             PastOf(made, at[m]) \cup PastOf(made, 0) \cup {Len(more)}
        /\ \A c : c \in Dropped(more, Len(more)) <=>
             c \in PastOf(made, at[m]) /\ 0 # 0 /\ c \notin PastOf(made, 0)
    BY <1>0, AddedFacts
  <2> QED
    BY <2>1, <2>2
<1>3. PICK p, n \in Machine :
        p # n /\ Machine = {p, n} /\ Apart(made, at, known, tip, p, n)
  BY DEF Line
<1>4. /\ \A b \in 0 .. Len(made) : Whole(made, b) => Whole(more, b)
      /\ Whole(more, Len(more))
  <2>1. Whole(made, at[m]) /\ Whole(made, 0)
    BY DEF Line, Whole, PastOf
  <2> QED
    BY <1>0, <1>2, <2>1, AddedWhole
<1>5. Shared(more, to, p, n) = Shared(made, at, p, n)
  BY <1>0, <1>1, <1>2, <1>3 DEF Shared
<1>6. PICK b \in 0 .. Len(made) : Shared(made, at, p, n) = PastOf(made, b)
  BY <1>3 DEF Apart
<1>7. \E c \in 0 .. Len(more) : Shared(more, to, p, n) = PastOf(more, c)
  BY <1>2, <1>5, <1>6
<1>8. Apart(more, to, known, tip, p, n)
  BY <1>0, <1>1, <1>2, <1>3, <1>5, <1>7 DEF Apart
<1>9. /\ Whole(more, tip)
      /\ \A o \in Machine : Whole(more, to[o]) /\ Whole(more, known[o])
  BY <1>0, <1>1, <1>4 DEF Line
<1> QED
  BY <1>1, <1>3, <1>8, <1>9 DEF Line

(* A merge or a rebase onto the tip the machine knows: the new commit has it
   for a parent, and what a merge has dropped is in no other branch. *)
LEMMA JoinLine ==
  ASSUME NEW made, NEW at, NEW known, NEW tip, Line(made, at, known, tip),
         NEW m \in Machine, known[m] # 0, known[m] \notin PastOf(made, at[m]), NEW more,
         \/ Added(made, more, at[m], known[m])
         \/ Added(made, more, known[m], 0),
         NEW to, to = [at EXCEPT ![m] = Len(more)]
  PROVE  Line(more, to, known, tip)
<1> DEFINE h == at[m]
           o == known[m]
<1>0. /\ made \in Seq(Commit) /\ Ancestry(made) /\ h \in 0 .. Len(made)
      /\ 0 \in 0 .. Len(made) /\ tip \in 0 .. Len(made) /\ o \in 0 .. Len(made)
      /\ \A q \in Machine : at[q] \in 0 .. Len(made) /\ known[q] \in 0 .. Len(made)
      /\ Pointers(made, at, known, tip)
  BY DEF Line, Pointers
<1>1. /\ Pointers(more, to, known, tip)
      /\ to[m] = Len(more) /\ \A q \in Machine \ {m} : to[q] = at[q]
  <2>1. Pointers(more, at, known, tip) /\ Len(more) \in 0 .. Len(more)
    <3>1. CASE Added(made, more, h, o)
      BY <1>0, <3>1, AddedPointers
    <3>2. CASE Added(made, more, o, 0)
      BY <1>0, <3>2, AddedPointers
    <3> QED
      BY <3>1, <3>2
  <2> QED
    BY <2>1 DEF Pointers
<1>2. PastOf(made, 0) = {} /\ Whole(made, 0)
  BY DEF PastOf, Whole
<1>3. /\ \A b \in 0 .. Len(made) : /\ b \in 0 .. Len(more)
                                   /\ PastOf(more, b) = PastOf(made, b)
                                   /\ Len(more) \notin PastOf(made, b)
      /\ \/ PastOf(more, Len(more)) = PastOf(made, h) \cup PastOf(made, o) \cup {Len(more)}
         \/ PastOf(more, Len(more)) = PastOf(made, o) \cup {Len(more)}
      /\ Dropped(more, Len(more)) \subseteq PastOf(made, h) \ PastOf(made, o)
  <2> DEFINE Facts(ours, theirs) ==
        /\ \A b \in 0 .. Len(made) : /\ b \in 0 .. Len(more)
                                     /\ PastOf(more, b) = PastOf(made, b)
                                     /\ Len(more) \notin PastOf(made, b)
        /\ PastOf(more, Len(more)) =
             PastOf(made, ours) \cup PastOf(made, theirs) \cup {Len(more)}
        /\ \A c : c \in Dropped(more, Len(more)) <=>
             c \in PastOf(made, ours) /\ theirs # 0 /\ c \notin PastOf(made, theirs)
  <2>1. CASE Added(made, more, h, o)
    <3> HIDE DEF h, o
    <3>1. Facts(h, o)
      BY <1>0, <2>1, AddedFacts
    <3> QED
      BY <3>1
  <2>2. CASE Added(made, more, o, 0)
    <3>1. Facts(o, 0)
      BY <1>0, <2>2, AddedFacts
    <3> QED
      BY <1>2, <3>1
  <2> QED
    BY <2>1, <2>2
<1>4. PICK p \in Machine : Behind(made, at, known, tip, p, m)
  BY Fork
<1>5. /\ p # m /\ Machine = {p, m} /\ known[p] = tip
      /\ PastOf(made, o) \subseteq PastOf(made, tip)
      /\ PastOf(made, tip) \subseteq PastOf(made, at[p])
      /\ PastOf(made, h) \cap PastOf(made, at[p]) \subseteq PastOf(made, o)
  BY <1>4 DEF Behind, Apart, Shared
<1>6. /\ Whole(made, h) /\ Whole(made, o) /\ Whole(made, tip) /\ Whole(made, at[p])
  BY DEF Line
<1>7. \A b \in 0 .. Len(made) :
        Whole(made, b) /\ PastOf(made, b) \cap Dropped(more, Len(more)) = {}
          => Whole(more, b)
  BY <1>0, AddedWhole
<1>8. Whole(more, Len(more))
  <2>1. CASE Added(made, more, h, o)
    BY <1>0, <1>6, <2>1, AddedWhole
  <2>2. CASE Added(made, more, o, 0)
    BY <1>0, <1>2, <1>6, <2>2, AddedWhole
  <2> QED
    BY <2>1, <2>2
<1> HIDE DEF h, o
<1>9. /\ PastOf(made, tip) \cap Dropped(more, Len(more)) = {}
      /\ PastOf(made, at[p]) \cap Dropped(more, Len(more)) = {}
      /\ PastOf(made, o) \cap Dropped(more, Len(more)) = {}
  BY <1>3, <1>5
<1>10. Whole(more, tip) /\ Whole(more, at[p]) /\ Whole(more, o)
  BY <1>0, <1>6, <1>7, <1>9
<1>11. \A q \in Machine : Whole(more, to[q]) /\ Whole(more, known[q])
  BY <1>1, <1>5, <1>8, <1>10 DEF o
<1>12. Shared(more, to, p, m) = PastOf(more, o)
  <2>1. /\ to[p] = at[p] /\ to[m] = Len(more)
        /\ PastOf(more, at[p]) = PastOf(made, at[p]) /\ PastOf(more, o) = PastOf(made, o)
        /\ Len(more) \notin PastOf(made, at[p])
    BY <1>0, <1>1, <1>3, <1>5
  <2>2. Shared(more, to, p, m) = PastOf(more, at[p]) \cap PastOf(more, Len(more))
    BY <2>1 DEF Shared
  <2>3. PastOf(made, h) \cap PastOf(made, at[p]) \subseteq PastOf(made, o)
        /\ PastOf(made, o) \subseteq PastOf(made, at[p])
    BY <1>5
  <2>4. /\ PastOf(made, at[p]) \cap PastOf(more, Len(more)) \subseteq PastOf(made, o)
        /\ PastOf(made, o) \subseteq PastOf(more, Len(more))
    BY <1>3, <2>1, <2>3
  <2> QED
    BY <2>1, <2>2, <2>3, <2>4
<1>13. /\ PastOf(more, tip) \subseteq PastOf(more, to[p])
       /\ PastOf(more, o) \subseteq PastOf(more, tip)
       /\ PastOf(more, o) \subseteq PastOf(more, to[m])
       /\ o \in 0 .. Len(more)
  BY <1>0, <1>1, <1>3, <1>5
<1>14. Apart(more, to, known, tip, p, m)
  BY <1>5, <1>12, <1>13 DEF Apart, o
<1> QED
  BY <1>1, <1>5, <1>10, <1>11, <1>14 DEF Line

-----------------------------------------------------------------------------
(* A commit d keeps the rows of its ancestor c, unless a merge on the way has
   not taken c's, or a commit of the kinds that may lose some lies between. *)
Lost(made, c, d) == \E k \in PastOf(made, d) : c \in Dropped(made, k)
(* d is, or comes after, a rebase or an export over missing rows. *)
Excused(made, c, d) == \E k \in PastOf(made, d) :
  k \notin PastOf(made, c) /\ made[k].kind \in {"rebase", "lossy"}
(* What a commit says of the rows of an ancestor. *)
KeepsRows(made, c, d) ==
  Lost(made, c, d) \/ Excused(made, c, d) \/ Covers(made[d].snap.rows, made[c].snap.rows)

(* No history loses rows but in these two ways. *)
RowsKept(made) == \A d \in 1 .. Len(made) : \A c \in PastOf(made, d) : KeepsRows(made, c, d)

(* At least as new as something at least as new. *)
LEMMA CoversChain ==
  ASSUME NEW x \in Rows, NEW y \in Rows, NEW z \in Rows, Covers(x, y), Covers(y, z)
  PROVE  Covers(x, z)
BY BackupAssumption DEF Rows, Covers, CoversRow

(* What was between two commits is still there, also from a new commit. *)
LEMMA Carried ==
  ASSUME NEW made \in Seq(Commit), Ancestry(made), NEW more,
         NEW ours \in 0 .. Len(made), NEW theirs \in 0 .. Len(made),
         Added(made, more, ours, theirs),
         NEW d \in 1 .. Len(made), NEW c \in PastOf(made, d),
         NEW e \in 1 .. Len(more), PastOf(made, d) \subseteq PastOf(more, e)
  PROVE  /\ Lost(made, c, d) => Lost(more, c, e)
         /\ Excused(made, c, d) => Excused(more, c, e)
<1>0. /\ d \in 0 .. Len(made) /\ PastOf(made, d) \subseteq 1 .. Len(made)
      /\ \A k \in 1 .. Len(made) : k \in 0 .. Len(made)
  BY AncestorIsSubset
<1>1. /\ \A b \in 0 .. Len(made) : PastOf(more, b) = PastOf(made, b)
      /\ \A k \in 1 .. Len(made) : Dropped(more, k) = Dropped(made, k)
  BY AddedFacts
<1>2. \A k \in 1 .. Len(made) : more[k] = made[k]
  BY DEF Added
<1>3. c \in 0 .. Len(made)
  BY <1>0
<1> QED
  BY <1>0, <1>1, <1>2, <1>3 DEF Lost, Excused

(* A commit that keeps its ancestors' rows leaves those of the others alone. *)
LEMMA AddedRows ==
  ASSUME NEW made \in Seq(Commit), Ancestry(made), RowsKept(made), NEW more,
         NEW ours \in 0 .. Len(made), NEW theirs \in 0 .. Len(made),
         Added(made, more, ours, theirs),
         \A c \in PastOf(more, Len(more)) : KeepsRows(more, c, Len(more))
  PROVE  RowsKept(more)
<1> SUFFICES ASSUME NEW d \in 1 .. Len(more), NEW c \in PastOf(more, d)
             PROVE  KeepsRows(more, c, d)
  BY DEF RowsKept
<1>1. CASE d = Len(more)
  BY <1>1
<1>2. CASE d \in 1 .. Len(made)
  <2>1. PastOf(more, d) = PastOf(made, d) /\ d \in 0 .. Len(made)
    BY <1>2, AddedFacts
  <2>2. KeepsRows(made, c, d) /\ c \in PastOf(made, d)
    BY <1>2, <2>1 DEF RowsKept
  <2>3. c \in 1 .. Len(made)
    BY <2>1, <2>2, AncestorIsSubset
  <2>4. more[d] = made[d] /\ more[c] = made[c]
    BY <1>2, <2>3 DEF Added
  <2>5. /\ Lost(made, c, d) => Lost(more, c, d)
        /\ Excused(made, c, d) => Excused(more, c, d)
    BY <1>2, <2>1, <2>2, Carried
  <2> QED
    BY <2>2, <2>4, <2>5 DEF KeepsRows
<1>3. d \in 1 .. Len(made) \/ d = Len(more)
  BY AddedFacts
<1> QED
  BY <1>1, <1>2, <1>3

(* An export that has every row of the branch, a lossy one, a rebase. *)
LEMMA ExportRows ==
  ASSUME NEW made \in Seq(Commit), Ancestry(made), RowsKept(made), NEW more,
         NEW ours \in 0 .. Len(made), Added(made, more, ours, 0),
         more[Len(more)].snap.rows \in Rows,
         \A k \in 1 .. Len(made) : made[k].snap.rows \in Rows,
         \/ more[Len(more)].kind \in {"rebase", "lossy"}
         \/ ours # 0 => Covers(more[Len(more)].snap.rows, made[ours].snap.rows)
  PROVE  RowsKept(more)
<1> DEFINE n == Len(more)
<1>0. /\ \A b \in 0 .. Len(made) : PastOf(more, b) = PastOf(made, b) /\ n \notin PastOf(made, b)
      /\ PastOf(more, n) = PastOf(made, ours) \cup PastOf(made, 0) \cup {n}
      /\ n \in Nat /\ n # 0 /\ 0 \in 0 .. Len(made)
  BY AddedFacts
<1>1. PastOf(made, 0) = {}
  BY DEF PastOf
<1> HIDE DEF n
<1>2. ASSUME NEW c \in PastOf(made, ours)
      PROVE  KeepsRows(more, c, n)
  <2>1. ours # 0 /\ ours \in 1 .. Len(made) /\ n \in 1 .. n
    BY <1>0, <1>1
  <2>2. c \in 0 .. Len(made) /\ c \in 1 .. Len(made)
    BY <2>1, AncestorIsSubset
  <2>3. n \in PastOf(more, n) /\ n \notin PastOf(more, c)
    BY <1>0, <2>2
  <2>4. CASE more[n].kind \in {"rebase", "lossy"}
    BY <2>3, <2>4 DEF KeepsRows, Excused
  <2>5. CASE Covers(more[n].snap.rows, made[ours].snap.rows)
    <3>1. KeepsRows(made, c, ours)
      BY <2>1 DEF RowsKept
    <3>2. PastOf(made, ours) \subseteq PastOf(more, n)
      BY <1>0
    <3>3. /\ Lost(made, c, ours) => Lost(more, c, n)
          /\ Excused(made, c, ours) => Excused(more, c, n)
      BY <1>0, <2>1, <3>2, Carried DEF n
    <3>4. more[c] = made[c]
      BY <2>2 DEF Added
    <3>5. Covers(made[ours].snap.rows, made[c].snap.rows)
            => Covers(more[n].snap.rows, more[c].snap.rows)
      BY <2>1, <2>2, <2>5, <3>4, CoversChain DEF n
    <3> QED
      BY <3>1, <3>3, <3>5 DEF KeepsRows
  <2> QED
    BY <2>1, <2>4, <2>5 DEF n
<1>3. KeepsRows(more, n, n)
  BY BackupAssumption DEF KeepsRows, Covers, CoversRow, Rows, n
<1>4. \A c \in PastOf(more, n) : KeepsRows(more, c, n)
  BY <1>0, <1>1, <1>2, <1>3
<1> QED
  BY <1>0, <1>4, AddedRows DEF n

(* A merge has the rows of its second parent, unless it says otherwise. *)
LEMMA MergeRows ==
  ASSUME NEW made \in Seq(Commit), Ancestry(made), RowsKept(made), NEW more,
         NEW ours \in 0 .. Len(made), NEW theirs \in 1 .. Len(made),
         Added(made, more, ours, theirs),
         more[Len(more)].snap.rows \in Rows,
         \A k \in 1 .. Len(made) : made[k].snap.rows \in Rows,
         \/ Covers(more[Len(more)].snap.rows, made[theirs].snap.rows)
         \/ \E k \in PastOf(made, ours) :
              k \notin PastOf(made, theirs) /\ made[k].kind \in {"rebase", "lossy"}
  PROVE  RowsKept(more)
<1> DEFINE n == Len(more)
<1>0. theirs \in 0 .. Len(made) /\ theirs # 0
  OBVIOUS
<1>1. /\ \A b \in 0 .. Len(made) : PastOf(more, b) = PastOf(made, b) /\ n \notin PastOf(made, b)
      /\ PastOf(more, n) = PastOf(made, ours) \cup PastOf(made, theirs) \cup {n}
      /\ \A c : c \in Dropped(more, n) <=>
              c \in PastOf(made, ours) /\ theirs # 0 /\ c \notin PastOf(made, theirs)
      /\ n \in Nat /\ n # 0
  BY <1>0, AddedFacts
<1> HIDE DEF n
<1>2. n \in 1 .. n /\ n \in PastOf(more, n)
  BY <1>1
<1>3. ASSUME NEW c \in PastOf(made, ours), c \notin PastOf(made, theirs)
      PROVE  KeepsRows(more, c, n)
  BY <1>0, <1>1, <1>2, <1>3 DEF KeepsRows, Lost
<1>4. ASSUME NEW c \in PastOf(made, theirs)
      PROVE  KeepsRows(more, c, n)
  <2>1. c \in 1 .. Len(made) /\ c \in 0 .. Len(made)
    BY <1>0, AncestorIsSubset
  <2>2. PastOf(made, c) \subseteq PastOf(made, theirs)
    BY <1>0, <2>1, AncestorIsSubset
  <2>3. more[c] = made[c] /\ \A k \in 1 .. Len(made) : more[k] = made[k]
    BY <2>1 DEF Added
  <2>4. CASE \E k \in PastOf(made, ours) :
               k \notin PastOf(made, theirs) /\ made[k].kind \in {"rebase", "lossy"}
    <3>1. PICK k \in PastOf(made, ours) :
            k \notin PastOf(made, theirs) /\ made[k].kind \in {"rebase", "lossy"}
      BY <2>4
    <3>2. k \in 1 .. Len(made)
      BY AncestorIsSubset
    <3>3. k \in PastOf(more, n) /\ k \notin PastOf(more, c) /\ more[k] = made[k]
      BY <1>1, <2>1, <2>2, <2>3, <3>1, <3>2
    <3> QED
      BY <3>1, <3>3 DEF KeepsRows, Excused
  <2>5. CASE Covers(more[n].snap.rows, made[theirs].snap.rows)
    <3>1. KeepsRows(made, c, theirs)
      BY DEF RowsKept
    <3>2. PastOf(made, theirs) \subseteq PastOf(more, n)
      BY <1>1
    <3>3. /\ Lost(made, c, theirs) => Lost(more, c, n)
          /\ Excused(made, c, theirs) => Excused(more, c, n)
      BY <1>0, <1>2, <3>2, Carried DEF n
    <3>4. Covers(made[theirs].snap.rows, made[c].snap.rows)
            => Covers(more[n].snap.rows, more[c].snap.rows)
      BY <2>1, <2>3, <2>5, CoversChain DEF n
    <3> QED
      BY <3>1, <3>3, <3>4 DEF KeepsRows
  <2> QED
    BY <2>4, <2>5 DEF n
<1>5. KeepsRows(more, n, n)
  BY BackupAssumption DEF KeepsRows, Covers, CoversRow, Rows, n
<1>6. \A c \in PastOf(more, n) : KeepsRows(more, c, n)
  BY <1>1, <1>3, <1>4, <1>5
<1> QED
  BY <1>0, <1>6, AddedRows DEF n

-----------------------------------------------------------------------------
(* The invariant of two machines, and what the operations make of it. *)
TipInv == Line(commits, head, origin, remote) /\ RowsKept(commits)

(* Every snapshot has rows. *)
LEMMA SnapshotRows ==
  ASSUME IndInv
  PROVE  \A k \in 1 .. Len(commits) : commits[k].snap.rows \in Rows
BY CommitFacts, SnapshotParts DEF Good, Snap

(* An append is the addition of a commit, with the snapshot it was given. *)
LEMMA NewIsAdded ==
  ASSUME IndInv, Len(commits) + faults < MaxCommits, NEW snap, Good(snap),
         NEW ours \in 0 .. Len(commits), NEW theirs \in 0 .. Len(commits),
         NEW kind \in {"export", "lossy", "merge", "rebase"},
         commits' = Append(commits, NewCommit(snap, ours, theirs, kind)),
         UNCHANGED clock
  PROVE  /\ Added(commits, commits', ours, theirs)
         /\ Len(commits') = Len(commits) + 1
         /\ commits'[Len(commits')].snap = snap /\ commits'[Len(commits')].kind = kind
         /\ commits'[Len(commits')].snap.rows \in Rows
<1> DEFINE new == NewCommit(snap, ours, theirs, kind)
<1>1. /\ commits' \in Seq(Commit) /\ Len(commits') = Len(commits) + 1
      /\ \A c \in 1 .. Len(commits) : commits'[c] = commits[c]
  BY AppendKeeps
<1>2. /\ new.snap = snap /\ new.kind = kind /\ new.ours = ours /\ new.theirs = theirs
      /\ new.past = PastOf(commits, ours) \cup PastOf(commits, theirs) \cup {Len(commits) + 1}
  BY DEF NewCommit, Past
<1>3. commits'[Len(commits) + 1] = new
  BY Numbers
<1>4. snap.rows \in Rows
  BY SnapshotParts DEF Good
<1> HIDE DEF new
<1> QED
  BY <1>1, <1>2, <1>3, <1>4 DEF Added

(* stageAndCommit: nothing, or an export on top of the machine's branch. *)
LEMMA StageLine ==
  ASSUME IndInv, TipInv, NEW m \in Machine, StageAndCommit(m), UNCHANGED <<db, clock>>
  PROVE  Line(commits', head', origin, remote) /\ RowsKept(commits')
<1>1. CASE UNCHANGED <<commits, head, landing>>
  BY <1>1 DEF TipInv
<1>2. CASE /\ Len(commits) + faults < MaxCommits
           /\ commits' = Append(commits,
                NewCommit(Exported(m), head[m], 0,
                          IF landing[m] = "missing" THEN "lossy" ELSE "export"))
           /\ head' = [head EXCEPT ![m] = Len(commits) + 1]
  <2> DEFINE kind == IF landing[m] = "missing" THEN "lossy" ELSE "export"
  <2>1. kind \in {"export", "lossy", "merge", "rebase"} /\ 0 \in 0 .. Len(commits)
        /\ head[m] \in 0 .. Len(commits) /\ commits \in Seq(Commit)
    BY Numbers
  <2>2. commits' = Append(commits, NewCommit(Exported(m), head[m], 0, kind))
    BY <1>2
  <2>3. landing[m] = "missing" => kind = "lossy"
    OBVIOUS
  <2> HIDE DEF kind
  <2>4. /\ Added(commits, commits', head[m], 0) /\ Len(commits') = Len(commits) + 1
        /\ commits'[Len(commits')].snap = Exported(m)
        /\ commits'[Len(commits')].kind = kind
        /\ commits'[Len(commits')].snap.rows \in Rows
    BY <1>2, <2>1, <2>2, ExportedGood, NewIsAdded
  <2>5. head' = [head EXCEPT ![m] = Len(commits')]
    BY <1>2, <2>4
  <2>6. Line(commits', head', origin, remote)
    BY <2>4, <2>5, ExportLine DEF TipInv
  <2>7. \/ commits'[Len(commits')].kind \in {"rebase", "lossy"}
        \/ head[m] # 0 => Covers(commits'[Len(commits')].snap.rows, commits[head[m]].snap.rows)
    <3>1. landing[m] \in {"imported", "missing"}
      BY StateTypes DEF StageAndCommit, LandingType, Landing
    <3>2. CASE landing[m] = "missing"
      BY <2>3, <2>4, <3>2
    <3>3. CASE landing[m] = "imported"
      BY <2>4, <3>3, ExportedGood DEF IndInv, ImportedIsHeld, Snap
    <3> QED
      BY <3>1, <3>2, <3>3
  <2>8. Ancestry(commits) /\ RowsKept(commits)
    BY DEF TipInv, Line, Pointers
  <2>9. RowsKept(commits')
    BY <2>1, <2>4, <2>7, <2>8, SnapshotRows, ExportRows
  <2> QED
    BY <2>6, <2>9
<1> QED
  BY <1>1, <1>2 DEF StageAndCommit

(* A fetch, successful or not. *)
LEMMA FetchedLine ==
  ASSUME NEW made, NEW at, Line(made, at, origin, remote), NEW m \in Machine, Fetch(m)
  PROVE  Line(made, at, origin', remote)
<1>1. CASE origin' = [origin EXCEPT ![m] = remote]
  BY <1>1, FetchLine
<1>2. CASE UNCHANGED origin
  BY <1>2
<1> QED
  BY <1>1, <1>2 DEF Fetch

(* A sync or a forced push, up to the push. *)
LEMMA SyncLine ==
  ASSUME IndInv, TipInv, NEW m \in Machine, Sync(m) \/ BackupForcePush(m)
  PROVE  TipInv'
<1>1. /\ StageAndCommit(m) /\ UNCHANGED <<db, clock, remote>>
      /\ Fetch(m) \/ UNCHANGED origin
  BY DEF Sync, BackupForcePush
<1>2. Line(commits', head', origin, remote) /\ RowsKept(commits')
  BY <1>1, StageLine
<1>3. Line(commits', head', origin', remote)
  BY <1>1, <1>2, FetchedLine
<1> QED
  BY <1>1, <1>2, <1>3 DEF TipInv

(* Both pushes. *)
LEMMA PushedLine ==
  ASSUME IndInv, TipInv, NEW m \in Machine, Pushed(m)
  PROVE  TipInv'
<1>1. /\ remote' = head[m] /\ origin' = [origin EXCEPT ![m] = head[m]]
      /\ UNCHANGED <<commits, head>>
  BY DEF Pushed
<1>2. Line(commits, head, origin', head[m])
  BY <1>1, PushLine DEF TipInv
<1> QED
  BY <1>1, <1>2 DEF TipInv

(* What fails may have fetched. *)
LEMMA FailLine ==
  ASSUME IndInv, TipInv, NEW m \in Machine, PushFails(m) \/ PullFails(m)
  PROVE  TipInv'
<1>1. UNCHANGED <<commits, head, remote>> /\ (Fetch(m) \/ UNCHANGED origin)
  BY DEF PushFails, PullFails
<1>2. Line(commits, head, origin', remote)
  BY <1>1, FetchedLine DEF TipInv
<1> QED
  BY <1>1, <1>2 DEF TipInv

(* The branch is moved to the tip of the remote. *)
LEMMA PullLine ==
  ASSUME IndInv, TipInv, NEW m \in Machine, Pull(m) \/ ResetHardToRemote(m)
  PROVE  TipInv'
<1>1. /\ origin' = [origin EXCEPT ![m] = remote] /\ head' = [head EXCEPT ![m] = remote]
      /\ UNCHANGED <<commits, remote>>
  BY DEF Pull, ResetHardToRemote, Land
<1>2. Line(commits, head', origin', remote)
  BY <1>1, ResetLine DEF TipInv
<1> QED
  BY <1>1, <1>2 DEF TipInv

(* A merge takes the other snapshot; or, when that has not changed since the
   base, the own. *)
LEMMA MergedSource ==
  ASSUME NEW h, NEW o
  PROVE  \/ Merged(h, o).rows = Snap(o).rows
         \/ \E b \in MergeBases(h, o) : /\ Merged(h, o).rows = Snap(h).rows
                                        /\ Snap(o).rows = Snap(b).rows
<1>1. CASE MergeBases(h, o) = {}
  BY <1>1 DEF Merged
<1>2. CASE MergeBases(h, o) # {}
  <2> DEFINE b == CHOOSE c \in MergeBases(h, o) : TRUE
             f == MergeFile(Database(Snap(b)), Database(Snap(h)), Database(Snap(o)))
  <2>1. b \in MergeBases(h, o)
    BY <1>2
  <2>2. Merged(h, o).rows = f.rows
    BY <1>2 DEF Merged, MergeSnap
  <2>3. \/ f = Database(Snap(o))
        \/ f = Database(Snap(h)) /\ Database(Snap(o)) = Database(Snap(b))
    BY DEF MergeFile
  <2> HIDE DEF b, f
  <2>4. \A s : Database(s).rows = s.rows
    BY DEF Database
  <2> QED
    BY <2>1, <2>2, <2>3, <2>4
<1> QED
  BY <1>1, <1>2

(* A merge keeps every row of the tip it takes in: the base is a commit whose
   rows neither branch has lost without saying so. *)
LEMMA MergedKeeps ==
  ASSUME IndInv, RowsKept(commits), NEW known, Line(commits, head, known, remote),
         NEW m \in Machine, head[m] # 0, known[m] # 0,
         known[m] \notin PastOf(commits, head[m])
  PROVE  \/ Covers(Merged(head[m], known[m]).rows, Snap(known[m]).rows)
         \/ \E k \in PastOf(commits, head[m]) :
              /\ k \notin PastOf(commits, known[m])
              /\ commits[k].kind \in {"rebase", "lossy"}
<1> DEFINE h == head[m]
           o == known[m]
<1>0. /\ commits \in Seq(Commit) /\ Ancestry(commits) /\ Len(commits) \in Nat
      /\ h \in 0 .. Len(commits) /\ o \in 0 .. Len(commits)
      /\ h \in 1 .. Len(commits) /\ o \in 1 .. Len(commits)
      /\ Whole(commits, o)
      /\ PastOf(commits, h) \subseteq 1 .. Len(commits)
      /\ \A k \in 1 .. Len(commits) : k \in 0 .. Len(commits)
  <2>1. /\ commits \in Seq(Commit) /\ Ancestry(commits) /\ Len(commits) \in Nat
        /\ h \in 0 .. Len(commits) /\ o \in 0 .. Len(commits) /\ Whole(commits, o)
    BY LineParts
  <2> QED
    BY <2>1, AncestorIsSubset
<1>1. PICK base \in 0 .. Len(commits) :
        PastOf(commits, h) \cap PastOf(commits, o) = PastOf(commits, base)
  BY OneBase
<1>2. Snap(h).rows \in Rows /\ Snap(o).rows \in Rows
  BY <1>0, SnapshotRows DEF Snap
<1>3. Snap(h) = commits[h].snap /\ h \in PastOf(commits, h)
  BY <1>0 DEF Snap, Ancestry
<1> HIDE DEF h, o
<1>4. CASE Merged(h, o).rows = Snap(o).rows
  BY <1>2, <1>4, CoversItself DEF h, o
<1>5. ASSUME NEW b \in MergeBases(h, o), Merged(h, o).rows = Snap(h).rows,
             Snap(o).rows = Snap(b).rows
      PROVE  \/ Covers(Merged(h, o).rows, Snap(o).rows)
             \/ \E k \in PastOf(commits, h) :
                  /\ k \notin PastOf(commits, o)
                  /\ commits[k].kind \in {"rebase", "lossy"}
  <2>1. /\ b \in PastOf(commits, h) /\ b \in PastOf(commits, o)
        /\ \A d \in PastOf(commits, h) \cap PastOf(commits, o) :
             b \in PastOf(commits, d) => d = b
    BY DEF MergeBases, Past
  <2>2. KeepsRows(commits, b, h)
    BY <1>0, <2>1 DEF RowsKept
  <2>3. ~ Lost(commits, b, h)
    <3> SUFFICES ASSUME NEW k \in PastOf(commits, h), b \in Dropped(commits, k)
                 PROVE  FALSE
      BY DEF Lost
    <3>1. k \in 1 .. Len(commits) /\ k \in Nat
      BY <1>0
    <3>2. k \in PastOf(commits, o)
      BY <1>0, <2>1, <3>1 DEF Whole
    <3>3. /\ commits[k].ours \in 0 .. Len(commits) /\ commits[k].ours < k
          /\ PastOf(commits, commits[k].ours) \subseteq PastOf(commits, k)
      BY <1>0, <3>1 DEF Ancestry
    <3>4. b \in PastOf(commits, commits[k].ours)
      BY DEF Dropped
    <3>5. b \in PastOf(commits, k) /\ b # k
      <4>1. CASE commits[k].ours = 0
        BY <3>4, <4>1 DEF PastOf
      <4>2. CASE commits[k].ours # 0
        <5>1. commits[k].ours \in 1 .. Len(commits)
          BY <3>3, <4>2, <1>0
        <5>2. PastOf(commits, commits[k].ours) \subseteq 1 .. commits[k].ours
          BY <1>0, <5>1 DEF Ancestry
        <5> QED
          BY <3>1, <3>3, <3>4, <5>2, <5>1
      <4> QED
        BY <4>1, <4>2
    <3> QED
      BY <2>1, <3>2, <3>5
  <2>4. CASE Excused(commits, b, h)
    <3>1. PICK k \in PastOf(commits, h) :
            k \notin PastOf(commits, b) /\ commits[k].kind \in {"rebase", "lossy"}
      BY <2>4 DEF Excused
    <3>2. base # 0 /\ base \in 1 .. Len(commits)
      BY <1>0, <1>1, <2>1 DEF PastOf
    <3>3. base \in PastOf(commits, base)
      BY <1>0, <3>2 DEF Ancestry
    <3>4. base = b
      BY <1>1, <2>1, <3>3
    <3> QED
      BY <1>1, <3>1, <3>4
  <2>5. CASE Covers(commits[h].snap.rows, commits[b].snap.rows)
    BY <1>3, <1>5, <2>5 DEF Snap
  <2> QED
    BY <2>2, <2>3, <2>4, <2>5 DEF KeepsRows
<1> QED
  BY <1>4, <1>5, MergedSource DEF h, o

(* A merge: nothing to do, a fast-forward, or a new commit. *)
LEMMA MergeLine ==
  ASSUME IndInv, TipInv, NEW m \in Machine, MergeFromRemote(m)
  PROVE  TipInv'
<1> DEFINE h == head[m]
           o == origin'[m]
<1>1. /\ Fetch(m) /\ h # 0 /\ o # 0 /\ UNCHANGED <<remote, clock>>
      /\ \/ Land(m, h, "joined") /\ UNCHANGED commits
         \/ o \notin Past(h) /\ Land(m, o, "joined") /\ UNCHANGED commits
         \/ /\ o \notin Past(h)
            /\ Len(commits) + faults < MaxCommits
            /\ commits' = Append(commits, NewCommit(Merged(h, o), h, o, "merge"))
            /\ Land(m, Len(commits) + 1, "joined")
  BY DEF MergeFromRemote, Land
<1>2. Line(commits, head, origin', remote) /\ RowsKept(commits)
  BY <1>1, FetchedLine DEF TipInv
<1>3. /\ h \in 0 .. Len(commits) /\ o \in 0 .. Len(commits) /\ commits \in Seq(Commit)
      /\ h \in 1 .. Len(commits) /\ o \in 1 .. Len(commits) /\ Ancestry(commits)
  BY <1>1, <1>2, LineParts, FetchedBranch, HeadSnapshot
<1>4. head' = [head EXCEPT ![m] = head'[m]] /\ Past(h) = PastOf(commits, h)
  BY <1>1, Numbers DEF Land, Past
<1> HIDE DEF o
<1>5. CASE Land(m, h, "joined") /\ UNCHANGED commits
  <2>1. UNCHANGED head
    BY <1>5, Numbers DEF Land
  <2> QED
    BY <1>1, <1>2, <1>5, <2>1 DEF TipInv
<1>6. CASE o \notin Past(h) /\ Land(m, o, "joined") /\ UNCHANGED commits
  <2>1. head' = [head EXCEPT ![m] = origin'[m]]
    BY <1>6 DEF Land, o
  <2>2. Line(commits, head', origin', remote)
    BY <1>1, <1>2, <1>4, <1>6, <2>1, LandLine DEF o
  <2> QED
    BY <1>1, <1>2, <1>6, <2>2 DEF TipInv
<1>7. CASE /\ o \notin Past(h)
           /\ Len(commits) + faults < MaxCommits
           /\ commits' = Append(commits, NewCommit(Merged(h, o), h, o, "merge"))
           /\ Land(m, Len(commits) + 1, "joined")
  <2>1. /\ Added(commits, commits', h, o) /\ Len(commits') = Len(commits) + 1
        /\ commits'[Len(commits')].snap = Merged(h, o)
        /\ commits'[Len(commits')].snap.rows \in Rows
    BY <1>1, <1>3, <1>7, MergedGood, NewIsAdded
  <2>2. head' = [head EXCEPT ![m] = Len(commits')]
    BY <1>7, <2>1 DEF Land
  <2>3. Line(commits', head', origin', remote)
    BY <1>1, <1>2, <1>4, <1>7, <2>1, <2>2, JoinLine DEF o
  <2>4. \/ Covers(Merged(h, o).rows, Snap(o).rows)
        \/ \E k \in PastOf(commits, h) :
             /\ k \notin PastOf(commits, o)
             /\ commits[k].kind \in {"rebase", "lossy"}
    BY <1>1, <1>2, <1>4, <1>7, MergedKeeps DEF o
  <2>5. RowsKept(commits')
    BY <1>2, <1>3, <2>1, <2>4, SnapshotRows, MergeRows DEF Snap
  <2> QED
    BY <1>1, <2>3, <2>5 DEF TipInv
<1> QED
  BY <1>1, <1>5, <1>6, <1>7

(* A rebase: nothing to do, a fast-forward, or a new commit on top of the tip. *)
LEMMA RebaseLine ==
  ASSUME IndInv, TipInv, NEW m \in Machine, RebaseOntoRemote(m)
  PROVE  TipInv'
<1> DEFINE h == head[m]
           o == origin'[m]
<1>1. /\ Fetch(m) /\ h # 0 /\ o # 0 /\ UNCHANGED <<remote, clock>>
      /\ \/ Land(m, h, "joined") /\ UNCHANGED commits
         \/ o \notin Past(h) /\ Land(m, o, "joined") /\ UNCHANGED commits
         \/ /\ o \notin Past(h)
            /\ Len(commits) + faults < MaxCommits
            /\ commits' = Append(commits, NewCommit(Rebased(h, o), o, 0, "rebase"))
            /\ Land(m, Len(commits) + 1, "joined")
  BY DEF RebaseOntoRemote, Land
<1>2. Line(commits, head, origin', remote) /\ RowsKept(commits)
  BY <1>1, FetchedLine DEF TipInv
<1>3. /\ 0 \in 0 .. Len(commits) /\ o \in 0 .. Len(commits) /\ commits \in Seq(Commit)
      /\ h \in 1 .. Len(commits) /\ o \in 1 .. Len(commits) /\ Ancestry(commits)
  BY <1>1, <1>2, LineParts, FetchedBranch, HeadSnapshot
<1>4. Past(h) = PastOf(commits, h)
  BY DEF Past
<1> HIDE DEF o
<1>5. CASE Land(m, h, "joined") /\ UNCHANGED commits
  <2>1. UNCHANGED head
    BY <1>5, Numbers DEF Land
  <2> QED
    BY <1>1, <1>2, <1>5, <2>1 DEF TipInv
<1>6. CASE o \notin Past(h) /\ Land(m, o, "joined") /\ UNCHANGED commits
  <2>1. head' = [head EXCEPT ![m] = origin'[m]]
    BY <1>6 DEF Land, o
  <2>2. Line(commits, head', origin', remote)
    BY <1>1, <1>2, <1>4, <1>6, <2>1, LandLine DEF o
  <2> QED
    BY <1>1, <1>2, <1>6, <2>2 DEF TipInv
<1>7. CASE /\ o \notin Past(h)
           /\ Len(commits) + faults < MaxCommits
           /\ commits' = Append(commits, NewCommit(Rebased(h, o), o, 0, "rebase"))
           /\ Land(m, Len(commits) + 1, "joined")
  <2>1. /\ Added(commits, commits', o, 0) /\ Len(commits') = Len(commits) + 1
        /\ commits'[Len(commits')].kind = "rebase"
        /\ commits'[Len(commits')].snap.rows \in Rows
    BY <1>1, <1>3, <1>7, RebasedGood, NewIsAdded
  <2>2. head' = [head EXCEPT ![m] = Len(commits')]
    BY <1>7, <2>1 DEF Land
  <2>3. Line(commits', head', origin', remote)
    BY <1>1, <1>2, <1>4, <1>7, <2>1, <2>2, JoinLine DEF o
  <2>4. RowsKept(commits')
    BY <1>2, <1>3, <2>1, SnapshotRows, ExportRows
  <2> QED
    BY <1>1, <2>3, <2>4 DEF TipInv
<1> QED
  BY <1>1, <1>5, <1>6, <1>7

(* Every step keeps the invariant of two machines. *)
LEMMA NextLine == IndInv /\ TipInv /\ [Next]_vars => TipInv'
<1> SUFFICES ASSUME IndInv, TipInv, [Next]_vars
             PROVE  TipInv'
  OBVIOUS
<1>1. CASE UNCHANGED repository
  BY <1>1 DEF repository, TipInv
<1>2. CASE Next /\ ~ UNCHANGED repository
  <2>1. PICK m \in Machine :
    \/ Sync(m) \/ BackupForcePush(m) \/ Push(m) \/ ForcePush(m)
    \/ PushFails(m) \/ Pull(m) \/ PullFails(m)
    \/ MergeFromRemote(m) \/ RebaseOntoRemote(m) \/ ResetHardToRemote(m)
    BY <1>2 DEF Next, Write, ProbeRow, WriteRow, WriteDropped, ExportRefused, ForceHead,
       ImportState, ImportFails, RestoreBackupState, Restart
  <2> QED
    BY <2>1, SyncLine, PushedLine, FailLine, PullLine, MergeLine, RebaseLine
    DEF Push, ForcePush
<1> QED
  BY <1>1, <1>2 DEF vars

(* Without commits there is nothing to lose. *)
LEMMA InitLine ==
  ASSUME Init, NEW a \in Machine, NEW b \in Machine, a # b, Machine = {a, b}
  PROVE  TipInv
<1>1. /\ commits = <<>> /\ Len(commits) = 0 /\ remote = 0
      /\ \A m \in Machine : head[m] = 0 /\ origin[m] = 0
      /\ head \in [Machine -> 0 .. 0] /\ origin \in [Machine -> 0 .. 0]
  BY DEF Init
<1>2. PastOf(commits, 0) = {}
  BY DEF PastOf
<1>3. Pointers(commits, head, origin, remote)
  BY <1>1 DEF Pointers, Ancestry
<1>4. \E c \in 0 .. Len(commits) : Shared(commits, head, a, b) = PastOf(commits, c)
  BY <1>1, <1>2 DEF Shared
<1>5. Apart(commits, head, origin, remote, a, b)
  BY <1>1, <1>2, <1>4 DEF Apart, Shared
<1>6. Whole(commits, 0)
  BY <1>2 DEF Whole
<1>7. RowsKept(commits)
  BY <1>1 DEF RowsKept
<1> QED
  BY <1>1, <1>3, <1>5, <1>6, <1>7 DEF TipInv, Line

(* Nothing but a push moves the branch of the remote. *)
LEMMA OnlyPushesMove ==
  ASSUME [Next]_vars, remote' # remote
  PROVE  \E m \in Machine : Push(m) \/ ForcePush(m)
<1>1. Next /\ ~ UNCHANGED repository
  BY DEF vars, repository
<1>2. PICK m \in Machine :
  \/ Sync(m) \/ BackupForcePush(m) \/ Push(m) \/ ForcePush(m)
  \/ PushFails(m) \/ Pull(m) \/ PullFails(m)
  \/ MergeFromRemote(m) \/ RebaseOntoRemote(m) \/ ResetHardToRemote(m)
  BY <1>1 DEF Next, Write, ProbeRow, WriteRow, WriteDropped, ExportRefused, ForceHead,
     ImportState, ImportFails, RestoreBackupState, Restart
<1>3. Push(m) \/ ForcePush(m)
  BY <1>2 DEF Sync, BackupForcePush, PushFails, Pull, PullFails, MergeFromRemote,
     RebaseOntoRemote, ResetHardToRemote, Land
<1> QED
  BY <1>3

(* Between two machines, with forced pushes or without, a push that is not
   forced leaves the remote's snapshot with every row at least as new, or
   publishes a rebase or an export over missing rows (Push after Sync,
   MergeFromRemote and RebaseOntoRemote of repo.go).  The pushed branch contains
   the remote's tip, which is a commit no merge on the way can have dropped: a
   merge that did is in every history that has the tip, hence older than it. *)
THEOREM TipsOfTwoKeepRows ==
  ASSUME \E a, b \in Machine : a # b /\ Machine = {a, b}
  PROVE  Spec => TipKeepsRows
<1>1. PICK a \in Machine, b \in Machine : a # b /\ Machine = {a, b}
  OBVIOUS
<1>2. Init => TipInv
  BY <1>1, InitLine
<1>3. ASSUME IndInv, TipInv, [Next]_vars, remote # 0, remote' # remote, ~Forced
      PROVE  \/ Covers(Snap(remote').rows, Snap(remote).rows)
             \/ \E c \in Past(remote') \ Past(remote) :
                  commits[c].kind \in {"rebase", "lossy"}
  <2>1. PICK m \in Machine : Push(m) \/ ForcePush(m)
    BY <1>3, OnlyPushesMove
  <2>2. step'[m] = "idle" /\ remote' = head[m] /\ UNCHANGED commits
    BY <1>3, <2>1, StateTypes DEF Push, ForcePush, Pushed, StepType
  <2>3. Push(m)
    BY <1>3, <2>1, <2>2 DEF ForcePush, Forced
  <2>4. remote \in PastOf(commits, head[m])
    BY <1>3, <2>3 DEF Push, Past
  <2>5. /\ commits \in Seq(Commit) /\ Ancestry(commits) /\ Len(commits) \in Nat
        /\ head[m] \in 0 .. Len(commits) /\ remote \in 0 .. Len(commits)
        /\ remote \in 1 .. Len(commits)
        /\ Whole(commits, remote) /\ Whole(commits, head[m])
    BY <1>3, LineParts DEF TipInv
  <2>6. head[m] \in 1 .. Len(commits)
    BY <2>4, <2>5 DEF PastOf
  <2>7. KeepsRows(commits, remote, head[m])
    BY <1>3, <2>4, <2>6 DEF TipInv, RowsKept
  <2>8. ~ Lost(commits, remote, head[m])
    <3> SUFFICES ASSUME NEW k \in PastOf(commits, head[m]), remote \in Dropped(commits, k)
                 PROVE  FALSE
      BY DEF Lost
    <3>1. k \in 1 .. Len(commits) /\ k \in Nat
      BY <2>5, AncestorIsSubset
    <3>2. remote \in PastOf(commits, remote) /\ PastOf(commits, remote) \subseteq 1 .. remote
      BY <2>5 DEF Ancestry
    <3>3. k \in 1 .. remote
      BY <2>5, <3>1, <3>2 DEF Whole
    <3>4. /\ commits[k].ours \in 0 .. Len(commits) /\ commits[k].ours < k
      BY <2>5, <3>1 DEF Ancestry
    <3>5. remote \in PastOf(commits, commits[k].ours)
      BY DEF Dropped
    <3>6. remote \in 1 .. commits[k].ours
      <4>1. CASE commits[k].ours = 0
        BY <3>5, <4>1 DEF PastOf
      <4>2. CASE commits[k].ours # 0
        <5>1. commits[k].ours \in 1 .. Len(commits)
          BY <2>5, <3>4, <4>2
        <5> QED
          BY <2>5, <3>5, <5>1 DEF Ancestry
      <4> QED
        BY <4>1, <4>2
    <3> QED
      BY <2>5, <3>1, <3>3, <3>4, <3>6
  <2> QED
    BY <2>2, <2>7, <2>8 DEF KeepsRows, Excused, Snap, Past
<1> QED
  BY <1>2, <1>3, InitInv, NextKeeps, NextLine, PTL DEF Spec, TipKeepsRows

-----------------------------------------------------------------------------
(* Any number of machines, none of which forces a push: the remote's branch
   only grows, so what a machine has of it is the history of one commit of it,
   whose rows the machine's branch still has, and what two machines share is
   on the remote. *)
Kept(made, c, d) ==
  Excused(made, c, d) \/ Covers(made[d].snap.rows, made[c].snap.rows)

Follows(made, at, known, tip, m) == \E c \in 0 .. Len(made) :
  /\ PastOf(made, c) \subseteq PastOf(made, known[m])
  /\ PastOf(made, at[m]) \cap PastOf(made, tip) = PastOf(made, c)
  /\ c # 0 => Kept(made, c, at[m])

Trail(made, at, known, tip) ==
  /\ Pointers(made, at, known, tip)
  /\ \A m \in Machine : PastOf(made, known[m]) \subseteq PastOf(made, tip)
  /\ \A m, n \in Machine : m # n => Shared(made, at, m, n) \subseteq PastOf(made, tip)
  /\ \A m \in Machine : Follows(made, at, known, tip, m)

TrailInv == Trail(commits, head, origin, remote)

(* The machine learns the tip. *)
LEMMA FetchTrail ==
  ASSUME NEW made, NEW at, NEW known, NEW tip, Trail(made, at, known, tip),
         NEW m \in Machine, NEW now, now = [known EXCEPT ![m] = tip]
  PROVE  Trail(made, at, now, tip)
<1>1. /\ Pointers(made, at, now, tip) /\ \A n \in Machine : now[n] = IF n = m THEN tip ELSE known[n]
  BY DEF Trail, Pointers
<1>2. \A n \in Machine : PastOf(made, known[n]) \subseteq PastOf(made, now[n])
  BY <1>1 DEF Trail
<1>3. \A n \in Machine : Follows(made, at, now, tip, n)
  BY <1>2 DEF Trail, Follows
<1> QED
  BY <1>1, <1>3 DEF Trail

(* The machine publishes a branch that contains the tip. *)
LEMMA PushTrail ==
  ASSUME NEW made, NEW at, NEW known, NEW tip, Trail(made, at, known, tip),
         NEW m \in Machine, PastOf(made, tip) \subseteq PastOf(made, at[m]),
         \A c \in 1 .. Len(made) : made[c].snap.rows \in Rows,
         NEW now, now = [known EXCEPT ![m] = at[m]]
  PROVE  Trail(made, at, now, at[m])
<1>1. /\ Pointers(made, at, now, at[m])
      /\ \A n \in Machine : now[n] = IF n = m THEN at[m] ELSE known[n]
  BY DEF Trail, Pointers
<1>2. \A n \in Machine : PastOf(made, now[n]) \subseteq PastOf(made, at[m])
  BY <1>1 DEF Trail
<1>3. \A p, n \in Machine : p # n => Shared(made, at, p, n) \subseteq PastOf(made, at[m])
  BY DEF Trail
<1>4. Follows(made, at, now, at[m], m)
  <2>1. at[m] \in 0 .. Len(made) /\ Len(made) \in Nat
    BY <1>1 DEF Pointers
  <2>2. at[m] # 0 => Kept(made, at[m], at[m])
    BY <2>1, CoversItself DEF Kept
  <2> QED
    BY <1>1, <2>1, <2>2 DEF Follows
<1>5. ASSUME NEW n \in Machine, n # m
      PROVE  Follows(made, at, now, at[m], n)
  <2>1. Shared(made, at, n, m) \subseteq PastOf(made, tip)
    BY <1>5 DEF Trail
  <2>2. PastOf(made, at[n]) \cap PastOf(made, at[m]) = PastOf(made, at[n]) \cap PastOf(made, tip)
    BY <2>1 DEF Shared
  <2> QED
    BY <1>1, <1>5, <2>2 DEF Trail, Follows
<1> QED
  BY <1>1, <1>2, <1>3, <1>4, <1>5 DEF Trail

(* The branch is moved to what the machine knows of the remote. *)
LEMMA LandTrail ==
  ASSUME NEW made, NEW at, NEW known, NEW tip, Trail(made, at, known, tip),
         \A c \in 1 .. Len(made) : made[c].snap.rows \in Rows,
         NEW m \in Machine, NEW now, now = [at EXCEPT ![m] = known[m]]
  PROVE  Trail(made, now, known, tip)
<1>1. /\ Pointers(made, now, known, tip)
      /\ \A n \in Machine : now[n] = IF n = m THEN known[m] ELSE at[n]
      /\ known[m] \in 0 .. Len(made) /\ Len(made) \in Nat
  BY DEF Trail, Pointers
<1>2. \A p, n \in Machine : p # n => Shared(made, now, p, n) \subseteq PastOf(made, tip)
  BY <1>1 DEF Trail, Shared
<1>3. PastOf(made, known[m]) \subseteq PastOf(made, tip)
  BY DEF Trail
<1>4. known[m] # 0 => Kept(made, known[m], known[m])
  BY <1>1, CoversItself DEF Kept
<1>5. Follows(made, now, known, tip, m)
  BY <1>1, <1>3, <1>4 DEF Follows
<1>6. \A n \in Machine : n # m => Follows(made, now, known, tip, n)
  BY <1>1 DEF Trail, Follows
<1> QED
  BY <1>1, <1>2, <1>5, <1>6 DEF Trail

(* The machine commits on top of its branch, of the remote's, or of both: c is
   what the new commit has of the remote's branch. *)
LEMMA AddedTrail ==
  ASSUME NEW made, NEW at, NEW known, NEW tip, Trail(made, at, known, tip),
         NEW m \in Machine, NEW more,
         NEW ours \in 0 .. Len(made), NEW theirs \in 0 .. Len(made),
         Added(made, more, ours, theirs),
         PastOf(made, ours) \cup PastOf(made, theirs)
           \subseteq PastOf(made, at[m]) \cup PastOf(made, tip),
         NEW c \in 0 .. Len(made), PastOf(made, c) \subseteq PastOf(made, known[m]),
         (PastOf(made, ours) \cup PastOf(made, theirs)) \cap PastOf(made, tip) = PastOf(made, c),
         c # 0 => Kept(more, c, Len(more)),
         NEW now, now = [at EXCEPT ![m] = Len(more)]
  PROVE  Trail(more, now, known, tip)
<1> DEFINE d == Len(more)
<1>0. /\ made \in Seq(Commit) /\ Ancestry(made) /\ Len(made) \in Nat
      /\ at \in [Machine -> 0 .. Len(made)] /\ known \in [Machine -> 0 .. Len(made)]
      /\ tip \in 0 .. Len(made)
  BY DEF Trail, Pointers
<1>1. /\ Ancestry(more) /\ d \in Nat /\ d # 0
      /\ \A b \in 0 .. Len(made) : /\ b \in 0 .. d /\ PastOf(more, b) = PastOf(made, b)
                                   /\ d \notin PastOf(made, b)
      /\ PastOf(more, d) = PastOf(made, ours) \cup PastOf(made, theirs) \cup {d}
  BY <1>0, AddedFacts
<1>2. more \in Seq(Commit) /\ \A k \in 1 .. Len(made) : more[k] = made[k]
  BY DEF Added
<1> HIDE DEF d
<1>3. /\ now \in [Machine -> 0 .. d] /\ known \in [Machine -> 0 .. d] /\ tip \in 0 .. d
      /\ \A n \in Machine : now[n] = IF n = m THEN d ELSE at[n]
  <2>1. d \in 0 .. d /\ \A n \in Machine : at[n] \in 0 .. d /\ known[n] \in 0 .. d
    BY <1>0, <1>1
  <2> QED
    BY <1>0, <1>1, <2>1 DEF d
<1>4. Pointers(more, now, known, tip)
  BY <1>1, <1>2, <1>3 DEF Pointers, d
<1>5. /\ PastOf(more, tip) = PastOf(made, tip) /\ PastOf(more, c) = PastOf(made, c)
      /\ \A n \in Machine : /\ PastOf(more, at[n]) = PastOf(made, at[n])
                            /\ PastOf(more, known[n]) = PastOf(made, known[n])
                            /\ d \notin PastOf(made, at[n])
      /\ d \notin PastOf(made, tip)
  BY <1>0, <1>1
<1>6. \A n \in Machine : PastOf(more, known[n]) \subseteq PastOf(more, tip)
  BY <1>5 DEF Trail
<1>7. ASSUME NEW n \in Machine, n # m
      PROVE  /\ Shared(more, now, n, m) \subseteq PastOf(more, tip)
             /\ Shared(more, now, m, n) \subseteq PastOf(more, tip)
  <2>1. PastOf(made, at[m]) \cap PastOf(made, at[n]) \subseteq PastOf(made, tip)
    BY <1>7 DEF Trail, Shared
  <2>2. PastOf(more, d) \cap PastOf(made, at[n]) \subseteq PastOf(made, tip)
    BY <1>1, <1>5, <2>1
  <2> QED
    BY <1>3, <1>5, <1>7, <2>2 DEF Shared
<1>8. ASSUME NEW p \in Machine, NEW n \in Machine, p # n, p # m, n # m
      PROVE  Shared(more, now, p, n) \subseteq PastOf(more, tip)
  BY <1>3, <1>5, <1>8 DEF Trail, Shared
<1>9. Follows(more, now, known, tip, m)
  <2>1. PastOf(more, d) \cap PastOf(more, tip) = PastOf(more, c)
    BY <1>1, <1>5
  <2> QED
    BY <1>1, <1>3, <1>5, <2>1 DEF Follows, d
<1>10. ASSUME NEW n \in Machine, n # m
       PROVE  Follows(more, now, known, tip, n)
  <2>1. PICK b \in 0 .. Len(made) :
          /\ PastOf(made, b) \subseteq PastOf(made, known[n])
          /\ PastOf(made, at[n]) \cap PastOf(made, tip) = PastOf(made, b)
          /\ b # 0 => Kept(made, b, at[n])
    BY DEF Trail, Follows
  <2>2. b \in 0 .. d /\ PastOf(more, b) = PastOf(made, b)
    BY <1>1
  <2>3. ASSUME b # 0
        PROVE  Kept(more, b, at[n])
    <3>1. b \in 1 .. Len(made) /\ b \in PastOf(made, b)
      BY <1>0, <2>3 DEF Ancestry
    <3>2. at[n] # 0 /\ at[n] \in 1 .. Len(made)
      BY <1>0, <2>1, <3>1 DEF PastOf
    <3>3. PastOf(made, at[n]) \subseteq 1 .. Len(made)
      BY <1>0, AncestorIsSubset
    <3>4. Excused(made, b, at[n]) => Excused(more, b, at[n])
      BY <1>2, <1>5, <2>2, <3>3 DEF Excused
    <3> QED
      BY <1>2, <2>1, <2>3, <3>1, <3>2, <3>4 DEF Kept
  <2> QED
    BY <1>3, <1>5, <1>10, <2>1, <2>2, <2>3 DEF Follows, d
<1> QED
  BY <1>4, <1>6, <1>7, <1>8, <1>9, <1>10 DEF Trail

(* An export on top of a branch keeps what the branch has, or says that it is
   lossy. *)
LEMMA KeptOnTop ==
  ASSUME NEW made \in Seq(Commit), Ancestry(made), NEW more,
         NEW ours \in 1 .. Len(made), Added(made, more, ours, 0),
         NEW c \in PastOf(made, ours), Kept(made, c, ours),
         more[Len(more)].snap.rows \in Rows,
         \A k \in 1 .. Len(made) : made[k].snap.rows \in Rows,
         \/ more[Len(more)].kind \in {"rebase", "lossy"}
         \/ Covers(more[Len(more)].snap.rows, made[ours].snap.rows)
  PROVE  Kept(more, c, Len(more))
<1> DEFINE n == Len(more)
<1>1. /\ ours \in 0 .. Len(made) /\ 0 \in 0 .. Len(made)
      /\ PastOf(made, ours) \subseteq 1 .. Len(made)
      /\ \A k \in 1 .. Len(made) : k \in 0 .. Len(made)
  BY AncestorIsSubset
<1>2. /\ \A b \in 0 .. Len(made) : PastOf(more, b) = PastOf(made, b) /\ n \notin PastOf(made, b)
      /\ PastOf(more, n) = PastOf(made, ours) \cup PastOf(made, 0) \cup {n}
  BY <1>1, AddedFacts
<1>3. /\ \A k \in 1 .. Len(made) : more[k] = made[k]
      /\ c \in 1 .. Len(made) /\ c \in 0 .. Len(made)
  BY <1>1 DEF Added
<1>4. CASE more[n].kind \in {"rebase", "lossy"}
  BY <1>2, <1>3, <1>4 DEF Kept, Excused
<1>5. CASE Covers(more[n].snap.rows, made[ours].snap.rows)
  <2>1. CASE Excused(made, c, ours)
    <3>1. PICK k \in PastOf(made, ours) :
            k \notin PastOf(made, c) /\ made[k].kind \in {"rebase", "lossy"}
      BY <2>1 DEF Excused
    <3>2. k \in PastOf(more, n) /\ k \notin PastOf(more, c) /\ more[k] = made[k]
      BY <1>1, <1>2, <1>3, <3>1
    <3> QED
      BY <3>1, <3>2 DEF Kept, Excused
  <2>2. CASE Covers(made[ours].snap.rows, made[c].snap.rows)
    <3>1. Covers(more[n].snap.rows, made[c].snap.rows)
      BY <1>3, <1>5, <2>2, CoversChain
    <3> QED
      BY <1>3, <3>1 DEF Kept
  <2> QED
    BY <2>1, <2>2 DEF Kept
<1> QED
  BY <1>4, <1>5

(* stageAndCommit: nothing, or an export on top of the machine's branch. *)
LEMMA StageTrail ==
  ASSUME IndInv, TrailInv, NEW m \in Machine, StageAndCommit(m), UNCHANGED <<db, clock>>
  PROVE  Trail(commits', head', origin, remote)
<1>1. CASE UNCHANGED <<commits, head, landing>>
  BY <1>1 DEF TrailInv
<1>2. CASE /\ Len(commits) + faults < MaxCommits
           /\ commits' = Append(commits,
                NewCommit(Exported(m), head[m], 0,
                          IF landing[m] = "missing" THEN "lossy" ELSE "export"))
           /\ head' = [head EXCEPT ![m] = Len(commits) + 1]
  <2> DEFINE kind == IF landing[m] = "missing" THEN "lossy" ELSE "export"
  <2>1. kind \in {"export", "lossy", "merge", "rebase"} /\ 0 \in 0 .. Len(commits)
        /\ head[m] \in 0 .. Len(commits) /\ commits \in Seq(Commit) /\ Len(commits) \in Nat
        /\ Ancestry(commits)
    BY Numbers DEF TrailInv, Trail, Pointers
  <2>2. commits' = Append(commits, NewCommit(Exported(m), head[m], 0, kind))
    BY <1>2
  <2>3. landing[m] = "missing" => kind = "lossy"
    OBVIOUS
  <2> HIDE DEF kind
  <2>4. /\ Added(commits, commits', head[m], 0) /\ Len(commits') = Len(commits) + 1
        /\ commits'[Len(commits')].snap = Exported(m)
        /\ commits'[Len(commits')].kind = kind
        /\ commits'[Len(commits')].snap.rows \in Rows
    BY <1>2, <2>1, <2>2, ExportedGood, NewIsAdded
  <2>5. head' = [head EXCEPT ![m] = Len(commits')]
    BY <1>2, <2>4
  <2>6. \/ commits'[Len(commits')].kind \in {"rebase", "lossy"}
        \/ head[m] # 0 => Covers(commits'[Len(commits')].snap.rows, commits[head[m]].snap.rows)
    <3>1. landing[m] \in {"imported", "missing"}
      BY StateTypes DEF StageAndCommit, LandingType, Landing
    <3>2. CASE landing[m] = "missing"
      BY <2>3, <2>4, <3>2
    <3>3. CASE landing[m] = "imported"
      BY <2>4, <3>3, ExportedGood DEF IndInv, ImportedIsHeld, Snap
    <3> QED
      BY <3>1, <3>2, <3>3
  <2>7. PICK c \in 0 .. Len(commits) :
          /\ PastOf(commits, c) \subseteq PastOf(commits, origin[m])
          /\ PastOf(commits, head[m]) \cap PastOf(commits, remote) = PastOf(commits, c)
          /\ c # 0 => Kept(commits, c, head[m])
    BY DEF TrailInv, Trail, Follows
  <2>8. ASSUME c # 0
        PROVE  Kept(commits', c, Len(commits'))
    <3>1. c \in PastOf(commits, head[m])
      BY <2>1, <2>7, <2>8 DEF Ancestry
    <3>2. head[m] # 0 /\ head[m] \in 1 .. Len(commits)
      BY <2>1, <3>1 DEF PastOf
    <3> QED
      BY <2>1, <2>4, <2>6, <2>7, <2>8, <3>1, <3>2, SnapshotRows, KeptOnTop
  <2>9. PastOf(commits, 0) = {}
    BY DEF PastOf
  <2>10. /\ PastOf(commits, head[m]) \cup PastOf(commits, 0)
              \subseteq PastOf(commits, head[m]) \cup PastOf(commits, remote)
         /\ (PastOf(commits, head[m]) \cup PastOf(commits, 0)) \cap PastOf(commits, remote)
              = PastOf(commits, c)
    BY <2>7, <2>9
  <2>11. Trail(commits, head, origin, remote)
    BY DEF TrailInv
  <2> QED
    BY <2>1, <2>4, <2>5, <2>7, <2>8, <2>10, <2>11, AddedTrail
<1> QED
  BY <1>1, <1>2 DEF StageAndCommit

(* A fetch, successful or not. *)
LEMMA FetchedTrail ==
  ASSUME NEW made, NEW at, Trail(made, at, origin, remote), NEW m \in Machine, Fetch(m)
  PROVE  Trail(made, at, origin', remote)
<1>1. CASE origin' = [origin EXCEPT ![m] = remote]
  BY <1>1, FetchTrail
<1>2. CASE UNCHANGED origin
  BY <1>2
<1> QED
  BY <1>1, <1>2 DEF Fetch

(* A sync or a forced push, up to the push. *)
LEMMA SyncTrail ==
  ASSUME IndInv, TrailInv, NEW m \in Machine, Sync(m) \/ BackupForcePush(m)
  PROVE  TrailInv'
<1>1. /\ StageAndCommit(m) /\ UNCHANGED <<db, clock, remote>>
      /\ Fetch(m) \/ UNCHANGED origin
  BY DEF Sync, BackupForcePush
<1>2. Trail(commits', head', origin, remote)
  BY <1>1, StageTrail
<1>3. Trail(commits', head', origin', remote)
  BY <1>1, <1>2, FetchedTrail
<1> QED
  BY <1>1, <1>3 DEF TrailInv

(* A push that is not forced contains the tip. *)
LEMMA PushedTrail ==
  ASSUME IndInv, TrailInv, NEW m \in Machine, Push(m)
  PROVE  TrailInv'
<1>1. /\ remote' = head[m] /\ origin' = [origin EXCEPT ![m] = head[m]]
      /\ UNCHANGED <<commits, head>> /\ (remote = 0 \/ remote \in PastOf(commits, head[m]))
  BY DEF Push, Pushed, Past
<1>2. /\ commits \in Seq(Commit) /\ Ancestry(commits)
      /\ remote \in 0 .. Len(commits) /\ head[m] \in 0 .. Len(commits)
  BY DEF TrailInv, Trail, Pointers
<1>3. PastOf(commits, remote) \subseteq PastOf(commits, head[m])
  BY <1>1, <1>2, AncestorIsSubset DEF PastOf
<1>4. Trail(commits, head, origin', head[m])
  BY <1>1, <1>3, SnapshotRows, PushTrail DEF TrailInv
<1> QED
  BY <1>1, <1>4 DEF TrailInv

(* What fails may have fetched. *)
LEMMA FailTrail ==
  ASSUME IndInv, TrailInv, NEW m \in Machine, PushFails(m) \/ PullFails(m)
  PROVE  TrailInv'
<1>1. UNCHANGED <<commits, head, remote>> /\ (Fetch(m) \/ UNCHANGED origin)
  BY DEF PushFails, PullFails
<1>2. Trail(commits, head, origin', remote)
  BY <1>1, FetchedTrail DEF TrailInv
<1> QED
  BY <1>1, <1>2 DEF TrailInv

(* The branch is moved to the tip of the remote. *)
LEMMA PullTrail ==
  ASSUME IndInv, TrailInv, NEW m \in Machine, Pull(m) \/ ResetHardToRemote(m)
  PROVE  TrailInv'
<1>1. /\ origin' = [origin EXCEPT ![m] = remote] /\ head' = [head EXCEPT ![m] = remote]
      /\ UNCHANGED <<commits, remote>>
  BY DEF Pull, ResetHardToRemote, Land
<1>2. Trail(commits, head, origin', remote)
  BY <1>1, FetchTrail DEF TrailInv
<1>3. head' = [head EXCEPT ![m] = origin'[m]]
  BY <1>1, Numbers
<1>4. Trail(commits, head', origin', remote)
  BY <1>2, <1>3, SnapshotRows, LandTrail
<1> QED
  BY <1>1, <1>4 DEF TrailInv

(* A merge keeps every row of what it takes in: the base is the commit that the
   machine's branch has kept of the remote. *)
LEMMA MergedKept ==
  ASSUME IndInv, NEW h \in 1 .. Len(commits), NEW o \in 1 .. Len(commits),
         commits \in Seq(Commit), Ancestry(commits),
         NEW c \in 0 .. Len(commits),
         PastOf(commits, h) \cap PastOf(commits, o) = PastOf(commits, c),
         c # 0 => Kept(commits, c, h)
  PROVE  \/ Covers(Merged(h, o).rows, Snap(o).rows)
         \/ \E k \in PastOf(commits, h) :
              /\ k \notin PastOf(commits, o)
              /\ commits[k].kind \in {"rebase", "lossy"}
<1>1. CASE Merged(h, o).rows = Snap(o).rows
  BY <1>1, SnapshotRows, CoversItself DEF Snap
<1>2. ASSUME NEW b \in MergeBases(h, o), Merged(h, o).rows = Snap(h).rows,
             Snap(o).rows = Snap(b).rows
      PROVE  \/ Covers(Merged(h, o).rows, Snap(o).rows)
             \/ \E k \in PastOf(commits, h) :
                  /\ k \notin PastOf(commits, o)
                  /\ commits[k].kind \in {"rebase", "lossy"}
  <2>1. /\ b \in PastOf(commits, c)
        /\ \A d \in PastOf(commits, c) : b \in PastOf(commits, d) => d = b
    BY DEF MergeBases, Past
  <2>2. c # 0 /\ c \in 1 .. Len(commits)
    BY <2>1 DEF PastOf
  <2>3. c = b
    BY <2>1, <2>2 DEF Ancestry
  <2>4. CASE Excused(commits, c, h)
    BY <2>4 DEF Excused
  <2>5. CASE Covers(commits[h].snap.rows, commits[c].snap.rows)
    BY <1>2, <2>3, <2>5 DEF Snap
  <2> QED
    BY <2>2, <2>4, <2>5 DEF Kept
<1> QED
  BY <1>1, <1>2, MergedSource

(* A merge: nothing to do, a fast-forward, or a new commit with all of the
   remote that the machine knows. *)
LEMMA MergeTrail ==
  ASSUME IndInv, TrailInv, NEW m \in Machine, MergeFromRemote(m)
  PROVE  TrailInv'
<1> DEFINE h == head[m]
           o == origin'[m]
<1>1. /\ Fetch(m) /\ h # 0 /\ o # 0 /\ UNCHANGED <<remote, clock>>
      /\ \/ Land(m, h, "joined") /\ UNCHANGED commits
         \/ o \notin Past(h) /\ Land(m, o, "joined") /\ UNCHANGED commits
         \/ /\ o \notin Past(h)
            /\ Len(commits) + faults < MaxCommits
            /\ commits' = Append(commits, NewCommit(Merged(h, o), h, o, "merge"))
            /\ Land(m, Len(commits) + 1, "joined")
  BY DEF MergeFromRemote, Land
<1>2. Trail(commits, head, origin', remote)
  BY <1>1, FetchedTrail DEF TrailInv
<1>3. /\ h \in 0 .. Len(commits) /\ o \in 0 .. Len(commits) /\ commits \in Seq(Commit)
      /\ h \in 1 .. Len(commits) /\ o \in 1 .. Len(commits) /\ Ancestry(commits)
  BY <1>1, <1>2 DEF Trail, Pointers
<1>4. head' = [head EXCEPT ![m] = head'[m]]
  BY <1>1, Numbers DEF Land
<1> HIDE DEF o
<1>5. CASE Land(m, h, "joined") /\ UNCHANGED commits
  <2>1. UNCHANGED head
    BY <1>5, Numbers DEF Land
  <2> QED
    BY <1>1, <1>2, <1>5, <2>1 DEF TrailInv
<1>6. CASE Land(m, o, "joined") /\ UNCHANGED commits
  <2>1. head' = [head EXCEPT ![m] = origin'[m]]
    BY <1>6 DEF Land, o
  <2>2. Trail(commits, head', origin', remote)
    BY <1>2, <2>1, SnapshotRows, LandTrail
  <2> QED
    BY <1>1, <1>6, <2>2 DEF TrailInv
<1>7. CASE /\ o \notin Past(h)
           /\ Len(commits) + faults < MaxCommits
           /\ commits' = Append(commits, NewCommit(Merged(h, o), h, o, "merge"))
           /\ Land(m, Len(commits) + 1, "joined")
  <2>1. /\ Added(commits, commits', h, o) /\ Len(commits') = Len(commits) + 1
        /\ commits'[Len(commits')].snap = Merged(h, o)
        /\ commits'[Len(commits')].snap.rows \in Rows
    BY <1>1, <1>3, <1>7, MergedGood, NewIsAdded
  <2>2. head' = [head EXCEPT ![m] = Len(commits')]
    BY <1>7, <2>1 DEF Land
  <2>3. PICK c \in 0 .. Len(commits) :
          /\ PastOf(commits, c) \subseteq PastOf(commits, o)
          /\ PastOf(commits, h) \cap PastOf(commits, remote) = PastOf(commits, c)
          /\ c # 0 => Kept(commits, c, h)
    BY <1>2 DEF Trail, Follows, o
  <2>4. PastOf(commits, o) \subseteq PastOf(commits, remote)
    BY <1>2 DEF Trail, o
  <2>5. PastOf(commits, h) \cap PastOf(commits, o) = PastOf(commits, c)
    BY <2>3, <2>4
  <2>6. \/ Covers(Merged(h, o).rows, Snap(o).rows)
        \/ \E k \in PastOf(commits, h) :
             /\ k \notin PastOf(commits, o)
             /\ commits[k].kind \in {"rebase", "lossy"}
    <3> HIDE DEF h
    <3> QED
      BY <1>3, <2>3, <2>5, MergedKept
  <2>7. Kept(commits', o, Len(commits'))
    <3>0. /\ PastOf(commits', o) = PastOf(commits, o)
          /\ PastOf(commits', Len(commits')) =
               PastOf(commits, h) \cup PastOf(commits, o) \cup {Len(commits')}
      <4> HIDE DEF h
      <4> QED
        BY <1>3, <2>1, AddedFacts
    <3>1. /\ PastOf(commits', o) = PastOf(commits, o)
          /\ PastOf(commits, h) \subseteq PastOf(commits', Len(commits'))
      BY <3>0
    <3>2. PastOf(commits, h) \subseteq 1 .. Len(commits)
      BY <1>3, AncestorIsSubset
    <3>3. \A k \in 1 .. Len(commits) : commits'[k] = commits[k]
      BY <2>1 DEF Added
    <3>4. CASE Covers(Merged(h, o).rows, Snap(o).rows)
      BY <1>3, <2>1, <3>3, <3>4 DEF Kept, Snap
    <3>5. CASE \E k \in PastOf(commits, h) :
                 /\ k \notin PastOf(commits, o)
                 /\ commits[k].kind \in {"rebase", "lossy"}
      BY <3>1, <3>2, <3>3, <3>5 DEF Kept, Excused
    <3> QED
      BY <2>6, <3>4, <3>5
  <2>8. /\ PastOf(commits, h) \cup PastOf(commits, o)
             \subseteq PastOf(commits, head[m]) \cup PastOf(commits, remote)
        /\ (PastOf(commits, h) \cup PastOf(commits, o)) \cap PastOf(commits, remote)
             = PastOf(commits, o)
    BY <2>3, <2>4
  <2>9. Trail(commits', head', origin', remote)
    BY <1>2, <1>3, <2>1, <2>2, <2>7, <2>8, AddedTrail DEF o
  <2> QED
    BY <1>1, <2>9 DEF TrailInv
<1> QED
  BY <1>1, <1>5, <1>6, <1>7

(* A rebase: nothing to do, a fast-forward, or a new commit on top of what the
   machine knows of the remote. *)
LEMMA RebaseTrail ==
  ASSUME IndInv, TrailInv, NEW m \in Machine, RebaseOntoRemote(m)
  PROVE  TrailInv'
<1> DEFINE h == head[m]
           o == origin'[m]
<1>1. /\ Fetch(m) /\ h # 0 /\ o # 0 /\ UNCHANGED <<remote, clock>>
      /\ \/ Land(m, h, "joined") /\ UNCHANGED commits
         \/ Land(m, o, "joined") /\ UNCHANGED commits
         \/ /\ Len(commits) + faults < MaxCommits
            /\ commits' = Append(commits, NewCommit(Rebased(h, o), o, 0, "rebase"))
            /\ Land(m, Len(commits) + 1, "joined")
  BY DEF RebaseOntoRemote, Land
<1>2. Trail(commits, head, origin', remote)
  BY <1>1, FetchedTrail DEF TrailInv
<1>3. /\ 0 \in 0 .. Len(commits) /\ o \in 0 .. Len(commits) /\ commits \in Seq(Commit)
      /\ h \in 1 .. Len(commits) /\ o \in 1 .. Len(commits) /\ Ancestry(commits)
  BY <1>1, <1>2, Numbers DEF Trail, Pointers
<1> HIDE DEF o
<1>5. CASE Land(m, h, "joined") /\ UNCHANGED commits
  <2>1. UNCHANGED head
    BY <1>5, Numbers DEF Land
  <2> QED
    BY <1>1, <1>2, <1>5, <2>1 DEF TrailInv
<1>6. CASE Land(m, o, "joined") /\ UNCHANGED commits
  <2>1. head' = [head EXCEPT ![m] = origin'[m]]
    BY <1>6 DEF Land, o
  <2>2. Trail(commits, head', origin', remote)
    BY <1>2, <2>1, SnapshotRows, LandTrail
  <2> QED
    BY <1>1, <1>6, <2>2 DEF TrailInv
<1>7. CASE /\ Len(commits) + faults < MaxCommits
           /\ commits' = Append(commits, NewCommit(Rebased(h, o), o, 0, "rebase"))
           /\ Land(m, Len(commits) + 1, "joined")
  <2>1. /\ Added(commits, commits', o, 0) /\ Len(commits') = Len(commits) + 1
        /\ commits'[Len(commits')].kind = "rebase"
        /\ commits'[Len(commits')].snap.rows \in Rows
    BY <1>1, <1>3, <1>7, RebasedGood, NewIsAdded
  <2>2. head' = [head EXCEPT ![m] = Len(commits')]
    BY <1>7, <2>1 DEF Land
  <2>3. PastOf(commits, o) \subseteq PastOf(commits, remote) /\ PastOf(commits, 0) = {}
    BY <1>2 DEF Trail, o, PastOf
  <2>4. Kept(commits', o, Len(commits'))
    <3>1. /\ PastOf(commits', o) = PastOf(commits, o)
          /\ Len(commits') \notin PastOf(commits, o)
          /\ Len(commits') \in PastOf(commits', Len(commits'))
      BY <1>3, <2>1, AddedFacts
    <3> QED
      BY <2>1, <3>1 DEF Kept, Excused
  <2>5. /\ PastOf(commits, o) \cup PastOf(commits, 0)
             \subseteq PastOf(commits, head[m]) \cup PastOf(commits, remote)
        /\ (PastOf(commits, o) \cup PastOf(commits, 0)) \cap PastOf(commits, remote)
             = PastOf(commits, o)
    BY <2>3
  <2>6. Trail(commits', head', origin', remote)
    BY <1>2, <1>3, <2>1, <2>2, <2>4, <2>5, AddedTrail DEF o
  <2> QED
    BY <1>1, <2>6 DEF TrailInv
<1> QED
  BY <1>1, <1>5, <1>6, <1>7

(* A forced push ends the step that the machine forces. *)
LEMMA ForcePushIsForced ==
  ASSUME IndInv, NEW m \in Machine, ForcePush(m)
  PROVE  Forced
BY StateTypes DEF ForcePush, Pushed, Forced, StepType

(* Every step but a forced push keeps the invariant. *)
LEMMA NextTrail ==
  ASSUME IndInv, TrailInv, [Next]_vars, ~Forced
  PROVE  TrailInv'
<1>1. CASE UNCHANGED repository
  BY <1>1 DEF repository, TrailInv
<1>2. CASE Next /\ ~ UNCHANGED repository
  <2>1. PICK m \in Machine :
    \/ Sync(m) \/ BackupForcePush(m) \/ Push(m) \/ ForcePush(m)
    \/ PushFails(m) \/ Pull(m) \/ PullFails(m)
    \/ MergeFromRemote(m) \/ RebaseOntoRemote(m) \/ ResetHardToRemote(m)
    BY <1>2 DEF Next, Write, ProbeRow, WriteRow, WriteDropped, ExportRefused, ForceHead,
       ImportState, ImportFails, RestoreBackupState, Restart
  <2> QED
    BY <2>1, SyncTrail, PushedTrail, FailTrail, PullTrail, MergeTrail, RebaseTrail,
       ForcePushIsForced
<1> QED
  BY <1>1, <1>2 DEF vars

(* Without commits nothing is shared. *)
LEMMA InitTrail == Init => TrailInv
<1> SUFFICES ASSUME Init
             PROVE  TrailInv
  OBVIOUS
<1>1. /\ commits = <<>> /\ Len(commits) = 0 /\ remote = 0
      /\ \A m \in Machine : head[m] = 0 /\ origin[m] = 0
      /\ head \in [Machine -> 0 .. 0] /\ origin \in [Machine -> 0 .. 0]
  BY DEF Init
<1>2. PastOf(commits, 0) = {}
  BY DEF PastOf
<1>3. Pointers(commits, head, origin, remote)
  BY <1>1 DEF Pointers, Ancestry
<1>4. 0 \in 0 .. Len(commits)
  BY <1>1
<1>5. \A m \in Machine : Follows(commits, head, origin, remote, m)
  BY <1>1, <1>2, <1>4 DEF Follows
<1>6. \A m, n \in Machine : Shared(commits, head, m, n) \subseteq PastOf(commits, remote)
  BY <1>1, <1>2 DEF Shared
<1> QED
  BY <1>1, <1>2, <1>3, <1>5, <1>6 DEF TrailInv, Trail

(* However many machines there are, as long as none of them forces a push,
   every push leaves the remote's snapshot with every row at least as new, or
   publishes a rebase or an export over missing rows (Push after Sync,
   MergeFromRemote and RebaseOntoRemote of repo.go).  Git accepts the push only
   if the machine's branch contains the tip, and what the branch has of the
   remote is then the tip itself, whose rows it has kept. *)
THEOREM TipsKeepRows == Spec /\ [][~Forced]_vars => TipKeepsRows
<1>1. ASSUME IndInv, TrailInv, [Next]_vars, remote # 0, remote' # remote, ~Forced
      PROVE  \/ Covers(Snap(remote').rows, Snap(remote).rows)
             \/ \E c \in Past(remote') \ Past(remote) :
                  commits[c].kind \in {"rebase", "lossy"}
  <2>1. PICK m \in Machine : Push(m) \/ ForcePush(m)
    BY <1>1, OnlyPushesMove
  <2>2. Push(m)
    BY <1>1, <2>1, ForcePushIsForced
  <2>3. remote' = head[m] /\ UNCHANGED commits /\ remote \in PastOf(commits, head[m])
    BY <1>1, <2>2 DEF Push, Pushed, Past
  <2>4. /\ commits \in Seq(Commit) /\ Ancestry(commits) /\ Len(commits) \in Nat
        /\ head[m] \in 0 .. Len(commits) /\ remote \in 1 .. Len(commits)
        /\ remote \in 0 .. Len(commits)
    BY <1>1 DEF TrailInv, Trail, Pointers
  <2>5. PICK c \in 0 .. Len(commits) :
          /\ PastOf(commits, head[m]) \cap PastOf(commits, remote) = PastOf(commits, c)
          /\ c # 0 => Kept(commits, c, head[m])
    BY <1>1 DEF TrailInv, Trail, Follows
  <2>6. PastOf(commits, remote) = PastOf(commits, c)
    <3>1. PastOf(commits, remote) \subseteq PastOf(commits, head[m])
      BY <2>3, <2>4, AncestorIsSubset
    <3> QED
      BY <2>5, <3>1
  <2>7. c = remote
    <3>1. remote \in PastOf(commits, remote) /\ PastOf(commits, remote) \subseteq 1 .. remote
      BY <2>4 DEF Ancestry
    <3>2. c # 0 /\ c \in 1 .. Len(commits)
      BY <2>4, <2>6, <3>1 DEF PastOf
    <3>3. c \in PastOf(commits, c) /\ PastOf(commits, c) \subseteq 1 .. c
      BY <2>4, <3>2 DEF Ancestry
    <3> QED
      BY <2>4, <2>6, <3>1, <3>2, <3>3
  <2>8. Kept(commits, remote, head[m])
    BY <1>1, <2>5, <2>7
  <2> QED
    BY <2>3, <2>8 DEF Kept, Excused, Snap, Past
<1>2. IndInv /\ TrailInv /\ [Next]_vars /\ [~Forced]_vars => TrailInv'
  BY NextTrail DEF TrailInv, vars, repository
<1> QED
  BY <1>1, <1>2, InitInv, NextKeeps, InitTrail, PTL DEF Spec, TipKeepsRows

=============================================================================
