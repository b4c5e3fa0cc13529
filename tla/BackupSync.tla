----------------------------- MODULE BackupSync -----------------------------
(***************************************************************************)
(* Machines that share their database through one git remote.  Each sync   *)
(* exports the database into the working tree as an encrypted snapshot,    *)
(* commits it and pushes or pulls; what lands in the tree is merged row by *)
(* row into the database.                                                  *)
(*                                                                         *)
(*   db        the rows of each machine's database, by time of writing     *)
(*   commits   every commit made anywhere; one's name is its index         *)
(*   head, origin   a machine's branch and what it knows of the remote's   *)
(*   remote    the branch of the remote; 0, it has none                    *)
(*   landing   whether the snapshot at head is in the machine's database:  *)
(*             imported, landed but not yet imported, or missing: rows of  *)
(*             it are not there and the code does not know, because the    *)
(*             import dropped them or a restart forgot the landing         *)
(*   turn      how far each row of the snapshot is in an import            *)
(*   pending   App.backupRestoreDir # "": an import has failed             *)
(*   unlocked  Store.backupKeys: machines whose envelope was opened        *)
(*   step      how far the machine is in a git operation                   *)
(*                                                                         *)
(* Row stands for the rows of mergeTables; schedules and watchers are      *)
(* exported and never merged, so no other machine reads them.  Outside an  *)
(* operation the working tree is the one of head.  Rows are not deleted; a *)
(* deletion is not propagated by the code either.                          *)
(***************************************************************************)
EXTENDS Naturals, Sequences, FiniteSets

CONSTANTS Machine, Row,
          Timed,           \* rows of the tables with an updated_at; a row of
                           \* another one (messages, mcp_servers) is only added
          SharedPassword,  \* the machines have one password (but each its own key)
          MaxWrites,   \* bound: writes of rows, the clock of updated_at
          MaxRows,     \* bound: rows that are written at all
          MaxCommits,  \* bound: commits, and faults with them
          MaxFaults    \* bound: restarts, operations that fail offline or in
                       \* time, and rows an import cannot write

ASSUME BackupAssumption ==
  /\ Timed \subseteq Row /\ SharedPassword \in BOOLEAN
  /\ MaxWrites \in Nat /\ MaxRows \in Nat /\ MaxCommits \in Nat /\ MaxFaults \in Nat

VARIABLES db, commits, head, origin, remote, landing, turn, pending, unlocked,
          step, clock, faults

repository == <<commits, head, origin, remote>>
session == <<pending, unlocked, step>>
vars == <<db, repository, landing, turn, session, clock, faults>>

-----------------------------------------------------------------------------
Rows == [Row -> 0 .. MaxWrites]

(* db.sqlite with the key it is encrypted with, and db.sqlite.key. *)
Snapshot == [owner : Machine, rows : Rows, envelope : Machine]

Branch == 0 .. MaxCommits

(* theirs is the second parent of a merge; past are the ancestors and the
   commit itself; kind tells which operation made it, and of an export whether
   rows of the snapshot before it are missing in the database. *)
Commit == [snap : Snapshot, ours : Branch, theirs : Branch,
           past : SUBSET (1 .. MaxCommits),
           kind : {"export", "lossy", "merge", "rebase"}]

(* A row of a table without updated_at counts as kept in any version. *)
CoversRow(rows, others, r) ==
  IF r \in Timed THEN rows[r] >= others[r] ELSE others[r] # 0 => rows[r] # 0

Covers(rows, others) == \A r \in Row : CoversRow(rows, others, r)

Snap(b) == commits[b].snap
PastOf(made, b) == IF b = 0 THEN {} ELSE made[b].past
Past(b) == PastOf(commits, b)

(* openSnapshot: by the own key; by one opened in this session, or by the
   local password, if the envelope is the one of the database. *)
Readable(m, s) ==
  \/ s.owner = m
  \/ s.envelope = s.owner /\ (SharedPassword \/ s.owner \in unlocked[m])

Landing == {"imported", "landed", "missing"}

(* Probed, and found to be absent or older; then written or not. *)
Turn == {"waiting", "absent", "older", "done", "dropped"}

Importing(m) == step[m] \in {"pulled", "joined", "restoring"}

TypeOK ==
  /\ db \in [Machine -> Rows]
  /\ commits \in Seq(Commit) /\ Len(commits) <= MaxCommits
  /\ head \in [Machine -> 0 .. Len(commits)]
  /\ origin \in [Machine -> 0 .. Len(commits)]
  /\ remote \in 0 .. Len(commits)
  /\ landing \in [Machine -> Landing]
  /\ turn \in [Machine -> [Row -> Turn]]
  /\ pending \in [Machine -> BOOLEAN]
  /\ unlocked \in [Machine -> SUBSET Machine]
  /\ step \in [Machine -> {"idle", "pushing", "forcing", "pulling",
                           "pulled", "joined", "restoring"}]
  /\ clock \in 0 .. MaxWrites
  /\ faults \in 0 .. MaxFaults
  /\ \A m \in Machine :
       head[m] = 0 => landing[m] = "imported" /\ ~pending[m] /\ step[m] = "idle"

Init ==
  /\ db = [m \in Machine |-> [r \in Row |-> 0]]
  /\ commits = <<>>
  /\ head = [m \in Machine |-> 0]
  /\ origin = [m \in Machine |-> 0]
  /\ remote = 0
  /\ landing = [m \in Machine |-> "imported"]
  /\ turn = [m \in Machine |-> [r \in Row |-> "waiting"]]
  /\ pending = [m \in Machine |-> FALSE]
  /\ unlocked = [m \in Machine |-> {}]
  /\ step = [m \in Machine |-> "idle"]
  /\ clock = 0
  /\ faults = 0

-----------------------------------------------------------------------------
(* The user works on a machine, also while an import runs. *)
Write(m, r) ==
  /\ clock < MaxWrites
  /\ Cardinality({q \in Row : q = r \/ \E n \in Machine : db[n][q] # 0}) <= MaxRows
  /\ clock' = clock + 1
  /\ db' = [db EXCEPT ![m][r] = clock + 1]
  /\ UNCHANGED <<repository, landing, turn, session, faults>>

NewCommit(snap, ours, theirs, kind) ==
  [snap |-> snap, ours |-> ours, theirs |-> theirs, kind |-> kind,
   past |-> Past(ours) \cup Past(theirs) \cup {Len(commits) + 1}]

(* The operations a machine starts from its settings. *)
Ready(m) == step[m] = "idle" /\ ~pending[m]

Exported(m) == [owner |-> m, rows |-> db[m], envelope |-> m]

(* Fault: the snapshot in the tree need not be readable. *)
ExportableAlways(m) == TRUE

(* ValidateBackupState: the snapshot that is to be replaced can be read. *)
Exportable(m) == head[m] # 0 => Readable(m, Snap(head[m]))

(* stageAndCommit: export the database and commit if the snapshot changed.  A
   failure in between leaves a file that the next export writes again. *)
StageAndCommit(m) ==
  /\ Ready(m) /\ Exportable(m)
  /\ IF head[m] # 0 /\ Snap(head[m]) = Exported(m) THEN UNCHANGED <<commits, head, landing>>
     ELSE /\ Len(commits) + faults < MaxCommits
          /\ commits' = Append(commits,
               NewCommit(Exported(m), head[m], 0,
                         IF landing[m] = "missing" THEN "lossy" ELSE "export"))
          /\ head' = [head EXCEPT ![m] = Len(commits) + 1]
          /\ landing' = [landing EXCEPT ![m] = "imported"]

(* The preflight fails: the restore is pending, and nothing is written. *)
ExportRefused(m) ==
  /\ Ready(m) /\ ~Exportable(m)
  /\ pending' = [pending EXCEPT ![m] = TRUE]
  /\ UNCHANGED <<db, repository, landing, turn, unlocked, step, clock, faults>>

Fault ==
  /\ faults < MaxFaults /\ Len(commits) + faults < MaxCommits
  /\ faults' = faults + 1

(* A fetch may fail, and nothing is said: the machine is offline. *)
Fetch(m) ==
  \/ origin' = [origin EXCEPT ![m] = remote] /\ UNCHANGED faults
  \/ remote # origin[m] /\ UNCHANGED origin /\ Fault

(* Sync goes on fast-forward only; a divergence is left to the user.  What the
   other machine does between the commit and the fetch it could have done
   before the commit. *)
Sync(m) ==
  /\ StageAndCommit(m)
  /\ Fetch(m)
  /\ LET h == head'[m]
         o == origin'[m] IN
     step' = [step EXCEPT ![m] =
                IF o = 0 \/ o \in PastOf(commits', h) \ {h} THEN "pushing"
                ELSE IF h \in PastOf(commits', o) \ {o} THEN "pulling"
                ELSE "idle"]
  /\ UNCHANGED <<db, remote, turn, pending, unlocked, clock>>

(* BackupForcePush commits and pushes whatever the remote has. *)
BackupForcePush(m) ==
  /\ StageAndCommit(m)
  /\ step' = [step EXCEPT ![m] = "forcing"]
  /\ UNCHANGED <<db, origin, remote, turn, pending, unlocked, clock, faults>>

Pushed(m) ==
  /\ remote' = head[m]
  /\ origin' = [origin EXCEPT ![m] = head[m]]
  /\ step' = [step EXCEPT ![m] = "idle"]
  /\ UNCHANGED <<db, commits, head, landing, turn, pending, unlocked, clock,
                 faults>>

Push(m) ==
  /\ step[m] = "pushing"
  /\ remote = 0 \/ remote \in Past(head[m])
  /\ Pushed(m)

(* --force-with-lease, after a fetch that renews the lease. *)
ForcePush(m) == step[m] = "forcing" /\ Pushed(m)

(* Rejected, the lease is broken, or the machine is offline. *)
PushFails(m) ==
  /\ \/ step[m] = "pushing" /\ remote \notin {0} \cup Past(head[m]) /\ Fetch(m)
     \/ step[m] \in {"pushing", "forcing"} /\ UNCHANGED origin /\ Fault
  /\ step' = [step EXCEPT ![m] = "idle"]
  /\ UNCHANGED <<db, commits, head, remote, landing, turn, pending, unlocked,
                 clock>>

(* The branch moves to b and the working tree with it. *)
Land(m, b, next) ==
  /\ head' = [head EXCEPT ![m] = b]
  /\ landing' = [landing EXCEPT ![m] = IF b = head[m] THEN @ ELSE "landed"]
  /\ step' = [step EXCEPT ![m] = next]
  /\ UNCHANGED <<db, remote, turn, pending, unlocked, clock>>

(* git pull --ff-only fetches again: what it lands may be newer. *)
Pull(m) ==
  /\ step[m] = "pulling"
  /\ head[m] \in Past(remote)
  /\ origin' = [origin EXCEPT ![m] = remote]
  /\ Land(m, remote, "pulled")
  /\ UNCHANGED <<commits, faults>>

PullFails(m) ==
  /\ step[m] = "pulling"
  /\ \/ head[m] \notin Past(remote) /\ Fetch(m)
     \/ UNCHANGED origin /\ Fault
  /\ step' = [step EXCEPT ![m] = "idle"]
  /\ UNCHANGED <<db, commits, head, remote, landing, turn, pending, unlocked,
                 clock>>

-----------------------------------------------------------------------------
(* git's three-way merge of one file, with the driver of .praimate-state:
   `cp %B %A`, so theirs where both sides have changed it. *)
MergeFile(base, ours, theirs) == IF theirs = base THEN ours ELSE theirs

Database(s) == [owner |-> s.owner, rows |-> s.rows]

(* db.sqlite and db.sqlite.key are merged each by itself. *)
MergeSnap(base, ours, theirs) ==
  LET d == MergeFile(Database(base), Database(ours), Database(theirs)) IN
  [owner |-> d.owner, rows |-> d.rows,
   envelope |-> MergeFile(base.envelope, ours.envelope, theirs.envelope)]

MergeBases(a, b) ==
  {c \in Past(a) \cap Past(b) :
     \A d \in Past(a) \cap Past(b) : c \in Past(d) => d = c}

(* Fault: a merge keeps the local snapshot. *)
MergedOurs(h, o) == Snap(h)

(* Unrelated histories have no base: both sides have added the files. *)
Merged(h, o) ==
  IF MergeBases(h, o) = {} THEN Snap(o)
  ELSE MergeSnap(Snap(CHOOSE c \in MergeBases(h, o) : TRUE), Snap(h), Snap(o))

MergeFromRemote(m) ==
  /\ Ready(m) /\ head[m] # 0
  /\ Fetch(m)
  /\ LET h == head[m]
         o == origin'[m] IN
     /\ o # 0
     /\ \/ o \in Past(h) /\ Land(m, h, "joined") /\ UNCHANGED commits
        \/ o \notin Past(h) /\ h \in Past(o) /\ Land(m, o, "joined") /\ UNCHANGED commits
        \/ /\ o \notin Past(h) /\ h \notin Past(o)
           /\ Len(commits) + faults < MaxCommits
           /\ commits' = Append(commits, NewCommit(Merged(h, o), h, o, "merge"))
           /\ Land(m, Len(commits) + 1, "joined")

(* The commits git rebase replays: the local ones that are no merges. *)
Replayed(h, o) == {c \in Past(h) \ Past(o) : commits[c].theirs = 0}

(* In a replay "theirs" is the local commit and "ours" what it is replayed
   onto: of each file the last commit that changes it decides, and the
   remote's is kept when none does.  A commit without parents adds it. *)
LastChange(h, o, file) ==
  LET changing == {c \in Replayed(h, o) :
                     LET p == commits[c].ours IN p # 0 => file[p] # file[c]} IN
  file[IF changing = {} THEN o
       ELSE CHOOSE c \in changing : \A d \in changing : d <= c]

Rebased(h, o) ==
  LET d == LastChange(h, o, [c \in DOMAIN commits |-> Database(Snap(c))])
      e == LastChange(h, o, [c \in DOMAIN commits |-> Snap(c).envelope]) IN
  [owner |-> d.owner, rows |-> d.rows, envelope |-> e]

(* A commit that changes nothing is dropped; one stands for the series. *)
RebaseOntoRemote(m) ==
  /\ Ready(m) /\ head[m] # 0
  /\ Fetch(m)
  /\ LET h == head[m]
         o == origin'[m] IN
     /\ o # 0
     /\ \/ o \in Past(h) /\ Land(m, h, "joined") /\ UNCHANGED commits
        \/ /\ o \notin Past(h)
           /\ h \in Past(o) \/ Rebased(h, o) = Snap(o)
           /\ Land(m, o, "joined") /\ UNCHANGED commits
        \/ /\ o \notin Past(h) /\ h \notin Past(o) /\ Rebased(h, o) # Snap(o)
           /\ Len(commits) + faults < MaxCommits
           /\ commits' = Append(commits, NewCommit(Rebased(h, o), o, 0, "rebase"))
           /\ Land(m, Len(commits) + 1, "joined")

(* Fault: a failed reset goes on. *)
ResetAnyway(m) == Ready(m)

Resettable(m) == Ready(m) /\ remote # 0

ResetHardToRemote(m) ==
  /\ Resettable(m)
  /\ origin' = [origin EXCEPT ![m] = remote]
  /\ Land(m, remote, "pulled")
  /\ UNCHANGED <<commits, faults>>

(* The strategy "forcepush", which commits nothing first. *)
ForceHead(m) ==
  /\ Ready(m) /\ head[m] # 0
  /\ step' = [step EXCEPT ![m] = "forcing"]
  /\ UNCHANGED <<db, repository, landing, turn, pending, unlocked, clock, faults>>

-----------------------------------------------------------------------------
(* Fault: a row that is there is not updated. *)
WantedAbsent(m, r) == Snap(head[m]).rows[r] > db[m][r] /\ db[m][r] = 0

Wanted(m, r) ==
  /\ Snap(head[m]).rows[r] > db[m][r]
  /\ r \in Timed \/ db[m][r] = 0

(* mergeTable takes the rows of the snapshot one by one, and reads whether
   the database has the row.  One it does not want takes no step; nothing but
   its own import makes it wanted again ... *)
ProbeRow(m, r) ==
  /\ Importing(m) /\ Readable(m, Snap(head[m]))
  /\ turn[m][r] = "waiting" /\ Wanted(m, r)
  /\ \A q \in Row : turn[m][q] \notin {"absent", "older"}
  /\ turn' = [turn EXCEPT ![m][r] = IF db[m][r] = 0 THEN "absent" ELSE "older"]
  /\ UNCHANGED <<db, repository, landing, session, clock, faults>>

(* ... and writes it in another statement.  By then the user may have made
   the row, and the INSERT fails; an UPDATE replaces what he has written. *)
WriteRow(m, r) ==
  /\ turn[m][r] \in {"absent", "older"}
  /\ db' = [db EXCEPT ![m][r] = IF turn[m][r] = "absent" /\ @ # 0 THEN @
                                ELSE Snap(head[m]).rows[r]]
  /\ turn' = [turn EXCEPT ![m][r] = "done"]
  /\ UNCHANGED <<repository, landing, session, clock, faults>>

(* The write fails (busy, full, a row it refers to is gone; of a table without
   updated_at also the read) and the import goes on without the row. *)
WriteDropped(m, r) ==
  /\ turn[m][r] \in {"absent", "older"}
  /\ Fault
  /\ turn' = [turn EXCEPT ![m][r] = "dropped"]
  /\ UNCHANGED <<db, repository, landing, session, clock>>

Unturned(m) == turn' = [turn EXCEPT ![m] = [r \in Row |-> "waiting"]]

(* The import counts as complete, with rows dropped or without.  After a merge
   or rebase the result is pushed. *)
ImportState(m) ==
  /\ Importing(m) /\ Readable(m, Snap(head[m]))
  /\ \A r \in Row : \/ turn[m][r] \in {"done", "dropped"}
                    \/ turn[m][r] = "waiting" /\ ~Wanted(m, r)
  /\ landing' = [landing EXCEPT ![m] = IF \E r \in Row : turn[m][r] = "dropped"
                                       THEN "missing" ELSE "imported"]
  /\ pending' = [pending EXCEPT ![m] = FALSE]
  /\ step' = [step EXCEPT ![m] = IF @ = "joined" THEN "pushing" ELSE "idle"]
  /\ Unturned(m)
  /\ UNCHANGED <<db, repository, unlocked, clock, faults>>

(* Unreadable, or an error is returned (the operation runs out of time) after
   any of the rows; it is not pushed. *)
ImportFails(m) ==
  /\ Importing(m)
  /\ IF Readable(m, Snap(head[m])) THEN Fault ELSE UNCHANGED faults
  /\ pending' = [pending EXCEPT ![m] = TRUE]
  /\ step' = [step EXCEPT ![m] = "idle"]
  /\ Unturned(m)
  /\ UNCHANGED <<db, repository, landing, unlocked, clock>>

(* The user finishes a pending restore, with the other machine's password
   or without. *)
RestoreBackupState(m) ==
  LET s == Snap(head[m]) IN
  /\ step[m] = "idle" /\ pending[m]
  /\ \/ Readable(m, s) /\ UNCHANGED unlocked
     \/ s.envelope = s.owner /\ unlocked' = [unlocked EXCEPT ![m] = @ \cup {s.owner}]
  /\ step' = [step EXCEPT ![m] = "restoring"]
  /\ UNCHANGED <<db, repository, landing, turn, pending, clock, faults>>

(* The application ends or dies, and starts again. *)
Restart(m) ==
  /\ Fault
  /\ landing' = [landing EXCEPT ![m] = IF @ = "landed" THEN "missing" ELSE @]
  /\ pending' = [pending EXCEPT ![m] = FALSE]
  /\ unlocked' = [unlocked EXCEPT ![m] = {}]
  /\ step' = [step EXCEPT ![m] = "idle"]
  /\ Unturned(m)
  /\ UNCHANGED <<db, repository, clock>>

Next == \E m \in Machine :
  \/ \E r \in Row : Write(m, r)
  \/ \E r \in Row : ProbeRow(m, r) \/ WriteRow(m, r) \/ WriteDropped(m, r)
  \/ Sync(m) \/ BackupForcePush(m) \/ ExportRefused(m)
  \/ Push(m) \/ ForcePush(m) \/ PushFails(m)
  \/ Pull(m) \/ PullFails(m)
  \/ MergeFromRemote(m) \/ RebaseOntoRemote(m)
  \/ ResetHardToRemote(m) \/ ForceHead(m)
  \/ ImportState(m) \/ ImportFails(m) \/ RestoreBackupState(m)
  \/ Restart(m)

Spec == Init /\ [][Next]_vars

-----------------------------------------------------------------------------
(* A snapshot counted as imported, and of which no row was dropped, is in the
   machine's database, whatever the user wrote while it was merged, and
   whatever was pulled, merged, rebased, reset or restored before. *)
ImportedIsHeld ==
  \A m \in Machine : landing[m] = "imported" /\ head[m] # 0
                       => Covers(db[m], Snap(head[m]).rows)

(* An export overwrites no snapshot that cannot be read: not while a restore
   is pending, nor after a restart that has forgotten it
   (coreStateSyncer.Export).  And it overwrites no downloaded row that is not
   in the database, but for two cases in which the code does: a restart has
   prevented the import of a readable snapshot, or the import has dropped a
   row and counts as complete. *)
ExportKeepsRows ==
  [][\A m \in Machine : LET h == head[m] IN
       h # 0 /\ head'[m] # h /\ commits'[head'[m]].kind \in {"export", "lossy"}
             /\ commits'[head'[m]].snap.owner = m /\ landing'[m] = "imported"
         => /\ Readable(m, Snap(h))
            /\ landing[m] # "missing" =>
                 Covers(commits'[head'[m]].snap.rows, Snap(h).rows)]_vars

Forced == \E m \in Machine : step[m] = "forcing" /\ step'[m] = "idle"

(* A push that is not forced leaves the remote's snapshot with every row at
   least as new, unless one of the commits it publishes is a rebase or an
   export over a snapshot not wholly imported: between two machines always,
   among more as long as none of them forces a push.  (A merge takes one
   snapshot whole, and the remote may be forced back to the other, which a third
   machine then builds on.) *)
TipKeepsRows ==
  [][remote # 0 /\ remote' # remote /\ ~Forced
       => \/ Covers(Snap(remote').rows, Snap(remote).rows)
          \/ \E c \in Past(remote') \ Past(remote) :
               commits[c].kind \in {"rebase", "lossy"}]_vars

(* What the comments say of every way to resolve a divergence: no row of the
   remote's snapshot is lost to a push that is not forced. *)
RebaseKeepsRows ==
  [][remote # 0 /\ remote' # remote /\ ~Forced
       => Covers(Snap(remote').rows, Snap(remote).rows)]_vars

(* "The matching password envelope must travel with it" (Store.Snapshot). *)
EnvelopeTravels ==
  \A c \in 1 .. Len(commits) : Snap(c).envelope = Snap(c).owner
=============================================================================
