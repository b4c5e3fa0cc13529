------------------------------ MODULE SkillHost ------------------------------
(***************************************************************************)
(* The host's store of agent skills: one directory that every PrAImate     *)
(* process opens, an advisory lock on it, immutable records named by their *)
(* content, package generations, and one mutable file, the head.           *)
(*                                                                         *)
(*   head       the head file: revision, current checkpoint, retained ones *)
(*   disk       the records ever written; nothing sweeps them              *)
(*   installed  the generation directory of each package digest            *)
(*   seen       the revision a client has read and will name in an update  *)
(*   holder     the client that holds the lock                             *)
(*   step       how far the holder is: in its callback, the last record    *)
(*              written since, or sweeping generations                     *)
(*   tx         its transaction; todo, what its collection still removes   *)
(*   used       the calls and faults so far, for the bounds only           *)
(*                                                                         *)
(* A record is named by its content, so a checkpoint's id is the content   *)
(* itself.  Every rename is atomic; an error and a crash both leave what   *)
(* was written so far and free the lock.                                   *)
(***************************************************************************)
EXTENDS Naturals, FiniteSets

CONSTANTS Client, Owner, Source, Ref, Digest, Draft,
          Version,       \* the versions packages may be registered as
          LegacyPlan,    \* the sets of versions a legacy migration registers
          NoCheckpoint,  \* Current of the store that was never written
          NoClient,
          MaxRevision,   \* ^uint64(0) in the code
          MaxRetained,   \* maxRegistryVersions
          MaxCalls,      \* bound: calls of the callbacks, and failures
          MaxFaults      \* bound: calls that fail or die half way

ASSUME HostAssumption ==
  /\ Version \subseteq [source : Source, ref : Ref, digest : Digest]
  /\ LegacyPlan \subseteq SUBSET Version
  /\ NoClient \notin Client
  /\ IsFiniteSet(Owner)
  /\ MaxRevision \in Nat /\ MaxRetained \in Nat /\ MaxCalls \in Nat
  /\ MaxFaults \in Nat

VARIABLES head, disk, installed, seen, holder, step, tx, todo, used

vars == <<head, disk, installed, seen, holder, step, tx, todo, used>>

-----------------------------------------------------------------------------
(* An approval is for a source and a digest: versionAuthorityKey. *)
Authority == [source : Source, digest : Digest]
Key(v) == [source |-> v.source, digest |-> v.digest]

Local == [approved : SUBSET Authority, holds : [Owner -> SUBSET Version]]

(* What a checkpoint stands for; an owner without a hold has the empty set. *)
Content == [catalogue : SUBSET Version, local : Local,
            drafts : SUBSET Draft, legacy : BOOLEAN]

Nothing ==
  [catalogue |-> {}, local |-> [approved |-> {}, holds |-> [o \in Owner |-> {}]],
   drafts |-> {}, legacy |-> TRUE]

ASSUME CheckpointAssumption == NoCheckpoint \notin Content

ContentAt(h) == IF h.current = NoCheckpoint THEN Nothing ELSE h.current
Current == ContentAt(head)

Digests(catalogue) == {v.digest : v \in catalogue}
Keys(catalogue) == {Key(v) : v \in catalogue}
Held(local) == UNION {local.holds[o] : o \in Owner}

(* A ref belongs to one source and a source has one ref. *)
Coherent(catalogue) ==
  \A v, w \in catalogue : v.ref = w.ref <=> v.source = w.source

Complete(digests) == \A d \in digests : installed[d] = "complete"

(* LoadVersionCatalogue: the record is there and its generations verify. *)
CatalogueLoads(catalogue) ==
  /\ catalogue \in disk.registry
  /\ Coherent(catalogue)
  /\ Complete(Digests(catalogue))

LocalLoads(local, catalogue) ==
  /\ local \in disk.local
  /\ Held(local) \subseteq catalogue
  /\ local.approved \subseteq Keys(catalogue)

Loads(c) ==
  /\ c \in disk.host
  /\ CatalogueLoads(c.catalogue)
  /\ LocalLoads(c.local, c.catalogue)
  /\ c.drafts \subseteq disk.draft

HeadLoads == head.current # NoCheckpoint => Loads(head.current)

-----------------------------------------------------------------------------
Steps == {"idle", "callback", "catalogue", "local", "host", "sweep"}

Head == [revision : 0 .. MaxRevision, current : Content \cup {NoCheckpoint},
         retained : SUBSET Content]

(* The type invariant; the history of checkpoints never outgrows its limit,
   which the next read of the head would reject. *)
TypeOK ==
  /\ head \in Head
  /\ Cardinality(head.retained) <= MaxRetained
  /\ disk \in [registry : SUBSET SUBSET Version, local : SUBSET Local,
               host : SUBSET Content, draft : SUBSET Draft]
  /\ installed \in [Digest -> {"absent", "partial", "complete"}]
  /\ seen \in [Client -> 0 .. MaxRevision]
  /\ holder \in Client \cup {NoClient}
  /\ step \in Steps
  /\ tx \in [content : Content, granted : SUBSET Authority,
             released : SUBSET Owner]
  /\ todo \subseteq Digest
  /\ used \in [calls : 0 .. MaxCalls, faults : 0 .. MaxFaults]

NoTransaction == [content |-> Nothing, granted |-> {}, released |-> {}]

Init ==
  /\ head = [revision |-> 0, current |-> NoCheckpoint, retained |-> {}]
  /\ disk = [registry |-> {}, local |-> {}, host |-> {}, draft |-> {}]
  /\ installed = [d \in Digest |-> "absent"]
  /\ seen = [c \in Client |-> 0]
  /\ holder = NoClient
  /\ step = "idle"
  /\ tx = NoTransaction
  /\ todo = {}
  /\ used = [calls |-> 0, faults |-> 0]

-----------------------------------------------------------------------------
(* The lock is released and what the call had in memory is gone. *)
Unlock ==
  /\ holder' = NoClient
  /\ step' = "idle"
  /\ tx' = NoTransaction
  /\ todo' = {}

View(c) ==
  /\ holder = NoClient
  /\ HeadLoads
  /\ seen' = [seen EXCEPT ![c] = head.revision]
  /\ UNCHANGED <<head, disk, installed, holder, step, tx, todo, used>>

(* Fault: the revision of the head is not asked for. *)
NotConcerned(c) == holder = NoClient

(* A client that holds the lock names the revision it has read. *)
UpToDate(c) ==
  /\ holder = NoClient
  /\ seen[c] = head.revision

(* Fault: checkpoints are retained without limit. *)
RevisionLeft == head.revision < MaxRevision

HistoryLeft ==
  /\ head.revision < MaxRevision
  /\ Cardinality(head.retained) < MaxRetained

BeginUpdate(c) ==
  /\ UpToDate(c)
  /\ HistoryLeft
  /\ HeadLoads
  /\ holder' = c
  /\ step' = "callback"
  /\ tx' = [NoTransaction EXCEPT !.content = Current]
  /\ UNCHANGED <<head, disk, installed, seen, todo, used>>

(* A call of the callback on its transaction; one without effect is left out. *)
Call(content, granted, released) ==
  /\ step = "callback"
  /\ used.calls + used.faults < MaxCalls
  /\ used' = [used EXCEPT !.calls = @ + 1]
  /\ content # tx.content \/ installed' # installed
  /\ tx' = [content |-> content, granted |-> tx.granted \cup granted,
            released |-> tx.released \cup released]
  /\ UNCHANGED <<head, seen, holder, step, todo>>

(* InstallPackagesWithLimits: a generation that is there must verify. *)
Install(digests) ==
  /\ \A d \in digests : installed[d] # "partial"
  /\ installed' = [d \in Digest |-> IF d \in digests THEN "complete" ELSE installed[d]]

WithVersions(versions) ==
  IF Coherent(tx.content.catalogue \cup versions)
  THEN [tx.content EXCEPT !.catalogue = @ \cup versions]
  ELSE tx.content

(* Register, RegisterSource and Publish: the generation first, so a refused
   registration leaves it unreferenced. *)
Register(v) ==
  /\ Install({v.digest})
  /\ Call(WithVersions({v}), {}, {})
  /\ UNCHANGED disk

(* The plan's skills, in a catalogue of their own. *)
ApplyLegacyMigration(versions) ==
  /\ Coherent(versions)
  /\ Install(Digests(versions))
  /\ disk' = [disk EXCEPT !.registry = @ \cup {tx.content.catalogue, versions}]

(* MigrateLegacy adds them all to the host's catalogue, or none. *)
MigrateLegacy(versions) ==
  /\ Complete(Digests(tx.content.catalogue))
  /\ ApplyLegacyMigration(versions)
  /\ Call(WithVersions(versions), {}, {})

Approve(v) ==
  /\ v \in tx.content.catalogue
  /\ Complete({v.digest})
  /\ UNCHANGED <<disk, installed>>
  /\ Call([tx.content EXCEPT !.local.approved = @ \cup {Key(v)}], {Key(v)}, {})

Revoke(v) ==
  /\ v \in tx.content.catalogue
  /\ UNCHANGED <<disk, installed>>
  /\ Call([tx.content EXCEPT !.local.approved = @ \ {Key(v)}], {}, {})

(* Hold, and Retain, which is Hold unless the owner holds the same already. *)
Hold(o, versions) ==
  /\ tx.content.local.holds[o] = {}
  /\ versions \subseteq tx.content.catalogue
  /\ Complete(Digests(versions))
  /\ UNCHANGED <<disk, installed>>
  /\ Call([tx.content EXCEPT !.local.holds[o] = versions], {}, {})

Release(o) ==
  /\ UNCHANGED <<disk, installed>>
  /\ Call([tx.content EXCEPT !.local.holds[o] = {}], {}, {o})

(* Forget drops the reference and its approval, never the files. *)
Forget(v) ==
  /\ v \in tx.content.catalogue
  /\ Key(v) \notin Keys(Held(tx.content.local))
  /\ UNCHANGED <<disk, installed>>
  /\ Call([tx.content EXCEPT !.catalogue = @ \ {v},
                             !.local.approved = @ \ {Key(v)}], {}, {})

SaveDraft(d) ==
  /\ disk' = [disk EXCEPT !.draft = @ \cup {d}]
  /\ UNCHANGED installed
  /\ Call([tx.content EXCEPT !.drafts = @ \cup {d}], {}, {})

DeleteDraft(d) ==
  /\ UNCHANGED <<disk, installed>>
  /\ Call([tx.content EXCEPT !.drafts = @ \ {d}], {}, {})

SetLegacyMode(legacy) ==
  /\ UNCHANGED <<disk, installed>>
  /\ Call([tx.content EXCEPT !.legacy = legacy], {}, {})

(* Fault: the holds of the checkpoint come back with it. *)
RestoredHolds(id) ==
  [id EXCEPT !.local.approved = tx.content.local.approved \cap Keys(id.catalogue)]

(* Fault: its approvals do. *)
RestoredApprovals(id) == [id EXCEPT !.local.holds = tx.content.local.holds]

(* Approvals the restored catalogue does not know are dropped. *)
Restored(id) ==
  [id EXCEPT !.local = [tx.content.local EXCEPT
                          !.approved = @ \cap Keys(id.catalogue)]]

Restore(id) ==
  /\ id \in head.retained
  /\ id \in disk.host
  /\ CatalogueLoads(id.catalogue)
  /\ Held(tx.content.local) \subseteq id.catalogue
  /\ id.drafts \subseteq disk.draft
  /\ UNCHANGED <<disk, installed>>
  /\ Call(Restored(id), {}, {})

Callback ==
  \/ \E v \in Version : Register(v) \/ Approve(v) \/ Revoke(v) \/ Forget(v)
  \/ \E versions \in LegacyPlan : MigrateLegacy(versions)
  \/ \E o \in Owner : \/ \E versions \in SUBSET Version \ {{}} : Hold(o, versions)
                      \/ Release(o)
  \/ \E d \in Draft : SaveDraft(d) \/ DeleteDraft(d)
  \/ \E legacy \in BOOLEAN : SetLegacyMode(legacy)
  \/ \E id \in head.retained : Restore(id)

-----------------------------------------------------------------------------
(* The callback has returned nil: SaveSnapshot verifies every generation. *)
SaveCatalogue ==
  /\ step = "callback"
  /\ Coherent(tx.content.catalogue)
  /\ Complete(Digests(tx.content.catalogue))
  /\ disk' = [disk EXCEPT !.registry = @ \cup {tx.content.catalogue}]
  /\ step' = "catalogue"
  /\ UNCHANGED <<head, installed, seen, holder, tx, todo, used>>

SaveLocal ==
  /\ step = "catalogue"
  /\ disk' = [disk EXCEPT !.local = @ \cup {tx.content.local}]
  /\ step' = "local"
  /\ UNCHANGED <<head, installed, seen, holder, tx, todo, used>>

SaveHost ==
  /\ step = "local"
  /\ disk' = [disk EXCEPT !.host = @ \cup {tx.content}]
  /\ step' = "host"
  /\ UNCHANGED <<head, installed, seen, holder, tx, todo, used>>

WriteHead ==
  /\ step = "host"
  /\ head' = [revision |-> head.revision + 1, current |-> tx.content,
              retained |-> head.retained \cup {tx.content}]
  /\ Unlock
  /\ UNCHANGED <<disk, installed, seen, used>>

(* The callback or a write fails, the context is done, or the process dies
   and the system frees its lock. *)
Fail ==
  /\ step # "idle"
  /\ used.faults < MaxFaults
  /\ used.calls + used.faults < MaxCalls
  /\ used' = [used EXCEPT !.faults = @ + 1]
  /\ Unlock
  /\ UNCHANGED <<head, disk, installed, seen>>

-----------------------------------------------------------------------------
ReleaseCheckpoint(c, id) ==
  /\ UpToDate(c)
  /\ id \in head.retained
  /\ id # head.current
  /\ head.revision < MaxRevision
  /\ head' = [head EXCEPT !.revision = @ + 1, !.retained = @ \ {id}]
  /\ UNCHANGED <<disk, installed, seen, holder, step, tx, todo, used>>

(* Fault: only the current checkpoint protects. *)
ProtectedByCurrent == Digests(Current.catalogue)

Protected == UNION {Digests(id.catalogue) : id \in head.retained}

Unprotected == {d \in Digest \ Protected : installed[d] # "absent"}

(* Collect verifies every retained checkpoint but its drafts, and every
   generation it would remove.  A dry run ends here. *)
BeginCollect(c) ==
  /\ UpToDate(c)
  /\ \A id \in head.retained : /\ id \in disk.host
                               /\ CatalogueLoads(id.catalogue)
                               /\ LocalLoads(id.local, id.catalogue)
  /\ Unprotected # {}
  /\ Complete(Unprotected)
  /\ holder' = c
  /\ step' = "sweep"
  /\ todo' = Unprotected
  /\ UNCHANGED <<head, disk, installed, seen, tx, used>>

(* RemoveAll deletes a directory's files one by one. *)
RemoveSome(d) ==
  /\ step = "sweep"
  /\ d \in todo
  /\ installed' = [installed EXCEPT ![d] = "partial"]
  /\ UNCHANGED <<head, disk, seen, holder, step, tx, todo, used>>

RemoveAll(d) ==
  /\ step = "sweep"
  /\ d \in todo
  /\ installed' = [installed EXCEPT ![d] = "absent"]
  /\ todo' = todo \ {d}
  /\ UNCHANGED <<head, disk, seen, holder, step, tx, used>>

EndCollect ==
  /\ step = "sweep"
  /\ todo = {}
  /\ Unlock
  /\ UNCHANGED <<head, disk, installed, seen, used>>

Next ==
  \/ \E c \in Client : \/ View(c) \/ BeginUpdate(c) \/ BeginCollect(c)
                       \/ \E id \in head.retained : ReleaseCheckpoint(c, id)
  \/ Callback
  \/ SaveCatalogue \/ SaveLocal \/ SaveHost \/ WriteHead
  \/ \E d \in todo : RemoveSome(d) \/ RemoveAll(d)
  \/ EndCollect
  \/ Fail

Spec == Init /\ [][Next]_vars

-----------------------------------------------------------------------------
(* Every checkpoint the head retains can be loaded: its records are there,
   its packages are whole, what is held is catalogued and what is approved is
   known.  Otherwise no view, update, rollback or collection succeeds again.
   Update, Restore, Forget, Collect and a crash between any two writes. *)
RetainedIntact ==
  /\ \A id \in head.retained : Loads(id)
  /\ head.current # NoCheckpoint => head.current \in head.retained

(* A run that holds versions keeps exactly these until its owner releases
   them: neither another client's update nor a rollback takes them away
   ("rollback cannot silently discard an active run", Restore). *)
HoldsUntilReleased ==
  [][\A o \in Owner : LET held == Current.local.holds[o] IN
       held # {} => \/ ContentAt(head').local.holds[o] = held
                    \/ o \in tx.released]_vars

(* The approvals in force grow only by an approval in the transaction that
   commits: a rollback restores a catalogue, never the approvals it once had,
   and forgetting a version forgets its approval. *)
ApprovalsAreGiven ==
  [][ContentAt(head').local.approved
       \subseteq Current.local.approved \cup tx.granted]_vars

(* No update is lost: whoever replaces the head has read the revision it
   replaces, and the revision counts every change. *)
NoLostUpdate ==
  [][head' # head =>
       /\ head'.revision = head.revision + 1
       /\ IF holder = NoClient THEN \E c \in Client : seen[c] = head.revision
                               ELSE seen[holder] = head.revision]_vars
=============================================================================
