---------------------------- MODULE SkillHostProofs ----------------------------
(***************************************************************************)
(* Proofs about SkillHost, for every number of clients, owners, versions   *)
(* and drafts, every limit of the history, and calls that die anywhere.    *)
(***************************************************************************)
EXTENDS SkillHost, FiniteSetTheorems, TLAPS

Updating == step \in {"callback", "catalogue", "local", "host"}

(* What the transaction holds in memory would load once it is written. *)
TxInv ==
  LET c == tx.content IN
  /\ Coherent(c.catalogue)
  /\ Held(c.local) \subseteq c.catalogue
  /\ c.local.approved \subseteq Keys(c.catalogue)
  /\ c.drafts \subseteq disk.draft

(* How the transaction's authority relates to the checkpoint it began with. *)
AuthorityInv ==
  /\ tx.content.local.approved \subseteq Current.local.approved \cup tx.granted
  /\ \A o \in Owner : Current.local.holds[o] # {} =>
       \/ tx.content.local.holds[o] = Current.local.holds[o]
       \/ o \in tx.released

UpdateInv ==
  /\ seen[holder] = head.revision
  /\ head.revision < MaxRevision
  /\ Cardinality(head.retained) < MaxRetained
  /\ TxInv
  /\ AuthorityInv

(* What has been written so far. *)
WrittenInv ==
  /\ step \in {"catalogue", "local", "host"} => CatalogueLoads(tx.content.catalogue)
  /\ step \in {"local", "host"} => tx.content.local \in disk.local
  /\ step = "host" => tx.content \in disk.host

IndInv ==
  /\ TypeOK
  /\ IsFiniteSet(head.retained)
  /\ holder = NoClient <=> step = "idle"
  /\ Updating => UpdateInv
  /\ WrittenInv
  /\ step = "sweep" => todo \cap Protected = {}
  /\ RetainedIntact

(* Nothing written is lost and no whole generation is touched. *)
Grows ==
  /\ disk.registry \subseteq disk'.registry
  /\ disk.local \subseteq disk'.local
  /\ disk.host \subseteq disk'.host
  /\ disk.draft \subseteq disk'.draft
  /\ \A d \in Digest : installed[d] = "complete" => installed'[d] = "complete"

DiskType == [registry : SUBSET SUBSET Version, local : SUBSET Local,
             host : SUBSET Content, draft : SUBSET Draft]

InstalledType == [Digest -> {"absent", "partial", "complete"}]

-----------------------------------------------------------------------------
LEMMA NothingIsContent == Nothing \in Content
BY DEF Nothing, Content, Local

LEMMA ContentParts ==
  ASSUME NEW c \in Content
  PROVE  /\ c.catalogue \in SUBSET Version
         /\ c.local \in Local
         /\ c.local.approved \in SUBSET Authority
         /\ c.local.holds \in [Owner -> SUBSET Version]
         /\ c.drafts \in SUBSET Draft
         /\ c.legacy \in BOOLEAN
         /\ c # NoCheckpoint
BY CheckpointAssumption DEF Content, Local

LEMMA DigestsTyped ==
  ASSUME NEW versions \in SUBSET Version
  PROVE  Digests(versions) \subseteq Digest
BY HostAssumption DEF Digests

LEMMA CurrentIsContent ==
  ASSUME head \in Head
  PROVE  Current \in Content
BY NothingIsContent DEF Head, Current, ContentAt

(* Whole generations and written records stay, so what loads keeps loading. *)
LEMMA LoadsGrow ==
  ASSUME Grows, NEW c \in Content
  PROVE  /\ CatalogueLoads(c.catalogue) => CatalogueLoads(c.catalogue)'
         /\ Loads(c) => Loads(c)'
<1>1. Digests(c.catalogue) \subseteq Digest
  BY ContentParts, DigestsTyped
<1>2. CatalogueLoads(c.catalogue) => CatalogueLoads(c.catalogue)'
  BY <1>1 DEF Grows, CatalogueLoads, Complete
<1> QED BY <1>2 DEF Grows, Loads, LocalLoads

LEMMA RetainedGrow ==
  ASSUME TypeOK, RetainedIntact, Grows, UNCHANGED head
  PROVE  RetainedIntact'
<1>1. head.retained \subseteq Content
  BY DEF TypeOK, Head
<1>2. \A id \in head.retained : Loads(id)'
  BY <1>1, LoadsGrow DEF RetainedIntact
<1> QED BY <1>2 DEF RetainedIntact

LEMMA InitInv == Init => IndInv
<1> SUFFICES ASSUME Init PROVE IndInv
  OBVIOUS
<1>1. head.retained = {} /\ IsFiniteSet(head.retained) /\ Cardinality(head.retained) = 0
  BY FS_EmptySet DEF Init
<1>2. tx \in [content : Content, granted : SUBSET Authority, released : SUBSET Owner]
  BY NothingIsContent DEF Init, NoTransaction
<1>3. TypeOK
  BY <1>1, <1>2, HostAssumption DEF Init, TypeOK, Head, Steps
<1>4. RetainedIntact
  BY <1>1 DEF RetainedIntact, Init
<1> QED BY <1>1, <1>3, <1>4 DEF Init, IndInv, Updating, WrittenInv

-----------------------------------------------------------------------------
(* A call of the callback, by what it makes of the transaction. *)
LEMMA CallKeeps ==
  ASSUME IndInv, Grows, disk' \in DiskType, installed' \in InstalledType,
         NEW content \in Content, NEW granted \in SUBSET Authority,
         NEW released \in SUBSET Owner,
         Call(content, granted, released),
         Coherent(content.catalogue),
         Held(content.local) \subseteq content.catalogue,
         content.local.approved \subseteq Keys(content.catalogue),
         content.drafts \subseteq disk'.draft,
         content.local.approved \subseteq tx.content.local.approved \cup granted,
         \A o \in Owner : tx.content.local.holds[o] # {} =>
           content.local.holds[o] = tx.content.local.holds[o] \/ o \in released
  PROVE  IndInv'
<1>1. step = "callback" /\ UNCHANGED <<head, seen, holder, step, todo>>
  BY DEF Call
<1>2. tx' = [content |-> content, granted |-> tx.granted \cup granted,
             released |-> tx.released \cup released]
  BY DEF Call
<1>3. TypeOK'
  <2>1. used' \in [calls : 0 .. MaxCalls, faults : 0 .. MaxFaults]
    BY HostAssumption DEF Call, IndInv, TypeOK
  <2>2. tx' \in [content : Content, granted : SUBSET Authority, released : SUBSET Owner]
    BY <1>2 DEF IndInv, TypeOK
  <2> QED BY <1>1, <2>1, <2>2 DEF IndInv, TypeOK, DiskType, InstalledType
<1>4. TxInv'
  BY <1>2 DEF TxInv, Held, Keys, Coherent
<1>5. AuthorityInv'
  <2>1. Current' = Current
    BY <1>1 DEF Current, ContentAt
  <2>2. AuthorityInv
    BY <1>1 DEF IndInv, Updating, UpdateInv
  <2> QED BY <1>2, <2>1, <2>2 DEF AuthorityInv
<1>6. UpdateInv'
  BY <1>1, <1>4, <1>5 DEF IndInv, Updating, UpdateInv
<1>7. RetainedIntact'
  BY <1>1, RetainedGrow DEF IndInv
<1> QED BY <1>1, <1>3, <1>6, <1>7 DEF IndInv, Updating, WrittenInv

(* What the callback starts from. *)
LEMMA InCallback ==
  ASSUME IndInv, step = "callback"
  PROVE  /\ tx.content \in Content
         /\ TxInv
         /\ disk \in DiskType
         /\ installed \in InstalledType
BY DEF IndInv, TypeOK, Updating, UpdateInv, DiskType, InstalledType

LEMMA InstallGrows ==
  ASSUME IndInv, NEW digests \in SUBSET Digest, Install(digests)
  PROVE  /\ installed' \in InstalledType
         /\ \A d \in Digest : installed[d] = "complete" => installed'[d] = "complete"
BY DEF Install, IndInv, TypeOK, InstalledType

LEMMA WithVersionsGood ==
  ASSUME IndInv, step = "callback", NEW versions \in SUBSET Version
  PROVE  LET c == WithVersions(versions) IN
         /\ c \in Content
         /\ Coherent(c.catalogue)
         /\ Held(c.local) \subseteq c.catalogue
         /\ c.local.approved \subseteq Keys(c.catalogue)
         /\ c.drafts = tx.content.drafts
         /\ c.local = tx.content.local
<1> DEFINE old == tx.content
           new == [old EXCEPT !.catalogue = @ \cup versions]
<1>1. old \in Content /\ TxInv
  BY InCallback
<1>2. new \in Content /\ new.catalogue = old.catalogue \cup versions
      /\ new.local = old.local /\ new.drafts = old.drafts
  BY <1>1 DEF Content
<1>3. Keys(old.catalogue) \subseteq Keys(new.catalogue)
  BY <1>2 DEF Keys
<1> HIDE DEF new
<1>4. CASE Coherent(old.catalogue \cup versions)
  <2>1. WithVersions(versions) = new
    BY <1>4 DEF WithVersions, new
  <2> QED BY <1>1, <1>2, <1>3, <1>4, <2>1 DEF TxInv
<1>5. CASE ~Coherent(old.catalogue \cup versions)
  <2>1. WithVersions(versions) = old
    BY <1>5 DEF WithVersions
  <2> QED BY <1>1, <2>1 DEF TxInv
<1> QED BY <1>4, <1>5

LEMMA RegisterKeeps ==
  ASSUME IndInv, NEW v \in Version, Register(v)
  PROVE  IndInv'
<1> DEFINE c == WithVersions({v})
<1>1. step = "callback" /\ Call(c, {}, {}) /\ Install({v.digest}) /\ UNCHANGED disk
  BY DEF Register, Call
<1>2. v.digest \in Digest
  BY HostAssumption
<1>3. Grows /\ disk' \in DiskType /\ installed' \in InstalledType
  BY <1>1, <1>2, InCallback, InstallGrows DEF Grows
<1>4. /\ c \in Content
      /\ Coherent(c.catalogue)
      /\ Held(c.local) \subseteq c.catalogue
      /\ c.local.approved \subseteq Keys(c.catalogue)
      /\ c.drafts = tx.content.drafts
      /\ c.local = tx.content.local
  BY <1>1, WithVersionsGood
<1>5. c.drafts \subseteq disk'.draft
  BY <1>1, <1>4, InCallback DEF TxInv
<1> HIDE DEF c
<1> QED BY <1>1, <1>3, <1>4, <1>5, CallKeeps

LEMMA MigrateLegacyKeeps ==
  ASSUME IndInv, NEW versions \in LegacyPlan, MigrateLegacy(versions)
  PROVE  IndInv'
<1> DEFINE c == WithVersions(versions)
<1>1. step = "callback" /\ Call(c, {}, {}) /\ Install(Digests(versions))
  BY DEF MigrateLegacy, ApplyLegacyMigration, Call
<1>2. disk' = [disk EXCEPT !.registry = @ \cup {tx.content.catalogue, versions}]
  BY DEF MigrateLegacy, ApplyLegacyMigration
<1>3. versions \in SUBSET Version /\ Digests(versions) \in SUBSET Digest
  BY HostAssumption, DigestsTyped
<1>4. tx.content \in Content /\ TxInv /\ disk \in DiskType
  BY <1>1, InCallback
<1>5. disk' \in DiskType /\ disk'.draft = disk.draft /\ disk'.local = disk.local
      /\ disk'.host = disk.host /\ disk.registry \subseteq disk'.registry
  BY <1>2, <1>3, <1>4, ContentParts DEF DiskType
<1>6. Grows /\ installed' \in InstalledType
  BY <1>1, <1>3, <1>5, InstallGrows DEF Grows
<1>7. /\ c \in Content
      /\ Coherent(c.catalogue)
      /\ Held(c.local) \subseteq c.catalogue
      /\ c.local.approved \subseteq Keys(c.catalogue)
      /\ c.drafts = tx.content.drafts
      /\ c.local = tx.content.local
  BY <1>1, <1>3, WithVersionsGood
<1>8. c.drafts \subseteq disk'.draft
  BY <1>4, <1>5, <1>7 DEF TxInv
<1> HIDE DEF c
<1> QED BY <1>1, <1>5, <1>6, <1>7, <1>8, CallKeeps

LEMMA SameGrows ==
  ASSUME IndInv, step = "callback", UNCHANGED <<disk, installed>>
  PROVE  Grows /\ disk' \in DiskType /\ installed' \in InstalledType
BY InCallback DEF Grows

LEMMA ApproveKeeps ==
  ASSUME IndInv, NEW v \in Version, Approve(v)
  PROVE  IndInv'
<1> DEFINE old == tx.content
           c == [old EXCEPT !.local.approved = @ \cup {Key(v)}]
<1>1. step = "callback" /\ Call(c, {Key(v)}, {}) /\ UNCHANGED <<disk, installed>>
      /\ v \in old.catalogue
  BY DEF Approve, Call
<1>2. old \in Content /\ TxInv
  BY <1>1, InCallback
<1>3. Key(v) \in Authority
  BY HostAssumption DEF Key, Authority
<1>4. /\ c \in Content
      /\ c.catalogue = old.catalogue
      /\ c.drafts = old.drafts
      /\ c.local.approved = old.local.approved \cup {Key(v)}
      /\ c.local.holds = old.local.holds
  BY <1>2, <1>3 DEF Content, Local
<1>5. Key(v) \in Keys(old.catalogue)
  BY <1>1 DEF Keys
<1> HIDE DEF c
<1>6. Held(c.local) \subseteq c.catalogue
  BY <1>2, <1>4 DEF TxInv, Held
<1> QED
  BY <1>1, <1>2, <1>3, <1>4, <1>5, <1>6, SameGrows, CallKeeps DEF TxInv

LEMMA RevokeKeeps ==
  ASSUME IndInv, NEW v \in Version, Revoke(v)
  PROVE  IndInv'
<1> DEFINE old == tx.content
           c == [old EXCEPT !.local.approved = @ \ {Key(v)}]
<1>1. step = "callback" /\ Call(c, {}, {}) /\ UNCHANGED <<disk, installed>>
  BY DEF Revoke, Call
<1>2. old \in Content /\ TxInv
  BY <1>1, InCallback
<1>3. /\ c \in Content
      /\ c.catalogue = old.catalogue
      /\ c.drafts = old.drafts
      /\ c.local.approved = old.local.approved \ {Key(v)}
      /\ c.local.holds = old.local.holds
  BY <1>2 DEF Content, Local
<1> HIDE DEF c
<1>4. Held(c.local) \subseteq c.catalogue
  BY <1>2, <1>3 DEF TxInv, Held
<1> QED BY <1>1, <1>2, <1>3, <1>4, SameGrows, CallKeeps DEF TxInv

LEMMA HoldKeeps ==
  ASSUME IndInv, NEW o \in Owner, NEW versions \in SUBSET Version, Hold(o, versions)
  PROVE  IndInv'
<1> DEFINE old == tx.content
           c == [old EXCEPT !.local.holds[o] = versions]
<1>1. step = "callback" /\ Call(c, {}, {}) /\ UNCHANGED <<disk, installed>>
      /\ old.local.holds[o] = {} /\ versions \subseteq old.catalogue
  BY DEF Hold, Call
<1>2. old \in Content /\ TxInv
  BY <1>1, InCallback
<1>3. /\ c \in Content
      /\ c.catalogue = old.catalogue
      /\ c.drafts = old.drafts
      /\ c.local.approved = old.local.approved
      /\ c.local.holds = [old.local.holds EXCEPT ![o] = versions]
  BY <1>2 DEF Content, Local
<1> HIDE DEF c
<1>4. \A p \in Owner : c.local.holds[p] = IF p = o THEN versions ELSE old.local.holds[p]
  BY <1>2, <1>3, ContentParts
<1>5. Held(c.local) \subseteq c.catalogue
  BY <1>1, <1>2, <1>3, <1>4 DEF TxInv, Held
<1>6. \A p \in Owner : old.local.holds[p] # {} =>
        c.local.holds[p] = old.local.holds[p] \/ p \in {}
  BY <1>1, <1>4
<1>7. Coherent(c.catalogue) /\ c.local.approved \subseteq Keys(c.catalogue)
      /\ c.drafts \subseteq disk'.draft
      /\ c.local.approved \subseteq old.local.approved \cup {}
  BY <1>1, <1>2, <1>3 DEF TxInv
<1> QED BY <1>1, <1>3, <1>5, <1>6, <1>7, SameGrows, CallKeeps

LEMMA ReleaseKeeps ==
  ASSUME IndInv, NEW o \in Owner, Release(o)
  PROVE  IndInv'
<1> DEFINE old == tx.content
           c == [old EXCEPT !.local.holds[o] = {}]
<1>1. step = "callback" /\ Call(c, {}, {o}) /\ UNCHANGED <<disk, installed>>
  BY DEF Release, Call
<1>2. old \in Content /\ TxInv
  BY <1>1, InCallback
<1>3. /\ c \in Content
      /\ c.catalogue = old.catalogue
      /\ c.drafts = old.drafts
      /\ c.local.approved = old.local.approved
      /\ c.local.holds = [old.local.holds EXCEPT ![o] = {}]
  BY <1>2 DEF Content, Local
<1> HIDE DEF c
<1>4. \A p \in Owner : c.local.holds[p] = IF p = o THEN {} ELSE old.local.holds[p]
  BY <1>2, <1>3, ContentParts
<1>5. Held(c.local) \subseteq c.catalogue
  BY <1>1, <1>2, <1>3, <1>4 DEF TxInv, Held
<1>6. \A p \in Owner : old.local.holds[p] # {} =>
        c.local.holds[p] = old.local.holds[p] \/ p \in {o}
  BY <1>1, <1>4
<1>7. Coherent(c.catalogue) /\ c.local.approved \subseteq Keys(c.catalogue)
      /\ c.drafts \subseteq disk'.draft
      /\ c.local.approved \subseteq old.local.approved \cup {}
  BY <1>1, <1>2, <1>3 DEF TxInv
<1> QED BY <1>1, <1>3, <1>5, <1>6, <1>7, SameGrows, CallKeeps

(* What is held is not forgotten, since an equal source and digest is enough
   to refuse; what stays approved is still catalogued. *)
LEMMA ForgetKeeps ==
  ASSUME IndInv, NEW v \in Version, Forget(v)
  PROVE  IndInv'
<1> DEFINE old == tx.content
           c == [old EXCEPT !.catalogue = @ \ {v}, !.local.approved = @ \ {Key(v)}]
<1>1. step = "callback" /\ Call(c, {}, {}) /\ UNCHANGED <<disk, installed>>
      /\ Key(v) \notin Keys(Held(old.local))
  BY DEF Forget, Call
<1>2. old \in Content /\ TxInv
  BY <1>1, InCallback
<1>3. /\ c \in Content
      /\ c.catalogue = old.catalogue \ {v}
      /\ c.drafts = old.drafts
      /\ c.local.approved = old.local.approved \ {Key(v)}
      /\ c.local.holds = old.local.holds
  BY <1>2 DEF Content, Local
<1> HIDE DEF c
<1>4. Held(c.local) = Held(old.local) /\ v \notin Held(old.local)
  BY <1>1, <1>3 DEF Held, Keys
<1>5. Coherent(c.catalogue) /\ c.local.approved \subseteq Keys(c.catalogue)
  BY <1>2, <1>3 DEF TxInv, Coherent, Keys
<1> QED
  BY <1>1, <1>2, <1>3, <1>4, <1>5, SameGrows, CallKeeps DEF TxInv

LEMMA SaveDraftKeeps ==
  ASSUME IndInv, NEW d \in Draft, SaveDraft(d)
  PROVE  IndInv'
<1> DEFINE old == tx.content
           c == [old EXCEPT !.drafts = @ \cup {d}]
<1>1. step = "callback" /\ Call(c, {}, {}) /\ UNCHANGED installed
      /\ disk' = [disk EXCEPT !.draft = @ \cup {d}]
  BY DEF SaveDraft, Call
<1>2. old \in Content /\ TxInv /\ disk \in DiskType /\ installed \in InstalledType
  BY <1>1, InCallback
<1>3. /\ c \in Content
      /\ c.catalogue = old.catalogue
      /\ c.drafts = old.drafts \cup {d}
      /\ c.local = old.local
  BY <1>2 DEF Content
<1>4. /\ disk' \in DiskType
      /\ disk'.draft = disk.draft \cup {d}
      /\ disk'.registry = disk.registry
      /\ disk'.local = disk.local
      /\ disk'.host = disk.host
  BY <1>1, <1>2 DEF DiskType
<1>5. Grows
  BY <1>1, <1>4 DEF Grows
<1> HIDE DEF c
<1> QED BY <1>1, <1>2, <1>3, <1>4, <1>5, CallKeeps DEF TxInv

LEMMA DeleteDraftKeeps ==
  ASSUME IndInv, NEW d \in Draft, DeleteDraft(d)
  PROVE  IndInv'
<1> DEFINE old == tx.content
           c == [old EXCEPT !.drafts = @ \ {d}]
<1>1. step = "callback" /\ Call(c, {}, {}) /\ UNCHANGED <<disk, installed>>
  BY DEF DeleteDraft, Call
<1>2. old \in Content /\ TxInv
  BY <1>1, InCallback
<1>3. /\ c \in Content
      /\ c.catalogue = old.catalogue
      /\ c.drafts = old.drafts \ {d}
      /\ c.local = old.local
  BY <1>2 DEF Content
<1> HIDE DEF c
<1> QED BY <1>1, <1>2, <1>3, SameGrows, CallKeeps DEF TxInv

LEMMA SetLegacyModeKeeps ==
  ASSUME IndInv, NEW legacy \in BOOLEAN, SetLegacyMode(legacy)
  PROVE  IndInv'
<1> DEFINE old == tx.content
           c == [old EXCEPT !.legacy = legacy]
<1>1. step = "callback" /\ Call(c, {}, {}) /\ UNCHANGED <<disk, installed>>
  BY DEF SetLegacyMode, Call
<1>2. old \in Content /\ TxInv
  BY <1>1, InCallback
<1>3. /\ c \in Content
      /\ c.catalogue = old.catalogue
      /\ c.drafts = old.drafts
      /\ c.local = old.local
  BY <1>2 DEF Content
<1> HIDE DEF c
<1> QED BY <1>1, <1>2, <1>3, SameGrows, CallKeeps DEF TxInv

(* The restored catalogue was loaded, and what is held is in it. *)
LEMMA RestoreKeeps ==
  ASSUME IndInv, NEW id \in head.retained, Restore(id)
  PROVE  IndInv'
<1> DEFINE old == tx.content
           c == Restored(id)
<1>1. step = "callback" /\ Call(c, {}, {}) /\ UNCHANGED <<disk, installed>>
      /\ Coherent(id.catalogue) /\ Held(old.local) \subseteq id.catalogue
      /\ id.drafts \subseteq disk.draft
  BY DEF Restore, Call, CatalogueLoads
<1>2. old \in Content /\ TxInv /\ id \in Content
  BY <1>1, InCallback DEF IndInv, TypeOK, Head
<1>3. /\ c \in Content
      /\ c.catalogue = id.catalogue
      /\ c.drafts = id.drafts
      /\ c.local.approved = old.local.approved \cap Keys(id.catalogue)
      /\ c.local.holds = old.local.holds
  BY <1>2 DEF Content, Local, Restored
<1> HIDE DEF c
<1>4. Held(c.local) \subseteq c.catalogue
  BY <1>1, <1>3 DEF Held
<1> QED BY <1>1, <1>2, <1>3, <1>4, SameGrows, CallKeeps DEF TxInv

LEMMA CallbackKeeps == IndInv /\ Callback => IndInv'
BY RegisterKeeps, ApproveKeeps, RevokeKeeps, ForgetKeeps, MigrateLegacyKeeps,
   HoldKeeps, ReleaseKeeps, SaveDraftKeeps, DeleteDraftKeeps, SetLegacyModeKeeps,
   RestoreKeeps DEF Callback
-----------------------------------------------------------------------------
(* The rest of an update, and a collection. *)

LEMMA BeginUpdateKeeps ==
  ASSUME IndInv, NEW c \in Client, BeginUpdate(c)
  PROVE  IndInv'
<1>1. /\ holder = NoClient /\ holder' = c /\ step' = "callback"
      /\ seen[c] = head.revision
      /\ head.revision < MaxRevision /\ Cardinality(head.retained) < MaxRetained
      /\ HeadLoads
      /\ tx' = [NoTransaction EXCEPT !.content = Current]
      /\ UNCHANGED <<head, disk, installed, seen, todo, used>>
  BY DEF BeginUpdate, UpToDate, HistoryLeft
<1>2. Current \in Content
  BY CurrentIsContent DEF IndInv, TypeOK
<1>3. tx' = [content |-> Current, granted |-> {}, released |-> {}]
  BY <1>1 DEF NoTransaction
<1>4. TypeOK'
  <2>1. tx' \in [content : Content, granted : SUBSET Authority, released : SUBSET Owner]
    BY <1>2, <1>3
  <2> QED BY <1>1, <2>1 DEF IndInv, TypeOK, Steps
<1>5. TxInv'
  <2>1. CASE head.current = NoCheckpoint
    <3>1. Current = Nothing
      BY <2>1 DEF Current, ContentAt
    <3> QED BY <1>3, <3>1 DEF TxInv, Nothing, Held, Keys, Coherent
  <2>2. CASE head.current # NoCheckpoint
    <3>1. Loads(Current)
      BY <1>1, <2>2 DEF Current, ContentAt, HeadLoads
    <3> QED BY <1>1, <1>3, <3>1 DEF TxInv, Loads, CatalogueLoads, LocalLoads, Held, Keys, Coherent
  <2> QED BY <2>1, <2>2
<1>6. AuthorityInv'
  BY <1>1, <1>3 DEF AuthorityInv, Current, ContentAt
<1>7. RetainedIntact'
  BY <1>1 DEF IndInv, RetainedIntact, Loads, CatalogueLoads, LocalLoads, Complete
<1> QED
  BY <1>1, <1>4, <1>5, <1>6, <1>7, HostAssumption
  DEF IndInv, UpdateInv, WrittenInv, Updating

LEMMA SaveCatalogueKeeps == IndInv /\ SaveCatalogue => IndInv'
<1> SUFFICES ASSUME IndInv, SaveCatalogue PROVE IndInv'
  OBVIOUS
<1>1. /\ step = "callback" /\ step' = "catalogue"
      /\ Complete(Digests(tx.content.catalogue))
      /\ disk' = [disk EXCEPT !.registry = @ \cup {tx.content.catalogue}]
      /\ UNCHANGED <<head, installed, seen, holder, tx, todo, used>>
  BY DEF SaveCatalogue
<1>2. tx.content \in Content /\ TxInv /\ disk \in DiskType /\ installed \in InstalledType
  BY <1>1, InCallback
<1>3. /\ disk' \in DiskType
      /\ disk'.registry = disk.registry \cup {tx.content.catalogue}
      /\ disk'.local = disk.local /\ disk'.host = disk.host /\ disk'.draft = disk.draft
  BY <1>1, <1>2, ContentParts DEF DiskType
<1>4. RetainedIntact'
  BY <1>1, <1>3, RetainedGrow DEF IndInv, Grows
<1>5. TypeOK'
  BY <1>1, <1>3 DEF IndInv, TypeOK, DiskType, Steps
<1>6. TxInv'
  BY <1>1, <1>2, <1>3 DEF TxInv, Coherent, Held, Keys
<1>7. CatalogueLoads(tx.content.catalogue)'
  BY <1>1, <1>2, <1>3 DEF CatalogueLoads, TxInv, Coherent, Complete, Digests
<1>8. UpdateInv'
  BY <1>1, <1>6 DEF IndInv, Updating, UpdateInv, AuthorityInv, Current, ContentAt
<1> QED BY <1>1, <1>4, <1>5, <1>7, <1>8 DEF IndInv, WrittenInv, Updating

LEMMA SaveLocalKeeps == IndInv /\ SaveLocal => IndInv'
<1> SUFFICES ASSUME IndInv, SaveLocal PROVE IndInv'
  OBVIOUS
<1>1. /\ step = "catalogue" /\ step' = "local"
      /\ disk' = [disk EXCEPT !.local = @ \cup {tx.content.local}]
      /\ UNCHANGED <<head, installed, seen, holder, tx, todo, used>>
  BY DEF SaveLocal
<1>2. tx.content \in Content /\ UpdateInv /\ disk \in DiskType
  BY <1>1 DEF IndInv, Updating, TypeOK, DiskType
<1>3. /\ disk' \in DiskType
      /\ disk'.registry = disk.registry /\ disk'.local = disk.local \cup {tx.content.local}
      /\ disk'.host = disk.host /\ disk'.draft = disk.draft
  BY <1>1, <1>2, ContentParts DEF DiskType
<1>4. RetainedIntact'
  BY <1>1, <1>3, RetainedGrow DEF IndInv, Grows
<1>5. TypeOK'
  BY <1>1, <1>3 DEF IndInv, TypeOK, DiskType, Steps
<1>6. CatalogueLoads(tx.content.catalogue)'
  BY <1>1, <1>3 DEF IndInv, WrittenInv, CatalogueLoads, Coherent, Complete, Digests
<1>7. UpdateInv'
  BY <1>1, <1>2, <1>3 DEF UpdateInv, TxInv, Coherent, Held, Keys, AuthorityInv, Current, ContentAt
<1> QED BY <1>1, <1>3, <1>4, <1>5, <1>6, <1>7 DEF IndInv, WrittenInv, Updating

LEMMA SaveHostKeeps == IndInv /\ SaveHost => IndInv'
<1> SUFFICES ASSUME IndInv, SaveHost PROVE IndInv'
  OBVIOUS
<1>1. /\ step = "local" /\ step' = "host"
      /\ disk' = [disk EXCEPT !.host = @ \cup {tx.content}]
      /\ UNCHANGED <<head, installed, seen, holder, tx, todo, used>>
  BY DEF SaveHost
<1>2. tx.content \in Content /\ UpdateInv /\ disk \in DiskType
  BY <1>1 DEF IndInv, Updating, TypeOK, DiskType
<1>3. /\ disk' \in DiskType
      /\ disk'.registry = disk.registry /\ disk'.local = disk.local
      /\ disk'.host = disk.host \cup {tx.content} /\ disk'.draft = disk.draft
  BY <1>1, <1>2 DEF DiskType
<1>4. RetainedIntact'
  BY <1>1, <1>3, RetainedGrow DEF IndInv, Grows
<1>5. TypeOK'
  BY <1>1, <1>3 DEF IndInv, TypeOK, DiskType, Steps
<1>6. CatalogueLoads(tx.content.catalogue)' /\ tx.content.local \in disk'.local
  BY <1>1, <1>3 DEF IndInv, WrittenInv, CatalogueLoads, Coherent, Complete, Digests
<1>7. UpdateInv'
  BY <1>1, <1>2, <1>3 DEF UpdateInv, TxInv, Coherent, Held, Keys, AuthorityInv, Current, ContentAt
<1> QED BY <1>1, <1>3, <1>4, <1>5, <1>6, <1>7 DEF IndInv, WrittenInv, Updating

(* The head comes last, when all it names is there. *)
LEMMA WriteHeadKeeps == IndInv /\ WriteHead => IndInv'
<1> SUFFICES ASSUME IndInv, WriteHead PROVE IndInv'
  OBVIOUS
<1> DEFINE c == tx.content
<1>1. /\ step = "host" /\ step' = "idle" /\ holder' = NoClient
      /\ tx' = NoTransaction /\ todo' = {}
      /\ head' = [revision |-> head.revision + 1, current |-> c,
                  retained |-> head.retained \cup {c}]
      /\ UNCHANGED <<disk, installed, seen, used>>
  BY DEF WriteHead, Unlock
<1>2. c \in Content /\ UpdateInv /\ WrittenInv
  BY <1>1 DEF IndInv, Updating, TypeOK
<1>3. Loads(c)
  BY <1>1, <1>2 DEF UpdateInv, TxInv, WrittenInv, Loads, LocalLoads
<1>4. /\ IsFiniteSet(head'.retained)
      /\ Cardinality(head'.retained) <= MaxRetained
  <2>1. IsFiniteSet(head.retained) /\ Cardinality(head.retained) \in Nat
        /\ Cardinality(head.retained) < MaxRetained
    BY <1>2, FS_CardinalityType DEF IndInv, UpdateInv
  <2>2. /\ IsFiniteSet(head.retained \cup {c})
        /\ Cardinality(head.retained \cup {c}) \in {Cardinality(head.retained), Cardinality(head.retained) + 1}
    BY <2>1, FS_AddElement
  <2> QED BY <1>1, <2>1, <2>2, HostAssumption
<1>5. tx' \in [content : Content, granted : SUBSET Authority, released : SUBSET Owner]
  BY <1>1, NothingIsContent DEF NoTransaction
<1>6. TypeOK'
  BY <1>1, <1>2, <1>4, <1>5, HostAssumption DEF IndInv, TypeOK, Head, Steps, UpdateInv
<1>7. RetainedIntact'
  <2>1. \A id \in head'.retained : Loads(id)
    BY <1>1, <1>3 DEF IndInv, RetainedIntact
  <2>2. \A id \in head'.retained : Loads(id)'
    BY <1>1, <2>1 DEF Loads, CatalogueLoads, LocalLoads, Complete
  <2> QED BY <1>1, <2>2 DEF RetainedIntact
<1> QED BY <1>1, <1>4, <1>6, <1>7 DEF IndInv, Updating, WrittenInv

(* A call that leaves the head, the records and whole generations alone. *)
LEMMA QuietKeeps ==
  ASSUME IndInv, TypeOK', UNCHANGED <<head, disk>>, step' \in {"idle", "sweep"},
         holder' = NoClient <=> step' = "idle",
         \A d \in Protected : installed'[d] = installed[d],
         step' = "sweep" => todo' \cap Protected = {}
  PROVE  IndInv'
<1>1. Protected' = Protected
  BY DEF Protected
<1>2. RetainedIntact'
  <2>1. \A id \in head.retained : Loads(id)'
    <3> SUFFICES ASSUME NEW id \in head.retained PROVE Loads(id)'
      OBVIOUS
    <3>1. Loads(id) /\ Digests(id.catalogue) \subseteq Protected
      BY DEF IndInv, RetainedIntact, Protected
    <3> QED BY <3>1 DEF Loads, CatalogueLoads, LocalLoads, Complete
  <2> QED BY <2>1 DEF RetainedIntact, IndInv
<1> QED BY <1>1, <1>2 DEF IndInv, Updating, WrittenInv

LEMMA FailKeeps == IndInv /\ Fail => IndInv'
<1> SUFFICES ASSUME IndInv, Fail PROVE IndInv'
  OBVIOUS
<1>1. tx' \in [content : Content, granted : SUBSET Authority, released : SUBSET Owner]
  BY NothingIsContent DEF Fail, Unlock, NoTransaction
<1>2. TypeOK'
  BY <1>1, HostAssumption DEF IndInv, TypeOK, Fail, Unlock, Steps
<1> QED BY <1>2, QuietKeeps DEF Fail, Unlock

LEMMA EndCollectKeeps == IndInv /\ EndCollect => IndInv'
<1> SUFFICES ASSUME IndInv, EndCollect PROVE IndInv'
  OBVIOUS
<1>1. tx' \in [content : Content, granted : SUBSET Authority, released : SUBSET Owner]
  BY NothingIsContent DEF EndCollect, Unlock, NoTransaction
<1>2. TypeOK'
  BY <1>1, HostAssumption DEF IndInv, TypeOK, EndCollect, Unlock, Steps
<1> QED BY <1>2, QuietKeeps DEF EndCollect, Unlock

LEMMA BeginCollectKeeps ==
  ASSUME IndInv, NEW c \in Client, BeginCollect(c)
  PROVE  IndInv'
<1>1. TypeOK'
  BY DEF IndInv, TypeOK, BeginCollect, Steps, Unprotected
<1> QED
  BY <1>1, QuietKeeps, HostAssumption DEF BeginCollect, Unprotected

LEMMA RemoveKeeps ==
  ASSUME IndInv, NEW d \in todo, RemoveSome(d) \/ RemoveAll(d)
  PROVE  IndInv'
<1>1. step = "sweep" /\ step' = "sweep" /\ UNCHANGED <<head, disk, seen, holder, tx, used>>
      /\ todo' \subseteq todo
  BY DEF RemoveSome, RemoveAll
<1>2. PICK state \in {"partial", "absent"} : installed' = [installed EXCEPT ![d] = state]
  BY DEF RemoveSome, RemoveAll
<1>3. TypeOK'
  BY <1>1, <1>2 DEF IndInv, TypeOK
<1>4. todo \cap Protected = {} /\ d \in Digest
  BY <1>1 DEF IndInv, TypeOK
<1>5. \A p \in Protected : installed'[p] = installed[p]
  BY <1>2, <1>4 DEF IndInv, TypeOK
<1> QED BY <1>1, <1>3, <1>4, <1>5, QuietKeeps DEF IndInv

LEMMA ReleaseCheckpointKeeps ==
  ASSUME IndInv, NEW c \in Client, NEW id \in head.retained, ReleaseCheckpoint(c, id)
  PROVE  IndInv'
<1>1. /\ holder = NoClient /\ id # head.current /\ head.revision < MaxRevision
      /\ head' = [head EXCEPT !.revision = @ + 1, !.retained = @ \ {id}]
      /\ UNCHANGED <<disk, installed, seen, holder, step, tx, todo, used>>
  BY DEF ReleaseCheckpoint, UpToDate
<1>2. step = "idle"
  BY <1>1 DEF IndInv
<1>3. head'.current = head.current /\ head'.retained = head.retained \ {id}
      /\ head' \in Head
  <2>1. head \in Head
    BY DEF IndInv, TypeOK
  <2>2. head.revision + 1 \in 0 .. MaxRevision
    BY <1>1, <2>1, HostAssumption DEF Head
  <2> QED BY <1>1, <2>1, <2>2 DEF Head
<1>4. /\ IsFiniteSet(head'.retained)
      /\ Cardinality(head'.retained) <= MaxRetained
  <2>1. /\ IsFiniteSet(head.retained \ {id})
        /\ Cardinality(head.retained \ {id}) <= Cardinality(head.retained)
    BY FS_Subset DEF IndInv
  <2>2. Cardinality(head.retained \ {id}) \in Nat /\ Cardinality(head.retained) \in Nat
    BY <2>1, FS_CardinalityType DEF IndInv
  <2> QED BY <1>3, <2>1, <2>2, HostAssumption DEF IndInv, TypeOK
<1>5. TypeOK'
  BY <1>1, <1>3, <1>4 DEF IndInv, TypeOK
<1>6. RetainedIntact'
  <2>1. \A x \in head'.retained : Loads(x)'
    BY <1>1, <1>3 DEF IndInv, RetainedIntact, Loads, CatalogueLoads, LocalLoads, Complete
  <2> QED BY <1>1, <1>3, <2>1 DEF IndInv, RetainedIntact
<1> QED BY <1>1, <1>2, <1>4, <1>5, <1>6 DEF IndInv, Updating, WrittenInv

LEMMA ViewKeeps ==
  ASSUME IndInv, NEW c \in Client, View(c)
  PROVE  IndInv'
<1>1. step = "idle" /\ UNCHANGED <<head, disk, installed, holder, step, tx, todo, used>>
  BY DEF View, IndInv
<1>2. TypeOK'
  BY <1>1 DEF IndInv, TypeOK, View, Head
<1> QED BY <1>1, <1>2, QuietKeeps DEF IndInv

LEMMA StutterKeeps == IndInv /\ UNCHANGED vars => IndInv'
BY DEF vars, IndInv, TypeOK, Updating, UpdateInv, TxInv, AuthorityInv, Current,
       ContentAt, WrittenInv, CatalogueLoads, Complete, RetainedIntact, Loads,
       LocalLoads, Protected

LEMMA StepKeeps == IndInv /\ [Next]_vars => IndInv'
BY CallbackKeeps, BeginUpdateKeeps, SaveCatalogueKeeps, SaveLocalKeeps, SaveHostKeeps,
   WriteHeadKeeps, FailKeeps, EndCollectKeeps, BeginCollectKeeps, RemoveKeeps,
   ReleaseCheckpointKeeps, ViewKeeps, StutterKeeps DEF Next

-----------------------------------------------------------------------------
(* Only the end of an update and the release of a checkpoint replace the
   head. *)
LEMMA HeadChanges ==
  [Next]_vars /\ head' # head =>
    WriteHead \/ \E c \in Client : \E id \in head.retained : ReleaseCheckpoint(c, id)
<1> SUFFICES ASSUME [Next]_vars, head' # head
             PROVE  WriteHead \/ \E c \in Client : \E id \in head.retained :
                                   ReleaseCheckpoint(c, id)
  OBVIOUS
<1>1. ~ UNCHANGED vars
  BY DEF vars
<1>2. ~ Callback
  BY DEF Callback, Register, MigrateLegacy, Approve, Revoke, Hold, Release, Forget,
         SaveDraft, DeleteDraft, SetLegacyMode, Restore, Call
<1>3. ~ (SaveCatalogue \/ SaveLocal \/ SaveHost \/ EndCollect \/ Fail)
  BY DEF SaveCatalogue, SaveLocal, SaveHost, EndCollect, Fail
<1>4. ~ \E d \in todo : RemoveSome(d) \/ RemoveAll(d)
  BY DEF RemoveSome, RemoveAll
<1>5. ~ \E c \in Client : View(c) \/ BeginUpdate(c) \/ BeginCollect(c)
  BY DEF View, BeginUpdate, BeginCollect
<1> QED
  BY <1>1, <1>2, <1>3, <1>4, <1>5 DEF Next

LEMMA ReleaseKeepsCurrent ==
  ASSUME TypeOK, NEW c \in Client, NEW id \in head.retained, ReleaseCheckpoint(c, id)
  PROVE  ContentAt(head') = Current
BY DEF TypeOK, Head, ReleaseCheckpoint, ContentAt, Current

LEMMA WriteHeadInstallsTx ==
  ASSUME IndInv, WriteHead
  PROVE  /\ ContentAt(head') = tx.content
         /\ head'.revision = head.revision + 1
         /\ holder # NoClient
         /\ UpdateInv
<1>1. tx.content \in Content
  BY DEF IndInv, TypeOK
<1>2. head'.current = tx.content /\ head'.revision = head.revision + 1
  BY DEF WriteHead
<1>3. tx.content # NoCheckpoint
  BY <1>1, CheckpointAssumption
<1>4. step = "host"
  BY DEF WriteHead
<1> QED
  BY <1>2, <1>3, <1>4 DEF ContentAt, IndInv, Updating

(* SkillHost.TypeOK: the revision and the number of retained checkpoints stay
   within the limits the next read of the head enforces. *)
THEOREM SkillsTypeCorrect == Spec => []TypeOK
<1>1. IndInv => TypeOK
  BY DEF IndInv
<1> QED
  BY <1>1, InitInv, StepKeeps, PTL DEF Spec

(* SkillHost.RetainedIntact: whatever dies where, every checkpoint the head
   retains can be loaded. *)
THEOREM RetainedStaysIntact == Spec => []RetainedIntact
<1>1. IndInv => RetainedIntact
  BY DEF IndInv
<1> QED
  BY <1>1, InitInv, StepKeeps, PTL DEF Spec

(* SkillHost.HoldsUntilReleased: no update, rollback or collection takes a
   hold from its owner. *)
THEOREM HoldsAreKept == Spec => HoldsUntilReleased
<1>1. IndInv /\ [Next]_vars =>
        [\A o \in Owner : LET held == Current.local.holds[o] IN
           held # {} => \/ ContentAt(head').local.holds[o] = held
                        \/ o \in tx.released]_vars
  <2> SUFFICES ASSUME IndInv, [Next]_vars, NEW o \in Owner,
                      Current.local.holds[o] # {}
               PROVE  \/ ContentAt(head').local.holds[o] = Current.local.holds[o]
                      \/ o \in tx.released
    OBVIOUS
  <2>1. CASE head' = head
    BY <2>1 DEF Current
  <2>2. CASE WriteHead
    BY <2>2, WriteHeadInstallsTx DEF UpdateInv, AuthorityInv
  <2>3. CASE \E c \in Client : \E id \in head.retained : ReleaseCheckpoint(c, id)
    BY <2>3, ReleaseKeepsCurrent DEF IndInv
  <2> QED
    BY <2>1, <2>2, <2>3, HeadChanges
<1> QED
  BY <1>1, InitInv, StepKeeps, PTL DEF Spec, HoldsUntilReleased

(* SkillHost.ApprovalsAreGiven: an approval comes into force only by being
   given in the transaction that commits. *)
THEOREM ApprovalsAreNotInvented == Spec => ApprovalsAreGiven
<1>1. IndInv /\ [Next]_vars =>
        [ContentAt(head').local.approved
           \subseteq Current.local.approved \cup tx.granted]_vars
  <2> SUFFICES ASSUME IndInv, [Next]_vars
               PROVE  ContentAt(head').local.approved
                        \subseteq Current.local.approved \cup tx.granted
    OBVIOUS
  <2>1. CASE head' = head
    BY <2>1 DEF Current
  <2>2. CASE WriteHead
    BY <2>2, WriteHeadInstallsTx DEF UpdateInv, AuthorityInv
  <2>3. CASE \E c \in Client : \E id \in head.retained : ReleaseCheckpoint(c, id)
    BY <2>3, ReleaseKeepsCurrent DEF IndInv
  <2> QED
    BY <2>1, <2>2, <2>3, HeadChanges
<1> QED
  BY <1>1, InitInv, StepKeeps, PTL DEF Spec, ApprovalsAreGiven

(* SkillHost.NoLostUpdate: whoever replaces the head has read the revision it
   replaces. *)
THEOREM UpdatesAreNotLost == Spec => NoLostUpdate
<1>1. IndInv /\ [Next]_vars =>
        [head' # head =>
           /\ head'.revision = head.revision + 1
           /\ IF holder = NoClient THEN \E c \in Client : seen[c] = head.revision
                                   ELSE seen[holder] = head.revision]_vars
  <2> SUFFICES ASSUME IndInv, [Next]_vars, head' # head
               PROVE  /\ head'.revision = head.revision + 1
                      /\ IF holder = NoClient THEN \E c \in Client : seen[c] = head.revision
                                              ELSE seen[holder] = head.revision
    OBVIOUS
  <2>1. CASE WriteHead
    BY <2>1, WriteHeadInstallsTx DEF UpdateInv
  <2>2. CASE \E c \in Client : \E id \in head.retained : ReleaseCheckpoint(c, id)
    <3>1. PICK c \in Client, id \in head.retained : ReleaseCheckpoint(c, id)
      BY <2>2
    <3>2. head'.revision = head.revision + 1
      BY <3>1 DEF ReleaseCheckpoint, IndInv, TypeOK, Head
    <3> QED
      BY <3>1, <3>2 DEF ReleaseCheckpoint, UpToDate
  <2> QED
    BY <2>1, <2>2, HeadChanges
<1> QED
  BY <1>1, InitInv, StepKeeps, PTL DEF Spec, NoLostUpdate

=============================================================================
