------------------------- MODULE ControlPlaneProofs -------------------------
(* Theorems of the parts of the control plane whose clients race for rows, *)
(* files and guests: DeploymentCreation, Registry and GuestEdits, for any  *)
(* number of requests and of the repetitions that the models bound; of     *)
(* ScenarioTopology, for any declarations, documents and teams; and of     *)
(* ScenarioReview and PreflightChecks, for any targets, plans and services.*)
EXTENDS DeploymentCreation, Registry, GuestEdits, ScenarioTopology, PreflightChecks, FiniteSetTheorems, TLAPS

-----------------------------------------------------------------------------
(* DeploymentCreation.                                                     *)

CreateSteps == {"ready", "checked", "scaffolded", "flushed", "seeded", "created", "ended"}
Contents == Creates \cup {NoFile, Broken, "template", "operator"}
Creations == [step : CreateSteps, brings : Brings, prior : Contents, applied : BOOLEAN]

CreationTypeOK ==
  /\ create \in [Creates -> Creations]
  /\ row \in Creates \cup {NoRow}
  /\ password \in Contents
  /\ vault \in BOOLEAN /\ stopped \in BOOLEAN

\* From its flush on a request is the only writer, and the name is free.
OneWriter == \A c \in Creates :
  /\ Writing(c) => row = NoRow /\ \A d \in Creates : Writing(d) => d = c
  /\ create[c].step = "created" <=> row = c

\* Whose the password is that is in the file; a request that failed has its
\* own there only if the process was stopped over it.
PasswordHasOwner == \A c \in Creates : password = c =>
  \/ create[c].step = "seeded" /\ create[c].applied
  \/ create[c].step = "created"
  \/ create[c].step = "ended" /\ stopped

\* What the writer would put back is no password of a request that failed,
\* with the same exception, and never its own.
PriorHasOwner == \A c \in Creates : create[c].step = "seeded" /\ create[c].applied =>
  \A d \in Creates : create[c].prior = d => create[d].step = "ended" /\ stopped

\* A create writes what it has brought, and that stays once it is committed.
SeededIsApplied == \A c \in Creates :
  /\ create[c].applied => create[c].brings = "password" /\ create[c].step \in {"seeded", "created", "ended"}
  /\ create[c].step = "seeded" /\ create[c].brings = "password" => create[c].applied /\ password = c
  /\ create[c].step = "created" /\ create[c].brings = "password" => password = c

CreationInv == CreationTypeOK /\ OneWriter /\ PasswordHasOwner /\ PriorHasOwner /\ SeededIsApplied

\* A creation that has written its password is one.
LEMMA SeededCreation ==
  ASSUME NEW q \in Creations, NEW p \in Contents
  PROVE  [q EXCEPT !.step = "seeded", !.prior = p, !.applied = TRUE] \in Creations
BY DEF Creations, CreateSteps

\* Every step of a request, its reversal included.
LEMMA CreateKeeps ==
  ASSUME CreationInv, NEW c \in Creates,
         Check(c) \/ Scaffold(c) \/ Flush(c) \/ BindFails(c) \/ Seed(c) \/ SeedFails(c) \/ Commit(c) \/ CommitFails(c)
  PROVE  CreationInv'
<1> USE CreatesAssumption DEF CreationInv, CreationTypeOK, CreateSteps, Contents, Creations, Brings, NoRow, NoFile, Broken,
            OneWriter, PasswordHasOwner, PriorHasOwner, SeededIsApplied, Writing, Steps, Fails
<1>1. CASE Check(c)
  BY <1>1 DEF Check
<1>2. CASE Scaffold(c)
  <2>1. \/ create' = [create EXCEPT ![c].step = "scaffolded"] /\ password' \in {password, "template"}
           /\ (password' # password => password = NoFile)
        \/ create' = [create EXCEPT ![c].step = "ended"] /\ password' = password
    BY <1>2 DEF Scaffold, Inherits
  <2>2. create[c].step = "checked" /\ UNCHANGED <<row, stopped>> /\ vault' \in BOOLEAN
    BY <1>2 DEF Scaffold, Inherits
  <2>3. CreationTypeOK'
    BY <2>1, <2>2
  <2>4. OneWriter' /\ PriorHasOwner'
    BY <2>1, <2>2
  <2>5. PasswordHasOwner' /\ SeededIsApplied'
    BY <2>1, <2>2
  <2>6. QED
    BY <2>3, <2>4, <2>5
<1>3. CASE Flush(c)
  BY <1>3 DEF Flush, NoWriter
<1>4. CASE BindFails(c)
  BY <1>4 DEF BindFails
<1>5. CASE Seed(c)
  <2>1. create[c].step = "flushed" /\ UNCHANGED <<row, vault, stopped>>
    BY <1>5 DEF Seed
  <2>2. CASE create[c].brings = "password"
    <3>1. /\ password' = c
          /\ create' = [create EXCEPT ![c] = [@ EXCEPT !.step = "seeded", !.prior = password, !.applied = TRUE]]
      BY <1>5, <2>2 DEF Seed
    <3>2. /\ create'[c].step = "seeded" /\ create'[c].brings = "password"
          /\ create'[c].prior = password /\ create'[c].applied
          /\ \A d \in Creates : d # c => create'[d] = create[d]
      BY <2>2, <3>1
    <3>3. CreationTypeOK' /\ OneWriter'
      <4> HIDE DEF Creations, Contents, CreateSteps, Brings
      <4>0. create[c] \in Creations /\ password \in Contents
        OBVIOUS
      <4>1. create'[c] \in Creations
        BY <3>1, <4>0, SeededCreation
      <4>2. CreationTypeOK'
        BY <2>1, <3>1, <4>1 DEF Contents
      <4>3. OneWriter'
        BY <2>1, <3>2
      <4>4. QED
        BY <4>2, <4>3
    <3>4. PasswordHasOwner' /\ SeededIsApplied'
      BY <2>1, <3>1, <3>2
    <3>5. PriorHasOwner'
      BY <2>1, <3>1, <3>2
    <3>6. QED
      BY <3>3, <3>4, <3>5
  <2>3. CASE create[c].brings # "password"
    <3>1. create' = [create EXCEPT ![c].step = "seeded"] /\ password' = password
      BY <1>5, <2>3 DEF Seed
    <3>2. CreationTypeOK' /\ OneWriter' /\ PasswordHasOwner'
      BY <2>1, <3>1
    <3>3. SeededIsApplied' /\ PriorHasOwner'
      BY <2>1, <2>3, <3>1
    <3>4. QED
      BY <3>2, <3>3
  <2>4. QED
    BY <2>2, <2>3
<1>6. CASE SeedFails(c)
  BY <1>6 DEF SeedFails
<1>7. CASE Commit(c)
  BY <1>7 DEF Commit
<1>8. CASE CommitFails(c)
  BY <1>8 DEF CommitFails, Reverted
<1>9. QED
  BY <1>1, <1>2, <1>3, <1>4, <1>5, <1>6, <1>7, <1>8

\* A create that lost its name, failed or was undone has left the deployment
\* the password it was created with (create_deployment, VaultSeed.revert).
THEOREM CreationHoldsAlways == CreationSpec => []CreationHolds
<1>1. CreationInit => CreationInv
  <2> SUFFICES ASSUME CreationInit PROVE CreationInv
    OBVIOUS
  <2>1. \A c \in Creates : \E b \in Brings : create[c] = [Ready EXCEPT !.brings = b]
    BY DEF CreationInit
  <2>2. \A c \in Creates : create[c].step = "ready" /\ ~create[c].applied
    BY <2>1 DEF Ready
  <2>3. create \in [Creates -> Creations]
    <3>1. \A b \in Brings : [Ready EXCEPT !.brings = b]
                              \in Creations
      BY DEF Ready, CreateSteps, Contents, Creations
    <3>2. QED
      BY <3>1 DEF CreationInit
  <2>4. QED
    BY <2>2, <2>3, CreatesAssumption DEF CreationInit, CreationInv, CreationTypeOK, Contents, NoRow, NoFile,
       OneWriter, PasswordHasOwner, PriorHasOwner, SeededIsApplied, Writing
<1>2. CreationInv /\ [CreationNext]_creationVars => CreationInv'
  <2> SUFFICES ASSUME CreationInv, [CreationNext]_creationVars PROVE CreationInv'
    OBVIOUS
  <2>1. CASE ProcessIsKilled
    BY <2>1 DEF ProcessIsKilled, CreationInv, CreationTypeOK, Creations, CreateSteps, OneWriter, PasswordHasOwner,
                PriorHasOwner, SeededIsApplied, Writing
  <2>2. CASE UNCHANGED creationVars
    BY <2>2 DEF creationVars, CreationInv, CreationTypeOK, OneWriter, PasswordHasOwner, PriorHasOwner,
                SeededIsApplied, Writing
  <2>3. QED
    BY <2>1, <2>2, CreateKeeps DEF CreationNext
<1>3. CreationInv => CreationHolds
  BY CreatesAssumption DEF CreationInv, CreationTypeOK, Creations, CreationHolds, OneWriter, PasswordHasOwner, SeededIsApplied, NoRow
<1>4. QED
  BY <1>1, <1>2, <1>3, PTL DEF CreationSpec

-----------------------------------------------------------------------------
(* GuestEdits.                                                             *)

EditSteps == {"idle", "reviewed", "checked", "read", "sent"}
Requested == [step : EditSteps, kind : Kind, review : [version : Nat, target : Nat], read : Nat, want : Nat]

EditTypeOK ==
  /\ imported \in [version : Nat, name : {"old", "new"}, size : Nat, locked : BOOLEAN, pending : BOOLEAN]
  /\ target \in Nat /\ owned \in BOOLEAN /\ members \in BOOLEAN
  /\ worker \subseteq [by : Editors, kind : Async, want : Nat]
  /\ editor \in [Editors -> Requested]

\* What fits the configuration: a device without pending changes, a disk that grows.
Fits(q) == /\ q.kind = "disk" => q.want > imported.size
           /\ q.kind \in {"nic", "disk"} => ~imported.pending

\* The database is the editor's until it has sent the edit.
DatabaseIsHeld == \A e \in Editors :
  /\ Inside(e) => ~owned /\ ~members
  /\ editor[e].step = "read" => editor[e].review = [version |-> editor[e].read, target |-> target]

\* As long as the configuration is the version that was read, the edit fits it.
ReadIsChecked == \A e \in Editors : editor[e].step = "read" =>
  /\ editor[e].read <= imported.version
  /\ editor[e].read = imported.version => Fits(editor[e])

\* There is one task, and nothing else changes the configuration under it.
OneTask == /\ \A v, w \in worker : v = w
           /\ \A w \in worker : Fits(w)

EditInv == EditTypeOK /\ DatabaseIsHeld /\ ReadIsChecked /\ OneTask

\* An editor takes a step of its own.
\* An applied edit is a later version of the configuration.
LEMMA EditedIsLater ==
  ASSUME EditTypeOK, NEW q, q.want \in Nat
  PROVE  /\ Edited(imported, q) \in [version : Nat, name : {"old", "new"}, size : Nat, locked : BOOLEAN, pending : BOOLEAN]
         /\ Edited(imported, q).version = imported.version + 1
<1> DEFINE n == IF q.kind = "disk" THEN imported.name ELSE "new"
           s == IF q.kind = "disk" THEN q.want ELSE imported.size
           p == q.kind = "nic"
<1>1. Edited(imported, q) = [imported EXCEPT !.version = @ + 1, !.name = n, !.size = s, !.pending = p]
  BY DEF Edited, EditTypeOK
<1>2. n \in {"old", "new"} /\ s \in Nat /\ imported.version + 1 \in Nat
  BY DEF EditTypeOK
<1>3. p \in BOOLEAN /\ imported.locked \in BOOLEAN
  BY Zenon DEF EditTypeOK
<1> HIDE DEF n, s, p
<1>4. QED
  BY <1>1, <1>2, <1>3 DEF EditTypeOK

\* What an editor may do to keep the invariant: read what is there, send what still fits.
LEMMA EditorMoves ==
  ASSUME EditInv, NEW e \in Editors, NEW q \in Requested,
         editor' = [editor EXCEPT ![e] = q], UNCHANGED <<imported, target, owned, members, worker>>,
         q.step \in {"checked", "read", "sent"} => ~owned /\ ~members,
         q.step = "read" => /\ q.review = [version |-> q.read, target |-> target]
                            /\ q.read <= imported.version
                            /\ q.read = imported.version => Fits(q)
  PROVE  EditInv' /\ AppliedAsReviewed
<1> USE DEF EditInv
<1>1. editor' \in [Editors -> Requested] /\ editor'[e] = q /\ \A d \in Editors : d # e => editor'[d] = editor[d]
  BY DEF EditTypeOK
<1>2. EditTypeOK'
  BY <1>1 DEF EditTypeOK
<1>3. DatabaseIsHeld'
  BY <1>1 DEF DatabaseIsHeld, Inside
<1>4. ReadIsChecked' /\ OneTask'
  BY <1>1 DEF ReadIsChecked, OneTask, Fits
<1>5. AppliedAsReviewed
  BY DEF AppliedAsReviewed
<1>6. QED
  BY <1>2, <1>3, <1>4, <1>5

\* An editor up to its patch, and after it.
LEMMA ReviewKeeps ==
  ASSUME EditInv, NEW e \in Editors,
         Review(e) \/ Open(e) \/ ReadAgain(e) \/ NothingToPatch(e) \/ Close(e) \/ Lost(e)
  PROVE  EditInv' /\ AppliedAsReviewed
<1> USE DEF EditInv
<1>1. UNCHANGED <<imported, target, owned, members, worker>>
  BY DEF Review, Open, ReadAgain, NothingToPatch, Close, Lost, database
<1>2. editor[e] \in Requested /\ imported.version \in Nat /\ imported.size \in Nat /\ target \in Nat
  BY DEF EditTypeOK
<1>3. CASE Drops(e)
  <2>1. Idle \in Requested /\ Idle.step = "idle"
    BY DEF Idle, Requested, EditSteps, Kind, NoReview
  <2>2. QED
    BY <1>1, <1>3, <2>1, EditorMoves DEF Drops
<1>4. CASE Review(e)
  <2>1. PICK k \in Kind : editor' = [editor EXCEPT ![e] = [Idle EXCEPT !.step = "reviewed", !.kind = k,
                    !.review = [version |-> imported.version, target |-> target],
                    !.want = IF k = "disk" THEN imported.size + 1 ELSE 0]]
    BY <1>4 DEF Review
  <2> DEFINE q == [Idle EXCEPT !.step = "reviewed", !.kind = k,
                    !.review = [version |-> imported.version, target |-> target],
                    !.want = IF k = "disk" THEN imported.size + 1 ELSE 0]
  <2>2. q \in Requested /\ q.step = "reviewed"
    <3>1. Idle \in Requested
      BY DEF Idle, Requested, EditSteps, Kind, NoReview
    <3>2. k \in Kind /\ (IF k = "disk" THEN imported.size + 1 ELSE 0) \in Nat
      BY <1>2, <2>1
    <3>3. QED
      BY <1>2, <3>1, <3>2 DEF Requested, EditSteps
  <2> HIDE DEF q
  <2>3. editor' = [editor EXCEPT ![e] = q]
    BY <2>1 DEF q
  <2>4. QED
    BY <1>1, <2>2, <2>3, EditorMoves
<1>5. CASE Open(e) /\ ~Drops(e)
  <2> DEFINE q == [editor[e] EXCEPT !.step = "checked"]
  <2>1. editor' = [editor EXCEPT ![e] = q] /\ ~owned /\ ~members
    BY <1>5 DEF Open
  <2>2. q \in Requested /\ q.step = "checked"
    BY <1>2 DEF Requested, EditSteps
  <2> HIDE DEF q
  <2>3. QED
    BY <1>1, <2>1, <2>2, EditorMoves
<1>6. CASE ReadAgain(e) /\ ~Drops(e)
  <2> DEFINE q == [editor[e] EXCEPT !.step = "read", !.read = imported.version]
  <2>1. editor' = [editor EXCEPT ![e] = q] /\ editor[e].step = "checked" /\ ~Refused(editor[e])
    BY <1>6 DEF ReadAgain
  <2>2. q \in Requested /\ q.step = "read" /\ q.read = imported.version
    BY <1>2 DEF Requested, EditSteps
  <2>3. q.review = [version |-> q.read, target |-> target] /\ Fits(q)
    BY <1>2, <2>1, <2>2 DEF Refused, IsStale, Fits, Requested
  <2>4. ~owned /\ ~members
    BY <2>1 DEF DatabaseIsHeld, Inside
  <2> HIDE DEF q
  <2>5. q.step = "read" => /\ q.review = [version |-> q.read, target |-> target]
                           /\ q.read <= imported.version
                           /\ q.read = imported.version => Fits(q)
    BY <1>2, <2>2, <2>3
  <2>6. editor' = [editor EXCEPT ![e] = q]
    BY <2>1
  <2>7. QED
    BY <1>1, <2>2, <2>4, <2>5, <2>6, EditorMoves
<1>7. QED
  BY <1>3, <1>4, <1>5, <1>6 DEF NothingToPatch, Close, Lost

\* The digest that is sent makes the write meet what was read, or nothing.
LEMMA ArrivalKeeps ==
  ASSUME EditInv, NEW e \in Editors, Arrives(e) PROVE EditInv' /\ AppliedAsReviewed
<1> USE DEF EditInv
<1> DEFINE q == editor[e]
<1>1. q \in Requested /\ q.step = "read" /\ imported.version \in Nat
  BY DEF EditTypeOK, Arrives
<1>2. UNCHANGED <<target, owned, members>> /\ editor' = [editor EXCEPT ![e].step = "sent"]
  BY DEF Arrives, database
<1>3. /\ editor' \in [Editors -> Requested] /\ editor'[e].step = "sent"
      /\ \A d \in Editors : d # e => editor'[d] = editor[d]
  BY <1>2 DEF EditTypeOK, Requested, EditSteps
<1>4. DatabaseIsHeld'
  BY <1>1, <1>2, <1>3 DEF DatabaseIsHeld, Inside
<1>5. CASE UNCHANGED <<imported, worker>>
  <2>1. EditTypeOK' /\ ReadIsChecked' /\ OneTask'
    BY <1>2, <1>3, <1>5 DEF EditTypeOK, ReadIsChecked, OneTask, Fits
  <2>2. AppliedAsReviewed
    BY <1>2, <1>5 DEF AppliedAsReviewed
  <2>3. QED
    BY <1>4, <2>1, <2>2
<1>6. CASE ~UNCHANGED <<imported, worker>>
  <2>1. /\ worker = {} /\ q.read = imported.version
        /\ \/ /\ q.kind \in Async /\ imported' = imported
              /\ worker' = {[by |-> e, kind |-> q.kind, want |-> q.want]}
           \/ imported' = Edited(imported, q) /\ worker' = {}
    BY <1>6 DEF Arrives, DigestSent
  <2>2. /\ q.review = [version |-> imported.version, target |-> target] /\ ~owned /\ ~members
        /\ Fits(q)
    BY <1>1, <2>1 DEF DatabaseIsHeld, ReadIsChecked, Inside
  <2>3. AppliedAsReviewed
    <3> SUFFICES ASSUME NEW d \in Editors, editor[d].step = "read", editor'[d].step = "sent"
                 PROVE  /\ editor[d].review = [version |-> imported.version, target |-> target]
                        /\ ~owned /\ ~members
      BY DEF AppliedAsReviewed
    <3>1. d = e
      BY <1>3
    <3>2. QED
      BY <2>2, <3>1
  <2>4. CASE imported' = imported
    <3>1. EditTypeOK'
      BY <1>1, <1>2, <1>3, <2>1, <2>4 DEF EditTypeOK, Requested
    <3>2. ReadIsChecked'
      BY <1>3, <2>4 DEF ReadIsChecked, Fits
    <3>3. OneTask'
      BY <2>1, <2>2, <2>4 DEF OneTask, Fits
    <3>4. QED
      BY <1>4, <2>3, <3>1, <3>2, <3>3
  <2>5. CASE imported' = Edited(imported, q) /\ worker' = {}
    <3>1. /\ imported' \in [version : Nat, name : {"old", "new"}, size : Nat, locked : BOOLEAN, pending : BOOLEAN]
          /\ imported'.version = imported.version + 1
      BY <1>1, <2>5, EditedIsLater DEF Requested
    <3>2. ReadIsChecked'
      BY <1>1, <1>3, <3>1 DEF ReadIsChecked, EditTypeOK, Requested
    <3>3. QED
      BY <1>2, <1>3, <1>4, <2>3, <2>5, <3>1, <3>2 DEF EditTypeOK, OneTask
  <2>6. QED
    BY <2>1, <2>4, <2>5
<1>7. QED
  BY <1>5, <1>6

\* A new version of the configuration fits no edit that was read before it.
LEMMA ConfigurationMoves ==
  ASSUME EditInv, UNCHANGED <<target, owned, members, editor>>, worker' = {},
         imported' \in [version : Nat, name : {"old", "new"}, size : Nat, locked : BOOLEAN, pending : BOOLEAN],
         imported'.version = imported.version + 1
  PROVE  EditInv' /\ AppliedAsReviewed
<1> USE DEF EditInv
<1>1. EditTypeOK' /\ DatabaseIsHeld' /\ OneTask'
  BY DEF EditTypeOK, DatabaseIsHeld, Inside, OneTask
<1>2. ReadIsChecked'
  BY DEF ReadIsChecked, EditTypeOK, Requested
<1>3. QED
  BY <1>1, <1>2 DEF AppliedAsReviewed

\* Tasks that end and changes by others spoil a review, and it is found out.
LEMMA OthersKeepEdits ==
  ASSUME EditInv,
         (\E w \in worker : WorkerEnds(w)) \/ EditedOutside \/ HostIsReregistered
           \/ DeploymentClaims \/ SnapshotSetRuns \/ UNCHANGED editVars
  PROVE  EditInv' /\ AppliedAsReviewed
<1> USE DEF EditInv, database
<1>1. ASSUME NEW w \in worker, WorkerEnds(w) PROVE EditInv' /\ AppliedAsReviewed
  <2>1. worker' = {} /\ imported' = Edited(imported, w) /\ UNCHANGED <<target, owned, members, editor>>
    BY <1>1 DEF WorkerEnds, OneTask
  <2>2. /\ imported' \in [version : Nat, name : {"old", "new"}, size : Nat, locked : BOOLEAN, pending : BOOLEAN]
        /\ imported'.version = imported.version + 1
    BY <2>1, EditedIsLater DEF EditTypeOK
  <2>3. QED
    BY <2>1, <2>2, ConfigurationMoves
<1>2. CASE EditedOutside
  <2>1. /\ imported' \in [version : Nat, name : {"old", "new"}, size : Nat, locked : BOOLEAN, pending : BOOLEAN]
        /\ imported'.version = imported.version + 1
    BY <1>2 DEF EditedOutside, EditTypeOK
  <2>2. QED
    BY <1>2, <2>1, ConfigurationMoves DEF EditedOutside
<1>3. CASE HostIsReregistered \/ DeploymentClaims \/ SnapshotSetRuns \/ UNCHANGED editVars
  <2>1. UNCHANGED <<imported, worker, editor>>
    BY <1>3 DEF HostIsReregistered, DeploymentClaims, SnapshotSetRuns, editVars
  <2>2. EditTypeOK' /\ (UNCHANGED <<target, owned, members>> \/ LockFree)
    <3>1. owned \in BOOLEAN /\ members \in BOOLEAN /\ (~owned) \in BOOLEAN /\ (~members) \in BOOLEAN
      BY DEF EditTypeOK
    <3>2. owned' \in BOOLEAN /\ members' \in BOOLEAN
      BY <1>3, <3>1 DEF HostIsReregistered, DeploymentClaims, SnapshotSetRuns, editVars
    <3>3. target' \in Nat
      BY <1>3 DEF HostIsReregistered, DeploymentClaims, SnapshotSetRuns, editVars, EditTypeOK
    <3>4. UNCHANGED <<target, owned, members>> \/ LockFree
      BY <1>3 DEF HostIsReregistered, DeploymentClaims, SnapshotSetRuns, editVars
    <3>5. QED
      BY <2>1, <3>2, <3>3, <3>4 DEF EditTypeOK
  <2>3. DatabaseIsHeld'
    BY <2>1, <2>2 DEF DatabaseIsHeld, LockFree, Inside
  <2>4. ReadIsChecked' /\ OneTask' /\ AppliedAsReviewed
    BY <2>1 DEF ReadIsChecked, OneTask, Fits, AppliedAsReviewed
  <2>5. QED
    BY <2>2, <2>3, <2>4
<1>4. QED
  BY <1>1, <1>2, <1>3

\* What reaches a guest was reviewed on the configuration and the target it
\* meets, and no task shrinks a disk (update_vm_config, vm_hardware._update).
THEOREM EditsAreReviewedHolds == EditSpec => EditsAreReviewed
<1>1. EditInit => EditInv
  <2>1. Idle \in Requested /\ Idle.step = "idle"
    BY DEF Idle, Requested, EditSteps, Kind, NoReview
  <2>2. EditInit => EditTypeOK
    <3>1. EditInit => imported \in [version : Nat, name : {"old", "new"}, size : Nat, locked : BOOLEAN, pending : BOOLEAN]
      BY DEF EditInit
    <3>2. EditInit => owned \in BOOLEAN /\ members \in BOOLEAN
      BY DEF EditInit
    <3>3. QED
      BY <2>1, <3>1, <3>2 DEF EditInit, EditTypeOK
  <2>3. EditInit => DatabaseIsHeld /\ ReadIsChecked /\ OneTask
    BY <2>1 DEF EditInit, DatabaseIsHeld, ReadIsChecked, OneTask, Inside
  <2>4. QED
    BY <2>2, <2>3 DEF EditInv
<1>2. EditInv /\ [EditNext]_editVars => EditInv' /\ AppliedAsReviewed
  BY ReviewKeeps, ArrivalKeeps, OthersKeepEdits DEF EditNext
<1>3. EditInv => DevicesAreKept
  BY DEF EditInv, OneTask, Fits, DevicesAreKept
<1>4. QED
  BY <1>1, <1>2, <1>3, PTL DEF EditSpec, EditsAreReviewed
-----------------------------------------------------------------------------
(* Registry.                                                               *)

RequestSteps == {"free", "insert", "update", "create", "register", "refresh", "delete", "source"}
BoundProjects == [binding : Bindings \cup {"none"}, pin : Pins \cup {"none"}]
UserSource == <<"user", 0>>
Asked == [op : {"none", "put", "patch", "create", "host", "source"}, step : RequestSteps, values : BoundProjects,
          host : Nat, kind : Kinds \cup {"none"}, plan : (Kinds \cup {"user", "none"}) \X {0}, again : BOOLEAN]

RegistryTypeOK ==
  /\ project \in BoundProjects /\ host \in Nat /\ hosts \in Nat
  /\ client \in [Clients -> Asked]
  /\ IsFiniteSet(sources)

\* What a request carries from its reading to its transaction.
Carries(q) ==
  /\ q.step \in {"insert", "update"} => q.values.binding \in Bindings
  /\ q.step = "create" => q.host # 0 /\ project # NoProject

\* A project never loses its binding, and what was made from it keeps both references.
BindingsAreKept ==
  /\ project = NoProject \/ project.binding \in Bindings
  /\ \A d \in deployments : d.binding = project.binding /\ d.host = host
  /\ deployments # {} => host # 0 /\ project # NoProject
  /\ \A c \in Clients : Carries(client[c])

\* A source has the name of its kind and that kind, or is the user's.
SourcesAreNamed ==
  /\ \A s, t \in sources : s.id = t.id => s = t
  /\ \A s \in sources : s.id = UserSource \/ \E k \in Kinds : s.id = <<k, 0>> /\ s.repos = {k}

\* A request that found no usable source has chosen the user's, which is there
\* to stay, or the first name of its kind.
PlansAreNamed == \A c \in Clients : client[c].step = "source" =>
  /\ client[c].kind \in Kinds
  /\ \/ client[c].plan = UserSource /\ \E s \in sources : s.id = UserSource
     \/ client[c].plan = <<client[c].kind, 0>>

\* Once a name of a kind is in use or chosen, the user's source does not serve
\* that kind alone, and never will: its repositories only grow.
NamedBeside(k) == \A u \in sources : u.id = UserSource => u.repos # {} /\ u.repos # {k}

KindsAreServedOnce ==
  /\ \A k \in Kinds : \A s \in sources : s.id = <<k, 0>> => NamedBeside(k)
  /\ \A c \in Clients : client[c].step = "source" /\ client[c].plan = <<client[c].kind, 0>> =>
       NamedBeside(client[c].kind)

RegistryInv == RegistryTypeOK /\ BindingsAreKept /\ SourcesAreNamed /\ PlansAreNamed /\ KindsAreServedOnce

\* A client that is free asks for nothing.
LEMMA FreeIsAsked == Free \in Asked /\ Free.step = "free"
BY DEF Free, Asked, RequestSteps, BoundProjects, NoProject, NoSource

\* A request that plans no source takes a step.
LEMMA RequestMoves ==
  ASSUME RegistryInv, NEW c \in Clients, NEW q \in Asked, q.step # "source",
         client' = [client EXCEPT ![c] = q], UNCHANGED sources,
         project' \in BoundProjects, host' \in Nat, hosts' \in Nat,
         Carries(q)',
         project' = NoProject => project = NoProject,
         project' = NoProject \/ project'.binding \in Bindings,
         \A d \in deployments' : d.binding = project'.binding /\ d.host = host',
         deployments' # {} => host' # 0 /\ project' # NoProject
  PROVE  RegistryInv'
<1> USE DEF RegistryInv
<1>1. /\ client' \in [Clients -> Asked] /\ client'[c] = q
      /\ \A d \in Clients : d # c => client'[d] = client[d]
  BY DEF RegistryTypeOK
<1>2. RegistryTypeOK'
  BY <1>1 DEF RegistryTypeOK
<1>3. BindingsAreKept'
  <2>1. \A d \in Clients : Carries(client[d])'
    BY <1>1 DEF BindingsAreKept, Carries
  <2>2. QED
    BY <2>1 DEF BindingsAreKept
<1>4. SourcesAreNamed' /\ PlansAreNamed'
  BY <1>1 DEF SourcesAreNamed, PlansAreNamed
<1>5. KindsAreServedOnce'
  BY <1>1 DEF KindsAreServedOnce, NamedBeside
<1>6. QED
  BY <1>2, <1>3, <1>4, <1>5

\* Bindings of projects.
LEMMA ProjectKeeps ==
  ASSUME RegistryInv, NEW c \in Clients, Put(c) \/ Patch(c) \/ InsertProject(c) \/ UpdateProject(c)
  PROVE  RegistryInv'
<1> USE DEF RegistryInv
<1>1. /\ client[c] \in Asked /\ project \in BoundProjects /\ host \in Nat /\ hosts \in Nat
      /\ Carries(client[c])
  BY DEF RegistryTypeOK, BindingsAreKept
<1>2. UNCHANGED <<host, hosts, deployments, sources>>
  BY DEF Put, Patch, InsertProject, UpdateProject
<1>3. ASSUME Put(c) \/ Patch(c) PROVE RegistryInv'
  <2>1. PICK v \in BoundProjects, op \in {"put", "patch"}, step \in {"insert", "update"} :
          /\ client' = [client EXCEPT ![c] = [Free EXCEPT !.op = op, !.step = step, !.values = v]]
          /\ v.binding \in Bindings /\ project' = project
    <3>1. CASE Put(c)
      <4>1. PICK b \in Bindings, p \in Pins : 
              client' = [client EXCEPT ![c] = [Free EXCEPT !.op = "put",
                    !.step = IF project = NoProject THEN "insert" ELSE "update",
                    !.values = [binding |-> b, pin |-> p]]]
        BY <3>1 DEF Put
      <4>2. [binding |-> b, pin |-> p] \in BoundProjects /\ [binding |-> b, pin |-> p].binding \in Bindings
        BY <4>1 DEF BoundProjects
      <4>3. project' = project
        BY <3>1 DEF Put
      <4>4. QED
        BY <4>1, <4>2, <4>3
    <3>2. CASE Patch(c)
      <4>1. PICK b \in Bindings \cup {project.binding}, p \in Pins \cup {project.pin} :
              client' = [client EXCEPT ![c] = [Free EXCEPT !.op = "patch", !.step = "update",
                    !.values = [binding |-> b, pin |-> p]]]
        BY <3>2 DEF Patch
      <4>2. b \in Bindings /\ p \in Pins \cup {"none"}
        BY <3>2, <4>1, <1>1 DEF BindingsAreKept, Patch, BoundProjects
      <4>3. [binding |-> b, pin |-> p] \in BoundProjects /\ [binding |-> b, pin |-> p].binding \in Bindings
        BY <4>2 DEF BoundProjects
      <4>4. project' = project
        BY <3>2 DEF Patch
      <4>5. QED
        BY <4>1, <4>3, <4>4
    <3>3. QED
      BY <1>3, <3>1, <3>2
  <2> DEFINE q == [Free EXCEPT !.op = op, !.step = step, !.values = v]
  <2>2. q \in Asked /\ q.step = step /\ q.values = v
    BY FreeIsAsked DEF Asked, RequestSteps
  <2>3. client' = [client EXCEPT ![c] = q]
    BY <2>1
  <2> HIDE DEF q
  <2>4. q.step # "source" /\ Carries(q)'
    BY <2>1, <2>2 DEF Carries
  <2>5. QED
    BY <1>1, <1>2, <2>1, <2>2, <2>3, <2>4, RequestMoves DEF BindingsAreKept
<1>4. ASSUME InsertProject(c) \/ UpdateProject(c) PROVE RegistryInv'
  <2>1. CASE Ends(c)
    <3>1. /\ \/ project' = project
             \/ /\ project' = client[c].values
                /\ deployments = {} \/ client[c].values.binding = project.binding
          /\ client[c].step \in {"insert", "update"}
      BY <1>4 DEF InsertProject, UpdateProject, MayRebind, BindingsAreKept
    <3>2. client[c].values \in BoundProjects /\ client[c].values.binding \in Bindings
      BY <1>1, <3>1 DEF Carries, Asked
    <3>3. client[c].values # NoProject
      BY <3>2, BindingsAssumption DEF NoProject
    <3>4. client' = [client EXCEPT ![c] = Free] /\ Carries(Free)'
      BY <2>1, FreeIsAsked DEF Ends, Carries
    <3>5. /\ project' \in BoundProjects
          /\ project' = NoProject => project = NoProject
          /\ project' = NoProject \/ project'.binding \in Bindings
      BY <1>1, <3>1, <3>2, <3>3 DEF BindingsAreKept
    <3>6. /\ \A d \in deployments' : d.binding = project'.binding /\ d.host = host'
          /\ deployments' # {} => host' # 0 /\ project' # NoProject
      BY <1>2, <3>1, <3>3 DEF BindingsAreKept
    <3>7. QED
      BY <1>1, <1>2, <3>4, <3>5, <3>6, FreeIsAsked, RequestMoves
  <2>2. CASE ~Ends(c)
    <3>1. /\ client' = [client EXCEPT ![c] = [client[c] EXCEPT !.step = "update"]]
          /\ client[c].step = "insert" /\ project' = project
      BY <1>4, <2>2 DEF InsertProject, UpdateProject, Goes
    <3> DEFINE moved == [client[c] EXCEPT !.step = "update"]
    <3>2. moved \in Asked /\ moved.step = "update" /\ moved.values = client[c].values
      BY <1>1 DEF Asked, RequestSteps
    <3> HIDE DEF moved
    <3>3. PICK q \in Asked : q = moved
      BY <3>2
    <3>4. Carries(q)' /\ client' = [client EXCEPT ![c] = q]
      BY <1>1, <3>1, <3>2, <3>3 DEF Carries, moved
    <3>5. QED
      BY <1>1, <1>2, <3>1, <3>2, <3>3, <3>4, RequestMoves DEF BindingsAreKept
  <2>3. QED
    BY <2>1, <2>2
<1>5. QED
  BY <1>3, <1>4

\* Deployments and hosts.
LEMMA HostKeeps ==
  ASSUME RegistryInv, NEW c \in Clients,
         CheckDeployment(c) \/ CommitDeployment(c) \/ FindHost(c) \/ RegisterHost(c) \/ RefreshHost(c)
           \/ FindForDelete(c) \/ DeleteHost(c)
  PROVE  RegistryInv'
<1> USE DEF RegistryInv
<1>1. /\ client[c] \in Asked /\ project \in BoundProjects /\ host \in Nat /\ hosts \in Nat
      /\ Carries(client[c])
  BY DEF RegistryTypeOK, BindingsAreKept
<1>2. UNCHANGED <<project, sources>>
  BY DEF CheckDeployment, CommitDeployment, FindHost, RegisterHost, RefreshHost, FindForDelete, DeleteHost
<1>3. CASE Ends(c)
  <2>1. client' = [client EXCEPT ![c] = Free] /\ Carries(Free)'
    BY <1>3, FreeIsAsked DEF Ends, Carries
  <2>2. host' \in Nat /\ hosts' \in Nat
    BY <1>1, <1>3 DEF CheckDeployment, CommitDeployment, FindHost, RegisterHost, RefreshHost, FindForDelete, DeleteHost
  <2>3. /\ \A d \in deployments' : d.binding = project'.binding /\ d.host = host'
        /\ deployments' # {} => host' # 0 /\ project' # NoProject
    <3>1. CASE CommitDeployment(c)
      BY <1>1, <1>2, <3>1 DEF CommitDeployment, BindingsAreKept, Carries
    <3>2. CASE DeleteHost(c)
      BY <1>1, <1>2, <3>2 DEF DeleteHost, BindingsAreKept
    <3>3. CASE RegisterHost(c)
      BY <1>1, <1>2, <3>3 DEF RegisterHost, BindingsAreKept
    <3>4. CASE CheckDeployment(c) \/ FindHost(c) \/ RefreshHost(c) \/ FindForDelete(c)
      BY <1>1, <1>2, <3>4 DEF CheckDeployment, FindHost, RefreshHost, FindForDelete, BindingsAreKept
    <3>5. QED
      BY <3>1, <3>2, <3>3, <3>4
  <2>4. QED
    BY <1>1, <1>2, <2>1, <2>2, <2>3, FreeIsAsked, RequestMoves DEF BindingsAreKept
<1>4. ASSUME ~Ends(c)
      PROVE  /\ UNCHANGED <<host, hosts, deployments>>
             /\ \E q \in Asked : /\ client' = [client EXCEPT ![c] = q]
                                 /\ q.step \in {"create", "register", "refresh", "delete"}
                                 /\ q.step = "create" => q.host # 0 /\ project # NoProject
  <2>1. CASE CheckDeployment(c)
    <3> DEFINE q == [Free EXCEPT !.op = "create", !.step = "create", !.host = host]
    <3>1. q \in Asked /\ q.step = "create" /\ q.host = host
      BY <1>1, FreeIsAsked DEF Asked, RequestSteps
    <3> HIDE DEF q
    <3>2. client' = [client EXCEPT ![c] = q] /\ host # 0 /\ project # NoProject
      BY <2>1 DEF CheckDeployment, q
    <3>3. QED
      BY <2>1, <3>1, <3>2 DEF CheckDeployment
  <2>2. CASE FindHost(c)
    <3> DEFINE step == IF host = 0 THEN "register" ELSE "refresh"
               q == [Free EXCEPT !.op = "host", !.host = host, !.step = step]
    <3>1. q \in Asked /\ q.step = step
      BY <1>1, FreeIsAsked DEF Asked, RequestSteps
    <3>2. client' = [client EXCEPT ![c] = q]
      BY <2>2 DEF FindHost
    <3> HIDE DEF q
    <3>3. QED
      BY <2>2, <3>1, <3>2 DEF FindHost
  <2>3. CASE RegisterHost(c)
    <3> DEFINE q == [client[c] EXCEPT !.step = "refresh", !.host = host]
    <3>1. q \in Asked /\ q.step = "refresh"
      BY <1>1 DEF Asked, RequestSteps
    <3>2. client' = [client EXCEPT ![c] = q] /\ UNCHANGED <<host, hosts, deployments>>
      BY <1>4, <2>3 DEF RegisterHost
    <3> HIDE DEF q
    <3>3. QED
      BY <3>1, <3>2
  <2>4. CASE FindForDelete(c)
    <3> DEFINE q == [Free EXCEPT !.op = "host", !.step = "delete", !.host = host]
    <3>1. q \in Asked /\ q.step = "delete"
      BY <1>1, FreeIsAsked DEF Asked, RequestSteps
    <3>2. client' = [client EXCEPT ![c] = q]
      BY <2>4 DEF FindForDelete
    <3> HIDE DEF q
    <3>3. QED
      BY <2>4, <3>1, <3>2 DEF FindForDelete
  <2>5. QED
    BY <1>4, <2>1, <2>2, <2>3, <2>4 DEF CommitDeployment, RefreshHost, DeleteHost
<1>5. CASE ~Ends(c)
  <2>1. PICK q \in Asked : /\ client' = [client EXCEPT ![c] = q]
                           /\ q.step \in {"create", "register", "refresh", "delete"}
                           /\ q.step = "create" => q.host # 0 /\ project # NoProject
    BY <1>4, <1>5
  <2>2. Carries(q)' /\ q.step # "source"
    BY <1>2, <2>1 DEF Carries
  <2>3. QED
    BY <1>1, <1>2, <1>4, <1>5, <2>1, <2>2, RequestMoves DEF BindingsAreKept
<1>6. QED
  BY <1>3, <1>5

\* What a request plans that finds no usable source: nothing it will share a kind with.
LEMMA ChoiceIsNamed ==
  ASSUME RegistryInv, NEW k \in Kinds, Usable(k) = {}
  PROVE  \/ Choice(k) = UserSource /\ \E s \in sources : s.id = UserSource
         \/ Choice(k) = <<k, 0>> /\ NamedBeside(k)
<1> USE DEF RegistryInv
<1>1. CASE \E s \in sources : s.repos = {}
  <2> DEFINE s == CHOOSE t \in sources : t.repos = {}
  <2>1. s \in sources /\ s.repos = {} /\ Choice(k) = s.id
    BY <1>1 DEF Choice
  <2> HIDE DEF s
  <2>2. s.id = UserSource
    BY <2>1 DEF SourcesAreNamed
  <2>3. QED
    BY <2>1, <2>2
<1>2. CASE ~\E s \in sources : s.repos = {}
  <2> DEFINE IsFirst(n) == /\ \A s \in sources : s.id # <<k, n>>
                           /\ \A m \in 0..n - 1 : \E s \in sources : s.id = <<k, m>>
             first == CHOOSE n \in 0..Cardinality(sources) : IsFirst(n)
  <2>1. Choice(k) = <<k, first>>
    BY <1>2 DEF Choice
  <2>2. \A s \in sources : s.id # <<k, 0>>
    <3> SUFFICES ASSUME NEW s \in sources, s.id = <<k, 0>> PROVE FALSE
      OBVIOUS
    <3>1. s.id # UserSource
      BY KindsAssumption DEF UserSource
    <3>2. s.repos = {k}
      BY <3>1 DEF SourcesAreNamed
    <3>3. QED
      BY <3>2 DEF Usable
  <2>3. 0 \in 0..Cardinality(sources) /\ IsFirst(0)
    BY <2>2, FS_CardinalityType DEF RegistryTypeOK
  <2>4. first \in 0..Cardinality(sources) /\ IsFirst(first)
    <3> HIDE DEF IsFirst
    <3>1. QED
      BY <2>3
  <2>5. first = 0
    <3> HIDE DEF first
    <3>1. first \in Nat
      BY <2>4
    <3>2. first > 0 => 0 \in 0..first - 1
      BY <3>1
    <3>3. QED
      BY <2>2, <2>4, <3>1, <3>2
  <2>6. NamedBeside(k)
    BY <1>2 DEF NamedBeside, Usable
  <2>7. QED
    BY <2>1, <2>5, <2>6
<1>3. QED
  BY <1>1, <1>2

\* A reading of the sources, first or after a lost race.
LEMMA ReadingKeeps ==
  ASSUME RegistryInv, NEW c \in Clients, NEW k \in Kinds, NEW again \in BOOLEAN, ReadSources(c, k, again),
         UNCHANGED <<project, host, hosts, deployments, sources>>
  PROVE  RegistryInv'
<1> USE DEF RegistryInv
<1>1. CASE Usable(k) # {}
  <2>1. client' = [client EXCEPT ![c] = Free] /\ Carries(Free)'
    BY <1>1, FreeIsAsked DEF ReadSources, Carries
  <2>2. QED
    BY <2>1, FreeIsAsked, RequestMoves DEF RegistryTypeOK, BindingsAreKept
<1>2. CASE Usable(k) = {}
  <2> DEFINE q == [Free EXCEPT !.op = "source", !.step = "source", !.kind = k, !.plan = Choice(k), !.again = again]
  <2>1. client' = [client EXCEPT ![c] = q]
    BY <1>2 DEF ReadSources
  <2>2. Choice(k) \in (Kinds \cup {"user", "none"}) \X {0}
    BY <1>2, ChoiceIsNamed DEF UserSource
  <2>3. q \in Asked /\ q.step = "source" /\ q.kind = k /\ q.plan = Choice(k)
    BY <2>2, FreeIsAsked DEF Asked, RequestSteps
  <2> HIDE DEF q
  <2>4. client' \in [Clients -> Asked] /\ client'[c] = q /\ \A d \in Clients : d # c => client'[d] = client[d]
    BY <2>1, <2>3 DEF RegistryTypeOK
  <2>5. RegistryTypeOK' /\ SourcesAreNamed'
    BY <2>4 DEF RegistryTypeOK, SourcesAreNamed
  <2>6. BindingsAreKept'
    BY <2>3, <2>4 DEF BindingsAreKept, Carries
  <2>7. PlansAreNamed'
    BY <1>2, <2>3, <2>4, ChoiceIsNamed DEF PlansAreNamed
  <2>8. KindsAreServedOnce'
    <3>1. q.plan = <<k, 0>> => NamedBeside(k)
      <4>1. <<k, 0>> # UserSource
        BY KindsAssumption DEF UserSource
      <4>2. Choice(k) = <<k, 0>> => NamedBeside(k)
        BY <1>2, <4>1, ChoiceIsNamed
      <4>3. QED
        BY <2>3, <4>2
    <3>2. \A j : NamedBeside(j)' <=> NamedBeside(j)
      BY DEF NamedBeside
    <3>3. QED
      BY <2>3, <2>4, <3>1, <3>2 DEF KindsAreServedOnce
  <2>9. QED
    BY <2>5, <2>6, <2>7, <2>8
<1>3. QED
  BY <1>1, <1>2

\* A source that is written has the name its request has planned.
LEMMA WrittenSource ==
  ASSUME RegistryInv, NEW c \in Clients, CommitSource(c), ~IsTaken(client[c].plan, client[c].kind)
  PROVE  RegistryInv'
<1> USE DEF RegistryInv
<1> DEFINE k == client[c].kind
           plan == client[c].plan
           old == {s \in sources : s.id = plan}
           new == [id |-> plan, repos |-> {k} \cup UNION {s.repos : s \in old}]
<1>1. /\ client[c].step = "source" /\ k \in Kinds
      /\ client' = [client EXCEPT ![c] = Free] /\ UNCHANGED <<project, host, hosts, deployments>>
      /\ sources' = (sources \ old) \cup {new}
  BY DEF CommitSource, Ends, PlansAreNamed
<1>2. /\ client' \in [Clients -> Asked] /\ client'[c] = Free
      /\ \A d \in Clients : d # c => client'[d] = client[d]
  BY <1>1, FreeIsAsked DEF RegistryTypeOK
<1>3. RegistryTypeOK'
  <2>1. IsFiniteSet(sources \ old)
    BY FS_Difference DEF RegistryTypeOK
  <2>2. IsFiniteSet(sources')
    BY <1>1, <2>1, FS_AddElement
  <2>3. QED
    BY <1>1, <1>2, <2>2 DEF RegistryTypeOK
<1>4. BindingsAreKept'
  BY <1>1, <1>2, FreeIsAsked DEF BindingsAreKept, Carries
<1>5. /\ \A s \in sources \ old : s.id # plan
      /\ new.id = plan /\ k \in new.repos /\ \A s \in old : s.repos \subseteq new.repos
  OBVIOUS
<1>6. /\ \/ plan = UserSource /\ old # {}
         \/ plan = <<k, 0>> /\ new.repos = {k} /\ NamedBeside(k)
  <2>1. CASE plan = UserSource
    BY <1>1, <2>1, KindsAssumption DEF PlansAreNamed, UserSource
  <2>2. CASE plan = <<k, 0>>
    <3>1. plan[1] # "user"
      BY <1>1, <2>2, KindsAssumption
    <3>2. old = {}
      BY <3>1 DEF IsTaken
    <3>3. UNION {s.repos : s \in old} = {}
      BY <3>2
    <3>4. new.repos = {k}
      BY <3>3
    <3>5. NamedBeside(k)
      BY <1>1, <2>2 DEF KindsAreServedOnce
    <3>6. QED
      BY <2>2, <3>4, <3>5
  <2>3. QED
    BY <1>1, <2>1, <2>2 DEF PlansAreNamed
<1>7. \A s, t \in sources : s.id = t.id => s = t
  BY DEF SourcesAreNamed
<1> HIDE DEF new, old, plan, k
<1>8. SourcesAreNamed'
  BY <1>1, <1>5, <1>6, <1>7 DEF SourcesAreNamed
<1>9. PlansAreNamed'
  <2>1. (\E s \in sources : s.id = UserSource) => \E s \in sources' : s.id = UserSource
    BY <1>1, <1>5 DEF old
  <2>2. QED
    BY <1>2, <2>1, FreeIsAsked DEF PlansAreNamed
<1>10. ASSUME NEW j \in Kinds, NamedBeside(j) PROVE NamedBeside(j)'
  <2> SUFFICES ASSUME NEW u \in sources', u.id = UserSource PROVE u.repos # {} /\ u.repos # {j}
    BY DEF NamedBeside
  <2>1. CASE u \in sources
    BY <1>10, <2>1 DEF NamedBeside
  <2>2. CASE u = new
    <3>1. plan = UserSource
      BY <1>5, <2>2
    <3>2. PICK s \in old : s \in sources /\ s.id = UserSource
      BY <1>1, <1>6, <3>1, KindsAssumption DEF old, UserSource
    <3>3. s.repos # {} /\ s.repos # {j} /\ s.repos \subseteq u.repos
      BY <1>5, <1>10, <2>2, <3>2 DEF NamedBeside
    <3>4. QED
      BY <3>3
  <2>3. QED
    BY <1>1, <2>1, <2>2
<1>11. KindsAreServedOnce'
  <2>1. ASSUME NEW j \in Kinds, NEW s \in sources', s.id = <<j, 0>> PROVE NamedBeside(j)
    <3>1. CASE s \in sources
      BY <2>1, <3>1 DEF KindsAreServedOnce
    <3>2. CASE s = new
      BY <1>1, <1>5, <1>6, <2>1, <3>2, KindsAssumption DEF UserSource
    <3>3. QED
      BY <1>1, <3>1, <3>2
  <2>2. QED
    BY <1>2, <1>10, <2>1, FreeIsAsked DEF KindsAreServedOnce, PlansAreNamed
<1>12. QED
  BY <1>3, <1>4, <1>8, <1>9, <1>11

\* Default sources.
LEMMA SourceKeeps ==
  ASSUME RegistryInv, NEW c \in Clients, CommitSource(c) \/ \E k \in Kinds : RegisterDefault(c, k)
  PROVE  RegistryInv'
<1> USE DEF RegistryInv
<1>1. CASE \E k \in Kinds : RegisterDefault(c, k)
  BY <1>1, ReadingKeeps DEF RegisterDefault
<1>2. CASE CommitSource(c) /\ IsTaken(client[c].plan, client[c].kind)
  <2>1. client[c].kind \in Kinds /\ UNCHANGED <<project, host, hosts, deployments, sources>>
    BY <1>2 DEF CommitSource, PlansAreNamed
  <2>2. CASE ReadSources(c, client[c].kind, TRUE)
    <3>1. TRUE \in BOOLEAN
      OBVIOUS
    <3>2. PICK k \in Kinds : ReadSources(c, k, TRUE)
      BY <2>1, <2>2
    <3>3. QED
      BY <2>1, <3>1, <3>2, ReadingKeeps
  <2>3. CASE Ends(c)
    <3>1. client' = [client EXCEPT ![c] = Free] /\ Carries(Free)'
      BY <2>3, FreeIsAsked DEF Ends, Carries
    <3>2. QED
      BY <2>1, <3>1, FreeIsAsked, RequestMoves DEF RegistryTypeOK, BindingsAreKept
  <2>4. QED
    BY <1>2, <2>2, <2>3 DEF CommitSource
<1>3. QED
  BY <1>1, <1>2, WrittenSource

\* The inductive invariant holds in every reachable state.
THEOREM RegistryInvariance == RegistrySpec => []RegistryInv
<1>1. RegistryInit => RegistryInv
  <2> SUFFICES ASSUME RegistryInit PROVE RegistryInv
    OBVIOUS
  <2>1. IsFiniteSet(sources) /\ \A s \in sources : s.id = UserSource /\ s.repos = {}
    <3> DEFINE seeded == [id |-> <<"user", 0>>, repos |-> {}]
    <3>1. sources = {} \/ sources = {seeded}
      BY DEF RegistryInit
    <3>2. IsFiniteSet(sources)
      <4> HIDE DEF seeded
      <4>1. IsFiniteSet({}) /\ IsFiniteSet({seeded})
        BY FS_EmptySet, FS_Singleton
      <4>2. QED
        BY <3>1, <4>1
    <3>3. QED
      BY <3>1, <3>2 DEF UserSource
  <2>2. \A s, t \in sources : s = t
    BY DEF RegistryInit
  <2>3. RegistryTypeOK /\ \A c \in Clients : client[c].step = "free"
    BY <2>1, FreeIsAsked DEF RegistryInit, RegistryTypeOK, NoProject, BoundProjects
  <2>4. BindingsAreKept
    BY <2>3 DEF RegistryInit, BindingsAreKept, Carries
  <2>5. SourcesAreNamed /\ PlansAreNamed
    BY <2>1, <2>2, <2>3 DEF SourcesAreNamed, PlansAreNamed
  <2>6. KindsAreServedOnce
    BY <2>1, <2>3, KindsAssumption DEF KindsAreServedOnce, UserSource
  <2>7. QED
    BY <2>3, <2>4, <2>5, <2>6 DEF RegistryInv
<1>2. RegistryInv /\ [RegistryNext]_registryVars => RegistryInv'
  <2> SUFFICES ASSUME RegistryInv, [RegistryNext]_registryVars PROVE RegistryInv'
    OBVIOUS
  <2>1. CASE UNCHANGED registryVars
    BY <2>1 DEF registryVars, RegistryInv, RegistryTypeOK, BindingsAreKept, Carries, SourcesAreNamed,
                PlansAreNamed, KindsAreServedOnce, NamedBeside
  <2>2. QED
    BY <2>1, ProjectKeeps, HostKeeps, SourceKeeps DEF RegistryNext
<1>3. QED
  BY <1>1, <1>2, PTL DEF RegistrySpec

\* A deployment resolves what it was made with, and a default library has one
\* usable source, however many clients register, patch and delete at once
\* (projects/crud, proxmox/hosts, register_default_source).
THEOREM BindingsHoldAlways == RegistrySpec => []BindingsHold
<1>1. RegistryInv => BindingsHold
  <2> SUFFICES ASSUME RegistryInv, NEW k \in Kinds PROVE Cardinality(Usable(k)) <= 1
    BY DEF RegistryInv, BindingsAreKept, BindingsHold
  <2>1. \A s, t \in Usable(k) : s = t
    <3> SUFFICES ASSUME NEW s \in Usable(k), NEW t \in Usable(k) PROVE s.id = t.id
      BY DEF RegistryInv, SourcesAreNamed, Usable
    <3>1. ASSUME NEW u \in Usable(k), u.id # UserSource PROVE u.id = <<k, 0>> /\ u \in sources
      BY <3>1 DEF RegistryInv, SourcesAreNamed, Usable
    <3>2. ASSUME NEW u \in Usable(k), NEW v \in Usable(k), u.id = UserSource, v.id = <<k, 0>> PROVE FALSE
      BY <3>2 DEF RegistryInv, KindsAreServedOnce, NamedBeside, Usable
    <3>3. QED
      BY <3>1, <3>2
  <2>2. CASE Usable(k) = {}
    BY <2>2, FS_EmptySet
  <2>3. CASE Usable(k) # {}
    <3>1. PICK s \in Usable(k) : Usable(k) = {s}
      BY <2>1, <2>3
    <3>2. Cardinality({s}) = 1
      BY FS_Singleton
    <3>3. QED
      BY <3>1, <3>2
  <2>4. QED
    BY <2>2, <2>3
<1>2. QED
  BY <1>1, RegistryInvariance, PTL
-----------------------------------------------------------------------------
(* ScenarioTopology.                                                       *)

\* The cohort of a replica is one of its source's: of everybody, of a team or
\* of a user.
LEMMA CohortsOfRows ==
  ASSUME NEW roster, roster \subseteq (Nat \ {0}) \X Nat, NEW scopes, NEW rows,
         \A s \in DOMAIN scopes : scopes[s] \in {"shared", "per_team", "per_user"},
         MatchesRoster(roster, scopes, rows), NEW r \in rows
  PROVE  /\ r.source \in DOMAIN scopes /\ r.cohort \in Cohorts(roster, scopes[r.source])
         /\ r.cohort \in Nat \X Nat
         /\ r.cohort[1] = 0 => r.cohort = <<0, 0>>
<1>1. <<r.source, r.cohort>> \in Expected(roster, scopes)
  BY DEF MatchesRoster
<1>2. PICK s \in DOMAIN scopes : <<r.source, r.cohort>> \in {<<s, c>> : c \in Cohorts(roster, scopes[s])}
  BY <1>1 DEF Expected
<1>3. r.source = s /\ r.cohort \in Cohorts(roster, scopes[s])
  BY <1>2
<1>4. r.cohort = <<0, 0>> \/ r.cohort \in roster
  BY <1>3 DEF Cohorts
<1>5. CASE r.cohort = <<0, 0>>
  BY <1>3, <1>5
<1>6. CASE r.cohort \in roster
  <2>1. r.cohort \in (Nat \ {0}) \X Nat
    BY <1>6
  <2>. QED
    BY <1>3, <2>1
<1>. QED
  BY <1>4, <1>5, <1>6

\* _identities compares sets and lengths: each source has one replica for each
\* of its cohorts.
LEMMA ReplicasOfSource ==
  ASSUME NEW roster, NEW scopes, NEW rows, IsFiniteSet(rows), MatchesRoster(roster, scopes, rows),
         NEW s \in DOMAIN scopes
  PROVE  Cardinality({r \in rows : r.source = s}) = Cardinality(Cohorts(roster, scopes[s]))
<1>. DEFINE Key == [r \in rows |-> <<r.source, r.cohort>>]
            Own == {r \in rows : r.source = s}
            Cohort == [r \in Own |-> r.cohort]
<1>1. Key \in Surjection(rows, Expected(roster, scopes))
  BY DEF MatchesRoster, Surjection
<1>2. Key \in Injection(rows, Expected(roster, scopes))
  BY <1>1, FS_SurjSameCardinalityImpliesInj DEF MatchesRoster
<1>3. \A r, q \in rows : r.source = q.source /\ r.cohort = q.cohort => r = q
  BY <1>2 DEF Injection, IsInjective
<1>4. \A r \in Own : r.cohort \in Cohorts(roster, scopes[s])
  <2>. SUFFICES ASSUME NEW r \in Own PROVE r.cohort \in Cohorts(roster, scopes[s])
    OBVIOUS
  <2>1. <<r.source, r.cohort>> \in Expected(roster, scopes)
    BY DEF MatchesRoster
  <2>2. PICK q \in DOMAIN scopes : <<r.source, r.cohort>> \in {<<q, c>> : c \in Cohorts(roster, scopes[q])}
    BY <2>1 DEF Expected
  <2>. QED
    BY <2>2
<1>5. \A c \in Cohorts(roster, scopes[s]) : \E r \in Own : r.cohort = c
  <2>. SUFFICES ASSUME NEW c \in Cohorts(roster, scopes[s]) PROVE \E r \in Own : r.cohort = c
    OBVIOUS
  <2>1. <<s, c>> \in Expected(roster, scopes)
    BY DEF Expected
  <2>. QED
    BY <2>1 DEF MatchesRoster
<1>6. Cohort \in Bijection(Own, Cohorts(roster, scopes[s]))
  <2>1. Cohort \in [Own -> Cohorts(roster, scopes[s])]
    BY <1>4
  <2>2. \A r, q \in Own : Cohort[r] = Cohort[q] => r = q
    BY <1>3
  <2>3. \A c \in Cohorts(roster, scopes[s]) : \E r \in Own : Cohort[r] = c
    BY <1>5
  <2>. QED
    BY <2>1, <2>2, <2>3 DEF Bijection, Injection, IsInjective, Surjection
<1>7. IsFiniteSet(Own)
  BY FS_Subset
<1>. QED
  BY <1>6, <1>7, FS_Bijection DEF ExistsBijection

\* Whose address lies in the subnet of a network may connect to it.
LEMMA TouchesIsAllowed ==
  ASSUME NEW d, Accepts(d), NEW i \in d.instances, NEW net \in d.networks, Touches(d, i, net)
  PROVE  MayConnect(i, net)
<1>1. PICK n \in i.nics : n.ip \in net.subnet
  BY DEF Touches
<1>2. PICK own \in d.networks : MayConnect(i, own) /\ n.ip \in own.subnet
  BY DEF Accepts, NicsAgree
<1>3. own = net
  BY <1>1, <1>2 DEF Accepts
<1>. QED
  BY <1>2, <1>3

\* Accepted declarations keep teams and users apart.
LEMMA AcceptedIsIsolated ==
  ASSUME NEW d \in Documents, Accepts(d)
  PROVE  /\ \A i, j \in d.instances, net \in d.networks :
              Touches(d, i, net) /\ Touches(d, j, net) /\ i.cohort[1] # j.cohort[1] => net.cohort = <<0, 0>>
         /\ \A i, j \in d.instances, net \in d.networks :
              Touches(d, i, net) /\ Touches(d, j, net) /\ i.cohort # j.cohort => net.cohort[2] = 0
         /\ \A s \in DOMAIN d.nodeScopes :
              Cardinality({i \in d.instances : i.source = s}) = Cardinality(Cohorts(d.roster, d.nodeScopes[s]))
<1>1. \A i \in d.instances : i.cohort \in Nat \X Nat
  BY TopologyAssumption, CohortsOfRows DEF Accepts
<1>2. ASSUME NEW net \in d.networks
      PROVE  net.cohort \in Nat \X Nat /\ (net.cohort[1] = 0 => net.cohort = <<0, 0>>)
  <2>1. MatchesRoster(d.roster, d.networkScopes, d.networks)
    BY DEF Accepts
  <2>2. /\ d.roster \subseteq (Nat \ {0}) \X Nat
        /\ \A s \in DOMAIN d.networkScopes : d.networkScopes[s] \in {"shared", "per_team", "per_user"}
    BY TopologyAssumption
  <2>. QED
    BY <2>1, <2>2, CohortsOfRows
<1>3. \A i, j \in d.instances, net \in d.networks :
        Touches(d, i, net) /\ Touches(d, j, net) => MayConnect(i, net) /\ MayConnect(j, net)
  BY TouchesIsAllowed
<1>4. ASSUME NEW i \in d.instances, NEW j \in d.instances, NEW net \in d.networks,
             Touches(d, i, net), Touches(d, j, net), i.cohort[1] # j.cohort[1]
      PROVE  net.cohort = <<0, 0>>
  BY <1>2, <1>3, <1>4 DEF MayConnect
<1>5. ASSUME NEW i \in d.instances, NEW j \in d.instances, NEW net \in d.networks,
             Touches(d, i, net), Touches(d, j, net), i.cohort # j.cohort
      PROVE  net.cohort[2] = 0
  <2>1. SUFFICES ASSUME net.cohort[2] # 0 PROVE FALSE
    OBVIOUS
  <2>2. net.cohort[1] # 0
    BY <1>2, <2>1
  <2>3. i.cohort[1] = net.cohort[1] /\ i.cohort[2] = net.cohort[2]
    BY <1>3, <1>5, <2>1, <2>2 DEF MayConnect
  <2>4. j.cohort[1] = net.cohort[1] /\ j.cohort[2] = net.cohort[2]
    BY <1>3, <1>5, <2>1, <2>2 DEF MayConnect
  <2>. QED
    BY <1>1, <1>5, <2>3, <2>4
<1>6. \A s \in DOMAIN d.nodeScopes :
        Cardinality({i \in d.instances : i.source = s}) = Cardinality(Cohorts(d.roster, d.nodeScopes[s]))
  BY TopologyAssumption, ReplicasOfSource DEF Accepts
<1>. QED
  BY <1>4, <1>5, <1>6

\* What becomes of a node under a node of the first level.
Copies(under, node, teams) ==
  IF under.kind = "group" /\ under.scope # "shared" THEN {Offset(node, t, under.offset) : t \in 1..teams}
  ELSE Leaves(node, teams)

\* An expansion is what is made of each place of the document.
LEMMA ExpansionIsCopies ==
  ASSUME NEW doc, NEW teams
  PROVE  Expansion(doc, teams) = UNION {Copies(p[1], p[2], teams) : p \in PlacesOf(doc)}
<1>. DEFINE Below(n) == {<<n, c>> : c \in n.children}
            Stands(n) == IF n.kind = "group" THEN Below(n) ELSE {<<n, n>>}
<1>1. ASSUME NEW n \in doc
      PROVE  Expand(n, teams) = UNION {Copies(p[1], p[2], teams) : p \in Stands(n)}
  <2>1. CASE n.kind # "group"
    BY <2>1 DEF Expand, Copies
  <2>2. CASE n.kind = "group"
    <3>1. Expand(n, teams) = UNION {Copies(n, c, teams) : c \in n.children}
      <4>1. CASE n.scope = "shared"
        <5>1. \A c : Copies(n, c, teams) = Leaves(c, teams)
          BY <4>1 DEF Copies
        <5>. QED
          BY <2>2, <4>1, <5>1 DEF Expand
      <4>2. CASE n.scope # "shared"
        <5>1. \A c : Copies(n, c, teams) = {Offset(c, t, n.offset) : t \in 1..teams}
          BY <2>2, <4>2 DEF Copies
        <5>2. Expand(n, teams) = {Offset(c, t, n.offset) : c \in n.children, t \in 1..teams}
          BY <2>2, <4>2 DEF Expand
        <5>. QED
          BY <5>1, <5>2
      <4>. QED
        BY <4>1, <4>2
    <3>2. ASSUME NEW p \in Below(n) PROVE p[2] \in n.children /\ Copies(p[1], p[2], teams) = Copies(n, p[2], teams)
      OBVIOUS
    <3>3. ASSUME NEW c \in n.children PROVE \E p \in Below(n) : Copies(p[1], p[2], teams) = Copies(n, c, teams)
      <4>1. <<n, c>> \in Below(n) /\ <<n, c>>[1] = n /\ <<n, c>>[2] = c
        OBVIOUS
      <4>. QED
        BY <4>1
    <3>4. Stands(n) = Below(n)
      BY <2>2
    <3>. HIDE DEF Below, Stands
    <3>. QED
      BY <3>1, <3>2, <3>3, <3>4
  <2>. QED
    BY <2>1, <2>2
<1>2. ASSUME NEW a \in Expansion(doc, teams)
      PROVE  a \in UNION {Copies(p[1], p[2], teams) : p \in PlacesOf(doc)}
  <2>1. PICK n \in doc : a \in Expand(n, teams)
    BY DEF Expansion
  <2>. QED
    BY <1>1, <2>1 DEF PlacesOf
<1>3. ASSUME NEW p \in PlacesOf(doc), NEW a \in Copies(p[1], p[2], teams)
      PROVE  a \in Expansion(doc, teams)
  <2>1. PICK n \in doc : p \in IF n.kind = "group" THEN {<<n, c>> : c \in n.children} ELSE {<<n, n>>}
    BY DEF PlacesOf
  <2>2. a \in Expand(n, teams)
    BY <1>1, <2>1
  <2>. QED
    BY <2>2 DEF Expansion
<1>. QED
  BY <1>2, <1>3

\* A copy has the id of its node and a team; the copies of a node are one, or
\* one for each team.
LEMMA CopiesOfNode ==
  ASSUME NEW under, NEW node, NEW teams \in Nat \ {0}
  PROVE  /\ \A a \in Copies(under, node, teams) :
              /\ a.id[1] = node.id
              /\ \A n \in a.notify : n[2] = a.id[2]
              /\ \A h \in a.handlers : h[2] = a.id[2]
         /\ \A a, b \in Copies(under, node, teams) : a.id = b.id => a = b
         /\ Cardinality(Copies(under, node, teams)) \in {1, teams}
<1>1. \A t, offset : /\ Offset(node, t, offset).id = <<node.id, t>>
                     /\ Offset(node, t, offset).notify = {<<n, t>> : n \in node.notify}
                     /\ Offset(node, t, offset).handlers = {<<h, t>> : h \in node.handlers}
  BY DEF Offset
<1>2. /\ Plain(node).id = <<node.id, 0>>
      /\ Plain(node).notify = {<<n, 0>> : n \in node.notify}
      /\ Plain(node).handlers = {<<h, 0>> : h \in node.handlers}
  BY DEF Plain
<1>3. ASSUME NEW offset, Copies(under, node, teams) = {Offset(node, t, offset) : t \in 1..teams}
      PROVE  /\ \A a \in Copies(under, node, teams) :
                  /\ a.id[1] = node.id
                  /\ \A n \in a.notify : n[2] = a.id[2]
                  /\ \A h \in a.handlers : h[2] = a.id[2]
             /\ \A a, b \in Copies(under, node, teams) : a.id = b.id => a = b
             /\ Cardinality(Copies(under, node, teams)) = teams
  <2>. DEFINE Copy == [t \in 1..teams |-> Offset(node, t, offset)]
  <2>1. \A a \in Copies(under, node, teams) : \E t \in 1..teams : a = Offset(node, t, offset)
    BY <1>3
  <2>2. \A t, u \in 1..teams : Offset(node, t, offset).id = Offset(node, u, offset).id => t = u
    BY <1>1
  <2>3. Copy \in Bijection(1..teams, Copies(under, node, teams))
    <3>1. Copy \in [1..teams -> Copies(under, node, teams)]
      BY <1>3
    <3>2. \A t, u \in 1..teams : Copy[t] = Copy[u] => t = u
      BY <2>2
    <3>3. \A a \in Copies(under, node, teams) : \E t \in 1..teams : Copy[t] = a
      BY <2>1
    <3>. QED
      BY <3>1, <3>2, <3>3 DEF Bijection, Injection, IsInjective, Surjection
  <2>4. Cardinality(Copies(under, node, teams)) = teams
    BY <2>3, FS_CountingElements DEF ExistsBijection
  <2>. QED
    BY <1>1, <2>1, <2>2, <2>4
<1>4. ASSUME Copies(under, node, teams) = {Plain(node)}
      PROVE  /\ \A a \in Copies(under, node, teams) :
                  /\ a.id[1] = node.id
                  /\ \A n \in a.notify : n[2] = a.id[2]
                  /\ \A h \in a.handlers : h[2] = a.id[2]
             /\ \A a, b \in Copies(under, node, teams) : a.id = b.id => a = b
             /\ Cardinality(Copies(under, node, teams)) = 1
  <2>1. Cardinality({Plain(node)}) = 1
    BY FS_Singleton
  <2>. QED
    BY <1>2, <1>4, <2>1
<1>. QED
  BY <1>3, <1>4 DEF Copies, Leaves

\* An expansion keeps its teams apart.
LEMMA ExpandedIsSeparate ==
  ASSUME NEW doc \in Authored, NEW teams \in TeamCounts
  PROVE  /\ \A a, b \in Expansion(doc, teams) : a # b => a.id # b.id
         /\ \A a \in Expansion(doc, teams) : \A n \in a.notify : n[2] = a.id[2]
         /\ \A a \in Expansion(doc, teams) : \A h \in a.handlers : h[2] = a.id[2]
         /\ \A n \in Authors(doc) : Cardinality({a \in Expansion(doc, teams) : a.id[1] = n.id}) \in {1, teams}
<1>1. teams \in Nat \ {0}
  BY TopologyAssumption
<1>2. \A a \in Expansion(doc, teams) : \E p \in PlacesOf(doc) : a \in Copies(p[1], p[2], teams)
  BY ExpansionIsCopies
<1>3. \A p \in PlacesOf(doc) : \A a \in Copies(p[1], p[2], teams) :
        /\ a.id[1] = p[2].id
        /\ \A n \in a.notify : n[2] = a.id[2]
        /\ \A h \in a.handlers : h[2] = a.id[2]
  BY <1>1, CopiesOfNode
<1>4. ASSUME NEW a \in Expansion(doc, teams), NEW b \in Expansion(doc, teams), a.id = b.id
      PROVE  a = b
  <2>1. PICK p \in PlacesOf(doc) : a \in Copies(p[1], p[2], teams)
    BY <1>2
  <2>2. PICK q \in PlacesOf(doc) : b \in Copies(q[1], q[2], teams)
    BY <1>2
  <2>3. p = q
    BY <1>3, <1>4, <2>1, <2>2, TopologyAssumption
  <2>. QED
    BY <1>1, <1>4, <2>1, <2>2, <2>3, CopiesOfNode
<1>5. ASSUME NEW n \in Authors(doc)
      PROVE  Cardinality({a \in Expansion(doc, teams) : a.id[1] = n.id}) \in {1, teams}
  <2>1. PICK p \in PlacesOf(doc) : n = p[2]
    BY DEF Authors
  <2>2. {a \in Expansion(doc, teams) : a.id[1] = n.id} = Copies(p[1], p[2], teams)
    <3>1. ASSUME NEW a \in Expansion(doc, teams), a.id[1] = n.id PROVE a \in Copies(p[1], p[2], teams)
      <4>1. PICK q \in PlacesOf(doc) : a \in Copies(q[1], q[2], teams)
        BY <1>2
      <4>2. q = p
        BY <1>3, <2>1, <3>1, <4>1, TopologyAssumption
      <4>. QED
        BY <4>1, <4>2
    <3>2. ASSUME NEW a \in Copies(p[1], p[2], teams) PROVE a \in Expansion(doc, teams) /\ a.id[1] = n.id
      BY <1>3, <2>1, ExpansionIsCopies
    <3>. QED
      BY <3>1, <3>2
  <2>. QED
    BY <1>1, <2>2, CopiesOfNode
<1>. QED
  BY <1>2, <1>3, <1>4, <1>5

\* What a review or an expansion answers is of its input.
TopologyInv ==
  \/ topology = Untouched
  \/ \E d \in Documents : topology = [what |-> "review", document |-> d, accepted |-> Accepts(d)]
  \/ \E doc \in Authored, teams \in TeamCounts :
       topology = [what |-> "expansion", authored |-> doc, teams |-> teams, nodes |-> Expansion(doc, teams)]

\* The instances of an accepted declaration meet across teams, or across users
\* of a team, in shared networks only and each source has exactly its replicas
\* (validate_scenario_instances); the nodes of an expansion have ids of their
\* own and notify handlers of their own team (expand_replication).
THEOREM TopologyIsSoundHolds == TopologySpec => []TopologyIsSound
<1>1. TopologyInit => TopologyInv
  BY DEF TopologyInit, TopologyInv
<1>2. TopologyInv /\ [TopologyNext]_topology => TopologyInv'
  BY DEF TopologyInv, TopologyNext, ReviewInstances, ExpandDocument, Answer
<1>3. TopologyInv => TopologyIsSound
  <2>. SUFFICES ASSUME TopologyInv PROVE TopologyIsSound
    OBVIOUS
  <2>1. CASE topology = Untouched
    BY <2>1 DEF Untouched, TopologyIsSound, CohortsAreIsolated, ExpansionSeparatesTeams
  <2>2. CASE \E d \in Documents : topology = [what |-> "review", document |-> d, accepted |-> Accepts(d)]
    <3>1. PICK d \in Documents : topology = [what |-> "review", document |-> d, accepted |-> Accepts(d)]
      BY <2>2
    <3>2. ExpansionSeparatesTeams
      BY <3>1 DEF ExpansionSeparatesTeams
    <3>3. CohortsAreIsolated
      BY <3>1, AcceptedIsIsolated DEF CohortsAreIsolated
    <3>. QED
      BY <3>2, <3>3 DEF TopologyIsSound
  <2>3. CASE \E doc \in Authored, teams \in TeamCounts :
               topology = [what |-> "expansion", authored |-> doc, teams |-> teams, nodes |-> Expansion(doc, teams)]
    <3>1. PICK doc \in Authored, teams \in TeamCounts :
            topology = [what |-> "expansion", authored |-> doc, teams |-> teams, nodes |-> Expansion(doc, teams)]
      BY <2>3
    <3>2. CohortsAreIsolated
      BY <3>1 DEF CohortsAreIsolated
    <3>3. ExpansionSeparatesTeams
      BY <3>1, ExpandedIsSeparate DEF ExpansionSeparatesTeams
    <3>. QED
      BY <3>2, <3>3 DEF TopologyIsSound
  <2>. QED
    BY <2>1, <2>2, <2>3 DEF TopologyInv
<1>. QED
  BY <1>1, <1>2, <1>3, PTL DEF TopologySpec
-----------------------------------------------------------------------------
(* Sums of sizes.                                                          *)

\* What holds of 0 and is handed on holds of every number of an interval.
LEMMA HandedOn ==
  ASSUME NEW n \in Nat, NEW S, 0 \in S, \A i \in 0..(n - 1) : i \in S => i + 1 \in S
  PROVE  0..n \subseteq S
<1> SUFFICES ASSUME NEW m \in 0..n, m \notin S PROVE FALSE
  OBVIOUS
<1> DEFINE B == {i \in 0..m : i \in S}
           f == [i \in B |-> i + 1]
<1>1. IsFiniteSet(B)
  <2>1. IsFiniteSet(0..m)
    BY FS_Interval
  <2> QED
    BY <2>1, FS_Subset
<1>2. 0 \in B
  OBVIOUS
<1>3. IsFiniteSet(B \ {0}) /\ Cardinality(B \ {0}) = Cardinality(B) - 1
  BY <1>1, <1>2, FS_RemoveElement
<1>4. \A i \in B : i \in 0..(n - 1) /\ i + 1 \in 0..m /\ i + 1 # 0
  OBVIOUS
<1>5. f \in [B -> B \ {0}]
  BY <1>4
<1>6. Cardinality(B) \in Nat
  BY <1>1, FS_CardinalityType
<1>7. PICK i \in B, j \in B : i # j /\ f[i] = f[j]
  <2> HIDE DEF B, f
  <2>1. Cardinality(B \ {0}) < Cardinality(B)
    BY <1>3, <1>6
  <2> QED
    BY <1>1, <1>3, <1>5, <2>1, FS_PigeonHole
<1> QED
  BY <1>7

\* The sum of the weights of a set, from those of its subsets.
Summed(w, g, s) == IF s = {} THEN 0 ELSE w[CHOOSE x \in s : TRUE] + g[s \ {CHOOSE x \in s : TRUE}]
Sums(S, w) == {g \in [SUBSET S -> Nat] : \A s \in SUBSET S : g[s] = Summed(w, g, s)}

\* Sums of natural numbers over a finite set exist, and are natural numbers.
LEMMA SumsExist ==
  ASSUME NEW S, IsFiniteSet(S), NEW w \in [S -> Nat]
  PROVE  Sums(S, w) # {}
<1> DEFINE n == Cardinality(S)
           V == [SUBSET S -> Nat]
           Good == {i \in 0..n : \E g \in V : \A s \in SUBSET S : Cardinality(s) <= i => g[s] = Summed(w, g, s)}
<1>1. n \in Nat /\ \A s \in SUBSET S : IsFiniteSet(s) /\ Cardinality(s) \in Nat /\ Cardinality(s) <= n
  BY FS_CardinalityType, FS_Subset
<1>2. 0 \in Good
  <2> DEFINE g == [s \in SUBSET S |-> 0]
  <2>1. g \in V
    OBVIOUS
  <2>2. \A s \in SUBSET S : Cardinality(s) <= 0 => s = {}
    BY <1>1, FS_EmptySet
  <2>3. \A s \in SUBSET S : Cardinality(s) <= 0 => g[s] = Summed(w, g, s)
    BY <2>2 DEF Summed
  <2> HIDE DEF g, V, n
  <2> QED
    BY <1>1, <2>1, <2>3
<1>3. ASSUME NEW i \in 0..(n - 1), i \in Good PROVE i + 1 \in Good
  <2>1. PICK g \in V : \A s \in SUBSET S : Cardinality(s) <= i => g[s] = Summed(w, g, s)
    BY <1>3
  <2> DEFINE h == [s \in SUBSET S |-> Summed(w, g, s)]
             p(s) == CHOOSE x \in s : TRUE
  <2>2. \A s \in SUBSET S : s # {} => p(s) \in s
    OBVIOUS
  <2>3. \A s \in SUBSET S : Summed(w, g, s) \in Nat
    <3> SUFFICES ASSUME NEW s \in SUBSET S PROVE Summed(w, g, s) \in Nat
      OBVIOUS
    <3>1. CASE s = {}
      BY <3>1 DEF Summed
    <3>2. CASE s # {}
      <4>1. w[p(s)] \in Nat /\ g[s \ {p(s)}] \in Nat
        BY <2>2, <3>2
      <4> QED
        BY <3>2, <4>1 DEF Summed
    <3> QED
      BY <3>1, <3>2
  <2>4. h \in V
    BY <2>3
  <2>5. ASSUME NEW s \in SUBSET S, Cardinality(s) <= i + 1
        PROVE  h[s] = Summed(w, h, s)
    <3>1. CASE s = {}
      BY <3>1 DEF Summed
    <3>2. CASE s # {}
      <4> DEFINE r == s \ {p(s)}
      <4>1. r \in SUBSET S /\ Cardinality(r) = Cardinality(s) - 1
        BY <1>1, <2>2, <3>2, FS_RemoveElement
      <4>2. Cardinality(r) <= i
        BY <1>1, <2>5, <4>1
      <4>3. g[r] = h[r]
        BY <2>1, <4>1, <4>2
      <4> QED
        BY <3>2, <4>3 DEF Summed
    <3> QED
      BY <3>1, <3>2
  <2>6. i + 1 \in 0..n
    BY <1>1
  <2> HIDE DEF h, V, n
  <2> QED
    BY <2>4, <2>5, <2>6
<1>4. n \in Good
  <2> HIDE DEF Good, n
  <2>1. 0..n \subseteq Good
    BY <1>1, <1>2, <1>3, HandedOn
  <2> QED
    BY <1>1, <2>1
<1>5. PICK g \in V : \A s \in SUBSET S : Cardinality(s) <= n => g[s] = Summed(w, g, s)
  BY <1>4
<1> QED
  BY <1>1, <1>5 DEF Sums

\* Whatever adds the weights up arrives at a natural number.
LEMMA SumsAreNat ==
  ASSUME NEW S, IsFiniteSet(S), NEW w \in [S -> Nat],
         NEW g, \A s \in SUBSET S : g[s] = Summed(w, g, s)
  PROVE  g[S] \in Nat
<1> DEFINE n == Cardinality(S)
           Good == {i \in 0..n : \A s \in SUBSET S : Cardinality(s) <= i => g[s] \in Nat}
<1>1. n \in Nat /\ \A s \in SUBSET S : IsFiniteSet(s) /\ Cardinality(s) \in Nat /\ Cardinality(s) <= n
  BY FS_CardinalityType, FS_Subset
<1>0. g[{}] = 0
  <2>1. g[{}] = Summed(w, g, {})
    OBVIOUS
  <2>2. Summed(w, g, {}) = 0
    BY DEF Summed
  <2> QED
    BY <2>1, <2>2
<1>2. 0 \in Good
  <2>1. \A s \in SUBSET S : Cardinality(s) <= 0 => s = {}
    BY <1>1, FS_EmptySet
  <2>2. ASSUME NEW s \in SUBSET S, Cardinality(s) <= 0 PROVE g[s] \in Nat
    <3>1. s = {}
      BY <2>1, <2>2
    <3>2. g[s] = 0
      BY <1>0, <3>1
    <3> QED
      BY <3>2
  <2> HIDE DEF n
  <2> QED
    BY <1>1, <2>2
<1>3. ASSUME NEW i \in 0..(n - 1), i \in Good PROVE i + 1 \in Good
  <2>1. ASSUME NEW s \in SUBSET S, Cardinality(s) <= i + 1
        PROVE  g[s] \in Nat
    <3>1. CASE s = {}
      BY <1>0, <3>1
    <3>2. CASE s # {}
      <4> DEFINE p == CHOOSE x \in s : TRUE
                 r == s \ {p}
      <4>1. p \in s /\ p \in S
        BY <3>2
      <4>2. r \in SUBSET S /\ Cardinality(r) = Cardinality(s) - 1
        BY <1>1, <4>1, FS_RemoveElement
      <4>3. Cardinality(r) <= i
        BY <1>1, <2>1, <4>2
      <4>4. g[r] \in Nat /\ w[p] \in Nat
        BY <1>3, <4>1, <4>2, <4>3
      <4>5. g[s] = w[p] + g[r]
        BY <3>2 DEF Summed
      <4> QED
        BY <4>4, <4>5
    <3> QED
      BY <3>1, <3>2
  <2>2. i + 1 \in 0..n
    BY <1>1
  <2> HIDE DEF n
  <2> QED
    BY <2>1, <2>2
<1>4. n \in Good
  <2> HIDE DEF Good, n
  <2>1. 0..n \subseteq Good
    BY <1>1, <1>2, <1>3, HandedOn
  <2> QED
    BY <1>1, <2>1
<1> QED
  BY <1>1, <1>4

\* What a plan needs of the memory of its target.
LEMMA RequiredMemoryIsNat ==
  ASSUME NEW t, NEW plan, IsFiniteSet(plan.vms), \A vm \in plan.vms : Need(t, vm) \in Nat
  PROVE  RequiredMemory(t, plan) \in Nat
<1> DEFINE S == plan.vms
           w == [vm \in S |-> Need(t, vm)]
           Follows(g) == g = [s \in SUBSET S |-> IF s = {} THEN 0
                              ELSE LET x == CHOOSE x \in s : TRUE IN Need(t, x) + g[s \ {x}]]
<1>1. IsFiniteSet(S) /\ w \in [S -> Nat]
  BY FS_Subset
<1>2. PICK g \in [SUBSET S -> Nat] : \A s \in SUBSET S : g[s] = Summed(w, g, s)
  <2> HIDE DEF S, w
  <2>1. Sums(S, w) # {}
    BY <1>1, SumsExist
  <2> QED
    BY <2>1 DEF Sums
<1>3. Follows(g)
  <2> DEFINE p(s) == CHOOSE x \in s : TRUE
             h == [s \in SUBSET S |-> IF s = {} THEN 0 ELSE Need(t, p(s)) + g[s \ {p(s)}]]
  <2>1. ASSUME NEW s \in SUBSET S
        PROVE  g[s] = h[s]
    <3>1. s # {} => p(s) \in S
      OBVIOUS
    <3>2. s # {} => w[p(s)] = Need(t, p(s))
      BY <3>1
    <3> QED
      BY <1>2, <3>2 DEF Summed
  <2>2. g = h
    BY <2>1
  <2> QED
    BY <2>2
<1> DEFINE sum == CHOOSE f : Follows(f)
<1>4. Follows(sum)
  <2> HIDE DEF Follows
  <2> QED
    BY <1>3
<1>5. RequiredMemory(t, plan) = sum[S]
  BY DEF RequiredMemory, MapThenSumSet, MapThenFoldSet
<1>6. \A s \in SUBSET S : sum[s] = Summed(w, sum, s)
  <2> DEFINE p(s) == CHOOSE x \in s : TRUE
  <2> HIDE DEF sum
  <2> SUFFICES ASSUME NEW s \in SUBSET S PROVE sum[s] = Summed(w, sum, s)
    OBVIOUS
  <2>1. sum[s] = IF s = {} THEN 0 ELSE Need(t, p(s)) + sum[s \ {p(s)}]
    BY <1>4
  <2>2. s # {} => p(s) \in S
    OBVIOUS
  <2>3. s # {} => w[p(s)] = Need(t, p(s))
    BY <2>2
  <2> QED
    BY <2>1, <2>3 DEF Summed
<1>7. sum[S] \in Nat
  <2> HIDE DEF sum, w, S
  <2> QED
    BY <1>1, <1>6, SumsAreNat
<1> HIDE DEF sum
<1> QED
  BY <1>5, <1>7

\* What a plan needs of a pool.
LEMMA EstimateIsNat ==
  ASSUME NEW t, NEW plan, NEW pool, IsFiniteSet(plan.vms), \A vm \in plan.vms : Clone(t, vm) \in Nat
  PROVE  Estimate(t, plan, pool) \in Nat
<1> DEFINE S == {vm \in plan.vms : PoolOf(t, vm) = pool}
           w == [vm \in S |-> Clone(t, vm)]
           Follows(g) == g = [s \in SUBSET S |-> IF s = {} THEN 0
                              ELSE LET x == CHOOSE x \in s : TRUE IN Clone(t, x) + g[s \ {x}]]
<1>1. IsFiniteSet(S) /\ w \in [S -> Nat]
  BY FS_Subset
<1>2. PICK g \in [SUBSET S -> Nat] : \A s \in SUBSET S : g[s] = Summed(w, g, s)
  <2> HIDE DEF S, w
  <2>1. Sums(S, w) # {}
    BY <1>1, SumsExist
  <2> QED
    BY <2>1 DEF Sums
<1>3. Follows(g)
  <2> DEFINE p(s) == CHOOSE x \in s : TRUE
             h == [s \in SUBSET S |-> IF s = {} THEN 0 ELSE Clone(t, p(s)) + g[s \ {p(s)}]]
  <2>1. ASSUME NEW s \in SUBSET S
        PROVE  g[s] = h[s]
    <3>1. s # {} => p(s) \in S
      OBVIOUS
    <3>2. s # {} => w[p(s)] = Clone(t, p(s))
      BY <3>1
    <3> QED
      BY <1>2, <3>2 DEF Summed
  <2>2. g = h
    BY <2>1
  <2> QED
    BY <2>2
<1> DEFINE sum == CHOOSE f : Follows(f)
<1>4. Follows(sum)
  <2> HIDE DEF Follows
  <2> QED
    BY <1>3
<1>5. Estimate(t, plan, pool) = sum[S]
  BY DEF Estimate, MapThenSumSet, MapThenFoldSet
<1>6. \A s \in SUBSET S : sum[s] = Summed(w, sum, s)
  <2> DEFINE p(s) == CHOOSE x \in s : TRUE
  <2> HIDE DEF sum
  <2> SUFFICES ASSUME NEW s \in SUBSET S PROVE sum[s] = Summed(w, sum, s)
    OBVIOUS
  <2>1. sum[s] = IF s = {} THEN 0 ELSE Clone(t, p(s)) + sum[s \ {p(s)}]
    BY <1>4
  <2>2. s # {} => p(s) \in S
    OBVIOUS
  <2>3. s # {} => w[p(s)] = Clone(t, p(s))
    BY <2>2
  <2> QED
    BY <2>1, <2>3 DEF Summed
<1>7. sum[S] \in Nat
  <2> HIDE DEF sum, w, S
  <2> QED
    BY <1>1, <1>6, SumsAreNat
<1> HIDE DEF sum
<1> QED
  BY <1>5, <1>7

-----------------------------------------------------------------------------
(* ScenarioReview and PreflightChecks.                                     *)

\* A report is the worst of its checks.
LEMMA WorstOf ==
  ASSUME NEW checks
  PROVE  /\ Worst(checks) = "block" <=> "block" \in checks
         /\ Worst(checks) = "pass" => "block" \notin checks /\ "warn" \notin checks
BY DEF Worst

\* Networks that a review lets through.
LEMMA NetworksReviewed ==
  ASSUME NEW t \in Targets, NEW plan \in Plans, NEW scope, scope # "teardown", plan.vnets # {},
         NetworkCheck(t, plan, scope) # "block"
  PROVE  NetworksAreSafe(t, plan, scope)
<1>1. /\ PlanIsValid(plan.vnets) /\ ~t.pending
      /\ \A d \in plan.vnets : ~VNetConflict(t, d) /\ ~VNetNotReady(t, d, scope)
  BY DEF NetworkCheck
<1>2. ASSUME NEW d \in plan.vnets, NEW s \in SubnetsAfter(t, plan), Overlaps(s.subnet, d.subnet)
      PROVE  s.vnet = d.vnet /\ s.subnet = d.subnet /\ s.snat = d.snat
  <2>1. CASE s \in t.subnets
    BY <1>1, <1>2, <2>1 DEF VNetConflict
  <2>2. CASE \E e \in plan.vnets : s = [vnet |-> e.vnet, subnet |-> e.subnet, snat |-> e.snat]
    <3>1. PICK e \in plan.vnets : s = [vnet |-> e.vnet, subnet |-> e.subnet, snat |-> e.snat]
      BY <2>2
    <3>2. e = d
      BY <1>1, <1>2, <3>1 DEF PlanIsValid
    <3>. QED
      BY <3>1, <3>2
  <2>. QED
    BY <2>1, <2>2 DEF SubnetsAfter
<1>3. \A d \in plan.vnets : \A i \in t.interfaces : i.iface # d.vnet => ~Overlaps(i.subnet, d.subnet)
  BY <1>1 DEF VNetConflict
<1>4. \A d \in plan.vnets : \A v \in t.vnets : v.vnet = d.vnet => v.zone = "ours" /\ v.available
  BY <1>1 DEF VNetConflict, VNetNotReady, Configured
<1>5. ASSUME scope = "configure" PROVE SubnetsAfter(t, plan) = t.subnets
  <2>. SUFFICES ASSUME NEW d \in plan.vnets
                PROVE  [vnet |-> d.vnet, subnet |-> d.subnet, snat |-> d.snat] \in t.subnets
    BY DEF SubnetsAfter
  <2>1. PICK s \in t.subnets : s.vnet = d.vnet /\ s.subnet = d.subnet
    BY <1>1, <1>5 DEF VNetNotReady, Found
  <2>2. Overlaps(s.subnet, d.subnet)
    BY <2>1, ReviewAssumption DEF Overlaps
  <2>3. s.snat = d.snat
    BY <1>1, <2>1, <2>2 DEF VNetConflict
  <2>. QED
    BY <2>1, <2>3, ReviewAssumption
<1>. QED
  BY <1>1, <1>2, <1>3, <1>4, <1>5 DEF NetworksAreSafe

\* Capacity that a review of the full scope lets through.
LEMMA CapacityReviewed ==
  ASSUME NEW t \in Targets, NEW plan \in Plans, "block" \notin CapacityChecks(t, plan)
  PROVE  CapacityIsSafe(t, plan)
<1>. DEFINE memory == MemoryChecks(Measured(t), RequiredMemory(t, plan))
<1>1. "block" \notin memory /\ "block" \notin StorageChecks(t, plan)
  <2>1. CapacityChecks(t, plan) =
          IF "block" \in memory THEN memory
          ELSE memory \cup StorageChecks(t, plan) \cup CpuChecks(t, plan) \cup UNION {DiskChecks(t, vm) : vm \in plan.vms}
    BY DEF CapacityChecks
  <2>. HIDE DEF memory
  <2>. QED
    BY <2>1
<1>2. RequiredMemory(t, plan) <= t.freeMemory
  <2>1. RequiredMemory(t, plan) \in Nat /\ t.freeMemory \in Nat
    <3>1. IsFiniteSet(plan.vms) /\ \A vm \in plan.vms : Need(t, vm) \in Nat
      BY ReviewAssumption DEF Need
    <3>2. RequiredMemory(t, plan) \in Nat
      BY <3>1, RequiredMemoryIsNat
    <3>. QED
      BY <3>2, ReviewAssumption
  <2>2. Measured(t) = t \/ Measured(t).freeMemory = Unknown \/ "freeMemory" \notin DOMAIN t
    BY DEF Measured
  <2>3. Measured(t).freeMemory # Unknown /\ ~(RequiredMemory(t, plan) > Measured(t).freeMemory)
    BY <1>1 DEF MemoryChecks
  <2>4. Measured(t).freeMemory = t.freeMemory
    BY <2>2, <2>3 DEF Measured
  <2>. QED
    BY <2>1, <2>3, <2>4
<1>3. ASSUME NEW pool \in SelectedPools(plan)
      PROVE  Estimate(t, plan, pool) <= t.pool[pool].free
  <2>1. t.templateDisk # Unknown
    BY <1>1, <1>3 DEF StorageChecks
  <2>2. "block" \notin PoolChecks(t, plan, pool)
    BY <1>1, <1>3 DEF StorageChecks
  <2>3. ~(Estimate(t, plan, pool) > t.pool[pool].free)
    BY <1>3, <2>1, <2>2 DEF PoolChecks
  <2>4. Estimate(t, plan, pool) \in Nat /\ t.pool[pool].free \in Nat
    <3>1. IsFiniteSet(plan.vms) /\ \A vm \in plan.vms : Clone(t, vm) \in Nat
      BY ReviewAssumption DEF Clone
    <3>2. Estimate(t, plan, pool) \in Nat
      BY <3>1, EstimateIsNat
    <3>. QED
      BY <1>3, <3>2, ReviewAssumption
  <2>. QED
    BY <2>3, <2>4
<1>4. \A vm \in plan.vms : Clone(t, vm) >= t.templateDisk
  BY ReviewAssumption DEF Clone
<1>. QED
  BY <1>2, <1>3, <1>4 DEF CapacityIsSafe

\* A report that does not block, of a scenario that is not native.
LEMMA ReportIsSafe ==
  ASSUME NEW t \in Targets, NEW plan \in Plans, NEW scope, Report(t, plan, scope) # "block", ~plan.native
  PROVE  /\ GuestsAreSafe(t, plan, scope)
         /\ scope # "teardown" /\ plan.vnets # {} => NetworksAreSafe(t, plan, scope)
         /\ scope = "full" => CapacityIsSafe(t, plan)
<1>1. /\ VmidCheck(t, plan) # "block"
      /\ NetworkCheck(t, plan, scope) # "block"
      /\ "block" \notin ResourceChecks(t, plan, scope)
  BY WorstOf DEF Report
<1>2. \A vm \in plan.vms : vm.id \notin t.protected
  BY <1>1 DEF VmidCheck
<1>3. ASSUME scope = "full" PROVE (\A vm \in plan.vms : t.guest[vm.id] = "none") /\ CapacityIsSafe(t, plan)
  BY <1>1, <1>3, CapacityReviewed DEF ResourceChecks, FullBlocks, Exists
<1>4. ASSUME scope # "full", NEW vm \in plan.vms
      PROVE  /\ scope = "configure" => t.guest[vm.id] = "own"
             /\ scope = "teardown" => t.guest[vm.id] \in {"own", "none"}
  BY <1>1, <1>4 DEF ResourceChecks, OwnedBlocks, Exists, Visible
<1>5. scope # "teardown" /\ plan.vnets # {} => NetworksAreSafe(t, plan, scope)
  BY <1>1, NetworksReviewed
<1>. QED
  BY <1>2, <1>3, <1>4, <1>5 DEF GuestsAreSafe

ReviewInv ==
  \/ review = NotReviewed
  \/ \E t \in Targets, plan \in Plans, scope \in ReviewScopes :
       review = [scope |-> scope, target |-> t, plan |-> plan, result |-> Report(t, plan, scope)]

\* What a report lets through touches nobody else's guests or networks and fits
\* (check_scenario_networks, check_scenario_resources).
THEOREM ReviewIsSafeHolds == ReviewSpec => []ReviewIsSafe
<1>1. ReviewInit => ReviewInv
  BY DEF ReviewInit, ReviewInv
<1>2. ReviewInv /\ [ReviewNext]_review => ReviewInv'
  BY DEF ReviewInv, ReviewNext, RunPreflight, LatestPreflight
<1>3. ReviewInv => ReviewIsSafe
  <2>. SUFFICES ASSUME ReviewInv, review # NotReviewed, review.result # "block", ~review.plan.native
                PROVE  /\ GuestsAreSafe(review.target, review.plan, review.scope)
                       /\ review.scope # "teardown" /\ review.plan.vnets # {} =>
                            NetworksAreSafe(review.target, review.plan, review.scope)
                       /\ review.scope = "full" => CapacityIsSafe(review.target, review.plan)
    BY DEF ReviewIsSafe
  <2>1. PICK t \in Targets, plan \in Plans, scope \in ReviewScopes :
          review = [scope |-> scope, target |-> t, plan |-> plan, result |-> Report(t, plan, scope)]
    BY DEF ReviewInv
  <2>2. review.target = t /\ review.plan = plan /\ review.scope = scope /\ review.result = Report(t, plan, scope)
    BY <2>1
  <2>. QED
    BY <2>2, ReportIsSafe
<1>. QED
  BY <1>1, <1>2, <1>3, PTL DEF ReviewSpec

\* The facts of a situation that its services cannot turn, and the answers
\* that they can give.
SituationOK(s) ==
  /\ DOMAIN s = RequestFields \cup ServiceFields
  /\ s.required \in Nat /\ s.total \in Nat
  /\ \A a \in s.attachments : a.kind \in AttachmentKinds
  /\ s.git \in Answers
  /\ \A i \in DOMAIN s.images : s.images[i] \in Answers

\* A service that turns leaves a situation, with the same request.
LEMMA TurnedIsOK ==
  ASSUME NEW s, SituationOK(s), NEW o \in Outages
  PROVE  SituationOK(Turned(s, o)) /\ Turned(s, o).playbook = s.playbook
<1>. DEFINE r == Turned(s, o)
<1>1. DOMAIN o \subseteq ServiceFields
  BY PreflightAssumption
<1>2. DOMAIN r = DOMAIN s /\ \A f \in DOMAIN s : r[f] = IF f \in DOMAIN o THEN o[f] ELSE s[f]
  BY DEF Turned
<1>3. \A f \in RequestFields : f \in DOMAIN s /\ f \notin DOMAIN o
  BY <1>1 DEF SituationOK, RequestFields, ServiceFields
<1>4. \A f \in RequestFields : r[f] = s[f]
  BY <1>2, <1>3
<1>5. r.required = s.required /\ r.total = s.total /\ r.attachments = s.attachments /\ r.playbook = s.playbook
  BY <1>4 DEF RequestFields
<1>6. "git" \in DOMAIN s /\ "images" \in DOMAIN s
  BY DEF SituationOK, ServiceFields
<1>7. r.git \in Answers
  BY <1>2, <1>6, PreflightAssumption DEF SituationOK
<1>8. \A i \in DOMAIN r.images : r.images[i] \in Answers
  BY <1>2, <1>6, PreflightAssumption DEF SituationOK
<1>9. DOMAIN r = RequestFields \cup ServiceFields
  BY <1>2 DEF SituationOK
<1>. QED
  BY <1>5, <1>7, <1>8, <1>9 DEF SituationOK

\* A verdict of a check that knows its name and has its arguments.
LEMMA VerdictIsEarned ==
  ASSUME NEW s, SituationOK(s), NEW given, NEW name \in DOMAIN Arguments, Arguments[name] \subseteq given,
         "block" \notin Verdicts(name, s, given), "warn" \notin Verdicts(name, s, given)
  PROVE  Fine(name, s)
<1>1. name \in {"connectivity", "vmids", "assets", "node_role", "secrets", "git", "images", "bridge", "budget"}
  BY DEF Arguments
<1>2. CASE name = "connectivity"
  BY <1>2 DEF Verdicts, CheckApi, Fine
<1>3. CASE name = "vmids"
  <2>1. ToSet(s.requested) \cap s.reserved = {} /\ IsInjective(s.requested)
    BY <1>3 DEF Verdicts, CheckVmids
  <2>2. \A i \in DOMAIN s.requested : s.requested[i] \notin s.reserved
    BY <2>1 DEF ToSet
  <2>3. \A i, j \in DOMAIN s.requested : i # j => s.requested[i] # s.requested[j]
    BY <2>1 DEF IsInjective
  <2>. QED
    BY <1>3, <2>2, <2>3 DEF Fine
<1>4. CASE name = "assets"
  <2>1. Verdicts(name, s, given) = OrPass(UNION {Attachment(s, a, given) : a \in s.attachments})
    BY <1>4 DEF Verdicts, CheckAssets
  <2>2. \A a \in s.attachments : "block" \notin Attachment(s, a, given) /\ "warn" \notin Attachment(s, a, given)
    BY <2>1 DEF OrPass
  <2>3. ASSUME NEW a \in s.attachments, a.kind # "unknown" PROVE a.there
    <3>1. a.kind \in AttachmentKinds
      BY DEF SituationOK
    <3>. QED
      BY <2>2, <2>3, <3>1 DEF Attachment, AttachmentKinds
  <2>. QED
    BY <1>4, <2>3 DEF Fine
<1>5. CASE name = "node_role"
  BY <1>5 DEF Verdicts, CheckRoles, OrPass, Fine
<1>6. CASE name = "secrets"
  BY <1>6 DEF Verdicts, CheckSecrets, Fine
<1>7. CASE name = "git"
  BY <1>7 DEF Verdicts, CheckGit, Fine, SituationOK, Answers
<1>8. CASE name = "images"
  BY <1>8 DEF Verdicts, CheckImages, Fine, SituationOK, Answers
<1>9. CASE name = "bridge"
  BY <1>9 DEF Verdicts, CheckBridge, Fine
<1>10. CASE name = "budget"
  <2>1. s.total # 0 /\ ~(s.required * 10 > s.total * 9)
    BY <1>10 DEF Verdicts, CheckBudget
  <2>2. s.required \in Nat /\ s.total \in Nat
    BY DEF SituationOK
  <2>3. s.required < s.total
    BY <2>1, <2>2
  <2>. QED
    BY <1>10, <2>3 DEF Fine
<1>. QED
  BY <1>1, <1>2, <1>3, <1>4, <1>5, <1>6, <1>7, <1>8, <1>9, <1>10

\* What these three find wrong blocks.
LEMMA WrongBlocks ==
  ASSUME NEW s, SituationOK(s), NEW given, NEW name \in {"connectivity", "vmids", "assets"},
         Arguments[name] \subseteq given, ~Fine(name, s), name = "assets" => s.catalog
  PROVE  "block" \in Verdicts(name, s, given)
<1>1. CASE name = "connectivity"
  BY <1>1 DEF Verdicts, CheckApi, Fine
<1>2. CASE name = "vmids"
  <2>1. PICK i, j \in DOMAIN s.requested : s.requested[i] \in s.reserved \/ (i # j /\ s.requested[i] = s.requested[j])
    BY <1>2 DEF Fine
  <2>2. ToSet(s.requested) \cap s.reserved # {} \/ ~IsInjective(s.requested)
    BY <2>1 DEF ToSet, IsInjective
  <2>. QED
    BY <1>2, <2>2 DEF Verdicts, CheckVmids
<1>3. CASE name = "assets"
  <2>1. PICK a \in s.attachments : a.kind # "unknown" /\ ~a.there
    BY <1>3 DEF Fine
  <2>2. a.kind \in AttachmentKinds
    BY DEF SituationOK
  <2>3. s.catalog
    BY <1>3
  <2>4. "block" \in Attachment(s, a, given)
    BY <2>1, <2>2, <2>3 DEF Attachment, AttachmentKinds
  <2>. QED
    BY <1>3, <2>4 DEF Verdicts, CheckAssets, OrPass
<1>. QED
  BY <1>1, <1>2, <1>3

\* What a check has found stays in the report, as of when it was asked.
EarnedInv ==
  /\ SituationOK(situation)
  /\ \E N : preflight.names \in Seq(N)
  /\ preflight.kind \in {"none", "declared", "installed", "retired"}
  /\ preflight.kind = "none" => preflight = NoPreflight
  /\ preflight.kind = "retired" => preflight.names = <<>> /\ "block" \in preflight.checks
  /\ preflight.kind = "installed" => CheckPlaybook(situation) \subseteq preflight.checks
  /\ \A i \in DOMAIN preflight.ran :
       /\ SituationOK(preflight.ran[i].at)
       /\ RunNamed(preflight.ran[i].name, preflight.ran[i].at, preflight.given) \subseteq preflight.checks
  /\ \E R : preflight.ran \in Seq(R)
  /\ preflight = [kind |-> preflight.kind, names |-> preflight.names, given |-> preflight.given,
                  checks |-> preflight.checks, ran |-> preflight.ran, turns |-> preflight.turns]

\* Every check of a preflight has earned its verdict.
LEMMA EarnedInvariance == PreflightSpec => []EarnedInv
<1>1. ASSUME PreflightInit PROVE EarnedInv
  <2>1. SituationOK(situation)
    BY <1>1, PreflightAssumption DEF PreflightInit, SituationOK, RequestFields, ServiceFields
  <2>2. preflight = NoPreflight
    BY <1>1 DEF PreflightInit
  <2>. QED
    BY <2>1, <2>2 DEF EarnedInv, NoPreflight
<1>2. ASSUME EarnedInv, [PreflightNext]_preflightVars PROVE EarnedInv'
  <2>0. UNCHANGED preflightVars => EarnedInv'
    BY <1>2 DEF preflightVars, EarnedInv
  <2>1. ASSUME BeginDeclared PROVE EarnedInv'
    <3>1. PICK names \in NameLists, given \in Contexts :
            preflight' = [preflight EXCEPT !.kind = "declared", !.names = names, !.given = given]
      BY <2>1 DEF BeginDeclared
    <3>2. preflight = NoPreflight /\ situation' = situation
      BY <1>2, <2>1 DEF BeginDeclared, EarnedInv
    <3>3. preflight' = [kind |-> "declared", names |-> names, given |-> given, checks |-> {}, ran |-> <<>>, turns |-> 0]
      BY <3>1, <3>2 DEF NoPreflight
    <3>4. names \in Seq(STRING)
      BY PreflightAssumption
    <3>. QED
      BY <1>2, <3>2, <3>3, <3>4 DEF EarnedInv
  <2>2. ASSUME BeginInstalled PROVE EarnedInv'
    <3>1. preflight = NoPreflight /\ situation' = situation
      BY <1>2, <2>2 DEF BeginInstalled, EarnedInv
    <3>2. preflight' = [kind |-> "installed", names |-> <<"connectivity">>, given |-> Arguments["connectivity"],
                        checks |-> CheckPlaybook(situation), ran |-> <<>>, turns |-> 0]
      BY <2>2, <3>1 DEF BeginInstalled, NoPreflight
    <3>3. CheckPlaybook(situation)' = CheckPlaybook(situation)
      BY <3>1 DEF CheckPlaybook
    <3>4. (\E N : <<"connectivity">> \in Seq(N)) /\ (\E R : <<>> \in Seq(R))
      <4>1. <<"connectivity">> \in Seq({"connectivity"}) /\ <<>> \in Seq({})
        OBVIOUS
      <4>. QED
        BY <4>1
    <3>. QED
      BY <1>2, <3>1, <3>2, <3>3, <3>4 DEF EarnedInv
  <2>3. ASSUME BeginRetired PROVE EarnedInv'
    <3>1. preflight = NoPreflight /\ situation' = situation
      BY <1>2, <2>3 DEF BeginRetired, EarnedInv
    <3>2. preflight' = [kind |-> "retired", names |-> <<>>, given |-> {}, checks |-> {"block"}, ran |-> <<>>, turns |-> 0]
      BY <2>3, <3>1 DEF BeginRetired, NoPreflight
    <3>. QED
      BY <1>2, <3>1, <3>2 DEF EarnedInv
  <2>4. ASSUME RunNext PROVE EarnedInv'
    <3>. DEFINE name == Head(preflight.names)
                entry == [name |-> name, at |-> situation]
                found == RunNamed(name, situation, preflight.given)
    <3>1. preflight.names # <<>> /\ situation' = situation
      BY <2>4 DEF RunNext
    <3>2. preflight' = [kind |-> preflight.kind, names |-> Tail(preflight.names), given |-> preflight.given,
                        checks |-> preflight.checks \cup found, ran |-> Append(preflight.ran, entry),
                        turns |-> preflight.turns]
      BY <1>2, <2>4 DEF RunNext, EarnedInv
    <3>3. PICK R : preflight.ran \in Seq(R)
      BY <1>2 DEF EarnedInv
    <3>4. preflight.ran \in Seq(R \cup {entry}) /\ Append(preflight.ran, entry) \in Seq(R \cup {entry})
      BY <3>3
    <3>5. \A i \in DOMAIN Append(preflight.ran, entry) :
            IF i \in DOMAIN preflight.ran THEN Append(preflight.ran, entry)[i] = preflight.ran[i]
            ELSE Append(preflight.ran, entry)[i] = entry
      BY <3>4
    <3>6. \E N : Tail(preflight.names) \in Seq(N)
      BY <1>2, <3>1 DEF EarnedInv
    <3>7. preflight.kind \notin {"none", "retired"}
      BY <1>2, <3>1 DEF EarnedInv, NoPreflight
    <3>8. \A i \in DOMAIN preflight'.ran :
            /\ SituationOK(preflight'.ran[i].at)
            /\ RunNamed(preflight'.ran[i].name, preflight'.ran[i].at, preflight'.given) \subseteq preflight'.checks
      <4>. SUFFICES ASSUME NEW i \in DOMAIN Append(preflight.ran, entry)
                    PROVE  LET r == Append(preflight.ran, entry)[i] IN
                           /\ SituationOK(r.at)
                           /\ RunNamed(r.name, r.at, preflight.given) \subseteq preflight.checks \cup found
        BY <3>2
      <4>1. CASE i \in DOMAIN preflight.ran
        BY <1>2, <3>5, <4>1 DEF EarnedInv
      <4>2. CASE i \notin DOMAIN preflight.ran
        <5>1. Append(preflight.ran, entry)[i] = entry
          BY <3>5, <4>2
        <5>. QED
          BY <1>2, <5>1 DEF EarnedInv
      <4>. QED
        BY <4>1, <4>2
    <3>. HIDE DEF entry, found
    <3>. QED
      BY <1>2, <3>1, <3>2, <3>4, <3>6, <3>7, <3>8 DEF EarnedInv
  <2>5. ASSUME ServicesTurn PROVE EarnedInv'
    <3>1. PICK o \in Outages : situation' = Turned(situation, o)
      BY <2>5 DEF ServicesTurn
    <3>2. SituationOK(situation') /\ situation'.playbook = situation.playbook
      BY <1>2, <3>1, TurnedIsOK DEF EarnedInv
    <3>3. preflight' = [kind |-> preflight.kind, names |-> preflight.names, given |-> preflight.given,
                        checks |-> preflight.checks, ran |-> preflight.ran, turns |-> preflight.turns + 1]
      BY <1>2, <2>5 DEF ServicesTurn, EarnedInv
    <3>4. preflight.names # <<>>
      BY <2>5 DEF ServicesTurn
    <3>5. preflight.kind # "none"
      BY <1>2, <3>4 DEF EarnedInv, NoPreflight
    <3>6. CheckPlaybook(situation)' = CheckPlaybook(situation)
      BY <3>2 DEF CheckPlaybook
    <3>. QED
      BY <1>2, <3>2, <3>3, <3>5, <3>6 DEF EarnedInv
  <2>. QED
    BY <1>2, <2>0, <2>1, <2>2, <2>3, <2>4, <2>5 DEF PreflightNext
<1>. QED
  BY <1>1, <1>2, PTL DEF PreflightSpec

\* A report passes only on what was known, run on all its arguments and fine
\* when it was asked, whatever turned in between, and what three of the checks
\* find wrong is never made good by a later one (run_named, run_preflight).
THEOREM ReportsAreEarnedHolds == PreflightSpec => []ReportsAreEarned
<1>1. EarnedInv => ReportsAreEarned
  <2>. SUFFICES ASSUME EarnedInv, preflight.kind # "none"
                PROVE  /\ Worst(preflight.checks) = "pass" =>
                            /\ preflight.kind # "retired" /\ (preflight.kind = "installed" => situation.playbook)
                            /\ \A i \in DOMAIN preflight.ran :
                                 LET r == preflight.ran[i] IN
                                 r.name \in DOMAIN Arguments /\ Arguments[r.name] \subseteq preflight.given /\ Fine(r.name, r.at)
                       /\ (\E i \in DOMAIN preflight.ran :
                             LET r == preflight.ran[i] IN
                             r.name \in {"connectivity", "vmids", "assets"} /\ Arguments[r.name] \subseteq preflight.given
                             /\ ~Fine(r.name, r.at) /\ (r.name = "assets" => r.at.catalog)) => Worst(preflight.checks) = "block"
    BY DEF ReportsAreEarned
  <2>1. ASSUME Worst(preflight.checks) = "pass"
        PROVE  preflight.kind # "retired" /\ (preflight.kind = "installed" => situation.playbook)
    <3>1. "block" \notin preflight.checks
      BY <2>1, WorstOf
    <3>. QED
      BY <3>1 DEF EarnedInv, CheckPlaybook
  <2>2. ASSUME Worst(preflight.checks) = "pass", NEW i \in DOMAIN preflight.ran
        PROVE  LET r == preflight.ran[i] IN
               r.name \in DOMAIN Arguments /\ Arguments[r.name] \subseteq preflight.given /\ Fine(r.name, r.at)
    <3>. DEFINE r == preflight.ran[i]
    <3>1. "block" \notin preflight.checks /\ "warn" \notin preflight.checks
      BY <2>2, WorstOf
    <3>2. SituationOK(r.at) /\ RunNamed(r.name, r.at, preflight.given) \subseteq preflight.checks
      BY <2>2 DEF EarnedInv
    <3>. HIDE DEF r
    <3>3. r.name \in DOMAIN Arguments /\ Arguments[r.name] \subseteq preflight.given
      BY <3>1, <3>2 DEF RunNamed
    <3>4. RunNamed(r.name, r.at, preflight.given) = Verdicts(r.name, r.at, preflight.given)
      BY <3>3 DEF RunNamed
    <3>5. Fine(r.name, r.at)
      BY <3>1, <3>2, <3>3, <3>4, VerdictIsEarned
    <3>. QED
      BY <3>3, <3>5 DEF r
  <2>3. ASSUME NEW i \in DOMAIN preflight.ran,
               preflight.ran[i].name \in {"connectivity", "vmids", "assets"},
               Arguments[preflight.ran[i].name] \subseteq preflight.given,
               ~Fine(preflight.ran[i].name, preflight.ran[i].at),
               preflight.ran[i].name = "assets" => preflight.ran[i].at.catalog
        PROVE  Worst(preflight.checks) = "block"
    <3>. DEFINE r == preflight.ran[i]
    <3>1. SituationOK(r.at) /\ RunNamed(r.name, r.at, preflight.given) \subseteq preflight.checks
      BY <2>3 DEF EarnedInv
    <3>2. r.name \in DOMAIN Arguments
      BY <2>3 DEF Arguments
    <3>3. "block" \in Verdicts(r.name, r.at, preflight.given)
      BY <2>3, <3>1, WrongBlocks
    <3>. QED
      BY <2>3, <3>1, <3>2, <3>3, WorstOf DEF RunNamed
  <2>. QED
    BY <2>1, <2>2, <2>3
<1>. QED
  BY <1>1, EarnedInvariance, PTL

\* Both kinds of preflight, side by side: neither reads what the other writes.
THEOREM ReviewsAreSoundHolds == ReviewSpec /\ PreflightSpec => []ReviewsAreSound
BY ReviewIsSafeHolds, ReportsAreEarnedHolds, PTL DEF ReviewsAreSound
=============================================================================
