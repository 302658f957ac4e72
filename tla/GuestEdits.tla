----------------------------- MODULE GuestEdits -----------------------------
(***************************************************************************)
(* Reviewed edits of one imported guest: its five configuration fields, a  *)
(* NIC or the size of a disk.  A client reviews, and later sends the edit  *)
(* with the digest of what it saw; the route checks again under the        *)
(* provisioning lock and a write transaction, and Proxmox compares its own *)
(* digest when the write arrives.  Meanwhile the guest is edited outside   *)
(* of the API, the host is registered again, a deployment claims the guest *)
(* and a snapshot set takes hold of it.                                    *)
(*                                                                         *)
(* The configuration is a version, with what an edit may touch of it.      *)
(***************************************************************************)
EXTENDS Naturals

CONSTANTS
  Editors,     \* clients
  MaxVersion,  \* bound: changes of the configuration
  MaxTarget,   \* bound: registrations of the host
  MaxSize      \* bound: size of the disk

VARIABLES
  imported, \* the guest in Proxmox
  target,   \* registration of the host: what _config_target_digest covers
  owned,    \* the guest is in the allocation of a deployment
  members,  \* a snapshot operation that is running or unconfirmed has the guest
  worker,   \* tasks of Proxmox for accepted edits
  editor    \* clients

editVars == <<imported, target, owned, members, worker, editor>>
database == <<target, owned, members>>

\* name stands for the fields and the NIC; version is the digest of Proxmox;
\* locked also for a template and the mark of a deployment (_writable).
Guests == [version : 0..MaxVersion, name : {"old", "new"}, size : 1..MaxSize,
           locked : BOOLEAN, pending : BOOLEAN]
Kind == {"field", "resources", "nic", "disk"}
Async == {"resources", "nic", "disk"}

NoReview == [version |-> 0, target |-> 0]
Idle == [step |-> "idle", kind |-> "field", review |-> NoReview, read |-> 0, want |-> 0]

EditInit ==
  /\ imported = [version |-> 0, name |-> "old", size |-> 1, locked |-> FALSE, pending |-> FALSE]
  /\ target = 1 /\ owned = FALSE /\ members = FALSE /\ worker = {}
  /\ editor = [e \in Editors |-> Idle]

Drops(e) == editor' = [editor EXCEPT ![e] = Idle]

\* The route is in its critical section.
Inside(e) == editor[e].step \in {"checked", "read", "sent"}
LockFree == \A e \in Editors : ~Inside(e)

-----------------------------------------------------------------------------
(* The client reviews.  Both reads, of the configured and of the current   *)
(* values, carry one digest (_read_configs), so a review has one version.  *)

Writable == ~imported.locked

Review(e) ==
  /\ editor[e].step = "idle" /\ Writable /\ ~owned
  /\ \E k \in Kind :
       /\ k = "disk" => imported.size < MaxSize
       /\ editor' = [editor EXCEPT ![e] = [Idle EXCEPT !.step = "reviewed", !.kind = k,
                    !.review = [version |-> imported.version, target |-> target],
                    !.want = IF k = "disk" THEN imported.size + 1 ELSE 0]]
  /\ UNCHANGED <<imported, database, worker>>

-----------------------------------------------------------------------------
(* The edit (update_vm_config, vm_hardware._update).                       *)

\* ProvisioningLock and BEGIN IMMEDIATE; then the checks of the database.
Open(e) ==
  /\ editor[e].step = "reviewed" /\ LockFree
  /\ IF owned \/ members THEN Drops(e)
     ELSE editor' = [editor EXCEPT ![e].step = "checked"]
  /\ UNCHANGED <<imported, database, worker>>

IsStale(q) == q.review # [version |-> imported.version, target |-> target]

\* A device with pending changes is left alone, and a disk only grows.
Refused(q) ==
  \/ ~Writable \/ IsStale(q)
  \/ q.kind \in {"nic", "disk"} /\ imported.pending
  \/ q.kind = "disk" /\ q.want <= imported.size

ReadAgain(e) ==
  /\ editor[e].step = "checked"
  /\ IF Refused(editor[e]) THEN Drops(e)
     ELSE editor' = [editor EXCEPT ![e].step = "read", ![e].read = imported.version]
  /\ UNCHANGED <<imported, database, worker>>

\* A NIC that has the values already is not written.
NothingToPatch(e) ==
  /\ editor[e].step = "read" /\ editor[e].kind = "nic" /\ imported.name = "new"
  /\ imported.version = editor[e].read
  /\ Drops(e)
  /\ UNCHANGED <<imported, database, worker>>

Edited(g, q) ==
  [g EXCEPT !.version = @ + 1, !.name = IF q.kind = "disk" THEN @ ELSE "new",
            !.size = IF q.kind = "disk" THEN q.want ELSE @, !.pending = q.kind = "nic"]

\* Fault: the form carries no digest, and Proxmox compares none.
NoDigestSent(q) == imported.version

\* The form carries the digest of the last read.
DigestSent(q) == q.read

\* Proxmox refuses a locked guest, a guest that a task is working on and a
\* digest that does not fit; it applies the write, or accepts a task for it.
Arrives(e) ==
  LET q == editor[e] IN
  /\ q.step = "read"
  /\ IF imported.locked \/ worker # {} \/ DigestSent(q) # imported.version THEN UNCHANGED <<imported, worker>>
     ELSE IF q.kind \in Async
          THEN worker' = worker \cup {[by |-> e, kind |-> q.kind, want |-> q.want]} /\ UNCHANGED imported
          ELSE imported.version < MaxVersion /\ imported' = Edited(imported, q) /\ UNCHANGED worker
  /\ editor' = [editor EXCEPT ![e].step = "sent"]
  /\ UNCHANGED database

WorkerEnds(w) ==
  /\ w \in worker /\ imported.version < MaxVersion
  /\ imported' = Edited(imported, w)
  /\ worker' = worker \ {w}
  /\ UNCHANGED <<database, editor>>

\* Whatever was answered, accepted, configured, unconfirmed or an error, the
\* transaction is rolled back and the edit is not sent again.
Close(e) ==
  /\ editor[e].step = "sent"
  /\ Drops(e)
  /\ UNCHANGED <<imported, database, worker>>

\* The request is lost before it arrives, or its client is gone.
Lost(e) ==
  /\ editor[e].step \in {"reviewed", "checked", "read"}
  /\ Drops(e)
  /\ UNCHANGED <<imported, database, worker>>

-----------------------------------------------------------------------------
(* Everybody else.  Writers of the database wait for the transaction.      *)

EditedOutside ==
  /\ imported.version < MaxVersion /\ worker = {}
  /\ \E n \in {"old", "new"}, p, l \in BOOLEAN, s \in imported.size..MaxSize :
       imported' = [version |-> imported.version + 1, name |-> n, size |-> s, locked |-> l, pending |-> p]
  /\ UNCHANGED <<database, worker, editor>>

HostIsReregistered ==
  /\ LockFree /\ target < MaxTarget
  /\ target' = target + 1
  /\ UNCHANGED <<imported, owned, members, worker, editor>>

DeploymentClaims ==
  /\ LockFree /\ owned' = ~owned
  /\ UNCHANGED <<imported, target, members, worker, editor>>

SnapshotSetRuns ==
  /\ LockFree /\ members' = ~members
  /\ UNCHANGED <<imported, target, owned, worker, editor>>

EditNext ==
  \/ \E e \in Editors : Review(e) \/ Open(e) \/ ReadAgain(e) \/ NothingToPatch(e)
                        \/ Arrives(e) \/ Close(e) \/ Lost(e)
  \/ \E w \in worker : WorkerEnds(w)
  \/ EditedOutside \/ HostIsReregistered \/ DeploymentClaims \/ SnapshotSetRuns

EditSpec == EditInit /\ [][EditNext]_editVars

-----------------------------------------------------------------------------
(* Properties.                                                             *)

\* What reaches the guest was reviewed: by its client, on this version of the
\* configuration and this registration of the host, while no deployment and
\* no snapshot operation had the guest.
AppliedAsReviewed == \A e \in Editors :
  editor[e].step = "read" /\ editor'[e].step = "sent" /\ <<imported, worker>>' # <<imported, worker>> =>
    /\ editor[e].review = [version |-> imported.version, target |-> target]
    /\ ~owned /\ ~members

\* No edit of the API, however late its task runs, shrinks a disk or touches
\* a device with pending changes.
DevicesAreKept == \A w \in worker :
  (w.kind = "disk" => w.want > imported.size) /\ (w.kind \in {"nic", "disk"} => ~imported.pending)

\* What an operator confirmed in the review of vm_config and vm_hardware is what
\* the task changes, and nothing of the guest's devices is lost to it.
EditsAreReviewed == [][AppliedAsReviewed /\ DevicesAreKept]_editVars
=============================================================================
