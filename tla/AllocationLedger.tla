-------------------------- MODULE AllocationLedger --------------------------
(***************************************************************************)
(* The ledger of VM identifiers: expiring leases that authors reserve for  *)
(* a draft, and claims that a deployment keeps until its guests are proved *)
(* absent.  Proxmox is read outside the transactions, so a request plans,  *)
(* probes its candidates and plans again until a plan needs no new probe.  *)
(*                                                                         *)
(* An identifier stands for a VMID together with the bridge/address pairs  *)
(* of its interfaces: both are refused on the same overlap test.  Which    *)
(* free identifiers a plan picks is left open here and computed in         *)
(* AllocationPlan.  Each project has one owner token and one target.       *)
(***************************************************************************)
EXTENDS Naturals, FiniteSets

CONSTANTS
  Projects,     \* project keys of authors
  Deployments,
  Vmids,
  Nobody,       \* no lease holder, no guest, no deployment
  Outsider,     \* somebody who creates guests without this installation
  Populations,  \* bound: the projects and deployments that are active together
  MaxOutsider,  \* bound: guests of outsiders at a time
  MaxAttempts   \* bound: attempts of a deployment

ASSUME NobodyAssumption == Nobody \notin Deployments \cup Projects \cup {Outsider}
ASSUME OutsiderAssumption == Outsider \notin Deployments

VARIABLES
  present,    \* the population of this behaviour
  lease,      \* AllocationReservation.assignments of a project; {} without a row
  expired,    \* projects whose row has expires_at in the past
  claim,      \* DeploymentAllocation.assignments; {} without a row
  manifest,   \* VMs of the pinned scenario; {} before the deployment exists
  request,    \* the reserve() coroutine of a project
  attempt,    \* a deployment's attempt and how far it is
  attempts,   \* how many attempts a deployment had: Deployment.current_attempt_id
  flock,      \* provisioning lock: a deployment, "release" or Nobody
  release,    \* the release request being served
  guest       \* Proxmox: who created the guest with this VMID

ledgerRows == <<present, lease, expired, claim, manifest>>
runs == <<attempt, attempts, flock>>
ledgerVars == <<ledgerRows, request, runs, release, guest>>

NoRequest == [step |-> "idle", occupied |-> {}, checked |-> {}, pending |-> {}]
NoRelease == [dep |-> Nobody, seen |-> 0, left |-> {}]
Releasing == "release"

LedgerTypeOK ==
  /\ present \in Populations
  /\ lease \in [Projects -> SUBSET Vmids]
  /\ expired \subseteq Projects
  /\ claim \in [Deployments -> SUBSET Vmids]
  /\ manifest \in [Deployments -> SUBSET Vmids]
  /\ request \in [Projects -> [step : {"idle", "plan", "probe"}, occupied : SUBSET Vmids,
                               checked : SUBSET Vmids, pending : SUBSET Vmids]]
  /\ attempt \in [Deployments -> {"idle", "reserved", "started", "running"}]
  /\ attempts \in [Deployments -> Nat]
  /\ release \in [dep : Deployments \cup {Nobody}, seen : Nat, left : SUBSET Vmids]
  /\ guest \in [Vmids -> Deployments \cup {Nobody, Outsider}]

LedgerInit ==
  /\ present \in Populations
  /\ lease = [p \in Projects |-> {}]
  /\ expired = {}
  /\ claim = [d \in Deployments |-> {}]
  /\ manifest = [d \in Deployments |-> {}]
  /\ request = [p \in Projects |-> NoRequest]
  /\ attempt = [d \in Deployments |-> "idle"]
  /\ attempts = [d \in Deployments |-> 0]
  /\ flock = Nobody
  /\ release = NoRelease
  /\ guest = [v \in Vmids |-> Nobody]

Existing == {v \in Vmids : guest[v] # Nobody}
Claims == UNION {claim[d] : d \in Deployments}
Leases(except) == UNION {lease[p] : p \in Projects \ (expired \cup {except})}

-----------------------------------------------------------------------------
(* Leases.                                                                 *)

\* read_occupancy: a permission-filtered inventory of the cluster.
Audit(p) ==
  /\ p \in present /\ request[p].step = "idle"
  /\ \E visible \in SUBSET Existing :
       request' = [request EXCEPT ![p] =
         [step |-> "plan", occupied |-> visible, checked |-> {}, pending |-> {}]]
  /\ UNCHANGED <<ledgerRows, runs, release, guest>>

\* What _plan may assign to p: one more VM, or the ones of a live lease again.
PlansOf(p) ==
  LET unavailable == request[p].occupied \cup Claims \cup Leases(p)
      kept == IF p \in expired THEN {} ELSE lease[p] IN
  IF kept # {} THEN {kept} \ {s \in {kept} : s \cap unavailable # {}}
  ELSE {{v} : v \in Vmids \ unavailable}

\* The transaction of a round: expired rows are deleted; a plan whose
\* candidates were all probed is stored, another one is rolled back.
Store(p) ==
  /\ request[p].step = "plan"
  /\ \E vms \in PlansOf(p) :
       /\ vms \subseteq request[p].checked
       /\ lease' = [q \in Projects |-> IF q = p THEN vms ELSE IF q \in expired THEN {} ELSE lease[q]]
       /\ expired' = {}
       /\ request' = [request EXCEPT ![p] = NoRequest]
  /\ UNCHANGED <<present, claim, manifest, runs, release, guest>>

Replan(p) ==
  /\ request[p].step = "plan"
  /\ \E vms \in PlansOf(p) :
       /\ vms \ request[p].checked # {}
       /\ request' = [request EXCEPT ![p] =
            [step |-> "probe", occupied |-> @.occupied, checked |-> @.checked,
             pending |-> vms \ @.checked]]
  /\ UNCHANGED <<ledgerRows, runs, release, guest>>

\* vmid_is_free asserts every pending candidate against the whole cluster.
Probe(p) ==
  /\ request[p].step = "probe"
  /\ request' = [request EXCEPT ![p] =
       [step |-> "plan", occupied |-> @.occupied \cup (@.pending \cap Existing),
        checked |-> @.checked \cup (@.pending \ Existing), pending |-> {}]]
  /\ UNCHANGED <<ledgerRows, runs, release, guest>>

\* Timeout, exhausted pool, too many probes, or a lost client.
RequestFails(p) ==
  /\ request[p].step # "idle"
  /\ request' = [request EXCEPT ![p] = NoRequest]
  /\ UNCHANGED <<ledgerRows, runs, release, guest>>

LeaseExpires(p) ==
  /\ lease[p] # {}
  /\ expired' = expired \cup {p}
  /\ UNCHANGED <<present, lease, claim, manifest, request, runs, release, guest>>

ReleaseLease(p) ==
  /\ lease[p] # {}
  /\ lease' = [lease EXCEPT ![p] = {}]
  /\ expired' = expired \ {p}
  /\ UNCHANGED <<present, claim, manifest, request, runs, release, guest>>

-----------------------------------------------------------------------------
(* Claims.                                                                 *)

\* Fault: bind looks at the claims only.
AvailableAmongClaims(vms, p) == vms \cap Claims = {}

\* bind: nothing of a deployment's mapping belongs to another claim or to a
\* live lease other than the one that is transferred.
Available(vms, p) == vms \cap (Claims \cup Leases(p)) = {}

CreateFromLease(d, p) ==
  /\ d \in present /\ manifest[d] = {}
  /\ lease[p] # {} /\ p \notin expired
  /\ Available(lease[p], p)
  /\ manifest' = [manifest EXCEPT ![d] = lease[p]]
  /\ claim' = [claim EXCEPT ![d] = lease[p]]
  /\ lease' = [lease EXCEPT ![p] = {}]
  /\ UNCHANGED <<present, expired, request, runs, release, guest>>

\* A deployment of a scenario with manual identifiers claims nothing yet.
CreateManual(d) ==
  /\ d \in present /\ manifest[d] = {}
  /\ \E v \in Vmids : manifest' = [manifest EXCEPT ![d] = {v}]
  /\ UNCHANGED <<present, lease, expired, claim, request, runs, release, guest>>

-----------------------------------------------------------------------------
(* Full attempts.                                                          *)

At(d, step) == attempt' = [attempt EXCEPT ![d] = step]

ReserveAttempt(d) ==
  /\ manifest[d] # {} /\ attempt[d] = "idle" /\ attempts[d] < MaxAttempts
  /\ At(d, "reserved")
  /\ attempts' = [attempts EXCEPT ![d] = @ + 1]
  /\ UNCHANGED <<ledgerRows, request, flock, release, guest>>

StartAttempt(d) ==
  /\ attempt[d] = "reserved" /\ flock = Nobody
  /\ flock' = d
  /\ At(d, "started")
  /\ UNCHANGED <<ledgerRows, request, attempts, release, guest>>

\* ensure_for_attempt: the claim of this deployment, or a new one; then the
\* runner is launched.
EnsureClaim(d) ==
  /\ attempt[d] = "started"
  /\ claim[d] = {} => Available(manifest[d], Nobody)
  /\ claim' = [claim EXCEPT ![d] = manifest[d]]
  /\ At(d, "running")
  /\ UNCHANGED <<present, lease, expired, manifest, request, attempts, flock, release, guest>>

\* The playbook creates the VMs of its manifest that do not exist.
CreateGuest(d, v) ==
  /\ attempt[d] = "running"
  /\ v \in manifest[d] /\ guest[v] = Nobody
  /\ guest' = [guest EXCEPT ![v] = d]
  /\ UNCHANGED <<ledgerRows, request, runs, release>>

\* Refused, failed, crashed or finished: the attempt ends with its process.
AttemptEnds(d) ==
  /\ attempt[d] # "idle"
  /\ At(d, "idle")
  /\ flock' = IF flock = d THEN Nobody ELSE flock
  /\ UNCHANGED <<ledgerRows, request, attempts, release, guest>>

-----------------------------------------------------------------------------
(* Releasing a claim.                                                      *)

\* An attempt whose outcome is unknown blocks a release too; outcomes are left
\* out here.
StartRelease(d) ==
  /\ flock = Nobody /\ claim[d] # {}
  /\ attempt[d] = "idle"
  /\ flock' = Releasing
  /\ release' = [dep |-> d, seen |-> attempts[d], left |-> claim[d]]
  /\ UNCHANGED <<ledgerRows, request, attempt, attempts, guest>>

\* Fault: a VM that a filtered inventory does not show is absent.
ProbeVisible(v) ==
  /\ v \in release.left
  /\ release' = [dep |-> release.dep, seen |-> release.seen, left |-> release.left \ {v}]
  /\ UNCHANGED <<ledgerRows, request, runs, guest>>

\* The VMs are probed one by one, without a transaction.
ProbeAbsence(v) ==
  /\ v \in release.left /\ guest[v] = Nobody
  /\ release' = [dep |-> release.dep, seen |-> release.seen, left |-> release.left \ {v}]
  /\ UNCHANGED <<ledgerRows, request, runs, guest>>

\* The deployment is read again under the writer lock.
CommitRelease ==
  LET d == release.dep IN
  /\ d # Nobody /\ release.left = {}
  /\ attempt[d] = "idle" /\ attempts[d] = release.seen
  /\ claim' = [claim EXCEPT ![d] = {}]
  /\ release' = NoRelease
  /\ flock' = Nobody
  /\ UNCHANGED <<present, lease, expired, manifest, request, attempt, attempts, guest>>

\* A guest exists, a timeout, a change meanwhile: the claim is retained.
ReleaseFails ==
  /\ release # NoRelease
  /\ release' = NoRelease
  /\ flock' = Nobody
  /\ UNCHANGED <<ledgerRows, request, attempt, attempts, guest>>

-----------------------------------------------------------------------------
(* Guests that come and go without an attempt.                             *)

OutsiderCreates(v) ==
  /\ guest[v] = Nobody
  /\ Cardinality({w \in Vmids : guest[w] = Outsider}) < MaxOutsider
  /\ guest' = [guest EXCEPT ![v] = Outsider]
  /\ UNCHANGED <<ledgerRows, request, runs, release>>

GuestRemoved(v) ==
  /\ guest[v] # Nobody
  /\ guest' = [guest EXCEPT ![v] = Nobody]
  /\ UNCHANGED <<ledgerRows, request, runs, release>>

Round(p) == Store(p) \/ Replan(p) \/ Probe(p)

LedgerNext ==
  \/ \E p \in Projects :
       \/ Audit(p) \/ Round(p) \/ RequestFails(p) \/ LeaseExpires(p) \/ ReleaseLease(p)
       \/ \E d \in Deployments : CreateFromLease(d, p)
  \/ \E d \in Deployments :
       \/ CreateManual(d) \/ ReserveAttempt(d) \/ StartAttempt(d) \/ EnsureClaim(d)
       \/ AttemptEnds(d) \/ StartRelease(d)
       \/ \E v \in Vmids : CreateGuest(d, v)
  \/ \E v \in Vmids : ProbeAbsence(v) \/ OutsiderCreates(v) \/ GuestRemoved(v)
  \/ CommitRelease \/ ReleaseFails

LedgerSpec == LedgerInit /\ [][LedgerNext]_ledgerVars

-----------------------------------------------------------------------------
(* Properties.                                                             *)

\* Live leases and claims never overlap, although plans are made from reads
\* that are old when they are committed and leases expire at any moment.
LedgerDisjoint ==
  /\ \A p, q \in Projects \ expired : p # q => lease[p] \cap lease[q] = {}
  /\ \A d, e \in Deployments : d # e => claim[d] \cap claim[e] = {}
  /\ \A p \in Projects \ expired, d \in Deployments : lease[p] \cap claim[d] = {}

\* A guest that a deployment created stays claimed by it: no release lets its
\* identifier go while the guest exists, whatever attempt raced with it.
GuestsStayClaimed ==
  \A v \in Vmids : guest[v] \in Deployments => v \in claim[guest[v]]

\* Together, what allocation_reservations and deployment_allocations promise
\* of the identifiers they hand out: nobody else has them, and nobody loses
\* one while its guest is there.
LedgerHolds == LedgerTypeOK /\ LedgerDisjoint /\ GuestsStayClaimed
=============================================================================
