--------------------------- MODULE ScenarioReview ---------------------------
(***************************************************************************)
(* The checks of a pinned scenario against its target, before a preflight  *)
(* report and again before an attempt starts: networks, VM identities and  *)
(* ownership, memory, CPU and storage.  They only read.                    *)
(*                                                                         *)
(* A check is a verdict "block", "warn" or "pass"; a report is the worst   *)
(* of its checks.  A subnet is the set of its addresses.  What a token may *)
(* not see (VM.Audit) is missing from the inventory, but /cluster/nextid   *)
(* knows every identifier.                                                 *)
(***************************************************************************)
EXTENDS Naturals, FiniteSets, FiniteSetsExt

CONSTANTS
  Targets,      \* bound: the targets that are reviewed
  Plans,        \* bound: the scenarios that are reviewed
  ReviewScopes, \* "full", "configure", "teardown"
  Features      \* inputs that the installed bootstrap bundle advertises

VARIABLE review \* the last review: its inputs and its report

Unknown == 0    \* a value that Proxmox did not report

Worst(checks) ==
  IF "block" \in checks THEN "block" ELSE IF "warn" \in checks THEN "warn" ELSE "pass"

-----------------------------------------------------------------------------
(* Networks.                                                               *)

Overlaps(a, b) == a \cap b # {}

\* scenario_networks.json with unique names and disjoint subnets.
PlanIsValid(vnets) == \A v, w \in vnets : v # w => v.vnet # w.vnet /\ ~Overlaps(v.subnet, w.subnet)

Configured(t, name) == \E v \in t.vnets : v.vnet = name

\* One declared network: an object of somebody else, or one that is missing.
VNetConflict(t, d) ==
  \/ \E i \in t.interfaces : i.iface # d.vnet /\ Overlaps(i.subnet, d.subnet)
  \/ \E v \in t.vnets : v.vnet = d.vnet /\ v.zone # "ours"
  \/ ~Configured(t, d.vnet) /\ \E i \in t.interfaces : i.iface = d.vnet
  \/ \E s \in t.subnets : Overlaps(s.subnet, d.subnet)
       /\ (s.vnet # d.vnet \/ s.subnet # d.subnet \/ s.snat # d.snat)
Found(t, d) == \E s \in t.subnets : s.vnet = d.vnet /\ s.subnet = d.subnet
VNetNotReady(t, d, scope) ==
  \/ scope # "full" /\ (~Configured(t, d.vnet) \/ ~Found(t, d))
  \/ Configured(t, d.vnet) /\ (~t.available \/ \E v \in t.vnets : v.vnet = d.vnet /\ ~v.available)

NetworkCheck(t, plan, scope) ==
  IF scope = "teardown" \/ plan.vnets = {} THEN "pass"
  ELSE IF \/ ~PlanIsValid(plan.vnets)
          \/ t.pending
          \/ scope = "full" /\ (~t.mayAllocate \/ ~t.mayAuditFabrics)
          \/ t.zone = "foreign"
          \/ t.zone = "absent" /\ scope # "full"
          \/ \E d \in plan.vnets : VNetConflict(t, d) \/ VNetNotReady(t, d, scope)
  THEN "block" ELSE "pass"

-----------------------------------------------------------------------------
(* Identifiers and ownership.                                              *)

\* Fault: an identifier that the inventory does not show is free.
ExistsInInventory(t, id) == t.guest[id] # "none" /\ id \in t.audited

Exists(t, id) == t.guest[id] # "none"
Visible(t, id) == Exists(t, id) /\ id \in t.audited

\* Inputs that the bootstrap bundle must support.
MissingFeatures(plan) ==
  (UNION {(IF vm.nics > 1 THEN {"extra_nics"} ELSE {})
     \cup (IF vm.memory # Unknown THEN {"resources"} ELSE {})
     \cup (IF vm.disk # Unknown THEN {"disk_resize"} ELSE {}) : vm \in plan.vms}) \ Features

\* The full scope creates: nobody has the identifier, the template is there.
FullBlocks(t, vm) ==
  \/ Exists(t, vm.id)
  \/ ~(Visible(t, vm.template) /\ t.guest[vm.template] = "template")
  \/ vm.memory = Unknown /\ t.templateMemory = Unknown

\* The others touch what carries the deployment's marker, on its node, under
\* its name; a teardown may find the guest gone, but not hidden.
OwnedBlocks(t, vm, scope) ==
  IF Visible(t, vm.id) THEN t.guest[vm.id] # "own"
  ELSE scope # "teardown" \/ Exists(t, vm.id)

Need(t, vm) == IF vm.memory = Unknown THEN t.templateMemory ELSE vm.memory
RequiredMemory(t, plan) == MapThenSumSet(LAMBDA vm : Need(t, vm), plan.vms)

-----------------------------------------------------------------------------
(* Capacity, for the full scope.                                           *)

Pressure(used, total) == used * 10 >= total * 9

MemoryChecks(t, required) ==
  IF t.freeMemory = Unknown \/ required > t.freeMemory THEN {"block"}
  ELSE IF t.totalMemory = Unknown \/ Pressure(t.totalMemory - t.freeMemory + required, t.totalMemory)
  THEN {"warn"} ELSE {"pass"}

\* The disk of a clone: the template's, or the requested growth of it.
DiskChecks(t, vm) ==
  IF vm.disk # Unknown /\ (t.templateDisk = Unknown \/ vm.disk < t.templateDisk) THEN {"block"} ELSE {}
Clone(t, vm) == IF vm.disk > t.templateDisk THEN vm.disk ELSE t.templateDisk
PoolOf(t, vm) == IF vm.storage = "inherited" THEN t.templatePool ELSE vm.storage
SelectedPools(plan) == {vm.storage : vm \in plan.vms} \ {"inherited"}
Estimate(t, plan, pool) ==
  MapThenSumSet(LAMBDA vm : Clone(t, vm), {vm \in plan.vms : PoolOf(t, vm) = pool})

PoolChecks(t, plan, pool) ==
  LET selected == pool \in SelectedPools(plan)
      required == Estimate(t, plan, pool)
      grave == IF selected THEN {"block"} ELSE {"warn"} IN
  IF ~t.pool[pool].usable \/ t.pool[pool].free = Unknown THEN grave
  ELSE IF selected /\ ~t.pool[pool].mayAllocate THEN {"block"}
  ELSE IF selected /\ t.templateDisk = Unknown THEN {}
  ELSE IF required > t.pool[pool].free THEN grave
  ELSE IF t.pool[pool].total = Unknown \/ Pressure(t.pool[pool].total - t.pool[pool].free + required, t.pool[pool].total)
  THEN {"warn"} ELSE {"pass"}

\* An estimate that could not be completed blocks if somebody selected a pool.
StorageChecks(t, plan) ==
  (IF t.templateDisk # Unknown THEN {}
   ELSE IF SelectedPools(plan) # {} THEN {"block"} ELSE {"warn"})
  \cup UNION {PoolChecks(t, plan, pool) : pool \in SelectedPools(plan) \cup
         (IF t.templateDisk = Unknown THEN {} ELSE {PoolOf(t, vm) : vm \in plan.vms})}

CpuChecks(t, plan) ==
  IF t.cpus = Unknown \/ Cardinality(plan.vms) > t.cpus THEN {"warn"} ELSE {"pass"}

\* read_host_capacity drops a measurement that is larger than its total.
Measured(t) == IF t.totalMemory # Unknown /\ t.freeMemory > t.totalMemory
               THEN [t EXCEPT !.freeMemory = Unknown] ELSE t

CapacityChecks(t, plan) ==
  LET memory == MemoryChecks(Measured(t), RequiredMemory(t, plan)) IN
  IF "block" \in memory THEN memory
  ELSE memory \cup StorageChecks(t, plan) \cup CpuChecks(t, plan) \cup UNION {DiskChecks(t, vm) : vm \in plan.vms}

ResourceChecks(t, plan, scope) ==
  IF scope = "full"
  THEN IF MissingFeatures(plan) # {} \/ \E vm \in plan.vms : FullBlocks(t, vm) THEN {"block"}
       ELSE CapacityChecks(t, plan)
  ELSE IF \E vm \in plan.vms : OwnedBlocks(t, vm, scope) THEN {"block"} ELSE {"pass"}

VmidCheck(t, plan) ==
  IF \E vm \in plan.vms : vm.id \in t.protected THEN "block" ELSE "pass"

\* A native scenario runs its complete saved workflow: nothing of its plan is
\* compared with the target.
Report(t, plan, scope) ==
  Worst((IF t.reachable THEN {} ELSE {"block"}) \cup {VmidCheck(t, plan)} \cup
        (IF plan.native THEN {"warn"}
         ELSE {NetworkCheck(t, plan, scope)} \cup ResourceChecks(t, plan, scope)))

-----------------------------------------------------------------------------
(* Sizes are no negative numbers; a plan has finitely many guests; a       *)
(* declared subnet has addresses; a selected pool is one of the target's   *)
(* storages or was found to be none of them.                               *)
ASSUME ReviewAssumption ==
  /\ \A t \in Targets :
       /\ t.freeMemory \in Nat /\ t.templateMemory \in Nat /\ t.templateDisk \in Nat
       /\ \A s \in t.subnets : s = [vnet |-> s.vnet, subnet |-> s.subnet, snat |-> s.snat]
  /\ \A plan \in Plans :
       /\ \A d \in plan.vnets : d.subnet # {}
       /\ IsFiniteSet(plan.vms)
       /\ \A vm \in plan.vms : vm.memory \in Nat /\ vm.disk \in Nat
  /\ \A t \in Targets, plan \in Plans : \A pool \in SelectedPools(plan) : t.pool[pool].free \in Nat

-----------------------------------------------------------------------------
NotReviewed == [scope |-> "none"]

ReviewInit == review = NotReviewed

RunPreflight ==
  /\ review = NotReviewed
  /\ \E t \in Targets, plan \in Plans, scope \in ReviewScopes :
       review' = [scope |-> scope, target |-> t, plan |-> plan, result |-> Report(t, plan, scope)]

LatestPreflight == review # NotReviewed /\ review' = NotReviewed

ReviewNext == RunPreflight \/ LatestPreflight

ReviewSpec == ReviewInit /\ [][ReviewNext]_review

-----------------------------------------------------------------------------
(* Properties.                                                             *)

\* What a full attempt adds to the networks of the target.
SubnetsAfter(t, plan) == t.subnets \cup {[vnet |-> d.vnet, subnet |-> d.subnet, snat |-> d.snat] : d \in plan.vnets}

NetworksAreSafe(t, plan, scope) ==
  LET after == SubnetsAfter(t, plan) IN
  /\ ~t.pending
  /\ \A d \in plan.vnets :
       /\ \A s \in after : Overlaps(s.subnet, d.subnet) => s.vnet = d.vnet /\ s.subnet = d.subnet /\ s.snat = d.snat
       /\ \A i \in t.interfaces : i.iface # d.vnet => ~Overlaps(i.subnet, d.subnet)
       /\ \A v \in t.vnets : v.vnet = d.vnet => v.zone = "ours" /\ v.available
  /\ scope = "configure" => after = t.subnets

GuestsAreSafe(t, plan, scope) == \A vm \in plan.vms :
  /\ vm.id \notin t.protected
  /\ scope = "full" => t.guest[vm.id] = "none"
  /\ scope = "configure" => t.guest[vm.id] = "own"
  /\ scope = "teardown" => t.guest[vm.id] \in {"own", "none"}

CapacityIsSafe(t, plan) ==
  /\ RequiredMemory(t, plan) <= t.freeMemory
  /\ \A pool \in SelectedPools(plan) : Estimate(t, plan, pool) <= t.pool[pool].free
  /\ \A vm \in plan.vms : Clone(t, vm) >= t.templateDisk

\* A report that does not block: the full scope touches no existing guest,
\* not even one that is hidden from the token, the other scopes touch nobody
\* else's; the networks will not overlap anything; what a deployment needs of
\* memory and of the pools it selected is free.
ReviewIsSafe == review # NotReviewed /\ review.result # "block" /\ ~review.plan.native =>
  /\ GuestsAreSafe(review.target, review.plan, review.scope)
  /\ review.scope # "teardown" /\ review.plan.vnets # {} => NetworksAreSafe(review.target, review.plan, review.scope)
  /\ review.scope = "full" => CapacityIsSafe(review.target, review.plan)
=============================================================================
