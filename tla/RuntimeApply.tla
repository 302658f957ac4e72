---------------------------- MODULE RuntimeApply ----------------------------
(***************************************************************************)
(* A runtime operation on a deployed scenario: planned and reviewed, bound *)
(* to an attempt, planned again twice while it is prepared, guarded once   *)
(* more by the first plays of the runner, executed step by step, and read  *)
(* back.  Other administrators change the cluster between any two steps.   *)
(*                                                                         *)
(* The world holds what the operations of one deployment are about: one    *)
(* firewall chain, the declared VNet with the NAT rules of its subnet and  *)
(* of a neighbour, the guests and the switches of the host firewall.       *)
(* Positions start at 1 here and at 0 in the code.                         *)
(***************************************************************************)
EXTENDS Naturals, FiniteSets, Sequences, SequencesExt

CONSTANTS
  Worlds,          \* bound: initial states of the cluster
  RuntimeRequests, \* bound: operations that are requested
  MaxChanges       \* bound: changes by others during one operation

VARIABLES
  world,      \* the cluster
  operation,  \* Attempt.operation and the run that executes it
  changes,    \* changes by others so far
  calm        \* nobody changed anything since the last check of the operation

runtimeVars == <<world, operation, changes, calm>>

Blocked == [kind |-> "blocked"]
NoOperation == [step |-> "none", request |-> Blocked, review |-> Blocked, plan |-> Blocked,
                target |-> 0, release |-> 0, todo |-> <<>>, recorded |-> 0, result |-> "open"]
Reviewed == {"rule", "network", "switches"}

-----------------------------------------------------------------------------
(* What a cluster and a request look like.                                 *)

GuestIds == UNION {DOMAIN w.vm : w \in Worlds}
FirewallRules == [own : BOOLEAN, mgmt : BOOLEAN, deny : BOOLEAN]
NativeSteps == {"write", "record", "create vnet", "create subnet", "delete subnet", "delete vnet",
                "configure", "apply", "reconcile", "preserve", "datacenter", "node"}

\* A VNet that is ours is there.
VnetStates ==
  {v \in [exists : BOOLEAN, own : BOOLEAN, same : BOOLEAN, attached : BOOLEAN, active : BOOLEAN,
          snat : BOOLEAN, live : Nat] : v.own => v.exists}
GuestStates == [status : {"owned", "missing", "conflict"}, firewall : BOOLEAN, nic : {"none", "on", "off"}]
SwitchStates == [datacenter : BOOLEAN, node : BOOLEAN]
WorldStates ==
  [target : 1..2, release : 1..2, pending : BOOLEAN, neighbour : Nat, chain : Seq(FirewallRules),
   vnet : VnetStates, vm : [GuestIds -> GuestStates], switches : SwitchStates]

RuleRequests ==
  [kind : {"rule"}, action : {"create"}, rule : FirewallRules] \cup
  [kind : {"rule"}, action : {"edit"}, pos : Nat \ {0}, rule : FirewallRules] \cup
  [kind : {"rule"}, action : {"delete"}, pos : Nat \ {0}] \cup
  [kind : {"rule"}, action : {"move"}, pos : Nat \ {0}, to : Nat \ {0}]
SwitchRequests == [kind : {"snat", "switches"}, enabled : BOOLEAN]
NetworkRequests == [kind : {"network"}, action : {"create", "delete"}]
GuestRequests == [kind : {"guests"}, vms : SUBSET GuestIds, enabled : BOOLEAN]

ASSUME WorldsAssumption ==
  Worlds \subseteq WorldStates /\ IsFiniteSet(GuestIds) /\ GuestIds \cap NativeSteps = {}
ASSUME RequestsAssumption ==
  RuntimeRequests \subseteq RuleRequests \cup SwitchRequests \cup NetworkRequests \cup GuestRequests

-----------------------------------------------------------------------------
(* Plans (plan_operation, network_plan, firewall_plan).                    *)

Denies(rule) == rule.deny /\ rule.mgmt
Editable(rule) == rule.own /\ ~rule.mgmt

\* moveto names the position before which Proxmox inserts.
Insertion(q) == IF q.pos < q.to THEN q.to + 1 ELSE q.to

RulePlan(w, q) ==
  LET edits == q.action # "create" IN
  IF \/ edits /\ (q.pos > Len(w.chain) \/ ~Editable(w.chain[q.pos]))
     \/ q.action \in {"create", "edit"} /\ Denies(q.rule)
     \/ q.action = "move" /\ q.to > Len(w.chain)
  THEN Blocked
  ELSE [kind |-> "rule", guards |-> w.chain, todo |-> <<"write">>, before |-> w.chain,
        expected |-> CASE q.action = "create" -> <<q.rule>> \o w.chain
                       [] q.action = "edit" -> ReplaceAt(w.chain, q.pos, q.rule)
                       [] q.action = "delete" -> RemoveAt(w.chain, q.pos)
                       [] q.action = "move" -> InsertAt(RemoveAt(w.chain, q.pos), q.to, w.chain[q.pos])]

NetworkPlan(w, q) ==
  IF \/ w.pending \/ w.vnet.attached
     \/ q.action = "create" /\ w.vnet.exists
     \/ q.action = "delete" /\ ~(w.vnet.exists /\ w.vnet.own /\ w.vnet.same)
  THEN Blocked
  ELSE [kind |-> "network", guards |-> <<w.vnet, w.pending>>,
        todo |-> IF q.action = "create"
                 THEN <<"record", "create vnet", "create subnet", "apply", "reconcile", "preserve">>
                 ELSE <<"record", "delete subnet", "delete vnet", "apply", "reconcile", "preserve">>]

\* vm_firewall names one guest, scenario_firewall all of them.
GuestsPlan(w, q) ==
  LET Having(s) == {v \in q.vms : w.vm[v].status = s} IN
  IF Having("conflict") # {} \/ Having("owned") = {} \/
     (q.enabled /\ \E v \in Having("owned") : w.vm[v].nic = "none")
  THEN Blocked
  ELSE [kind |-> "guests", vmids |-> Having("owned"), missing |-> Having("missing"),
        todo |-> SetToSeq(Having("owned"))]

SnatPlan(w, q) ==
  IF w.pending \/ ~w.vnet.same \/ ~w.vnet.active THEN Blocked
  ELSE [kind |-> "snat", todo |-> <<"configure", "apply", "reconcile">>]

SwitchesPlan(w, q) == [kind |-> "switches", before |-> w.switches, todo |-> <<"datacenter", "node">>]

PlanOf(w, q) ==
  CASE q.kind = "rule" -> RulePlan(w, q)
    [] q.kind = "network" -> NetworkPlan(w, q)
    [] q.kind = "guests" -> GuestsPlan(w, q)
    [] q.kind = "snat" -> SnatPlan(w, q)
    [] q.kind = "switches" -> SwitchesPlan(w, q)

-----------------------------------------------------------------------------
RuntimeInit ==
  /\ world \in Worlds
  /\ operation = NoOperation
  /\ changes = 0
  /\ calm = FALSE

\* The administrator sees a plan and its fingerprint.
ReviewPlan(q) ==
  /\ operation.step = "none"
  /\ PlanOf(world, q) # Blocked
  /\ operation' = [operation EXCEPT !.step = "reviewed", !.request = q, !.review = PlanOf(world, q),
                                    !.target = world.target, !.release = world.release]
  /\ UNCHANGED <<world, changes, calm>>

\* verify_review: a reviewed kind is planned exactly as it was reviewed, on
\* the same target and with the same runtime release.
Bound(w) == w.target = operation.target /\ w.release = operation.release
Verified(plan) == operation.request.kind \in Reviewed => plan = operation.review

\* Kinds that need no review are recorded without planning.
CreateOperation ==
  /\ operation.step = "reviewed"
  /\ operation.request.kind \in Reviewed => Bound(world) /\ Verified(PlanOf(world, operation.request))
  /\ operation' = [operation EXCEPT !.step = "queued", !.target = world.target, !.release = world.release]
  /\ UNCHANGED <<world, changes, calm>>

\* _verified_plan.
VerifiedPlan == IF Bound(world) /\ Verified(PlanOf(world, operation.request))
                THEN PlanOf(world, operation.request) ELSE Blocked

PrepareRun ==
  /\ operation.step = "queued"
  /\ VerifiedPlan # Blocked
  /\ operation' = [operation EXCEPT !.step = "prepared", !.plan = VerifiedPlan, !.todo = VerifiedPlan.todo]
  /\ UNCHANGED <<world, changes, calm>>

\* Preparing secrets takes time: the plan must still be the same.
RecheckRun ==
  /\ operation.step = "prepared"
  /\ VerifiedPlan = operation.plan
  /\ operation' = [operation EXCEPT !.step = "started"]
  /\ calm' = TRUE
  /\ UNCHANGED <<world, changes>>

\* The first plays of the runner: guests carry the marker, everything that
\* the plan of a rule or of a network read is unchanged.
GuardPasses ==
  CASE operation.plan.kind = "guests" -> \A v \in operation.plan.vmids : world.vm[v].status = "owned"
    [] operation.plan.kind = "rule" -> operation.plan.guards = world.chain
    [] operation.plan.kind = "network" -> operation.plan.guards = <<world.vnet, world.pending>>
    [] OTHER -> TRUE

GuardPlay ==
  /\ operation.step = "started"
  /\ GuardPasses
  /\ operation' = [operation EXCEPT !.step = "native"]
  /\ calm' = (calm \/ operation.plan.kind \in {"guests", "rule", "network"})
  /\ UNCHANGED <<world, changes>>

\* Refused, or a play or a step of a bundle fails: the rest is not run.
RunFails ==
  /\ operation.step \in {"queued", "prepared", "started", "native"}
  /\ operation' = [operation EXCEPT !.step = IF @ \in {"queued", "prepared"} THEN "closed" ELSE "exited",
                                    !.result = IF operation.step = "native" THEN "cut" ELSE "failed"]
  /\ UNCHANGED <<world, changes, calm>>

-----------------------------------------------------------------------------
(* What the native steps do.                                               *)

\* Fault: the edit is sent without a digest.
DigestIsNotSent == TRUE

\* Edits carry the digest of the chain they were planned on.
DigestHolds == operation.request.action = "create" \/ world.chain = operation.plan.before

Written(q, chain) ==
  CASE q.action = "create" -> <<q.rule>> \o chain
    [] q.action = "edit" -> ReplaceAt(chain, q.pos, q.rule)
    [] q.action = "delete" -> RemoveAt(chain, q.pos)
    [] q.action = "move" -> LET m == Insertion(q) IN
         InsertAt(RemoveAt(chain, q.pos), IF m > q.pos THEN m - 1 ELSE m, chain[q.pos])

Wanted(q) == (q.kind = "snat" /\ q.enabled) \/ (q.kind = "network" /\ q.action = "create")
Count(on) == IF on THEN 1 ELSE 0

\* An SDN apply adds NAT rules again, also those of other networks.
Native(w, q, step) ==
  CASE step = "write" -> [w EXCEPT !.chain = Written(q, @)]
    [] step = "create vnet" -> [w EXCEPT !.vnet.exists = TRUE, !.vnet.own = TRUE]
    [] step = "create subnet" -> [w EXCEPT !.vnet.same = TRUE, !.vnet.snat = TRUE]
    [] step = "delete subnet" -> [w EXCEPT !.vnet.same = FALSE]
    [] step = "delete vnet" -> [w EXCEPT !.vnet.exists = FALSE, !.vnet.own = FALSE]
    [] step = "configure" -> [w EXCEPT !.vnet.snat = q.enabled]
    [] step = "apply" -> [w EXCEPT !.vnet.active = w.vnet.exists, !.neighbour = @ + 1, !.vnet.live = @ + 1]
    [] step = "reconcile" -> [w EXCEPT !.vnet.live = Count(Wanted(q))]
    [] step = "preserve" -> [w EXCEPT !.neighbour = operation.recorded]
    [] step = "datacenter" -> [w EXCEPT !.switches.datacenter = q.enabled]
    [] step = "node" -> [w EXCEPT !.switches.node = q.enabled]
    [] step = "record" -> w
    [] OTHER -> [w EXCEPT !.vm[step] = [w.vm[step] EXCEPT !.firewall = q.enabled,
                       !.nic = IF @ = "none" THEN "none" ELSE IF q.enabled THEN "on" ELSE "off"]]

NativeStep ==
  /\ operation.step = "native" /\ operation.todo # <<>>
  /\ operation.plan.kind = "rule" => DigestHolds
  /\ world' = Native(world, operation.request, Head(operation.todo))
  /\ operation' = [operation EXCEPT !.todo = Tail(@),
                     !.recorded = IF Head(operation.todo) = "record" THEN world.neighbour ELSE @]
  /\ UNCHANGED <<changes, calm>>

RunEnds ==
  /\ operation.step = "native" /\ operation.todo = <<>>
  /\ operation' = [operation EXCEPT !.step = "exited"]
  /\ UNCHANGED <<world, changes, calm>>

-----------------------------------------------------------------------------
(* Readback (assess_runtime_result).                                       *)

\* A guest in the state that was asked for, on every card.
Matches(vm, enabled) ==
  /\ vm.status = "owned" /\ vm.firewall = enabled
  /\ vm.nic = "none" => ~enabled
  /\ vm.nic # "none" => (vm.nic = "on") = enabled

\* What was reached as far as it could be read; hidden guests match nothing.
Reached(w, op, hidden) ==
  LET q == op.request IN
  CASE q.kind = "rule" -> w.chain = op.plan.expected
    [] q.kind = "network" ->
         /\ ~w.pending /\ w.neighbour = op.recorded /\ w.vnet.live = Count(Wanted(q))
         /\ IF q.action = "create" THEN w.vnet.own /\ w.vnet.same /\ w.vnet.active /\ w.vnet.snat
            ELSE ~w.vnet.exists /\ ~w.vnet.active
    [] q.kind = "guests" ->
         /\ op.plan.missing = {}
         /\ \A v \in op.plan.vmids : v \notin hidden /\ Matches(w.vm[v], q.enabled)
    [] q.kind = "snat" -> /\ ~w.pending /\ w.vnet.same /\ w.vnet.active
                          /\ w.vnet.snat = q.enabled /\ w.vnet.live = Count(q.enabled)
    [] q.kind = "switches" -> w.switches = [datacenter |-> q.enabled, node |-> q.enabled]

\* Without a readback, or on another target, nothing is green.
Readback ==
  /\ operation.step = "exited"
  /\ \E readable \in BOOLEAN, hidden \in SUBSET DOMAIN world.vm :
       operation' = [operation EXCEPT !.step = "closed",
         !.result = IF /\ operation.result = "open" /\ readable
                       /\ world.target = operation.target /\ Reached(world, operation, hidden)
                    THEN "succeeded" ELSE "failed"]
  /\ UNCHANGED <<world, changes, calm>>

-----------------------------------------------------------------------------
(* Other administrators, on what the operation is about.                   *)

Changed(w, kind) ==
  {[w EXCEPT !.target = 3 - @], [w EXCEPT !.release = 3 - @]} \cup
  CASE kind = "rule" -> {[w EXCEPT !.chain = RemoveAt(@, 1)] : x \in {y \in {1} : Len(w.chain) > 0}}
         \cup {[w EXCEPT !.chain = <<[own |-> FALSE, mgmt |-> m, deny |-> FALSE]>> \o @] : m \in BOOLEAN}
    [] kind \in {"network", "snat"} ->
         {[w EXCEPT !.pending = ~@], [w EXCEPT !.vnet.attached = ~@], [w EXCEPT !.vnet.snat = ~@],
          [w EXCEPT !.vnet.exists = TRUE, !.vnet.own = FALSE], [w EXCEPT !.neighbour = @ + 1]}
    [] kind = "guests" ->
         {[w EXCEPT !.vm[v].status = s] : v \in DOMAIN w.vm, s \in {"owned", "missing", "conflict"}}
         \cup {[w EXCEPT !.vm[v].firewall = ~@] : v \in DOMAIN w.vm}
    [] kind = "switches" -> {[w EXCEPT !.switches.node = ~@]}

OthersChange ==
  /\ operation.step \notin {"none", "closed"}
  /\ changes < MaxChanges
  /\ world' \in Changed(world, operation.request.kind) \ {world}
  /\ changes' = changes + 1
  /\ calm' = FALSE
  /\ UNCHANGED operation

RuntimeNext ==
  \/ \E q \in RuntimeRequests : ReviewPlan(q)
  \/ CreateOperation \/ PrepareRun \/ RecheckRun \/ GuardPlay \/ RunFails
  \/ NativeStep \/ RunEnds \/ Readback
  \/ OthersChange

RuntimeSpec == RuntimeInit /\ [][RuntimeNext]_runtimeVars

-----------------------------------------------------------------------------
(* Properties.                                                             *)

Ours(w, op, step) ==
  CASE step \in {"create vnet", "create subnet"} -> ~w.vnet.exists \/ w.vnet.own
    [] step \in {"delete subnet", "delete vnet"} -> w.vnet.own /\ ~w.vnet.attached
    [] step \in DOMAIN w.vm -> w.vm[step].status = "owned"
    [] OTHER -> TRUE

\* A shared resource changes only the way an administrator reviewed it; a
\* rule is edited, moved or deleted only if it is an editable one of this
\* deployment, whatever others inserted above it after the review.
ChangesAreReviewed ==
  world' # world /\ changes' = changes =>
    LET op == operation IN
    /\ op.request.kind \in Reviewed => op.plan = op.review
    /\ calm => Ours(world, op, Head(op.todo))
    /\ op.request.kind = "rule" /\ op.request.action # "create" =>
         Editable(world.chain[op.request.pos]) /\ world'.chain = op.review.expected
    /\ op.request.kind = "rule" /\ op.request.action = "create" => Tail(world'.chain) = world.chain

\* What the request asked for, in terms of the cluster alone.
Achieved(w, q) ==
  CASE q.kind = "network" ->
         IF q.action = "create" THEN w.vnet.exists /\ w.vnet.own /\ w.vnet.active /\ w.vnet.live = 1
         ELSE ~w.vnet.exists /\ w.vnet.live = 0
    [] q.kind = "guests" -> \A v \in q.vms :
         w.vm[v].status = "owned" /\ w.vm[v].firewall = q.enabled /\ (q.enabled => w.vm[v].nic = "on")
    [] q.kind = "snat" -> w.vnet.snat = q.enabled /\ w.vnet.live = Count(q.enabled)
    [] q.kind = "switches" -> w.switches.datacenter = q.enabled /\ w.switches.node = q.enabled
    [] q.kind = "rule" -> w.chain = operation.review.expected

\* A green operation reached what was asked for on the reviewed target, for
\* every guest that was named, and left the NAT rules of others alone.
GreenIsReached ==
  operation'.result = "succeeded" /\ operation.result # "succeeded" =>
    /\ world.target = operation.target
    /\ Achieved(world, operation.request)
    /\ operation.request.kind = "network" => world.neighbour = operation.recorded

\* Both together, of every run of the three kinds of runtime operations.
RuntimeIsSafe == [][ChangesAreReviewed /\ GreenIsReached]_runtimeVars
=============================================================================
