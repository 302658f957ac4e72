--------------------------- MODULE AllocationPlan ---------------------------
(***************************************************************************)
(* The plan of one allocation request: values that the author fixed or     *)
(* that an earlier lease of the project holds are claimed first, for all   *)
(* VMs; what is left open is then filled with the least free values.       *)
(*                                                                         *)
(* Everything that makes an identifier or an address unavailable (guests,  *)
(* other leases and claims, gateways, reserved_ips) comes as one set.      *)
(***************************************************************************)
EXTENDS Naturals, FiniteSets, Sequences, FiniteSetsExt

CONSTANTS
  Networks,   \* network_id -> [bridge, subnet]
  HostsOf,    \* subnet -> its usable addresses
  Pool,       \* vmid_start..vmid_end
  Protected,  \* protected identifiers: the defaults and the host's overrides
  Asks        \* bound: the requests that are made

ASSUME PoolAssumption == Pool \cup Protected \subseteq Nat \ {0}
ASSUME HostsAssumption == \A s \in DOMAIN HostsOf : HostsOf[s] \subseteq Nat \ {0}

\* Some VMs with some NICs each, on declared networks, with keys for all NICs
\* of a VM or for none; an interface that is leased has an address.
ASSUME AsksAssumption == \A a \in Asks :
  /\ Len(a.vms) \in Nat \ {0} /\ DOMAIN a.vms = 1..Len(a.vms)
  /\ \A i \in DOMAIN a.vms : LET nics == a.vms[i].nics  old == a.previous[i].nics IN
       /\ Len(nics) \in Nat \ {0} /\ DOMAIN nics = 1..Len(nics)
       /\ \A k \in DOMAIN nics : Networks[nics[k].net].subnet \in DOMAIN HostsOf
       /\ (\A k \in DOMAIN nics : nics[k].key = 0) \/ (\A k \in DOMAIN nics : nics[k].key # 0)
       /\ Len(old) \in Nat /\ DOMAIN old = 1..Len(old)
       /\ \A j \in DOMAIN old : old[j].ip # 0

VARIABLES
  ask,        \* the request being planned, and what it is planned against
  at,         \* phase, index of the VM and of its interface
  claimed,    \* identifiers and <<bridge, ip>> pairs claimed so far
  fixed,      \* per VM and interface, the values claimed by the first loop
  given       \* the assignments

planVars == <<ask, at, claimed, fixed, given>>

\* 0 stands for None: no fixed vm_id, no explicit ip, no nic_key.
Unasked == [vms |-> <<>>, previous |-> <<>>, ids |-> {}, ips |-> {}]
Resting == [phase |-> "rest", vm |-> 1, nic |-> 1]
Unclaimed == [ids |-> {}, ips |-> {}]
MoveTo(phase, vm, nic) == at' = [phase |-> phase, vm |-> vm, nic |-> nic]

PlanInit ==
  ask = Unasked /\ at = Resting /\ claimed = Unclaimed /\ fixed = <<>> /\ given = <<>>

\* A request names its VMs; previous[i] is what the current lease of the
\* project assigns to the node of VM i: a record with vm_id 0 if nothing.
Ask ==
  /\ at.phase = "rest"
  /\ ask' \in Asks
  /\ MoveTo("fix", 1, 1)
  /\ claimed' = Unclaimed /\ fixed' = <<>> /\ given' = <<>>

-----------------------------------------------------------------------------
(* Interfaces that keep the address of an earlier lease.                   *)

Keys(nics) == {k \in DOMAIN nics : nics[k].key # 0}
SameNetwork(nic, net) ==
  nic.net = net /\ nic.bridge = Networks[net].bridge /\ nic.subnet = Networks[net].subnet

\* Old interfaces on the network of an interface without explicit address,
\* that no explicit address of the request names.
Unmatched(nics, old, k) == {j \in DOMAIN old :
  /\ ~\E e \in DOMAIN nics : nics[e].ip # 0 /\ nics[e].net = old[j].net /\ nics[e].ip = old[j].ip
  /\ SameNetwork(old[j], nics[k].net)}
Unresolved(nics, net) == {k \in DOMAIN nics : nics[k].net = net /\ nics[k].ip = 0}

\* _retained_nics refuses what it cannot match without guessing.
Inconsistent(old) == Keys(old) # {} /\
  (Keys(old) # DOMAIN old \/ Cardinality({old[j].key : j \in DOMAIN old}) # Len(old))
IdentityRequired(nics, old) ==
  /\ old # <<>>
  /\ \/ Inconsistent(old)
     \/ nics[1].key = 0 /\ Keys(old) # {}
     \/ /\ nics[1].key # 0 /\ Keys(old) = {}
        /\ \E k \in DOMAIN nics : nics[k].ip = 0 /\ Unmatched(nics, old, k) # {} /\
             (Cardinality(Unmatched(nics, old, k)) # 1 \/ Cardinality(Unresolved(nics, nics[k].net)) # 1)

\* The old interfaces that interface k inherits from: none or one.
Retained(nics, old, k) ==
  IF nics[1].key = 0 THEN {j \in DOMAIN old : j = k}
  ELSE IF Keys(old) # {} THEN {j \in DOMAIN old : old[j].key = nics[k].key}
  ELSE IF nics[k].ip = 0 THEN Unmatched(nics, old, k) ELSE {}

FixedIp(nics, old, k) ==
  IF nics[k].ip # 0 THEN nics[k].ip
  ELSE LET kept == {j \in Retained(nics, old, k) : SameNetwork(old[j], nics[k].net)} IN
       IF kept = {} THEN 0 ELSE old[CHOOSE j \in kept : TRUE].ip

-----------------------------------------------------------------------------
(* The two loops of _plan.                                                 *)

Pair(nic, ip) == <<Networks[nic.net].bridge, ip>>

FixedId(i) == IF ask.vms[i].vm_id # 0 THEN ask.vms[i].vm_id ELSE ask.previous[i].vm_id
FixedIps(i) == [k \in DOMAIN ask.vms[i].nics |-> FixedIp(ask.vms[i].nics, ask.previous[i].nics, k)]
FixedPairs(i) == {Pair(ask.vms[i].nics[k], FixedIps(i)[k]) : k \in {j \in DOMAIN FixedIps(i) : FixedIps(i)[j] # 0}}

IdRefused(i) == FixedId(i) # 0 /\ FixedId(i) \in Protected \cup ask.ids \cup claimed.ids
IpsRefused(i) ==
  \/ FixedPairs(i) \cap (ask.ips \cup claimed.ips) # {}
  \/ \E j, k \in DOMAIN FixedIps(i) : j # k /\ FixedIps(i)[j] # 0
       /\ Pair(ask.vms[i].nics[j], FixedIps(i)[j]) = Pair(ask.vms[i].nics[k], FixedIps(i)[k])
  \/ \E k \in DOMAIN FixedIps(i) : FixedIps(i)[k] # 0
       /\ FixedIps(i)[k] \notin HostsOf[Networks[ask.vms[i].nics[k].net].subnet]

FixVm ==
  LET i == at.vm IN
  /\ at.phase = "fix"
  /\ IF \/ IdRefused(i) \/ IdentityRequired(ask.vms[i].nics, ask.previous[i].nics) \/ IpsRefused(i)
     THEN MoveTo("refused", i, 1) /\ UNCHANGED <<claimed, fixed>>
     ELSE /\ claimed' = [ids |-> claimed.ids \cup ({FixedId(i)} \ {0}), ips |-> claimed.ips \cup FixedPairs(i)]
          /\ fixed' = Append(fixed, [vm_id |-> FixedId(i), ips |-> FixedIps(i)])
          /\ IF i < Len(ask.vms) THEN MoveTo("fix", i + 1, 1) ELSE MoveTo("id", 1, 1)
  /\ UNCHANGED <<ask, given>>

\* Fault: the values that other VMs of the request fixed are free.
FreeIdsOfOthers == Pool \ (ask.ids \cup Protected)

FreeIds == Pool \ (ask.ids \cup claimed.ids \cup Protected)

AssignId ==
  LET i == at.vm IN
  /\ at.phase = "id"
  /\ IF fixed[i].vm_id = 0 /\ FreeIds = {}
     THEN MoveTo("exhausted", i, 1) /\ UNCHANGED <<claimed, given>>
     ELSE LET id == IF fixed[i].vm_id = 0 THEN Min(FreeIds) ELSE fixed[i].vm_id IN
          /\ claimed' = [claimed EXCEPT !.ids = @ \cup {id}]
          /\ given' = Append(given, [vm_id |-> id, ips |-> <<>>])
          /\ MoveTo("nic", i, 1)
  /\ UNCHANGED <<ask, fixed>>

FreeIps(nic) == {ip \in HostsOf[Networks[nic.net].subnet] : Pair(nic, ip) \notin ask.ips \cup claimed.ips}

AssignNic ==
  LET i == at.vm  k == at.nic  nic == ask.vms[i].nics[k] IN
  /\ at.phase = "nic"
  /\ IF fixed[i].ips[k] = 0 /\ FreeIps(nic) = {}
     THEN MoveTo("exhausted", i, k) /\ UNCHANGED <<claimed, given>>
     ELSE LET ip == IF fixed[i].ips[k] = 0 THEN Min(FreeIps(nic)) ELSE fixed[i].ips[k] IN
          /\ claimed' = [claimed EXCEPT !.ips = @ \cup {Pair(nic, ip)}]
          /\ given' = [given EXCEPT ![i].ips = Append(@, ip)]
          /\ IF k < Len(ask.vms[i].nics) THEN MoveTo("nic", i, k + 1)
             ELSE IF i < Len(ask.vms) THEN MoveTo("id", i + 1, 1) ELSE MoveTo("done", i, k)
  /\ UNCHANGED <<ask, fixed>>

PlanReturns ==
  /\ at.phase \in {"done", "refused", "exhausted"}
  /\ at' = Resting /\ ask' = Unasked /\ claimed' = Unclaimed /\ fixed' = <<>> /\ given' = <<>>

PlanNext == Ask \/ FixVm \/ AssignId \/ AssignNic \/ PlanReturns

PlanSpec == PlanInit /\ [][PlanNext]_planVars

-----------------------------------------------------------------------------
(* Properties.                                                             *)

Cells == UNION {{<<i, k>> : k \in DOMAIN ask.vms[i].nics} : i \in DOMAIN ask.vms}
GivenPair(c) == Pair(ask.vms[c[1]].nics[c[2]], given[c[1]].ips[c[2]])

\* A finished plan hands out no identifier and no bridge/address pair twice,
\* none that is occupied, and no protected identifier.
PlanIsDisjoint == at.phase = "done" =>
  /\ \A i, j \in DOMAIN given : i # j => given[i].vm_id # given[j].vm_id
  /\ \A i \in DOMAIN given : given[i].vm_id \notin ask.ids \cup Protected
  /\ \A c, d \in Cells : c # d => GivenPair(c) # GivenPair(d)
  /\ \A c \in Cells : GivenPair(c) \notin ask.ips

\* Renewing a lease moves nothing: a VM keeps its identifier, an interface
\* that is still on the same network under the same key keeps its address,
\* and an explicit choice is honoured.
PlanIsStable == at.phase = "done" => \A i \in DOMAIN given :
  LET vm == ask.vms[i]  old == ask.previous[i] IN
  /\ vm.vm_id # 0 => given[i].vm_id = vm.vm_id
  /\ vm.vm_id = 0 /\ old.vm_id # 0 => given[i].vm_id = old.vm_id
  /\ \A k \in DOMAIN vm.nics :
       /\ vm.nics[k].ip # 0 => given[i].ips[k] = vm.nics[k].ip
       /\ \A j \in DOMAIN old.nics :
            vm.nics[k].ip = 0 /\ vm.nics[k].key # 0 /\ old.nics[j].key = vm.nics[k].key
              /\ SameNetwork(old.nics[j], vm.nics[k].net) => given[i].ips[k] = old.nics[j].ip

\* Whatever the order of the VMs, no automatic choice takes a value that a
\* later VM fixed: only requests whose fixed values are in conflict with one
\* another or with what exists are refused.
Conflict ==
  LET ips == [i \in DOMAIN ask.vms |-> FixedIps(i)]
      wanted == {<<c, Pair(ask.vms[c[1]].nics[c[2]], ips[c[1]][c[2]])>> : c \in {d \in Cells : ips[d[1]][d[2]] # 0}} IN
  \/ \E i \in DOMAIN ask.vms :
       \/ FixedId(i) # 0 /\ (FixedId(i) \in Protected \cup ask.ids \/ \E j \in DOMAIN ask.vms : j # i /\ FixedId(j) = FixedId(i))
       \/ IdentityRequired(ask.vms[i].nics, ask.previous[i].nics)
  \/ \E v, w \in wanted : v[2] \in ask.ips \/ (v # w /\ v[2] = w[2])
  \/ \E v \in wanted : v[2][2] \notin HostsOf[Networks[ask.vms[v[1][1]].nics[v[1][2]].net].subnet]

RefusalIsIntrinsic ==
  /\ at.phase = "refused" => Conflict
  /\ at.phase \in {"id", "nic", "done", "exhausted"} => ~Conflict

\* What a plan promises, for every request.
PlanMeetsRequest == PlanIsDisjoint /\ PlanIsStable /\ RefusalIsIntrinsic
=============================================================================
