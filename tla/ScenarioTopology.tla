-------------------------- MODULE ScenarioTopology --------------------------
(***************************************************************************)
(* The shape of a replicated scenario: the review of the instances that a  *)
(* project declares for its teams and users, with the VM manifest it       *)
(* agrees with, and the expansion of an authored document per team, which  *)
(* serves the compose preview.                                             *)
(*                                                                         *)
(* An instance key is a digest of source, team and user, so it is modelled *)
(* as that triple; 0 stands for a team or user that is None.               *)
(***************************************************************************)
EXTENDS Naturals, FiniteSets

CONSTANTS
  Documents,   \* bound: the declarations that are reviewed
  Authored,    \* bound: the documents that are expanded
  TeamCounts   \* bound: numbers of teams of an expansion

VARIABLE topology  \* the last review or expansion

-----------------------------------------------------------------------------
(* Review of the instances (scenario_instances, scenario_manifest).        *)

\* The cohorts of a scope: everybody, each team or each user.
Cohorts(roster, scope) ==
  CASE scope = "shared" -> {<<0, 0>>}
    [] scope = "per_team" -> {c \in roster : c[2] = 0}
    [] scope = "per_user" -> {c \in roster : c[2] # 0}

Expected(roster, scopes) ==
  UNION {{<<s, c>> : c \in Cohorts(roster, scopes[s])} : s \in DOMAIN scopes}

\* _identities: one replica for every source and cohort, and no other.
MatchesRoster(roster, scopes, rows) ==
  /\ \A s \in DOMAIN scopes : Cohorts(roster, scopes[s]) # {}
  /\ {<<r.source, r.cohort>> : r \in rows} = Expected(roster, scopes)
  /\ Cardinality(Expected(roster, scopes)) = Cardinality(rows)

\* Fault: only the network's users are compared.
MayConnectAcrossTeams(instance, network) == network.cohort[2] \in {0, instance.cohort[2]}

\* A NIC stays in the cohort of its instance.
MayConnect(instance, network) ==
  /\ network.cohort[1] \in {0, instance.cohort[1]}
  /\ network.cohort[2] \in {0, instance.cohort[2]}

NicsAgree(d, i) == \A n \in i.nics :
  \E net \in d.networks :
    /\ n.network = <<net.source, net.cohort>>
    /\ MayConnect(i, net)
    /\ n.bridge = net.vnet
    /\ n.ip \in net.subnet \ {net.gateway}

Placed(d) == UNION {{<<i, n>> : n \in i.nics} : i \in d.instances}

\* validate_vm_manifest, version 3.
ManifestIsValid(d) ==
  /\ Cardinality({i.vm_id : i \in d.instances}) = Cardinality(d.instances)
  /\ \A i, j \in d.instances : i.template # j.vm_id
  /\ \A a, b \in Placed(d) : a # b => <<a[2].bridge, a[2].ip>> # <<b[2].bridge, b[2].ip>>

\* Every VM is one host of the inventory, with its management address.
InventoryAgrees(d) ==
  d.inventory = {<<p[1].vm_id, p[2].ip>> : p \in {q \in Placed(d) : q[2].index = 0}}

Links(i) == {<<n.index, n.key, n.network[1]>> : n \in i.nics}

Accepts(d) ==
  /\ MatchesRoster(d.roster, d.nodeScopes, d.instances)
  /\ MatchesRoster(d.roster, d.networkScopes, d.networks)
  /\ ManifestIsValid(d)
  /\ \A m, n \in d.networks : m # n => m.vnet # n.vnet /\ m.subnet \cap n.subnet = {}
  /\ \A i \in d.instances : NicsAgree(d, i)
  /\ \A i, j \in d.instances : i.source = j.source => Links(i) = Links(j)
  /\ InventoryAgrees(d)

-----------------------------------------------------------------------------
(* Expansion (overlay.expand_replication).                                 *)

\* The copy of a node for a team: names, notify targets and handler
\* namespaces get the team's suffix, a vm_id the team's offset.
Offset(node, team, offset) ==
  [id |-> <<node.id, team>>,
   vm_id |-> IF node.vm_id = 0 THEN 0 ELSE node.vm_id + offset * team,
   notify |-> {<<n, team>> : n \in node.notify},
   handlers |-> {<<h, team>> : h \in node.handlers}]

Plain(node) == [id |-> <<node.id, 0>>, vm_id |-> node.vm_id,
                notify |-> {<<n, 0>> : n \in node.notify}, handlers |-> {<<h, 0>> : h \in node.handlers}]

Leaves(node, teams) ==
  IF node.scope = "shared" THEN {Plain(node)} ELSE {Offset(node, t, node.offset) : t \in 1..teams}

\* The children of a replicated group are copied once per team, with the
\* group's offset, whatever their own scope is.
Expand(node, teams) ==
  IF node.kind # "group" THEN Leaves(node, teams)
  ELSE IF node.scope = "shared" THEN UNION {Leaves(c, teams) : c \in node.children}
  ELSE {Offset(c, t, node.offset) : c \in node.children, t \in 1..teams}

Expansion(doc, teams) == UNION {Expand(n, teams) : n \in doc}

\* The nodes of a document that are no group, each with the node of the
\* first level that it stands under.
PlacesOf(doc) == UNION {IF n.kind = "group" THEN {<<n, c>> : c \in n.children} ELSE {<<n, n>>} : n \in doc}

-----------------------------------------------------------------------------
(* Identifiers are not empty (0 is a team or user that is None); compose   *)
(* takes an id for the name of one node; an expansion has some team.       *)
ASSUME TopologyAssumption ==
  /\ \A d \in Documents :
       /\ IsFiniteSet(d.instances)
       /\ d.roster \subseteq (Nat \ {0}) \X Nat
       /\ \A s \in DOMAIN d.nodeScopes : d.nodeScopes[s] \in {"shared", "per_team", "per_user"}
       /\ \A s \in DOMAIN d.networkScopes : d.networkScopes[s] \in {"shared", "per_team", "per_user"}
  /\ \A doc \in Authored : \A p, q \in PlacesOf(doc) : p[2].id = q[2].id => p = q
  /\ TeamCounts \subseteq Nat \ {0}

Untouched == [what |-> "nothing"]

TopologyInit == topology = Untouched

ReviewInstances ==
  /\ topology = Untouched
  /\ \E d \in Documents : topology' = [what |-> "review", document |-> d, accepted |-> Accepts(d)]

ExpandDocument ==
  /\ topology = Untouched
  /\ \E doc \in Authored, teams \in TeamCounts :
       topology' = [what |-> "expansion", authored |-> doc, teams |-> teams, nodes |-> Expansion(doc, teams)]

Answer == topology # Untouched /\ topology' = Untouched

TopologyNext == ReviewInstances \/ ExpandDocument \/ Answer

TopologySpec == TopologyInit /\ [][TopologyNext]_topology

-----------------------------------------------------------------------------
(* Properties.                                                             *)

Touches(d, i, net) == \E n \in i.nics : n.ip \in net.subnet

\* In an accepted declaration two instances of different teams, or of
\* different users of a team, meet only in networks that are shared by both,
\* and every cohort has exactly its replicas.
CohortsAreIsolated == topology.what = "review" /\ topology.accepted =>
  LET d == topology.document IN
  /\ \A i, j \in d.instances, net \in d.networks :
       Touches(d, i, net) /\ Touches(d, j, net) /\ i.cohort[1] # j.cohort[1] => net.cohort = <<0, 0>>
  /\ \A i, j \in d.instances, net \in d.networks :
       Touches(d, i, net) /\ Touches(d, j, net) /\ i.cohort # j.cohort => net.cohort[2] = 0
  /\ \A s \in DOMAIN d.nodeScopes :
       Cardinality({i \in d.instances : i.source = s}) = Cardinality(Cohorts(d.roster, d.nodeScopes[s]))

Authors(doc) == {p[2] : p \in PlacesOf(doc)}

\* No two nodes of an expansion have the same id, and a notification never
\* reaches a handler of another team.
ExpansionSeparatesTeams == topology.what = "expansion" =>
  /\ \A a, b \in topology.nodes : a # b => a.id # b.id
  /\ \A a \in topology.nodes : \A n \in a.notify : n[2] = a.id[2]
  /\ \A a \in topology.nodes : \A h \in a.handlers : h[2] = a.id[2]
  /\ \A n \in Authors(topology.authored) :
       Cardinality({a \in topology.nodes : a.id[1] = n.id}) \in {1, topology.teams}

\* What validate_scenario_instances and expand_replication leave of a
\* replicated scenario: teams that cannot reach each other.
TopologyIsSound == CohortsAreIsolated /\ ExpansionSeparatesTeams
=============================================================================
