--------------------------- MODULE MCControlPlane ---------------------------
(***************************************************************************)
(* The parts of the control plane that share no state with each other, in  *)
(* one run: a behaviour is one of one part, chosen at its start, while the *)
(* others stay where they are.                                             *)
(***************************************************************************)
EXTENDS AllocationPlan, DeploymentCreation, Registry, ScenarioReview, ScenarioTopology,
        PreflightChecks, PinnedScenario, NativeWorkflow, RuntimeApply, RuntimeReadings,
        GuestEdits, EventRedaction, EventStream, TLC

CONSTANT Parts
VARIABLE part

controlVars == <<part, planVars, creationVars, registryVars, review, topology, preflightVars, pinnedVars,
                 nativeVars, runtimeVars, readingVars, editVars, redactionVars, streamVars>>

\* A part that is not the chosen one starts in one state only.
One(S) == CHOOSE x \in S : TRUE
Only(p, values, S) == part # p => values = One(S)

ControlInit ==
  /\ part \in Parts
  /\ PlanInit /\ ReviewInit /\ TopologyInit /\ EditInit
  /\ CreationInit /\ Only("creation", create, [Creates -> {Ready}]) /\ Only("creation", password, {NoFile})
  /\ RegistryInit /\ Only("registry", sources, {{}})
  /\ RuntimeInit /\ Only("runtime", world, Worlds)
  /\ ReadingInit /\ Only("readings", cluster, Clusters)
  /\ PreflightInit /\ Only("preflight", situation, Situations)
  /\ PinnedInit /\ Only("pinned", label, Scenarios)
  /\ NativeInit /\ Only("native", site.registry, Registries) /\ Only("native", site.host, Hosts)
  /\ RedactionInit /\ StreamInit

\* Everything but the chosen part stays as it is.
Others(p) ==
  /\ part = p /\ UNCHANGED part
  /\ IF p = "plan" THEN TRUE ELSE UNCHANGED planVars
  /\ IF p = "creation" THEN TRUE ELSE UNCHANGED creationVars
  /\ IF p = "registry" THEN TRUE ELSE UNCHANGED registryVars
  /\ IF p = "review" THEN TRUE ELSE UNCHANGED review
  /\ IF p = "topology" THEN TRUE ELSE UNCHANGED topology
  /\ IF p = "preflight" THEN TRUE ELSE UNCHANGED preflightVars
  /\ IF p = "pinned" THEN TRUE ELSE UNCHANGED pinnedVars
  /\ IF p = "native" THEN TRUE ELSE UNCHANGED nativeVars
  /\ IF p = "runtime" THEN TRUE ELSE UNCHANGED runtimeVars
  /\ IF p = "readings" THEN TRUE ELSE UNCHANGED readingVars
  /\ IF p = "edits" THEN TRUE ELSE UNCHANGED editVars
  /\ IF p = "redaction" THEN TRUE ELSE UNCHANGED redactionVars
  /\ IF p = "stream" THEN TRUE ELSE UNCHANGED streamVars

PlanPart == part = "plan" /\ PlanNext /\ Others("plan")
CreationPart == part = "creation" /\ CreationNext /\ Others("creation")
RegistryPart == part = "registry" /\ RegistryNext /\ Others("registry")
ReviewPart == part = "review" /\ ReviewNext /\ Others("review")
TopologyPart == part = "topology" /\ TopologyNext /\ Others("topology")
PreflightPart == part = "preflight" /\ PreflightNext /\ Others("preflight")
PinnedPart == part = "pinned" /\ PinnedNext /\ Others("pinned")
NativePart == part = "native" /\ NativeNext /\ Others("native")
RuntimePart == part = "runtime" /\ RuntimeNext /\ Others("runtime")
ReadingPart == part = "readings" /\ ReadingNext /\ Others("readings")
EditPart == part = "edits" /\ EditNext /\ Others("edits")
RedactionPart == part = "redaction" /\ RedactionNext /\ Others("redaction")
StreamPart == part = "stream" /\ StreamNext /\ Others("stream")

ControlNext ==
  \/ PlanPart \/ CreationPart \/ RegistryPart \/ ReviewPart \/ TopologyPart \/ PreflightPart
  \/ PinnedPart \/ NativePart \/ RuntimePart \/ ReadingPart \/ EditPart \/ RedactionPart \/ StreamPart

ControlSpec == ControlInit /\ [][ControlNext]_controlVars

-----------------------------------------------------------------------------
(* Allocation plans: two networks on one bridge, two VMs.                  *)

Wires == [n \in {"n1", "n2"} |-> [bridge |-> "b1", subnet |-> IF n = "n1" THEN "s1" ELSE "s2"]]
HostIps == [s \in {"s1", "s2"} |-> IF s = "s1" THEN {1, 2, 3} ELSE {3, 4}]

Nic(keys, nets, ips) == [key : keys, net : nets, ip : ips]
Nics == {<<n>> : n \in Nic(0..2, {"n1", "n2"}, {0, 1, 3})} \cup
        {<<m, n>> : m \in Nic({0, 1}, {"n1", "n2"}, {0, 3}), n \in Nic(0..2, {"n1", "n2"}, {0, 3})}
Keyed(s) == \/ \A k \in DOMAIN s : s[k].key = 0
            \/ \A j, k \in DOMAIN s : s[k].key # 0 /\ (j # k => s[j].key # s[k].key)
Held(key, net, bridge, ip) ==
  [key |-> key, net |-> net, bridge |-> bridge, subnet |-> Wires[net].subnet, ip |-> ip]
Before == {[vm_id |-> 0, nics |-> <<>>]} \cup
  [vm_id : {2}, nics : {<<Held(a, "n1", b, 2)>> : a \in {0, 1}, b \in {"b1", "b2"}} \cup
                       {<<Held(a, "n1", "b1", 2), Held(c, n, "b1", 3)>> : a \in {0, 2}, c \in {0, 1}, n \in {"n1", "n2"}}]
MCAsks ==
  {[vms |-> <<[vm_id |-> v, nics |-> s], [vm_id |-> w, nics |-> <<n>>]>>,
    previous |-> <<b, [vm_id |-> 0, nics |-> <<>>]>>, ids |-> {}, ips |-> {<<"b1", 1>>}] :
     v \in {0, 1}, s \in {t \in Nics : Keyed(t)}, w \in {0, 2}, n \in Nic({0}, {"n1"}, {0, 2}), b \in Before}

-----------------------------------------------------------------------------
(* Reviewed targets: one aspect is varied at a time.                       *)

Calm == [reachable |-> TRUE, guest |-> 5 :> "none" @@ 6 :> "none" @@ 9 :> "template", audited |-> {5, 6, 9},
  protected |-> {}, templateMemory |-> 2, templateDisk |-> 2, templatePool |-> "local", freeMemory |-> 4,
  totalMemory |-> 6, cpus |-> 2,
  pool |-> [p \in {"local", "fast"} |-> [usable |-> TRUE, mayAllocate |-> TRUE, free |-> 4, total |-> 6]],
  zone |-> "ours", vnets |-> {}, subnets |-> {}, interfaces |-> {}, available |-> TRUE, pending |-> FALSE,
  mayAllocate |-> TRUE, mayAuditFabrics |-> TRUE]

GuestTargets == {[Calm EXCEPT !.reachable = FALSE]} \cup
  {[Calm EXCEPT !.guest = 5 :> a @@ 6 :> b @@ 9 :> c, !.audited = v, !.protected = p] :
     a, b \in {"none", "own", "foreign"}, c \in {"template", "foreign"},
     v \in {{5, 6, 9}, {6, 9}, {5, 6}}, p \in {{}, {6}}}
CapacityTargets ==
  {[Calm EXCEPT !.templateMemory = m, !.templateDisk = d, !.freeMemory = f, !.cpus = c,
                !.pool = "local" :> [usable |-> TRUE, mayAllocate |-> FALSE, free |-> 3, total |-> 6]
                      @@ "fast" :> [usable |-> u, mayAllocate |-> a, free |-> g, total |-> 4]] :
     m \in {0, 2}, d \in {0, 2}, f \in {0, 3, 4}, c \in {0, 1}, u, a \in BOOLEAN, g \in {0, 2, 3}}
NetworkTargets ==
  {[Calm EXCEPT !.zone = z, !.vnets = v, !.subnets = s, !.interfaces = i, !.pending = p, !.available = b] :
     z \in {"ours", "foreign", "absent"}, p, b \in BOOLEAN,
     v \in {{}} \cup {{[vnet |-> "v1", zone |-> o, available |-> a]} : o \in {"ours", "foreign"}, a \in BOOLEAN},
     s \in {{}} \cup {{[vnet |-> n, subnet |-> u, snat |-> TRUE]} : n \in {"v1", "v2"}, u \in {{1}, {1, 2}}},
     i \in {{}} \cup {{[iface |-> n, subnet |-> {2}]} : n \in {"v1", "x"}}}
MCTargets == GuestTargets \cup CapacityTargets \cup NetworkTargets

Vm(i, n, m, d, s) == [id |-> i, template |-> 9, nics |-> n, memory |-> m, disk |-> d, storage |-> s]
Net(v, u) == [vnet |-> v, subnet |-> u, snat |-> TRUE]
MCPlans ==
  {[native |-> FALSE, vms |-> {Vm(5, 1, 0, 0, "inherited")}, vnets |-> n] :
     n \in {{}, {Net("v1", {1, 2})}, {Net("v1", {1}), Net("v2", {2})}, {Net("v1", {1}), Net("v2", {1})}}} \cup
  {[native |-> FALSE, vms |-> {Vm(5, 1, 1, d, s), Vm(6, n, 0, 0, "fast")}, vnets |-> {}] :
     d \in {0, 1, 3}, s \in {"inherited", "fast"}, n \in {1, 2}} \cup
  {[native |-> TRUE, vms |-> {Vm(5, 1, 0, 0, "inherited")}, vnets |-> {}]}

-----------------------------------------------------------------------------
(* Declared replicas: two teams with three users, a box per cohort with a  *)
(* NIC in a shared and one in a replicated network, right or wrong.        *)

Roster == {<<1, 0>>, <<2, 0>>, <<1, 1>>, <<1, 2>>, <<2, 1>>}
Place == <<0, 0>> :> 0 @@ <<1, 0>> :> 1 @@ <<2, 0>> :> 2 @@ <<1, 1>> :> 3 @@ <<1, 2>> :> 4 @@ <<2, 1>> :> 5
Block(c) == {10 * Place[c] + k : k \in 1..7}

Lan(c, fault) == [source |-> "lan", cohort |-> c, vnet |-> <<"lan", c>>, gateway |-> 10 * Place[c] + 7,
  subnet |-> IF fault = "overlap" THEN Block(c) \cup {100} ELSE Block(c)]
Shared == [source |-> "mgmt", cohort |-> <<0, 0>>, vnet |-> <<"mgmt", <<0, 0>>>>, gateway |-> 107, subnet |-> 100..107]

Box(c, lan, fault) == [source |-> "box", cohort |-> c, vm_id |-> IF fault = "id" THEN 5 ELSE 5 + Place[c],
  template |-> IF fault = "template" THEN 5 + Place[c] ELSE 1,
  nics |-> {[index |-> 0, key |-> 1, network |-> <<"mgmt", <<0, 0>>>>, bridge |-> <<"mgmt", <<0, 0>>>>,
             ip |-> IF fault = "ip" THEN 101 ELSE 101 + Place[c]],
            [index |-> 1, key |-> 2, network |-> <<"lan", lan>>,
             bridge |-> <<"lan", IF fault = "bridge" THEN <<0, 0>> ELSE lan>>,
             ip |-> IF fault = "address" THEN 10 * Place[c] + 6 ELSE 10 * Place[lan] + 1 + Place[c]]}]

Declared(n, s, lanOf, fault) ==
  LET cohorts == Cohorts(Roster, n)
      boxes == {Box(c, lanOf[c], fault) : c \in IF fault = "missing" THEN cohorts \ {One(cohorts)} ELSE cohorts} IN
  [roster |-> Roster, nodeScopes |-> [x \in {"box"} |-> n],
   networkScopes |-> [x \in {"lan", "mgmt"} |-> IF x = "lan" THEN s ELSE "shared"],
   instances |-> boxes, networks |-> {Shared} \cup {Lan(c, fault) : c \in Cohorts(Roster, s)},
   inventory |-> {<<b.vm_id, 101 + Place[b.cohort]>> : b \in IF fault = "inventory" THEN {} ELSE boxes}]

Scopes == {"shared", "per_team", "per_user"}
Faults == {"none", "id", "template", "ip", "bridge", "address", "overlap", "missing", "inventory"}
MCDocuments == UNION {{Declared(n, s, lanOf, fault) : lanOf \in [Cohorts(Roster, n) -> Cohorts(Roster, s)]} :
                        n \in Scopes, s \in Scopes, fault \in Faults}

Leaf(id, scope) == [id |-> id, kind |-> "vm", scope |-> scope, vm_id |-> 100, offset |-> 10,
                    notify |-> {"restart"}, handlers |-> {"restart"}, children |-> {}]
Group(scope, children) == [id |-> "group", kind |-> "group", scope |-> scope, vm_id |-> 0, offset |-> 20,
                           notify |-> {}, handlers |-> {}, children |-> children]
Authoring == {"shared", "per_team"}
MCAuthored == {{Leaf("a", s), Group(g, {Leaf("b", t), Leaf("c", u)})} : s, g, t, u \in Authoring}

-----------------------------------------------------------------------------
(* Clusters and runtime operations.                                        *)

Rule(own, mgmt, deny) == [own |-> own, mgmt |-> mgmt, deny |-> deny]
Vnet(exists) == [exists |-> exists, own |-> exists, same |-> exists, attached |-> FALSE, active |-> exists,
                 snat |-> TRUE, live |-> IF exists THEN 1 ELSE 0]
Deployed == [target |-> 1, release |-> 1, pending |-> FALSE, neighbour |-> 1,
  chain |-> <<Rule(TRUE, FALSE, TRUE), Rule(FALSE, TRUE, FALSE), Rule(TRUE, FALSE, FALSE)>>,
  vnet |-> Vnet(FALSE),
  vm |-> [v \in {"v1", "v2"} |-> [status |-> "owned", firewall |-> FALSE, nic |-> "off"]],
  switches |-> [datacenter |-> FALSE, node |-> FALSE]]
MCWorlds == {Deployed, [Deployed EXCEPT !.vnet = Vnet(TRUE), !.vm["v2"].status = "missing"]}

MCRequests ==
  {[kind |-> "rule", action |-> "create", rule |-> Rule(TRUE, m, TRUE)] : m \in BOOLEAN} \cup
  {[kind |-> "rule", action |-> "edit", pos |-> p, rule |-> Rule(TRUE, FALSE, FALSE)] : p \in 1..2} \cup
  {[kind |-> "rule", action |-> "delete", pos |-> 1]} \cup
  {[kind |-> "rule", action |-> "move", pos |-> p, to |-> t] : p \in {1, 3}, t \in 1..3} \cup
  [kind : {"network"}, action : {"create", "delete"}] \cup
  [kind : {"snat", "switches"}, enabled : BOOLEAN] \cup
  [kind : {"guests"}, vms : {{"v1"}, {"v1", "v2"}}, enabled : BOOLEAN]

-----------------------------------------------------------------------------
(* Preflight: one thing of a good request or a service at a time.          *)

Fit == [playbook |-> TRUE, requested |-> <<1, 2>>, reserved |-> {3}, required |-> 8, total |-> 10,
  api |-> "ok", sdn |-> "ok", bridge |-> TRUE, env |-> {[name |-> "k", secret |-> TRUE, required |-> TRUE]},
  provided |-> {"k"}, images |-> <<"ok", "missing">>, git |-> "ok", catalog |-> TRUE,
  nodes |-> {[kind |-> "vm", role |-> TRUE]},
  attachments |-> {[kind |-> k, there |-> TRUE] : k \in {"file_upload", "external_git"}}]
Roleless(k) == [kind |-> k, role |-> FALSE]
MCSituations == {Fit} \cup {x @@ Fit : x \in
  [playbook : {FALSE}] \cup [requested : {<<1, 1>>, <<1, 3>>}] \cup [required : 9..12] \cup [total : {0}] \cup
  [provided : {{}}] \cup [nodes : {{Roleless("vm"), Roleless("switch")}}] \cup
  [catalog : BOOLEAN, attachments : {{[kind |-> k, there |-> FALSE] : k \in {"catalog_role", "unknown"}}}]}
MCOutages == [api : {"denied", "down"}] \cup [git : {"denied", "broken", "missing"}] \cup [sdn : {"broken"}] \cup
             [images : {<<"down">>}] \cup [bridge : {FALSE}]

AllArguments == UNION {Arguments[n] : n \in DOMAIN Arguments} \cup {"registered_source_base_urls"}
MCContexts == {AllArguments} \cup
  {AllArguments \ {a} : a \in {"registered_source_base_urls", "host_overrides", "token_ref"}}
Names == DOMAIN Arguments \cup {"unheard"}
MCNameLists == {<<n, "vmids">> : n \in Names} \cup {<<"connectivity", n, "git">> : n \in Names}

-----------------------------------------------------------------------------
(* Commits that a deployment may be pinned to or configured from.          *)

Good == [exists |-> TRUE, actions |-> {"full", "teardown", "deploy_vms"}, inspected |-> TRUE, agrees |-> TRUE,
  bundles |-> TRUE, files |-> {"main.yml", "configure.yml", "teardown.yml", "hosts.yml", "scenario_vms.json"},
  outside |-> {}, vms |-> 1, networks |-> 1, instances |-> 1, hosts |-> 1]
MCCommits == [pin |-> Good, good |-> Good, hosts |-> [Good EXCEPT !.hosts = 2], gone |-> [Good EXCEPT !.exists = FALSE],
              link |-> [Good EXCEPT !.outside = {"configure.yml"}], bundle |-> [Good EXCEPT !.bundles = FALSE]]

-----------------------------------------------------------------------------
(* Saved native scenarios with every set of scripts.                       *)

SavedTree(scripts, declares) ==
  [files |-> scripts \cup {"main.yml", "ansible-inventory.j2"}, declares |-> declares, bundles |-> "there",
   vmids |-> {1}, literals |-> "y_vm_id" :> {3}]
MCTrees ==
  {SavedTree(s, d) : s \in SUBSET {"s.setup.sh", "t.setup.sh", "s.configure.sh", "t.reset.setup.sh", "t.delete_all.sh"},
                 d \in {<<>>, "full" :> "main.yml", "configure" :> "s.setup.sh", "teardown" :> "t.delete_all.sh",
                        "configure" :> "t.setup.sh"}}
Known(a, c) == [id |-> 1, address |-> a, complete |-> c]
MCRegistries == {{Known(1, TRUE)}, {Known(1, FALSE)}, {Known(1, TRUE), Known(2, TRUE)}}
MCHosts == {[address |-> 1, protected |-> {}], [address |-> 1, protected |-> {3}], [address |-> 2, protected |-> {2}]}
MCParameters == {<<>>, "x_vm_id" :> 2, "y_vm_id" :> 4, "plain" :> 5, "install_x" :> 1, "x_vm_id" :> 0, "plain" :> Templated}

-----------------------------------------------------------------------------
(* Clusters that are read: the guests, what a token sees, the network.     *)

Guest(k, n, f) == [kind |-> k, nic |-> n, firewall |-> f]
MCGuestForms == {Absent, Guest("own", "filtered", TRUE), Guest("own", "none", TRUE), Guest("stray", "filtered", FALSE),
                 Guest("renamed", "open", TRUE)}
Vnet3(m, s, a) == [marked |-> m, same |-> s, active |-> a]
MCVnetForms == {Vnet3(TRUE, TRUE, TRUE), Vnet3(FALSE, TRUE, FALSE), Vnet3(TRUE, FALSE, TRUE)}
Read(ours, other, visible, refs) ==
  [guest |-> [g \in ReadGuests |-> IF g = "ours" THEN ours ELSE other], visible |-> visible, switch |-> TRUE,
   pending |-> FALSE, vnet |-> Vnet3(TRUE, TRUE, TRUE), alone |-> visible = ReadGuests, overlap |-> FALSE, refs |-> refs]
MCClusters == {Read(Guest("own", "filtered", TRUE), Guest("stray", "open", FALSE), ReadGuests, {"other rules"}),
               Read(Absent, Absent, ReadGuests, {}), Read(Guest("own", "none", TRUE), Guest("stray", "open", FALSE), {"ours"}, {"group rules"}),
               Read(Guest("stray", "filtered", FALSE), Guest("stray", "open", FALSE), {"other"}, {})}

-----------------------------------------------------------------------------
(* Texts of up to three pieces, secrets of the set in force among them.    *)

MCCredentials == <<{<<1, 2>>, <<1, 2, 3>>, <<4>>}, {<<5, 6>>}>>
Pieces(i) == MCCredentials[i] \cup {<<8>>, <<9>>}
Emitted(i) == [kind : {"text", "vault", "inline"}, s : Pieces(i)] \cup [kind : {"env"}, s : Pieces(i), secret : BOOLEAN]
Beside(k, v) == [j \in ResultKeys |-> IF j = k THEN v ELSE [kind |-> "text", s |-> <<8>>]]
MCRawEvents == [i \in DOMAIN MCCredentials |->
  [event : {"verbose"}, stdout : {p \o q \o r : p, q, r \in Pieces(i)}, res : {<<>>}] \cup
  [event : {"runner_on_ok"}, stdout : {<<8>>}, res : {Beside(k, v) : k \in ResultKeys, v \in Emitted(i)}] \cup
  [event : {"runner_on_unreachable"}, stdout : MCCredentials[i], res : {<<>>}]]

\* Subscriptions: everything, a part with and a part without an end.
MCRanges == {<<0, 0>>, <<2, 0>>, <<1, 3>>}

\* Who edits a guest or registers is interchangeable.
MCSymmetry == Permutations(Editors) \cup Permutations(Clients)
=============================================================================
