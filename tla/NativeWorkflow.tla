--------------------------- MODULE NativeWorkflow ---------------------------
(***************************************************************************)
(* Scenarios that a team wrote by hand, run by the installed               *)
(* range42-context in an existing context of the deployer.  Discovery      *)
(* finds the entrypoint of every action in the saved tree; a run gets a    *)
(* copy of the tree in which every action answers to the name the context  *)
(* command looks for.  The context is found in the operator's registry at  *)
(* every preparation: it and the target may have been changed since the    *)
(* deployment was created.                                                 *)
(***************************************************************************)
EXTENDS PinnedScenario

CONSTANTS
  Trees,      \* bound: saved scenarios, their files and declarations
  Registries, \* bound: contexts the operator registers
  Hosts,      \* bound: what the target's row says
  Parameters, \* bound: parameters of a deployment
  MaxEdits    \* bound: changes of the registry and the target

\* "none" is no file.
ASSUME TreesAssumption == \A tree \in Trees : "none" \notin tree.files

VARIABLES
  site,   \* the registry, the target, changes so far
  native, \* the deployment's scenario and parameters, what was run last
  view    \* the files of the last run's copy
nativeVars == <<site, native, view>>

-----------------------------------------------------------------------------
(* Discovery.  The scenario is called "s"; "t" is any other stem.          *)

NativeActions == {"full", "configure", "teardown", "reset"}
OwnName == [full |-> "s.setup.sh", configure |-> "s.configure.sh",
            teardown |-> "s.delete_all.sh", reset |-> "s.reset.setup.sh"]
OtherName == [full |-> "t.setup.sh", configure |-> "t.configure.sh",
              teardown |-> "t.delete_all.sh", reset |-> "t.reset.setup.sh"]
Fallback == [full |-> "main.yml", configure |-> "configure.yml", teardown |-> "teardown.yml", reset |-> "none"]

\* A reset script also ends in .setup.sh, but sets nothing up.
Scripts(tree, a) == {OwnName[a], OtherName[a]} \cap tree.files

Candidates(tree, a) ==
  IF OwnName[a] \in tree.files THEN {OwnName[a]}
  ELSE IF Scripts(tree, a) # {} THEN Scripts(tree, a)
  ELSE {Fallback[a]} \cap tree.files

\* scenario_runtime.json names files of the scenario, shell or Ansible.
Entries(tree, a) == IF a \in DOMAIN tree.declares THEN {tree.declares[a]} ELSE Candidates(tree, a)

Inspected(tree) ==
  /\ {"main.yml", "ansible-inventory.j2"} \subseteq tree.files
  /\ \A a \in DOMAIN tree.declares : tree.declares[a] \in tree.files \ {"ansible-inventory.j2"}
  /\ \A a \in NativeActions : Cardinality(Entries(tree, a)) <= 1
  /\ tree.bundles \in {"none", "there"}

\* The descriptor: the entrypoint of every action there is.
Actions(tree) == [a \in {b \in NativeActions : Entries(tree, b) # {}} |-> CHOOSE f \in Entries(tree, a) : TRUE]

-----------------------------------------------------------------------------
(* Parameters and identifiers.                                             *)

\* native_variables: names that Ansible, the context or a secret use, and
\* templates, are refused.
Templated == 99
ParametersAreValid(p) == \A n \in DOMAIN p : n \notin {"ansible_x", "install_x", "password"} /\ p[n] # Templated

\* native_vmids: what the manifest declares, literal targets in the playbooks
\* unless a parameter sets them, and every parameter that is called one.
Targeted(tree, p) ==
  {p[n] : n \in DOMAIN p \cap {"x_vm_id", "y_vm_id"}}
  \cup UNION {tree.literals[n] : n \in DOMAIN tree.literals \ DOMAIN p}
NativeVmids(tree, p) == tree.vmids \cup Targeted(tree, p)
VmidsAreNumbers(tree, p) == \A n \in DOMAIN p \cap {"x_vm_id", "y_vm_id"} : p[n] # 0

-----------------------------------------------------------------------------
(* Contexts.                                                               *)

\* One invalid entry, or one identity twice, makes all of it invalid.
RegistryIsValid(r) == \A c, d \in r : c # d => c.id # d.id

\* resolve_context.
Resolvable(id) ==
  /\ RegistryIsValid(site.registry)
  /\ \E c \in site.registry : c.id = id /\ c.address = site.host.address /\ c.complete

\* available_contexts, for those who choose one.
Matching(address) == {h \in site.hosts : h = address}
Offered(c) == c.complete /\ Cardinality(Matching(c.address)) = 1

-----------------------------------------------------------------------------
(* The copy of a run: a file holds its saved content, or runs another one. *)

Alias(f) == [runs |-> f, saved |-> "none"]
Own(f) == [runs |-> "none", saved |-> f]

\* Actions whose entrypoint has not the name the context command looks for.
Renamed(acts) == {a \in DOMAIN acts : acts[a] # OwnName[a]}
Conflicts(tree, acts) == \E a \in Renamed(acts) : OwnName[a] \in tree.files

Aliased(tree, acts) ==
  [f \in tree.files \cup {OwnName[a] : a \in Renamed(acts)} |->
     IF f \in tree.files THEN Own(f) ELSE Alias(acts[CHOOSE a \in Renamed(acts) : OwnName[a] = f])]

\* There is no context command for configure: deploy is made to run it.
Shim(files) == [f \in DOMAIN files \cup {"s.setup.sh"} |->
                  IF f = "s.setup.sh" THEN Alias("s.configure.sh") ELSE files[f]]

\* Fault: the shim is written before the aliases are, and deploy's alias wins.
ViewWithoutShim(tree, acts, scope) == Aliased(tree, acts)

ViewOf(tree, acts, scope) == IF scope = "configure" THEN Shim(Aliased(tree, acts)) ELSE Aliased(tree, acts)

\* The command of range42-context, and the file it looks for.
Dispatched == [full |-> "s.setup.sh", configure |-> "s.setup.sh",
               teardown |-> "s.delete_all.sh", reset |-> "s.reset.setup.sh"]

\* What a file comes to when it is run: three names at most lie between.
NextFile(files, f) == IF files[f].runs = "none" THEN f ELSE files[f].runs
ContentOf(files, f) == LET end == NextFile(files, NextFile(files, NextFile(files, f))) IN files[end].saved

-----------------------------------------------------------------------------
NoNative == [step |-> "none", scope |-> "none"]

NativeInit ==
  /\ native = NoNative /\ view = <<>>
  /\ \E r \in Registries, h \in Hosts : site = [registry |-> r, host |-> h, hosts |-> {h.address}, edits |-> 0]

Preparable(tree, p) == Inspected(tree) /\ ParametersAreValid(p) /\ VmidsAreNumbers(tree, p) /\ Resolvable(1)

CreateNative(tree, p) ==
  /\ native = NoNative /\ Preparable(tree, p) /\ "full" \in DOMAIN Actions(tree)
  /\ \E c \in site.registry : c.id = 1 /\ Offered(c)
  /\ native' = [step |-> "created", scope |-> "none", tree |-> tree, parameters |-> p,
                vmids |-> {}, address |-> site.host.address, protected |-> {}]
  /\ UNCHANGED <<site, view>>

\* start_attempt: everything again, and the target's protected identifiers.
PrepareNative(scope) ==
  /\ native.step = "created" /\ Preparable(native.tree, native.parameters)
  /\ LET acts == Actions(native.tree)
         vmids == NativeVmids(native.tree, native.parameters) IN
       /\ scope \in DOMAIN acts /\ vmids \cap site.host.protected = {} /\ ~Conflicts(native.tree, acts)
       /\ view' = ViewOf(native.tree, acts, scope)
       /\ native' = [native EXCEPT !.step = "runs", !.scope = scope, !.vmids = vmids,
                       !.address = (CHOOSE c \in site.registry : c.id = 1).address,
                       !.protected = site.host.protected]
  /\ UNCHANGED site

NativeEnds ==
  /\ native.step = "runs"
  /\ native' = [native EXCEPT !.step = "created", !.scope = "none"] /\ view' = <<>>
  /\ UNCHANGED site

SiteEdited ==
  /\ native # NoNative /\ site.edits < MaxEdits
  /\ \/ \E r \in Registries : r # site.registry /\ site' = [site EXCEPT !.registry = r, !.edits = @ + 1]
     \/ \E h \in Hosts : h # site.host /\ site' = [site EXCEPT !.host = h, !.hosts = @ \cup {h.address}, !.edits = @ + 1]
  /\ UNCHANGED <<native, view>>

NativeNext ==
  \/ \E tree \in Trees, p \in Parameters : CreateNative(tree, p)
  \/ \E scope \in NativeActions : PrepareNative(scope)
  \/ NativeEnds \/ SiteEdited

NativeSpec == NativeInit /\ [][NativeNext]_nativeVars

-----------------------------------------------------------------------------
\* A configure entrypoint that is the setup script is replaced by the shim
\* that leads to it: bash would run the two scripts in turn for ever.
ShimLoops(tree) == "configure" \in DOMAIN Actions(tree) /\ Actions(tree)["configure"] = "s.setup.sh"

\* The file that range42-context finds under the name of the command runs the
\* entrypoint of the requested action; so do the names of the other actions,
\* which entrypoints run themselves (a reset its setup); no saved file but the setup script of a
\* configure run has another content; and no identifier that is declared, set
\* or literally targeted is protected on the target the context addresses.
NativeRunsItsAction ==
  native.step = "runs" =>
    LET acts == Actions(native.tree) IN
    /\ ~(native.scope = "configure" /\ ShimLoops(native.tree)) =>
         ContentOf(view, Dispatched[native.scope]) = acts[native.scope]
    /\ \A a \in DOMAIN acts : native.scope # "configure" =>
         ContentOf(view, OwnName[a]) = acts[a]
    /\ \A f \in native.tree.files : ~(native.scope = "configure" /\ f = "s.setup.sh") => view[f].saved = f
    /\ native.tree.vmids \subseteq native.vmids
    /\ \A n \in DOMAIN native.parameters : n \in {"x_vm_id", "y_vm_id"} => native.parameters[n] \in native.vmids
    /\ \A n \in DOMAIN native.tree.literals : n \in DOMAIN native.parameters \/ native.tree.literals[n] \subseteq native.vmids
    /\ native.vmids \cap native.protected = {}

\* Both: a run has the files of its commit, and runs the action it was for.
RunsAreSaved == RunsArePinned /\ NativeRunsItsAction
=============================================================================
