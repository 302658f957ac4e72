------------------------------ MODULE Registry ------------------------------
(***************************************************************************)
(* Registrations that clients repeat and race: one project and the binding *)
(* to its repository, the deployments made from it, one Proxmox host name  *)
(* and the public default Git sources.  Every request reads first, in an   *)
(* autocommitted SELECT, and writes later, in one transaction; the schema  *)
(* keeps the keys unique and a referenced row in place.                    *)
(***************************************************************************)
EXTENDS Naturals, FiniteSets

CONSTANTS
  Clients,    \* API requests
  Bindings,   \* repositories a project can be bound to
  Pins,       \* bound: values of the fields outside of the binding
  Kinds,      \* default libraries: the catalog and the bundles
  MaxHost     \* bound: host rows

ASSUME BindingsAssumption == "none" \notin Bindings
ASSUME KindsAssumption == "user" \notin Kinds

VARIABLES
  project,    \* the row of the project
  host,       \* the row of the host name
  hosts,      \* host rows made
  deployments,\* deployments of the project
  sources,    \* public sources without a token
  client      \* requests

registryVars == <<project, host, hosts, deployments, sources, client>>

NoProject == [binding |-> "none", pin |-> "none"]
NoSource == <<"none", 0>>
Free == [op |-> "none", step |-> "free", values |-> NoProject, host |-> 0, kind |-> "none",
         plan |-> NoSource, again |-> FALSE]

RegistryInit ==
  /\ project = NoProject /\ host = 0 /\ hosts = 0 /\ deployments = {}
  /\ sources \in {{}, {[id |-> <<"user", 0>>, repos |-> {}]}}
  /\ client = [c \in Clients |-> Free]

Ends(c) == client' = [client EXCEPT ![c] = Free]
Goes(c, step) == client' = [client EXCEPT ![c].step = step]

-----------------------------------------------------------------------------
(* Projects (projects/crud).                                               *)

Put(c) ==
  /\ client[c] = Free
  /\ \E b \in Bindings, p \in Pins :
       client' = [client EXCEPT ![c] = [Free EXCEPT !.op = "put",
                    !.step = IF project = NoProject THEN "insert" ELSE "update",
                    !.values = [binding |-> b, pin |-> p]]]
  /\ UNCHANGED <<project, host, hosts, deployments, sources>>

\* The fields a patch leaves out are those of the row it has read.
Patch(c) ==
  /\ client[c] = Free /\ project # NoProject
  /\ \E b \in Bindings \cup {project.binding}, p \in Pins \cup {project.pin} :
       client' = [client EXCEPT ![c] = [Free EXCEPT !.op = "patch", !.step = "update",
                    !.values = [binding |-> b, pin |-> p]]]
  /\ UNCHANGED <<project, host, hosts, deployments, sources>>

\* A concurrent registration of the identity turns an insert into an update.
InsertProject(c) ==
  /\ client[c].step = "insert"
  /\ IF project = NoProject
     THEN project' = client[c].values /\ Ends(c)
     ELSE Goes(c, "update") /\ UNCHANGED project
  /\ UNCHANGED <<host, hosts, deployments, sources>>

\* Fault: the UPDATE has no condition; the request looked before.
MayAlwaysRebind(values) == TRUE

\* The condition is part of the UPDATE.
MayRebind(values) == deployments = {} \/ values.binding = project.binding

UpdateProject(c) ==
  /\ client[c].step = "update"
  /\ project' = IF MayRebind(client[c].values) THEN client[c].values ELSE project
  /\ Ends(c)
  /\ UNCHANGED <<host, hosts, deployments, sources>>

-----------------------------------------------------------------------------
(* Deployments of the project (create_deployment).                         *)

CheckDeployment(c) ==
  /\ client[c] = Free /\ project # NoProject /\ host # 0
  /\ client' = [client EXCEPT ![c] = [Free EXCEPT !.op = "create", !.step = "create", !.host = host]]
  /\ UNCHANGED <<project, host, hosts, deployments, sources>>

\* The foreign keys refuse a reference that was deleted meanwhile.
CommitDeployment(c) ==
  /\ client[c].step = "create"
  /\ deployments' = IF host = client[c].host
                    THEN deployments \cup {[binding |-> project.binding, host |-> host]} ELSE deployments
  /\ Ends(c)
  /\ UNCHANGED <<project, host, hosts, sources>>

-----------------------------------------------------------------------------
(* Hosts (proxmox/hosts).                                                  *)

FindHost(c) ==
  /\ client[c] = Free
  /\ client' = [client EXCEPT ![c] = [Free EXCEPT !.op = "host", !.host = host,
                  !.step = IF host = 0 THEN "register" ELSE "refresh"]]
  /\ UNCHANGED <<project, host, hosts, deployments, sources>>

\* The insert that loses the race looks the winner up and refreshes it.
RegisterHost(c) ==
  /\ client[c].step = "register"
  /\ IF host = 0
     THEN hosts < MaxHost /\ host' = hosts + 1 /\ hosts' = hosts + 1 /\ Ends(c)
     ELSE client' = [client EXCEPT ![c].step = "refresh", ![c].host = host] /\ UNCHANGED <<host, hosts>>
  /\ UNCHANGED <<project, deployments, sources>>

\* A refresh keeps the row; of a row deleted meanwhile nothing is left to
\* update, and the request fails.
RefreshHost(c) ==
  /\ client[c].step = "refresh"
  /\ Ends(c)
  /\ UNCHANGED <<project, host, hosts, deployments, sources>>

FindForDelete(c) ==
  /\ client[c] = Free /\ host # 0
  /\ client' = [client EXCEPT ![c] = [Free EXCEPT !.op = "host", !.step = "delete", !.host = host]]
  /\ UNCHANGED <<project, host, hosts, deployments, sources>>

DeleteHost(c) ==
  /\ client[c].step = "delete"
  /\ host' = IF host = client[c].host /\ \A d \in deployments : d.host # host THEN 0 ELSE host
  /\ Ends(c)
  /\ UNCHANGED <<project, hosts, deployments, sources>>

-----------------------------------------------------------------------------
(* Default sources (register_default_source).                              *)

Usable(kind) == {s \in sources : s.repos = {kind}}

\* A source that is only there without a repository is used again, else the
\* first free name of the kind.
Choice(kind) ==
  IF \E s \in sources : s.repos = {} THEN (CHOOSE s \in sources : s.repos = {}).id
  ELSE <<kind, CHOOSE n \in 0..Cardinality(sources) :
                 /\ \A s \in sources : s.id # <<kind, n>>
                 /\ \A m \in 0..n - 1 : \E s \in sources : s.id = <<kind, m>>>>

ReadSources(c, kind, again) ==
  client' = [client EXCEPT ![c] = IF Usable(kind) # {} THEN Free
    ELSE [Free EXCEPT !.op = "source", !.step = "source", !.kind = kind, !.plan = Choice(kind), !.again = again]]

RegisterDefault(c, kind) ==
  /\ client[c] = Free
  /\ ReadSources(c, kind, FALSE)
  /\ UNCHANGED <<project, host, hosts, deployments, sources>>

\* The key of the source, or that of its repository, makes one client win.
IsTaken(plan, kind) ==
  LET rows == {s \in sources : s.id = plan} IN
  IF plan[1] = "user" THEN \E s \in rows : kind \in s.repos ELSE rows # {}

CommitSource(c) ==
  LET kind == client[c].kind  plan == client[c].plan  old == {s \in sources : s.id = plan} IN
  /\ client[c].step = "source"
  /\ IF ~IsTaken(plan, kind)
     THEN /\ sources' = (sources \ old) \cup {[id |-> plan, repos |-> {kind} \cup UNION {s.repos : s \in old}]}
          /\ Ends(c)
     ELSE /\ IF client[c].again THEN Ends(c) ELSE ReadSources(c, kind, TRUE)
          /\ UNCHANGED sources
  /\ UNCHANGED <<project, host, hosts, deployments>>

RegistryNext == \E c \in Clients :
  \/ Put(c) \/ Patch(c) \/ InsertProject(c) \/ UpdateProject(c)
  \/ CheckDeployment(c) \/ CommitDeployment(c)
  \/ FindHost(c) \/ RegisterHost(c) \/ RefreshHost(c) \/ FindForDelete(c) \/ DeleteHost(c)
  \/ CommitSource(c) \/ \E k \in Kinds : RegisterDefault(c, k)

RegistrySpec == RegistryInit /\ [][RegistryNext]_registryVars

-----------------------------------------------------------------------------
(* Properties.                                                             *)

\* A deployment keeps resolving the repository and the host it was made
\* with, and clients that register a default library at the same time end
\* with one usable source of it.
BindingsHold ==
  /\ \A d \in deployments : d.binding = project.binding /\ d.host = host
  /\ \A k \in Kinds : Cardinality(Usable(k)) <= 1
=============================================================================
