--------------------------- MODULE PinnedScenario ---------------------------
(***************************************************************************)
(* From a request for an attempt to the files its runner is given: which   *)
(* scopes and revisions a deployment accepts, the checkout of a commit in  *)
(* single git commands that fail or are killed, the contract a saved       *)
(* scenario has to meet, and the comparison of a configure revision with   *)
(* the commit the deployment was created from.                             *)
(*                                                                         *)
(* checkout_repository promises a clean root whatever an earlier call left *)
(* in the directory.  Its callers use a new directory each time; here they *)
(* may use one again, which is more than they do.                          *)
(***************************************************************************)
EXTENDS Naturals, FiniteSets

CONSTANTS Commits,   \* commits of the project's repository
          Pinned,    \* the one the deployment was created from
          NoCommit,
          Saved,     \* what a commit holds
          MaxFaults  \* failures, kills and restarts

ASSUME CommitsAssumption == Pinned \in Commits /\ NoCommit \notin Commits

Scenarios == {"concrete", "native", "installed", "_universal"}
JobScopes == {"full", "configure", "teardown", "runtime", "deploy_vms"}
Revisions == Commits \cup {NoCommit}
Dirs == {"checkout", "checkout-baseline"}

VARIABLES
  label,     \* what kind of scenario the deployment runs
  job,       \* the attempt being prepared: its scope, revision, next step
  dir,       \* the two directories
  faults,    \* failures so far
  launched   \* what runners were given (history)
pinnedVars == <<label, job, dir, faults, launched>>

NoDir == [git |-> FALSE, head |-> NoCommit, tree |-> NoCommit, stray |-> FALSE]
NoJob == [step |-> "idle", scope |-> "none", asked |-> NoCommit, at |-> "checkout"]

PinnedInit ==
  /\ label \in Scenarios /\ job = NoJob /\ dir = [d \in Dirs |-> NoDir]
  /\ faults = 0 /\ launched = {}

-----------------------------------------------------------------------------
(* Requests.                                                               *)

Declares(c) == Saved[c].actions

\* validate_concrete_scope; what a native scenario declares was read at its
\* creation from the commit it is pinned to.
ScopeIsValid(scope) ==
  CASE label = "native" -> scope \in Declares(Pinned)
    [] label = "concrete" -> scope \in {"full", "configure", "teardown", "runtime"}
    [] label = "_universal" -> FALSE
    [] label = "installed" -> TRUE

\* validate_project_revision.
RevisionIsValid(scope, asked) ==
  \/ asked = NoCommit
  \/ label = "native" /\ asked = Pinned
  \/ label = "concrete" /\ scope = "configure"

\* An installed scenario has no repository: its playbook is the runner's.
RequestJob(scope, asked) ==
  /\ job = NoJob /\ label # "installed"
  /\ ScopeIsValid(scope) /\ RevisionIsValid(scope, asked)
  /\ job' = [step |-> "enter", scope |-> scope, asked |-> IF scope = "configure" THEN asked ELSE NoCommit,
             at |-> "checkout"]
  /\ UNCHANGED <<label, dir, faults, launched>>

-----------------------------------------------------------------------------
(* checkout_repository.                                                    *)

Revision == IF job.asked = NoCommit THEN Pinned ELSE job.asked
Sought == IF job.at = "checkout" THEN Revision ELSE Pinned
Here == dir[job.at]
JobSteps(from, to) == job.step = from /\ job' = [job EXCEPT !.step = to]
DirBecomes(d) == dir' = [dir EXCEPT ![job.at] = d]

\* A directory with .git is used again, anything else is removed.
Enter ==
  /\ IF Here.git
     THEN JobSteps("enter", IF Here.head = Sought THEN "reset" ELSE "fetch") /\ UNCHANGED dir
     ELSE JobSteps("enter", "init") /\ DirBecomes(NoDir)
  /\ UNCHANGED <<label, faults, launched>>

GitInit ==
  /\ JobSteps("init", "clone") /\ DirBecomes([NoDir EXCEPT !.git = TRUE])
  /\ UNCHANGED <<label, faults, launched>>

\* The fetch names the commit; what is not there any more is not found.
Fetch ==
  /\ Saved[Sought].exists
  /\ JobSteps("fetch", "reset") \/ JobSteps("clone", "place")
  /\ UNCHANGED <<label, dir, faults, launched>>

GitCheckout ==
  /\ JobSteps("place", "verify")
  /\ DirBecomes([Here EXCEPT !.head = Sought, !.tree = Sought])
  /\ UNCHANGED <<label, faults, launched>>

GitReset ==
  /\ JobSteps("reset", "clean")
  /\ DirBecomes([Here EXCEPT !.head = Sought, !.tree = Sought])
  /\ UNCHANGED <<label, faults, launched>>

\* Fault: clean without -x keeps what the repository ignores.
CleanTracked ==
  /\ JobSteps("clean", "verify")
  /\ UNCHANGED <<label, dir, faults, launched>>

GitClean ==
  /\ JobSteps("clean", "verify")
  /\ DirBecomes([Here EXCEPT !.stray = FALSE])
  /\ UNCHANGED <<label, faults, launched>>

-----------------------------------------------------------------------------
(* The contract, and the comparison.                                       *)

Entrypoint == [full |-> "main.yml", configure |-> "configure.yml", teardown |-> "teardown.yml", runtime |-> "main.yml"]

\* resolve_project_scenario: files that are there and stay in the project,
\* and manifests that agree (the details are in ScenarioTopology).
Resolves(c, scope) ==
  /\ {Entrypoint[scope], "hosts.yml", "scenario_vms.json"} \subseteq Saved[c].files \ Saved[c].outside
  /\ Saved[c].agrees

\* Attached bundles are what the commit recorded of them.
BundlesAreValid(c, scope) == scope \in {"full", "configure"} => Saved[c].bundles

\* _configuration_targets.
TargetsOf(c) == <<Saved[c].vms, Saved[c].networks, Saved[c].instances, Saved[c].hosts>>

\* Fault: only the manifests are compared.
SameManifests(c) == Saved[c].vms = Saved[Pinned].vms /\ Saved[c].networks = Saved[Pinned].networks

SameTargets(c) == TargetsOf(c) = TargetsOf(Pinned)

CommitIsFit(c) ==
  IF label = "native" THEN Saved[c].inspected /\ job.scope \in Declares(c)
  ELSE Resolves(c, job.scope) /\ BundlesAreValid(c, job.scope)

NeedsBaseline == label = "concrete" /\ Revision # Pinned
LaunchedNow == [scope |-> job.scope, commit |-> dir["checkout"].tree, stray |-> dir["checkout"].stray,
                at |-> dir["checkout"].head]

\* The commit of the checkout is read back before anything is done with it.
Examine ==
  /\ job.step = "verify" /\ job.at = "checkout" /\ Here.head = Sought /\ CommitIsFit(Sought)
  /\ job' = IF NeedsBaseline THEN [job EXCEPT !.step = "enter", !.at = "checkout-baseline"]
            ELSE [job EXCEPT !.step = "run"]
  /\ UNCHANGED <<label, dir, faults, launched>>

Compare ==
  /\ job.step = "verify" /\ job.at = "checkout-baseline" /\ Here.head = Sought
  /\ Resolves(Pinned, "full") /\ SameTargets(Revision)
  /\ job' = [job EXCEPT !.step = "run"]
  /\ UNCHANGED <<label, dir, faults, launched>>

\* The runner is given the tree; its playbooks write into it.
Launch ==
  /\ job.step = "run" /\ job' = NoJob
  /\ launched' = launched \cup {LaunchedNow}
  /\ dir' = [dir EXCEPT !["checkout"] = [@ EXCEPT !.tree = NoCommit, !.stray = TRUE]]
  /\ UNCHANGED <<label, faults>>

\* A command fails or its process is killed, a check refuses, the API ends.
BrokenOff == job.step \in {"reset", "place"} /\ DirBecomes([Here EXCEPT !.tree = NoCommit, !.stray = TRUE])
JobFails ==
  /\ job # NoJob /\ faults < MaxFaults /\ faults' = faults + 1
  /\ job' = NoJob
  /\ BrokenOff \/ UNCHANGED dir
  /\ UNCHANGED <<label, launched>>

PinnedNext ==
  \/ \E scope \in JobScopes, asked \in Revisions : RequestJob(scope, asked)
  \/ Enter \/ GitInit \/ Fetch \/ GitCheckout \/ GitReset \/ GitClean
  \/ Examine \/ Compare \/ Launch \/ JobFails

PinnedSpec == PinnedInit /\ [][PinnedNext]_pinnedVars

-----------------------------------------------------------------------------
\* However often checkouts broke off before, a runner is given exactly the
\* files of one commit: the pinned one, or a revision for configure.  All
\* runs of a deployment, over all revisions, are about the same guests,
\* networks, instances and inventory, and start at a file of the project.
RunsArePinned == \A r \in launched :
  /\ r.commit = r.at /\ r.commit \in Commits /\ ~r.stray
  /\ label \in {"concrete", "native"}
  /\ r.commit # Pinned => label = "concrete" /\ r.scope = "configure"
  /\ label = "concrete" =>
       /\ Entrypoint[r.scope] \in Saved[r.commit].files \ Saved[r.commit].outside
       /\ \A q \in launched : TargetsOf(q.commit) = TargetsOf(r.commit)
  /\ label = "native" => r.scope \in Declares(r.commit)
=============================================================================
