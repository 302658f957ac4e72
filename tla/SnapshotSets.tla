---------------------------- MODULE SnapshotSets ----------------------------
(***************************************************************************)
(* Reviewed native snapshot sets of one deployment: an operation (create,  *)
(* rollback, delete) is planned against what was observed, executed member *)
(* by member under the provisioning lock, and closed by reconciliation,    *)
(* which only reads.  Proxmox runs the accepted tasks on its own; the API  *)
(* may lose an answer or end between any two commits.                      *)
(*                                                                         *)
(* A guest's configuration is a version number; "parent" is the part of    *)
(* the observed configuration that taking a snapshot itself changes.       *)
(* Other attempts of the deployment and other deployments compete for the  *)
(* workspace lock and for the provisioning lock.  A plan expires after     *)
(* five minutes; that only makes executing it impossible, and no step of   *)
(* the model forces a plan to be executed.                                 *)
(***************************************************************************)
EXTENDS Naturals, FiniteSets

CONSTANTS
  Guests,      \* QEMU guests
  Manifests,   \* the sets of guests that the scenario of a deployment may have
  SetIds,      \* 1..n, in the order of creation
  OpIds,       \* 1..n, identifiers of operations, each used once
  None,        \* a free lock, no guest
  Deploy,      \* an attempt of another scope
  DefaultKeep, \* keep_count while no policy is saved
  KeepCounts,  \* keep_count of the policies an operator may save
  MaxMembers,  \* bound: members of all sets together
  MaxRows,     \* bound: members of all operations together
  MaxEdits,    \* bound: changes from outside (guests, targets, policies)
  MaxCrashes   \* bound: ends of the API process

ASSUME SetIdsAssumption == SetIds \subseteq Nat \ {0} /\ IsFiniteSet(SetIds)
ASSUME OpIdsAssumption == OpIds \subseteq Nat \ {0}
ASSUME NoneAssumption == None \notin OpIds \cup Guests /\ Deploy \notin OpIds \cup {None}
ASSUME KeepCountsAssumption == KeepCounts \subseteq Nat /\ DefaultKeep \in KeepCounts
ASSUME ManifestsAssumption == Manifests \subseteq SUBSET Guests
ASSUME MaxEditsAssumption == MaxEdits \in Nat

VARIABLES
  manifest,   \* the guests of the deployment's pinned scenario
  setState,   \* SnapshotSet.state
  reviewed,   \* SnapshotSet.members and target_digest, as first reviewed
  proof,      \* the snapshot recorded in SnapshotSet.members
  opState,    \* SnapshotOperation.state
  plan,       \* SnapshotOperation.plan, never changed after the insertion
  row,        \* SnapshotOperation.members: the state of every member
  owner,      \* WorkspaceLock.owner: an operation's attempt, Deploy or None
  provision,  \* who holds the provisioning flock: "execute", "runner", "free"
  execution,  \* the coroutine of execute() after its first commit
  draft,      \* plan_create between its observation and its insertion
  guest,      \* Proxmox: configuration, identity and parent of a guest
  native,     \* Proxmox: the snapshot of a set on a guest
  task,       \* Proxmox: the task that the native write of a member started
  sent,       \* native writes that left the API, per operation and member
  target,     \* version of the registered target
  policy,     \* retention.json
  tampered,   \* guests whose snapshots somebody else removed
  edits, crashes

sets == <<setState, reviewed, proof>>
operations == <<opState, plan, row>>
process == <<owner, provision, execution, draft>>
proxmox == <<guest, native, task, sent, tampered>>
outside == <<manifest, target, policy, edits, crashes>>
snapshotVars == <<sets, operations, process, proxmox, outside>>

Kinds == {"create", "rollback", "delete"}
Ongoing == {"running", "needs_review"}
Closed == {"succeeded", "failed", "not_started"}
Taking == [create |-> "creating", rollback |-> "rolling_back", delete |-> "deleting"]
Versions == 0..MaxEdits
GuestStates == [config : Versions, uuid : {1, 2}, parent : SetIds \cup {0}]
NoSnapshot == MaxEdits + 1
NoPolicy == MaxEdits + 2
Snapshots == Versions \cup {NoSnapshot}
Idle == [op |-> 0, guest |-> None, step |-> "idle"]
Blank == [g \in Guests |-> [config |-> 0, uuid |-> 1, parent |-> 0]]
Nothing == [g \in Guests |-> NoSnapshot]
NoPlan == [set |-> 0, kind |-> "none", seen |-> Blank, snapshots |-> Nothing,
           policy |-> NoPolicy]
NoDraft == [seen |-> Blank, target |-> 0]

SnapshotTypeOK ==
  /\ manifest \in Manifests
  /\ setState \in [SetIds -> {"absent", "planned", "complete", "partial", "failed", "deleted",
                              "needs_review", "creating", "rolling_back", "deleting"}]
  /\ reviewed \in [SetIds -> [seen : [Guests -> GuestStates], target : Nat]]
  /\ proof \in [SetIds -> [Guests -> Snapshots]]
  /\ opState \in [OpIds -> {"absent", "planned", "cancelled", "superseded", "succeeded",
                            "partial", "failed"} \cup Ongoing]
  /\ plan \in [OpIds -> [set : SetIds \cup {0}, kind : Kinds \cup {"none"},
                         seen : [Guests -> GuestStates], snapshots : [Guests -> Snapshots],
                         policy : KeepCounts \cup {NoPolicy}]]
  /\ row \in [OpIds -> [Guests -> {"none", "planned", "dispatching", "accepted",
                                   "unconfirmed"} \cup Closed]]
  /\ owner \in OpIds \cup {None, Deploy}
  /\ provision \in {"free", "execute", "runner"}
  /\ execution \in [op : OpIds \cup {0}, guest : Guests \cup {None},
                    step : {"idle", "guard", "write", "answered", "lost"}]
  /\ draft \in [seen : [Guests -> GuestStates], target : Nat]
  /\ guest \in [Guests -> GuestStates]
  /\ native \in [Guests -> [SetIds -> Snapshots]]
  /\ task \in [OpIds -> [Guests -> {"none", "running", "ok", "failed"}]]
  /\ sent \in [OpIds -> [Guests -> Nat]]
  /\ target \in Nat /\ policy \in KeepCounts /\ edits \in Nat /\ crashes \in Nat
  /\ tampered \subseteq Guests

SnapshotInit ==
  /\ manifest \in Manifests
  /\ setState = [s \in SetIds |-> "absent"]
  /\ reviewed = [s \in SetIds |-> NoDraft]
  /\ proof = [s \in SetIds |-> Nothing]
  /\ opState = [o \in OpIds |-> "absent"]
  /\ plan = [o \in OpIds |-> NoPlan]
  /\ row = [o \in OpIds |-> [g \in Guests |-> "none"]]
  /\ owner = None
  /\ provision = "free"
  /\ execution = Idle
  /\ draft = NoDraft
  /\ guest = Blank
  /\ native = [g \in Guests |-> [s \in SetIds |-> NoSnapshot]]
  /\ task = [o \in OpIds |-> [g \in Guests |-> "none"]]
  /\ sent = [o \in OpIds |-> [g \in Guests |-> 0]]
  /\ target = 1
  /\ policy = DefaultKeep
  /\ tampered = {}
  /\ edits = 0
  /\ crashes = 0

-----------------------------------------------------------------------------
(* Reads.                                                                  *)

\* A guest with a running task carries a lock and cannot be observed.
Steady(g) == \A o \in OpIds : task[o][g] # "running"

\* _guard_members: nothing that was reviewed has changed.
AsReviewed(o, members) == \A g \in members :
  /\ Steady(g)
  /\ guest[g] = plan[o].seen[g]
  /\ native[g][plan[o].set] = plan[o].snapshots[g]

Members(o) == {g \in Guests : row[o][g] # "none"}
Rows == Cardinality({w \in OpIds \X Guests : row[w[1]][w[2]] # "none"})
Bound(s) == reviewed[s].target = target

\* Fault: a set counts itself among the newer ones.
CandidatesCountItself(keep) == {s \in SetIds :
  /\ setState[s] = "complete"
  /\ Cardinality({n \in SetIds : n >= s /\ setState[n] = "complete"}) >= keep}

\* Complete sets beyond the policy's count, newest first (keep_days is 0).
RetentionCandidates(keep) == {s \in SetIds :
  /\ setState[s] = "complete"
  /\ Cardinality({n \in SetIds : n > s /\ setState[n] = "complete"}) >= keep}

RetentionHolds(s, keep) ==
  keep # NoPolicy => policy = keep /\ s \in RetentionCandidates(keep)

-----------------------------------------------------------------------------
(* Plans.                                                                  *)

Least(ids, state) == {i \in ids : state[i] = "absent" /\ \A n \in ids : n < i => state[n] # "absent"}

\* plan_create checks out the scenario and observes its guests without a
\* transaction ...
ObserveMembers ==
  /\ draft = NoDraft
  /\ \E s \in Least(SetIds, setState) : s * Cardinality(manifest) <= MaxMembers
  /\ Least(OpIds, opState) # {}
  /\ \A g \in manifest : Steady(g)
  /\ draft' = [seen |-> guest, target |-> target]
  /\ UNCHANGED <<sets, operations, owner, provision, execution, proxmox, outside>>

Insert(o, members, s, kind, seen, snapshots, keep) ==
  /\ Rows + Cardinality(members) <= MaxRows
  /\ opState' = [opState EXCEPT ![o] = "planned"]
  /\ plan' = [plan EXCEPT ![o] = [set |-> s, kind |-> kind, seen |-> seen,
                                  snapshots |-> snapshots, policy |-> keep]]
  /\ row' = [row EXCEPT ![o] = [g \in Guests |-> IF g \in members THEN "planned" ELSE "none"]]

\* ... and inserts the set under the writer lock if the target is the same.
PlanCreate ==
  /\ draft.target = target
  /\ draft' = NoDraft
  /\ \E s \in Least(SetIds, setState), o \in Least(OpIds, opState) :
       /\ setState' = [setState EXCEPT ![s] = "planned"]
       /\ reviewed' = [reviewed EXCEPT ![s] = draft]
       /\ Insert(o, manifest, s, "create", draft.seen, Nothing, NoPolicy)
  /\ UNCHANGED <<proof, owner, provision, execution, proxmox, outside>>

\* The draft is lost when the target changed meanwhile.
PlanRefused ==
  /\ draft # NoDraft /\ draft.target # target
  /\ draft' = NoDraft
  /\ UNCHANGED <<sets, operations, owner, provision, execution, proxmox, outside>>

Reviewable(kind) == IF kind = "rollback" THEN {"complete"} ELSE {"complete", "partial", "failed"}

\* The writer lock is held across the reads of plan_existing.
PlanExisting(s, kind, keep) ==
  /\ setState[s] \in Reviewable(kind)
  /\ Bound(s)
  /\ RetentionHolds(s, keep)
  /\ \A g \in manifest : Steady(g) /\ guest[g].uuid = reviewed[s].seen[g].uuid
  /\ kind = "rollback" => \A g \in manifest :
       native[g][s] # NoSnapshot /\ native[g][s] = proof[s][g]
  /\ LET owned == {g \in manifest : native[g][s] # NoSnapshot} IN
     /\ owned # {}
     /\ \E o \in Least(OpIds, opState) :
          Insert(o, owned, s, kind, guest, [g \in Guests |-> native[g][s]], keep)
  /\ UNCHANGED <<sets, process, proxmox, outside>>

\* A deletion that the saved policy asks for.
PlanRetention(s) == PlanExisting(s, "delete", policy)

\* Only a plan that was never attempted can be withdrawn.
CancelPlan(o) ==
  /\ opState[o] = "planned"
  /\ opState' = [opState EXCEPT ![o] = "cancelled"]
  /\ UNCHANGED <<sets, plan, row, process, proxmox, outside>>

-----------------------------------------------------------------------------
(* Execution.                                                              *)

\* Fault: an operation that needs review is taken for a dead attempt.
AcquirableFromReview == owner = None \/ (owner \in OpIds /\ opState[owner] # "running")

\* acquire_lock: an attempt whose operation is ongoing is never taken for dead.
Acquirable == owner = None \/ (owner \in OpIds /\ opState[owner] \notin Ongoing)

\* The first transaction of execute(): the plan is spent, the other plans of
\* the set are superseded, and the attempt owns the deployment.
Execute(o) ==
  LET s == plan[o].set IN
  /\ provision = "free"
  /\ opState[o] = "planned"
  /\ Bound(s)
  /\ RetentionHolds(s, plan[o].policy)
  /\ AsReviewed(o, Members(o))
  /\ Acquirable
  /\ provision' = "execute"
  /\ owner' = o
  /\ opState' = [p \in OpIds |-> IF p = o THEN "running"
                   ELSE IF opState[p] = "planned" /\ plan[p].set = s THEN "superseded"
                   ELSE opState[p]]
  /\ setState' = [setState EXCEPT ![s] = Taking[plan[o].kind]]
  /\ execution' = [op |-> o, guest |-> None, step |-> "guard"]
  /\ UNCHANGED <<reviewed, proof, plan, row, draft, proxmox, outside>>

\* The members that were not dispatched will never be.
Abandon(o) == [g \in Guests |-> IF row[o][g] = "planned" THEN "not_started" ELSE row[o][g]]

Leave == execution' = Idle /\ provision' = "free"

\* The next member still is what was reviewed: the intent is committed before
\* the native write.
GuardMember(g) ==
  LET o == execution.op IN
  /\ execution.step = "guard"
  /\ row[o][g] = "planned"
  /\ Bound(plan[o].set)
  /\ plan[o].policy # NoPolicy => policy = plan[o].policy
  /\ AsReviewed(o, {g})
  /\ row' = [row EXCEPT ![o][g] = "dispatching"]
  /\ execution' = [op |-> o, guest |-> g, step |-> "write"]
  /\ UNCHANGED <<sets, opState, plan, owner, provision, draft, proxmox, outside>>

\* A member changed, or could not be read: the rest is not started.
GuardFails ==
  LET o == execution.op IN
  /\ execution.step = "guard"
  /\ row' = [row EXCEPT ![o] = Abandon(o)]
  /\ Leave
  /\ UNCHANGED <<sets, opState, plan, owner, draft, proxmox, outside>>

\* The request reaches Proxmox; its answer may be lost.
NativeWrite ==
  LET o == execution.op  g == execution.guest IN
  /\ execution.step = "write"
  /\ sent' = [sent EXCEPT ![o][g] = @ + 1]
  /\ task' = [task EXCEPT ![o][g] = "running"]
  /\ \E step \in {"answered", "lost"} : execution' = [op |-> o, guest |-> g, step |-> step]
  /\ UNCHANGED <<sets, operations, owner, provision, draft, guest, native, tampered, outside>>

\* Connection refused, protected guest, HTTP error: nothing was written.
WriteFails ==
  /\ execution.step = "write"
  /\ execution' = [op |-> execution.op, guest |-> execution.guest, step |-> "lost"]
  /\ UNCHANGED <<sets, operations, owner, provision, draft, proxmox, outside>>

\* A task identifier is committed; the loop ends after the last member.
Accept ==
  LET o == execution.op IN
  /\ execution.step = "answered"
  /\ row' = [row EXCEPT ![o][execution.guest] = "accepted"]
  /\ IF \E g \in Guests : row[o][g] = "planned"
     THEN execution' = [op |-> o, guest |-> None, step |-> "guard"] /\ UNCHANGED provision
     ELSE Leave
  /\ UNCHANGED <<sets, opState, plan, owner, draft, proxmox, outside>>

\* Without one the member is unconfirmed for good and nothing follows it.
Unconfirm ==
  LET o == execution.op IN
  /\ execution.step = "lost"
  /\ row' = [row EXCEPT ![o] = [Abandon(o) EXCEPT ![execution.guest] = "unconfirmed"]]
  /\ opState' = [opState EXCEPT ![o] = "needs_review"]
  /\ setState' = [setState EXCEPT ![plan[o].set] = "needs_review"]
  /\ Leave
  /\ UNCHANGED <<reviewed, proof, plan, owner, draft, proxmox, outside>>

-----------------------------------------------------------------------------
(* Reconciliation.                                                         *)

\* What the guest must show before a member counts as succeeded.
Verified(o, g) ==
  LET s == plan[o].set  kind == plan[o].kind IN
  /\ Steady(g)
  /\ guest[g].uuid = reviewed[s].seen[g].uuid
  /\ kind = "create" => native[g][s] = reviewed[s].seen[g].config
  /\ kind = "delete" => native[g][s] = NoSnapshot
  /\ kind = "rollback" => native[g][s] = plan[o].snapshots[g] /\ guest[g].config = native[g][s]

\* Fault: what was not accepted yet is taken for not started.
ReadingsWithoutIntent(o, g) ==
  IF row[o][g] \in {"planned", "dispatching"} THEN {"not_started"} ELSE {row[o][g]}

\* Fault: a member that was not dispatched stays planned.
ReadingsKeepPlanned(o, g) == IF row[o][g] = "accepted" THEN {"accepted", "succeeded"} ELSE {row[o][g]}

\* An accepted member stays as it is while its task runs and when a read
\* fails or does not verify it.
Readings(o, g) ==
  IF row[o][g] = "accepted" THEN
    {"accepted"} \cup (IF task[o][g] = "failed" THEN {"failed"} ELSE {})
                 \cup (IF task[o][g] = "ok" /\ Verified(o, g) THEN {"succeeded"} ELSE {})
  ELSE IF row[o][g] = "planned" THEN {"not_started"}
  ELSE IF row[o][g] = "dispatching" THEN {"unconfirmed"}
  ELSE {row[o][g]}

Outcome(results) ==
  IF results = {"succeeded"} THEN "succeeded"
  ELSE IF "succeeded" \in results THEN "partial" ELSE "failed"

\* Fault: a set that some members have is complete.
SetOutcomeOptimistic(kind, outcome) ==
  IF kind = "delete" THEN IF outcome = "succeeded" THEN "deleted" ELSE "partial"
  ELSE IF kind = "create" /\ outcome = "failed" THEN "failed" ELSE "complete"

SetOutcome(kind, outcome) ==
  IF kind = "rollback" \/ (kind = "create" /\ outcome = "succeeded") THEN "complete"
  ELSE IF kind = "create" THEN outcome
  ELSE IF outcome = "succeeded" THEN "deleted" ELSE "partial"

\* Every member is closed: the operation, the set and the attempt end and the
\* workspace lock is released.
Close(o, results) ==
  LET s == plan[o].set IN
  /\ opState' = [opState EXCEPT ![o] = Outcome(results)]
  /\ setState' = [setState EXCEPT ![s] = SetOutcome(plan[o].kind, Outcome(results))]
  /\ proof' = IF plan[o].kind = "create"
              THEN [proof EXCEPT ![s] = [g \in Guests |->
                      IF row'[o][g] = "succeeded" THEN native[g][s] ELSE NoSnapshot]]
              ELSE proof
  /\ owner' = IF owner = o THEN None ELSE owner

\* reconcile_operation, from a request or from the recovery pass.
Reconcile(o) ==
  LET s == plan[o].set IN
  /\ provision = "free"
  /\ opState[o] \in Ongoing
  /\ Bound(s)
  /\ \E reading \in [Members(o) -> Closed \cup {"accepted", "unconfirmed"}] :
       /\ \A g \in Members(o) : reading[g] \in Readings(o, g)
       /\ row' = [row EXCEPT ![o] = [g \in Guests |->
                    IF g \in Members(o) THEN reading[g] ELSE "none"]]
       /\ LET results == {reading[g] : g \in Members(o)} IN
          \/ results \subseteq Closed /\ Close(o, results)
          \/ /\ ~(results \subseteq Closed)
             /\ IF "unconfirmed" \in results
                THEN /\ opState' = [opState EXCEPT ![o] = "needs_review"]
                     /\ setState' = [setState EXCEPT ![s] = "needs_review"]
                ELSE UNCHANGED <<opState, setState>>
             /\ UNCHANGED <<proof, owner>>
  /\ UNCHANGED <<reviewed, plan, provision, execution, draft, proxmox, outside>>

-----------------------------------------------------------------------------
(* Everybody else.                                                         *)

\* Another attempt of this deployment, or of another one.
DeployStarts ==
  /\ provision = "free"
  /\ provision' = "runner"
  /\ owner' = IF Acquirable THEN Deploy ELSE owner
  /\ UNCHANGED <<sets, operations, execution, draft, proxmox, outside>>

DeployEnds ==
  /\ provision = "runner"
  /\ provision' = "free"
  /\ owner' = IF owner = Deploy THEN None ELSE owner
  /\ UNCHANGED <<sets, operations, execution, draft, proxmox, outside>>

\* A direct write to one guest through the API (_mutation_session).
RawWrite(g) ==
  /\ provision = "free"
  /\ \A o \in OpIds : opState[o] \notin Ongoing
  /\ edits < MaxEdits /\ edits' = edits + 1
  /\ guest' = [guest EXCEPT ![g] = [config |-> edits', uuid |-> @.uuid, parent |-> @.parent]]
  /\ UNCHANGED <<sets, operations, process, native, task, sent, tampered, manifest, target, policy, crashes>>

\* The native task of a member ends.  A failed one may have done its work.
Effect(o, g) ==
  LET s == plan[o].set IN
  \/ /\ plan[o].kind = "create"
     /\ native' = [native EXCEPT ![g][s] = guest[g].config]
     /\ guest' = [guest EXCEPT ![g] = [config |-> @.config, uuid |-> @.uuid, parent |-> s]]
  \/ /\ plan[o].kind = "delete"
     /\ native' = [native EXCEPT ![g][s] = NoSnapshot]
     /\ \E p \in {0} \cup {n \in SetIds : n # s /\ native[g][n] # NoSnapshot} :
          guest' = [guest EXCEPT ![g] = [config |-> @.config, uuid |-> @.uuid,
                      parent |-> IF @.parent = s THEN p ELSE @.parent]]
  \/ /\ plan[o].kind = "rollback"
     /\ native[g][s] # NoSnapshot
     /\ guest' = [guest EXCEPT ![g] = [config |-> native[g][s], uuid |-> @.uuid, parent |-> s]]
     /\ UNCHANGED native

TaskEnds(o, g) ==
  /\ task[o][g] = "running"
  /\ \/ task' = [task EXCEPT ![o][g] = "ok"] /\ Effect(o, g)
     \/ task' = [task EXCEPT ![o][g] = "failed"] /\ (Effect(o, g) \/ UNCHANGED <<guest, native>>)
  /\ UNCHANGED <<sets, operations, process, sent, tampered, outside>>

\* Somebody else edits, replaces or rolls forward a guest outside the API.
GuestChanges(g) ==
  /\ edits < MaxEdits /\ edits' = edits + 1
  /\ \/ /\ guest' = [guest EXCEPT ![g] = [config |-> edits', uuid |-> @.uuid, parent |-> @.parent]]
        /\ UNCHANGED <<native, tampered>>
     \/ /\ guest' = [guest EXCEPT ![g] = [config |-> edits', uuid |-> 2, parent |-> 0]]
        /\ native' = [native EXCEPT ![g] = [s \in SetIds |-> NoSnapshot]]
        /\ tampered' = tampered \cup {g}
  /\ UNCHANGED <<sets, operations, process, task, sent, manifest, target, policy, crashes>>

\* An administrator re-registers the target or restores it, or saves a policy.
TargetChanges ==
  /\ edits < MaxEdits /\ edits' = edits + 1
  /\ target' = 3 - target
  /\ UNCHANGED <<sets, operations, process, proxmox, manifest, policy, crashes>>

PolicyChanges ==
  /\ edits < MaxEdits /\ edits' = edits + 1
  /\ policy' \in KeepCounts \ {policy}
  /\ UNCHANGED <<sets, operations, process, proxmox, manifest, target, crashes>>

Crash ==
  /\ crashes < MaxCrashes /\ crashes' = crashes + 1
  /\ execution' = Idle
  /\ draft' = NoDraft
  /\ provision' = IF provision = "execute" THEN "free" ELSE provision
  /\ UNCHANGED <<sets, operations, owner, proxmox, manifest, target, policy, edits>>

Coroutine == (\E g \in Guests : GuardMember(g)) \/ GuardFails \/ NativeWrite \/ WriteFails \/ Accept \/ Unconfirm

SnapshotNext ==
  \/ ObserveMembers \/ PlanCreate \/ PlanRefused
  \/ \E s \in SetIds : \/ \E kind \in {"rollback", "delete"} : PlanExisting(s, kind, NoPolicy)
                       \/ PlanRetention(s)
  \/ \E o \in OpIds : CancelPlan(o) \/ Execute(o) \/ Reconcile(o)
  \/ Coroutine
  \/ DeployStarts \/ DeployEnds
  \/ \E g \in manifest : RawWrite(g) \/ GuestChanges(g) \/ \E o \in OpIds : TaskEnds(o, g)
  \/ TargetChanges \/ PolicyChanges \/ Crash

SnapshotSpec == SnapshotInit /\ [][SnapshotNext]_snapshotVars

\* Scheduling: the API steps its coroutine, Proxmox ends its tasks, a runner
\* ends, and the recovery pass polls the ongoing operation - never more than
\* one - until a read of every ended task works.
Settle(o) ==
  /\ Reconcile(o)
  /\ \A g \in Members(o) : row[o][g] = "accepted" /\ task[o][g] # "running" => row'[o][g] # "accepted"

SnapshotFairness ==
  /\ WF_snapshotVars(Coroutine)
  /\ WF_snapshotVars(DeployEnds)
  /\ SF_snapshotVars(\E o \in OpIds : Settle(o))
  /\ WF_snapshotVars(\E o \in OpIds, g \in Guests : TaskEnds(o, g))

FairSnapshotSpec == SnapshotSpec /\ SnapshotFairness

-----------------------------------------------------------------------------
(* Properties.                                                             *)

Verdict(o, g) ==
  IF row[o][g] = "not_started" THEN "never"
  ELSE IF row[o][g] = "succeeded" THEN "ok"
  ELSE IF row[o][g] = "failed" THEN "failed" ELSE "open"

Journal == INSTANCE NativeJournal WITH
  Writes <- OpIds \X Guests,
  sent <- [w \in OpIds \X Guests |-> sent[w[1]][w[2]]],
  verdict <- [w \in OpIds \X Guests |-> Verdict(w[1], w[2])]

\* Through lost answers, crashes and reconciliation every native write goes
\* out at most once, a member reported not_started was never written to, and
\* one reported succeeded or failed was.
NativeWritesAreJournaled == Journal!JournalSpec

\* As long as a native task may still run, its operation is ongoing and its
\* attempt owns the deployment: no other attempt starts, no direct write is
\* let through and no second operation touches the guests.  (The types of the
\* variables are checked with it.)
OwnedWhileRunning ==
  /\ SnapshotTypeOK
  /\ \A o \in OpIds, g \in Guests : task[o][g] = "running" => opState[o] \in Ongoing
  /\ \A o \in OpIds : opState[o] \in Ongoing => owner = o

\* A complete set can be restored: every member has the recorded snapshot,
\* unless somebody removed it outside the API.
CompleteIsRestorable ==
  \A s \in SetIds : setState[s] = "complete" =>
    \A g \in manifest \ tampered : native[g][s] # NoSnapshot /\ native[g][s] = proof[s][g]

\* A reviewed retention deletion in progress leaves the policy's count of
\* complete sets, whatever else was deleted since its review.
RetentionKeeps ==
  \A o \in OpIds : opState[o] \in Ongoing /\ plan[o].policy # NoPolicy =>
    Cardinality({s \in SetIds : setState[s] = "complete"}) >= plan[o].policy

\* With nobody interfering, a running operation ends or is handed to an
\* operator: no crash leaves it running for ever.
Concluded == \A o \in OpIds :
  opState[o] = "running" ~> (opState[o] # "running" \/ edits > 0)
=============================================================================
