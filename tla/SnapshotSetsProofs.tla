------------------------- MODULE SnapshotSetsProofs -------------------------
(***************************************************************************)
(* Theorems of SnapshotSets for every set of guests, snapshot sets and     *)
(* operations, and any bounds.                                             *)
(***************************************************************************)
EXTENDS SnapshotSets, FiniteSetTheorems, TLAPS

-----------------------------------------------------------------------------
(* The inductive invariant.                                                *)

\* A plan that exists names its set and its kind.
PlansAreWhole ==
  \A o \in OpIds : opState[o] # "absent" => plan[o].set \in SetIds /\ plan[o].kind \in Kinds

\* The coroutine of execute() runs under the provisioning lock for a running
\* operation, and a member is "dispatching" from before its native write on.
ExecutionIsGuarded ==
  /\ execution.step # "idle" =>
       provision = "execute" /\ execution.op \in OpIds /\ opState[execution.op] = "running"
  /\ execution.step \in {"write", "answered", "lost"} =>
       execution.guest \in Guests /\ row[execution.op][execution.guest] = "dispatching"

Typed == SnapshotTypeOK /\ target \in {1, 2} /\ PlansAreWhole /\ ExecutionIsGuarded

\* At most one operation is ongoing: it owns the deployment.
Owned == \A o \in OpIds : opState[o] \in Ongoing => owner = o

\* What the row of a member says of its native write and of its task.
RowsAreTrue ==
  \A o \in OpIds, g \in Guests :
    /\ row[o][g] \in {"none", "planned", "not_started"} => sent[o][g] = 0
    /\ row[o][g] \in {"accepted", "succeeded", "failed"} => sent[o][g] = 1
    /\ opState[o] = "absent" => row[o][g] = "none"
    /\ task[o][g] = "running" => /\ opState[o] \in Ongoing
                                 /\ row[o][g] \in {"dispatching", "accepted", "unconfirmed"}

\* ... and where the coroutine is in between.
CoroutineKnows ==
  /\ execution.step = "write" => sent[execution.op][execution.guest] = 0
  /\ execution.step = "answered" => sent[execution.op][execution.guest] = 1

JournalInv == Typed /\ Owned /\ RowsAreTrue /\ CoroutineKnows

\* The state of a set says what its operations do: one that is ongoing has it
\* in its hands, one that is only planned finds it as it was reviewed.
SetsFollowOperations ==
  \A o \in OpIds :
    /\ opState[o] = "running" => setState[plan[o].set] = Taking[plan[o].kind]
    /\ opState[o] = "needs_review" => setState[plan[o].set] = "needs_review"
    /\ opState[o] = "planned" => setState[plan[o].set] \in
         (IF plan[o].kind = "create" THEN {"planned"} ELSE Reviewable(plan[o].kind))

\* Nothing of a plan that was not yet executed is on its way.
PlansAreUntouched ==
  \A o \in OpIds : opState[o] \in {"absent", "planned"} =>
    \A g \in Guests : row[o][g] \in {"none", "planned"}

Restorable(s) == \A g \in manifest \ tampered : native[g][s] # NoSnapshot /\ native[g][s] = proof[s][g]

\* A creation covers every guest, and those it has reported are there; a set
\* that is being rolled back stays restorable, whatever comes of it.
CreationsAreWhole ==
  \A o \in OpIds : opState[o] # "absent" /\ plan[o].kind = "create" =>
    \A g \in manifest : row[o][g] # "none"
CreatedIsThere ==
  \A o \in OpIds : opState[o] \in Ongoing /\ plan[o].kind = "create" =>
    \A g \in manifest \ tampered : row[o][g] = "succeeded" => native[g][plan[o].set] # NoSnapshot
RollbacksKeep ==
  \A o \in OpIds : opState[o] \in Ongoing /\ plan[o].kind = "rollback" => Restorable(plan[o].set)

SetInv ==
  /\ SetsFollowOperations /\ PlansAreUntouched /\ CreationsAreWhole /\ CreatedIsThere /\ RollbacksKeep
  /\ CompleteIsRestorable

-----------------------------------------------------------------------------
(* Types.                                                                  *)

\* The null values are none of the identifiers.
LEMMA Distinct == /\ None \notin OpIds /\ None \notin Guests
                  /\ Deploy \notin OpIds /\ Deploy # None /\ 0 \notin OpIds /\ 0 \notin SetIds
BY NoneAssumption, OpIdsAssumption, SetIdsAssumption

\* What is remembered of a guest, a set of guests, a snapshot.
LEMMA Values == /\ NoSnapshot \in Snapshots /\ \A v \in Versions : v \in Snapshots /\ v # NoSnapshot
                /\ \A c \in Versions, u \in {1, 2}, p \in SetIds \cup {0} :
                     [config |-> c, uuid |-> u, parent |-> p] \in GuestStates
                /\ Blank \in [Guests -> GuestStates] /\ Nothing \in [Guests -> Snapshots]
BY MaxEditsAssumption DEF NoSnapshot, Snapshots, Versions, GuestStates, Blank, Nothing

\* One cell of a table of operations and guests is written.
LEMMA CellIsWritten ==
  ASSUME NEW S, NEW table \in [OpIds -> [Guests -> S]], NEW o \in OpIds, NEW g \in Guests, NEW v \in S
  PROVE  LET written == [table EXCEPT ![o][g] = v] IN
         /\ written \in [OpIds -> [Guests -> S]]
         /\ written[o][g] = v
         /\ \A p \in OpIds, h \in Guests : p # o \/ h # g => written[p][h] = table[p][h]
OBVIOUS

\* At the start there are no sets and no operations.
LEMMA TypedInit == SnapshotInit => Typed
<1> SUFFICES ASSUME SnapshotInit PROVE Typed
  OBVIOUS
<1> USE Distinct, Values, ManifestsAssumption, KeepCountsAssumption DEF SnapshotInit
<1>1. reviewed \in [SetIds -> [seen : [Guests -> GuestStates], target : Nat]]
  BY DEF NoDraft
<1>2. plan \in [OpIds -> [set : SetIds \cup {0}, kind : Kinds \cup {"none"},
                         seen : [Guests -> GuestStates], snapshots : [Guests -> Snapshots],
                         policy : KeepCounts \cup {NoPolicy}]]
  BY DEF NoPlan
<1>3. SnapshotTypeOK
  BY <1>1, <1>2 DEF SnapshotTypeOK, NoDraft, Idle, Ongoing, Closed
<1>4. QED
  BY <1>3 DEF Typed, PlansAreWhole, ExecutionIsGuarded, Idle

\* Planning: an unused operation, and for a new set an unused set, are filled in.
LEMMA InsertIsTyped ==
  ASSUME Typed, NEW o \in OpIds, NEW members, NEW s \in SetIds, NEW kind \in Kinds,
         NEW seen \in [Guests -> GuestStates], NEW snapshots \in [Guests -> Snapshots],
         NEW keep \in KeepCounts \cup {NoPolicy}, opState[o] = "absent",
         Insert(o, members, s, kind, seen, snapshots, keep)
  PROVE  /\ opState' \in [OpIds -> {"absent", "planned", "cancelled", "superseded", "succeeded",
                                    "partial", "failed"} \cup Ongoing]
         /\ plan' \in [OpIds -> [set : SetIds \cup {0}, kind : Kinds \cup {"none"},
                                 seen : [Guests -> GuestStates], snapshots : [Guests -> Snapshots],
                                 policy : KeepCounts \cup {NoPolicy}]]
         /\ row' \in [OpIds -> [Guests -> {"none", "planned", "dispatching", "accepted",
                                           "unconfirmed"} \cup Closed]]
         /\ PlansAreWhole'
         /\ \A p \in OpIds : p # o => opState'[p] = opState[p] /\ plan'[p] = plan[p] /\ row'[p] = row[p]
<1> USE DEF Typed, SnapshotTypeOK, Insert
<1>1. opState' \in [OpIds -> {"absent", "planned", "cancelled", "superseded", "succeeded",
                              "partial", "failed"} \cup Ongoing]
  OBVIOUS
<1> DEFINE new == [set |-> s, kind |-> kind, seen |-> seen, snapshots |-> snapshots, policy |-> keep]
<1>2. /\ new \in [set : SetIds \cup {0}, kind : Kinds \cup {"none"},
                  seen : [Guests -> GuestStates], snapshots : [Guests -> Snapshots],
                  policy : KeepCounts \cup {NoPolicy}]
      /\ new.set = s /\ new.kind = kind
  OBVIOUS
<1>3. plan' = [plan EXCEPT ![o] = new]
  OBVIOUS
<1> HIDE DEF new
<1>4. plan' \in [OpIds -> [set : SetIds \cup {0}, kind : Kinds \cup {"none"},
                           seen : [Guests -> GuestStates], snapshots : [Guests -> Snapshots],
                           policy : KeepCounts \cup {NoPolicy}]]
  BY <1>2, <1>3
<1>5. row' \in [OpIds -> [Guests -> {"none", "planned", "dispatching", "accepted",
                                     "unconfirmed"} \cup Closed]]
  OBVIOUS
<1>6. \A p \in OpIds : p # o => opState'[p] = opState[p] /\ plan'[p] = plan[p] /\ row'[p] = row[p]
  BY <1>3
<1>7. PlansAreWhole'
  BY <1>2, <1>3, <1>6 DEF PlansAreWhole
<1>8. QED
  BY <1>1, <1>4, <1>5, <1>6, <1>7

\* What is planned has the form of an operation.
LEMMA PlanningKeepsTypes ==
  ASSUME Typed,
         \/ ObserveMembers \/ PlanCreate \/ PlanRefused
         \/ \E s \in SetIds : \/ \E kind \in {"rollback", "delete"} : PlanExisting(s, kind, NoPolicy)
                              \/ PlanRetention(s)
         \/ \E o \in OpIds : CancelPlan(o)
  PROVE  Typed'
<1> USE Distinct, Values DEF sets, operations, process, proxmox, outside
<1>1. CASE ObserveMembers \/ PlanRefused
  <2>1. draft' \in [seen : [Guests -> GuestStates], target : Nat]
    BY <1>1 DEF ObserveMembers, PlanRefused, NoDraft, Typed, SnapshotTypeOK
  <2>2. UNCHANGED <<manifest, setState, reviewed, proof, opState, plan, row, owner, provision, execution,
                    guest, native, task, sent, target, policy, tampered, edits, crashes>>
    BY <1>1 DEF ObserveMembers, PlanRefused
  <2>3. QED
    BY <2>1, <2>2 DEF Typed, SnapshotTypeOK, PlansAreWhole, ExecutionIsGuarded
<1>2. CASE PlanCreate
  <2>1. PICK s \in Least(SetIds, setState), o \in Least(OpIds, opState) :
          /\ setState' = [setState EXCEPT ![s] = "planned"]
          /\ reviewed' = [reviewed EXCEPT ![s] = draft]
          /\ Insert(o, manifest, s, "create", draft.seen, Nothing, NoPolicy)
    BY <1>2 DEF PlanCreate
  <2>2. s \in SetIds /\ o \in OpIds /\ opState[o] = "absent"
    BY <2>1 DEF Least
  <2>3. draft' \in [seen : [Guests -> GuestStates], target : Nat] /\ draft.seen \in [Guests -> GuestStates]
    BY <1>2 DEF PlanCreate, NoDraft, Typed, SnapshotTypeOK
  <2>4. /\ PlansAreWhole'
        /\ \A p \in OpIds : p # o => opState'[p] = opState[p] /\ row'[p] = row[p]
    BY <2>1, <2>2, <2>3, InsertIsTyped DEF Kinds
  <2>5. SnapshotTypeOK'
    <3>1. UNCHANGED <<manifest, proof, owner, provision, execution, guest, native, task, sent, target,
                      policy, tampered, edits, crashes>>
      BY <1>2 DEF PlanCreate
    <3>2. setState' \in [SetIds -> {"absent", "planned", "complete", "partial", "failed", "deleted",
                              "needs_review", "creating", "rolling_back", "deleting"}]
      BY <2>1, <2>2 DEF Typed, SnapshotTypeOK
    <3>3. reviewed' \in [SetIds -> [seen : [Guests -> GuestStates], target : Nat]]
      BY <2>1, <2>2 DEF Typed, SnapshotTypeOK
    <3>4. QED
      BY <2>1, <2>2, <2>3, <3>1, <3>2, <3>3, InsertIsTyped DEF Typed, SnapshotTypeOK, Kinds
  <2>6. UNCHANGED <<provision, execution, target>>
    BY <1>2 DEF PlanCreate
  <2>7. ExecutionIsGuarded'
    BY <2>2, <2>4, <2>6 DEF ExecutionIsGuarded, Typed
  <2>8. QED
    BY <2>4, <2>5, <2>6, <2>7 DEF Typed
<1>3. ASSUME NEW s \in SetIds, NEW kind \in {"rollback", "delete"}, NEW keep \in KeepCounts \cup {NoPolicy},
             PlanExisting(s, kind, keep)
      PROVE  Typed'
  <2> DEFINE owned == {g \in manifest : native[g][s] # NoSnapshot}
             snapshots == [g \in Guests |-> native[g][s]]
  <2>1. PICK o \in Least(OpIds, opState) : Insert(o, owned, s, kind, guest, snapshots, keep)
    BY <1>3 DEF PlanExisting
  <2>2. o \in OpIds /\ opState[o] = "absent" /\ kind \in Kinds
    BY <2>1 DEF Least, Kinds
  <2>3. snapshots \in [Guests -> Snapshots] /\ guest \in [Guests -> GuestStates]
    BY DEF Typed, SnapshotTypeOK
  <2> HIDE DEF owned, snapshots
  <2>4. /\ PlansAreWhole'
        /\ \A p \in OpIds : p # o => opState'[p] = opState[p] /\ row'[p] = row[p]
    BY <2>1, <2>2, <2>3, InsertIsTyped
  <2>5. UNCHANGED <<manifest, setState, reviewed, proof, owner, provision, execution, draft, guest, native, task,
                    sent, target, policy, tampered, edits, crashes>>
    BY <1>3 DEF PlanExisting
  <2>6. SnapshotTypeOK'
    BY <2>1, <2>2, <2>3, <2>5, InsertIsTyped DEF Typed, SnapshotTypeOK
  <2>7. ExecutionIsGuarded'
    BY <2>2, <2>4, <2>5 DEF ExecutionIsGuarded, Typed
  <2>8. QED
    BY <2>4, <2>5, <2>6, <2>7 DEF Typed
<1>4. ASSUME NEW o \in OpIds, CancelPlan(o)
      PROVE  Typed'
  BY <1>4 DEF CancelPlan, Typed, SnapshotTypeOK, PlansAreWhole, ExecutionIsGuarded
<1>5. NoPolicy \in KeepCounts \cup {NoPolicy} /\ policy \in KeepCounts
  BY DEF Typed, SnapshotTypeOK
<1>6. QED
  BY <1>1, <1>2, <1>3, <1>4, <1>5 DEF PlanRetention

\* Execution: what the coroutine writes down is of an operation it has taken.
LEMMA ExecutionKeepsTypes ==
  ASSUME Typed, (\E o \in OpIds : Execute(o)) \/ Coroutine
  PROVE  Typed'
<1> USE Distinct DEF sets, operations, process, proxmox, outside
<1>1. ASSUME NEW o \in OpIds, Execute(o)
      PROVE  Typed'
  <2>1. plan[o].set \in SetIds /\ plan[o].kind \in Kinds
    BY <1>1 DEF Execute, Typed, PlansAreWhole
  <2>2. Taking[plan[o].kind] \in {"creating", "rolling_back", "deleting"}
    BY <2>1 DEF Taking, Kinds
  <2>3. setState' \in [SetIds -> {"absent", "planned", "complete", "partial", "failed", "deleted",
                                  "needs_review", "creating", "rolling_back", "deleting"}]
    BY <1>1, <2>1, <2>2 DEF Execute, Typed, SnapshotTypeOK
  <2>4. opState' \in [OpIds -> {"absent", "planned", "cancelled", "superseded", "succeeded",
                                "partial", "failed"} \cup Ongoing]
    BY <1>1 DEF Execute, Typed, SnapshotTypeOK, Ongoing
  <2>5. execution' = [op |-> o, guest |-> None, step |-> "guard"] /\ provision' = "execute" /\ owner' = o
    BY <1>1 DEF Execute
  <2>6. UNCHANGED <<manifest, reviewed, proof, plan, row, draft, guest, native, task,
                    sent, target, policy, tampered, edits, crashes>>
    BY <1>1 DEF Execute
  <2>7. SnapshotTypeOK'
    BY <2>3, <2>4, <2>5, <2>6 DEF Typed, SnapshotTypeOK
  <2>8. opState'[o] = "running" /\ \A p \in OpIds : opState[p] = "absent" => opState'[p] = "absent"
    BY <1>1 DEF Execute, Typed, SnapshotTypeOK
  <2>9. PlansAreWhole'
    <3> SUFFICES ASSUME NEW p \in OpIds, opState'[p] # "absent"
                 PROVE  plan[p].set \in SetIds /\ plan[p].kind \in Kinds
      BY <2>6 DEF PlansAreWhole
    <3>1. opState[p] # "absent"
      BY <1>1 DEF Execute, Typed, SnapshotTypeOK
    <3>2. QED
      BY <3>1 DEF Typed, PlansAreWhole
  <2>10. QED
    BY <2>5, <2>6, <2>7, <2>8, <2>9 DEF Typed, ExecutionIsGuarded
<1> DEFINE o == execution.op
<1>2. ASSUME NEW g \in Guests, GuardMember(g)
      PROVE  Typed'
  <2>1. o \in OpIds /\ row' = [row EXCEPT ![o][g] = "dispatching"] /\ opState[o] = "running" /\ provision = "execute"
    BY <1>2 DEF GuardMember, Typed, ExecutionIsGuarded
  <2>2. row' \in [OpIds -> [Guests -> {"none", "planned", "dispatching", "accepted",
                                       "unconfirmed"} \cup Closed]] /\ row'[o][g] = "dispatching"
    BY <2>1 DEF Typed, SnapshotTypeOK
  <2>3. execution' = [op |-> o, guest |-> g, step |-> "write"]
    BY <1>2 DEF GuardMember
  <2>4. UNCHANGED <<manifest, setState, reviewed, proof, opState, plan, owner, provision, draft, guest, native, task,
                    sent, target, policy, tampered, edits, crashes>>
    BY <1>2 DEF GuardMember
  <2> HIDE DEF o
  <2>5. QED
    BY <2>1, <2>2, <2>3, <2>4 DEF Typed, SnapshotTypeOK, PlansAreWhole, ExecutionIsGuarded
<1>3. CASE GuardFails \/ Unconfirm
  <2>1. o \in OpIds /\ opState[o] = "running" /\ plan[o].set \in SetIds
    BY <1>3 DEF GuardFails, Unconfirm, Typed, ExecutionIsGuarded, PlansAreWhole
  <2>2. Abandon(o) \in [Guests -> {"none", "planned", "dispatching", "accepted", "unconfirmed"} \cup Closed]
    BY <2>1 DEF Abandon, Typed, SnapshotTypeOK, Closed
  <2> DEFINE g == execution.guest
  <2>3. row' \in [OpIds -> [Guests -> {"none", "planned", "dispatching", "accepted",
                                       "unconfirmed"} \cup Closed]]
    <3>1. \/ row' = [row EXCEPT ![o] = Abandon(o)]
          \/ row' = [row EXCEPT ![o] = [Abandon(o) EXCEPT ![g] = "unconfirmed"]]
      BY <1>3 DEF GuardFails, Unconfirm
    <3>2. [Abandon(o) EXCEPT ![g] = "unconfirmed"]
            \in [Guests -> {"none", "planned", "dispatching", "accepted", "unconfirmed"} \cup Closed]
      BY <2>2
    <3> HIDE DEF o, g
    <3>3. QED
      BY <2>1, <2>2, <3>1, <3>2 DEF Typed, SnapshotTypeOK
  <2>4. /\ opState' \in [OpIds -> {"absent", "planned", "cancelled", "superseded", "succeeded",
                                   "partial", "failed"} \cup Ongoing]
        /\ \A p \in OpIds : opState'[p] # "absent" => opState[p] # "absent"
    <3>1. opState' = opState \/ opState' = [opState EXCEPT ![o] = "needs_review"]
      BY <1>3 DEF GuardFails, Unconfirm
    <3> HIDE DEF o
    <3>2. QED
      BY <2>1, <3>1 DEF Typed, SnapshotTypeOK, Ongoing
  <2>5. setState' \in [SetIds -> {"absent", "planned", "complete", "partial", "failed", "deleted",
                                  "needs_review", "creating", "rolling_back", "deleting"}]
    BY <1>3, <2>1 DEF GuardFails, Unconfirm, Typed, SnapshotTypeOK
  <2>6. execution' = [op |-> 0, guest |-> None, step |-> "idle"] /\ provision' = "free"
    BY <1>3 DEF GuardFails, Unconfirm, Leave, Idle
  <2>7. UNCHANGED <<manifest, reviewed, proof, plan, owner, draft, guest, native, task,
                    sent, target, policy, tampered, edits, crashes>>
    BY <1>3 DEF GuardFails, Unconfirm
  <2>8. PlansAreWhole' /\ ExecutionIsGuarded'
    BY <2>4, <2>6, <2>7 DEF Typed, PlansAreWhole, ExecutionIsGuarded
  <2>9. SnapshotTypeOK'
    BY <2>3, <2>4, <2>5, <2>6, <2>7 DEF Typed, SnapshotTypeOK
  <2>10. QED
    BY <2>7, <2>8, <2>9 DEF Typed
<1>4. CASE NativeWrite \/ WriteFails
  <2> DEFINE g == execution.guest
  <2>1. /\ o \in OpIds /\ g \in Guests /\ execution.step = "write"
        /\ opState[o] = "running" /\ provision = "execute" /\ row[o][g] = "dispatching"
    BY <1>4 DEF NativeWrite, WriteFails, Typed, ExecutionIsGuarded
  <2>2. sent' \in [OpIds -> [Guests -> Nat]] /\ task' \in [OpIds -> [Guests -> {"none", "running", "ok", "failed"}]]
    <3>1. sent \in [OpIds -> [Guests -> Nat]] /\ task \in [OpIds -> [Guests -> {"none", "running", "ok", "failed"}]]
      BY DEF Typed, SnapshotTypeOK
    <3>2. sent[o][g] + 1 \in Nat
      BY <2>1, <3>1
    <3>3. \/ sent' = [sent EXCEPT ![o][g] = sent[o][g] + 1] /\ task' = [task EXCEPT ![o][g] = "running"]
          \/ UNCHANGED <<sent, task>>
      BY <1>4 DEF NativeWrite, WriteFails
    <3> HIDE DEF o, g
    <3>4. [sent EXCEPT ![o][g] = sent[o][g] + 1] \in [OpIds -> [Guests -> Nat]]
      BY <2>1, <3>1, <3>2
    <3>5. [task EXCEPT ![o][g] = "running"] \in [OpIds -> [Guests -> {"none", "running", "ok", "failed"}]]
      BY <2>1, <3>1
    <3>6. QED
      BY <3>1, <3>3, <3>4, <3>5
  <2>3. PICK step \in {"answered", "lost"} : execution' = [op |-> o, guest |-> g, step |-> step]
    BY <1>4 DEF NativeWrite, WriteFails
  <2>4. UNCHANGED <<manifest, setState, reviewed, proof, opState, plan, row, owner, provision, draft, guest, native,
                    target, policy, tampered, edits, crashes>>
    BY <1>4 DEF NativeWrite, WriteFails
  <2> HIDE DEF o, g
  <2>5. SnapshotTypeOK'
    BY <2>1, <2>2, <2>3, <2>4 DEF Typed, SnapshotTypeOK
  <2>6. QED
    BY <2>1, <2>3, <2>4, <2>5 DEF Typed, PlansAreWhole, ExecutionIsGuarded
<1>5. CASE Accept
  <2> DEFINE g == execution.guest
  <2>1. o \in OpIds /\ g \in Guests /\ opState[o] = "running" /\ provision = "execute"
    BY <1>5 DEF Accept, Typed, ExecutionIsGuarded
  <2>2. row' \in [OpIds -> [Guests -> {"none", "planned", "dispatching", "accepted", "unconfirmed"} \cup Closed]]
    BY <1>5, <2>1 DEF Accept, Typed, SnapshotTypeOK
  <2>3. \/ execution' = [op |-> o, guest |-> None, step |-> "guard"] /\ UNCHANGED provision
        \/ execution' = [op |-> 0, guest |-> None, step |-> "idle"] /\ provision' = "free"
    BY <1>5 DEF Accept, Leave, Idle
  <2>4. UNCHANGED <<manifest, setState, reviewed, proof, opState, plan, owner, draft, guest, native, task,
                    sent, target, policy, tampered, edits, crashes>>
    BY <1>5 DEF Accept
  <2> HIDE DEF o, g
  <2>5. SnapshotTypeOK'
    BY <2>1, <2>2, <2>3, <2>4 DEF Typed, SnapshotTypeOK
  <2>6. QED
    BY <2>1, <2>3, <2>4, <2>5 DEF Typed, PlansAreWhole, ExecutionIsGuarded
<1>6. QED
  BY <1>1, <1>2, <1>3, <1>4, <1>5 DEF Coroutine

\* What the results of members make of an operation and of its set.
LEMMA OutcomeIs ==
  ASSUME NEW results, NEW kind \in Kinds
  PROVE  /\ Outcome(results) \in {"succeeded", "partial", "failed"}
         /\ SetOutcome(kind, Outcome(results)) \in {"complete", "partial", "failed", "deleted"}
BY DEF Outcome, SetOutcome, Kinds

\* So has what is reconciled.
LEMMA ReconcileKeepsTypes ==
  ASSUME Typed, NEW o \in OpIds, Reconcile(o)
  PROVE  Typed'
<1> USE Distinct DEF sets, operations, process, proxmox, outside
<1> DEFINE s == plan[o].set
<1>1. s \in SetIds /\ plan[o].kind \in Kinds
  BY DEF Reconcile, Typed, PlansAreWhole, Ongoing
<1>2. PICK reading \in [Members(o) -> Closed \cup {"accepted", "unconfirmed"}] :
        /\ row' = [row EXCEPT ![o] = [g \in Guests |-> IF g \in Members(o) THEN reading[g] ELSE "none"]]
        /\ LET results == {reading[g] : g \in Members(o)} IN
           \/ results \subseteq Closed /\ Close(o, results)
           \/ /\ ~(results \subseteq Closed)
              /\ IF "unconfirmed" \in results
                 THEN /\ opState' = [opState EXCEPT ![o] = "needs_review"]
                      /\ setState' = [setState EXCEPT ![s] = "needs_review"]
                 ELSE UNCHANGED <<opState, setState>>
              /\ UNCHANGED <<proof, owner>>
  BY DEF Reconcile
<1> DEFINE results == {reading[g] : g \in Members(o)}
<1>3. UNCHANGED <<manifest, reviewed, plan, provision, execution, draft, guest, native, task,
                  sent, target, policy, tampered, edits, crashes>> /\ provision = "free"
  BY DEF Reconcile
<1>4. row' \in [OpIds -> [Guests -> {"none", "planned", "dispatching", "accepted",
                                     "unconfirmed"} \cup Closed]]
  BY <1>2 DEF Typed, SnapshotTypeOK
<1> HIDE DEF results, s
<1>5. CASE Close(o, results)
  <2>1. opState' = [opState EXCEPT ![o] = Outcome(results)] /\ Outcome(results) \in {"succeeded", "partial", "failed"}
    BY <1>1, <1>5, OutcomeIs DEF Close
  <2>2. setState' = [setState EXCEPT ![s] = SetOutcome(plan[o].kind, Outcome(results))]
    BY <1>5 DEF Close, s
  <2>3. setState' \in [SetIds -> {"absent", "planned", "complete", "partial", "failed", "deleted",
                                  "needs_review", "creating", "rolling_back", "deleting"}]
    BY <1>1, <2>2, OutcomeIs DEF Typed, SnapshotTypeOK
  <2>4. proof' \in [SetIds -> [Guests -> Snapshots]]
    <3>1. [g \in Guests |-> IF row'[o][g] = "succeeded" THEN native[g][s] ELSE NoSnapshot] \in [Guests -> Snapshots]
      BY <1>1, Values DEF Typed, SnapshotTypeOK
    <3>2. \/ proof' = [proof EXCEPT ![s] = [g \in Guests |-> IF row'[o][g] = "succeeded" THEN native[g][s] ELSE NoSnapshot]]
          \/ proof' = proof
      BY <1>5 DEF Close, s
    <3>3. QED
      BY <1>1, <3>1, <3>2 DEF Typed, SnapshotTypeOK
  <2>5. owner' \in {owner, None}
    BY <1>5 DEF Close
  <2>6. SnapshotTypeOK'
    BY <1>3, <1>4, <2>1, <2>3, <2>4, <2>5 DEF Typed, SnapshotTypeOK
  <2>7. opState[o] # "absent"
    BY DEF Reconcile, Ongoing
  <2>8. PlansAreWhole' /\ ExecutionIsGuarded'
    BY <1>3, <2>1, <2>7 DEF Typed, PlansAreWhole, ExecutionIsGuarded, SnapshotTypeOK
  <2>9. QED
    BY <1>3, <2>6, <2>8 DEF Typed
<1>6. CASE /\ UNCHANGED <<proof, owner>>
           /\ \/ /\ opState' = [opState EXCEPT ![o] = "needs_review"]
                 /\ setState' = [setState EXCEPT ![s] = "needs_review"]
              \/ UNCHANGED <<opState, setState>>
  <2>1. SnapshotTypeOK'
    <3>1. opState' \in [OpIds -> {"absent", "planned", "cancelled", "superseded", "succeeded",
                                  "partial", "failed"} \cup Ongoing]
      BY <1>6 DEF Typed, SnapshotTypeOK, Ongoing
    <3>2. setState' \in [SetIds -> {"absent", "planned", "complete", "partial", "failed", "deleted",
                                    "needs_review", "creating", "rolling_back", "deleting"}]
      BY <1>6 DEF Typed, SnapshotTypeOK
    <3>3. QED
      BY <1>3, <1>4, <1>6, <3>1, <3>2 DEF Typed, SnapshotTypeOK
  <2>2. opState[o] # "absent"
    BY DEF Reconcile, Ongoing
  <2>3. PlansAreWhole' /\ ExecutionIsGuarded'
    BY <1>3, <1>6, <2>2 DEF Typed, PlansAreWhole, ExecutionIsGuarded, SnapshotTypeOK
  <2>4. QED
    BY <1>3, <2>1, <2>3 DEF Typed
<1>7. QED
  BY <1>2, <1>5, <1>6 DEF results, s

\* Proxmox, other attempts, other administrators and crashes.
LEMMA OthersKeepTypes ==
  ASSUME Typed, RowsAreTrue,
         \/ DeployStarts \/ DeployEnds \/ TargetChanges \/ PolicyChanges \/ Crash
         \/ \E g \in manifest : RawWrite(g) \/ GuestChanges(g) \/ \E o \in OpIds : TaskEnds(o, g)
  PROVE  Typed'
<1> USE Distinct, Values, MaxEditsAssumption DEF sets, operations, process, proxmox, outside
<1>0. manifest \subseteq Guests
  BY ManifestsAssumption DEF Typed, SnapshotTypeOK
<1>1. CASE DeployStarts \/ DeployEnds
  BY <1>1 DEF DeployStarts, DeployEnds, Typed, SnapshotTypeOK, PlansAreWhole, ExecutionIsGuarded
<1>2. CASE TargetChanges \/ PolicyChanges
  BY <1>2 DEF TargetChanges, PolicyChanges, Typed, SnapshotTypeOK, PlansAreWhole, ExecutionIsGuarded
<1>3. CASE Crash
  <2>1. Idle \in [op : OpIds \cup {0}, guest : Guests \cup {None}, step : {"idle", "guard", "write", "answered", "lost"}]
        /\ NoDraft \in [seen : [Guests -> GuestStates], target : Nat]
    BY DEF Idle, NoDraft
  <2>2. execution' = Idle /\ Idle.step = "idle"
    BY <1>3 DEF Crash, Idle
  <2>3. UNCHANGED <<manifest, setState, reviewed, proof, opState, plan, row, owner, guest, native, task,
                    sent, target, policy, tampered, edits>> /\ crashes' = crashes + 1
        /\ draft' = NoDraft /\ provision' \in {"free", provision}
    BY <1>3 DEF Crash
  <2>4. SnapshotTypeOK'
    BY <2>1, <2>2, <2>3 DEF Typed, SnapshotTypeOK
  <2>5. QED
    BY <2>2, <2>3, <2>4 DEF Typed, PlansAreWhole, ExecutionIsGuarded
<1>4. ASSUME NEW g \in Guests, RawWrite(g) \/ GuestChanges(g)
      PROVE  Typed'
  <2>1. edits' \in Versions /\ edits' \in Nat
    BY <1>4 DEF RawWrite, GuestChanges, Typed, SnapshotTypeOK, Versions
  <2>2. \E u \in {1, 2}, p \in SetIds \cup {0} :
          guest' = [guest EXCEPT ![g] = [config |-> edits', uuid |-> u, parent |-> p]]
    <3>1. guest[g].uuid \in {1, 2} /\ guest[g].parent \in SetIds \cup {0}
      BY <1>4 DEF Typed, SnapshotTypeOK, GuestStates
    <3>2. \/ guest' = [guest EXCEPT ![g] = [config |-> edits', uuid |-> guest[g].uuid, parent |-> guest[g].parent]]
          \/ guest' = [guest EXCEPT ![g] = [config |-> edits', uuid |-> 2, parent |-> 0]]
      BY <1>4 DEF RawWrite, GuestChanges
    <3>3. QED
      BY <3>1, <3>2
  <2>3. guest' \in [Guests -> GuestStates]
    BY <2>1, <2>2 DEF Typed, SnapshotTypeOK
  <2>4. native' \in [Guests -> [SetIds -> Snapshots]] /\ tampered' \subseteq Guests
    <3>1. native \in [Guests -> [SetIds -> Snapshots]] /\ tampered \subseteq Guests
      BY DEF Typed, SnapshotTypeOK
    <3>2. \/ native' = native /\ tampered' = tampered
          \/ native' = [native EXCEPT ![g] = [s \in SetIds |-> NoSnapshot]] /\ tampered' = tampered \cup {g}
      BY <1>4 DEF RawWrite, GuestChanges
    <3>3. QED
      BY <3>1, <3>2
  <2>5. UNCHANGED <<manifest, setState, reviewed, proof, opState, plan, row, owner, provision, execution, draft, task,
                    sent, target, policy, crashes>>
    BY <1>4 DEF RawWrite, GuestChanges
  <2>6. QED
    BY <2>1, <2>3, <2>4, <2>5 DEF Typed, SnapshotTypeOK, PlansAreWhole, ExecutionIsGuarded
<1>5. ASSUME NEW g \in Guests, NEW o \in OpIds, TaskEnds(o, g),
             opState[o] # "absent"
      PROVE  Typed'
  <2> DEFINE s == plan[o].set
  <2>1. s \in SetIds
    BY <1>5 DEF Typed, PlansAreWhole
  <2>2. /\ guest[g].config \in Versions /\ guest[g].uuid \in {1, 2} /\ guest[g].parent \in SetIds \cup {0}
        /\ native[g] \in [SetIds -> Snapshots]
    BY DEF Typed, SnapshotTypeOK, GuestStates
  <2>3. ASSUME Effect(o, g)
        PROVE  guest' \in [Guests -> GuestStates] /\ native' \in [Guests -> [SetIds -> Snapshots]]
    <3> DEFINE is(v, p) == [config |-> v, uuid |-> guest[g].uuid, parent |-> p]
    <3>1. CASE plan[o].kind = "create"
      <4>1. /\ native' = [native EXCEPT ![g][s] = guest[g].config]
            /\ guest' = [guest EXCEPT ![g] = is(guest[g].config, s)]
        BY <2>3, <3>1 DEF Effect
      <4>2. QED
        BY <2>1, <2>2, <4>1 DEF Typed, SnapshotTypeOK
    <3>2. CASE plan[o].kind = "delete"
      <4>1. PICK p \in {0} \cup {n \in SetIds : n # s /\ native[g][n] # NoSnapshot} :
              guest' = [guest EXCEPT ![g] = is(guest[g].config, IF guest[g].parent = s THEN p ELSE guest[g].parent)]
        BY <2>3, <3>2 DEF Effect
      <4>2. native' = [native EXCEPT ![g][s] = NoSnapshot]
        BY <2>3, <3>2 DEF Effect
      <4>3. QED
        BY <2>1, <2>2, <4>1, <4>2 DEF Typed, SnapshotTypeOK
    <3>3. CASE plan[o].kind = "rollback"
      <4>1. /\ native' = native /\ native[g][s] # NoSnapshot
            /\ guest' = [guest EXCEPT ![g] = is(native[g][s], s)]
        BY <2>3, <3>3 DEF Effect
      <4>2. native[g][s] \in Versions
        BY <2>1, <2>2, <4>1 DEF Snapshots
      <4>3. QED
        BY <2>1, <2>2, <4>1, <4>2 DEF Typed, SnapshotTypeOK
    <3>4. QED
      BY <2>3, <3>1, <3>2, <3>3 DEF Effect
  <2>4. guest' \in [Guests -> GuestStates] /\ native' \in [Guests -> [SetIds -> Snapshots]]
    BY <1>5, <2>3 DEF TaskEnds, Typed, SnapshotTypeOK
  <2>5. task' \in [OpIds -> [Guests -> {"none", "running", "ok", "failed"}]]
    <3>1. task' = [task EXCEPT ![o][g] = "ok"] \/ task' = [task EXCEPT ![o][g] = "failed"]
      BY <1>5 DEF TaskEnds
    <3>2. task \in [OpIds -> [Guests -> {"none", "running", "ok", "failed"}]]
      BY DEF Typed, SnapshotTypeOK
    <3>3. QED
      BY <3>1, <3>2
  <2>6. UNCHANGED <<manifest, setState, reviewed, proof, opState, plan, row, owner, provision, execution, draft,
                    sent, tampered, target, policy, edits, crashes>>
    BY <1>5 DEF TaskEnds
  <2>7. QED
    BY <2>4, <2>5, <2>6 DEF Typed, SnapshotTypeOK, PlansAreWhole, ExecutionIsGuarded
<1>6. ASSUME NEW g \in Guests, NEW o \in OpIds, TaskEnds(o, g)
      PROVE  opState[o] # "absent"
  BY <1>6 DEF TaskEnds, RowsAreTrue, Ongoing
<1>7. QED
  BY <1>0, <1>1, <1>2, <1>3, <1>4, <1>5, <1>6

-----------------------------------------------------------------------------
(* Ownership and the journal.                                              *)

\* Whoever may take the deployment finds no operation ongoing.
LEMMA AcquirableIsIdle ==
  ASSUME Owned, Acquirable
  PROVE  \A o \in OpIds : opState[o] \notin Ongoing
BY Distinct DEF Owned, Acquirable

\* An operation that begins is the only one, and the owner goes when it ends.
LEMMA OwnedInductive == JournalInv /\ SnapshotNext => Owned'
<1> SUFFICES ASSUME JournalInv, SnapshotNext, NEW o \in OpIds, opState'[o] \in Ongoing
             PROVE  owner' = o
  BY DEF Owned
<1> USE Distinct DEF JournalInv, sets, operations, process, proxmox, outside
<1>0. opState \in [OpIds -> {"absent", "planned", "cancelled", "superseded", "succeeded",
                             "partial", "failed"} \cup Ongoing]
  BY DEF Typed, SnapshotTypeOK
<1>1. CASE UNCHANGED <<opState, owner>>
  BY <1>1 DEF Owned
<1>2. CASE UNCHANGED owner /\ \E p \in OpIds : opState' = [opState EXCEPT ![p] = "planned"]
  BY <1>0, <1>2 DEF Owned, Ongoing
<1>3. ASSUME NEW p \in OpIds, Execute(p)
      PROVE  owner' = o
  BY <1>0, <1>3, AcquirableIsIdle DEF Execute, Ongoing
<1>4. ASSUME NEW p \in OpIds, Reconcile(p)
      PROVE  owner' = o
  <2>1. opState[p] \in Ongoing /\ owner = p
    BY <1>4 DEF Reconcile, Owned
  <2>2. CASE o # p
    BY <1>0, <1>4, <2>1, <2>2 DEF Reconcile, Close, Owned
  <2>3. CASE o = p
    <3>1. \A results : Outcome(results) \notin Ongoing
      BY DEF Outcome, Ongoing
    <3>2. QED
      BY <1>0, <1>4, <2>1, <2>3, <3>1 DEF Reconcile, Close
  <2>4. QED
    BY <2>2, <2>3
<1>5. CASE Coroutine
  <2>1. CASE Unconfirm
    <3>1. execution.op \in OpIds /\ opState[execution.op] = "running"
      BY <2>1 DEF Unconfirm, Typed, ExecutionIsGuarded
    <3>2. QED
      BY <1>0, <2>1, <3>1 DEF Unconfirm, Owned, Ongoing
  <2>2. CASE ~Unconfirm
    BY <1>1, <1>5, <2>2 DEF Coroutine, GuardMember, GuardFails, NativeWrite, WriteFails, Accept
  <2>3. QED
    BY <2>1, <2>2
<1>6. CASE DeployStarts \/ DeployEnds
  BY <1>6, AcquirableIsIdle DEF DeployStarts, DeployEnds, Owned
<1>7. CASE TargetChanges \/ PolicyChanges \/ Crash \/ ObserveMembers \/ PlanRefused
  BY <1>1, <1>7 DEF TargetChanges, PolicyChanges, Crash, ObserveMembers, PlanRefused
<1>8. ASSUME NEW g \in manifest, RawWrite(g) \/ GuestChanges(g) \/ \E p \in OpIds : TaskEnds(p, g)
      PROVE  owner' = o
  BY <1>1, <1>8 DEF RawWrite, GuestChanges, TaskEnds
<1>9. CASE PlanCreate
  BY <1>2, <1>9 DEF PlanCreate, Least, Insert
<1>10. ASSUME NEW s, NEW kind, NEW keep, PlanExisting(s, kind, keep)
       PROVE  owner' = o
  BY <1>2, <1>10 DEF PlanExisting, Least, Insert
<1>11. ASSUME NEW p \in OpIds, CancelPlan(p)
       PROVE  owner' = o
  BY <1>0, <1>11 DEF CancelPlan, Owned, Ongoing
<1>12. QED
  BY <1>3, <1>4, <1>5, <1>6, <1>7, <1>8, <1>9, <1>10, <1>11 DEF SnapshotNext, PlanRetention

\* How the row of one member may change.
RowMoves(o, g) ==
  \/ row'[o][g] = row[o][g]
  \/ row[o][g] = "none" /\ row'[o][g] = "planned" /\ opState'[o] # "absent"
  \/ row[o][g] = "planned" /\ row'[o][g] \in {"dispatching", "not_started"}
  \/ row[o][g] = "dispatching" /\ row'[o][g] = "unconfirmed"
  \/ row[o][g] = "dispatching" /\ row'[o][g] = "accepted" /\ sent[o][g] = 1
  \/ row[o][g] = "accepted" /\ row'[o][g] \in {"failed", "succeeded"} /\ task[o][g] # "running"

\* Reconciling moves rows on by what was read, and ends an operation only when all are closed.
LEMMA ReconcileMovesRows ==
  ASSUME JournalInv, NEW o \in OpIds, Reconcile(o)
  PROVE  /\ \A p \in OpIds, g \in Guests : RowMoves(p, g)
         /\ opState'[o] \notin Ongoing => \A g \in Guests : row'[o][g] \in Closed \cup {"none"}
         /\ \A p \in OpIds : opState'[p] = "absent" => opState[p] = "absent"
         /\ \A p \in OpIds : p # o => opState'[p] = opState[p]
<1>0. /\ row \in [OpIds -> [Guests -> {"none", "planned", "dispatching", "accepted",
                                       "unconfirmed"} \cup Closed]]
      /\ opState \in [OpIds -> {"absent", "planned", "cancelled", "superseded", "succeeded",
                                "partial", "failed"} \cup Ongoing]
  BY DEF JournalInv, Typed, SnapshotTypeOK
<1>1. PICK reading \in [Members(o) -> Closed \cup {"accepted", "unconfirmed"}] :
        /\ \A g \in Members(o) : reading[g] \in Readings(o, g)
        /\ row' = [row EXCEPT ![o] = [g \in Guests |-> IF g \in Members(o) THEN reading[g] ELSE "none"]]
        /\ LET results == {reading[g] : g \in Members(o)} IN
           \/ results \subseteq Closed /\ Close(o, results)
           \/ /\ ~(results \subseteq Closed)
              /\ opState' = [opState EXCEPT ![o] = "needs_review"] \/ UNCHANGED opState
  BY DEF Reconcile
<1>2. ASSUME NEW p \in OpIds, NEW g \in Guests
      PROVE  RowMoves(p, g)
  <2>1. CASE p # o
    BY <1>0, <1>1, <2>1 DEF RowMoves
  <2>2. CASE p = o /\ g \notin Members(o)
    BY <1>0, <1>1, <2>2 DEF RowMoves, Members
  <2>3. CASE p = o /\ g \in Members(o)
    <3>1. row'[o][g] = reading[g] /\ reading[g] \in Readings(o, g)
      BY <1>0, <1>1, <2>3
    <3>2. QED
      BY <1>0, <2>3, <3>1 DEF RowMoves, Readings
  <2>4. QED
    BY <2>1, <2>2, <2>3
<1>3. opState'[o] \notin Ongoing => \A g \in Guests : row'[o][g] \in Closed \cup {"none"}
  <2> SUFFICES ASSUME opState'[o] \notin Ongoing, NEW g \in Guests
               PROVE  row'[o][g] \in Closed \cup {"none"}
    OBVIOUS
  <2>1. opState[o] \in Ongoing
    BY DEF Reconcile
  <2>2. {reading[h] : h \in Members(o)} \subseteq Closed
    BY <1>0, <1>1, <2>1 DEF Ongoing
  <2>3. QED
    BY <1>0, <1>1, <2>2
<1>4. Outcome({reading[g] : g \in Members(o)}) # "absent"
  BY DEF Outcome
<1>5. /\ opState'[o] # "absent"
      /\ \A p \in OpIds : p # o => opState'[p] = opState[p]
  <2>1. CASE Close(o, {reading[g] : g \in Members(o)})
    BY <1>0, <1>4, <2>1 DEF Close
  <2>2. CASE opState' = [opState EXCEPT ![o] = "needs_review"] \/ UNCHANGED opState
    BY <1>0, <2>2 DEF Reconcile, Ongoing
  <2>3. QED
    BY <1>1, <2>1, <2>2
<1>6. QED
  BY <1>2, <1>3, <1>5

\* Rows move one way; no operation that is ongoing ends before all its
\* members are closed, and none becomes unused again.
LEMMA RowsMove ==
  ASSUME JournalInv, SnapshotNext
  PROVE  /\ \A o \in OpIds, g \in Guests : RowMoves(o, g)
         /\ \A o \in OpIds : opState'[o] = "absent" => opState[o] = "absent"
         /\ \A o \in OpIds : opState[o] \in Ongoing /\ opState'[o] \notin Ongoing =>
              \A g \in Guests : row'[o][g] \in Closed \cup {"none"}
<1> USE Distinct DEF JournalInv, sets, operations, process, proxmox, outside
<1> DEFINE Goal == /\ \A o \in OpIds, g \in Guests : RowMoves(o, g)
                   /\ \A o \in OpIds : opState'[o] = "absent" => opState[o] = "absent"
                   /\ \A o \in OpIds : opState[o] \in Ongoing /\ opState'[o] \notin Ongoing =>
                        \A g \in Guests : row'[o][g] \in Closed \cup {"none"}
<1>0. /\ row \in [OpIds -> [Guests -> {"none", "planned", "dispatching", "accepted",
                                       "unconfirmed"} \cup Closed]]
      /\ opState \in [OpIds -> {"absent", "planned", "cancelled", "superseded", "succeeded",
                                "partial", "failed"} \cup Ongoing]
  BY DEF Typed, SnapshotTypeOK
<1>1. CASE UNCHANGED <<opState, row>>
  BY <1>1 DEF RowMoves
<1>2. ASSUME NEW o \in OpIds, opState[o] = "absent",
             NEW members, opState' = [opState EXCEPT ![o] = "planned"],
             row' = [row EXCEPT ![o] = [g \in Guests |-> IF g \in members THEN "planned" ELSE "none"]]
      PROVE  Goal
  <2>1. \A g \in Guests : row[o][g] = "none"
    BY <1>2 DEF RowsAreTrue
  <2>2. \A p \in OpIds, g \in Guests : RowMoves(p, g)
    BY <1>0, <1>2, <2>1 DEF RowMoves
  <2>3. QED
    BY <1>0, <1>2, <2>2 DEF Ongoing
<1>3. ASSUME NEW o \in OpIds, Execute(o)
      PROVE  Goal
  BY <1>0, <1>3, AcquirableIsIdle DEF Execute, RowMoves
<1>4. ASSUME NEW o \in OpIds, Reconcile(o)
      PROVE  Goal
  BY <1>4, ReconcileMovesRows
<1>5. CASE Coroutine
  <2> DEFINE o == execution.op
  <2>1. CASE NativeWrite \/ WriteFails
    BY <1>1, <2>1 DEF NativeWrite, WriteFails
  <2>2. ASSUME NEW g \in Guests, GuardMember(g)
        PROVE  Goal
    <3>1. o \in OpIds /\ row' = [row EXCEPT ![o][g] = "dispatching"] /\ row[o][g] = "planned" /\ opState' = opState
      BY <2>2 DEF GuardMember, Typed, ExecutionIsGuarded
    <3> HIDE DEF o
    <3>2. QED
      BY <1>0, <3>1 DEF RowMoves
  <2>3. CASE Accept
    <3> DEFINE g == execution.guest
    <3>1. /\ o \in OpIds /\ g \in Guests /\ row[o][g] = "dispatching" /\ sent[o][g] = 1
          /\ row' = [row EXCEPT ![o][g] = "accepted"] /\ opState' = opState
      BY <2>3 DEF Accept, Typed, ExecutionIsGuarded, CoroutineKnows
    <3> HIDE DEF o, g
    <3>2. QED
      BY <1>0, <3>1 DEF RowMoves
  <2>4. CASE GuardFails
    <3>1. o \in OpIds /\ row' = [row EXCEPT ![o] = Abandon(o)] /\ opState' = opState
      BY <2>4 DEF GuardFails, Typed, ExecutionIsGuarded
    <3> HIDE DEF o
    <3>2. QED
      BY <1>0, <3>1 DEF RowMoves, Abandon
  <2>5. CASE Unconfirm
    <3> DEFINE g == execution.guest
    <3>1. /\ o \in OpIds /\ g \in Guests /\ row[o][g] = "dispatching" /\ opState[o] = "running"
          /\ row' = [row EXCEPT ![o] = [Abandon(o) EXCEPT ![g] = "unconfirmed"]]
          /\ opState' = [opState EXCEPT ![o] = "needs_review"]
      BY <2>5 DEF Unconfirm, Typed, ExecutionIsGuarded
    <3> HIDE DEF o, g
    <3>2. \A p \in OpIds, h \in Guests : RowMoves(p, h)
      BY <1>0, <3>1 DEF RowMoves, Abandon
    <3>3. QED
      BY <1>0, <3>1, <3>2 DEF Ongoing
  <2>6. QED
    BY <1>5, <2>1, <2>2, <2>3, <2>4, <2>5 DEF Coroutine
<1>6. CASE \/ DeployStarts \/ DeployEnds \/ TargetChanges \/ PolicyChanges \/ Crash \/ ObserveMembers \/ PlanRefused
           \/ \E g \in manifest : RawWrite(g) \/ GuestChanges(g) \/ \E o \in OpIds : TaskEnds(o, g)
  BY <1>1, <1>6 DEF DeployStarts, DeployEnds, TargetChanges, PolicyChanges, Crash, ObserveMembers, PlanRefused,
                    RawWrite, GuestChanges, TaskEnds
<1>7. CASE PlanCreate
  <2>1. PICK s \in Least(SetIds, setState), o \in Least(OpIds, opState) :
          Insert(o, manifest, s, "create", draft.seen, Nothing, NoPolicy)
    BY <1>7 DEF PlanCreate
  <2>2. UNCHANGED <<task, sent, execution>>
    BY <1>7 DEF PlanCreate, proxmox
  <2>3. QED
    BY <1>2, <2>1, <2>2 DEF Least, Insert
<1>8. ASSUME NEW s, NEW kind, NEW keep, PlanExisting(s, kind, keep)
      PROVE  Goal
  BY <1>2, <1>8 DEF PlanExisting, Least, Insert
<1>9. ASSUME NEW o \in OpIds, CancelPlan(o)
      PROVE  Goal
  BY <1>0, <1>9 DEF CancelPlan, RowMoves, Ongoing
<1>10. QED
  BY <1>3, <1>4, <1>5, <1>6, <1>7, <1>8, <1>9 DEF SnapshotNext, PlanRetention

\* A write goes out once, for a member that is being dispatched, and starts
\* the only task there is for it.
Dispatches(o, g) ==
  /\ row[o][g] = "dispatching" /\ opState[o] = "running" /\ sent[o][g] = 0
  /\ sent' = [sent EXCEPT ![o][g] = 1]
  /\ task' = [task EXCEPT ![o][g] = "running"]
  /\ execution = [op |-> o, guest |-> g, step |-> "write"]
  /\ UNCHANGED <<row, opState>>

\* A step sends one native write, or none, and no task runs without one.
LEMMA WritesGoOut ==
  ASSUME JournalInv, SnapshotNext
  PROVE  \/ \E o \in OpIds, g \in Guests : Dispatches(o, g)
         \/ /\ UNCHANGED sent
            /\ \A o \in OpIds, g \in Guests : task'[o][g] = "running" => task[o][g] = "running"
<1> USE DEF JournalInv, sets, operations, process, proxmox, outside
<1>0. task \in [OpIds -> [Guests -> {"none", "running", "ok", "failed"}]]
  BY DEF Typed, SnapshotTypeOK
<1>1. CASE NativeWrite
  <2> DEFINE o == execution.op
             g == execution.guest
  <2>1. /\ o \in OpIds /\ g \in Guests /\ row[o][g] = "dispatching" /\ opState[o] = "running"
        /\ sent[o][g] = 0 /\ execution.step = "write"
    BY <1>1 DEF NativeWrite, Typed, ExecutionIsGuarded, CoroutineKnows
  <2>2. execution = [op |-> o, guest |-> g, step |-> "write"]
    BY <2>1 DEF Typed, SnapshotTypeOK
  <2>3. /\ sent' = [sent EXCEPT ![o][g] = sent[o][g] + 1]
        /\ task' = [task EXCEPT ![o][g] = "running"]
        /\ UNCHANGED <<row, opState>>
    BY <1>1 DEF NativeWrite
  <2> HIDE DEF o, g
  <2>4. Dispatches(o, g)
    BY <2>1, <2>2, <2>3 DEF Dispatches
  <2>5. QED
    BY <2>1, <2>4
<1>2. ASSUME NEW o \in OpIds, NEW g \in Guests, TaskEnds(o, g)
      PROVE  UNCHANGED sent /\ \A p \in OpIds, h \in Guests : task'[p][h] = "running" => task[p][h] = "running"
  <2>1. task' = [task EXCEPT ![o][g] = "ok"] \/ task' = [task EXCEPT ![o][g] = "failed"]
    BY <1>2 DEF TaskEnds
  <2>2. QED
    BY <1>0, <1>2, <2>1 DEF TaskEnds
<1>3. manifest \subseteq Guests
  BY ManifestsAssumption DEF Typed, SnapshotTypeOK
<1>4. CASE UNCHANGED <<sent, task>>
  BY <1>4
<1>5. QED
  BY <1>1, <1>2, <1>3, <1>4 DEF SnapshotNext, Coroutine, PlanRetention, ObserveMembers, PlanCreate, PlanRefused,
     PlanExisting, CancelPlan, Execute, Reconcile, GuardMember, GuardFails, WriteFails, Accept, Unconfirm,
     DeployStarts, DeployEnds, RawWrite, GuestChanges, TargetChanges, PolicyChanges, Crash

\* Rows stay true in every step.
LEMMA RowsInductive == JournalInv /\ SnapshotNext => RowsAreTrue'
<1> SUFFICES ASSUME JournalInv, SnapshotNext, NEW o \in OpIds, NEW g \in Guests
             PROVE  /\ row'[o][g] \in {"none", "planned", "not_started"} => sent'[o][g] = 0
                    /\ row'[o][g] \in {"accepted", "succeeded", "failed"} => sent'[o][g] = 1
                    /\ opState'[o] = "absent" => row'[o][g] = "none"
                    /\ task'[o][g] = "running" => /\ opState'[o] \in Ongoing
                                                  /\ row'[o][g] \in {"dispatching", "accepted", "unconfirmed"}
  BY DEF RowsAreTrue
<1>1. /\ RowMoves(o, g)
      /\ opState'[o] = "absent" => opState[o] = "absent"
      /\ opState[o] \in Ongoing /\ opState'[o] \notin Ongoing => row'[o][g] \in Closed \cup {"none"}
  BY RowsMove
<1>2. /\ row[o][g] \in {"none", "planned", "not_started"} => sent[o][g] = 0
      /\ row[o][g] \in {"accepted", "succeeded", "failed"} => sent[o][g] = 1
      /\ opState[o] = "absent" => row[o][g] = "none"
      /\ task[o][g] = "running" => /\ opState[o] \in Ongoing
                                   /\ row[o][g] \in {"dispatching", "accepted", "unconfirmed"}
  BY DEF JournalInv, RowsAreTrue
<1>3. CASE UNCHANGED sent /\ (task'[o][g] = "running" => task[o][g] = "running")
  BY <1>1, <1>2, <1>3 DEF RowMoves, Closed
<1>4. ASSUME NEW p \in OpIds, NEW h \in Guests, Dispatches(p, h)
      PROVE  /\ row'[o][g] \in {"none", "planned", "not_started"} => sent'[o][g] = 0
             /\ row'[o][g] \in {"accepted", "succeeded", "failed"} => sent'[o][g] = 1
             /\ opState'[o] = "absent" => row'[o][g] = "none"
             /\ task'[o][g] = "running" => /\ opState'[o] \in Ongoing
                                           /\ row'[o][g] \in {"dispatching", "accepted", "unconfirmed"}
  <2>1. sent \in [OpIds -> [Guests -> Nat]] /\ task \in [OpIds -> [Guests -> {"none", "running", "ok", "failed"}]]
    BY DEF JournalInv, Typed, SnapshotTypeOK
  <2>2. CASE o = p /\ g = h
    BY <1>4, <2>1, <2>2 DEF Dispatches, Ongoing
  <2>3. CASE o # p \/ g # h
    <3>1. sent'[o][g] = sent[o][g] /\ task'[o][g] = task[o][g]
      BY <1>4, <2>1, <2>3 DEF Dispatches
    <3>2. QED
      BY <1>2, <1>4, <3>1 DEF Dispatches
  <2>4. QED
    BY <2>2, <2>3
<1>5. QED
  BY <1>3, <1>4, WritesGoOut

\* The coroutine knows where it is after every step.
LEMMA CoroutineInductive == JournalInv /\ SnapshotNext => CoroutineKnows'
<1> SUFFICES ASSUME JournalInv, SnapshotNext
             PROVE  CoroutineKnows'
  OBVIOUS
<1> USE DEF JournalInv, sets, operations, process, proxmox, outside
<1> DEFINE o == execution.op
           g == execution.guest
<1>1. CASE UNCHANGED <<execution, sent>>
  BY <1>1 DEF CoroutineKnows
<1>2. CASE execution'.step \notin {"write", "answered"}
  BY <1>2 DEF CoroutineKnows
<1>3. CASE Coroutine
  <2>1. ASSUME NEW h \in Guests, GuardMember(h)
        PROVE  CoroutineKnows'
    <3>1. o \in OpIds /\ row[o][h] = "planned" /\ execution' = [op |-> o, guest |-> h, step |-> "write"] /\ sent' = sent
      BY <2>1 DEF GuardMember, Typed, ExecutionIsGuarded
    <3> HIDE DEF o
    <3>2. sent[o][h] = 0
      BY <3>1 DEF RowsAreTrue
    <3>3. QED
      BY <3>1, <3>2 DEF CoroutineKnows
  <2>2. CASE NativeWrite
    <3>1. /\ o \in OpIds /\ g \in Guests /\ sent[o][g] = 0 /\ sent' = [sent EXCEPT ![o][g] = sent[o][g] + 1]
          /\ \E step \in {"answered", "lost"} : execution' = [op |-> o, guest |-> g, step |-> step]
      BY <2>2 DEF NativeWrite, Typed, ExecutionIsGuarded, CoroutineKnows
    <3>2. sent \in [OpIds -> [Guests -> Nat]]
      BY DEF Typed, SnapshotTypeOK
    <3> HIDE DEF o, g
    <3>3. sent'[o][g] = 1
      BY <3>1, <3>2
    <3>4. QED
      BY <3>1, <3>3 DEF CoroutineKnows
  <2>3. CASE GuardFails \/ WriteFails \/ Accept \/ Unconfirm
    BY <1>2, <2>3 DEF GuardFails, WriteFails, Accept, Unconfirm, Leave, Idle
  <2>4. QED
    BY <1>3, <2>1, <2>2, <2>3 DEF Coroutine
<1>4. CASE Crash \/ \E p \in OpIds : Execute(p)
  BY <1>2, <1>4 DEF Crash, Execute, Idle
<1>5. CASE ~(Coroutine \/ Crash \/ \E p \in OpIds : Execute(p))
  BY <1>1, <1>5 DEF SnapshotNext, PlanRetention, ObserveMembers, PlanCreate, PlanRefused,
     PlanExisting, CancelPlan, Reconcile, DeployStarts, DeployEnds, RawWrite, TaskEnds, GuestChanges,
     TargetChanges, PolicyChanges
<1>6. QED
  BY <1>3, <1>4, <1>5

\* The invariant of the journal is kept ...
LEMMA JournalInductive == JournalInv /\ [SnapshotNext]_snapshotVars => JournalInv'
<1>1. JournalInv /\ UNCHANGED snapshotVars => JournalInv'
  <2> SUFFICES ASSUME JournalInv, UNCHANGED snapshotVars
               PROVE  JournalInv'
    OBVIOUS
  <2>1. UNCHANGED <<manifest, setState, reviewed, proof, opState, plan, row, owner, provision, execution, draft,
                    guest, native, task, sent, target, policy, tampered, edits, crashes>>
    BY DEF snapshotVars, sets, operations, process, proxmox, outside
  <2>2. Typed'
    BY <2>1 DEF JournalInv, Typed, SnapshotTypeOK, PlansAreWhole, ExecutionIsGuarded
  <2>3. Owned' /\ RowsAreTrue' /\ CoroutineKnows'
    BY <2>1 DEF JournalInv, Owned, RowsAreTrue, CoroutineKnows
  <2>4. QED
    BY <2>2, <2>3 DEF JournalInv
<1>2. JournalInv /\ SnapshotNext => Typed'
  BY PlanningKeepsTypes, ExecutionKeepsTypes, ReconcileKeepsTypes, OthersKeepTypes DEF SnapshotNext, JournalInv
<1>3. QED
  BY <1>1, <1>2, OwnedInductive, RowsInductive, CoroutineInductive DEF JournalInv

\* ... holds at the start ...
LEMMA JournalInitially == SnapshotInit => JournalInv
<1> SUFFICES ASSUME SnapshotInit PROVE JournalInv
  OBVIOUS
<1>1. Owned /\ RowsAreTrue /\ CoroutineKnows
  BY DEF SnapshotInit, Owned, RowsAreTrue, CoroutineKnows, Ongoing, Idle
<1>2. QED
  BY <1>1, TypedInit DEF JournalInv

\* ... and always, for any number of sets, operations, guests and crashes.
THEOREM JournalInvariance == SnapshotSpec => []JournalInv
BY JournalInitially, JournalInductive, PTL DEF SnapshotSpec

\* A native task that may still run keeps its operation ongoing and the
\* deployment owned by it, through lost answers, crashes and reconciliation.
THEOREM OwnedWhileRunningHolds == SnapshotSpec => []OwnedWhileRunning
<1>1. JournalInv => OwnedWhileRunning
  BY DEF JournalInv, Typed, Owned, RowsAreTrue, OwnedWhileRunning
<1>2. QED
  BY <1>1, JournalInvariance, PTL

-----------------------------------------------------------------------------
(* The journal is implemented.                                             *)

Writes == OpIds \X Guests
Sent == [w \in Writes |-> sent[w[1]][w[2]]]
Said == [w \in Writes |-> Verdict(w[1], w[2])]

\* A verdict changes once, from open, and only to what is true of the write.
LEMMA VerdictsAreTrue ==
  ASSUME JournalInv, SnapshotNext, NEW o \in OpIds, NEW g \in Guests, Verdict(o, g)' # Verdict(o, g)
  PROVE  /\ Verdict(o, g) = "open"
         /\ Verdict(o, g)' = "never" => sent[o][g] = 0
         /\ Verdict(o, g)' \in {"ok", "failed"} => sent[o][g] = 1
         /\ ~Dispatches(o, g)
<1>1. RowMoves(o, g)
  BY RowsMove
<1>2. row[o][g] \in {"none", "planned", "dispatching", "accepted", "unconfirmed"} \cup Closed
  BY DEF JournalInv, Typed, SnapshotTypeOK
<1>3. row[o][g] = "planned" => sent[o][g] = 0
  BY DEF JournalInv, RowsAreTrue
<1>4. row[o][g] = "accepted" => sent[o][g] = 1
  BY DEF JournalInv, RowsAreTrue
<1>5. row'[o][g] # row[o][g]
  BY DEF Verdict
<1>6. QED
  BY <1>1, <1>2, <1>3, <1>4, <1>5 DEF RowMoves, Verdict, Dispatches, Closed

\* Every step is one of the journal, or changes nothing of it.
LEMMA JournalStep ==
  ASSUME JournalInv, [SnapshotNext]_snapshotVars
  PROVE  [Journal!JournalNext]_<<Sent, Said>>
<1> USE DEF Writes
<1>1. CASE UNCHANGED snapshotVars
  BY <1>1 DEF snapshotVars, sets, operations, proxmox, Sent, Said, Verdict
<1>2. CASE SnapshotNext /\ UNCHANGED sent
  <2>1. Sent' = Sent
    BY <1>2 DEF Sent
  <2>2. Said' = [w \in Writes |-> Verdict(w[1], w[2])'] /\ Said' \in [Writes -> Journal!Verdicts]
    BY DEF Said, Verdict, Journal!Verdicts
  <2>3. ASSUME NEW w \in Writes, Said'[w] # Said[w]
        PROVE  Said[w] = "open" /\ (\/ Said'[w] = "never" /\ Sent[w] = 0
                                    \/ Said'[w] \in {"ok", "failed"} /\ Sent[w] = 1)
    <3>1. w[1] \in OpIds /\ w[2] \in Guests
      BY <2>3
    <3>2. Said[w] = Verdict(w[1], w[2]) /\ Said'[w] = Verdict(w[1], w[2])' /\ Sent[w] = sent[w[1]][w[2]]
      BY <2>2 DEF Said, Sent
    <3>3. Said'[w] \in {"open", "never", "ok", "failed"}
      BY <3>2 DEF Verdict
    <3>4. QED
      BY <1>2, <2>3, <3>1, <3>2, <3>3, VerdictsAreTrue
  <2>4. Journal!Conclude
    BY <2>1, <2>2, <2>3 DEF Journal!Conclude, Journal!Justified, Sent, Said
  <2>5. QED
    BY <2>4 DEF Journal!JournalNext
<1>3. ASSUME NEW o \in OpIds, NEW g \in Guests, Dispatches(o, g)
      PROVE  Journal!Send(<<o, g>>)
  <2> DEFINE w == <<o, g>>
  <2>1. w \in Writes /\ Sent[w] = sent[o][g] /\ Said[w] = Verdict(o, g) /\ Verdict(o, g) = "open" /\ sent[o][g] = 0
    BY <1>3 DEF Sent, Said, Dispatches, Verdict
  <2>2. Said' = Said
    BY <1>3 DEF Said, Dispatches, Verdict
  <2>3. Sent' = [Sent EXCEPT ![w] = 1]
    <3>1. sent \in [OpIds -> [Guests -> Nat]]
      BY DEF JournalInv, Typed, SnapshotTypeOK
    <3>2. \A v \in Writes : Sent'[v] = IF v = w THEN 1 ELSE Sent[v]
      BY <1>3, <3>1 DEF Sent, Dispatches
    <3>3. QED
      BY <2>1, <3>2 DEF Sent
  <2>4. QED
    BY <2>1, <2>2, <2>3 DEF Journal!Send, Sent, Said
<1>4. QED
  BY <1>1, <1>2, <1>3, WritesGoOut DEF Journal!JournalNext

\* The snapshot machinery implements the journal: every step sends one write
\* that was never sent, concludes what is true, or stutters.
THEOREM JournalImplementation == SnapshotSpec => NativeWritesAreJournaled
<1>1. SnapshotInit => Journal!JournalInit
  BY DEF SnapshotInit, Journal!JournalInit, Verdict
<1>2. JournalInv /\ [SnapshotNext]_snapshotVars =>
        [Journal!JournalNext]_<<[w \in OpIds \X Guests |-> sent[w[1]][w[2]]],
                                [w \in OpIds \X Guests |-> Verdict(w[1], w[2])]>>
  BY JournalStep DEF Sent, Said, Writes
<1>3. QED
  BY <1>1, <1>2, JournalInvariance, PTL DEF SnapshotSpec, NativeWritesAreJournaled, Journal!JournalSpec

-----------------------------------------------------------------------------
(* Sets and their snapshots.                                               *)

\* Two operations are never ongoing together.
LEMMA OneIsOngoing ==
  ASSUME Owned, NEW o \in OpIds, NEW p \in OpIds, opState[o] \in Ongoing, opState[p] \in Ongoing
  PROVE  o = p
BY DEF Owned

\* The set of an ongoing operation is in no state that a plan asks for.
LEMMA TakenIsNotReviewable ==
  ASSUME Typed, SetsFollowOperations, NEW o \in OpIds, opState[o] \in Ongoing
  PROVE  /\ plan[o].set \in SetIds /\ plan[o].kind \in Kinds
         /\ setState[plan[o].set] \in {"creating", "rolling_back", "deleting", "needs_review"}
         /\ \A p \in OpIds : opState[p] = "planned" => plan[p].set # plan[o].set
<1>1. plan[o].set \in SetIds /\ plan[o].kind \in Kinds
  BY DEF Typed, PlansAreWhole, Ongoing
<1>2. setState[plan[o].set] \in {"creating", "rolling_back", "deleting", "needs_review"}
  BY <1>1 DEF SetsFollowOperations, Ongoing, Taking, Kinds
<1>3. QED
  BY <1>1, <1>2 DEF SetsFollowOperations, Reviewable

\* What a step may do to plans and sets.
Plans == \E o \in OpIds, s \in SetIds, kind \in Kinds, members \in SUBSET Guests :
  /\ opState[o] = "absent"
  /\ opState' = [opState EXCEPT ![o] = "planned"]
  /\ plan'[o].set = s /\ plan'[o].kind = kind
  /\ \A p \in OpIds : p # o => plan'[p] = plan[p]
  /\ row' = [row EXCEPT ![o] = [g \in Guests |-> IF g \in members THEN "planned" ELSE "none"]]
  /\ kind = "create" => members = manifest
  /\ \/ kind = "create" /\ setState[s] = "absent" /\ setState' = [setState EXCEPT ![s] = "planned"]
     \/ kind # "create" /\ setState[s] \in Reviewable(kind) /\ setState' = setState
  /\ UNCHANGED <<proof, native, tampered>>

\* Whatever is planned, it is one operation more.
LEMMA PlanningPlans ==
  ASSUME Typed,
         PlanCreate \/ \E s \in SetIds : \/ \E kind \in {"rollback", "delete"} : PlanExisting(s, kind, NoPolicy)
                                         \/ PlanRetention(s)
  PROVE  Plans
<1> USE DEF sets, operations, process, proxmox, outside
<1>0. manifest \subseteq Guests
  BY ManifestsAssumption DEF Typed, SnapshotTypeOK
<1>1. CASE PlanCreate
  <2>1. PICK s \in Least(SetIds, setState), o \in Least(OpIds, opState) :
          /\ setState' = [setState EXCEPT ![s] = "planned"]
          /\ Insert(o, manifest, s, "create", draft.seen, Nothing, NoPolicy)
    BY <1>1 DEF PlanCreate
  <2>2. s \in SetIds /\ o \in OpIds /\ opState[o] = "absent" /\ setState[s] = "absent"
    BY <2>1 DEF Least
  <2>3. /\ plan'[o].set = s /\ plan'[o].kind = "create"
        /\ \A p \in OpIds : p # o => plan'[p] = plan[p]
    BY <2>1, <2>2 DEF Insert, Typed, SnapshotTypeOK
  <2>4. UNCHANGED <<proof, native, tampered>>
    BY <1>1 DEF PlanCreate
  <2>5. "create" \in Kinds
    BY DEF Kinds
  <2>6. QED
    BY <1>0, <2>1, <2>2, <2>3, <2>4, <2>5 DEF Plans, Insert
<1>2. ASSUME NEW s \in SetIds, NEW kind \in {"rollback", "delete"}, NEW keep, PlanExisting(s, kind, keep)
      PROVE  Plans
  <2> DEFINE members == {g \in manifest : native[g][s] # NoSnapshot}
             snapshots == [g \in Guests |-> native[g][s]]
  <2>1. PICK o \in Least(OpIds, opState) : Insert(o, members, s, kind, guest, snapshots, keep)
    BY <1>2 DEF PlanExisting
  <2>2. o \in OpIds /\ opState[o] = "absent" /\ setState[s] \in Reviewable(kind) /\ members \subseteq Guests
    BY <1>0, <1>2, <2>1 DEF Least, PlanExisting
  <2> HIDE DEF members, snapshots
  <2>3. /\ plan'[o].set = s /\ plan'[o].kind = kind
        /\ \A p \in OpIds : p # o => plan'[p] = plan[p]
    BY <2>1, <2>2 DEF Insert, Typed, SnapshotTypeOK
  <2>4. UNCHANGED <<proof, native, tampered, setState>>
    BY <1>2 DEF PlanExisting
  <2>5. kind \in Kinds /\ kind # "create"
    BY DEF Kinds
  <2>6. QED
    BY <2>1, <2>2, <2>3, <2>4, <2>5 DEF Plans, Insert
<1>3. QED
  BY <1>1, <1>2 DEF PlanRetention

\* Of the sets a plan changes the one it begins to create, and no other.
LEMMA PlansKeepSets ==
  ASSUME JournalInv, SetInv, Plans, manifest' = manifest
  PROVE  SetInv'
<1>1. PICK o \in OpIds, s \in SetIds, kind \in Kinds, members \in SUBSET Guests :
        /\ opState[o] = "absent"
        /\ opState' = [opState EXCEPT ![o] = "planned"]
        /\ plan'[o].set = s /\ plan'[o].kind = kind
        /\ \A p \in OpIds : p # o => plan'[p] = plan[p]
        /\ row' = [row EXCEPT ![o] = [g \in Guests |-> IF g \in members THEN "planned" ELSE "none"]]
        /\ kind = "create" => members = manifest
        /\ \/ kind = "create" /\ setState[s] = "absent" /\ setState' = [setState EXCEPT ![s] = "planned"]
           \/ kind # "create" /\ setState[s] \in Reviewable(kind) /\ setState' = setState
        /\ UNCHANGED <<proof, native, tampered>>
  BY DEF Plans
<1>2. /\ \A p \in OpIds : p # o => opState'[p] = opState[p] /\ plan'[p] = plan[p] /\ row'[p] = row[p]
      /\ opState'[o] = "planned"
      /\ \A g \in Guests : row'[o][g] = IF g \in members THEN "planned" ELSE "none"
  BY <1>1 DEF JournalInv, Typed, SnapshotTypeOK
<1>3. \A t \in SetIds : setState'[t] = setState[t] \/ (setState[t] = "absent" /\ setState'[t] = "planned" /\ t = s /\ kind = "create")
  BY <1>1 DEF JournalInv, Typed, SnapshotTypeOK
<1>4. SetsFollowOperations'
  <2> SUFFICES ASSUME NEW p \in OpIds
               PROVE  /\ opState'[p] = "running" => setState'[plan'[p].set] = Taking[plan'[p].kind]
                      /\ opState'[p] = "needs_review" => setState'[plan'[p].set] = "needs_review"
                      /\ opState'[p] = "planned" => setState'[plan'[p].set] \in
                           (IF plan'[p].kind = "create" THEN {"planned"} ELSE Reviewable(plan'[p].kind))
    BY DEF SetsFollowOperations, Taking, Reviewable
  <2>1. CASE p = o
    BY <1>1, <1>2, <2>1 DEF JournalInv, Typed, SnapshotTypeOK, Reviewable
  <2>2. CASE p # o /\ opState[p] # "absent"
    <3>1. plan[p].set \in SetIds /\ plan[p].kind \in Kinds
      BY <2>2 DEF JournalInv, Typed, PlansAreWhole
    <3>2. opState[p] \in {"running", "needs_review", "planned"} => setState[plan[p].set] # "absent"
      BY <3>1 DEF SetInv, SetsFollowOperations, Taking, Kinds, Reviewable
    <3>3. opState[p] \in {"running", "needs_review", "planned"} => setState'[plan[p].set] = setState[plan[p].set]
      BY <1>3, <3>1, <3>2
    <3>4. QED
      BY <1>2, <2>2, <3>3 DEF SetInv, SetsFollowOperations
  <2>3. CASE p # o /\ opState[p] = "absent"
    BY <1>2, <2>3
  <2>4. QED
    BY <2>1, <2>2, <2>3
<1>5. PlansAreUntouched' /\ CreationsAreWhole'
  BY <1>1, <1>2, ManifestsAssumption DEF SetInv, PlansAreUntouched, CreationsAreWhole, JournalInv, Typed, SnapshotTypeOK
<1>6. CreatedIsThere' /\ RollbacksKeep'
  BY <1>1, <1>2 DEF SetInv, CreatedIsThere, RollbacksKeep, Restorable, Ongoing
<1>7. CompleteIsRestorable'
  BY <1>1, <1>3 DEF SetInv, CompleteIsRestorable
<1>8. QED
  BY <1>4, <1>5, <1>6, <1>7 DEF SetInv

\* An execution takes its set and supersedes the other plans for it.
LEMMA ExecuteKeepsSets ==
  ASSUME JournalInv, SetInv, NEW o \in OpIds, Execute(o)
  PROVE  SetInv'
<1> USE DEF JournalInv, sets, operations, process, proxmox, outside
<1> DEFINE s == plan[o].set
<1>0. /\ s \in SetIds /\ plan[o].kind \in Kinds
      /\ \A p \in OpIds : opState[p] \notin Ongoing
  BY AcquirableIsIdle DEF Execute, Typed, PlansAreWhole
<1>1. /\ opState[o] = "planned" /\ opState'[o] = "running"
      /\ \A p \in OpIds : p # o =>
           \/ opState'[p] = opState[p] /\ (opState[p] = "planned" => plan[p].set # s)
           \/ opState[p] = "planned" /\ opState'[p] = "superseded"
      /\ setState' = [setState EXCEPT ![s] = Taking[plan[o].kind]]
      /\ UNCHANGED <<manifest, plan, row, proof, native, tampered>>
  BY DEF Execute, Typed, SnapshotTypeOK
<1>2. Taking[plan[o].kind] \in {"creating", "rolling_back", "deleting"}
  BY <1>0 DEF Kinds, Taking
<1>3. /\ setState'[s] = Taking[plan[o].kind]
      /\ \A t \in SetIds : t # s => setState'[t] = setState[t]
  BY <1>0, <1>1 DEF Typed, SnapshotTypeOK
<1> HIDE DEF s
<1>4. SetsFollowOperations'
  <2> SUFFICES ASSUME NEW p \in OpIds
               PROVE  /\ opState'[p] = "running" => setState'[plan[p].set] = Taking[plan[p].kind]
                      /\ opState'[p] = "needs_review" => setState'[plan[p].set] = "needs_review"
                      /\ opState'[p] = "planned" => setState'[plan[p].set] \in
                           (IF plan[p].kind = "create" THEN {"planned"} ELSE Reviewable(plan[p].kind))
    BY <1>1 DEF SetsFollowOperations, Taking, Reviewable
  <2>1. CASE p = o
    BY <1>1, <1>3, <2>1 DEF s
  <2>2. CASE p # o
    <3>1. opState'[p] \notin {"running", "needs_review"}
      BY <1>0, <1>1, <2>2 DEF Ongoing
    <3>2. opState'[p] = "planned" => opState[p] = "planned" /\ plan[p].set # s /\ plan[p].set \in SetIds
      BY <1>1, <2>2 DEF Typed, PlansAreWhole
    <3>3. QED
      BY <1>3, <3>1, <3>2 DEF SetInv, SetsFollowOperations
  <2>3. QED
    BY <2>1, <2>2
<1>5. PlansAreUntouched' /\ CreationsAreWhole'
  BY <1>1 DEF SetInv, PlansAreUntouched, CreationsAreWhole
<1>6. CreatedIsThere'
  <2>1. \A p \in OpIds : opState'[p] \in Ongoing => p = o
    BY <1>0, <1>1 DEF Ongoing
  <2>2. \A g \in Guests : row[o][g] # "succeeded"
    BY <1>1 DEF SetInv, PlansAreUntouched
  <2>3. manifest \subseteq Guests
    BY ManifestsAssumption DEF Typed, SnapshotTypeOK
  <2>4. QED
    BY <1>1, <2>1, <2>2, <2>3 DEF CreatedIsThere
<1>7. RollbacksKeep'
  <2>1. \A p \in OpIds : opState'[p] \in Ongoing => p = o
    BY <1>0, <1>1 DEF Ongoing
  <2>2. plan[o].kind = "rollback" => Restorable(s)
    BY <1>0, <1>1 DEF SetInv, SetsFollowOperations, Reviewable, CompleteIsRestorable, Restorable, s
  <2>3. QED
    BY <1>1, <2>1, <2>2 DEF RollbacksKeep, Restorable, s
<1>8. CompleteIsRestorable'
  BY <1>1, <1>2, <1>3 DEF SetInv, CompleteIsRestorable
<1>9. QED
  BY <1>4, <1>5, <1>6, <1>7, <1>8 DEF SetInv

\* The coroutine writes to guests what its own set asks for.
LEMMA CoroutineKeepsSets ==
  ASSUME JournalInv, SetInv, Coroutine
  PROVE  SetInv'
<1> USE DEF JournalInv, sets, operations, process, proxmox, outside
<1> DEFINE o == execution.op
<1>1. /\ o \in OpIds /\ opState[o] = "running"
      /\ UNCHANGED <<manifest, plan, proof, native, tampered>>
      /\ \A p \in OpIds : p # o => row'[p] = row[p]
      /\ \/ UNCHANGED <<opState, setState>>
         \/ /\ opState' = [opState EXCEPT ![o] = "needs_review"]
            /\ setState' = [setState EXCEPT ![plan[o].set] = "needs_review"]
  <2>1. execution.step # "idle" /\ o \in OpIds /\ opState[o] = "running"
    BY DEF Coroutine, GuardMember, GuardFails, NativeWrite, WriteFails, Accept, Unconfirm, Typed, ExecutionIsGuarded
  <2> HIDE DEF o
  <2>2. \A p \in OpIds : p # o => row'[p] = row[p]
    BY <2>1 DEF Coroutine, GuardMember, GuardFails, NativeWrite, WriteFails, Accept, Unconfirm, o, Typed, SnapshotTypeOK
  <2>3. QED
    BY <2>1, <2>2 DEF Coroutine, GuardMember, GuardFails, NativeWrite, WriteFails, Accept, Unconfirm, o
<1>2. SnapshotNext
  BY DEF SnapshotNext
<1>3. \A p \in OpIds, g \in Guests : RowMoves(p, g)
  BY <1>2, RowsMove
<1>4. ASSUME NEW g \in Guests, row'[o][g] = "succeeded"
      PROVE  row[o][g] = "succeeded"
  <2>1. row \in [OpIds -> [Guests -> {"none", "planned", "dispatching", "accepted",
                                      "unconfirmed"} \cup Closed]]
    BY DEF Typed, SnapshotTypeOK
  <2>2. CASE \E h \in Guests : GuardMember(h)
    BY <1>1, <1>4, <2>1, <2>2 DEF GuardMember
  <2>3. CASE NativeWrite \/ WriteFails
    BY <1>4, <2>3 DEF NativeWrite, WriteFails
  <2>4. CASE Accept
    BY <1>1, <1>4, <2>1, <2>4 DEF Accept
  <2>5. CASE GuardFails \/ Unconfirm
    <3>1. Abandon(o)[g] = "succeeded" => row[o][g] = "succeeded"
      BY DEF Abandon
    <3>2. row'[o][g] = Abandon(o)[g] \/ row'[o][g] = "unconfirmed"
      <4>1. row' = [row EXCEPT ![o] = Abandon(o)] \/ row' = [row EXCEPT ![o] = [Abandon(o) EXCEPT ![execution.guest] = "unconfirmed"]]
        BY <2>5 DEF GuardFails, Unconfirm
      <4>2. DOMAIN Abandon(o) = Guests
        BY DEF Abandon
      <4> HIDE DEF o
      <4>3. QED
        BY <1>1, <2>1, <4>1, <4>2
    <3>3. QED
      BY <1>4, <3>1, <3>2
  <2>6. QED
    BY <2>2, <2>3, <2>4, <2>5 DEF Coroutine
<1> HIDE DEF o
<1>5. /\ \A p \in OpIds : p # o => opState'[p] = opState[p]
      /\ opState'[o] \in Ongoing
      /\ plan[o].set \in SetIds /\ plan[o].kind \in Kinds
      /\ setState[plan[o].set] \in {"creating", "rolling_back", "deleting", "needs_review"}
      /\ \A p \in OpIds : opState[p] = "planned" => plan[p].set # plan[o].set
  <2>1. opState[o] \in Ongoing
    BY <1>1 DEF Ongoing
  <2>2. QED
    BY <1>1, <2>1, TakenIsNotReviewable DEF Typed, SnapshotTypeOK, SetInv, Ongoing
<1>6. \A p \in OpIds : p # o => opState[p] \notin Ongoing
  BY <1>1 DEF Owned, Ongoing
<1>7. \A t \in SetIds : t # plan[o].set => setState'[t] = setState[t]
  BY <1>1 DEF Typed, SnapshotTypeOK
<1>8. SetsFollowOperations'
  <2> SUFFICES ASSUME NEW p \in OpIds
               PROVE  /\ opState'[p] = "running" => setState'[plan[p].set] = Taking[plan[p].kind]
                      /\ opState'[p] = "needs_review" => setState'[plan[p].set] = "needs_review"
                      /\ opState'[p] = "planned" => setState'[plan[p].set] \in
                           (IF plan[p].kind = "create" THEN {"planned"} ELSE Reviewable(plan[p].kind))
    BY <1>1 DEF SetsFollowOperations, Taking, Reviewable
  <2>1. CASE p = o
    BY <1>1, <1>5, <2>1 DEF Typed, SnapshotTypeOK, SetInv, SetsFollowOperations
  <2>2. CASE p # o
    <3>1. opState'[p] = opState[p] /\ opState[p] \notin {"running", "needs_review"}
      BY <1>5, <1>6, <2>2 DEF Ongoing
    <3>2. opState[p] = "planned" => plan[p].set \in SetIds /\ setState'[plan[p].set] = setState[plan[p].set]
      BY <1>5, <1>7 DEF Typed, PlansAreWhole
    <3>3. QED
      BY <3>1, <3>2 DEF SetInv, SetsFollowOperations
  <2>3. QED
    BY <2>1, <2>2
<1>9. PlansAreUntouched'
  BY <1>1, <1>5 DEF SetInv, PlansAreUntouched, Ongoing
<1>10. CreationsAreWhole'
  <2>1. manifest \subseteq Guests
    BY ManifestsAssumption DEF Typed, SnapshotTypeOK
  <2>2. \A p \in OpIds : opState'[p] # "absent" => opState[p] # "absent"
    BY <1>1, <1>5
  <2>3. QED
    BY <1>1, <1>3, <2>1, <2>2 DEF SetInv, CreationsAreWhole, RowMoves
<1>11. CreatedIsThere'
  <2>1. manifest \subseteq Guests
    BY ManifestsAssumption DEF Typed, SnapshotTypeOK
  <2>2. \A p \in OpIds : opState'[p] \in Ongoing => p = o
    BY <1>5, <1>6
  <2>3. opState[o] \in Ongoing
    BY <1>1 DEF Ongoing
  <2>4. QED
    BY <1>1, <1>4, <2>1, <2>2, <2>3 DEF SetInv, CreatedIsThere
<1>12. RollbacksKeep'
  <2>1. \A p \in OpIds : opState'[p] \in Ongoing => opState[p] \in Ongoing
    BY <1>1, <1>5 DEF Ongoing
  <2>2. QED
    BY <1>1, <2>1 DEF SetInv, RollbacksKeep, Restorable
<1>13. CompleteIsRestorable'
  BY <1>1, <1>5, <1>7 DEF SetInv, CompleteIsRestorable, Typed, SnapshotTypeOK
<1>14. QED
  BY <1>8, <1>9, <1>10, <1>11, <1>12, <1>13 DEF SetInv

\* A set is complete only when all its snapshots were found.
LEMMA ReconcileKeepsSets ==
  ASSUME JournalInv, SetInv, NEW o \in OpIds, Reconcile(o)
  PROVE  SetInv'
<1> USE DEF JournalInv, sets, operations, process, proxmox, outside
<1> DEFINE s == plan[o].set
<1>1. PICK reading \in [Members(o) -> Closed \cup {"accepted", "unconfirmed"}] :
        /\ \A g \in Members(o) : reading[g] \in Readings(o, g)
        /\ row' = [row EXCEPT ![o] = [g \in Guests |-> IF g \in Members(o) THEN reading[g] ELSE "none"]]
        /\ LET results == {reading[g] : g \in Members(o)} IN
           \/ results \subseteq Closed /\ Close(o, results)
           \/ /\ ~(results \subseteq Closed)
              /\ IF "unconfirmed" \in results
                 THEN /\ opState' = [opState EXCEPT ![o] = "needs_review"]
                      /\ setState' = [setState EXCEPT ![s] = "needs_review"]
                 ELSE UNCHANGED <<opState, setState>>
              /\ UNCHANGED <<proof, owner>>
  BY DEF Reconcile
<1> DEFINE results == {reading[g] : g \in Members(o)}
<1>2. /\ opState[o] \in Ongoing
      /\ UNCHANGED <<manifest, plan, native, tampered, reviewed>>
  BY DEF Reconcile
<1>3. /\ \A p \in OpIds, g \in Guests : RowMoves(p, g)
      /\ \A p \in OpIds : p # o => opState'[p] = opState[p]
  BY ReconcileMovesRows
<1>4. /\ s \in SetIds /\ plan[o].kind \in Kinds
      /\ setState[s] \in {"creating", "rolling_back", "deleting", "needs_review"}
      /\ \A p \in OpIds : opState[p] = "planned" => plan[p].set # s
      /\ \A p \in OpIds : p # o => opState[p] \notin Ongoing
  BY <1>2, TakenIsNotReviewable, OneIsOngoing DEF SetInv
<1>5. /\ \A t \in SetIds : t # s => setState'[t] = setState[t]
      /\ \/ UNCHANGED <<opState, setState, proof>>
         \/ opState'[o] = "needs_review" /\ setState'[s] = "needs_review" /\ proof' = proof
         \/ /\ opState'[o] \notin Ongoing /\ opState'[o] \notin {"planned", "absent"}
            /\ Close(o, results) /\ setState'[s] = SetOutcome(plan[o].kind, Outcome(results))
  <2>1. CASE Close(o, results)
    <3>1. opState'[o] = Outcome(results) /\ Outcome(results) \in {"succeeded", "partial", "failed"}
      BY <1>4, <2>1, OutcomeIs DEF Close, Typed, SnapshotTypeOK
    <3>2. setState' = [setState EXCEPT ![s] = SetOutcome(plan[o].kind, Outcome(results))]
      BY <2>1 DEF Close
    <3> HIDE DEF s, results
    <3>3. QED
      BY <1>4, <2>1, <3>1, <3>2 DEF Typed, SnapshotTypeOK, Ongoing
  <2>2. CASE \/ UNCHANGED <<opState, setState, proof>>
             \/ /\ opState' = [opState EXCEPT ![o] = "needs_review"]
                /\ setState' = [setState EXCEPT ![s] = "needs_review"]
                /\ proof' = proof
    BY <1>4, <2>2 DEF Typed, SnapshotTypeOK
  <2>3. QED
    BY <1>1, <2>1, <2>2
<1>6. manifest \subseteq Guests
  BY ManifestsAssumption DEF Typed, SnapshotTypeOK
<1>7. ASSUME plan[o].kind = "create", NEW g \in manifest \ tampered, row'[o][g] = "succeeded"
      PROVE  native[g][s] # NoSnapshot
  <2>1. CASE row[o][g] = "succeeded"
    BY <1>2, <1>7, <2>1 DEF SetInv, CreatedIsThere
  <2>2. CASE row[o][g] # "succeeded"
    <3>1. row'[o][g] = reading[g] /\ g \in Members(o)
      <4>1. row'[o] = [h \in Guests |-> IF h \in Members(o) THEN reading[h] ELSE "none"]
        BY <1>1 DEF Typed, SnapshotTypeOK
      <4>2. QED
        BY <1>6, <1>7, <4>1
    <3>2. Verified(o, g)
      BY <1>1, <1>7, <2>2, <3>1 DEF Readings
    <3>3. native[g][s] = reviewed[s].seen[g].config
      BY <1>7, <3>2 DEF Verified
    <3>4. reviewed[s].seen[g].config \in Versions
      BY <1>4, <1>6 DEF Typed, SnapshotTypeOK, GuestStates
    <3>5. QED
      BY <3>3, <3>4, Values
  <2>3. QED
    BY <2>1, <2>2
<1> HIDE DEF s
<1>8. SetsFollowOperations'
  <2> SUFFICES ASSUME NEW p \in OpIds
               PROVE  /\ opState'[p] = "running" => setState'[plan[p].set] = Taking[plan[p].kind]
                      /\ opState'[p] = "needs_review" => setState'[plan[p].set] = "needs_review"
                      /\ opState'[p] = "planned" => setState'[plan[p].set] \in
                           (IF plan[p].kind = "create" THEN {"planned"} ELSE Reviewable(plan[p].kind))
    BY <1>2 DEF SetsFollowOperations, Taking, Reviewable
  <2>1. CASE p = o
    BY <1>2, <1>5, <2>1 DEF SetInv, SetsFollowOperations, s, Ongoing
  <2>2. CASE p # o
    <3>1. opState'[p] = opState[p] /\ opState[p] \notin {"running", "needs_review"}
      BY <1>3, <1>4, <2>2 DEF Ongoing
    <3>2. opState[p] = "planned" => plan[p].set \in SetIds /\ setState'[plan[p].set] = setState[plan[p].set]
      BY <1>4, <1>5 DEF Typed, PlansAreWhole
    <3>3. QED
      BY <3>1, <3>2 DEF SetInv, SetsFollowOperations
  <2>3. QED
    BY <2>1, <2>2
<1>9. PlansAreUntouched'
  <2>1. \A p \in OpIds : p # o => row'[p] = row[p]
    BY <1>1 DEF Typed, SnapshotTypeOK
  <2>2. opState'[o] \notin {"absent", "planned"}
    BY <1>2, <1>5 DEF Ongoing
  <2>3. QED
    BY <1>3, <2>1, <2>2 DEF SetInv, PlansAreUntouched
<1>10. CreationsAreWhole'
  <2>1. \A p \in OpIds : opState'[p] # "absent" => opState[p] # "absent"
    BY <1>2, <1>3 DEF Ongoing
  <2>2. QED
    BY <1>2, <1>3, <1>6, <2>1 DEF SetInv, CreationsAreWhole, RowMoves
<1>11. CreatedIsThere'
  <2>1. \A p \in OpIds : opState'[p] \in Ongoing => p = o
    BY <1>3, <1>4
  <2>2. QED
    BY <1>2, <1>7, <2>1 DEF CreatedIsThere, s
<1>12. RollbacksKeep'
  <2>1. \A p \in OpIds : opState'[p] \in Ongoing => p = o /\ proof' = proof
    BY <1>3, <1>4, <1>5
  <2>2. QED
    BY <1>2, <2>1 DEF SetInv, RollbacksKeep, Restorable
<1>13. CompleteIsRestorable'
  <2> SUFFICES ASSUME NEW t \in SetIds, setState'[t] = "complete", NEW g \in manifest \ tampered
               PROVE  native[g][t] # NoSnapshot /\ native[g][t] = proof'[t][g]
    BY <1>2 DEF CompleteIsRestorable
  <2>1. CASE t # s
    <3>1. setState[t] = "complete"
      BY <1>5, <2>1
    <3>2. proof'[t] = proof[t]
      BY <1>4, <1>5, <2>1 DEF Close, s, Typed, SnapshotTypeOK
    <3>3. QED
      BY <3>1, <3>2 DEF SetInv, CompleteIsRestorable
  <2>2. CASE t = s /\ Close(o, results) /\ setState'[s] = SetOutcome(plan[o].kind, Outcome(results))
    <3>1. CASE plan[o].kind = "rollback"
      BY <1>2, <2>2, <3>1 DEF Close, SetInv, RollbacksKeep, Restorable, s
    <3>2. CASE plan[o].kind = "create"
      <4>1. results = {"succeeded"}
        BY <2>2, <3>2 DEF SetOutcome, Outcome
      <4>2. row[o][g] # "none" /\ g \in Members(o)
        BY <1>2, <1>6, <3>2 DEF SetInv, CreationsAreWhole, Ongoing, Members
      <4>3. reading[g] = "succeeded"
        BY <4>1, <4>2
      <4>4. row'[o] = [h \in Guests |-> IF h \in Members(o) THEN reading[h] ELSE "none"]
        BY <1>1 DEF Typed, SnapshotTypeOK
      <4>5. row'[o][g] = "succeeded"
        BY <1>6, <4>2, <4>3, <4>4
      <4>6. proof' = [proof EXCEPT ![s] = [h \in Guests |->
                        IF row'[o][h] = "succeeded" THEN native[h][s] ELSE NoSnapshot]]
        BY <2>2, <3>2 DEF Close, s
      <4>7. proof'[s][g] = native[g][s]
        BY <1>4, <1>6, <4>5, <4>6 DEF Typed, SnapshotTypeOK
      <4>8. QED
        BY <1>7, <2>2, <3>2, <4>5, <4>7
    <3>3. CASE plan[o].kind = "delete"
      BY <2>2, <3>3 DEF SetOutcome
    <3>4. QED
      BY <1>4, <3>1, <3>2, <3>3 DEF Kinds
  <2>3. CASE t = s /\ ~(Close(o, results) /\ setState'[s] = SetOutcome(plan[o].kind, Outcome(results)))
    BY <1>4, <1>5, <2>3
  <2>4. QED
    BY <2>1, <2>2, <2>3
<1>14. QED
  BY <1>8, <1>9, <1>10, <1>11, <1>12, <1>13 DEF SetInv

\* Guests and their snapshots change: through the task of a member, or from outside.
LEMMA GuestsKeepSets ==
  ASSUME JournalInv, SetInv, NEW g \in Guests,
         RawWrite(g) \/ GuestChanges(g) \/ \E o \in OpIds : TaskEnds(o, g)
  PROVE  SetInv'
<1> USE DEF JournalInv, sets, operations, process, proxmox, outside
<1>1. UNCHANGED <<manifest, setState, opState, plan, row, proof>> /\ tampered \subseteq tampered'
  BY DEF RawWrite, GuestChanges, TaskEnds
<1>2. \/ native' = native
      \/ g \in tampered' /\ \E value : native' = [native EXCEPT ![g] = value]
      \/ \E o \in OpIds, v \in Snapshots :
           /\ opState[o] \in Ongoing
           /\ native' = [native EXCEPT ![g][plan[o].set] = v]
           /\ plan[o].kind = "delete" \/ (plan[o].kind = "create" /\ v # NoSnapshot)
  <2>1. CASE RawWrite(g) \/ GuestChanges(g)
    BY <2>1 DEF RawWrite, GuestChanges, Typed, SnapshotTypeOK
  <2>2. ASSUME NEW o \in OpIds, TaskEnds(o, g), native' # native
        PROVE  \E v \in Snapshots :
                 /\ opState[o] \in Ongoing
                 /\ native' = [native EXCEPT ![g][plan[o].set] = v]
                 /\ plan[o].kind = "delete" \/ (plan[o].kind = "create" /\ v # NoSnapshot)
    <3>1. opState[o] \in Ongoing
      BY <2>2 DEF TaskEnds, RowsAreTrue
    <3>2. Effect(o, g)
      BY <2>2 DEF TaskEnds
    <3>3. guest[g].config \in Versions
      BY DEF Typed, SnapshotTypeOK, GuestStates
    <3>4. CASE plan[o].kind = "create"
      <4>1. native' = [native EXCEPT ![g][plan[o].set] = guest[g].config]
        BY <3>2, <3>4 DEF Effect
      <4>2. QED
        BY <3>1, <3>3, <3>4, <4>1, Values
    <3>5. CASE plan[o].kind = "delete"
      <4>1. native' = [native EXCEPT ![g][plan[o].set] = NoSnapshot]
        BY <3>2, <3>5 DEF Effect
      <4>2. NoSnapshot \in Snapshots
        BY Values
      <4> HIDE DEF Typed, SnapshotTypeOK
      <4>3. WITNESS NoSnapshot \in Snapshots
      <4>4. QED
        BY <3>1, <3>5, <4>1
    <3>6. QED
      BY <2>2, <3>2, <3>4, <3>5 DEF Effect
  <2>3. QED
    BY <2>1, <2>2
<1>3. native \in [Guests -> [SetIds -> Snapshots]]
  BY DEF Typed, SnapshotTypeOK
<1>4. \A h \in Guests : h # g \/ g \in tampered' => h \in tampered' \/ native'[h] = native[h]
  BY <1>2, <1>3
<1>5. CASE native' = native \/ g \in tampered'
  <2>1. \A h \in Guests \ tampered' : native'[h] = native[h] /\ h \notin tampered
    BY <1>1, <1>4, <1>5
  <2>2. manifest \subseteq Guests
    BY ManifestsAssumption DEF Typed, SnapshotTypeOK
  <2>3. SetsFollowOperations' /\ PlansAreUntouched' /\ CreationsAreWhole'
    BY <1>1 DEF SetInv, SetsFollowOperations, PlansAreUntouched, CreationsAreWhole, Reviewable, Taking
  <2>4. CreatedIsThere' /\ RollbacksKeep' /\ CompleteIsRestorable'
    BY <1>1, <2>1, <2>2 DEF SetInv, CreatedIsThere, RollbacksKeep, CompleteIsRestorable, Restorable
  <2>5. QED
    BY <2>3, <2>4 DEF SetInv
<1>6. ASSUME NEW o \in OpIds, NEW v \in Snapshots, opState[o] \in Ongoing,
             native' = [native EXCEPT ![g][plan[o].set] = v],
             plan[o].kind = "delete" \/ (plan[o].kind = "create" /\ v # NoSnapshot)
      PROVE  SetInv'
  <2> DEFINE s == plan[o].set
  <2>1. /\ s \in SetIds
        /\ setState[s] # "complete"
        /\ \A p \in OpIds : opState[p] \in Ongoing => p = o
    BY <1>6, TakenIsNotReviewable, OneIsOngoing DEF SetInv
  <2>2. \A h \in Guests, t \in SetIds : (h = g /\ t = s /\ native'[h][t] = v) \/ native'[h][t] = native[h][t]
    BY <1>3, <1>6, <2>1
  <2> HIDE DEF s
  <2>3. manifest \subseteq Guests
    BY ManifestsAssumption DEF Typed, SnapshotTypeOK
  <2>4. SetsFollowOperations' /\ PlansAreUntouched' /\ CreationsAreWhole'
    BY <1>1 DEF SetInv, SetsFollowOperations, PlansAreUntouched, CreationsAreWhole, Reviewable, Taking
  <2>5. CreatedIsThere' /\ RollbacksKeep'
    BY <1>1, <1>6, <2>1, <2>2, <2>3 DEF SetInv, CreatedIsThere, RollbacksKeep, s
  <2>6. CompleteIsRestorable'
    BY <1>1, <2>1, <2>2, <2>3 DEF SetInv, CompleteIsRestorable
  <2>7. QED
    BY <2>4, <2>5, <2>6 DEF SetInv
<1>7. QED
  BY <1>2, <1>5, <1>6

\* No other step touches what the sets and their operations rest on, except
\* that a plan is withdrawn.
LEMMA OthersKeepSets ==
  ASSUME JournalInv, SetInv,
         \/ ObserveMembers \/ PlanRefused \/ DeployStarts \/ DeployEnds \/ TargetChanges \/ PolicyChanges
         \/ Crash \/ (\E o \in OpIds : CancelPlan(o)) \/ UNCHANGED snapshotVars
  PROVE  SetInv'
<1> USE DEF sets, operations, process, proxmox, outside
<1>1. UNCHANGED <<manifest, setState, plan, row, proof, native, tampered>>
  BY DEF ObserveMembers, PlanRefused, DeployStarts, DeployEnds, TargetChanges, PolicyChanges, Crash,
         CancelPlan, snapshotVars
<1>2. \A o \in OpIds : \/ opState'[o] = opState[o]
                       \/ opState[o] = "planned" /\ opState'[o] = "cancelled"
  BY DEF ObserveMembers, PlanRefused, DeployStarts, DeployEnds, TargetChanges, PolicyChanges, Crash,
         CancelPlan, snapshotVars, JournalInv, Typed, SnapshotTypeOK
<1>3. SetsFollowOperations'
  BY <1>1, <1>2 DEF SetInv, SetsFollowOperations, Taking, Reviewable
<1>4. PlansAreUntouched' /\ CreationsAreWhole'
  BY <1>1, <1>2 DEF SetInv, PlansAreUntouched, CreationsAreWhole
<1>5. CreatedIsThere' /\ RollbacksKeep'
  BY <1>1, <1>2 DEF SetInv, CreatedIsThere, RollbacksKeep, Restorable, Ongoing
<1>6. CompleteIsRestorable'
  BY <1>1 DEF SetInv, CompleteIsRestorable
<1>7. QED
  BY <1>3, <1>4, <1>5, <1>6 DEF SetInv

\* The invariant of the sets is kept ...
LEMMA SetsInductive ==
  ASSUME JournalInv, SetInv, [SnapshotNext]_snapshotVars
  PROVE  SetInv'
<1>1. manifest \subseteq Guests
  BY ManifestsAssumption DEF JournalInv, Typed, SnapshotTypeOK
<1>2. CASE \/ PlanCreate
           \/ \E s \in SetIds : \/ \E kind \in {"rollback", "delete"} : PlanExisting(s, kind, NoPolicy)
                                \/ PlanRetention(s)
  <2>1. Plans
    BY <1>2, PlanningPlans DEF JournalInv
  <2>2. manifest' = manifest
    BY <1>2 DEF PlanCreate, PlanExisting, PlanRetention, outside
  <2>3. QED
    BY <2>1, <2>2, PlansKeepSets
<1>3. CASE \/ Coroutine \/ \E o \in OpIds : Execute(o) \/ Reconcile(o)
  BY <1>3, CoroutineKeepsSets, ExecuteKeepsSets, ReconcileKeepsSets
<1>4. CASE \E g \in manifest : RawWrite(g) \/ GuestChanges(g) \/ \E o \in OpIds : TaskEnds(o, g)
  BY <1>1, <1>4, GuestsKeepSets
<1>5. CASE \/ ObserveMembers \/ PlanRefused \/ DeployStarts \/ DeployEnds \/ TargetChanges \/ PolicyChanges
           \/ Crash \/ (\E o \in OpIds : CancelPlan(o)) \/ UNCHANGED snapshotVars
  BY <1>5, OthersKeepSets
<1>6. QED
  BY <1>2, <1>3, <1>4, <1>5 DEF SnapshotNext

\* ... holds at the start ...
LEMMA SetsInitially == SnapshotInit => SetInv
BY DEF SnapshotInit, SetInv, SetsFollowOperations, PlansAreUntouched, CreationsAreWhole, CreatedIsThere,
       RollbacksKeep, CompleteIsRestorable, Ongoing

\* ... and always, together with that of the journal.
THEOREM SetsInvariance == SnapshotSpec => [](JournalInv /\ SetInv)
<1>1. SnapshotInit => SetInv
  BY SetsInitially
<1>2. JournalInv /\ SetInv /\ [SnapshotNext]_snapshotVars => SetInv'
  BY SetsInductive
<1>3. SnapshotSpec => []JournalInv
  BY JournalInvariance
<1>4. QED
  BY <1>1, <1>2, <1>3, PTL DEF SnapshotSpec

\* A set that the API calls complete can be restored: every member that
\* nobody tampered with still has the recorded snapshot, through lost answers,
\* crashes, later deletions and rollbacks of other sets, and reconciliation.
THEOREM CompleteIsRestorableHolds == SnapshotSpec => []CompleteIsRestorable
<1>1. JournalInv /\ SetInv => CompleteIsRestorable
  BY DEF SetInv
<1>2. QED
  BY <1>1, SetsInvariance, PTL

-----------------------------------------------------------------------------
(* Retention.                                                              *)

CompleteSets == {s \in SetIds : setState[s] = "complete"}

\* More complete sets are no fewer.
LEMMA MoreAreNoFewer ==
  ASSUME NEW few \in SUBSET SetIds, NEW many \in SUBSET SetIds, few \subseteq many
  PROVE  /\ Cardinality(few) \in Nat /\ Cardinality(many) \in Nat
         /\ Cardinality(few) <= Cardinality(many)
<1>1. IsFiniteSet(few) /\ IsFiniteSet(many)
  BY SetIdsAssumption, FS_Subset
<1>2. QED
  BY <1>1, FS_Subset, FS_CardinalityType

\* While an operation is ongoing no set stops being complete: the only set
\* whose state changes is its own, which is not, or one that is planned anew.
LEMMA CompleteSetsStay ==
  ASSUME JournalInv, SetInv, [SnapshotNext]_snapshotVars,
         NEW o \in OpIds, opState[o] \in Ongoing, opState'[o] \in Ongoing
  PROVE  CompleteSets \subseteq CompleteSets' /\ plan'[o] = plan[o]
<1> USE DEF sets, operations, process, proxmox, outside
<1>0. opState[o] # "absent"
  BY DEF Ongoing
<1>1. CASE \/ PlanCreate
           \/ \E s \in SetIds : \/ \E kind \in {"rollback", "delete"} : PlanExisting(s, kind, NoPolicy)
                                \/ PlanRetention(s)
  <2>1. Plans
    BY <1>1, PlanningPlans DEF JournalInv
  <2>2. QED
    BY <1>0, <2>1 DEF Plans, CompleteSets, JournalInv, Typed, SnapshotTypeOK
<1>2. CASE \E p \in OpIds : Execute(p)
  BY <1>2, AcquirableIsIdle DEF Execute, JournalInv
<1>3. CASE Coroutine
  <2>1. /\ plan' = plan
        /\ execution.op \in OpIds /\ opState[execution.op] = "running"
        /\ \/ setState' = setState
           \/ setState' = [setState EXCEPT ![plan[execution.op].set] = "needs_review"]
    BY <1>3 DEF Coroutine, GuardMember, GuardFails, NativeWrite, WriteFails, Accept, Unconfirm,
                JournalInv, Typed, ExecutionIsGuarded
  <2>2. opState[execution.op] \in Ongoing
    BY <2>1 DEF Ongoing
  <2>3. setState[plan[execution.op].set] # "complete" /\ plan[execution.op].set \in SetIds
    BY <2>1, <2>2, TakenIsNotReviewable DEF JournalInv, SetInv
  <2>4. \A t \in SetIds : t # plan[execution.op].set => setState'[t] = setState[t]
    BY <2>1, <2>3 DEF JournalInv, Typed, SnapshotTypeOK
  <2>5. QED
    BY <2>1, <2>3, <2>4 DEF CompleteSets
<1>4. ASSUME NEW p \in OpIds, Reconcile(p)
      PROVE  CompleteSets \subseteq CompleteSets' /\ plan'[o] = plan[o]
  <2>1. p = o /\ plan' = plan
    BY <1>4, OneIsOngoing DEF Reconcile, JournalInv
  <2>2. setState[plan[o].set] # "complete" /\ plan[o].set \in SetIds /\ plan[o].kind \in Kinds
    BY <1>0, TakenIsNotReviewable DEF JournalInv, Typed, PlansAreWhole, SetInv
  <2>3. \A t \in SetIds : t # plan[o].set => setState'[t] = setState[t]
    <3>1. \/ setState' = setState
          \/ \E v : setState' = [setState EXCEPT ![plan[o].set] = v]
      <4>1. Reconcile(o)
        BY <1>4, <2>1
      <4> DEFINE close(results) == Close(o, results)
      <4>2. \/ setState' = setState
            \/ setState' = [setState EXCEPT ![plan[o].set] = "needs_review"]
            \/ \E results : close(results)
        BY <4>1 DEF Reconcile
      <4>3. QED
        BY <4>2 DEF Close
    <3>2. QED
      BY <2>2, <3>1 DEF JournalInv, Typed, SnapshotTypeOK
  <2>4. QED
    BY <2>1, <2>2, <2>3 DEF CompleteSets
<1>5. CASE \/ ObserveMembers \/ PlanRefused \/ DeployStarts \/ DeployEnds \/ TargetChanges \/ PolicyChanges
           \/ Crash \/ (\E p \in OpIds : CancelPlan(p)) \/ UNCHANGED snapshotVars
           \/ \E g \in manifest : RawWrite(g) \/ GuestChanges(g) \/ \E p \in OpIds : TaskEnds(p, g)
  <2>1. UNCHANGED <<setState, plan>>
    BY <1>5 DEF ObserveMembers, PlanRefused, DeployStarts, DeployEnds, TargetChanges, PolicyChanges, Crash,
                CancelPlan, RawWrite, GuestChanges, TaskEnds, snapshotVars
  <2>2. QED
    BY <2>1 DEF CompleteSets
<1>6. QED
  BY <1>1, <1>2, <1>3, <1>4, <1>5 DEF SnapshotNext

\* An operation becomes ongoing by being executed and in no other way.
LEMMA OngoingWasExecuted ==
  ASSUME JournalInv, [SnapshotNext]_snapshotVars,
         NEW o \in OpIds, opState[o] \notin Ongoing, opState'[o] \in Ongoing
  PROVE  Execute(o)
<1> USE DEF sets, operations, process, proxmox, outside
<1>1. CASE \/ PlanCreate
           \/ \E s \in SetIds : \/ \E kind \in {"rollback", "delete"} : PlanExisting(s, kind, NoPolicy)
                                \/ PlanRetention(s)
  <2>1. Plans
    BY <1>1, PlanningPlans DEF JournalInv
  <2>2. QED
    BY <2>1 DEF Plans, JournalInv, Typed, SnapshotTypeOK, Ongoing
<1>2. ASSUME NEW p \in OpIds, Execute(p)
      PROVE  Execute(o)
  BY <1>2 DEF Execute, Ongoing
<1>3. CASE Coroutine
  <2>1. execution.op \in OpIds /\ opState[execution.op] = "running"
    BY <1>3 DEF Coroutine, GuardMember, GuardFails, NativeWrite, WriteFails, Accept, Unconfirm,
                JournalInv, Typed, ExecutionIsGuarded
  <2>2. opState' = opState \/ opState' = [opState EXCEPT ![execution.op] = "needs_review"]
    BY <1>3 DEF Coroutine, GuardMember, GuardFails, NativeWrite, WriteFails, Accept, Unconfirm
  <2>3. QED
    BY <2>1, <2>2 DEF Ongoing, JournalInv, Typed, SnapshotTypeOK
<1>4. ASSUME NEW p \in OpIds, Reconcile(p)
      PROVE  FALSE
  <2>1. opState[p] \in Ongoing
    BY <1>4 DEF Reconcile
  <2>2. p # o => opState'[o] = opState[o]
    BY <1>4, ReconcileMovesRows
  <2>3. QED
    BY <2>1, <2>2
<1>5. CASE \/ ObserveMembers \/ PlanRefused \/ DeployStarts \/ DeployEnds \/ TargetChanges \/ PolicyChanges
           \/ Crash \/ (\E p \in OpIds : CancelPlan(p)) \/ UNCHANGED snapshotVars
           \/ \E g \in manifest : RawWrite(g) \/ GuestChanges(g) \/ \E p \in OpIds : TaskEnds(p, g)
  BY <1>5 DEF ObserveMembers, PlanRefused, DeployStarts, DeployEnds, TargetChanges, PolicyChanges, Crash,
              CancelPlan, RawWrite, GuestChanges, TaskEnds, snapshotVars, JournalInv, Typed, SnapshotTypeOK, Ongoing
<1>6. QED
  BY <1>1, <1>2, <1>3, <1>4, <1>5 DEF SnapshotNext

\* A deletion by retention counts the complete sets as it begins, and nobody takes one away before it ends.
LEMMA RetentionInductive ==
  ASSUME JournalInv, SetInv, RetentionKeeps, [SnapshotNext]_snapshotVars
  PROVE  RetentionKeeps'
<1> SUFFICES ASSUME NEW o \in OpIds, opState'[o] \in Ongoing, plan'[o].policy # NoPolicy
             PROVE  Cardinality(CompleteSets') >= plan'[o].policy
  BY DEF RetentionKeeps, CompleteSets
<1> DEFINE keep == plan[o].policy
<1>0. CompleteSets \subseteq SetIds /\ CompleteSets' \subseteq SetIds
  BY DEF CompleteSets
<1>1. opState[o] # "absent" /\ keep # NoPolicy => keep \in Nat
  BY KeepCountsAssumption DEF JournalInv, Typed, SnapshotTypeOK
<1>2. CASE opState[o] \in Ongoing
  <2>1. CompleteSets \subseteq CompleteSets' /\ plan'[o] = plan[o]
    BY <1>2, CompleteSetsStay
  <2>2. Cardinality(CompleteSets) >= keep
    BY <1>2, <2>1 DEF RetentionKeeps, CompleteSets
  <2>3. /\ Cardinality(CompleteSets) \in Nat /\ Cardinality(CompleteSets') \in Nat
        /\ Cardinality(CompleteSets) <= Cardinality(CompleteSets')
    BY <1>0, <2>1, MoreAreNoFewer
  <2>4. keep \in Nat
    BY <1>1, <1>2, <2>1 DEF Ongoing
  <2>5. QED
    BY <2>1, <2>2, <2>3, <2>4
<1>3. CASE opState[o] \notin Ongoing
  <2> DEFINE s == plan[o].set
             newer == {n \in SetIds : n > s /\ setState[n] = "complete"}
  <2>1. /\ opState[o] = "planned" /\ plan' = plan /\ RetentionHolds(s, keep)
        /\ setState' = [setState EXCEPT ![s] = Taking[plan[o].kind]]
    BY <1>3, OngoingWasExecuted DEF Execute, operations
  <2>2. Cardinality(newer) >= keep /\ s \in SetIds
    BY <2>1 DEF RetentionHolds, RetentionCandidates
  <2>3. \A n \in newer : n # s
    BY <2>2, SetIdsAssumption
  <2>4. newer \subseteq CompleteSets'
    BY <2>1, <2>2, <2>3 DEF CompleteSets, JournalInv, Typed, SnapshotTypeOK
  <2>5. newer \subseteq SetIds
    OBVIOUS
  <2> HIDE DEF newer
  <2>6. /\ Cardinality(newer) \in Nat /\ Cardinality(CompleteSets') \in Nat
        /\ Cardinality(newer) <= Cardinality(CompleteSets')
    BY <1>0, <2>4, <2>5, MoreAreNoFewer
  <2>7. keep \in Nat
    BY <1>1, <2>1
  <2>8. QED
    BY <2>1, <2>2, <2>6, <2>7
<1>4. QED
  BY <1>2, <1>3

\* A deletion that the retention policy asked for never leaves fewer complete
\* sets than the policy keeps: it is decided again at its first transaction,
\* and until it is closed nothing else takes a complete set away.
THEOREM RetentionKeepsHolds == SnapshotSpec => []RetentionKeeps
<1>1. SnapshotInit => RetentionKeeps
  BY DEF SnapshotInit, RetentionKeeps, Ongoing
<1>2. JournalInv /\ SetInv /\ RetentionKeeps /\ [SnapshotNext]_snapshotVars => RetentionKeeps'
  BY RetentionInductive
<1>3. SnapshotSpec => [](JournalInv /\ SetInv)
  BY SetsInvariance
<1>4. QED
  BY <1>1, <1>2, <1>3, PTL DEF SnapshotSpec

=============================================================================
