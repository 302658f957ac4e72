----------------------- MODULE AttemptLifecycleProofs -----------------------
(* Theorems of AttemptLifecycle for every value of its constants.          *)
EXTENDS AttemptLifecycle, TLAPS

\* Finish keeps the types of the rows and locks it writes.
LEMMA FinishType ==
  ASSUME TypeOK, NEW a \in Att, NEW outcome \in Terminal, Finish(a, outcome)
  PROVE  /\ state' \in [Att -> {"none"} \cup Active \cup Terminal]
         /\ depState' \in [Dep -> Active \cup Terminal]
         /\ lock' \in [Dep -> Att \cup {Null}]
         /\ stale' \in SUBSET Dep
         /\ UNCHANGED <<deployment, scope, cancelled, current>>
<1> DEFINE final == IF state[a] \in Terminal THEN state[a]
                    ELSE IF a \in cancelled THEN "cancelled" ELSE outcome
<1>1. final \in Terminal
  BY DEF Terminal
<1>2. QED
  BY <1>1 DEF TypeOK, Finish

\* Proceed takes one row from the pass and keeps the pass a pass.
Passes == [todo : SUBSET Att, cancelSeen : SUBSET Att, at : Att \cup {Null}]
\* A pass that goes on is one, with less to do.
LEMMA ProceedType ==
  ASSUME pass \in Passes, NEW a, NEW next \in Att \cup {Null}, Proceed(a, next)
  PROVE  /\ pass' \in Passes
         /\ pass'.todo \subseteq pass.todo
         /\ pass'.at = next
BY DEF Passes, Proceed, NoPass

\* Every variable keeps its type in every step.
LEMMA TypeInductive == TypeOK /\ [Next]_vars => TypeOK'
<1> SUFFICES ASSUME TypeOK, [Next]_vars PROVE TypeOK'
  OBVIOUS
<1> USE DEF rows, locks, processes, requests
<1>1. ASSUME NEW d \in Dep,
             VetTeardown(d) \/ RefuseTeardown(d) \/ ReadForCancel(d) \/ Heartbeat(d) \/ HeartbeatExpires(d)
      PROVE  TypeOK'
  <2>1. CASE ReadForCancel(d)
    <3>1. request' \in [att : Att \cup {Null}, pending : BOOLEAN]
      <4>1. current[d] \in Att \cup {Null} /\ (state[current[d]] = "pending") \in BOOLEAN
        BY DEF TypeOK
      <4>2. QED
        BY <2>1, <4>1 DEF ReadForCancel
    <3>2. QED
      BY <2>1, <3>1 DEF ReadForCancel, TypeOK
  <2>2. CASE VetTeardown(d) \/ RefuseTeardown(d) \/ Heartbeat(d) \/ HeartbeatExpires(d)
    BY <2>2 DEF VetTeardown, RefuseTeardown, Heartbeat, HeartbeatExpires, TypeOK
  <2>3. QED
    BY <1>1, <2>1, <2>2
<1>2. ASSUME NEW d \in Dep, NEW a \in Att, NEW k \in Scopes, Reserve(d, a, k)
      PROVE  TypeOK'
  BY <1>2 DEF Reserve, Become, TypeOK, Tasks, Active
<1>3. ASSUME NEW a \in Att, Setup(a)
      PROVE  TypeOK'
  <2>1. CASE StartAttempt(a) \/ StartRefused(a) \/ AcquireLock(a)
    BY <2>1 DEF StartAttempt, StartRefused, AcquireLock, Become, TypeOK, Tasks, Starting
  <2>2. CASE CreateSecrets(a) \/ RecordCleanup(a) \/ SetupFails(a)
    BY <2>2 DEF CreateSecrets, RecordCleanup, SetupFails, Become, CloseFlock, TypeOK, Tasks, Starting
  <2>3. CASE Spawn(a) \/ Publish(a) \/ PublishFails(a)
    BY <2>3 DEF Spawn, Publish, PublishFails, Become, CloseFlock, TypeOK, Tasks, Starting
  <2>4. CASE MarkRunning(a)
    BY <2>4 DEF MarkRunning, Become, CloseFlock, TypeOK, Tasks, Observing, Active
  <2>5. CASE MarkRefused(a) \/ MarkFails(a)
    BY <2>5 DEF MarkRefused, MarkFails, Kill, Ending, Become, CloseFlock, TypeOK, Tasks, Starting
  <2>6. CASE FinishFailed(a)
    BY <2>6, FinishType DEF FinishFailed, Become, CloseFlock, TypeOK, Tasks, Terminal
  <2>7. QED
    BY <1>3, <2>1, <2>2, <2>3, <2>4, <2>5, <2>6 DEF Setup
<1>4. ASSUME NEW a \in Att, RunnerExits(a)
      PROVE  TypeOK'
  BY <1>4 DEF RunnerExits, Ending, TypeOK
<1>5. ASSUME NEW a \in Att, Observe(a)
      PROVE  TypeOK'
  <2>1. CASE ObserveExit(a) \/ AdoptedExit(a)
    BY <2>1 DEF ObserveExit, AdoptedExit, CleanupRecorded, Become, TypeOK, Tasks, Observing
  <2>2. CASE FinishRun(a)
    BY <2>2, FinishType DEF FinishRun, Outcomes, Become, TypeOK, Tasks, Terminal
  <2>3. CASE MonitorFails(a)
    BY <2>3 DEF MonitorFails, Become, TypeOK, Tasks, Starting
  <2>4. CASE FinishAdopted(a)
    BY <2>4, FinishType DEF FinishAdopted, RecoveredOutcome, Outcomes, Become, TypeOK, Tasks, Terminal
  <2>5. CASE TaskDies(a)
    BY <2>5 DEF TaskDies, CloseFlock, Become, TypeOK, Tasks
  <2>6. QED
    BY <1>5, <2>1, <2>2, <2>3, <2>4, <2>5 DEF Observe
<1>6. ASSUME NEW a \in Att, Recover(a)
      PROVE  TypeOK'
  <2>1. CASE PassSkips(a) \/ PassRecovers(a)
    <3>1. pass' \in Passes
      BY <2>1, ProceedType DEF PassSkips, PassRecovers, Passes, TypeOK
    <3>2. QED
      BY <2>1, <3>1 DEF PassSkips, PassRecovers, CleanupRecorded, Passes, TypeOK
  <2>2. CASE PassAdopts(a)
    <3>1. pass' \in Passes
      BY <2>2, ProceedType DEF PassAdopts, Passes, TypeOK
    <3>2. lock' \in [Dep -> Att \cup {Null}] /\ task' \in [Att -> Tasks]
      BY <2>2 DEF PassAdopts, TypeOK, Tasks, Observing
    <3>3. QED
      BY <2>2, <3>1, <3>2 DEF PassAdopts, Passes, TypeOK
  <2>3. CASE PassFinishes(a)
    BY <2>3, FinishType DEF PassFinishes, RecoveredOutcome, Outcomes, NoPass, TypeOK, Terminal
  <2>4. QED
    BY <1>6, <2>1, <2>2, <2>3 DEF Recover
<1>7. ASSUME NEW a \in Att, Detach(a)
      PROVE  TypeOK'
  BY <1>7 DEF Detach, CloseFlock, Become, TypeOK, Tasks
<1>8. CASE Cancel \/ CancelRefused
  <2>1. NoRequest \in [att : Att \cup {Null}, pending : BOOLEAN]
    BY DEF NoRequest
  <2>2. request'= NoRequest
    BY <1>8 DEF Cancel, CancelRefused
  <2>3. QED
    BY <1>8, <2>1, <2>2 DEF Cancel, CancelRefused, TypeOK
<1>9. CASE PassStarts \/ PassAborts
  BY <1>9 DEF PassStarts, PassAborts, Unfinished, NoPass, TypeOK
<1>10. CASE BeginShutdown \/ Stopped \/ Crash \/ Boot
  <2>1. /\ NoRequest \in [att : Att \cup {Null}, pending : BOOLEAN]
        /\ NoPass \in [todo : SUBSET Att, cancelSeen : SUBSET Att, at : Att \cup {Null}]
    BY DEF NoRequest, NoPass
  <2>2. QED
    BY <1>10, <2>1 DEF BeginShutdown, Stopped, Crash, Forget, Boot, TypeOK, Tasks
<1>11. ASSUME NEW a \in Att, FinishAgain(a)
       PROVE  TypeOK'
  BY <1>11, FinishType DEF FinishAgain, TypeOK, Terminal
<1>12. CASE UNCHANGED vars
  BY <1>12 DEF vars, TypeOK
<1>13. QED
  BY <1>1, <1>2, <1>3, <1>4, <1>5, <1>6, <1>7, <1>8, <1>9, <1>10, <1>11, <1>12 DEF Next

\* Every variable has its type in every reachable state.
THEOREM TypeCorrect == Spec => []TypeOK
<1>1. Init => TypeOK
  BY DEF Init, TypeOK, NoRequest, NoPass, Tasks, Active
<1>2. QED
  BY <1>1, TypeInductive, PTL DEF Spec

-----------------------------------------------------------------------------
(* The inductive invariant.                                                *)

\* A transaction that finishes an attempt whose process is gone and whose
\* files are clean keeps the invariant, whoever runs it.
LEMMA FinishKeeps ==
  ASSUME IInv, NEW a \in Att, NEW outcome \in Terminal, Finish(a, outcome),
         state[a] # "none", Closing(a),
         task' = [task EXCEPT ![a] = "none"],
         UNCHANGED <<runner, published, secrets>>, again' \subseteq again \cup {a},
         pass'.todo = pass.todo, pass'.at # a, pass'.at \in {Null, pass.at}
  PROVE  Bookkeeping' /\ Ownership'
<1> USE NullAssumption DEF IInv, TypeOK, Active, Terminal
<1>1. state' \in [Att -> {"none"} \cup Active \cup Terminal] /\ state'[a] \in Terminal
      /\ \A b \in Att \ {a} : state'[b] = state[b]
  BY DEF Finish
<1>2. \A d \in Dep : lock'[d] = (IF lock[d] = a THEN Null ELSE lock[d])
  BY DEF Finish, Bookkeeping, WellFormed, Ownership, LockOwnership
<1>3. \A d \in Dep : depState'[d] = (IF current[d] = a THEN state'[a] ELSE depState[d])
  BY DEF Finish, Bookkeeping, WellFormed
<1>4. UNCHANGED <<deployment, scope, current>>
  BY DEF Finish
<1>5. Bookkeeping'
  BY <1>1, <1>4 DEF Bookkeeping, WellFormed, TasksAreLive, Live, ProcessesFollowSpawn,
     ClosingIsClean, Closing, ProcessMatches
<1>6. OnlyCurrentIsActive' /\ DeploymentMirrorsAttempt' /\ LockOwnership'
  BY <1>1, <1>2, <1>3, <1>4 DEF Bookkeeping, WellFormed, Ownership, OnlyCurrentIsActive,
     DeploymentMirrorsAttempt, LockOwnership, Live
<1>7. WorkspaceExclusion' /\ SecretsUnderLock'
  <2>1. ~ProcessMatches(a) /\ secrets[a] # "recorded"
    BY DEF Bookkeeping, ClosingIsClean
  <2>2. ASSUME NEW b \in Att, b # a, lock[deployment[b]] = b, state[b] # "none"
        PROVE  lock'[deployment[b]] = b
    BY <1>2, <2>2 DEF Bookkeeping, WellFormed
  <2>3. QED
    BY <1>4, <2>1, <2>2 DEF Bookkeeping, WellFormed, ProcessesFollowSpawn, Ownership,
       WorkspaceExclusion, Working, Owning, Observing, ProcessMatches, SecretsUnderLock
<1>8. QED
  BY <1>5, <1>6, <1>7 DEF Ownership

\* Setup steps move one task along; they own the workspace lock from
\* AcquireLock on, and the process exists from Spawn on.
LEMMA SetupKeeps ==
  ASSUME IInv, TypeOK', NEW a \in Att, Setup(a)
  PROVE  Bookkeeping' /\ Ownership'
<1> USE NullAssumption DEF IInv, TypeOK, rows, locks, processes, requests, Become, Active,
        Terminal, Owning, Observing, ProcessMatches, Live
<1> DEFINE Invariants == /\ WellFormed /\ TasksAreLive /\ ProcessesFollowSpawn
                         /\ ClosingIsClean /\ OnlyCurrentIsActive
                         /\ DeploymentMirrorsAttempt /\ LockOwnership
                         /\ WorkspaceExclusion /\ SecretsUnderLock
<1>0. Invariants
  BY DEF Bookkeeping, Ownership
<1> SUFFICES Invariants'
  BY DEF Bookkeeping, Ownership
<1>1. CASE StartAttempt(a) \/ StartRefused(a)
  BY <1>0, <1>1 DEF StartAttempt, StartRefused, WellFormed, TasksAreLive, ProcessesFollowSpawn,
     ClosingIsClean, Closing, OnlyCurrentIsActive, DeploymentMirrorsAttempt, LockOwnership,
     WorkspaceExclusion, Working, SecretsUnderLock
<1>2. CASE AcquireLock(a)
  <2>1. lock[deployment[a]] \in {Null, a}
    BY <1>0, <1>2 DEF AcquireLock, TasksAreLive, WellFormed, OnlyCurrentIsActive, LockOwnership
  <2>2. QED
    BY <1>0, <1>2, <2>1 DEF AcquireLock, WellFormed, TasksAreLive, ProcessesFollowSpawn,
       ClosingIsClean, Closing, OnlyCurrentIsActive, DeploymentMirrorsAttempt, LockOwnership,
       WorkspaceExclusion, Working, SecretsUnderLock
<1>3. CASE CreateSecrets(a) \/ RecordCleanup(a) \/ Spawn(a) \/ Publish(a)
  BY <1>0, <1>3 DEF CreateSecrets, RecordCleanup, Spawn, Publish, WellFormed, TasksAreLive,
     ProcessesFollowSpawn, ClosingIsClean, Closing, OnlyCurrentIsActive,
     DeploymentMirrorsAttempt, LockOwnership, WorkspaceExclusion, Working, SecretsUnderLock
<1>4. CASE SetupFails(a) \/ PublishFails(a)
  BY <1>0, <1>4 DEF SetupFails, PublishFails, WellFormed, TasksAreLive, ProcessesFollowSpawn,
     ClosingIsClean, Closing, OnlyCurrentIsActive, DeploymentMirrorsAttempt, LockOwnership,
     WorkspaceExclusion, Working, SecretsUnderLock
<1>5. CASE MarkRunning(a)
  BY <1>0, <1>5 DEF MarkRunning, WellFormed, TasksAreLive, ProcessesFollowSpawn,
     ClosingIsClean, Closing, OnlyCurrentIsActive, DeploymentMirrorsAttempt, LockOwnership,
     WorkspaceExclusion, Working, SecretsUnderLock
<1>6. CASE MarkRefused(a) \/ MarkFails(a)
  BY <1>0, <1>6 DEF MarkRefused, MarkFails, Kill, WellFormed, TasksAreLive,
     ProcessesFollowSpawn, ClosingIsClean, Closing, OnlyCurrentIsActive,
     DeploymentMirrorsAttempt, LockOwnership, WorkspaceExclusion, Working, SecretsUnderLock
<1>7. CASE FinishFailed(a)
  <2>1. Closing(a) /\ state[a] # "none" /\ pass.at # a
    BY <1>0, <1>7 DEF FinishFailed, Closing, TasksAreLive
  <2>2. QED
    BY <1>7, <2>1, FinishKeeps DEF FinishFailed, Bookkeeping, Ownership
<1>8. QED
  BY <1>1, <1>2, <1>3, <1>4, <1>5, <1>6, <1>7 DEF Setup

\* Observers clean up before they finish, and finish what they own.
LEMMA ObserveKeeps ==
  ASSUME IInv, TypeOK', NEW a \in Att, Observe(a)
  PROVE  Bookkeeping' /\ Ownership'
<1> USE NullAssumption DEF IInv, TypeOK, rows, locks, processes, requests, Become, Active,
        Terminal, Owning, Observing, ProcessMatches, Live, Bookkeeping, Ownership
<1>1. CASE ObserveExit(a) \/ AdoptedExit(a)
  BY <1>1 DEF ObserveExit, AdoptedExit, CleanupRecorded, WellFormed, TasksAreLive,
     ProcessesFollowSpawn, ClosingIsClean, Closing, OnlyCurrentIsActive,
     DeploymentMirrorsAttempt, LockOwnership, WorkspaceExclusion, Working, SecretsUnderLock
<1>2. CASE MonitorFails(a)
  BY <1>2 DEF MonitorFails, WellFormed, TasksAreLive, ProcessesFollowSpawn,
     ClosingIsClean, Closing, OnlyCurrentIsActive, DeploymentMirrorsAttempt, LockOwnership,
     WorkspaceExclusion, Working, SecretsUnderLock
<1>3. CASE TaskDies(a)
  BY <1>3 DEF TaskDies, WellFormed, TasksAreLive, ProcessesFollowSpawn,
     ClosingIsClean, Closing, OnlyCurrentIsActive, DeploymentMirrorsAttempt, LockOwnership,
     WorkspaceExclusion, Working, SecretsUnderLock
<1>4. CASE FinishRun(a) \/ FinishAdopted(a)
  <2>1. Closing(a) /\ state[a] # "none" /\ pass.at # a
    BY <1>4 DEF FinishRun, FinishAdopted, Closing, TasksAreLive
  <2>2. PICK outcome \in Terminal : Finish(a, outcome)
    BY <1>4 DEF FinishRun, FinishAdopted, RecoveredOutcome, Outcomes
  <2>3. task' = [task EXCEPT ![a] = "none"] /\ UNCHANGED <<runner, published, secrets, pass>>
       /\ again' \subseteq again \cup {a}
    BY <1>4 DEF FinishRun, FinishAdopted
  <2> HIDE DEF IInv, TypeOK, Bookkeeping, Ownership, Terminal, Active, ProcessMatches, Live
  <2>4. QED
    BY <2>1, <2>2, <2>3, FinishKeeps
<1>5. QED
  BY <1>1, <1>2, <1>3, <1>4 DEF Observe

\* The recovery pass holds an attempt only while it has no task.
LEMMA RecoverKeeps ==
  ASSUME IInv, TypeOK', NEW a \in Att, Recover(a)
  PROVE  Bookkeeping' /\ Ownership'
<1> USE NullAssumption DEF IInv, TypeOK, rows, locks, processes, requests, Active,
        Terminal, Owning, Observing, ProcessMatches, Live, Bookkeeping, Ownership
<1>0. pass \in Passes
  BY DEF Passes
<1>1. CASE PassSkips(a)
  <2>1. pass'.todo \subseteq pass.todo /\ pass'.at = Null
    BY <1>0, <1>1, ProceedType DEF PassSkips
  <2>2. QED
    BY <1>1, <2>1 DEF PassSkips, WellFormed, TasksAreLive, ProcessesFollowSpawn,
       ClosingIsClean, Closing, OnlyCurrentIsActive, DeploymentMirrorsAttempt, LockOwnership,
       WorkspaceExclusion, Working, SecretsUnderLock
<1>2. CASE PassAdopts(a)
  <2>1. pass'.todo \subseteq pass.todo /\ pass'.at = Null
    BY <1>0, <1>2, ProceedType DEF PassAdopts
  <2>2. lock[deployment[a]] = a /\ UNCHANGED lock /\ task' = [task EXCEPT ![a] = "adopted"]
    BY <1>2 DEF PassAdopts, WorkspaceExclusion, Working
  <2>3. state[a] \in Active
    BY <1>2, <2>2 DEF PassAdopts, LockOwnership, WellFormed, ProcessesFollowSpawn
  <2>4. QED
    BY <1>2, <2>1, <2>2, <2>3 DEF PassAdopts, WellFormed, TasksAreLive, ProcessesFollowSpawn,
       ClosingIsClean, Closing, OnlyCurrentIsActive, DeploymentMirrorsAttempt, LockOwnership,
       WorkspaceExclusion, Working, SecretsUnderLock
<1>3. CASE PassRecovers(a)
  <2>1. pass'.todo \subseteq pass.todo /\ pass'.at = a
    BY <1>0, <1>3, ProceedType DEF PassRecovers
  <2>2. QED
    BY <1>3, <2>1 DEF PassRecovers, CleanupRecorded, WellFormed, TasksAreLive,
       ProcessesFollowSpawn, ClosingIsClean, Closing, OnlyCurrentIsActive,
       DeploymentMirrorsAttempt, LockOwnership, WorkspaceExclusion, Working, SecretsUnderLock
<1>4. CASE PassFinishes(a)
  <2>1. Closing(a) /\ state[a] # "none" /\ task' = [task EXCEPT ![a] = "none"]
    BY <1>4 DEF PassFinishes, Closing, WellFormed, TasksAreLive
  <2>2. PICK outcome \in Terminal : Finish(a, outcome)
    BY <1>4 DEF PassFinishes, RecoveredOutcome, Outcomes
  <2>3. pass'.todo = pass.todo /\ pass'.at = Null /\ UNCHANGED <<runner, published, secrets>>
       /\ again' \subseteq again \cup {a}
    BY <1>4 DEF PassFinishes, NoPass
  <2> HIDE DEF IInv, TypeOK, Bookkeeping, Ownership, Terminal, Active, ProcessMatches, Live
  <2>4. QED
    BY <2>1, <2>2, <2>3, FinishKeeps
<1>5. QED
  BY <1>1, <1>2, <1>3, <1>4 DEF Recover

\* A reservation finds the deployment without an active attempt, hence
\* without a lock, and makes the new attempt its current one.
LEMMA ReserveKeeps ==
  ASSUME IInv, NEW d \in Dep, NEW a \in Att, NEW k \in Scopes, Reserve(d, a, k)
  PROVE  Bookkeeping' /\ Ownership'
<1> USE NullAssumption, ScopesAssumption DEF IInv, TypeOK, rows, locks, processes, Active,
        Terminal, Live, Bookkeeping, Ownership
<1>1. lock[d] = Null
  BY DEF Reserve, HasActiveAttempt, Reclaimable, LockOwnership
<1>2. \A b \in Att : Live(b) => deployment[b] # d
  BY DEF Reserve, HasActiveAttempt, OnlyCurrentIsActive, WellFormed
<1>3. Bookkeeping'
  BY DEF Reserve, Become, WellFormed, TasksAreLive, ProcessesFollowSpawn, ClosingIsClean,
     Closing, ProcessMatches
<1>4. OnlyCurrentIsActive' /\ DeploymentMirrorsAttempt' /\ LockOwnership'
  BY <1>1, <1>2 DEF Reserve, WellFormed, OnlyCurrentIsActive, DeploymentMirrorsAttempt,
     LockOwnership
<1>5. WorkspaceExclusion' /\ SecretsUnderLock'
  BY <1>1 DEF Reserve, Become, WellFormed, ProcessesFollowSpawn, WorkspaceExclusion, Working,
     Owning, Observing, ProcessMatches, SecretsUnderLock
<1>6. QED
  BY <1>3, <1>4, <1>5

\* A repeated finish_attempt writes nothing: the attempt is over, so its state
\* is kept, the deployment shows it already and its lock is gone.
LEMMA AgainIsIdle ==
  ASSUME IInv, NEW a \in Att, FinishAgain(a)
  PROVE  UNCHANGED <<rows, locks, processes, secrets, api, task, flock, vetted, request, pass>>
<1> USE DEF IInv, TypeOK
<1>1. state[a] \in Terminal /\ state[a] \notin Active
  BY DEF FinishAgain, Bookkeeping, TasksAreLive, Terminal, Active
<1>2. deployment[a] \in Dep
  BY <1>1 DEF Bookkeeping, WellFormed, Terminal
<1>3. lock[deployment[a]] # a
  BY <1>1, <1>2, NullAssumption DEF Ownership, LockOwnership, Live
<1>4. current[deployment[a]] = a => depState[deployment[a]] = state[a]
  BY <1>2, NullAssumption DEF Ownership, DeploymentMirrorsAttempt
<1>5. state' = state /\ depState' = depState /\ lock' = lock /\ stale' = stale
  BY <1>1, <1>2, <1>3, <1>4 DEF FinishAgain, Finish
<1>6. QED
  BY <1>5 DEF FinishAgain, Finish, rows, locks

\* A second finish finds nothing to finish.
LEMMA AgainKeeps ==
  ASSUME IInv, NEW a \in Att, FinishAgain(a)
  PROVE  Bookkeeping' /\ Ownership'
<1>1. UNCHANGED <<rows, locks, processes, secrets, api, task, flock, vetted, request, pass>>
  BY AgainIsIdle
<1>2. again' \subseteq again
  BY DEF FinishAgain
<1>3. QED
  BY <1>1, <1>2 DEF IInv, Bookkeeping, Ownership, rows, locks, processes, WellFormed,
     TasksAreLive, ProcessesFollowSpawn, ClosingIsClean, Closing, ProcessMatches,
     OnlyCurrentIsActive, Live, DeploymentMirrorsAttempt, LockOwnership, WorkspaceExclusion,
     Working, SecretsUnderLock

\* Every other step leaves the rows' states and the locks' owners alone, and
\* at most ends tasks or moves time, requests or the runner processes.
LEMMA EnvironmentKeeps ==
  ASSUME IInv, TypeOK',
         \/ \E d \in Dep : \/ VetTeardown(d) \/ RefuseTeardown(d) \/ ReadForCancel(d)
                           \/ Heartbeat(d) \/ HeartbeatExpires(d)
         \/ \E a \in Att : RunnerExits(a) \/ Detach(a)
         \/ Cancel \/ CancelRefused \/ PassStarts \/ PassAborts
         \/ BeginShutdown \/ Stopped \/ Crash \/ Boot
         \/ UNCHANGED vars
  PROVE  Bookkeeping' /\ Ownership'
<1> USE NullAssumption DEF IInv, TypeOK, rows, locks, processes, requests, Active, Terminal,
        Live, ProcessMatches, Bookkeeping, Ownership
<1> USE DEF WellFormed, TasksAreLive, ProcessesFollowSpawn, ClosingIsClean, Closing,
        OnlyCurrentIsActive, DeploymentMirrorsAttempt, LockOwnership, WorkspaceExclusion,
        Working, Owning, Observing, SecretsUnderLock
<1>1. ASSUME NEW d \in Dep, VetTeardown(d) \/ RefuseTeardown(d) \/ ReadForCancel(d)
      PROVE  Bookkeeping' /\ Ownership'
  BY <1>1 DEF VetTeardown, RefuseTeardown, ReadForCancel
<1>2. ASSUME NEW d \in Dep, Heartbeat(d) \/ HeartbeatExpires(d)
      PROVE  Bookkeeping' /\ Ownership'
  BY <1>2 DEF Heartbeat, HeartbeatExpires
<1>3. ASSUME NEW a \in Att, RunnerExits(a)
      PROVE  Bookkeeping' /\ Ownership'
  BY <1>3 DEF RunnerExits
<1>4. ASSUME NEW a \in Att, Detach(a)
      PROVE  Bookkeeping' /\ Ownership'
  BY <1>4 DEF Detach, Become
<1>5. CASE Cancel \/ CancelRefused
  BY <1>5 DEF Cancel, CancelRefused
<1>6. CASE PassStarts \/ PassAborts \/ BeginShutdown
  BY <1>6 DEF PassStarts, PassAborts, BeginShutdown, Unfinished, NoPass
<1>7. CASE Stopped \/ Crash
  BY <1>7 DEF Stopped, Crash, Forget, NoPass
<1>8. CASE Boot \/ UNCHANGED vars
  BY <1>8 DEF Boot, vars
<1>9. QED
  BY <1>1, <1>2, <1>3, <1>4, <1>5, <1>6, <1>7, <1>8

\* The invariant holds in every reachable state: the locks, the pointers, the
\* states and the files of all attempts agree, whatever crashes or is late.
THEOREM Invariance == Spec => []IInv
<1>1. Init => IInv
  BY NullAssumption DEF Init, IInv, TypeOK, Bookkeeping, Ownership, WellFormed, TasksAreLive,
     ProcessesFollowSpawn, ClosingIsClean, Closing, ProcessMatches, OnlyCurrentIsActive, Live,
     DeploymentMirrorsAttempt, LockOwnership, WorkspaceExclusion, Working, Owning, Observing,
     SecretsUnderLock, NoRequest, NoPass, Tasks, Active, Terminal
<1>2. IInv /\ [Next]_vars => IInv'
  <2> SUFFICES ASSUME IInv, [Next]_vars PROVE IInv'
    OBVIOUS
  <2>1. TypeOK'
    BY TypeInductive DEF IInv
  <2>2. Bookkeeping' /\ Ownership'
    BY <2>1, SetupKeeps, ObserveKeeps, RecoverKeeps, ReserveKeeps, AgainKeeps,
       EnvironmentKeeps DEF Next
  <2>3. QED
    BY <2>1, <2>2 DEF IInv
<1>3. QED
  BY <1>1, <1>2, PTL DEF Spec

\* A workspace lock belongs to the deployment's current, unfinished attempt.
THEOREM LockOwnershipHolds == Spec => []LockOwnership
<1>1. IInv => LockOwnership
  BY DEF IInv, Ownership
<1>2. QED
  BY <1>1, Invariance, PTL

\* Every task inside its critical section and every verified runner holds the
\* lock of its workspace.
THEOREM WorkspaceExclusionHolds == Spec => []WorkspaceExclusion
<1>1. IInv => WorkspaceExclusion
  BY DEF IInv, Ownership
<1>2. QED
  BY <1>1, Invariance, PTL

\* Recorded credentials exist only under the lock of their workspace.
THEOREM SecretsUnderLockHolds == Spec => []SecretsUnderLock
<1>1. IInv => SecretsUnderLock
  BY DEF IInv, Ownership
<1>2. QED
  BY <1>1, Invariance, PTL

\* The deployment shows the state of its current attempt.
THEOREM DeploymentMirrorsAttemptHolds == Spec => []DeploymentMirrorsAttempt
<1>1. IInv => DeploymentMirrorsAttempt
  BY DEF IInv, Ownership
<1>2. QED
  BY <1>1, Invariance, PTL

\* Only the current attempt of a deployment is under way.
THEOREM OnlyCurrentIsActiveHolds == Spec => []OnlyCurrentIsActive
<1>1. IInv => OnlyCurrentIsActive
  BY DEF IInv, Ownership
<1>2. QED
  BY <1>1, Invariance, PTL

-----------------------------------------------------------------------------
(* Provisioning.                                                           *)

\* A launch starts while nobody holds the lock file, and every step that ends
\* a launch without a process leaves the block; a spawned runner inherits.
LEMMA ProvisioningInductive == IInv /\ ProvisioningInv /\ [Next]_vars => ProvisioningInv'
<1> SUFFICES ASSUME IInv, ProvisioningInv, [Next]_vars
             PROVE  LaunchersHoldFlock' /\ ProvisioningExclusion'
  BY DEF ProvisioningInv
<1>0. TypeOK
  BY DEF IInv
<1> USE NullAssumption DEF ProvisioningInv, TypeOK, rows, locks, processes, requests, Become,
        LaunchersHoldFlock, Launching, ProvisioningExclusion, Provisioning, Provisions
<1>1. ASSUME NEW d \in Dep,
             VetTeardown(d) \/ RefuseTeardown(d) \/ ReadForCancel(d) \/ Heartbeat(d) \/ HeartbeatExpires(d)
      PROVE  LaunchersHoldFlock' /\ ProvisioningExclusion'
  BY <1>0, <1>1 DEF VetTeardown, RefuseTeardown, ReadForCancel, Heartbeat, HeartbeatExpires
<1>2. ASSUME NEW d \in Dep, NEW a \in Att, NEW k \in Scopes, Reserve(d, a, k)
      PROVE  LaunchersHoldFlock' /\ ProvisioningExclusion'
  <2>1. task[a] = "none" /\ runner[a] = "none"
    BY <1>2 DEF Reserve, IInv, Bookkeeping, WellFormed
  <2>2. QED
    BY <1>0, <1>2, <2>1 DEF Reserve
<1>3. ASSUME NEW a \in Att, Setup(a)
      PROVE  LaunchersHoldFlock' /\ ProvisioningExclusion'
  <2>1. CASE StartAttempt(a)
    BY <1>0, <2>1 DEF StartAttempt, ProvisioningHeld
  <2>2. CASE StartRefused(a) \/ AcquireLock(a) \/ CreateSecrets(a) \/ RecordCleanup(a) \/ Publish(a)
    BY <1>0, <2>2 DEF StartRefused, AcquireLock, CreateSecrets, RecordCleanup, Publish
  <2>3. CASE Spawn(a)
    BY <1>0, <2>3 DEF Spawn
  <2>4. CASE SetupFails(a) \/ PublishFails(a) \/ MarkRunning(a)
    BY <1>0, <2>4 DEF SetupFails, PublishFails, MarkRunning, CloseFlock
  <2>5. CASE MarkRefused(a) \/ MarkFails(a)
    BY <1>0, <2>5 DEF MarkRefused, MarkFails, Kill, CloseFlock
  <2>6. CASE FinishFailed(a)
    BY <1>0, <2>6 DEF FinishFailed, Finish, CloseFlock
  <2>7. QED
    BY <1>3, <2>1, <2>2, <2>3, <2>4, <2>5, <2>6 DEF Setup
<1>4. ASSUME NEW a \in Att, RunnerExits(a) \/ Detach(a)
      PROVE  LaunchersHoldFlock' /\ ProvisioningExclusion'
  BY <1>0, <1>4 DEF RunnerExits, Detach, CloseFlock
<1>5. ASSUME NEW a \in Att, Observe(a) \/ FinishAgain(a)
      PROVE  LaunchersHoldFlock' /\ ProvisioningExclusion'
  BY <1>0, <1>5 DEF Observe, ObserveExit, FinishRun, MonitorFails, AdoptedExit, FinishAdopted, TaskDies,
     FinishAgain, Finish, CloseFlock
<1>6. ASSUME NEW a \in Att, Recover(a)
      PROVE  LaunchersHoldFlock' /\ ProvisioningExclusion'
  BY <1>0, <1>6 DEF Recover, PassSkips, PassAdopts, PassRecovers, PassFinishes, Finish
<1>7. CASE \/ Cancel \/ CancelRefused \/ PassStarts \/ PassAborts \/ BeginShutdown \/ Boot
           \/ UNCHANGED vars
  BY <1>0, <1>7 DEF Cancel, CancelRefused, PassStarts, PassAborts, BeginShutdown, Boot, vars
<1>8. CASE Stopped \/ Crash
  BY <1>0, <1>8 DEF Stopped, Crash, Forget
<1>9. QED
  BY <1>1, <1>2, <1>3, <1>4, <1>5, <1>6, <1>7, <1>8 DEF Next

\* At most one attempt of the installation launches or runs provisioning, also
\* when only the runner's inherited descriptor is left of the lock.
THEOREM ProvisioningExclusionHolds == Spec => []ProvisioningExclusion
<1>1. Init => ProvisioningInv
  BY NullAssumption DEF Init, ProvisioningInv, LaunchersHoldFlock, Launching,
     ProvisioningExclusion, Provisioning
<1>2. ProvisioningInv => ProvisioningExclusion
  BY DEF ProvisioningInv
<1>3. QED
  BY <1>1, <1>2, Invariance, ProvisioningInductive, PTL DEF Spec

-----------------------------------------------------------------------------
(* Results, and the promise to clients.                                    *)

\* The rows' states change in four ways only: a reservation, the start of the
\* runner, a cancel request and finish_attempt of an attempt that exists.
LEMMA RowSteps ==
  ASSUME IInv, [Next]_vars
  PROVE  \/ UNCHANGED <<state, deployment, cancelled>>
         \/ \E d \in Dep, a \in Att, k \in Scopes : Reserve(d, a, k)
         \/ \E a \in Att : MarkRunning(a)
         \/ \E a \in Att, outcome \in Terminal : Finish(a, outcome) /\ state[a] # "none"
         \/ Cancel
<1> DEFINE Finishes == \E a \in Att, outcome \in Terminal : Finish(a, outcome) /\ state[a] # "none"
           Keeps == UNCHANGED <<state, deployment, cancelled>>
<1>1. ASSUME NEW a \in Att, FinishFailed(a) \/ FinishRun(a) \/ FinishAdopted(a)
      PROVE  Finishes
  <2>1. PICK outcome \in Terminal : Finish(a, outcome)
    BY <1>1 DEF FinishFailed, FinishRun, FinishAdopted, RecoveredOutcome, Outcomes, Terminal
  <2>2. state[a] # "none"
    BY <1>1 DEF IInv, Bookkeeping, TasksAreLive, Live, Active, FinishFailed, FinishRun, FinishAdopted
  <2>3. QED
    BY <2>1, <2>2
<1>2. ASSUME NEW a \in Att, PassFinishes(a) \/ FinishAgain(a)
      PROVE  Finishes
  <2>1. PICK outcome \in Terminal : Finish(a, outcome)
    BY <1>2 DEF PassFinishes, FinishAgain, RecoveredOutcome, Outcomes, Terminal
  <2>2. state[a] # "none"
    BY <1>2 DEF IInv, Bookkeeping, WellFormed, TasksAreLive, Terminal, PassFinishes, FinishAgain
  <2>3. QED
    BY <2>1, <2>2
<1> USE DEF rows
<1>3. ASSUME NEW a \in Att, Setup(a), ~MarkRunning(a), ~FinishFailed(a)
      PROVE  Keeps
  BY <1>3 DEF Setup, StartAttempt, StartRefused, AcquireLock, CreateSecrets, RecordCleanup,
     SetupFails, Spawn, Publish, PublishFails, MarkRefused, MarkFails
<1>4. ASSUME NEW a \in Att, Observe(a), ~FinishRun(a), ~FinishAdopted(a)
      PROVE  Keeps
  BY <1>4 DEF Observe, ObserveExit, MonitorFails, AdoptedExit, TaskDies
<1>5. ASSUME NEW a \in Att, Recover(a), ~PassFinishes(a)
      PROVE  Keeps
  BY <1>5 DEF Recover, PassSkips, PassAdopts, PassRecovers
<1>6. ASSUME NEW a \in Att, RunnerExits(a) \/ Detach(a)
      PROVE  Keeps
  BY <1>6 DEF RunnerExits, Detach
<1>7. ASSUME NEW d \in Dep,
             VetTeardown(d) \/ RefuseTeardown(d) \/ ReadForCancel(d) \/ Heartbeat(d) \/ HeartbeatExpires(d)
      PROVE  Keeps
  BY <1>7 DEF VetTeardown, RefuseTeardown, ReadForCancel, Heartbeat, HeartbeatExpires
<1>8. CASE \/ CancelRefused \/ PassStarts \/ PassAborts \/ BeginShutdown
           \/ Stopped \/ Crash \/ Boot \/ UNCHANGED vars
  BY <1>8 DEF CancelRefused, PassStarts, PassAborts, BeginShutdown, Stopped, Crash, Forget, Boot, vars
<1>9. QED
  BY <1>1, <1>2, <1>3, <1>4, <1>5, <1>6, <1>7, <1>8 DEF Next, Setup, Observe, Recover

\* An attempt that is over keeps its result in every step, whoever calls
\* finish_attempt late or twice.
THEOREM TerminalIsFinalHolds == Spec => TerminalIsFinal
<1>1. ASSUME IInv, [Next]_vars, NEW a \in Att, state[a] \in Terminal
      PROVE  state'[a] = state[a]
  BY <1>1, RowSteps DEF IInv, TypeOK, Reserve, MarkRunning, Finish, Cancel, Terminal, Active
<1>2. IInv /\ [Next]_vars => [\A a \in Att : state[a] \in Terminal => state'[a] = state[a]]_vars
  BY <1>1
<1>3. QED
  BY <1>2, Invariance, PTL DEF Spec, TerminalIsFinal

\* A cancel request that was accepted decides the result.
THEOREM CancellationWinsHolds == Spec => []CancellationWins
<1>1. Init => CancellationWins
  BY DEF Init, CancellationWins
<1>2. ASSUME IInv, CancellationWins, [Next]_vars
      PROVE  CancellationWins'
  BY <1>2, RowSteps DEF IInv, TypeOK, CancellationWins, Reserve, MarkRunning, Finish, Cancel,
     Terminal, Active
<1>3. QED
  BY <1>1, <1>2, Invariance, PTL DEF Spec

-----------------------------------------------------------------------------
(* Results are observed.                                                   *)

\* A runner that ended has a result, and only such a one; a task that watches a
\* process knows which, and one that waited for it saw it end.
Watching == {"launched", "running", "adopted"}
ExitsFollowRunners ==
  \A a \in Att : /\ exit[a] = "none" <=> runner[a] # "dead"
                 /\ task[a] \in Watching => a \in published
                 /\ task[a] = "exited" => runner[a] = "dead"
ResultInv == ExitsFollowRunners /\ OutcomeIsObserved

\* Which of the handlers those are, and which change nothing of a scope or end
\* the wait for a process.
LEMMA RowChanges ==
  ASSUME [Next]_vars
  PROVE  /\ \/ UNCHANGED state
            \/ \E b \in Att : \/ FinishFailed(b) \/ FinishRun(b) \/ FinishAdopted(b) \/ PassFinishes(b)
                              \/ FinishAgain(b) \/ MarkRunning(b)
            \/ \E b \in Att, d \in Dep, k \in Scopes : Reserve(d, b, k)
         /\ \/ UNCHANGED scope
            \/ \E b \in Att, d \in Dep, k \in Scopes : Reserve(d, b, k)
<1> DEFINE Changes == \E b \in Att : \/ FinishFailed(b) \/ FinishRun(b) \/ FinishAdopted(b) \/ PassFinishes(b)
                                     \/ FinishAgain(b) \/ MarkRunning(b)
           Keeps == UNCHANGED <<state, scope>>
<1> USE DEF rows
<1>1. ASSUME NEW a \in Att, Setup(a)
      PROVE  (Keeps \/ Changes) /\ UNCHANGED scope
  BY <1>1 DEF Setup, StartAttempt, StartRefused, AcquireLock, CreateSecrets, RecordCleanup,
     SetupFails, Spawn, Publish, PublishFails, MarkRunning, MarkRefused, MarkFails, FinishFailed, Finish
<1>2. ASSUME NEW a \in Att, Observe(a)
      PROVE  (Keeps \/ Changes) /\ UNCHANGED scope
  BY <1>2 DEF Observe, ObserveExit, FinishRun, MonitorFails, AdoptedExit, FinishAdopted, TaskDies, Finish
<1>3. ASSUME NEW a \in Att, Recover(a) \/ FinishAgain(a)
      PROVE  (Keeps \/ Changes) /\ UNCHANGED scope
  BY <1>3 DEF Recover, PassSkips, PassAdopts, PassRecovers, PassFinishes, FinishAgain, Finish
<1>4. ASSUME NEW a \in Att, RunnerExits(a) \/ Detach(a)
      PROVE  Keeps
  BY <1>4 DEF RunnerExits, Detach
<1>5. ASSUME NEW d \in Dep,
             VetTeardown(d) \/ RefuseTeardown(d) \/ ReadForCancel(d) \/ Heartbeat(d) \/ HeartbeatExpires(d)
      PROVE  Keeps
  BY <1>5 DEF VetTeardown, RefuseTeardown, ReadForCancel, Heartbeat, HeartbeatExpires
<1>6. CASE \/ Cancel \/ CancelRefused \/ PassStarts \/ PassAborts \/ BeginShutdown
           \/ Stopped \/ Crash \/ Boot \/ UNCHANGED vars
  BY <1>6 DEF Cancel, CancelRefused, PassStarts, PassAborts, BeginShutdown, Stopped, Crash, Forget, Boot, vars
<1>7. QED
  BY <1>1, <1>2, <1>3, <1>4, <1>5, <1>6 DEF Next

\* A task watches a process from its launch or adoption on, and has waited for
\* it only when it is gone.
LEMMA TaskSteps ==
  ASSUME IInv, [Next]_vars, NEW a \in Att
  PROVE  /\ task'[a] = "exited" => task[a] = "exited" \/ ObserveExit(a)
         /\ task'[a] \in Watching => task[a] \in Watching \/ Publish(a) \/ PassAdopts(a)
<1> DEFINE Goal == /\ task'[a] = "exited" => task[a] = "exited" \/ ObserveExit(a)
                   /\ task'[a] \in Watching => task[a] \in Watching \/ Publish(a) \/ PassAdopts(a)
<1> USE DEF IInv, TypeOK, Become, Watching
<1>1. ASSUME NEW b \in Att, Setup(b)
      PROVE  Goal
  BY <1>1 DEF Setup, StartAttempt, StartRefused, AcquireLock, CreateSecrets, RecordCleanup,
     SetupFails, Spawn, Publish, PublishFails, MarkRunning, MarkRefused, MarkFails, FinishFailed
<1>2. ASSUME NEW b \in Att, Observe(b)
      PROVE  Goal
  BY <1>2 DEF Observe, ObserveExit, FinishRun, MonitorFails, AdoptedExit, FinishAdopted, TaskDies
<1>3. ASSUME NEW b \in Att, Recover(b) \/ FinishAgain(b) \/ RunnerExits(b) \/ Detach(b)
      PROVE  Goal
  BY <1>3 DEF Recover, PassSkips, PassAdopts, PassRecovers, PassFinishes, FinishAgain, RunnerExits, Detach
<1>4. CASE \/ \E d \in Dep : \/ VetTeardown(d) \/ RefuseTeardown(d) \/ ReadForCancel(d)
                             \/ Heartbeat(d) \/ HeartbeatExpires(d)
           \/ \E d \in Dep, b \in Att, k \in Scopes : Reserve(d, b, k)
           \/ Cancel \/ CancelRefused \/ PassStarts \/ PassAborts \/ BeginShutdown
           \/ Stopped \/ Crash \/ Boot \/ UNCHANGED vars
  BY <1>4 DEF VetTeardown, RefuseTeardown, ReadForCancel, Heartbeat, HeartbeatExpires, Reserve,
     Cancel, CancelRefused, PassStarts, PassAborts, BeginShutdown, Stopped, Crash, Forget, Boot, vars
<1>5. QED
  BY <1>1, <1>2, <1>3, <1>4 DEF Next

\* Processes start, end and become identified in a few steps only.
LEMMA ProcessSteps ==
  ASSUME IInv, [Next]_vars
  PROVE  \/ UNCHANGED <<runner, exit, published>>
         \/ \E a \in Att : Spawn(a) \/ Publish(a) \/ MarkRefused(a) \/ MarkFails(a) \/ RunnerExits(a)
<1> DEFINE Moves == \E a \in Att : Spawn(a) \/ Publish(a) \/ MarkRefused(a) \/ MarkFails(a) \/ RunnerExits(a)
           Keeps == UNCHANGED <<runner, exit, published>>
<1> USE DEF processes
<1>1. ASSUME NEW a \in Att, Setup(a)
      PROVE  Keeps \/ Moves
  BY <1>1 DEF Setup, StartAttempt, StartRefused, AcquireLock, CreateSecrets, RecordCleanup, SetupFails,
     PublishFails, MarkRunning, FinishFailed
<1>2. ASSUME NEW a \in Att, Observe(a) \/ FinishAgain(a) \/ Recover(a) \/ Detach(a)
      PROVE  Keeps
  BY <1>2 DEF Observe, ObserveExit, FinishRun, MonitorFails, AdoptedExit, FinishAdopted, TaskDies,
     FinishAgain, Recover, PassSkips, PassAdopts, PassRecovers, PassFinishes, Detach
<1>3. ASSUME NEW d \in Dep,
             VetTeardown(d) \/ RefuseTeardown(d) \/ ReadForCancel(d) \/ Heartbeat(d) \/ HeartbeatExpires(d)
      PROVE  Keeps
  BY <1>3 DEF VetTeardown, RefuseTeardown, ReadForCancel, Heartbeat, HeartbeatExpires
<1>4. CASE \/ \E d \in Dep, a \in Att, k \in Scopes : Reserve(d, a, k)
           \/ Cancel \/ CancelRefused \/ PassStarts \/ PassAborts \/ BeginShutdown
           \/ Stopped \/ Crash \/ Boot \/ UNCHANGED vars
  BY <1>4 DEF Reserve, Cancel, CancelRefused, PassStarts, PassAborts, BeginShutdown, Stopped, Crash,
     Forget, Boot, vars
<1>5. QED
  BY <1>1, <1>2, <1>3, <1>4 DEF Next

\* An attempt that is over stays as it is.
LEMMA TerminalStays ==
  ASSUME IInv, [Next]_vars, NEW a \in Att, state[a] \in Terminal
  PROVE  state'[a] = state[a] /\ scope'[a] = scope[a] /\ (a \in published' => a \in published)
<1>1. state'[a] = state[a]
  BY RowSteps DEF IInv, TypeOK, Reserve, MarkRunning, Finish, Cancel, Terminal, Active
<1>2. a \in published' => a \in published
  BY ProcessSteps DEF Spawn, Publish, MarkRefused, MarkFails, RunnerExits, Kill, Active, Terminal,
     IInv, TypeOK, Bookkeeping, TasksAreLive, Live
<1>3. scope'[a] = scope[a]
  BY RowChanges DEF Reserve, Terminal, IInv, TypeOK
<1>4. QED
  BY <1>1, <1>2, <1>3

\* Where a result comes from: the run that was observed, the files found by
\* recovery, a cancel request, or a failure of the API itself.
LEMMA NewResults ==
  ASSUME IInv, [Next]_vars, NEW a \in Att, state[a] \notin Terminal, state'[a] \in Terminal
  PROVE  /\ \/ state'[a] \in {"cancelled", "failed"}
            \/ task[a] = "exited" /\ state'[a] \in Outcomes(a, IF exit[a] = "ok" THEN "succeeded" ELSE "failed")
            \/ Closing(a) /\ state'[a] \in RecoveredOutcome(a)
         /\ UNCHANGED <<exit, published, scope>>
<1> USE DEF rows, processes
<1> DEFINE Goal == /\ \/ state'[a] \in {"cancelled", "failed"}
                      \/ task[a] = "exited" /\ state'[a] \in Outcomes(a, IF exit[a] = "ok" THEN "succeeded" ELSE "failed")
                      \/ Closing(a) /\ state'[a] \in RecoveredOutcome(a)
                   /\ UNCHANGED <<exit, published, scope>>
<1>0. ASSUME NEW b \in Att, NEW outcome, Finish(b, outcome)
      PROVE  b = a /\ state'[a] \in {"cancelled", outcome} /\ scope' = scope
  BY <1>0 DEF Finish, IInv, TypeOK
<1>1. ASSUME NEW b \in Att, FinishFailed(b) \/ FinishAgain(b)
      PROVE  Goal
  <2>1. FinishFailed(b)
    BY <1>0, <1>1 DEF FinishAgain, IInv, Bookkeeping, TasksAreLive
  <2>2. QED
    BY <1>0, <2>1 DEF FinishFailed
<1>2. ASSUME NEW b \in Att, FinishRun(b)
      PROVE  Goal
  BY <1>0, <1>2 DEF FinishRun
<1>3. ASSUME NEW b \in Att, FinishAdopted(b) \/ PassFinishes(b)
      PROVE  Goal
  BY <1>0, <1>3 DEF FinishAdopted, PassFinishes, Closing
<1>4. CASE UNCHANGED state
  BY <1>4
<1>5. ASSUME NEW b \in Att, MarkRunning(b)
      PROVE  FALSE
  BY <1>5 DEF MarkRunning, IInv, TypeOK, Terminal
<1>6. ASSUME NEW b \in Att, NEW d \in Dep, NEW k \in Scopes, Reserve(d, b, k)
      PROVE  FALSE
  BY <1>6 DEF Reserve, IInv, TypeOK, Terminal
<1>7. ASSUME ~UNCHANGED state
      PROVE  \/ \E b \in Att : \/ FinishFailed(b) \/ FinishRun(b) \/ FinishAdopted(b) \/ PassFinishes(b)
                               \/ FinishAgain(b) \/ MarkRunning(b)
             \/ \E b \in Att, d \in Dep, k \in Scopes : Reserve(d, b, k)
  BY <1>7, RowChanges
<1>8. QED
  BY <1>1, <1>2, <1>3, <1>4, <1>5, <1>6, <1>7

\* Results stay honest in every step.
LEMMA ResultsInductive ==
  ASSUME IInv, ResultInv, [Next]_vars
  PROVE  ResultInv'
<1> USE DEF IInv, TypeOK
<1>1. \A a \in Att : exit'[a] = "none" <=> runner'[a] # "dead"
  BY ProcessSteps DEF ResultInv, ExitsFollowRunners, Spawn, Publish, MarkRefused, MarkFails, RunnerExits,
     Kill, Ending, Watching, Bookkeeping, ProcessesFollowSpawn, processes
<1>2. \A a \in Att : exit[a] # "none" => exit'[a] = exit[a] /\ runner'[a] = "dead"
  BY ProcessSteps DEF ResultInv, ExitsFollowRunners, Spawn, Publish, MarkRefused, MarkFails, RunnerExits,
     Kill, Ending, Watching, Bookkeeping, ProcessesFollowSpawn, processes
<1>3. ASSUME NEW a \in Att, task'[a] = "exited"
      PROVE  runner'[a] = "dead"
  <2>1. task[a] = "exited" \/ ObserveExit(a)
    BY <1>3, TaskSteps
  <2>2. runner[a] = "dead"
    BY <2>1 DEF ResultInv, ExitsFollowRunners, ObserveExit
  <2>3. QED
    BY <1>2, <2>2 DEF ResultInv, ExitsFollowRunners
<1>4. ASSUME NEW a \in Att, task'[a] \in Watching
      PROVE  a \in published'
  <2>1. published \subseteq published'
    BY ProcessSteps DEF Spawn, Publish, MarkRefused, MarkFails, RunnerExits, Kill
  <2>2. QED
    BY <1>4, <2>1, TaskSteps DEF ResultInv, ExitsFollowRunners, Publish, PassAdopts, ProcessMatches
<1>5. ASSUME NEW a \in Att
      PROVE  /\ state'[a] = "succeeded" => exit'[a] = "ok"
             /\ state'[a] = "partial" => exit'[a] # "none" /\ scope'[a] = "runtime"
             /\ state'[a] = "unknown" /\ a \in published' => exit'[a] = "lost"
  <2>1. CASE state[a] \in Terminal
    BY <1>2, <2>1, TerminalStays DEF ResultInv, OutcomeIsObserved
  <2>2. CASE state[a] \notin Terminal /\ state'[a] \in Terminal
    <3>1. a \in published /\ Closing(a) => exit[a] # "none"
      BY DEF ResultInv, ExitsFollowRunners, Bookkeeping, ClosingIsClean, ProcessMatches, ProcessesFollowSpawn
    <3>2. task[a] = "exited" => exit[a] # "none"
      BY DEF ResultInv, ExitsFollowRunners
    <3>3. QED
      BY <2>2, <3>1, <3>2, NewResults DEF Outcomes, RecoveredOutcome
  <2>3. CASE state'[a] \notin Terminal
    BY <2>3 DEF Terminal
  <2>4. QED
    BY <2>1, <2>2, <2>3
<1>6. QED
  BY <1>1, <1>3, <1>4, <1>5 DEF ResultInv, ExitsFollowRunners, OutcomeIsObserved

\* No result is invented: a success was observed as return code 0 in every
\* history of the attempt, adoption and recovery after a crash included.
THEOREM OutcomeIsObservedHolds == Spec => []OutcomeIsObserved
<1>1. Init => ResultInv
  BY DEF Init, ResultInv, ExitsFollowRunners, OutcomeIsObserved, Watching
<1>2. IInv /\ ResultInv /\ [Next]_vars => ResultInv'
  BY ResultsInductive
<1>3. ResultInv => OutcomeIsObserved
  BY DEF ResultInv
<1>4. QED
  BY <1>1, <1>2, <1>3, Invariance, PTL DEF Spec

-----------------------------------------------------------------------------
(* Cancellations reach the process.                                        *)

\* The recovery pass works with the cancel requests it read at its start.  One
\* that came later signalled the process itself, unless the attempt was still
\* being launched - and the launch then kills it - and no pass outlives the
\* beginning of a shutdown, in which a launch under way may be left running.
PassIsInformed ==
  /\ \A a \in cancelled : a \in pass.todo /\ ProcessMatches(a) /\ task[a] # "launched" =>
       a \in pass.cancelSeen \/ a \in signalled
  /\ api # "up" => pass.todo = {}
CancelInv == CancellationReachesRunner /\ PassIsInformed

\* What Proceed leaves of a pass.
LEMMA ProceedKeeps ==
  ASSUME pass \in Passes, NEW a, NEW next, Proceed(a, next)
  PROVE  pass'.todo \subseteq pass.todo /\ (pass'.todo = {} \/ pass'.cancelSeen = pass.cancelSeen)
BY DEF Passes, Proceed, NoPass

\* The steps of a launch, of an observer and of the host.
LEMMA TasksKeepCancel ==
  ASSUME IInv, ResultInv, CancelInv, NEW a \in Att,
         Setup(a) \/ Observe(a) \/ RunnerExits(a) \/ Detach(a) \/ FinishAgain(a)
  PROVE  CancelInv'
<1> USE DEF IInv, TypeOK, rows, processes, requests, Become, ProcessMatches
<1>1. /\ UNCHANGED <<cancelled, signalled, pass, api>>
      /\ \A b \in Att : b # a => task'[b] = task[b] /\ runner'[b] = runner[b] /\ (b \in published' <=> b \in published)
  <2>1. CASE Setup(a)
    BY <2>1 DEF Setup, StartAttempt, StartRefused, AcquireLock, CreateSecrets, RecordCleanup, SetupFails,
       Spawn, Publish, PublishFails, MarkRunning, MarkRefused, MarkFails, FinishFailed, Finish, Kill
  <2>2. CASE Observe(a)
    BY <2>2 DEF Observe, ObserveExit, FinishRun, MonitorFails, AdoptedExit, FinishAdopted, TaskDies, Finish
  <2>3. CASE RunnerExits(a) \/ Detach(a) \/ FinishAgain(a)
    BY <2>3 DEF RunnerExits, Detach, FinishAgain, Finish
  <2>4. QED
    BY <2>1, <2>2, <2>3
<1>2. ASSUME a \in cancelled, runner'[a] = "live", task'[a] \in {"running", "adopted"}
      PROVE  a \in signalled
  <2>1. runner[a] = "live" /\ task[a] \in {"running", "adopted"}
    <3>1. CASE Setup(a)
      BY <1>2, <3>1 DEF Setup, StartAttempt, StartRefused, AcquireLock, CreateSecrets, RecordCleanup, SetupFails,
         Spawn, Publish, PublishFails, MarkRunning, MarkRefused, MarkFails, FinishFailed
    <3>2. CASE Observe(a)
      BY <1>2, <3>2 DEF Observe, ObserveExit, FinishRun, MonitorFails, AdoptedExit, FinishAdopted, TaskDies
    <3>3. CASE RunnerExits(a) \/ Detach(a) \/ FinishAgain(a)
      BY <1>2, <3>3 DEF RunnerExits, Detach, FinishAgain
    <3>4. QED
      BY <3>1, <3>2, <3>3
  <2>2. QED
    BY <1>2, <2>1 DEF CancelInv, CancellationReachesRunner
<1>3. ASSUME a \in cancelled, a \in pass.todo, ProcessMatches(a)', task'[a] # "launched",
             a \notin pass.cancelSeen, a \notin signalled
      PROVE  FALSE
  <2>1. api = "up"
    BY <1>3 DEF CancelInv, PassIsInformed
  <2>2. CASE ProcessMatches(a)
    <3>1. task[a] = "launched"
      BY <1>3, <2>2 DEF CancelInv, PassIsInformed
    <3>2. Setup(a)
      BY <1>3, <2>1, <3>1 DEF Observe, ObserveExit, FinishRun, MonitorFails, AdoptedExit, FinishAdopted, TaskDies,
         RunnerExits, Detach, FinishAgain
    <3>3. QED
      BY <1>3, <3>1, <3>2 DEF Setup, StartAttempt, StartRefused, AcquireLock, CreateSecrets, RecordCleanup, SetupFails,
         Spawn, Publish, PublishFails, MarkRunning, MarkRefused, MarkFails, FinishFailed, Kill
  <2>3. CASE ~ProcessMatches(a)
    <3>1. Spawn(a) \/ Publish(a)
      BY <1>3, <2>3 DEF Setup, StartAttempt, StartRefused, AcquireLock, CreateSecrets, RecordCleanup, SetupFails,
         PublishFails, MarkRunning, MarkRefused, MarkFails, FinishFailed, Kill,
         Observe, ObserveExit, FinishRun, MonitorFails, AdoptedExit, FinishAdopted, TaskDies,
         RunnerExits, Detach, FinishAgain
    <3>2. Spawn(a) => a \notin published
      BY DEF Spawn, Bookkeeping, ProcessesFollowSpawn
    <3>3. QED
      BY <1>3, <3>1, <3>2 DEF Spawn, Publish
  <2>4. QED
    BY <2>2, <2>3
<1>4. CancellationReachesRunner'
  BY <1>1, <1>2 DEF CancelInv, CancellationReachesRunner
<1>5. PassIsInformed'
  BY <1>1, <1>3 DEF CancelInv, PassIsInformed
<1>6. QED
  BY <1>4, <1>5 DEF CancelInv

\* The recovery pass signals again what it adopts.
LEMMA PassKeepsCancel ==
  ASSUME IInv, ResultInv, CancelInv, (\E a \in Att : Recover(a)) \/ PassStarts \/ PassAborts
  PROVE  CancelInv'
<1> USE DEF IInv, TypeOK, rows, locks, processes, requests, ProcessMatches, Passes
<1>1. CASE PassStarts \/ PassAborts
  BY <1>1 DEF PassStarts, PassAborts, Unfinished, NoPass, Serving, CancelInv, CancellationReachesRunner, PassIsInformed
<1>2. ASSUME NEW a \in Att, Recover(a)
      PROVE  CancelInv'
  <2>1. /\ UNCHANGED <<cancelled, runner, published, api>> /\ api = "up"
        /\ pass'.todo \subseteq pass.todo /\ (pass'.todo = {} \/ pass'.cancelSeen = pass.cancelSeen)
        /\ signalled \subseteq signalled'
    <3>1. CASE PassFinishes(a)
      BY <3>1 DEF PassFinishes, Finish, NoPass, Serving
    <3>2. CASE PassSkips(a) \/ PassAdopts(a) \/ PassRecovers(a)
      BY <3>2, ProceedKeeps DEF PassSkips, PassAdopts, PassRecovers, Serving
    <3>3. QED
      BY <1>2, <3>1, <3>2 DEF Recover
  <2>2. \/ task' = task
        \/ PassAdopts(a) /\ task' = [task EXCEPT ![a] = "adopted"]
    BY <1>2 DEF Recover, PassSkips, PassAdopts, PassRecovers, PassFinishes
  <2>3. ASSUME PassAdopts(a), a \in cancelled
        PROVE  a \in signalled'
    <3>1. a \in pass.todo /\ ProcessMatches(a) /\ task[a] # "launched"
      BY <2>3 DEF PassAdopts, IsTracked
    <3>2. a \in pass.cancelSeen \/ a \in signalled
      BY <2>3, <3>1 DEF CancelInv, PassIsInformed
    <3>3. QED
      BY <2>3, <3>2 DEF PassAdopts
  <2>4. CancellationReachesRunner'
    BY <2>1, <2>2, <2>3 DEF CancelInv, CancellationReachesRunner
  <2>5. PassIsInformed'
    BY <2>1, <2>2, <2>3 DEF CancelInv, PassIsInformed
  <2>6. QED
    BY <2>4, <2>5 DEF CancelInv
<1>3. QED
  BY <1>1, <1>2

\* Requests, shutdown, crash and restart.
LEMMA RequestsKeepCancel ==
  ASSUME IInv, ResultInv, CancelInv,
         \/ \E d \in Dep : \/ VetTeardown(d) \/ RefuseTeardown(d) \/ ReadForCancel(d)
                           \/ Heartbeat(d) \/ HeartbeatExpires(d)
         \/ \E d \in Dep, a \in Att, k \in Scopes : Reserve(d, a, k)
         \/ Cancel \/ CancelRefused \/ BeginShutdown \/ Stopped \/ Crash \/ Boot \/ UNCHANGED vars
  PROVE  CancelInv'
<1> USE DEF IInv, TypeOK, rows, locks, processes, requests, ProcessMatches, Become
<1>1. CASE Cancel
  <2> DEFINE a == request.att
  <2>1. /\ a \in Att /\ cancelled' = cancelled \cup {a}
        /\ ProcessMatches(a) => a \in signalled'
        /\ signalled \subseteq signalled' /\ UNCHANGED <<runner, published, task, api, pass>>
    BY <1>1 DEF Cancel
  <2>2. task[a] \in {"running", "adopted"} => a \in published
    BY <2>1 DEF ResultInv, ExitsFollowRunners, Watching
  <2> HIDE DEF a
  <2>3. CancellationReachesRunner'
    BY <2>1, <2>2 DEF CancelInv, CancellationReachesRunner
  <2>4. PassIsInformed'
    BY <2>1 DEF CancelInv, PassIsInformed
  <2>5. QED
    BY <2>3, <2>4 DEF CancelInv
<1>2. CASE Stopped \/ Crash
  BY <1>2 DEF Stopped, Crash, Forget, NoPass, CancelInv, CancellationReachesRunner, PassIsInformed
<1>3. CASE BeginShutdown
  BY <1>3 DEF BeginShutdown, NoPass, CancelInv, CancellationReachesRunner, PassIsInformed
<1>4. CASE Boot
  BY <1>4 DEF Boot, CancelInv, CancellationReachesRunner, PassIsInformed
<1>5. CASE \/ \E d \in Dep : \/ VetTeardown(d) \/ RefuseTeardown(d) \/ ReadForCancel(d)
                             \/ Heartbeat(d) \/ HeartbeatExpires(d)
           \/ CancelRefused \/ UNCHANGED vars
  BY <1>5 DEF VetTeardown, RefuseTeardown, ReadForCancel, Heartbeat, HeartbeatExpires, CancelRefused, vars,
     CancelInv, CancellationReachesRunner, PassIsInformed
<1>6. CASE \E d \in Dep, a \in Att, k \in Scopes : Reserve(d, a, k)
  BY <1>6 DEF Reserve, CancelInv, CancellationReachesRunner, PassIsInformed, Bookkeeping, WellFormed
<1>7. QED
  BY <1>1, <1>2, <1>3, <1>4, <1>5, <1>6

\* An accepted cancellation is never lost on the way to the process: whatever
\* the launch, a shutdown, a crash and the recovery pass do with the attempt, a
\* cancelled runner that somebody watches has been signalled.
THEOREM CancellationReachesRunnerHolds == Spec => []CancellationReachesRunner
<1>1. Init => ResultInv /\ CancelInv
  BY DEF Init, ResultInv, ExitsFollowRunners, OutcomeIsObserved, Watching, CancelInv,
     CancellationReachesRunner, PassIsInformed
<1>2. IInv /\ ResultInv /\ CancelInv /\ [Next]_vars => CancelInv'
  BY TasksKeepCancel, PassKeepsCancel, RequestsKeepCancel DEF Next
<1>3. IInv /\ ResultInv /\ [Next]_vars => ResultInv'
  BY ResultsInductive
<1>4. CancelInv => CancellationReachesRunner
  BY DEF CancelInv
<1>5. QED
  BY <1>1, <1>2, <1>3, <1>4, Invariance, PTL DEF Spec

\* One step of the lifecycle is one step of DeploymentJobs or a stutter.
LEMMA JobsStep == ASSUME IInv, [Next]_vars PROVE [Jobs!Next]_(Jobs!vars)
<1> DEFINE Job(s) == IF s \in Active THEN "active" ELSE s
           job == [a \in Att |-> Job(state[a])]
<1> USE DEF Jobs!vars
<1>1. CASE UNCHANGED <<state, deployment, cancelled>>
  BY <1>1
<1>2. ASSUME NEW d \in Dep, NEW a \in Att, NEW k \in Scopes, Reserve(d, a, k)
      PROVE  Jobs!Open(a, d)
  <2>1. \A b \in Att : deployment[b] = d => state[b] \notin Active
    BY <1>2, NullAssumption DEF Reserve, HasActiveAttempt, IInv, TypeOK, Ownership, OnlyCurrentIsActive, Live
  <2>2. job[a] = "none" /\ \A b \in Att : deployment[b] = d => job[b] # "active"
    BY <1>2, <2>1 DEF Reserve, IInv, TypeOK, Active, Terminal
  <2>3. job' = [job EXCEPT ![a] = "active"]
    BY <1>2 DEF Reserve, IInv, TypeOK, Active
  <2>4. QED
    BY <1>2, <2>2, <2>3 DEF Reserve, Jobs!Open
<1>3. ASSUME NEW a \in Att, MarkRunning(a)
      PROVE  UNCHANGED Jobs!vars
  <2>1. job' = job
    BY <1>3 DEF MarkRunning, IInv, TypeOK, Active
  <2>2. QED
    BY <1>3, <2>1 DEF MarkRunning
<1>4. ASSUME NEW a \in Att, NEW outcome \in Terminal, Finish(a, outcome), state[a] # "none"
      PROVE  (\E result \in Jobs!Results : Jobs!Close(a, result)) \/ UNCHANGED Jobs!vars
  <2>1. CASE state[a] \in Terminal
    <3>1. state' = state
      BY <1>4, <2>1 DEF Finish, IInv, TypeOK
    <3>2. QED
      BY <1>4, <3>1 DEF Finish
  <2>2. CASE state[a] \in Active
    <3>1. PICK result \in Jobs!Results :
            result = (IF a \in cancelled THEN "cancelled" ELSE outcome)
      BY DEF Jobs!Results, Terminal
    <3>2. result \notin Active
      BY <3>1 DEF Terminal, Active
    <3>3. state' = [state EXCEPT ![a] = result]
      BY <1>4, <2>2, <3>1 DEF Finish, Active, Terminal
    <3>4. job' = [job EXCEPT ![a] = result]
      BY <3>2, <3>3 DEF IInv, TypeOK
    <3>5. job[a] = "active" /\ (a \in cancelled => result = "cancelled")
      BY <2>2, <3>1
    <3>6. Jobs!Close(a, result)
      BY <1>4, <3>4, <3>5 DEF Finish, Jobs!Close
    <3>7. QED
      BY <3>6
  <2>3. QED
    BY <1>4, <2>1, <2>2 DEF IInv, TypeOK
<1>5. CASE Cancel
  <2>1. request.att \in Att /\ job[request.att] = "active"
    BY <1>5 DEF Cancel, IInv, TypeOK
  <2>2. Jobs!AcceptCancel(request.att)
    BY <1>5, <2>1 DEF Cancel, Jobs!AcceptCancel
  <2>3. QED
    BY <2>1, <2>2 DEF Jobs!Next
<1>6. QED
  BY <1>1, <1>2, <1>3, <1>4, <1>5, RowSteps DEF Jobs!Next

\* The whole lifecycle, crashes and races included, implements the promise of
\* DeploymentJobs: one job at a time, one result each, cancellations kept.
THEOREM Implementation == Spec => ImplementsJobs
<1>1. Init => Jobs!Init
  BY DEF Init, Jobs!Init, Active
<1>2. IInv /\ [Next]_vars => [Jobs!Next]_(Jobs!vars)
  BY JobsStep
<1>3. QED
  BY <1>1, <1>2, Invariance, PTL DEF Spec, ImplementsJobs, Jobs!Spec
=============================================================================
