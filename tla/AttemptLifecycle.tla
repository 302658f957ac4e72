-------------------------- MODULE AttemptLifecycle --------------------------
(***************************************************************************)
(* The life of a deployment attempt: reservation by a request, setup,      *)
(* launch of a detached runner, observation, cancellation, graceful        *)
(* shutdown, hard crash and restart of the API, and the recovery pass.     *)
(*                                                                         *)
(* Database transactions are single steps (SQLite serializes writers);     *)
(* everything between two transactions, and everything a coroutine does    *)
(* after an await, is a step of its own.  The runner is an independent     *)
(* process: it outlives the API and may exit in any state.                 *)
(* Attempts of scope snapshot_set never run a process and are not modelled *)
(* here.  Time is abstract: a heartbeat may become stale whenever nobody   *)
(* renews it, and the 90 second grace of the recovery pass only says that  *)
(* it never takes an attempt whose request has not yet registered a task.  *)
(***************************************************************************)
EXTENDS FiniteSets

CONSTANTS Dep,      \* deployments (one workspace each)
          Att,      \* attempt identifiers, each used once
          Null,     \* a null column, a free lock, nothing in progress
          Scopes    \* the scopes that clients ask for

ASSUME NullAssumption == Null \notin Att /\ Null \notin Dep
ASSUME ScopesAssumption == Scopes \subseteq {"full", "runtime", "configure", "teardown"}

VARIABLES
  \* rows of the database
  state,        \* Attempt.state; "none" before the row is inserted
  deployment,   \* Attempt.deployment_id
  scope,        \* Attempt.scope
  cancelled,    \* attempts whose sub_reason is "cancel_requested"
  current,      \* Deployment.current_attempt_id
  depState,     \* Deployment.state
  lock,         \* WorkspaceLock.owner, Null when there is no row
  stale,        \* deployments whose lock has an expired heartbeat
  \* the host: runner processes and files of the workspace
  runner,       \* the runner process of an attempt: "none", "live" or "dead"
  published,    \* attempts whose pid and process.json files identify the runner
  exit,         \* "ok", "error", or "lost" when no rc file was written
  signalled,    \* attempts whose runner was sent SIGTERM on a cancel request
  secrets,      \* temporary agent, vault and variable files of an attempt
  \* memory of the API process
  api,          \* "up", "stopping" or "down"
  task,         \* what the API's coroutine for an attempt does next
  flock,        \* attempt whose request holds the provisioning lock open
  vetted,       \* deployments with a teardown request past its state check
  request,      \* the cancel request being served
  again,        \* finished attempts whose caller calls finish_attempt once more
  pass          \* the recovery pass being run

rows == <<state, deployment, scope, cancelled, current, depState>>
locks == <<lock, stale>>
processes == <<runner, published, exit, signalled>>
requests == <<vetted, request, again>>
vars == <<rows, locks, processes, secrets, api, task, flock, requests, pass>>

Active == {"pending", "deploying"}
Terminal == {"succeeded", "partial", "failed", "cancelled", "unknown"}

\* Phases of the API's task for an attempt, in program order.
Starting == {"starting", "preparing", "agent", "armed", "spawned", "launched",
             "failing", "killed"}
Observing == {"running", "exited", "adopted", "recovering"}
Tasks == {"none", "reserved"} \cup Starting \cup Observing
Owning == {"preparing", "agent", "armed", "spawned", "launched", "killed"} \cup Observing

NoRequest == [att |-> Null, pending |-> FALSE]
NoPass == [todo |-> {}, cancelSeen |-> {}, at |-> Null]

TypeOK ==
  /\ state \in [Att -> {"none"} \cup Active \cup Terminal]
  /\ deployment \in [Att -> Dep \cup {Null}]
  /\ scope \in [Att -> Scopes \cup {"none"}]
  /\ cancelled \in SUBSET Att
  /\ current \in [Dep -> Att \cup {Null}]
  /\ depState \in [Dep -> Active \cup Terminal]
  /\ lock \in [Dep -> Att \cup {Null}]
  /\ stale \in SUBSET Dep
  /\ runner \in [Att -> {"none", "live", "dead"}]
  /\ published \in SUBSET Att
  /\ exit \in [Att -> {"none", "ok", "error", "lost"}]
  /\ signalled \in SUBSET Att
  /\ secrets \in [Att -> {"none", "unrecorded", "recorded"}]
  /\ api \in {"up", "stopping", "down"}
  /\ task \in [Att -> Tasks]
  /\ flock \in Att \cup {Null}
  /\ vetted \in SUBSET Dep
  /\ request \in [att : Att \cup {Null}, pending : BOOLEAN]
  /\ again \in SUBSET Att
  /\ pass \in [todo : SUBSET Att, cancelSeen : SUBSET Att, at : Att \cup {Null}]

\* A deployment is created in state pending with no attempt.
Init ==
  /\ state = [a \in Att |-> "none"]
  /\ deployment = [a \in Att |-> Null]
  /\ scope = [a \in Att |-> "none"]
  /\ cancelled = {}
  /\ current = [d \in Dep |-> Null]
  /\ depState = [d \in Dep |-> "pending"]
  /\ lock = [d \in Dep |-> Null]
  /\ stale = {}
  /\ runner = [a \in Att |-> "none"]
  /\ published = {}
  /\ exit = [a \in Att |-> "none"]
  /\ signalled = {}
  /\ secrets = [a \in Att |-> "none"]
  /\ api = "up"
  /\ task = [a \in Att |-> "none"]
  /\ flock = Null
  /\ vetted = {}
  /\ request = NoRequest
  /\ again = {}
  /\ pass = NoPass

-----------------------------------------------------------------------------
(* What the code asks of the state.                                        *)

\* The pid of a live process equals the recorded identity.
ProcessMatches(a) == a \in published /\ runner[a] = "live"

\* The owner's verified process is alive: the lock is kept whatever its age.
RunnerAlive(a) == ProcessMatches(a)

Reclaimable(d) == lock[d] # Null /\ d \in stale /\ ~RunnerAlive(lock[d])

HasActiveAttempt(d) == current[d] # Null /\ state[current[d]] \in Active

IsTracked(a) == task[a] \notin {"none", "reserved"}

\* The API loop runs: requests are served only before shutdown begins.
Serving == api = "up"
Running == api \in {"up", "stopping"}

\* Pinned full and runtime attempts take the installation's provisioning lock.
Provisions(k) == k \in {"full", "runtime"}

\* Fault: LOCK_UN on leaving the block unlocks the runner's descriptor as well.
HeldByApiOnly == flock # Null

\* An open descriptor of the lock file holds the flock: the API's own one or
\* the one a live runner inherited.
ProvisioningHeld ==
  flock # Null \/ \E a \in Att : runner[a] = "live" /\ Provisions(scope[a])

\* Leaving the "with ProvisioningLock" block closes the API's descriptor.
CloseFlock(a) == flock' = IF flock = a THEN Null ELSE flock

Become(a, phase) == task' = [task EXCEPT ![a] = phase]

\* Faults of the transaction below: the lock is kept, the cancel request is
\* ignored, a late call overwrites the result, the pointer is not compared.
FinishWith(a, final, toDeployment) ==
  LET d == deployment[a]
  IN /\ state' = [state EXCEPT ![a] = final]
     /\ depState' = IF toDeployment THEN [depState EXCEPT ![d] = final] ELSE depState
     /\ lock' = IF lock[d] = a THEN [lock EXCEPT ![d] = Null] ELSE lock
     /\ stale' = IF lock[d] = a THEN stale \ {d} ELSE stale
     /\ UNCHANGED <<deployment, scope, cancelled, current>>

FinishKeepsLock(a, outcome) ==
  LET d == deployment[a]
      final == IF a \in cancelled THEN "cancelled" ELSE outcome
  IN /\ state[a] \in Active
     /\ state' = [state EXCEPT ![a] = final]
     /\ depState' = IF current[d] = a THEN [depState EXCEPT ![d] = final] ELSE depState
     /\ UNCHANGED <<locks, deployment, scope, cancelled, current>>

FinishIgnoresCancel(a, outcome) ==
  FinishWith(a, IF state[a] \in Terminal THEN state[a] ELSE outcome, current[deployment[a]] = a)

FinishOverwrites(a, outcome) ==
  FinishWith(a, IF a \in cancelled THEN "cancelled" ELSE outcome, current[deployment[a]] = a)

FinishLate(a, outcome) ==
  FinishWith(a, IF state[a] \in Terminal THEN state[a]
                ELSE IF a \in cancelled THEN "cancelled" ELSE outcome, TRUE)

(***************************************************************************)
(* finish_attempt, one transaction.  A terminal row keeps its state, a     *)
(* requested cancellation overrides the outcome, only the current attempt  *)
(* writes the deployment and only the owner's lock is released.            *)
(***************************************************************************)
Finish(a, outcome) ==
  LET d == deployment[a]
      final == IF state[a] \in Terminal THEN state[a]
               ELSE IF a \in cancelled THEN "cancelled" ELSE outcome
  IN /\ state' = [state EXCEPT ![a] = final]
     /\ depState' = IF current[d] = a THEN [depState EXCEPT ![d] = final]
                    ELSE depState
     /\ lock' = IF lock[d] = a THEN [lock EXCEPT ![d] = Null] ELSE lock
     /\ stale' = IF lock[d] = a THEN stale \ {d} ELSE stale
     /\ UNCHANGED <<deployment, scope, cancelled, current>>

-----------------------------------------------------------------------------
(* Requests: reserve_attempt and its start.                                *)

\* A teardown request reads the deployment row and passes the state check;
\* the check is not repeated when the reservation is written.
VetTeardown(d) ==
  /\ Serving /\ "teardown" \in Scopes
  /\ depState[d] # "unknown"
  /\ vetted' = vetted \cup {d}
  /\ UNCHANGED <<rows, locks, processes, secrets, api, task, flock, request, again, pass>>

\* Fault: the reservation looks at the lock but not at the current attempt.
ReserveOverActive(d, a, k) ==
  /\ Serving /\ state[a] = "none" /\ lock[d] = Null
  /\ k = "teardown" => d \in vetted
  /\ state' = [state EXCEPT ![a] = "pending"]
  /\ deployment' = [deployment EXCEPT ![a] = d]
  /\ scope' = [scope EXCEPT ![a] = k]
  /\ current' = [current EXCEPT ![d] = a]
  /\ depState' = [depState EXCEPT ![d] = "pending"]
  /\ Become(a, "reserved")
  /\ UNCHANGED <<cancelled, locks, processes, secrets, api, flock, requests, pass>>

\* INSERT, cleanup_stale_locks and the conditional UPDATE, one transaction.
Reserve(d, a, k) ==
  /\ Serving
  /\ state[a] = "none"
  /\ k = "teardown" => d \in vetted
  /\ ~HasActiveAttempt(d)
  /\ lock[d] = Null \/ Reclaimable(d)
  /\ state' = [state EXCEPT ![a] = "pending"]
  /\ deployment' = [deployment EXCEPT ![a] = d]
  /\ scope' = [scope EXCEPT ![a] = k]
  /\ current' = [current EXCEPT ![d] = a]
  /\ depState' = [depState EXCEPT ![d] = "pending"]
  /\ lock' = [lock EXCEPT ![d] = Null]
  /\ stale' = stale \ {d}
  /\ vetted' = IF k = "teardown" THEN vetted \ {d} ELSE vetted
  /\ Become(a, "reserved")
  /\ UNCHANGED <<cancelled, processes, secrets, api, flock, request, again, pass>>

\* 409: the transaction is rolled back and the request ends.
RefuseTeardown(d) ==
  /\ d \in vetted
  /\ HasActiveAttempt(d) \/ (lock[d] # Null /\ ~Reclaimable(d))
  /\ vetted' = vetted \ {d}
  /\ UNCHANGED <<rows, locks, processes, secrets, api, task, flock, request, again, pass>>

\* start_attempt registers the task and enters the provisioning lock.
StartAttempt(a) ==
  /\ Running
  /\ task[a] = "reserved"
  /\ Provisions(scope[a]) => ~ProvisioningHeld
  /\ flock' = IF Provisions(scope[a]) THEN a ELSE flock
  /\ Become(a, "starting")
  /\ UNCHANGED <<rows, locks, processes, secrets, api, requests, pass>>

\* The scope is refused, or the lock is busy (PROVISIONING_BUSY).
StartRefused(a) ==
  /\ Running
  /\ task[a] = "reserved"
  /\ Become(a, "failing")
  /\ UNCHANGED <<rows, locks, processes, secrets, api, flock, requests, pass>>

\* acquire_lock and its commit: a stale lock of a dead runner is replaced.
AcquireLock(a) ==
  LET d == deployment[a] IN
  /\ Running
  /\ task[a] = "starting"
  /\ lock[d] = Null \/ Reclaimable(d)
  /\ lock' = [lock EXCEPT ![d] = a]
  /\ stale' = stale \ {d}
  /\ Become(a, "preparing")
  /\ UNCHANGED <<rows, processes, secrets, api, flock, requests, pass>>

\* Checkout, preflight and allocation are done; the agent and the runtime
\* vault are created, then recorded in cleanup.json.
CreateSecrets(a) ==
  /\ Running
  /\ task[a] = "preparing"
  /\ secrets' = [secrets EXCEPT ![a] = "unrecorded"]
  /\ Become(a, "agent")
  /\ UNCHANGED <<rows, locks, processes, api, flock, requests, pass>>

RecordCleanup(a) ==
  /\ Running
  /\ task[a] = "agent"
  /\ secrets' = [secrets EXCEPT ![a] = "recorded"]
  /\ Become(a, "armed")
  /\ UNCHANGED <<rows, locks, processes, api, flock, requests, pass>>

\* Any exception before the process exists: an open lock file is closed and
\* the in-memory handles let cleanup() remove what was created.
SetupFails(a) ==
  /\ Running
  /\ task[a] \in {"starting", "preparing", "agent", "armed"}
  /\ secrets' = [secrets EXCEPT ![a] = "none"]
  /\ CloseFlock(a)
  /\ Become(a, "failing")
  /\ UNCHANGED <<rows, locks, processes, api, requests, pass>>

\* create_subprocess_exec: the child exists, its identity is not on disk yet.
Spawn(a) ==
  /\ Running
  /\ task[a] = "armed"
  /\ runner' = [runner EXCEPT ![a] = "live"]
  /\ Become(a, "spawned")
  /\ UNCHANGED <<rows, locks, published, exit, signalled, secrets, api, flock, requests, pass>>

\* The pid and process.json files are written and start() returns a handle.
Publish(a) ==
  /\ Running
  /\ task[a] = "spawned"
  /\ published' = published \cup {a}
  /\ Become(a, "launched")
  /\ UNCHANGED <<rows, locks, runner, exit, signalled, secrets, api, flock, requests, pass>>

\* Writing them raises: there is no handle to kill the child with.
PublishFails(a) ==
  /\ Running
  /\ task[a] = "spawned"
  /\ secrets' = [secrets EXCEPT ![a] = "none"]
  /\ CloseFlock(a)
  /\ Become(a, "failing")
  /\ UNCHANGED <<rows, locks, processes, api, requests, pass>>

\* How a runner may end: with return code 0, another one, or without an rc file.
Ending == {"ok", "error", "lost"}

\* handle.kill() waits until the process has exited.
Kill(a) ==
  /\ runner' = [runner EXCEPT ![a] = "dead"]
  /\ exit' \in IF runner[a] = "live" THEN {[exit EXCEPT ![a] = r] : r \in Ending}
              ELSE {exit}
  /\ UNCHANGED <<published, signalled>>

\* Faults: the state is called "running", a cancel request is not looked at.
MarkStarted(a, started, refused) ==
  LET d == deployment[a] IN
  /\ Running /\ task[a] = "launched"
  /\ state[a] \in Active /\ a \notin refused
  /\ state' = [state EXCEPT ![a] = started]
  /\ depState' = [depState EXCEPT ![d] = started]
  /\ CloseFlock(a)
  /\ Become(a, "running")
  /\ UNCHANGED <<deployment, scope, cancelled, current, locks, processes, secrets,
                 api, requests, pass>>

MarkRunningRenamed(a) == MarkStarted(a, "running", cancelled)
MarkRunningBlind(a) == MarkStarted(a, "deploying", {})

\* mark_attempt_running commits and the request returns; _run takes over.
MarkRunning(a) ==
  LET d == deployment[a] IN
  /\ Running
  /\ task[a] = "launched"
  /\ state[a] \in Active /\ a \notin cancelled
  /\ state' = [state EXCEPT ![a] = "deploying"]
  /\ depState' = IF current[d] = a THEN [depState EXCEPT ![d] = "deploying"]
                 ELSE depState
  /\ CloseFlock(a)
  /\ Become(a, "running")
  /\ UNCHANGED <<deployment, scope, cancelled, current, locks, processes, secrets,
                 api, requests, pass>>

\* It returns False: kill, clean up, then finish inside the provisioning lock.
MarkRefused(a) ==
  /\ Running
  /\ task[a] = "launched"
  /\ ~(state[a] \in Active /\ a \notin cancelled)
  /\ Kill(a)
  /\ secrets' = [secrets EXCEPT ![a] = "none"]
  /\ Become(a, "killed")
  /\ UNCHANGED <<rows, locks, api, flock, requests, pass>>

\* The database fails instead: kill, clean up, leave the provisioning lock.
MarkFails(a) ==
  /\ Running
  /\ task[a] = "launched"
  /\ Kill(a)
  /\ secrets' = [secrets EXCEPT ![a] = "none"]
  /\ CloseFlock(a)
  /\ Become(a, "failing")
  /\ UNCHANGED <<rows, locks, api, requests, pass>>

\* finish_attempt of a setup that failed, in start_attempt and once more in
\* its caller, or of a runner that had to be killed.
FinishFailed(a) ==
  /\ Running
  /\ task[a] \in {"failing", "killed"}
  /\ Finish(a, "failed")
  /\ again' = IF task[a] = "failing" THEN again \cup {a} ELSE again
  /\ CloseFlock(a)
  /\ Become(a, "none")
  /\ UNCHANGED <<processes, secrets, api, vetted, request, pass>>

-----------------------------------------------------------------------------
(* The runner process and its observer.                                    *)

\* The process ends by itself, on a signal, or with the host.
RunnerExits(a) ==
  /\ runner[a] = "live"
  /\ runner' = [runner EXCEPT ![a] = "dead"]
  /\ \E r \in Ending : exit' = [exit EXCEPT ![a] = r]
  /\ UNCHANGED <<rows, locks, published, signalled, secrets, api, task, flock, requests, pass>>

\* keep_attempt_lock of a running observer.  Its failure is noticed only when
\* the runner ends, so that a lock can expire in any phase.
Heartbeat(d) ==
  /\ Running
  /\ lock[d] # Null /\ task[lock[d]] \in {"running", "adopted"}
  /\ d \in stale
  /\ stale' = stale \ {d}
  /\ UNCHANGED <<rows, lock, processes, secrets, api, task, flock, requests, pass>>

HeartbeatExpires(d) ==
  /\ lock[d] # Null
  /\ d \notin stale
  /\ stale' = stale \cup {d}
  /\ UNCHANGED <<rows, lock, processes, secrets, api, task, flock, requests, pass>>

\* _run after handle.wait(): the workers have stopped, then cleanup().
ObserveExit(a) ==
  /\ Running
  /\ task[a] = "running"
  /\ runner[a] = "dead"
  /\ secrets' = [secrets EXCEPT ![a] = "none"]
  /\ Become(a, "exited")
  /\ UNCHANGED <<rows, locks, processes, api, flock, requests, pass>>

\* The readback of a runtime operation lowers a success to partial or failed,
\* and reports what a failed run did change as partial.
Outcomes(a, result) ==
  {result} \cup IF scope[a] = "runtime" THEN {"partial", "failed"} ELSE {}

\* The handle knows the exit status even when no rc file was written.
FinishRun(a) ==
  /\ Running
  /\ task[a] = "exited"
  /\ \E outcome \in Outcomes(a, IF exit[a] = "ok" THEN "succeeded" ELSE "failed") :
       Finish(a, outcome)
  /\ again' = again \cup {a}
  /\ Become(a, "none")
  /\ UNCHANGED <<processes, secrets, api, flock, vetted, request, pass>>

\* The lock keeper or the database failed meanwhile: clean up, finish as failed.
MonitorFails(a) ==
  /\ Running
  /\ task[a] \in {"running", "exited"}
  /\ runner[a] = "dead"
  /\ secrets' = [secrets EXCEPT ![a] = "none"]
  /\ Become(a, "killed")
  /\ UNCHANGED <<rows, locks, processes, api, flock, requests, pass>>

\* Fault: the metadata is not found where the launch wrote it.
CleanupMisses(a) == UNCHANGED secrets

\* cleanup_attempt_credentials: only recorded resources can be removed.
CleanupRecorded(a) ==
  secrets' = IF secrets[a] = "recorded" THEN [secrets EXCEPT ![a] = "none"] ELSE secrets

\* _observe of an adopted runner, then _finish_recovered up to its cleanup.
AdoptedExit(a) ==
  /\ Running
  /\ task[a] = "adopted"
  /\ ~ProcessMatches(a)
  /\ CleanupRecorded(a)
  /\ Become(a, "recovering")
  /\ UNCHANGED <<rows, locks, processes, api, flock, requests, pass>>

\* Fault: a missing rc file reads as 0.
MissingIsZero(a) ==
  IF exit[a] = "error" THEN Outcomes(a, "failed") ELSE Outcomes(a, "succeeded")

\* Recovery knows the result only from the rc file.
RecoveredOutcome(a) ==
  CASE exit[a] = "ok" -> Outcomes(a, "succeeded")
    [] exit[a] = "error" -> Outcomes(a, "failed")
    [] OTHER -> {"unknown"}

FinishAdopted(a) ==
  /\ Running
  /\ task[a] = "recovering"
  /\ \E outcome \in RecoveredOutcome(a) : Finish(a, outcome)
  /\ again' = again \cup {a}
  /\ Become(a, "none")
  /\ UNCHANGED <<processes, secrets, api, flock, vetted, request, pass>>

\* finish_attempt is called again to store the cursor of attempt_end, with the
\* same return code but without what made the first result partial or unknown.
FinishAgain(a) ==
  /\ Running
  /\ a \in again
  /\ \E outcome \in {"succeeded", "failed"} : Finish(a, outcome)
  /\ again' = again \ {a}
  /\ UNCHANGED <<processes, secrets, api, task, flock, vetted, request, pass>>

\* An exception that nothing catches: the event drain of an adopted observer,
\* or the database while the result is being saved.
TaskDies(a) ==
  /\ Running
  /\ task[a] \in {"failing", "killed", "adopted", "recovering"}
  /\ CloseFlock(a)
  /\ Become(a, "none")
  /\ UNCHANGED <<rows, locks, processes, secrets, api, requests, pass>>

-----------------------------------------------------------------------------
(* cancel_current_attempt: a read, then one transaction around the signal. *)

ReadForCancel(d) ==
  /\ Serving
  /\ request = NoRequest
  /\ HasActiveAttempt(d)
  /\ request' = [att |-> current[d], pending |-> state[current[d]] = "pending"]
  /\ UNCHANGED <<rows, locks, processes, secrets, api, task, flock, vetted, again, pass>>

\* The state that decides whether setup is still running is the one read above.
Cancel ==
  LET a == request.att
      sent == ProcessMatches(a)
      starting == request.pending /\ IsTracked(a)
  IN /\ a # Null
     /\ state[a] \in Active
     /\ sent \/ starting
     /\ cancelled' = cancelled \cup {a}
     /\ signalled' = IF sent THEN signalled \cup {a} ELSE signalled
     /\ request' = NoRequest
     /\ UNCHANGED <<state, deployment, scope, current, depState, locks, runner,
                    published, exit, secrets, api, task, flock, vetted, again,
                    pass>>

\* ATTEMPT_TERMINAL or RUNNER_NOT_RUNNING: rolled back.
CancelRefused ==
  LET a == request.att IN
  /\ a # Null
  /\ \/ state[a] \notin Active
     \/ ~ProcessMatches(a) /\ ~(request.pending /\ IsTracked(a))
  /\ request' = NoRequest
  /\ UNCHANGED <<rows, locks, processes, secrets, api, task, flock, vetted, again, pass>>

-----------------------------------------------------------------------------
(* reconcile_once: one query, then a loop over its rows.                   *)

\* Fault: attempts that never reached the runner are left to their request.
UnfinishedRunners == {a \in Att : state[a] = "deploying"}

\* The rows the query selects; they are not read again in the loop.
Unfinished == {a \in Att : \/ state[a] \in Active
                           \/ state[a] = "cancelled" /\ lock[deployment[a]] = a}

PassStarts ==
  /\ Serving
  /\ pass = NoPass
  /\ Unfinished # {}
  /\ pass' = [todo |-> Unfinished, at |-> Null,
              cancelSeen |-> {a \in Unfinished : state[a] = "cancelled" \/ a \in cancelled}]
  /\ UNCHANGED <<rows, locks, processes, secrets, api, task, flock, requests>>

\* One row at a time; leftovers of an emptied pass are forgotten.
Proceed(a, next) ==
  pass' = IF pass.todo = {a} /\ next = Null THEN NoPass
          ELSE [pass EXCEPT !.todo = @ \ {a}, !.at = next]

\* A tracked attempt, or one without a pid file that is younger than 90 s.
PassSkips(a) ==
  /\ Serving
  /\ pass.at = Null /\ a \in pass.todo
  /\ IsTracked(a) \/ a \notin published
  /\ Proceed(a, Null)
  /\ UNCHANGED <<rows, locks, processes, secrets, api, task, flock, requests>>

\* Signal a cancelled runner again, then restore a missing lock and observe
\* it; a lock of another attempt leaves the process alone.
PassAdopts(a) ==
  LET d == deployment[a] IN
  /\ Serving
  /\ pass.at = Null /\ a \in pass.todo
  /\ ~IsTracked(a) /\ ProcessMatches(a)
  /\ signalled' = IF a \in pass.cancelSeen THEN signalled \cup {a} ELSE signalled
  /\ lock' = IF lock[d] = Null THEN [lock EXCEPT ![d] = a] ELSE lock
  /\ task' = IF lock[d] \in {Null, a} THEN [task EXCEPT ![a] = "adopted"] ELSE task
  /\ Proceed(a, Null)
  /\ UNCHANGED <<rows, stale, runner, published, exit, secrets, api, flock, requests>>

\* Fault: a process without a task is taken for a dead one.
RecoverUnverified(a) ==
  /\ Serving
  /\ pass.at = Null /\ a \in pass.todo
  /\ task[a] = "none"
  /\ CleanupRecorded(a)
  /\ Proceed(a, a)
  /\ UNCHANGED <<rows, locks, processes, api, task, flock, requests>>

\* No verified process: _finish_recovered up to its cleanup.
PassRecovers(a) ==
  /\ Serving
  /\ pass.at = Null /\ a \in pass.todo
  /\ task[a] = "none" /\ ~ProcessMatches(a)
  /\ CleanupRecorded(a)
  /\ Proceed(a, a)
  /\ UNCHANGED <<rows, locks, processes, api, task, flock, requests>>

PassFinishes(a) ==
  /\ Serving
  /\ pass.at = a
  /\ \E outcome \in RecoveredOutcome(a) : Finish(a, outcome)
  /\ again' = again \cup {a}
  /\ pass' = IF pass.todo = {} THEN NoPass ELSE [pass EXCEPT !.at = Null]
  /\ UNCHANGED <<processes, secrets, api, task, flock, vetted, request>>

\* Any exception leaves the loop: the remaining rows wait for the next pass.
PassAborts ==
  /\ Serving
  /\ pass # NoPass
  /\ pass' = NoPass
  /\ UNCHANGED <<rows, locks, processes, secrets, api, task, flock, requests>>

-----------------------------------------------------------------------------
(* Shutdown, crash and restart of the API process.                         *)

\* The scheduler stops first; requests under way may still complete.
BeginShutdown ==
  /\ api = "up"
  /\ api' = "stopping"
  /\ pass' = NoPass
  /\ UNCHANGED <<rows, locks, processes, secrets, task, flock, requests>>

\* stop_observers cancels a task.  A launch under way publishes its process
\* first; only a setup without a process removes its credentials.
Detach(a) ==
  /\ api = "stopping"
  /\ IsTracked(a) /\ task[a] \notin {"agent", "spawned"}
  /\ secrets' = IF task[a] = "armed" THEN [secrets EXCEPT ![a] = "none"] ELSE secrets
  /\ CloseFlock(a)
  /\ Become(a, "none")
  /\ UNCHANGED <<rows, locks, processes, api, requests, pass>>

Forget ==
  /\ api' = "down"
  /\ task' = [a \in Att |-> "none"]
  /\ flock' = Null
  /\ vetted' = {}
  /\ request' = NoRequest
  /\ again' = {}
  /\ pass' = NoPass
  /\ UNCHANGED <<rows, locks, processes, secrets>>

Stopped ==
  /\ api = "stopping"
  /\ \A a \in Att : ~IsTracked(a)
  /\ Forget

\* A hard crash at any point: files, processes and committed rows remain.
Crash ==
  /\ Running
  /\ Forget

Boot ==
  /\ api = "down"
  /\ api' = "up"
  /\ UNCHANGED <<rows, locks, processes, secrets, task, flock, requests, pass>>

-----------------------------------------------------------------------------
Setup(a) ==
  \/ StartAttempt(a) \/ StartRefused(a) \/ AcquireLock(a) \/ CreateSecrets(a)
  \/ RecordCleanup(a) \/ SetupFails(a) \/ Spawn(a) \/ Publish(a) \/ PublishFails(a)
  \/ MarkRunning(a) \/ MarkRefused(a) \/ MarkFails(a) \/ FinishFailed(a)

Observe(a) ==
  \/ ObserveExit(a) \/ FinishRun(a) \/ MonitorFails(a) \/ AdoptedExit(a)
  \/ FinishAdopted(a) \/ TaskDies(a)

Recover(a) == PassSkips(a) \/ PassAdopts(a) \/ PassRecovers(a) \/ PassFinishes(a)

Next ==
  \/ \E d \in Dep : VetTeardown(d) \/ RefuseTeardown(d) \/ ReadForCancel(d)
                    \/ Heartbeat(d) \/ HeartbeatExpires(d)
  \/ \E d \in Dep, a \in Att, k \in Scopes : Reserve(d, a, k)
  \/ \E a \in Att : Setup(a) \/ RunnerExits(a) \/ Observe(a) \/ FinishAgain(a)
                    \/ Recover(a) \/ Detach(a)
  \/ Cancel \/ CancelRefused
  \/ PassStarts \/ PassAborts
  \/ BeginShutdown \/ Stopped \/ Crash \/ Boot

Spec == Init /\ [][Next]_vars

-----------------------------------------------------------------------------
(* Safety.                                                                 *)

Live(a) == state[a] \in Active

\* A workspace lock always belongs to the deployment's current attempt, and
\* that attempt is not over: no path ends an attempt and forgets the lock, and
\* none deletes or hands over the lock of an attempt under way (finish_attempt,
\* cleanup_stale_locks, acquire_lock and the recovery pass together).
LockOwnership ==
  \A d \in Dep : lock[d] # Null =>
    /\ deployment[lock[d]] = d
    /\ current[d] = lock[d]
    /\ Live(lock[d])

\* Whoever touches the workspace holds its lock: a task between acquire_lock
\* and its last transaction, and a verified runner whether or not an API
\* process is there to watch it.  So no workspace ever has two of them.
Working(a) == task[a] \in Owning \/ ProcessMatches(a)
WorkspaceExclusion == \A a \in Att : Working(a) => lock[deployment[a]] = a

\* Recorded temporary credentials exist only under the workspace lock: every
\* path removes them before the transaction that releases it, also after a
\* crash, a shutdown or a failed launch.
SecretsUnderLock ==
  \A a \in Att : secrets[a] = "recorded" => lock[deployment[a]] = a

\* The provisioning lock excludes full and runtime runs of the whole
\* installation, also when the API crashed and only the runner's inherited
\* descriptor keeps it: at most one attempt is launching or running one.
Provisioning(a) == flock = a \/ (runner[a] = "live" /\ Provisions(scope[a]))
ProvisioningExclusion ==
  \A a, b \in Att : Provisioning(a) /\ Provisioning(b) => a = b

\* The deployment's state is that of its current attempt: no late callback of
\* an older attempt overwrites it, and none of the current one is missed.
DeploymentMirrorsAttempt ==
  \A d \in Dep : depState[d] = IF current[d] = Null THEN "pending"
                               ELSE state[current[d]]

\* An attempt that is not the current one of its deployment is over: a new
\* reservation never displaces one under way.
OnlyCurrentIsActive ==
  \A a \in Att : Live(a) => current[deployment[a]] = a

\* An accepted cancellation decides the final state, whatever the runner, its
\* observer, a restart or the recovery pass report later.
CancellationWins ==
  \A a \in cancelled : state[a] \in Active \cup {"cancelled"}

\* An accepted cancellation reaches the process: a cancelled attempt is never
\* observed as a live runner that was not signalled.
CancellationReachesRunner ==
  \A a \in cancelled :
    runner[a] = "live" /\ task[a] \in {"running", "adopted"} => a \in signalled

\* Results are not invented: success needs an observed return code 0, partial
\* a process that ended, and the state unknown of an identified runner means
\* that it left no return code.
OutcomeIsObserved ==
  \A a \in Att :
    /\ state[a] = "succeeded" => exit[a] = "ok"
    /\ state[a] = "partial" => exit[a] # "none" /\ scope[a] = "runtime"
    /\ state[a] = "unknown" /\ a \in published => exit[a] = "lost"

\* A terminal result is final: no step changes it, repeated finish_attempt
\* calls and late callbacks included.
TerminalIsFinal ==
  [][\A a \in Att : state[a] \in Terminal => state'[a] = state[a]]_vars

\* The lifecycle implements the promise of DeploymentJobs: reservations,
\* cancellations and results map to its steps, everything else stutters.
Jobs == INSTANCE DeploymentJobs WITH
  job <- [a \in Att |-> IF state[a] \in Active THEN "active" ELSE state[a]],
  owner <- deployment

ImplementsJobs == Jobs!Spec

-----------------------------------------------------------------------------
(* The inductive invariant: what the safety properties rest on.            *)

\* Rows refer to rows; nothing exists for an attempt that was not reserved.
WellFormed ==
  /\ \A a \in Att :
       IF state[a] = "none"
       THEN /\ task[a] = "none" /\ runner[a] = "none" /\ secrets[a] = "none"
            /\ a \notin pass.todo /\ a # pass.at
       ELSE deployment[a] \in Dep /\ scope[a] \in Scopes
  /\ \A d \in Dep : current[d] # Null =>
       state[current[d]] # "none" /\ deployment[current[d]] = d

\* Only the attempt's own task ends it; the recovery pass takes it when there
\* is none, and no task can start while the pass holds it.
TasksAreLive ==
  \A a \in Att : /\ task[a] # "none" => Live(a)
                 /\ pass.at = a => task[a] = "none"
                 /\ a \in again => state[a] \in Terminal

\* A process exists from its spawn on, is identified after that, and the
\* credentials are not created before the lock is held.
ProcessesFollowSpawn ==
  \A a \in Att : /\ a \in published => runner[a] # "none"
                 /\ task[a] \in {"reserved", "starting", "preparing", "agent", "armed"}
                      => runner[a] = "none"
                 /\ task[a] \in {"reserved", "starting", "preparing"} => secrets[a] = "none"
                 /\ task[a] = "spawned" => a \notin published /\ runner[a] # "none"

\* Before an attempt is finished its process is gone and its files are clean.
Closing(a) == task[a] \in {"failing", "killed", "exited", "recovering"} \/ pass.at = a
ClosingIsClean ==
  \A a \in Att : Closing(a) => ~ProcessMatches(a) /\ secrets[a] # "recorded"

Bookkeeping == WellFormed /\ TasksAreLive /\ ProcessesFollowSpawn /\ ClosingIsClean
Ownership == /\ OnlyCurrentIsActive /\ DeploymentMirrorsAttempt
             /\ LockOwnership /\ WorkspaceExclusion /\ SecretsUnderLock

IInv == TypeOK /\ Bookkeeping /\ Ownership

\* Exclusion of provisioning rests on the launching tasks alone: each has taken
\* the flock, and has not left the block that holds it.
Launching == {"starting", "preparing", "agent", "armed", "spawned", "launched"}
LaunchersHoldFlock ==
  \A a \in Att : task[a] \in Launching /\ Provisions(scope[a]) => flock = a
ProvisioningInv == LaunchersHoldFlock /\ ProvisioningExclusion

-----------------------------------------------------------------------------
(* Statements of the repository that the code does not keep.               *)

\* "Resolve the deployment's unknown state before teardown".
TeardownNeedsKnownState ==
  [][\A a \in Att : state[a] = "none" /\ state'[a] = "pending" /\ scope'[a] = "teardown"
       => depState[deployment'[a]] # "unknown"]_vars

\* "Call only after runner exit, before releasing the workspace lock."
CleanupAfterRunnerExit ==
  [][\A a \in Att : secrets[a] = "recorded" /\ secrets'[a] = "none"
       => runner'[a] # "live"]_vars

-----------------------------------------------------------------------------
(* Liveness.                                                               *)

(***************************************************************************)
(* Coroutines are resumed by the event loop (weak fairness of a task's own *)
(* steps), runners terminate, the service manager restarts the API, and    *)
(* the scheduler runs the recovery pass periodically.  A pass may be cut   *)
(* short by a transient failure or a restart, but not every one at the     *)
(* same attempt (strong fairness of its steps).                            *)
(***************************************************************************)
Fairness ==
  /\ WF_vars(Boot) /\ WF_vars(Stopped) /\ SF_vars(PassStarts)
  /\ \A a \in Att :
       /\ WF_vars(Setup(a)) /\ WF_vars(RunnerExits(a)) /\ WF_vars(Observe(a))
       /\ WF_vars(Detach(a))
       /\ SF_vars(PassAdopts(a)) /\ SF_vars(PassRecovers(a)) /\ SF_vars(PassFinishes(a))

FairSpec == Spec /\ Fairness

\* Every reserved attempt ends, in whatever order crashes, restarts, failures
\* and cancellations come.
AttemptsEnd == \A a \in Att : Live(a) ~> state[a] \in Terminal

\* A workspace lock is never held for ever.
LocksAreReleased == \A d \in Dep : lock[d] # Null ~> lock[d] = Null
=============================================================================
