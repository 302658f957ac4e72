--------------------------- MODULE MaintenanceGate ---------------------------
(***************************************************************************)
(* Admission of HTTP requests during maintenance.  Every finite request    *)
(* holds a shared flock on the gate file through its downstream task; an   *)
(* operator's helper process takes it exclusively, then the provisioning   *)
(* lock and the SQLite writer lock, and proves that nothing is active.     *)
(* Detached runners and the background observers of the API are not        *)
(* admitted by the gate: they are what the other two locks and the proof   *)
(* are for.  An intent that the installer wrote outlives its flock.        *)
(***************************************************************************)
EXTENDS Naturals, FiniteSets

CONSTANTS
  Requests,     \* mutating requests; each may start one attempt
  Unheld,       \* nobody holds the provisioning lock
  Helper,       \* the maintenance helper process
  MaxRestarts   \* bound: ends of the API process

ASSUME UnheldAssumption == Unheld \notin Requests /\ Helper \notin Requests \cup {Unheld}

VARIABLES
  api,          \* "up" or "down"
  process,      \* identity of the API process: how often it was started
  handler,      \* the downstream task of a request and whether its caller waits
  active,       \* requests whose attempt is recorded as not terminal
  wsLock,       \* requests whose attempt holds its workspace lock
  process_of,   \* the detached runner of a request's attempt
  provisioner,  \* holder of the provisioning flock
  helper,       \* how far the helper is
  proven,       \* the API process the helper was told about
  intent        \* the gate file is not empty

gateVars == <<api, process, handler, active, wsLock, process_of, provisioner, helper, proven, intent>>
attemptRows == <<active, wsLock>>
locksHeld == <<provisioner, helper, proven, intent>>

Holding == {"waited", "abandoned"}

GateTypeOK ==
  /\ api \in {"up", "down"} /\ process \in Nat /\ proven \in Nat
  /\ handler \in [Requests -> {"new", "done"} \cup Holding]
  /\ active \subseteq Requests /\ wsLock \subseteq Requests
  /\ process_of \in [Requests -> {"none", "live", "dead"}]
  /\ provisioner \in Requests \cup {Unheld, Helper}
  /\ helper \in {"out", "gate", "alone", "held"}
  /\ intent \in BOOLEAN

GateInit ==
  /\ api = "up" /\ process = 1 /\ proven = 0
  /\ handler = [r \in Requests |-> "new"]
  /\ active = {} /\ wsLock = {}
  /\ process_of = [r \in Requests |-> "none"]
  /\ provisioner = Unheld
  /\ helper = "out"
  /\ intent = FALSE

\* Fault: the descriptor is closed when the client disconnects.
HoldersWithClient == {r \in Requests : handler[r] = "waited"}

SharedHolders == {r \in Requests : handler[r] \in Holding}
WriterFree == helper # "held"

-----------------------------------------------------------------------------
(* Requests.                                                               *)

\* The middleware takes the shared lock and refuses while an intent is there.
Admit(r) ==
  /\ api = "up" /\ handler[r] = "new"
  /\ helper = "out"
  /\ ~intent
  /\ handler' = [handler EXCEPT ![r] = "waited"]
  /\ UNCHANGED <<api, process, attemptRows, process_of, locksHeld>>

\* The client goes away; the downstream task keeps its descriptor.
Disconnect(r) ==
  /\ handler[r] = "waited"
  /\ handler' = [handler EXCEPT ![r] = "abandoned"]
  /\ UNCHANGED <<api, process, attemptRows, process_of, locksHeld>>

\* reserve_attempt commits a row with its workspace lock.
RecordAttempt(r) ==
  /\ handler[r] \in Holding /\ process_of[r] = "none" /\ r \notin active
  /\ WriterFree
  /\ active' = active \cup {r} /\ wsLock' = wsLock \cup {r}
  /\ UNCHANGED <<api, process, handler, process_of, locksHeld>>

\* Only some scopes take the provisioning lock, which the runner inherits.
SpawnRunner(r) ==
  /\ handler[r] \in Holding /\ r \in wsLock /\ process_of[r] = "none"
  /\ provisioner' \in {provisioner} \cup (IF provisioner = Unheld THEN {r} ELSE {})
  /\ process_of' = [process_of EXCEPT ![r] = "live"]
  /\ UNCHANGED <<api, process, handler, attemptRows, helper, proven, intent>>

\* A cancel request makes the row terminal while its runner still exits.
CancelRow(r) ==
  /\ SharedHolders # {} /\ r \in active
  /\ WriterFree
  /\ active' = active \ {r}
  /\ UNCHANGED <<api, process, handler, wsLock, process_of, locksHeld>>

Answered(r) ==
  /\ handler[r] \in Holding
  /\ handler' = [handler EXCEPT ![r] = "done"]
  /\ UNCHANGED <<api, process, attemptRows, process_of, locksHeld>>

-----------------------------------------------------------------------------
(* Runners, observers and the API process.                                 *)

RunnerStops(r) ==
  /\ process_of[r] = "live"
  /\ process_of' = [process_of EXCEPT ![r] = "dead"]
  /\ provisioner' = IF provisioner = r THEN Unheld ELSE provisioner
  /\ UNCHANGED <<api, process, handler, attemptRows, helper, proven, intent>>

\* An observer or the recovery pass ends the attempt of a runner that is gone.
EndAttempt(r) ==
  /\ api = "up" /\ r \in active \cup wsLock /\ process_of[r] # "live"
  /\ handler[r] \in Holding => process_of[r] = "dead"
  /\ WriterFree
  /\ active' = active \ {r} /\ wsLock' = wsLock \ {r}
  /\ UNCHANGED <<api, process, handler, process_of, locksHeld>>

ApiEnds ==
  /\ api = "up" /\ process <= MaxRestarts
  /\ api' = "down"
  /\ handler' = [r \in Requests |-> IF r \in SharedHolders THEN "done" ELSE handler[r]]
  /\ UNCHANGED <<process, attemptRows, process_of, locksHeld>>

ApiStarts ==
  /\ api = "down"
  /\ api' = "up" /\ process' = process + 1
  /\ UNCHANGED <<handler, attemptRows, process_of, locksHeld>>

-----------------------------------------------------------------------------
(* The helper (hold_maintenance).                                          *)

ProofMatches == api = "up" /\ proven = process

\* The installer reads the capability of the running API and starts the helper.
ReadCapability ==
  /\ api = "up" /\ helper = "out"
  /\ proven' = process
  /\ UNCHANGED <<api, process, handler, attemptRows, process_of, provisioner, helper, intent>>

TakeGate ==
  /\ helper = "out" /\ ProofMatches
  /\ SharedHolders = {}
  /\ ~intent
  /\ helper' = "gate"
  /\ UNCHANGED <<api, process, handler, attemptRows, process_of, provisioner, proven, intent>>

TakeProvisioning ==
  /\ helper = "gate" /\ ProofMatches
  /\ provisioner = Unheld
  /\ provisioner' = Helper
  /\ helper' = "alone"
  /\ UNCHANGED <<api, process, handler, attemptRows, process_of, proven, intent>>

\* assert_idle under BEGIN IMMEDIATE: rows, workspace locks, runner processes.
ProveIdle ==
  /\ helper = "alone"
  /\ active = {} /\ wsLock = {}
  /\ \A r \in Requests : process_of[r] # "live"
  /\ ProofMatches
  /\ helper' = "held"
  /\ UNCHANGED <<api, process, handler, attemptRows, process_of, provisioner, proven, intent>>

\* The installer records its intent before it replaces the container.
WriteIntent ==
  /\ helper = "held"
  /\ intent' = TRUE
  /\ UNCHANGED <<api, process, handler, attemptRows, process_of, provisioner, helper, proven>>

\* Refused, end of input, or a dead installer: every lock is released.
HelperLeaves ==
  /\ helper # "out"
  /\ helper' = "out"
  /\ provisioner' = IF provisioner = Helper THEN Unheld ELSE provisioner
  /\ UNCHANGED <<api, process, handler, attemptRows, process_of, proven, intent>>

\* Explicit recovery empties the gate file once the maintenance is finished.
ClearIntent ==
  /\ intent /\ helper = "out"
  /\ intent' = FALSE
  /\ UNCHANGED <<api, process, handler, attemptRows, process_of, provisioner, helper, proven>>

GateNext ==
  \/ \E r \in Requests : Admit(r) \/ Disconnect(r) \/ RecordAttempt(r) \/ SpawnRunner(r)
                         \/ CancelRow(r) \/ Answered(r) \/ RunnerStops(r) \/ EndAttempt(r)
  \/ ApiEnds \/ ApiStarts
  \/ ReadCapability \/ TakeGate \/ TakeProvisioning \/ ProveIdle
  \/ WriteIntent \/ HelperLeaves \/ ClearIntent

GateSpec == GateInit /\ [][GateNext]_gateVars

-----------------------------------------------------------------------------
(* Properties.                                                             *)

\* While the helper reports "idle" nothing runs: no request, not even one
\* whose client left, no runner of any scope, no active row, and this stays so
\* until the helper leaves, also when the API is restarted under it.
HeldIsIdle ==
  helper = "held" =>
    /\ \A r \in Requests : handler[r] \notin Holding
    /\ active = {} /\ wsLock = {}
    /\ \A r \in Requests : process_of[r] # "live"

\* An installer that died in the middle left an intent: no request runs and no
\* second helper takes the gate until somebody recovers it.
IntentKeepsClosed ==
  intent => (\A r \in Requests : handler[r] \notin Holding) /\ helper \in {"out", "held"}

\* What an operator relies on when replacing the container: an idle gate while
\* the helper holds it, and a closed gate after the installer died.
GateIsSafe == GateTypeOK /\ HeldIsIdle /\ IntentKeepsClosed
=============================================================================
