------------------------- MODULE SharedStateProofs -------------------------
(***************************************************************************)
(* Theorems of what handlers and runners share.  What stands before every  *)
(* handler, and the catalog that requests share: MaintenanceGate for every *)
(* set of requests and any number of restarts of the API, AuditTrail for   *)
(* every set of requests and routes, CatalogCache for any number of        *)
(* workers, readers, tokens and refreshes.  What an attempt leaves behind: *)
(* RuntimeVault for every set of attempts and inodes, SshAgent for every   *)
(* set of attempts and PIDs, any number of processes started and of        *)
(* changes to the files by others.                                         *)
(***************************************************************************)
EXTENDS MaintenanceGate, AuditTrail, CatalogCache, RuntimeVault, SshAgent, SequenceTheorems, TLAPS

-----------------------------------------------------------------------------
(* MaintenanceGate.                                                        *)

\* What HeldIsIdle rests on: from the moment the helper takes the gate no
\* request is inside, so that nothing it has looked at can come up again.
GateExcludes == helper # "out" => \A r \in Requests : handler[r] \notin Holding

GateInv == GateTypeOK /\ HeldIsIdle /\ IntentKeepsClosed /\ GateExcludes

\* Requests and runners keep the types, the helper its exclusion.
LEMMA RequestsKeep ==
  ASSUME GateInv, NEW r \in Requests,
         Admit(r) \/ Disconnect(r) \/ RecordAttempt(r) \/ SpawnRunner(r) \/ CancelRow(r)
           \/ Answered(r) \/ RunnerStops(r) \/ EndAttempt(r)
  PROVE  GateInv'
<1> USE DEF GateInv, GateTypeOK, HeldIsIdle, IntentKeepsClosed, GateExcludes, Holding,
            attemptRows, locksHeld
<1>1. CASE Admit(r)
  BY <1>1 DEF Admit
<1>2. CASE Disconnect(r)
  BY <1>2 DEF Disconnect
<1>3. CASE RecordAttempt(r)
  BY <1>3 DEF RecordAttempt, WriterFree
<1>4. CASE SpawnRunner(r)
  BY <1>4 DEF SpawnRunner
<1>5. CASE CancelRow(r)
  BY <1>5 DEF CancelRow
<1>6. CASE Answered(r)
  BY <1>6 DEF Answered
<1>7. CASE RunnerStops(r)
  BY <1>7 DEF RunnerStops
<1>8. CASE EndAttempt(r)
  BY <1>8 DEF EndAttempt
<1>9. QED
  BY <1>1, <1>2, <1>3, <1>4, <1>5, <1>6, <1>7, <1>8

\* The end of the API process lets go of every request, its start of none.
LEMMA ProcessKeeps == GateInv /\ (ApiEnds \/ ApiStarts) => GateInv'
<1> USE DEF GateInv, GateTypeOK, HeldIsIdle, IntentKeepsClosed, GateExcludes, Holding,
            attemptRows, locksHeld
<1>1. ASSUME GateInv, ApiEnds PROVE GateInv'
  <2>1. \A r \in Requests : handler'[r] \notin Holding /\ handler'[r] \in {"new", "done"}
    BY <1>1 DEF ApiEnds, SharedHolders
  <2>2. handler' \in [Requests -> {"new", "done"} \cup Holding]
    BY <1>1, <2>1 DEF ApiEnds
  <2>3. QED
    BY <1>1, <2>1, <2>2 DEF ApiEnds
<1>2. ASSUME GateInv, ApiStarts PROVE GateInv'
  BY <1>2 DEF ApiStarts
<1>3. QED
  BY <1>1, <1>2

\* The helper takes the gate from nobody and holds it only over an idle store.
LEMMA HelperKeeps ==
  ASSUME GateInv, ReadCapability \/ TakeGate \/ TakeProvisioning \/ ProveIdle
                  \/ WriteIntent \/ HelperLeaves \/ ClearIntent
  PROVE  GateInv'
<1> USE DEF GateInv, GateTypeOK, HeldIsIdle, IntentKeepsClosed, GateExcludes, attemptRows
<1>1. CASE ReadCapability
  BY <1>1 DEF ReadCapability
<1>2. CASE TakeGate
  BY <1>2 DEF TakeGate, SharedHolders
<1>3. CASE TakeProvisioning
  BY <1>3 DEF TakeProvisioning
<1>4. CASE ProveIdle
  BY <1>4 DEF ProveIdle
<1>5. CASE WriteIntent
  BY <1>5 DEF WriteIntent
<1>6. CASE HelperLeaves
  BY <1>6 DEF HelperLeaves
<1>7. CASE ClearIntent
  BY <1>7 DEF ClearIntent
<1>8. QED
  BY <1>1, <1>2, <1>3, <1>4, <1>5, <1>6, <1>7

\* While the helper holds the gate nothing runs, and an intent keeps it closed:
\* for any number of requests, disconnections, runners and restarts.
THEOREM GateIsSafeHolds == GateSpec => []GateIsSafe
<1>1. GateInit => GateInv
  <2>1. GateInit => GateTypeOK
    <3>1. GateInit => /\ api \in {"up", "down"} /\ process \in Nat /\ proven \in Nat
                      /\ active \subseteq Requests /\ wsLock \subseteq Requests
                      /\ provisioner \in Requests \cup {Unheld, Helper}
                      /\ helper \in {"out", "gate", "alone", "held"}
      BY DEF GateInit
    <3>2. GateInit => /\ handler \in [Requests -> {"new", "done"} \cup Holding]
                      /\ process_of \in [Requests -> {"none", "live", "dead"}]
      BY DEF GateInit
    <3>3. GateInit => intent \in BOOLEAN
      BY Zenon DEF GateInit
    <3>4. QED
      BY <3>1, <3>2, <3>3, Zenon DEF GateTypeOK
  <2>2. GateInit => HeldIsIdle /\ IntentKeepsClosed /\ GateExcludes
    BY DEF GateInit, HeldIsIdle, IntentKeepsClosed, GateExcludes, Holding
  <2>3. QED
    BY <2>1, <2>2 DEF GateInv
<1>2. GateInv /\ [GateNext]_gateVars => GateInv'
  <2>1. ASSUME GateInv, UNCHANGED gateVars PROVE GateInv'
    BY <2>1 DEF gateVars, GateInv, GateTypeOK, HeldIsIdle, IntentKeepsClosed, GateExcludes
  <2>2. QED
    BY <2>1, RequestsKeep, ProcessKeeps, HelperKeeps DEF GateNext
<1>3. GateInv => GateIsSafe
  BY DEF GateInv, GateIsSafe
<1>4. QED
  BY <1>1, <1>2, <1>3, PTL DEF GateSpec

-----------------------------------------------------------------------------
(* AuditTrail.                                                             *)

Entries == [role : Roles \cup {"none"}, route : Routes \cup {"none"},
            state : {"none", "started", "denied", "completed"}]
Steps == {"gone", "identified", "permitted", "denied", "handled", "answered"}
Turning == [step : Steps, role : Roles, route : Routes \cup {"none"}, intent : BOOLEAN]

AuditTypeOK ==
  /\ call \in [Calls -> Turning]
  /\ records \in [Calls -> Entries]
  /\ effects \subseteq [by : Calls, role : Roles, route : Routes \cup {"none"}]

\* A request whose handler has not run yet has had no effect.
QuietBeforeHandling == \A c \in Calls :
  call[c].step \in {"gone", "identified", "permitted", "denied"} => \A e \in effects : e.by # c

\* A request with an intent has the record that was begun for it.
IntentIsRecorded == \A c \in Calls :
  call[c].intent => records[c] = [role |-> call[c].role, route |-> call[c].route, state |-> "started"]

\* A record stands for an intent, until the request has departed.
RecordNeedsIntent == \A c \in Calls :
  /\ call[c].step \in {"gone", "identified"} => ~call[c].intent
  /\ call[c].step # "answered" /\ ~call[c].intent => records[c].state = "none"

\* Where the audit is on, no mutation passes without an intent, and the
\* handler runs only for a role that may call the route.
MutationsHaveIntent == \A c \in Calls :
  /\ call[c].step \in {"permitted", "denied", "handled"} /\ IsAudited(call[c]) => call[c].intent
  /\ call[c].step \in {"permitted", "handled"} => Allowed(call[c].role, call[c].route)

AuditInv ==
  /\ AuditTypeOK /\ QuietBeforeHandling /\ IntentIsRecorded /\ RecordNeedsIntent
  /\ MutationsHaveIntent /\ AuditCovers

\* What is left of a request when it departs or the process stops.
Departed == [step |-> "answered", role |-> "unknown", route |-> "none", intent |-> FALSE]

\* Only the step of a request changes, or only its intent.
LEMMA StepChanges ==
  ASSUME NEW q \in Turning, NEW s \in Steps
  PROVE  LET next == [q EXCEPT !.step = s] IN
         /\ next \in Turning /\ next.step = s
         /\ next.role = q.role /\ next.route = q.route /\ next.intent = q.intent
BY DEF Turning

\* A gate that is asked for changes nothing else of a turn.
LEMMA IntentChanges ==
  ASSUME NEW q \in Turning
  PROVE  LET next == [q EXCEPT !.intent = TRUE] IN
         /\ next \in Turning /\ next.intent = TRUE
         /\ next.step = q.step /\ next.role = q.role /\ next.route = q.route
BY DEF Turning

\* A request that departs leaves nothing to be answered for.
LEMMA DepartedIs == [Gone EXCEPT !.step = "answered"] = Departed /\ Departed \in Turning
<1>1. Gone \in Turning /\ "answered" \in Steps
  BY DEF Gone, Turning, Steps, Roles
<1>2. Gone.role = "unknown" /\ Gone.route = "none" /\ Gone.intent = FALSE
  BY DEF Gone
<1>3. QED
  <2> DEFINE next == [Gone EXCEPT !.step = "answered"]
  <2>1. /\ next \in Turning /\ next.step = "answered"
        /\ next.role = "unknown" /\ next.route = "none" /\ next.intent = FALSE
    BY <1>1, <1>2, StepChanges
  <2> HIDE DEF next
  <2>2. next = Departed /\ Departed \in Turning
    BY <2>1 DEF Departed, Turning
  <2>3. QED
    BY <2>2 DEF next

\* A request is identified, or answered without having been.
LEMMA IdentifyKeeps == ASSUME AuditInv, NEW c \in Calls, Identify(c) PROVE AuditInv'
<1> USE DEF AuditInv, AuditTypeOK
<1>1. PICK q \in Turning : /\ call' = [call EXCEPT ![c] = q]
                           /\ q = Departed \/ (q.step = "identified" /\ ~q.intent)
  <2>1. PICK role \in Roles, route \in Routes :
          call' = [call EXCEPT ![c] = IF role = "unknown" THEN Departed
                     ELSE [step |-> "identified", role |-> role, route |-> route, intent |-> FALSE]]
    BY DepartedIs DEF Identify
  <2>2. [step |-> "identified", role |-> role, route |-> route, intent |-> FALSE] \in Turning
    BY DEF Turning, Steps
  <2>3. CASE role = "unknown"
    BY <2>1, <2>3, DepartedIs
  <2>4. CASE role # "unknown"
    <3> DEFINE next == [step |-> "identified", role |-> role, route |-> route, intent |-> FALSE]
    <3>1. call' = [call EXCEPT ![c] = next] /\ next.step = "identified" /\ ~next.intent
      BY <2>1, <2>4
    <3> HIDE DEF next
    <3>2. QED
      BY <2>2, <3>1 DEF next
  <2>5. QED
    BY <2>3, <2>4
<1>2. call[c].step = "gone" /\ UNCHANGED <<records, effects>>
  BY DEF Identify
<1>3. AuditTypeOK'
  BY <1>1, <1>2
<1>4. QuietBeforeHandling'
  BY <1>1, <1>2 DEF QuietBeforeHandling, Turning
<1>5. IntentIsRecorded'
  BY <1>1, <1>2 DEF IntentIsRecorded, Turning, Departed
<1>6. MutationsHaveIntent'
  BY <1>1, <1>2 DEF MutationsHaveIntent, IsAudited, Turning, Departed
<1>7. AuditCovers'
  BY <1>2 DEF AuditCovers
<1>8. RecordNeedsIntent'
  BY <1>1, <1>2 DEF RecordNeedsIntent, Turning, Departed
<1>9. QED
  BY <1>3, <1>4, <1>5, <1>6, <1>7, <1>8

\* An intent is made durable before the handler, or the request is refused.
LEMMA BeginKeeps == ASSUME AuditInv, NEW c \in Calls, BeginRecord(c) PROVE AuditInv'
<1> USE DEF AuditInv, AuditTypeOK
<1> DEFINE q == call[c]
<1>1. q.step = "identified" /\ IsAudited(q) /\ effects' = effects /\ q \in Turning
  BY DEF BeginRecord
<1>2. \A e \in effects : e.by # c
  BY <1>1 DEF QuietBeforeHandling
<1>3. CASE Departs(c) /\ UNCHANGED records
  <2>1. call' = [call EXCEPT ![c] = Departed] /\ Departed \in Turning
    BY <1>3, DepartedIs DEF Departs, Departed, Turning, Steps, Roles
  <2>2. QED
    BY <1>1, <1>3, <2>1 DEF QuietBeforeHandling, IntentIsRecorded, RecordNeedsIntent,
                            MutationsHaveIntent, AuditCovers, Departed, Turning
<1>4. CASE /\ records' = [records EXCEPT ![c] = [role |-> q.role, route |-> q.route, state |-> "started"]]
           /\ call' = [call EXCEPT ![c] = [q EXCEPT !.step = Turned(q), !.intent = TRUE]]
  <2> DEFINE turned == [q EXCEPT !.step = Turned(q)]
             next == [turned EXCEPT !.intent = TRUE]
             row == [role |-> q.role, route |-> q.route, state |-> "started"]
  <2>1. Turned(q) \in Steps
    BY DEF Turned, Steps
  <2>2. Turned(q) \in {"permitted", "denied"} /\ (Turned(q) = "permitted" => Allowed(q.role, q.route))
    BY DEF Turned
  <2>3. row \in Entries
    BY <1>1 DEF Turning, Entries
  <2>4. call' = [call EXCEPT ![c] = next] /\ records' = [records EXCEPT ![c] = row]
    BY <1>4
  <2>5. /\ next \in Turning /\ next.intent = TRUE /\ next.step = Turned(q)
        /\ next.role = q.role /\ next.route = q.route
    <3>1. turned \in Turning /\ turned.step = Turned(q) /\ turned.role = q.role /\ turned.route = q.route
      BY <1>1, <2>1, StepChanges
    <3> HIDE DEF turned
    <3>2. QED
      BY <3>1, IntentChanges
  <2> HIDE DEF next, row
  <2>6. row = [role |-> next.role, route |-> next.route, state |-> "started"]
    BY <2>5 DEF row
  <2>7. AuditTypeOK'
    BY <1>1, <2>3, <2>4, <2>5
  <2>8. QuietBeforeHandling'
    BY <1>1, <1>2, <2>4 DEF QuietBeforeHandling
  <2>9. IntentIsRecorded'
    BY <2>4, <2>6 DEF IntentIsRecorded
  <2>10. MutationsHaveIntent'
    BY <2>2, <2>4, <2>5 DEF MutationsHaveIntent, IsAudited
  <2>11. row.state = "started"
    BY DEF row
  <2>12. AuditCovers'
    BY <1>1, <1>2, <2>4, <2>11 DEF AuditCovers
  <2>13. RecordNeedsIntent'
    BY <2>2, <2>4, <2>5 DEF RecordNeedsIntent
  <2>14. QED
    BY <2>7, <2>8, <2>9, <2>10, <2>12, <2>13
<1>5. QED
  BY <1>3, <1>4 DEF BeginRecord

\* A read goes on without an intent.
LEMMA NotAuditedKeeps == ASSUME AuditInv, NEW c \in Calls, NotAudited(c) PROVE AuditInv'
<1> USE DEF AuditInv, AuditTypeOK
<1>1. call[c] \in Turning /\ call[c].step = "identified" /\ ~IsAudited(call[c])
      /\ UNCHANGED <<records, effects>>
  BY DEF NotAudited
<1>2. PICK next \in Turning : /\ call' = [call EXCEPT ![c] = next]
                              /\ next.role = call[c].role /\ next.route = call[c].route
                              /\ next.intent = call[c].intent
                              /\ next.step \in {"permitted", "denied"}
                              /\ next.step = "permitted" => Allowed(call[c].role, call[c].route)
  <2> DEFINE next == [call[c] EXCEPT !.step = Turned(call[c])]
  <2>1. Turned(call[c]) \in {"permitted", "denied"} /\ Turned(call[c]) \in Steps
    BY DEF Turned, Steps
  <2>2. /\ next \in Turning /\ next.step = Turned(call[c]) /\ next.role = call[c].role
        /\ next.route = call[c].route /\ next.intent = call[c].intent
    BY <1>1, <2>1, StepChanges
  <2>3. call' = [call EXCEPT ![c] = next]
    BY DEF NotAudited, Turns
  <2> HIDE DEF next
  <2>4. QED
    BY <2>1, <2>2, <2>3 DEF Turned
<1>3. AuditTypeOK' /\ QuietBeforeHandling' /\ AuditCovers'
  BY <1>1, <1>2 DEF QuietBeforeHandling, AuditCovers
<1>4. IntentIsRecorded' /\ RecordNeedsIntent'
  BY <1>1, <1>2 DEF IntentIsRecorded, RecordNeedsIntent
<1>5. MutationsHaveIntent'
  BY <1>1, <1>2 DEF MutationsHaveIntent, IsAudited
<1>6. QED
  BY <1>3, <1>4, <1>5

\* The handler's effect is one of the role and route that the record names.
LEMMA HandleKeeps == ASSUME AuditInv, NEW c \in Calls, Handle(c) PROVE AuditInv'
<1> USE DEF AuditInv, AuditTypeOK
<1> DEFINE q == call[c]
           e0 == [by |-> c, role |-> q.role, route |-> q.route]
<1>1. q \in Turning /\ q.step = "permitted" /\ records' = records
      /\ effects' \in {effects, effects \cup {e0}}
  BY DEF Handle
<1>2. records[c].state # "denied"
  BY <1>1 DEF IntentIsRecorded, RecordNeedsIntent, Turning
<1>3. PICK next \in Turning : /\ call' = [call EXCEPT ![c] = next]
                              /\ next.role = q.role /\ next.route = q.route
                              /\ next.intent = q.intent /\ next.step = "handled"
  <2> DEFINE next == [q EXCEPT !.step = "handled"]
  <2>1. /\ next \in Turning /\ next.step = "handled" /\ next.role = q.role
        /\ next.route = q.route /\ next.intent = q.intent
    <3>1. "handled" \in Steps
      BY DEF Steps
    <3>2. QED
      BY <1>1, <3>1, StepChanges
  <2>2. call' = [call EXCEPT ![c] = next]
    BY DEF Handle, Turns
  <2> HIDE DEF next
  <2>3. QED
    BY <2>1, <2>2
<1>4. q.step \in {"permitted", "handled"} => Allowed(q.role, q.route)
  BY <1>1 DEF MutationsHaveIntent
<1>5. e0.by = c /\ e0.role = q.role /\ e0.route = q.route
  OBVIOUS
<1>6. e0 \in [by : Calls, role : Roles, route : Routes \cup {"none"}]
  BY <1>1 DEF Turning
<1> HIDE DEF e0
<1>7. AuditTypeOK'
  BY <1>1, <1>3, <1>6
<1>8. QuietBeforeHandling'
  BY <1>1, <1>3, <1>5 DEF QuietBeforeHandling
<1>9. IntentIsRecorded'
  BY <1>1, <1>3 DEF IntentIsRecorded
<1>10. MutationsHaveIntent'
  BY <1>1, <1>3, <1>4 DEF MutationsHaveIntent, IsAudited
<1>11. AuditCovers'
  <2>1. AuditEnabled /\ q.route \notin Reads =>
          /\ records[c].role = q.role /\ records[c].route = q.route
          /\ records[c].state = "started"
    BY <1>1 DEF MutationsHaveIntent, IntentIsRecorded, IsAudited
  <2>2. QED
    BY <1>1, <1>2, <1>5, <2>1 DEF AuditCovers
<1>12. RecordNeedsIntent'
  BY <1>1, <1>3 DEF RecordNeedsIntent
<1>13. QED
  BY <1>7, <1>8, <1>9, <1>10, <1>11, <1>12

\* The record is finished with what the request came to, or stays as begun.
LEMMA ResponseKeeps == ASSUME AuditInv, NEW c \in Calls, ResponseStarts(c) PROVE AuditInv'
<1> USE DEF AuditInv, AuditTypeOK
<1> DEFINE q == call[c]
           result == IF q.step = "denied" THEN "denied" ELSE "completed"
           row == [role |-> q.role, route |-> q.route, state |-> result]
<1>1. q \in Turning /\ q.step \in {"handled", "denied"} /\ effects' = effects
  BY DEF ResponseStarts
<1>2. call' = [call EXCEPT ![c] = Departed] /\ Departed \in Turning
  BY DepartedIs DEF ResponseStarts, Departs, Departed, Turning, Steps, Roles
<1>3. CASE records' = records
  BY <1>1, <1>2, <1>3 DEF QuietBeforeHandling, IntentIsRecorded, RecordNeedsIntent,
                          MutationsHaveIntent, AuditCovers, Departed
<1>4. CASE q.intent /\ records' = [records EXCEPT ![c].state = result]
  <2>1. records[c] = [role |-> q.role, route |-> q.route, state |-> "started"]
    BY <1>4 DEF IntentIsRecorded
  <2>2. records' = [records EXCEPT ![c] = row]
    <3>1. \A x, y, z : [[role |-> x, route |-> y, state |-> "started"] EXCEPT !.state = z]
                       = [role |-> x, route |-> y, state |-> z]
      OBVIOUS
    <3>2. [records[c] EXCEPT !.state = result] = row
      BY <2>1, <3>1
    <3>3. records' = [records EXCEPT ![c] = [records[c] EXCEPT !.state = result]]
      BY <1>4
    <3>4. QED
      BY <3>2, <3>3
  <2>3. row \in Entries /\ row.role = q.role /\ row.route = q.route /\ row.state = result
    BY <1>1 DEF Turning, Entries
  <2>4. result = "denied" => \A e \in effects : e.by # c
    BY <1>1 DEF QuietBeforeHandling
  <2>5. result = "completed" => Allowed(q.role, q.route)
    BY <1>1 DEF MutationsHaveIntent
  <2> HIDE DEF row, result
  <2>6. AuditTypeOK' /\ QuietBeforeHandling'
    BY <1>1, <1>2, <2>2, <2>3 DEF QuietBeforeHandling, Departed
  <2>7. IntentIsRecorded' /\ RecordNeedsIntent'
    BY <1>2, <2>2 DEF IntentIsRecorded, RecordNeedsIntent, Departed
  <2>8. MutationsHaveIntent'
    BY <1>2 DEF MutationsHaveIntent, Departed
  <2>9. AuditCovers'
    BY <1>1, <2>1, <2>2, <2>3, <2>4, <2>5 DEF AuditCovers
  <2>10. QED
    BY <2>6, <2>7, <2>8, <2>9
<1>5. QED
  BY <1>1, <1>3, <1>4 DEF ResponseStarts, Turning

\* A handler that raises leaves the intent as it was begun.
LEMMA RaiseKeeps == ASSUME AuditInv, NEW c \in Calls, HandlerRaises(c) PROVE AuditInv'
<1>1. call' = [call EXCEPT ![c] = Departed] /\ Departed \in Turning /\ UNCHANGED <<records, effects>>
  BY DepartedIs DEF HandlerRaises, Departs, Departed, Turning, Steps, Roles
<1>2. QED
  BY <1>1 DEF AuditInv, AuditTypeOK, QuietBeforeHandling, IntentIsRecorded, RecordNeedsIntent,
              MutationsHaveIntent, AuditCovers, Departed

\* The end of the process leaves requests without an answer, and what they
\* have recorded as it is.
LEMMA StopKeeps == ASSUME AuditInv, ProcessStops PROVE AuditInv'
<1> USE DEF AuditInv, AuditTypeOK
<1>1. /\ call' = [c \in Calls |-> IF call[c].step = "gone" THEN Gone ELSE Departed]
      /\ UNCHANGED <<records, effects>>
  BY DepartedIs DEF ProcessStops
<1>2. Gone \in Turning /\ Departed \in Turning
  BY DEF Gone, Departed, Turning, Steps, Roles
<1>3. AuditTypeOK'
  BY <1>1, <1>2
<1>4. QuietBeforeHandling' /\ AuditCovers'
  BY <1>1 DEF QuietBeforeHandling, AuditCovers, Departed
<1>5. IntentIsRecorded' /\ RecordNeedsIntent' /\ MutationsHaveIntent'
  BY <1>1 DEF IntentIsRecorded, RecordNeedsIntent, MutationsHaveIntent, Gone, Departed
<1>6. QED
  BY <1>3, <1>4, <1>5

\* Whatever fails and whenever the process stops, a mutation that took effect
\* has a durable record of its actor and route, and denied had no effect.
THEOREM AuditCoversHolds == AuditSpec => []AuditCovers
<1>1. AuditInit => AuditInv
  BY DEF AuditInit, AuditInv, AuditTypeOK, QuietBeforeHandling, IntentIsRecorded, RecordNeedsIntent, MutationsHaveIntent,
         AuditCovers, Turning, Entries, Steps, Roles, Gone, NoRecord
<1>2. AuditInv /\ [AuditNext]_auditVars => AuditInv'
  <2>1. ASSUME AuditInv, UNCHANGED auditVars PROVE AuditInv'
    BY <2>1 DEF auditVars, AuditInv, AuditTypeOK, QuietBeforeHandling, IntentIsRecorded,
                RecordNeedsIntent, MutationsHaveIntent, AuditCovers, IsAudited
  <2>2. QED
    BY <2>1, IdentifyKeeps, BeginKeeps, NotAuditedKeeps, HandleKeeps, ResponseKeeps, RaiseKeeps, StopKeeps
       DEF AuditNext
<1>3. AuditInv => AuditCovers
  BY DEF AuditInv
<1>4. QED
  BY <1>1, <1>2, <1>3, PTL DEF AuditSpec

-----------------------------------------------------------------------------
(* CatalogCache.                                                           *)

Asking(r) == reader[r].step \in {"listing", "waiting"}

\* What a listing must have seen that was read under a key of stamp k: as much
\* as the refresh of that stamp, which is what the last answer promised, what
\* the refresh being answered will promise, and what every request that asks
\* under this stamp was promised.
FreshEnough(k, content) ==
  /\ k = refreshed => answered <= content /\ (refresh.step = "committed" => refresh.seen <= content)
  /\ \A r \in Readers : Asking(r) /\ reader[r].key[2] = k => reader[r].floor <= content

\* No key is of a refresh that is not committed yet, and every listing, kept
\* or on its way, is fresh enough for its key.
ListingsAreFresh == \A w \in Workers :
  /\ \A i \in DOMAIN snapshots[w] :
       /\ snapshots[w][i].key[2] <= refreshed
       /\ snapshots[w][i].by = snapshots[w][i].key[1]
       /\ FreshEnough(snapshots[w][i].key[2], snapshots[w][i].content)
  /\ \A l \in pending[w] :
       /\ l.key[2] <= refreshed
       /\ l.content # NotCloned => FreshEnough(l.key[2], l.content)

\* A refresh is stamped later than everything committed, and nobody was
\* promised more than there is.
RefreshesAreOrdered ==
  /\ refreshed <= refresh.stamp
  /\ refresh.step \in {"cloning", "cloned"} => refreshed < refresh.stamp
  /\ refresh.step # "none" => refresh.worker \in Workers
  /\ refresh.seen <= remote /\ answered <= remote
  /\ refresh.step = "committed" => refreshed = refresh.stamp

\* A request asks under the token and a stamp it has read.
ReadersAsk == \A r \in Readers : Asking(r) =>
  /\ reader[r].worker \in Workers
  /\ reader[r].key \in SnapshotKeys
  /\ reader[r].key[1] = reader[r].by /\ reader[r].key[2] <= refreshed
  /\ reader[r].floor <= remote

CatalogInv == CatalogIsFresh /\ ListingsAreFresh /\ RefreshesAreOrdered /\ ReadersAsk

OneEach(t) == \A i, j \in DOMAIN t : i # j => t[i].key # t[j].key

\* A cache within its bound, with one listing per key.
Bounded(t) == t \in Seq(Snapshot) /\ Len(t) <= MaxEntries /\ OneEach(t)

From(t, s) == \A j \in DOMAIN t : \E i \in DOMAIN s : t[j] = s[i]

\* Where the elements are after one was moved to the end.
LEMMA MovedToEnd ==
  ASSUME NEW S, NEW s \in Seq(S), NEW i \in 1..Len(s)
  PROVE  /\ Append(RemoveAt(s, i), s[i]) \in Seq(S)
         /\ Len(Append(RemoveAt(s, i), s[i])) = Len(s)
         /\ \A k \in 1..Len(s) :
              Append(RemoveAt(s, i), s[i])[k] = IF k < i THEN s[k] ELSE IF k < Len(s) THEN s[k + 1] ELSE s[i]
<1>1. Len(s) \in Nat /\ i \in Nat /\ i >= 1 /\ i <= Len(s)
  BY LenProperties
<1>2. \A k \in 1..Len(s) : s[k] \in S
  BY ElementOfSeq
<1> DEFINE a == SubSeq(s, 1, i - 1)
<1> DEFINE b == SubSeq(s, i + 1, Len(s))
<1>3. a \in Seq(S) /\ Len(a) = i - 1 /\ \A k \in 1..i - 1 : a[k] = s[k]
  <2>1. \A k \in 1..i - 1 : s[k] \in S
    BY <1>1, <1>2
  <2>2. 1 \in Int /\ i - 1 \in Int
    BY <1>1
  <2>3. /\ a \in Seq(S) /\ Len(a) = IF 1 <= i - 1 THEN i - 1 - 1 + 1 ELSE 0
        /\ \A k \in 1..i - 1 - 1 + 1 : a[k] = s[1 + k - 1]
    BY <2>1, <2>2, SubSeqProperties
  <2> HIDE DEF a
  <2>4. Len(a) = i - 1
    BY <1>1, <2>3
  <2>5. ASSUME NEW k \in 1..i - 1
        PROVE  a[k] = s[k]
    <3>1. k \in 1..i - 1 - 1 + 1 /\ 1 + k - 1 = k
      BY <1>1
    <3>2. a[k] = s[1 + k - 1]
      BY <2>3, <3>1
    <3>3. QED
      BY <3>1, <3>2
  <2>6. QED
    BY <2>3, <2>4, <2>5
<1>4. b \in Seq(S) /\ Len(b) = Len(s) - i /\ \A k \in 1..Len(s) - i : b[k] = s[i + k]
  <2>1. \A k \in i + 1..Len(s) : s[k] \in S
    BY <1>1, <1>2
  <2>2. i + 1 \in Int /\ Len(s) \in Int
    BY <1>1
  <2>3. /\ b \in Seq(S) /\ Len(b) = IF i + 1 <= Len(s) THEN Len(s) - (i + 1) + 1 ELSE 0
        /\ \A k \in 1..Len(s) - (i + 1) + 1 : b[k] = s[i + 1 + k - 1]
    BY <2>1, <2>2, SubSeqProperties
  <2> HIDE DEF b
  <2>4. Len(b) = Len(s) - i
    BY <1>1, <2>3
  <2>5. ASSUME NEW k \in 1..Len(s) - i
        PROVE  b[k] = s[i + k]
    <3>1. k \in 1..Len(s) - (i + 1) + 1 /\ i + 1 + k - 1 = i + k
      BY <1>1
    <3>2. b[k] = s[i + 1 + k - 1]
      BY <2>3, <3>1
    <3>3. QED
      BY <3>1, <3>2
  <2>6. QED
    BY <2>3, <2>4, <2>5
<1> HIDE DEF a, b
<1> DEFINE c == a \o b
<1>5. c \in Seq(S) /\ Len(c) = Len(a) + Len(b)
      /\ \A k \in 1..Len(a) + Len(b) : c[k] = IF k <= Len(a) THEN a[k] ELSE b[k - Len(a)]
  BY <1>3, <1>4, ConcatProperties
<1>6. Append(RemoveAt(s, i), s[i]) = Append(c, s[i])
  BY DEF RemoveAt, a, b
<1> HIDE DEF c
<1> DEFINE t == Append(c, s[i])
<1>7. /\ t \in Seq(S) /\ Len(t) = Len(c) + 1
      /\ \A k \in 1..Len(c) : t[k] = c[k]
      /\ t[Len(c) + 1] = s[i]
  BY <1>2, <1>5, AppendProperties
<1> HIDE DEF t
<1>8. Len(c) = Len(s) - 1 /\ Len(t) = Len(s)
  BY <1>1, <1>3, <1>4, <1>5, <1>7
<1>9. ASSUME NEW k \in 1..Len(s)
      PROVE  t[k] = IF k < i THEN s[k] ELSE IF k < Len(s) THEN s[k + 1] ELSE s[i]
  <2>1. CASE k < i
    <3>1. k \in 1..Len(c) /\ k \in 1..Len(a) + Len(b) /\ k <= Len(a) /\ k \in 1..i - 1
      BY <1>1, <1>3, <1>4, <1>8, <2>1
    <3>2. t[k] = c[k] /\ c[k] = a[k] /\ a[k] = s[k]
      BY <1>3, <1>5, <1>7, <3>1
    <3>3. QED
      BY <2>1, <3>2
  <2>2. CASE ~(k < i) /\ k < Len(s)
    <3>1. /\ k \in 1..Len(c) /\ k \in 1..Len(a) + Len(b) /\ ~(k <= Len(a))
          /\ k - Len(a) \in 1..Len(s) - i /\ i + (k - Len(a)) = k + 1
      BY <1>1, <1>3, <1>4, <1>8, <2>2
    <3>2. t[k] = c[k] /\ c[k] = b[k - Len(a)] /\ b[k - Len(a)] = s[i + (k - Len(a))]
      BY <1>4, <1>5, <1>7, <3>1
    <3>3. QED
      BY <2>2, <3>1, <3>2
  <2>3. CASE ~(k < i) /\ ~(k < Len(s))
    <3>1. k = Len(c) + 1
      BY <1>1, <1>8, <2>3
    <3>2. QED
      BY <1>7, <2>3, <3>1
  <2>4. QED
    BY <2>1, <2>2, <2>3
<1>10. QED
  BY <1>6, <1>7, <1>8, <1>9 DEF t

\* Moving one place to the end leaves no two in the same place.
LEMMA PlacesDiffer ==
  ASSUME NEW n \in Nat, NEW i \in 1..n, NEW j \in 1..n, NEW k \in 1..n, j # k
  PROVE  (IF j < i THEN j ELSE IF j < n THEN j + 1 ELSE i) # (IF k < i THEN k ELSE IF k < n THEN k + 1 ELSE i)
OBVIOUS

\* A cache is what it was, in another order, after a hit.
LEMMA HitMovesToEnd ==
  ASSUME NEW s, Bounded(s), NEW i \in DOMAIN s, NEW t, t = Append(RemoveAt(s, i), s[i])
  PROVE  Bounded(t) /\ From(t, s)
<1>1. s \in Seq(Snapshot) /\ Len(s) \in Nat /\ DOMAIN s = 1..Len(s) /\ i \in 1..Len(s)
  BY LenProperties DEF Bounded
<1>2. t \in Seq(Snapshot) /\ Len(t) = Len(s)
      /\ \A k \in 1..Len(s) : t[k] = IF k < i THEN s[k] ELSE IF k < Len(s) THEN s[k + 1] ELSE s[i]
  BY <1>1, MovedToEnd
<1>3. DOMAIN t = 1..Len(s)
  BY <1>2, LenProperties
<1> DEFINE origin == [k \in 1..Len(s) |-> IF k < i THEN k ELSE IF k < Len(s) THEN k + 1 ELSE i]
<1>4. \A k \in 1..Len(s) : origin[k] \in 1..Len(s) /\ t[k] = s[origin[k]]
  BY <1>1, <1>2
<1>5. ASSUME NEW j \in 1..Len(s), NEW k \in 1..Len(s), j # k
      PROVE  origin[j] # origin[k]
  <2>1. /\ origin[j] = IF j < i THEN j ELSE IF j < Len(s) THEN j + 1 ELSE i
        /\ origin[k] = IF k < i THEN k ELSE IF k < Len(s) THEN k + 1 ELSE i
    OBVIOUS
  <2>2. QED
    BY <1>1, <1>5, <2>1, PlacesDiffer
<1> HIDE DEF origin
<1>6. OneEach(t)
  <2> SUFFICES ASSUME NEW j \in 1..Len(s), NEW k \in 1..Len(s), j # k
               PROVE  t[j].key # t[k].key
    BY <1>3 DEF OneEach
  <2>1. origin[j] \in DOMAIN s /\ origin[k] \in DOMAIN s /\ origin[j] # origin[k]
    BY <1>1, <1>4, <1>5
  <2>2. s[origin[j]].key # s[origin[k]].key
    BY <2>1 DEF OneEach, Bounded
  <2>3. t[j] = s[origin[j]] /\ t[k] = s[origin[k]]
    BY <1>4
  <2>4. QED
    BY <2>2, <2>3
<1>7. From(t, s)
  BY <1>1, <1>3, <1>4 DEF From
<1>8. QED
  BY <1>2, <1>6, <1>7 DEF Bounded

\* What is left when listings expire is within the bounds.
LEMMA ExpiryLeavesSome ==
  ASSUME NEW w \in Workers, Bounded(snapshots[w]), NEW left \in Unexpired(w)
  PROVE  Bounded(left) /\ From(left, snapshots[w])
<1> DEFINE s == snapshots[w]
<1>1. s \in Seq(Snapshot) /\ Len(s) \in Nat /\ DOMAIN s = 1..Len(s)
  BY LenProperties DEF Bounded
<1>2a. PICK n \in 0..Len(s) : left \in {[i \in 1..n |-> s[places[i]]] : places \in Chosen(s, n)}
  BY DEF Unexpired
<1>2. PICK places \in Chosen(s, n) : left = [i \in 1..n |-> s[places[i]]]
  BY <1>2a
<1>3. /\ places \in [1..n -> DOMAIN s]
      /\ \A i, j \in 1..n : i < j => places[i] < places[j]
  BY <1>2 DEF Chosen
<1>4. \A i \in 1..n : s[places[i]] \in Snapshot
  BY <1>1, <1>3, ElementOfSeq
<1>5. left \in Seq(Snapshot) /\ Len(left) = n /\ DOMAIN left = 1..n
  BY <1>1, <1>2, <1>4
<1>6. \A i, j \in 1..n : i # j => places[i] # places[j]
  <2> SUFFICES ASSUME NEW i \in 1..n, NEW j \in 1..n, i # j
               PROVE  places[i] # places[j]
    OBVIOUS
  <2>1. i < j \/ j < i
    OBVIOUS
  <2>2. places[i] \in 1..Len(s) /\ places[j] \in 1..Len(s)
    BY <1>1, <1>3
  <2>3. QED
    BY <1>3, <2>1, <2>2
<1>7. OneEach(left)
  BY <1>1, <1>2, <1>3, <1>5, <1>6 DEF OneEach, Bounded
<1>8. From(left, s)
  BY <1>2, <1>3, <1>5 DEF From
<1>9. MaxEntries \in Nat
  BY CatalogAssumption
<1>10. Len(left) <= MaxEntries
  BY <1>1, <1>2, <1>5, <1>9 DEF Bounded
<1>11. QED
  BY <1>5, <1>7, <1>8, <1>10 DEF Bounded

\* A listing that is kept takes the place of one with its key or the last one,
\* and only old ones give way.
LEMMA KeptIsBounded ==
  ASSUME NEW w \in Workers, Bounded(snapshots[w]), NEW s \in Snapshot
  PROVE  /\ Bounded(Kept(w, s))
         /\ \A j \in DOMAIN Kept(w, s) :
              Kept(w, s)[j] = s \/ \E i \in DOMAIN snapshots[w] : Kept(w, s)[j] = snapshots[w][i]
<1> DEFINE old == snapshots[w]
<1> DEFINE all == IF Cached(w, s.key) = {} THEN Append(old, s)
                  ELSE [i \in DOMAIN old |-> IF i \in Cached(w, s.key) THEN s ELSE old[i]]
<1> DEFINE from == IF Len(all) > MaxEntries THEN Len(all) - MaxEntries + 1 ELSE 1
<1>1. old \in Seq(Snapshot) /\ Len(old) \in Nat /\ DOMAIN old = 1..Len(old)
  BY LenProperties DEF Bounded
<1>2. \A i \in 1..Len(old) : old[i] \in Snapshot
  BY <1>1, ElementOfSeq
<1>3. MaxEntries \in Nat
  BY CatalogAssumption
<1>4. /\ all \in Seq(Snapshot) /\ Len(all) \in Nat /\ DOMAIN all = 1..Len(all)
      /\ OneEach(all)
      /\ \A j \in DOMAIN all : all[j] = s \/ \E i \in DOMAIN old : all[j] = old[i]
  <2>1. CASE Cached(w, s.key) = {}
    <3>1. all = Append(old, s)
      BY <2>1
    <3>2. /\ all \in Seq(Snapshot) /\ Len(all) = Len(old) + 1 /\ DOMAIN all = 1..Len(old) + 1
          /\ \A j \in 1..Len(old) : all[j] = old[j]
          /\ all[Len(old) + 1] = s
      BY <1>1, <3>1
    <3>3. \A j \in 1..Len(old) : old[j].key # s.key
      BY <1>1, <2>1 DEF Cached
    <3> HIDE DEF all
    <3>4. \A j \in 1..Len(old) + 1 : j \in 1..Len(old) \/ j = Len(old) + 1
      BY <1>1
    <3>5. OneEach(all)
      BY <1>1, <3>2, <3>3, <3>4 DEF OneEach, Bounded
    <3>6. QED
      BY <1>1, <3>2, <3>4, <3>5
  <2>2. CASE Cached(w, s.key) # {}
    <3>1. all = [i \in DOMAIN old |-> IF i \in Cached(w, s.key) THEN s ELSE old[i]]
      BY <2>2
    <3>2. /\ DOMAIN all = 1..Len(old)
          /\ \A j \in 1..Len(old) : all[j] = IF j \in Cached(w, s.key) THEN s ELSE old[j]
      BY <1>1, <3>1
    <3>3. all \in Seq(Snapshot) /\ Len(all) = Len(old)
      BY <1>1, <1>2, <3>1
    <3>4. \A j \in 1..Len(old) : all[j].key = old[j].key
      BY <1>1, <3>2 DEF Cached
    <3> HIDE DEF all
    <3>5. OneEach(all)
      BY <1>1, <3>2, <3>4 DEF OneEach, Bounded
    <3>6. QED
      BY <1>1, <3>2, <3>3, <3>5
  <2>3. QED
    BY <2>1, <2>2
<1>5. Kept(w, s) = SubSeq(all, from, Len(all))
  BY DEF Kept
<1> HIDE DEF all
<1>6. from \in Nat /\ from >= 1 /\ from <= Len(all) + 1 /\ Len(all) - from + 1 <= MaxEntries
  BY <1>3, <1>4
<1> HIDE DEF from
<1>7. \A i \in from..Len(all) : all[i] \in Snapshot
  <2>1. \A i \in 1..Len(all) : all[i] \in Snapshot
    BY <1>4, ElementOfSeq
  <2>2. QED
    BY <1>4, <1>6, <2>1
<1> DEFINE t == SubSeq(all, from, Len(all))
<1>8. /\ t \in Seq(Snapshot) /\ Len(t) = Len(all) - from + 1
      /\ \A j \in 1..Len(all) - from + 1 : t[j] = all[from + j - 1]
  <2>1. from \in Int /\ Len(all) \in Int
    BY <1>4, <1>6
  <2>2. /\ t \in Seq(Snapshot) /\ Len(t) = IF from <= Len(all) THEN Len(all) - from + 1 ELSE 0
        /\ \A j \in 1..Len(all) - from + 1 : t[j] = all[from + j - 1]
    BY <1>7, <2>1, SubSeqProperties
  <2> HIDE DEF t
  <2>3. QED
    BY <1>4, <1>6, <2>2
<1> HIDE DEF t
<1>9. DOMAIN t = 1..Len(t)
  BY <1>8, LenProperties
<1>10. ASSUME NEW j \in DOMAIN t
       PROVE  from + j - 1 \in DOMAIN all /\ t[j] = all[from + j - 1]
  <2>1. j \in 1..Len(all) - from + 1
    BY <1>8, <1>9
  <2>2. from + j - 1 \in 1..Len(all)
    BY <1>4, <1>6, <2>1
  <2>3. QED
    BY <1>4, <1>8, <2>1, <2>2
<1>11. \A i, j \in DOMAIN t : i # j => from + i - 1 # from + j - 1
  BY <1>6, <1>9
<1>12. OneEach(t)
  BY <1>4, <1>10, <1>11 DEF OneEach
<1>13. Bounded(t)
  BY <1>6, <1>8, <1>12 DEF Bounded
<1>14. \A j \in DOMAIN t : t[j] = s \/ \E i \in DOMAIN old : t[j] = old[i]
  BY <1>4, <1>10
<1>15. QED
  BY <1>5, <1>13, <1>14 DEF t

-----------------------------------------------------------------------------
(* What a step does to the listings, the caches and the clones.            *)

\* The cache invariants speak of one worker at a time.
CacheOf(w) ==
  /\ Bounded(snapshots[w])
  /\ \A i \in DOMAIN snapshots[w] :
       /\ snapshots[w][i].key[2] <= refreshed
       /\ snapshots[w][i].by = snapshots[w][i].key[1]
       /\ FreshEnough(snapshots[w][i].key[2], snapshots[w][i].content)
ClonesOf(w) ==
  /\ \A l, m \in pending[w] : l # m => <<l.gen, l.key>> # <<m.gen, m.key>>
  /\ \A l \in pending[w] :
       /\ l.key[2] <= refreshed
       /\ l.content # NotCloned => FreshEnough(l.key[2], l.content)

\* The invariant, worker by worker ...
LEMMA CatalogByWorker ==
  CatalogInv <=> /\ CatalogTypeOK /\ EntriesAreFresh /\ RefreshesAreOrdered /\ ReadersAsk
                 /\ \A w \in Workers : CacheOf(w) /\ ClonesOf(w)
BY DEF CatalogInv, CatalogIsFresh, CatalogTypeOK, CacheIsBounded, ListingsAreFresh, CacheOf, ClonesOf, Bounded, OneEach

\* ... and how it is shown of the next state.
LEMMA CatalogByWorkerNext ==
  ASSUME CatalogTypeOK', EntriesAreFresh', RefreshesAreOrdered', ReadersAsk',
         \A w \in Workers : CacheOf(w)' /\ ClonesOf(w)'
  PROVE  CatalogInv'
BY DEF CatalogInv, CatalogIsFresh, CatalogTypeOK, CacheIsBounded, ListingsAreFresh, CacheOf, ClonesOf, Bounded, OneEach

\* Listings stay fresh enough as long as nothing is refreshed and who asks was
\* asking before, or asks now for what the last answer promised.
LEMMA StillFresh ==
  ASSUME CatalogInv, NEW k \in Nat, NEW content \in Nat, FreshEnough(k, content),
         UNCHANGED <<refreshed, answered, refresh>>,
         \A r \in Readers : Asking(r)' =>
           \/ Asking(r) /\ reader'[r].key = reader[r].key /\ reader'[r].floor = reader[r].floor
           \/ reader'[r].key[2] = refreshed /\ reader'[r].floor = answered
  PROVE  FreshEnough(k, content)'
<1>1. k = refreshed => answered <= content
  BY DEF FreshEnough
<1>2. ASSUME NEW r \in Readers, Asking(r)', reader'[r].key[2] = k
      PROVE  reader'[r].floor <= content
  <2>1. CASE Asking(r) /\ reader'[r].key = reader[r].key /\ reader'[r].floor = reader[r].floor
    BY <1>2, <2>1 DEF FreshEnough
  <2>2. CASE reader'[r].key[2] = refreshed /\ reader'[r].floor = answered
    BY <1>1, <1>2, <2>2
  <2>3. QED
    BY <1>2, <2>1, <2>2
<1>3. k = refreshed' => answered' <= content /\ (refresh'.step = "committed" => refresh'.seen <= content)
  BY DEF FreshEnough
<1>4. QED
  BY <1>2, <1>3 DEF FreshEnough

\* Who asks asked before, or asks for what the last answer promised; nothing is
\* refreshed.
Calm == /\ UNCHANGED <<refreshed, answered, refresh>>
        /\ \A r \in Readers : Asking(r)' =>
             \/ Asking(r) /\ reader'[r].key = reader[r].key /\ reader'[r].floor = reader[r].floor
             \/ reader'[r].key[2] = refreshed /\ reader'[r].floor = answered

\* What is in a cache or on its way there has its type.
LEMMA ListingTypes ==
  ASSUME CatalogTypeOK, NEW w \in Workers
  PROVE  /\ \A i \in DOMAIN snapshots[w] : snapshots[w][i] \in Snapshot
         /\ \A i \in DOMAIN snapshots[w] : snapshots[w][i].key[2] \in Nat /\ snapshots[w][i].content \in Nat
         /\ \A l \in pending[w] : l \in Load
         /\ \A l \in pending[w] : l.key[2] \in Nat /\ l.content \in Nat
<1>1. snapshots[w] \in Seq(Snapshot) /\ pending[w] \subseteq Load
  BY DEF CatalogTypeOK
<1>2. \A i \in DOMAIN snapshots[w] : snapshots[w][i] \in Snapshot
  BY <1>1, LenProperties, ElementOfSeq
<1>3. \A key \in SnapshotKeys : key[2] \in Nat
  BY CatalogAssumption DEF SnapshotKeys
<1>4. \A s \in Snapshot : s.key[2] \in Nat /\ s.content \in Nat
  BY <1>3, CatalogAssumption DEF Snapshot
<1>5. \A l \in Load : l.key[2] \in Nat /\ l.content \in Nat
  BY <1>3, CatalogAssumption DEF Load, NotCloned
<1>6. QED
  BY <1>1, <1>2, <1>4, <1>5

\* A cache whose entries come from what it was keeps what is said of it.
LEMMA CachesAreKept ==
  ASSUME CatalogInv, Calm, NEW w \in Workers,
         Bounded(snapshots'[w]), From(snapshots'[w], snapshots[w])
  PROVE  CacheOf(w)'
<1>1. CatalogTypeOK /\ CacheOf(w)
  BY CatalogByWorker
<1>2. ASSUME NEW j \in DOMAIN snapshots'[w]
      PROVE  /\ snapshots'[w][j].key[2] <= refreshed
             /\ snapshots'[w][j].by = snapshots'[w][j].key[1]
             /\ FreshEnough(snapshots[w][j].key[2], snapshots[w][j].content)'
  <2>1. PICK i \in DOMAIN snapshots[w] : snapshots'[w][j] = snapshots[w][i]
    BY DEF From
  <2> DEFINE s == snapshots[w][i]
  <2>2. /\ s.key[2] <= refreshed /\ s.by = s.key[1] /\ FreshEnough(s.key[2], s.content)
        /\ s.key[2] \in Nat /\ s.content \in Nat
    BY <1>1, ListingTypes DEF CacheOf
  <2> HIDE DEF s
  <2>3. PICK k \in Nat, c \in Nat : k = s.key[2] /\ c = s.content
    BY <2>2
  <2>4. FreshEnough(k, c)'
    BY <2>2, <2>3, StillFresh DEF Calm
  <2>5. snapshots'[w][j].key[2] = k /\ snapshots'[w][j].content = c
    BY <2>1, <2>3 DEF s
  <2>6. FreshEnough(snapshots[w][j].key[2], snapshots[w][j].content)'
    BY <2>4, <2>5 DEF FreshEnough
  <2>7. QED
    BY <2>1, <2>2, <2>6 DEF s
<1>3. refreshed' = refreshed
  BY DEF Calm
<1>4. Bounded(snapshots[w])'
  BY DEF Bounded, OneEach
<1>5. QED
  BY <1>2, <1>3, <1>4 DEF CacheOf

\* Clones that were under way go on under the same key.
LEMMA ClonesAreKept ==
  ASSUME CatalogInv, Calm, NEW w \in Workers,
         \A l, m \in pending'[w] : l # m => <<l.gen, l.key>> # <<m.gen, m.key>>,
         \A l \in pending'[w] : l \in pending[w] \/ (l.content = NotCloned /\ l.key[2] <= refreshed)
  PROVE  ClonesOf(w)'
<1>1. CatalogTypeOK /\ ClonesOf(w)
  BY CatalogByWorker
<1>2. refreshed' = refreshed
  BY DEF Calm
<1>3. ASSUME NEW l \in pending'[w]
      PROVE  l.key[2] <= refreshed /\ (l.content # NotCloned => FreshEnough(l.key[2], l.content)')
  <2>1. CASE l \in pending[w]
    <3>1. /\ l.key[2] <= refreshed /\ (l.content # NotCloned => FreshEnough(l.key[2], l.content))
          /\ l.key[2] \in Nat /\ l.content \in Nat
      BY <1>1, <2>1, ListingTypes DEF ClonesOf
    <3>2. PICK k \in Nat, c \in Nat : k = l.key[2] /\ c = l.content
      BY <3>1
    <3>3. l.content # NotCloned => FreshEnough(k, c)'
      BY <3>1, <3>2, StillFresh DEF Calm
    <3>4. QED
      BY <3>1, <3>2, <3>3
  <2>2. CASE l.content = NotCloned /\ l.key[2] <= refreshed
    BY <2>2
  <2>3. QED
    BY <1>3, <2>1, <2>2
<1>4. QED
  BY <1>2, <1>3 DEF ClonesOf, NotCloned

\* Who has gone away is a reader still.
LEMMA AwayIsReading == Away \in Reading
<1>1. 0 \in 0..MaxRefreshes /\ 0 \in 0..MaxToken /\ 0 \in 0..MaxRemote
  BY CatalogAssumption
<1>2. QED
  BY <1>1 DEF Away, Reading, NoListing

\* So is who is served.
LEMMA ServedTypes ==
  ASSUME NEW q \in Reading, NEW s \in Snapshot
  PROVE  /\ Served(q, s).step = "served" /\ Served(q, s).floor = q.floor /\ Served(q, s).by = q.by
         /\ Served(q, s).got = s /\ Served(q, s) \in Reading
<1>1. q.floor \in 0..MaxRemote /\ q.by \in 0..MaxToken
  BY DEF Reading
<1>2. [Away EXCEPT !.step = "served", !.floor = q.floor, !.by = q.by, !.got = s] \in Reading
  BY <1>1, AwayIsReading DEF Reading
<1>3. QED
  BY <1>2 DEF Served, Away

\* A cache that is not touched is what it was.
LEMMA FromItself ==
  ASSUME NEW s
  PROVE  From(s, s)
BY DEF From

-----------------------------------------------------------------------------
(* The steps.                                                              *)

\* At the start nothing is cached and nobody asks.
LEMMA CatalogStart == CatalogInit => CatalogInv
<1> SUFFICES ASSUME CatalogInit PROVE CatalogInv
  OBVIOUS
<1>1. MaxToken \in Nat /\ MaxToken >= 1 /\ MaxRefreshes \in Nat /\ MaxRemote \in Nat /\ MaxEntries \in Nat
  BY CatalogAssumption
<1>2. \A w \in Workers : snapshots[w] = <<>> /\ pending[w] = {}
  BY DEF CatalogInit
<1>3. <<>> \in Seq(Snapshot) /\ Len(<<>>) = 0 /\ DOMAIN <<>> = {}
  BY EmptySeq, LenProperties
<1>5. CatalogTypeOK
  BY <1>1, <1>3, AwayIsReading DEF CatalogInit, CatalogTypeOK, NoRefresh
<1>6. ASSUME NEW w \in Workers
      PROVE  CacheOf(w) /\ ClonesOf(w)
  <2>1. snapshots[w] \in Seq(Snapshot) /\ Len(snapshots[w]) = 0 /\ DOMAIN snapshots[w] = {}
    BY <1>2, <1>3
  <2>2. CacheOf(w)
    BY <1>1, <2>1 DEF CacheOf, Bounded, OneEach
  <2>3. ClonesOf(w)
    BY <1>2 DEF ClonesOf
  <2>4. QED
    BY <2>2, <2>3
<1>7. \A r \in Readers : reader[r].step = "away"
  BY DEF CatalogInit, Away
<1>8. EntriesAreFresh /\ ReadersAsk
  BY <1>7 DEF EntriesAreFresh, ReadersAsk, Asking
<1>9. RefreshesAreOrdered
  BY <1>1 DEF CatalogInit, RefreshesAreOrdered, NoRefresh
<1>10. QED
  BY <1>5, <1>6, <1>8, <1>9, CatalogByWorker

\* A request reads the row, and may expect what was answered before.
LEMMA ListEntriesKeeps ==
  ASSUME CatalogInv, NEW r \in Readers, NEW v \in Workers, ListEntries(r, v)
  PROVE  CatalogInv'
<1> DEFINE asked == [Away EXCEPT !.step = "listing", !.worker = v, !.key = RepositoryKey(token, refreshed),
                                 !.floor = answered, !.by = token]
<1>1. /\ CatalogTypeOK /\ EntriesAreFresh /\ RefreshesAreOrdered /\ ReadersAsk
      /\ \A w \in Workers : CacheOf(w) /\ ClonesOf(w)
  BY CatalogByWorker
<1>2. MaxToken \in Nat /\ MaxRefreshes \in Nat /\ MaxRemote \in Nat
  BY CatalogAssumption
<1>3. /\ asked.step = "listing" /\ asked.worker = v /\ asked.key = <<token, refreshed>>
      /\ asked.floor = answered /\ asked.by = token
  BY DEF Away, RepositoryKey
<1>4. asked \in Reading
  <2>1. /\ token \in 0..MaxToken /\ <<token, refreshed>> \in (0..MaxToken) \X (0..MaxRefreshes)
        /\ answered \in 0..MaxRemote
    BY <1>1, <1>2 DEF CatalogTypeOK
  <2>2. QED
    BY <2>1, AwayIsReading DEF Reading, RepositoryKey
<1>5. /\ reader' = [reader EXCEPT ![r] = asked] /\ UNCHANGED <<source, caches, refresh, patch, answered>>
      /\ reader \in [Readers -> Reading]
  BY <1>1 DEF ListEntries, CatalogTypeOK
<1> HIDE DEF asked
<1>6. \A q \in Readers : reader'[q] = IF q = r THEN asked ELSE reader[q]
  BY <1>5
<1>7. CatalogTypeOK'
  BY <1>1, <1>4, <1>5 DEF CatalogTypeOK, source, caches
<1>8. Calm
  BY <1>3, <1>5, <1>6 DEF Calm, Asking, source
<1>9. RefreshesAreOrdered'
  BY <1>1, <1>5 DEF RefreshesAreOrdered, source
<1>10. EntriesAreFresh'
  BY <1>1, <1>3, <1>6 DEF EntriesAreFresh
<1>11. token \in 1..MaxToken /\ refreshed \in 0..MaxRefreshes /\ answered <= remote
  BY <1>1 DEF CatalogTypeOK, RefreshesAreOrdered
<1>12. ReadersAsk'
  <2> SUFFICES ASSUME NEW q \in Readers, Asking(q)'
               PROVE  /\ reader'[q].worker \in Workers /\ reader'[q].key \in SnapshotKeys
                      /\ reader'[q].key[1] = reader'[q].by /\ reader'[q].key[2] <= refreshed'
                      /\ reader'[q].floor <= remote'
    BY DEF ReadersAsk
  <2>1. CASE q = r
    BY <1>2, <1>3, <1>5, <1>6, <1>11, <2>1 DEF source, SnapshotKeys
  <2>2. CASE q # r
    BY <1>1, <1>5, <1>6, <2>2 DEF ReadersAsk, Asking, source
  <2>3. QED
    BY <2>1, <2>2
<1>13. \A w \in Workers : CacheOf(w)' /\ ClonesOf(w)'
  <2> TAKE w \in Workers
  <2>1. snapshots' = snapshots /\ pending' = pending
    BY <1>5 DEF caches
  <2>2. CacheOf(w)'
    BY <1>1, <1>8, <2>1, FromItself, CachesAreKept DEF CacheOf
  <2>3. ClonesOf(w)'
    BY <1>1, <1>8, <2>1, ClonesAreKept DEF ClonesOf
  <2>4. QED
    BY <2>2, <2>3
<1>14. QED
  BY <1>7, <1>9, <1>10, <1>12, <1>13, CatalogByWorkerNext

\* A hit is answered with a listing that is fresh enough.
LEMMA HitKeeps ==
  ASSUME CatalogInv, NEW r \in Readers, Hit(r)
  PROVE  CatalogInv'
<1> DEFINE v == reader[r].worker
<1>1. /\ CatalogTypeOK /\ EntriesAreFresh /\ RefreshesAreOrdered /\ ReadersAsk
      /\ \A w \in Workers : CacheOf(w) /\ ClonesOf(w)
  BY CatalogByWorker
<1>2. MaxToken \in Nat /\ MaxRefreshes \in Nat /\ MaxRemote \in Nat
  BY CatalogAssumption
<1>3. reader[r].step = "listing" /\ Asking(r) /\ v \in Workers
  BY <1>1 DEF Hit, Asking, ReadersAsk
<1>4. PICK i \in Cached(v, reader[r].key) :
        /\ reader' = [reader EXCEPT ![r] = Served(@, snapshots[v][i])]
        /\ snapshots' = [snapshots EXCEPT ![v] = Append(RemoveAt(@, i), snapshots[v][i])]
  BY DEF Hit
<1> DEFINE s == snapshots[v][i]
<1> DEFINE answer == Served(reader[r], s)
<1>5. i \in DOMAIN snapshots[v] /\ s.key = reader[r].key
  BY <1>4 DEF Cached
<1>6. s \in Snapshot /\ s.by = s.key[1] /\ FreshEnough(s.key[2], s.content)
  BY <1>1, <1>3, <1>5, ListingTypes DEF CacheOf
<1>7. UNCHANGED <<source, generation, pending, refresh, patch, answered>>
  BY DEF Hit
<1>8. reader[r] \in Reading /\ reader \in [Readers -> Reading] /\ snapshots \in [Workers -> Seq(Snapshot)]
  BY <1>1 DEF CatalogTypeOK
<1>9. /\ answer.step = "served" /\ answer.floor = reader[r].floor /\ answer.by = reader[r].by /\ answer.got = s
      /\ answer \in Reading
  BY <1>6, <1>8, ServedTypes
<1> HIDE DEF s, answer
<1>10. \A q \in Readers : reader'[q] = IF q = r THEN answer ELSE reader[q]
  BY <1>4, <1>8 DEF s, answer
<1>11. Bounded(snapshots[v]) /\ snapshots'[v] = Append(RemoveAt(snapshots[v], i), s)
       /\ \A w \in Workers : w # v => snapshots'[w] = snapshots[w]
  BY <1>1, <1>3, <1>4, <1>8 DEF CacheOf, s
<1>12. Bounded(snapshots'[v]) /\ From(snapshots'[v], snapshots[v])
  BY <1>5, <1>11, HitMovesToEnd DEF s
<1>13. CatalogTypeOK'
  <2>1. snapshots' \in [Workers -> Seq(Snapshot)]
    BY <1>4, <1>8, <1>11, <1>12 DEF Bounded, s
  <2>2. reader' \in [Readers -> Reading]
    BY <1>4, <1>8, <1>9 DEF s, answer
  <2>3. QED
    BY <1>1, <1>7, <2>1, <2>2 DEF CatalogTypeOK, source
<1>14. Calm
  BY <1>7, <1>9, <1>10 DEF Calm, Asking, source
<1>15. RefreshesAreOrdered' /\ ReadersAsk'
  BY <1>1, <1>7, <1>9, <1>10 DEF RefreshesAreOrdered, ReadersAsk, Asking, source
<1>16. EntriesAreFresh'
  <2>1. reader[r].floor <= s.content /\ s.by = reader[r].by
    BY <1>1, <1>3, <1>5, <1>6 DEF FreshEnough, ReadersAsk, s
  <2>2. s.content >= reader[r].floor
    BY <1>2, <1>6, <1>8, <2>1 DEF Snapshot, Reading
  <2>3. QED
    BY <1>1, <1>9, <1>10, <2>1, <2>2 DEF EntriesAreFresh
<1>17. \A w \in Workers : CacheOf(w)' /\ ClonesOf(w)'
  <2> TAKE w \in Workers
  <2>1. Bounded(snapshots'[w]) /\ From(snapshots'[w], snapshots[w])
    BY <1>1, <1>11, <1>12, FromItself DEF CacheOf
  <2>2. CacheOf(w)'
    BY <1>14, <2>1, CachesAreKept
  <2>3. ClonesOf(w)'
    BY <1>1, <1>7, <1>14, ClonesAreKept DEF ClonesOf
  <2>4. QED
    BY <2>2, <2>3
<1>18. QED
  BY <1>13, <1>15, <1>16, <1>17, CatalogByWorkerNext

\* A miss drops what has expired and joins the clone of its key or begins one.
LEMMA MissKeeps ==
  ASSUME CatalogInv, NEW r \in Readers, Miss(r)
  PROVE  CatalogInv'
<1> DEFINE v == reader[r].worker
<1> DEFINE load == [gen |-> generation[v], key |-> reader[r].key, content |-> NotCloned]
<1>1. /\ CatalogTypeOK /\ EntriesAreFresh /\ RefreshesAreOrdered /\ ReadersAsk
      /\ \A w \in Workers : CacheOf(w) /\ ClonesOf(w)
  BY CatalogByWorker
<1>2. MaxToken \in Nat /\ MaxRefreshes \in Nat /\ MaxRemote \in Nat
  BY CatalogAssumption
<1>3. /\ Asking(r) /\ v \in Workers /\ reader[r].key \in SnapshotKeys /\ reader[r].key[2] <= refreshed
  BY <1>1 DEF Miss, Asking, ReadersAsk
<1>4. PICK left \in Unexpired(v) : snapshots' = [snapshots EXCEPT ![v] = left]
  BY DEF Miss
<1>5. /\ reader' = [reader EXCEPT ![r].step = "waiting", ![r].gen = generation[v]]
      /\ pending' = [pending EXCEPT ![v] =
           IF \E l \in pending[v] : l.gen = generation[v] /\ l.key = reader[r].key THEN pending[v]
           ELSE pending[v] \cup {load}]
      /\ UNCHANGED <<source, generation, refresh, patch, answered>>
  BY DEF Miss
<1>6. /\ reader \in [Readers -> Reading] /\ snapshots \in [Workers -> Seq(Snapshot)]
      /\ pending \in [Workers -> SUBSET Load] /\ generation[v] \in Nat
  BY <1>1, <1>3 DEF CatalogTypeOK
<1>7. load \in Load
  BY <1>2, <1>3, <1>6 DEF Load, NotCloned
<1> HIDE DEF load
<1>8. \A q \in Readers : /\ q # r => reader'[q] = reader[q]
                         /\ reader'[q].key = reader[q].key /\ reader'[q].floor = reader[q].floor
                         /\ reader'[q].worker = reader[q].worker /\ reader'[q].by = reader[q].by
  BY <1>5, <1>6 DEF Reading
<1>9. reader' \in [Readers -> Reading] /\ reader'[r].step = "waiting"
  <2> DEFINE waiting == [reader[r] EXCEPT !.step = "waiting", !.gen = generation[v]]
  <2>1. reader[r] \in Reading
    BY <1>6
  <2>2. waiting \in Reading /\ waiting.step = "waiting"
    BY <1>6, <2>1 DEF Reading
  <2>3. reader' = [reader EXCEPT ![r] = waiting]
    BY <1>5, <1>6
  <2> HIDE DEF waiting
  <2>4. QED
    BY <1>6, <2>2, <2>3
<1>10. Bounded(left) /\ From(left, snapshots[v])
  BY <1>1, <1>3, <1>4, ExpiryLeavesSome DEF CacheOf
<1>11. snapshots'[v] = left /\ \A w \in Workers : w # v => snapshots'[w] = snapshots[w]
  BY <1>3, <1>4, <1>6
<1>12. CatalogTypeOK'
  <2>1. snapshots' \in [Workers -> Seq(Snapshot)]
    BY <1>4, <1>6, <1>10 DEF Bounded
  <2>2. pending' \in [Workers -> SUBSET Load]
    BY <1>3, <1>5, <1>6, <1>7
  <2>3. QED
    BY <1>1, <1>5, <1>9, <2>1, <2>2 DEF CatalogTypeOK, source
<1>13. Calm
  BY <1>3, <1>5, <1>8 DEF Calm, Asking, source
<1>14. ReadersAsk'
  <2> SUFFICES ASSUME NEW q \in Readers, Asking(q)'
               PROVE  /\ reader'[q].worker \in Workers /\ reader'[q].key \in SnapshotKeys
                      /\ reader'[q].key[1] = reader'[q].by /\ reader'[q].key[2] <= refreshed'
                      /\ reader'[q].floor <= remote'
    BY DEF ReadersAsk
  <2>1. Asking(q)
    BY <1>3, <1>8 DEF Asking
  <2>2. refreshed' = refreshed /\ remote' = remote
    BY <1>5 DEF source
  <2>3. QED
    BY <1>1, <1>8, <2>1, <2>2 DEF ReadersAsk
<1>15. EntriesAreFresh'
  BY <1>1, <1>8, <1>9 DEF EntriesAreFresh
<1>16. RefreshesAreOrdered'
  BY <1>1, <1>5 DEF RefreshesAreOrdered, source
<1>17. \A w \in Workers : CacheOf(w)' /\ ClonesOf(w)'
  <2> TAKE w \in Workers
  <2>1. Bounded(snapshots'[w]) /\ From(snapshots'[w], snapshots[w])
    BY <1>1, <1>10, <1>11, FromItself DEF CacheOf
  <2>2. CacheOf(w)'
    BY <1>13, <2>1, CachesAreKept
  <2>3. \A l, m \in pending'[w] : l # m => <<l.gen, l.key>> # <<m.gen, m.key>>
    BY <1>1, <1>3, <1>5, <1>6 DEF ClonesOf, load
  <2>4. \A l \in pending'[w] : l \in pending[w] \/ (l.content = NotCloned /\ l.key[2] <= refreshed)
    BY <1>3, <1>5, <1>6 DEF load
  <2>5. ClonesOf(w)'
    BY <1>13, <2>3, <2>4, ClonesAreKept
  <2>6. QED
    BY <2>2, <2>5
<1>18. QED
  BY <1>12, <1>14, <1>15, <1>16, <1>17, CatalogByWorkerNext

\* Requests that go away, be it that their clone has failed.
LEMMA GoingAwayKeeps ==
  ASSUME CatalogInv, UNCHANGED <<source, generation, snapshots, refresh, patch, answered>>,
         pending' \in [Workers -> SUBSET Load], \A w \in Workers : pending'[w] \subseteq pending[w],
         \E gone \in SUBSET Readers : reader' = [r \in Readers |-> IF r \in gone THEN Away ELSE reader[r]]
  PROVE  CatalogInv'
<1>1. /\ CatalogTypeOK /\ EntriesAreFresh /\ RefreshesAreOrdered /\ ReadersAsk
      /\ \A w \in Workers : CacheOf(w) /\ ClonesOf(w)
  BY CatalogByWorker
<1>2. PICK gone \in SUBSET Readers : reader' = [r \in Readers |-> IF r \in gone THEN Away ELSE reader[r]]
  OBVIOUS
<1>3. reader' \in [Readers -> Reading]
  BY <1>1, <1>2, AwayIsReading DEF CatalogTypeOK
<1>4. Away.step = "away"
  BY DEF Away
<1>5. \A r \in Readers : reader'[r] = reader[r] \/ reader'[r].step = "away"
  BY <1>2, <1>4
<1>6. CatalogTypeOK' /\ RefreshesAreOrdered'
  BY <1>1, <1>3 DEF CatalogTypeOK, RefreshesAreOrdered, source
<1>7. Calm /\ EntriesAreFresh' /\ ReadersAsk'
  BY <1>1, <1>5 DEF Calm, EntriesAreFresh, ReadersAsk, Asking, source
<1>8. \A w \in Workers : CacheOf(w)' /\ ClonesOf(w)'
  <2> TAKE w \in Workers
  <2>1. CacheOf(w)'
    BY <1>1, <1>7, FromItself, CachesAreKept DEF CacheOf
  <2>2. ClonesOf(w)'
    BY <1>1, <1>7, ClonesAreKept DEF ClonesOf
  <2>3. QED
    BY <2>1, <2>2
<1>9. QED
  BY <1>6, <1>7, <1>8, CatalogByWorkerNext

\* A reader that leaves takes nothing along.
LEMMA DisconnectsKeeps ==
  ASSUME CatalogInv, NEW r \in Readers, Disconnects(r)
  PROVE  CatalogInv'
<1>1. CatalogTypeOK
  BY CatalogByWorker
<1>2. reader' = [q \in Readers |-> IF q \in {r} THEN Away ELSE reader[q]]
  BY <1>1 DEF Disconnects, CatalogTypeOK
<1>3. UNCHANGED <<source, generation, snapshots, refresh, patch, answered>> /\ pending' = pending
  BY DEF Disconnects, caches
<1>4. pending' \in [Workers -> SUBSET Load] /\ \A w \in Workers : pending'[w] \subseteq pending[w]
  BY <1>1, <1>3 DEF CatalogTypeOK
<1>5. {r} \in SUBSET Readers
  OBVIOUS
<1>6. QED
  BY <1>2, <1>3, <1>4, <1>5, GoingAwayKeeps

\* A clone that fails is dropped.
LEMMA LoadFailsKeeps ==
  ASSUME CatalogInv, NEW v \in Workers, NEW l \in pending[v], LoadFails(v, l)
  PROVE  CatalogInv'
<1>1. CatalogTypeOK
  BY CatalogByWorker
<1>2. pending' = [pending EXCEPT ![v] = @ \ {l}]
  BY DEF LoadFails
<1>3. pending' \in [Workers -> SUBSET Load] /\ \A w \in Workers : pending'[w] \subseteq pending[w]
  BY <1>1, <1>2 DEF CatalogTypeOK
<1> DEFINE gone == {r \in Readers : AwaitsLoad(r, v, l)}
<1>4. reader' = [r \in Readers |-> IF r \in gone THEN Away ELSE reader[r]]
  BY DEF LoadFails
<1>5. gone \in SUBSET Readers
  OBVIOUS
<1> HIDE DEF gone
<1>6. UNCHANGED <<source, generation, snapshots, refresh, patch, answered>>
  BY DEF LoadFails
<1>7. QED
  BY <1>3, <1>4, <1>5, <1>6, GoingAwayKeeps

\* A clone reads the repository now: no promise is newer than that.
LEMMA CloneKeeps ==
  ASSUME CatalogInv, NEW v \in Workers, NEW l \in pending[v], CloneRepository(v, l)
  PROVE  CatalogInv'
<1> DEFINE done == [l EXCEPT !.content = remote]
<1>1. /\ CatalogTypeOK /\ EntriesAreFresh /\ RefreshesAreOrdered /\ ReadersAsk
      /\ \A w \in Workers : CacheOf(w) /\ ClonesOf(w)
  BY CatalogByWorker
<1>2. pending' = [pending EXCEPT ![v] = (pending[v] \ {l}) \cup {done}]
      /\ UNCHANGED <<source, generation, snapshots, reader, refresh, patch, answered>>
  BY DEF CloneRepository
<1>3. pending \in [Workers -> SUBSET Load] /\ l \in Load /\ remote \in 0..MaxRemote
  BY <1>1 DEF CatalogTypeOK
<1>4. done \in Load /\ done.gen = l.gen /\ done.key = l.key /\ done.content = remote
  BY <1>3, CatalogAssumption DEF Load, NotCloned
<1> HIDE DEF done
<1>5. CatalogTypeOK'
  <2>1. pending' \in [Workers -> SUBSET Load]
    BY <1>2, <1>3, <1>4
  <2>2. QED
    BY <1>1, <1>2, <2>1 DEF CatalogTypeOK, source
<1>6. EntriesAreFresh' /\ RefreshesAreOrdered' /\ ReadersAsk' /\ Calm
  BY <1>1, <1>2 DEF EntriesAreFresh, RefreshesAreOrdered, ReadersAsk, Calm, Asking, source
<1>7. \A w \in Workers : CacheOf(w)'
  BY <1>1, <1>2, <1>6, FromItself, CachesAreKept DEF CacheOf
<1>8. FreshEnough(l.key[2], remote)
  BY <1>1 DEF FreshEnough, RefreshesAreOrdered, ReadersAsk
<1>9. FreshEnough(l.key[2], remote)'
  BY <1>2, <1>8 DEF FreshEnough, Asking, source
<1>10. ASSUME NEW w \in Workers
       PROVE  ClonesOf(w)'
  <2>1. CASE w = v
    <3>1. pending'[w] = (pending[v] \ {l}) \cup {done}
      BY <1>2, <1>3, <2>1
    <3>2. l.key[2] <= refreshed /\ refreshed' = refreshed /\ remote' = remote
      BY <1>1, <1>2 DEF ClonesOf, source
    <3>3. \A m \in pending[v] \ {l} : m.key[2] <= refreshed /\ (m.content # NotCloned => FreshEnough(m.key[2], m.content)')
      BY <1>1, <1>2 DEF ClonesOf, FreshEnough, Asking, source
    <3>4. \A m \in pending'[w] : m.key[2] <= refreshed /\ (m.content # NotCloned => FreshEnough(m.key[2], m.content)')
      <4> SUFFICES ASSUME NEW m \in pending'[w]
                   PROVE  m.key[2] <= refreshed /\ (m.content # NotCloned => FreshEnough(m.key[2], m.content)')
        OBVIOUS
      <4>1. CASE m = done
        <5>1. m.key[2] = l.key[2] /\ m.content = remote
          BY <1>4, <4>1
        <5>2. FreshEnough(m.key[2], m.content)'
          BY <1>9, <3>2, <5>1 DEF FreshEnough
        <5>3. QED
          BY <3>2, <5>1, <5>2
      <4>2. CASE m # done
        BY <3>1, <3>3, <4>2
      <4>3. QED
        BY <4>1, <4>2
    <3>5. \A m, n \in pending'[w] : m # n => <<m.gen, m.key>> # <<n.gen, n.key>>
      BY <1>1, <1>4, <3>1 DEF ClonesOf
    <3>6. QED
      BY <3>2, <3>4, <3>5 DEF ClonesOf, NotCloned
  <2>2. CASE w # v
    <3>1. pending'[w] = pending[w]
      BY <1>2, <1>3, <2>2
    <3>2. QED
      BY <1>1, <1>6, <3>1, ClonesAreKept DEF ClonesOf
  <2>3. QED
    BY <2>1, <2>2
<1>11. QED
  BY <1>5, <1>6, <1>7, <1>10, CatalogByWorkerNext

\* A listing is kept only while nobody has invalidated, and everybody who
\* waits for it under its key is answered with it.
LEMMA LoadEndsKeeps ==
  ASSUME CatalogInv, NEW v \in Workers, NEW l \in pending[v], LoadEnds(v, l)
  PROVE  CatalogInv'
<1> DEFINE s == [key |-> l.key, content |-> l.content, by |-> l.key[1]]
<1>1. /\ CatalogTypeOK /\ EntriesAreFresh /\ RefreshesAreOrdered /\ ReadersAsk
      /\ \A w \in Workers : CacheOf(w) /\ ClonesOf(w)
  BY CatalogByWorker
<1>2. MaxToken \in Nat /\ MaxRefreshes \in Nat /\ MaxRemote \in Nat
  BY CatalogAssumption
<1>3. /\ l.content # NotCloned
      /\ pending' = [pending EXCEPT ![v] = @ \ {l}]
      /\ snapshots' = IF l.gen = generation[v] THEN [snapshots EXCEPT ![v] = Kept(v, s)] ELSE snapshots
      /\ reader' = [r \in Readers |-> IF AwaitsLoad(r, v, l) THEN Served(reader[r], s) ELSE reader[r]]
      /\ UNCHANGED <<source, generation, refresh, patch, answered>>
  BY DEF LoadEnds
<1>4. /\ reader \in [Readers -> Reading] /\ snapshots \in [Workers -> Seq(Snapshot)]
      /\ pending \in [Workers -> SUBSET Load] /\ l \in Load
  BY <1>1 DEF CatalogTypeOK
<1>5. l.key \in SnapshotKeys /\ l.content \in 0..MaxRemote /\ l.key[1] \in 1..MaxToken /\ l.key[2] \in Nat
  BY <1>2, <1>3, <1>4 DEF Load, SnapshotKeys, NotCloned
<1>6. s \in Snapshot /\ s.key = l.key /\ s.content = l.content /\ s.by = l.key[1]
  BY <1>5 DEF Snapshot
<1> HIDE DEF s
<1>7. \A r \in Readers : IF AwaitsLoad(r, v, l)
        THEN /\ reader'[r].step = "served" /\ reader'[r].floor = reader[r].floor
             /\ reader'[r].by = reader[r].by /\ reader'[r].got = s
        ELSE reader'[r] = reader[r]
  BY <1>3, <1>4, <1>6, ServedTypes
<1>8. reader' \in [Readers -> Reading]
  BY <1>3, <1>4, <1>6, ServedTypes
<1>9. l.key[2] <= refreshed /\ FreshEnough(l.key[2], l.content)
  BY <1>1, <1>3 DEF ClonesOf
<1>10. EntriesAreFresh'
  <2> SUFFICES ASSUME NEW r \in Readers, reader'[r].step = "served"
               PROVE  reader'[r].got.content >= reader'[r].floor /\ reader'[r].got.by = reader'[r].by
    BY DEF EntriesAreFresh
  <2>1. CASE AwaitsLoad(r, v, l)
    <3>1. Asking(r) /\ reader[r].key = l.key
      BY <2>1 DEF AwaitsLoad, Asking
    <3>2. reader[r].floor <= l.content /\ reader[r].by = l.key[1]
      BY <1>1, <1>9, <3>1 DEF FreshEnough, ReadersAsk
    <3>3. reader[r].floor \in Nat
      BY <1>2, <1>4 DEF Reading
    <3>4. l.content >= reader[r].floor
      BY <1>2, <1>5, <3>2, <3>3
    <3>5. QED
      BY <1>6, <1>7, <2>1, <3>2, <3>4
  <2>2. CASE ~AwaitsLoad(r, v, l)
    BY <1>1, <1>7, <2>2 DEF EntriesAreFresh
  <2>3. QED
    BY <2>1, <2>2
<1>11. Calm /\ ReadersAsk' /\ RefreshesAreOrdered'
  BY <1>1, <1>3, <1>7 DEF Calm, ReadersAsk, RefreshesAreOrdered, Asking, source
<1>12. Bounded(Kept(v, s))
       /\ \A j \in DOMAIN Kept(v, s) :
            Kept(v, s)[j] = s \/ \E i \in DOMAIN snapshots[v] : Kept(v, s)[j] = snapshots[v][i]
  BY <1>1, <1>6, KeptIsBounded DEF CacheOf
<1>13. CatalogTypeOK'
  <2>1. snapshots' \in [Workers -> Seq(Snapshot)]
    BY <1>3, <1>4, <1>12 DEF Bounded
  <2>2. pending' \in [Workers -> SUBSET Load]
    BY <1>3, <1>4
  <2>3. QED
    BY <1>1, <1>3, <1>8, <2>1, <2>2 DEF CatalogTypeOK, source
<1>14. ASSUME NEW w \in Workers
       PROVE  ClonesOf(w)'
  <2>1. pending'[w] \subseteq pending[w]
    BY <1>3, <1>4
  <2>2. QED
    BY <1>1, <1>11, <2>1, ClonesAreKept DEF ClonesOf
<1>15. ASSUME NEW w \in Workers
       PROVE  CacheOf(w)'
  <2>1. CASE snapshots'[w] = snapshots[w]
    BY <1>1, <1>11, <2>1, FromItself, CachesAreKept DEF CacheOf
  <2>2. CASE snapshots'[w] # snapshots[w]
    <3>1. w = v /\ snapshots'[w] = Kept(v, s)
      BY <1>3, <1>4, <2>2
    <3>2. FreshEnough(l.key[2], l.content)'
      BY <1>5, <1>9, <1>11, StillFresh DEF Calm
    <3>3. refreshed' = refreshed
      BY <1>11 DEF Calm
    <3>4. ASSUME NEW j \in DOMAIN snapshots'[w]
          PROVE  /\ snapshots'[w][j].key[2] <= refreshed
                 /\ snapshots'[w][j].by = snapshots'[w][j].key[1]
                 /\ FreshEnough(snapshots[w][j].key[2], snapshots[w][j].content)'
      <4>1. CASE snapshots'[w][j] = s
        <5>1. snapshots'[w][j].key[2] = l.key[2] /\ snapshots'[w][j].content = l.content
              /\ snapshots'[w][j].by = snapshots'[w][j].key[1]
          BY <1>6, <4>1
        <5>2. FreshEnough(snapshots[w][j].key[2], snapshots[w][j].content)'
          BY <3>2, <5>1 DEF FreshEnough
        <5>3. QED
          BY <1>9, <5>1, <5>2
      <4>2. CASE snapshots'[w][j] # s
        <5>1. PICK i \in DOMAIN snapshots[v] : snapshots'[w][j] = snapshots[v][i]
          BY <1>12, <3>1, <4>2
        <5> DEFINE o == snapshots[v][i]
        <5>2. /\ o.key[2] <= refreshed /\ o.by = o.key[1] /\ FreshEnough(o.key[2], o.content)
              /\ o.key[2] \in Nat /\ o.content \in Nat
          BY <1>1, <5>1, ListingTypes DEF CacheOf
        <5> HIDE DEF o
        <5>3. PICK k \in Nat, c \in Nat : k = o.key[2] /\ c = o.content
          BY <5>2
        <5>4. FreshEnough(k, c)'
          BY <1>11, <5>2, <5>3, StillFresh DEF Calm
        <5>5. snapshots'[w][j].key[2] = k /\ snapshots'[w][j].content = c
          BY <5>1, <5>3 DEF o
        <5>6. FreshEnough(snapshots[w][j].key[2], snapshots[w][j].content)'
          BY <5>4, <5>5 DEF FreshEnough
        <5>7. QED
          BY <5>1, <5>2, <5>6 DEF o
      <4>3. QED
        BY <4>1, <4>2
    <3>5. Bounded(snapshots[w])'
      BY <1>12, <3>1 DEF Bounded, OneEach
    <3>6. QED
      BY <3>3, <3>4, <3>5 DEF CacheOf
  <2>3. QED
    BY <2>1, <2>2
<1>16. QED
  BY <1>10, <1>11, <1>13, <1>14, <1>15, CatalogByWorkerNext

\* Nobody asks or is answered; caches stay or are emptied, and what was fresh
\* enough stays so.
LEMMA OthersKeepListings ==
  ASSUME CatalogInv, UNCHANGED <<pending, reader>>,
         \A w \in Workers : snapshots'[w] \in {snapshots[w], <<>>},
         \A k \in Nat, c \in Nat : k <= refreshed /\ FreshEnough(k, c) => k <= refreshed' /\ FreshEnough(k, c)'
  PROVE  \A w \in Workers : CacheOf(w)' /\ ClonesOf(w)'
<1> TAKE w \in Workers
<1>1. CatalogTypeOK /\ CacheOf(w) /\ ClonesOf(w)
  BY CatalogByWorker
<1>2. ASSUME NEW j \in DOMAIN snapshots'[w], snapshots'[w] = snapshots[w]
      PROVE  /\ snapshots'[w][j].key[2] <= refreshed'
             /\ snapshots'[w][j].by = snapshots'[w][j].key[1]
             /\ FreshEnough(snapshots[w][j].key[2], snapshots[w][j].content)'
  <2>1. /\ snapshots[w][j].key[2] <= refreshed /\ snapshots[w][j].by = snapshots[w][j].key[1]
        /\ FreshEnough(snapshots[w][j].key[2], snapshots[w][j].content)
        /\ snapshots[w][j].key[2] \in Nat /\ snapshots[w][j].content \in Nat
    BY <1>1, <1>2, ListingTypes DEF CacheOf
  <2>2. PICK k \in Nat, c \in Nat : k = snapshots[w][j].key[2] /\ c = snapshots[w][j].content
    BY <2>1
  <2>3. k <= refreshed' /\ FreshEnough(k, c)'
    BY <2>1, <2>2
  <2>4. snapshots'[w][j].key[2] = k /\ snapshots'[w][j].content = c
    BY <1>2, <2>2
  <2>5. FreshEnough(snapshots[w][j].key[2], snapshots[w][j].content)'
    BY <2>3, <2>4 DEF FreshEnough
  <2>6. QED
    BY <1>2, <2>1, <2>3, <2>4, <2>5
<1>3. CacheOf(w)'
  <2>1. CASE snapshots'[w] = snapshots[w]
    <3>1. Bounded(snapshots[w])'
      BY <1>1, <2>1 DEF CacheOf, Bounded, OneEach
    <3>2. QED
      BY <1>2, <2>1, <3>1 DEF CacheOf
  <2>2. CASE snapshots'[w] = <<>>
    <3>1. <<>> \in Seq(Snapshot) /\ Len(<<>>) = 0 /\ DOMAIN <<>> = {}
      BY EmptySeq, LenProperties
    <3>2. snapshots'[w] \in Seq(Snapshot) /\ Len(snapshots'[w]) = 0 /\ DOMAIN snapshots'[w] = {}
      BY <2>2, <3>1
    <3>3. QED
      BY <3>2, CatalogAssumption DEF CacheOf, Bounded, OneEach
  <2>3. QED
    BY <2>1, <2>2
<1>4. ASSUME NEW l \in pending[w]
      PROVE  l.key[2] <= refreshed' /\ (l.content # NotCloned => FreshEnough(l.key[2], l.content)')
  <2>1. /\ l.key[2] <= refreshed /\ (l.content # NotCloned => FreshEnough(l.key[2], l.content))
        /\ l.key[2] \in Nat /\ l.content \in Nat
    BY <1>1, ListingTypes DEF ClonesOf
  <2>2. CASE l.content # NotCloned
    BY <2>1, <2>2
  <2>3. CASE l.content = NotCloned
    <3>1. FreshEnough(l.key[2], MaxRemote) => l.key[2] <= refreshed'
      BY <2>1, CatalogAssumption
    <3>2. FreshEnough(l.key[2], MaxRemote)
      BY <1>1, CatalogByWorker, CatalogAssumption
      DEF FreshEnough, CatalogTypeOK, RefreshesAreOrdered, ReadersAsk, Reading
    <3>3. QED
      BY <2>3, <3>1, <3>2
  <2>4. QED
    BY <2>2, <2>3
<1>5. ClonesOf(w)'
  BY <1>1, <1>4 DEF ClonesOf, NotCloned
<1>6. QED
  BY <1>3, <1>5

\* Refreshes, changed tokens and pushes put no listing into a cache.
LEMMA RefreshKeeps ==
  ASSUME CatalogInv,
         \/ RefreshClones \/ RefreshCommits \/ RefreshAnswers \/ RefreshFails \/ CredentialsAnswer \/ SecretRotates \/ Push
         \/ \E w \in Workers : RefreshStarts(w) \/ UpdateCredentials(w)
  PROVE  CatalogInv'
<1>1. /\ CatalogTypeOK /\ EntriesAreFresh /\ RefreshesAreOrdered /\ ReadersAsk
      /\ \A w \in Workers : CacheOf(w) /\ ClonesOf(w)
  BY CatalogByWorker
<1>2. MaxToken \in Nat /\ MaxRefreshes \in Nat /\ MaxRemote \in Nat
  BY CatalogAssumption
<1>3. UNCHANGED <<pending, reader>>
  BY DEF RefreshClones, RefreshCommits, RefreshAnswers, RefreshFails, CredentialsAnswer, SecretRotates, Push,
         RefreshStarts, UpdateCredentials, Invalidate, caches
<1>4. <<>> \in Seq(Snapshot)
  BY EmptySeq
<1>5. ASSUME NEW w, w \in Workers, Invalidate(w)
      PROVE  /\ generation' \in [Workers -> Nat] /\ snapshots' \in [Workers -> Seq(Snapshot)]
             /\ \A u \in Workers : snapshots'[u] \in {snapshots[u], <<>>}
  <2>1. generation \in [Workers -> Nat] /\ snapshots \in [Workers -> Seq(Snapshot)]
    BY <1>1 DEF CatalogTypeOK
  <2>2. generation' = [generation EXCEPT ![w] = @ + 1] /\ snapshots' = [snapshots EXCEPT ![w] = <<>>]
    BY <1>5 DEF Invalidate
  <2>3. generation' \in [Workers -> Nat]
    <3>1. generation[w] \in Nat
      BY <1>5, <2>1
    <3>2. generation[w] + 1 \in Nat
      BY <3>1
    <3>3. QED
      BY <2>1, <2>2, <3>2
  <2>4. snapshots' \in [Workers -> Seq(Snapshot)]
    BY <1>4, <2>1, <2>2
  <2>5. \A u \in Workers : snapshots'[u] \in {snapshots[u], <<>>}
    BY <2>1, <2>2
  <2>6. QED
    BY <2>3, <2>4, <2>5
<1>6. CatalogTypeOK'
  <2>1. generation' \in [Workers -> Nat] /\ snapshots' \in [Workers -> Seq(Snapshot)]
    <3>1. CASE \E w \in Workers : Invalidate(w)
      BY <1>5, <3>1
    <3>2. CASE generation' = generation /\ snapshots' = snapshots
      BY <1>1, <3>2 DEF CatalogTypeOK
    <3>3. RefreshAnswers \/ CredentialsAnswer => \E w \in Workers : Invalidate(w)
      BY <1>1 DEF RefreshAnswers, CredentialsAnswer, RefreshesAreOrdered, CatalogTypeOK
    <3>4. QED
      BY <3>1, <3>2, <3>3
      DEF RefreshClones, RefreshCommits, RefreshFails, SecretRotates, Push, RefreshStarts, UpdateCredentials, caches
  <2>2. token' \in 1..MaxToken /\ remote' \in 0..MaxRemote /\ patch' \in Workers \cup {"none"}
    <3>1. token \in 1..MaxToken /\ remote \in 0..MaxRemote /\ patch \in Workers \cup {"none"}
      BY <1>1 DEF CatalogTypeOK
    <3>2. QED
      BY <1>2, <3>1
      DEF RefreshClones, RefreshCommits, RefreshAnswers, RefreshFails, CredentialsAnswer, SecretRotates, Push,
          RefreshStarts, UpdateCredentials, source
  <2>3. /\ refreshed' \in 0..MaxRefreshes /\ answered' \in 0..MaxRemote
        /\ refresh' \in [step : {"none", "cloning", "cloned", "committed"}, worker : Workers \cup {"none"},
                        seen : 0..MaxRemote, stamp : 0..MaxRefreshes]
    <3>1. /\ refreshed \in 0..MaxRefreshes /\ answered \in 0..MaxRemote /\ remote \in 0..MaxRemote
          /\ refresh \in [step : {"none", "cloning", "cloned", "committed"}, worker : Workers \cup {"none"},
                          seen : 0..MaxRemote, stamp : 0..MaxRefreshes]
      BY <1>1 DEF CatalogTypeOK
    <3>2. CASE RefreshClones \/ RefreshCommits \/ RefreshAnswers \/ RefreshFails
      BY <3>1, <3>2 DEF RefreshClones, RefreshCommits, RefreshAnswers, RefreshFails, source
    <3>3. CASE \E w \in Workers : RefreshStarts(w)
      BY <1>2, <3>1, <3>3 DEF RefreshStarts, source
    <3>4. CASE UNCHANGED <<refreshed, answered, refresh>>
      BY <3>1, <3>4
    <3>5. QED
      BY <3>2, <3>3, <3>4 DEF CredentialsAnswer, SecretRotates, Push, UpdateCredentials, source
  <2>4. reader' \in [Readers -> Reading] /\ pending' \in [Workers -> SUBSET Load]
    BY <1>1, <1>3 DEF CatalogTypeOK
  <2>5. QED
    BY <2>1, <2>2, <2>3, <2>4 DEF CatalogTypeOK
<1>7. \A w \in Workers : snapshots'[w] \in {snapshots[w], <<>>}
  <2>1. CASE RefreshAnswers
    BY <1>1, <1>5, <2>1 DEF RefreshAnswers, RefreshesAreOrdered
  <2>2. CASE CredentialsAnswer
    BY <1>1, <1>5, <2>2 DEF CredentialsAnswer, CatalogTypeOK
  <2>3. ASSUME NEW w \in Workers, RefreshStarts(w)
        PROVE  \A u \in Workers : snapshots'[u] \in {snapshots[u], <<>>}
    BY <1>5, <2>3 DEF RefreshStarts
  <2>4. CASE snapshots' = snapshots
    BY <2>4
  <2>5. QED
    BY <2>1, <2>2, <2>3, <2>4
    DEF RefreshClones, RefreshCommits, RefreshFails, SecretRotates, Push, UpdateCredentials, caches
<1>8. /\ refresh.seen \in Nat /\ refresh.stamp \in Nat /\ refreshed \in Nat /\ answered \in Nat /\ remote \in Nat
      /\ refresh'.seen \in Nat /\ refresh'.stamp \in Nat /\ refreshed' \in Nat /\ answered' \in Nat /\ remote' \in Nat
  BY <1>1, <1>2, <1>6 DEF CatalogTypeOK
<1>9. /\ refreshed <= refreshed' /\ remote <= remote'
      /\ RefreshesAreOrdered'
  <2> USE <1>1, <1>8 DEF RefreshesAreOrdered, CatalogTypeOK, source
  <2>1. CASE RefreshClones
    BY <2>1 DEF RefreshClones
  <2>2. CASE RefreshCommits
    BY <2>2 DEF RefreshCommits
  <2>3. CASE RefreshAnswers
    BY <2>3 DEF RefreshAnswers
  <2>4. CASE RefreshFails
    BY <2>4 DEF RefreshFails
  <2>5. CASE CredentialsAnswer \/ SecretRotates
    BY <2>5 DEF CredentialsAnswer, SecretRotates
  <2>6. CASE Push
    BY <2>6 DEF Push
  <2>7. ASSUME NEW w \in Workers, RefreshStarts(w)
        PROVE  refreshed <= refreshed' /\ remote <= remote' /\ RefreshesAreOrdered'
    BY <2>7 DEF RefreshStarts
  <2>8. ASSUME NEW w \in Workers, UpdateCredentials(w)
        PROVE  refreshed <= refreshed' /\ remote <= remote' /\ RefreshesAreOrdered'
    BY <2>8 DEF UpdateCredentials
  <2>9. QED
    BY <2>1, <2>2, <2>3, <2>4, <2>5, <2>6, <2>7, <2>8
<1>10. EntriesAreFresh'
  BY <1>1, <1>3 DEF EntriesAreFresh
<1>11. ReadersAsk'
  <2> SUFFICES ASSUME NEW r \in Readers, Asking(r)
               PROVE  /\ reader[r].worker \in Workers /\ reader[r].key \in SnapshotKeys
                      /\ reader[r].key[1] = reader[r].by /\ reader[r].key[2] <= refreshed'
                      /\ reader[r].floor <= remote'
    BY <1>3 DEF ReadersAsk, Asking
  <2>1. reader[r].key[2] \in Nat /\ reader[r].floor \in Nat
    BY <1>1, <1>2 DEF CatalogTypeOK, Reading
  <2>2. QED
    BY <1>1, <1>8, <1>9, <2>1 DEF ReadersAsk
<1>12. ASSUME NEW k \in Nat, NEW c \in Nat, k <= refreshed, FreshEnough(k, c)
       PROVE  k <= refreshed' /\ FreshEnough(k, c)'
  <2>1. \A r \in Readers : Asking(r)' /\ reader'[r].key[2] = k => reader'[r].floor <= c
    BY <1>3, <1>12 DEF FreshEnough, Asking
  <2>2. k <= refreshed'
    BY <1>8, <1>9, <1>12
  <2>3. k = refreshed' => answered' <= c /\ (refresh'.step = "committed" => refresh'.seen <= c)
    <3> USE <1>1, <1>8, <1>12 DEF FreshEnough, RefreshesAreOrdered, CatalogTypeOK, source
    <3>1. CASE RefreshClones
      BY <3>1 DEF RefreshClones
    <3>2. CASE RefreshCommits
      BY <3>2 DEF RefreshCommits
    <3>3. CASE RefreshAnswers
      BY <3>3 DEF RefreshAnswers
    <3>4. CASE RefreshFails
      BY <3>4 DEF RefreshFails
    <3>5. CASE CredentialsAnswer \/ SecretRotates \/ Push
      BY <3>5 DEF CredentialsAnswer, SecretRotates, Push
    <3>6. ASSUME NEW w \in Workers, RefreshStarts(w) \/ UpdateCredentials(w)
          PROVE  k = refreshed' => answered' <= c /\ (refresh'.step = "committed" => refresh'.seen <= c)
      BY <3>6 DEF RefreshStarts, UpdateCredentials
    <3>7. QED
      BY <3>1, <3>2, <3>3, <3>4, <3>5, <3>6
  <2>4. QED
    BY <2>1, <2>2, <2>3 DEF FreshEnough
<1>13. \A w \in Workers : CacheOf(w)' /\ ClonesOf(w)'
  BY <1>3, <1>7, <1>12, OthersKeepListings
<1>14. QED
  BY <1>6, <1>9, <1>10, <1>11, <1>13, CatalogByWorkerNext

\* A step elsewhere changes nothing here.
LEMMA CatalogStuttering == CatalogInv /\ UNCHANGED cacheVars => CatalogInv'
<1> SUFFICES ASSUME CatalogInv, UNCHANGED cacheVars PROVE CatalogInv'
  OBVIOUS
<1>1. CatalogTypeOK' /\ EntriesAreFresh' /\ RefreshesAreOrdered' /\ ReadersAsk'
  BY CatalogByWorker DEF cacheVars, CatalogTypeOK, EntriesAreFresh, RefreshesAreOrdered, ReadersAsk, Asking
<1>2. ASSUME NEW k \in Nat, NEW c \in Nat, k <= refreshed, FreshEnough(k, c)
      PROVE  k <= refreshed' /\ FreshEnough(k, c)'
  BY <1>2 DEF cacheVars, FreshEnough, Asking
<1>3. \A w \in Workers : CacheOf(w)' /\ ClonesOf(w)'
  BY <1>2, OthersKeepListings DEF cacheVars
<1>4. QED
  BY <1>1, <1>3, CatalogByWorkerNext

\* The inductive invariant of the catalog.
THEOREM CatalogInvariance == CatalogSpec => []CatalogInv
<1>1. ASSUME CatalogInv, CatalogNext
      PROVE  CatalogInv'
  BY <1>1, ListEntriesKeeps, HitKeeps, MissKeeps, DisconnectsKeeps, CloneKeeps, LoadEndsKeeps, LoadFailsKeeps, RefreshKeeps
  DEF CatalogNext
<1>2. QED
  BY <1>1, CatalogStart, CatalogStuttering, PTL DEF CatalogSpec

\* CatalogIsFresh: whatever clones end late and in whatever worker, a request
\* sees what the last refresh has seen and nothing that another token could
\* read, and caches keep their bound.
THEOREM CatalogIsFreshHolds == CatalogSpec => []CatalogIsFresh
BY CatalogInvariance, PTL DEF CatalogInv

-----------------------------------------------------------------------------
(* The vault's placeholder.                                                *)

\* The file, the handles and the records keep their types in every step.
LEMMA TypeInductive == TypeOK /\ [Next]_vars => TypeOK'
<1> SUFFICES ASSUME TypeOK, [Next]_vars PROVE TypeOK'
  OBVIOUS
<1> USE DEF TypeOK, Phases, Go
<1>1. ASSUME NEW a \in Att, AcquireLock(a) \/ Launch(a) \/ Finish(a)
      PROVE  TypeOK'
  BY <1>1 DEF AcquireLock, Launch, Finish
<1>2. ASSUME NEW a \in Att, Prepare(a)
      PROVE  TypeOK'
  <2>1. CASE vault = NoVault
    <3>1. PICK i \in Inodes : /\ vault' = [inode |-> i, by |-> a, edited |-> FALSE]
                             /\ handle' = [handle EXCEPT ![a] = i]
      BY <1>2, <2>1 DEF Prepare
    <3>2. vault' \in Vaults
      BY <3>1 DEF Vaults
    <3>3. QED
      BY <1>2, <3>1, <3>2 DEF Prepare
  <2>2. QED
    BY <1>2, <2>1 DEF Prepare
<1>3. ASSUME NEW a \in Att, RecordCleanup(a)
      PROVE  TypeOK'
  <2>1. record' \in [Att -> Inodes \cup {Null, "absent"}]
    BY <1>3 DEF RecordCleanup
  <2>2. QED
    BY <1>3, <2>1 DEF RecordCleanup
<1>4. ASSUME NEW a \in Att, SetupFails(a) \/ ObserveExit(a) \/ Recover(a) \/ CleanAgain(a)
      PROVE  TypeOK'
  BY <1>4 DEF SetupFails, ObserveExit, Recover, CleanAgain, Clean
<1>5. CASE User
  <2>1. vault' \in Vaults \cup {NoVault}
    <3>1. CASE UserPlaces
      BY <3>1 DEF UserPlaces, Vaults
    <3>2. CASE UserEdits
      BY <3>2 DEF UserEdits, Vaults
    <3>3. QED
      BY <1>5, <3>1, <3>2 DEF User, UserRemoves
  <2>2. QED
    BY <1>5, <2>1 DEF User, UserPlaces, UserEdits, UserRemoves
<1>6. CASE Crash
  BY <1>6 DEF Crash, AfterCrash
<1>7. CASE UNCHANGED vars
  BY <1>7 DEF vars
<1>8. QED
  BY <1>1, <1>2, <1>3, <1>4, <1>5, <1>6, <1>7 DEF Next, Attempt

\* Every variable has its type in every reachable state.
THEOREM TypeCorrect == Spec => []TypeOK
<1>1. Init => TypeOK
  BY DEF Init, TypeOK, Phases
<1>2. QED
  BY <1>1, TypeInductive, PTL DEF Spec

\* No step of an attempt or crash touches a file with a user's content.
THEOREM UserVaultKeptHolds == Spec => UserVaultKept
<1>1. ASSUME TypeOK, [Next]_vars, vault.edited, vault' # vault
      PROVE  User
  <2>1. ASSUME NEW a \in Att, Attempt(a)
        PROVE  FALSE
    BY <1>1, <2>1 DEF Attempt, AcquireLock, Prepare, RecordCleanup, Launch, SetupFails,
       ObserveExit, Recover, Finish, CleanAgain, Clean, IsPlaceholder, NoVault
  <2>2. QED
    BY <1>1, <2>1 DEF Next, Crash, vars
<1>2. TypeOK /\ [Next]_vars => [vault.edited /\ vault' # vault => User]_vars
  BY <1>1
<1>3. QED
  BY <1>2, TypeCorrect, PTL DEF Spec, UserVaultKept

\* The placeholder of an attempt is named by its handle, then by its record.
LEMMA OwnedInductive == TypeOK /\ Owned /\ [Next]_vars => Owned'
<1> SUFFICES ASSUME TypeOK, Owned, [Next]_vars
             PROVE  Owned'
  OBVIOUS
<1> USE NullAssumption DEF TypeOK, Phases, Go, Owned, Placeholder
<1>1. ASSUME NEW a \in Att, AcquireLock(a)
      PROVE  Owned'
  BY <1>1 DEF AcquireLock
<1>2. ASSUME NEW a \in Att, Prepare(a)
      PROVE  Owned'
  BY <1>2 DEF Prepare, NoVault
<1>3. ASSUME NEW a \in Att, RecordCleanup(a)
      PROVE  Owned'
  BY <1>3 DEF RecordCleanup
<1>4. ASSUME NEW a \in Att, Launch(a)
      PROVE  Owned'
  BY <1>4 DEF Launch
<1>5. ASSUME NEW a \in Att, SetupFails(a) \/ ObserveExit(a) \/ Recover(a) \/ CleanAgain(a)
      PROVE  Owned'
  BY <1>5 DEF SetupFails, ObserveExit, Recover, CleanAgain, Clean, IsPlaceholder, NoVault,
     Vaults
<1>6. ASSUME NEW a \in Att, Finish(a)
      PROVE  Owned'
  BY <1>6 DEF Finish
<1>7. CASE User
  BY <1>7 DEF User, UserPlaces, UserEdits, UserRemoves, NoVault
<1>8. CASE Crash
  BY <1>8 DEF Crash, AfterCrash
<1>9. CASE UNCHANGED vars
  BY <1>9 DEF vars
<1>10. QED
  BY <1>1, <1>2, <1>3, <1>4, <1>5, <1>6, <1>7, <1>8, <1>9 DEF Next, Attempt

\* A finished attempt that wrote its record leaves no placeholder, crashes and
\* recovery included.
THEOREM NoLeftoverHolds == Spec => []NoLeftover
<1>1. Init => Owned
  BY NullAssumption DEF Init, Owned, Placeholder, NoVault
<1>2. TypeOK /\ Owned => NoLeftover
  BY DEF TypeOK, Owned, NoLeftover, Placeholder
<1>3. QED
  BY <1>1, <1>2, TypeCorrect, OwnedInductive, PTL DEF Spec

-----------------------------------------------------------------------------
(* The agent.                                                              *)

AgentPhases == {"none", "directory", "started", "failed", "held", "loaded", "running",
                "orphaned", "kill", "open", "unlink", "rmdir", "passed", "closed"}
Found == {"nothing", "own", "other"}
Identities == [pid : Pids \cup {0}, birth : Nat]

AgentTypeOK ==
  /\ run \in [Runs -> AgentPhases]
  /\ processes \in [Pids -> [birth : Nat, whose : Runs \cup {Stranger}]]
  /\ births \in Nat \ {0}
  /\ held \in [Runs -> Identities] /\ saved \in [Runs -> Identities]
  /\ place \in [Runs -> Found] /\ socket \in [Runs -> Found]

\* A start time belongs to one process.
BirthsAreUnique == \A p \in Pids : Lives(p) =>
  /\ 0 < processes[p].birth /\ processes[p].birth < births
  /\ \A q \in Pids : Lives(q) /\ processes[q].birth = processes[p].birth => q = p

\* An identity that is kept fits no process but the agent it was taken from,
\* whatever has been started under its PID since.
Names(c, r) == c # NoOne =>
  /\ c.birth < births
  /\ \A p \in Pids : Lives(p) /\ processes[p].birth = c.birth => processes[p].whose = r

IdentitiesNameAgents == \A r \in Runs : Names(held[r], r) /\ Names(saved[r], r)

\* What is kept of an attempt's agent at each point: in the handle, then in
\* cleanup.json too; the first pass of a closing uses the handle, the second
\* the record, and a crash takes the handle.
KeptWhereNeeded == \A r \in Runs :
  /\ run[r] \in {"none", "directory", "started", "failed", "orphaned", "closed"} => held[r] = NoOne
  /\ run[r] \in {"none", "directory", "started", "failed", "held", "loaded"} => saved[r] = NoOne
  /\ held[r] # NoOne => saved[r] \in {NoOne, held[r]}

\* As long as it is not closed, the agent is the one process its identity says.
AgentIsKnown == \A r \in Runs :
  /\ \A p, q \in AgentOf(r) : p = q
  /\ run[r] \in {"none", "directory", "open", "unlink", "rmdir", "passed", "closed"} => AgentOf(r) = {}
  /\ run[r] \in {"held", "loaded", "running", "orphaned", "kill"} =>
       \A p \in AgentOf(r) : Claim(r) = ProcessIdentity(p)
  /\ run[r] = "running" => held[r] = saved[r]

\* The directory, between the removal of the socket and the end.
DirectoryIsLeft == \A r \in Runs :
  /\ run[r] = "rmdir" => socket[r] # "own"
  /\ run[r] \in {"passed", "closed"} /\ place[r] = "own" => socket[r] = "other" \/ r \in crowded \cup spared

AgentInv ==
  /\ AgentTypeOK /\ BirthsAreUnique /\ IdentitiesNameAgents /\ KeptWhereNeeded
  /\ AgentIsKnown /\ DirectoryIsLeft /\ harmed = {}


-----------------------------------------------------------------------------
(* What the phases that change files or what is kept, but no process, do.  *)

\* They start and end nothing, so that each agent is the one it was.
LEMMA TaskKeeps ==
  ASSUME AgentInv, NEW r \in Runs,
         MakeDirectory(r) \/ StartFails(r) \/ IdentifyAgent(r) \/ LoadKeys(r) \/ Record(r)
           \/ TaskEnds(r) \/ RecoverRun(r)
  PROVE  AgentInv'
<1> USE DEF AgentInv, AgentTypeOK, AgentPhases, Found, Identities, NoOne, RunGoes, files
<1>1. BirthsAreUnique'
  BY DEF BirthsAreUnique, Lives, MakeDirectory, StartFails, IdentifyAgent, LoadKeys, Record, TaskEnds, RecoverRun
<1>2. CASE MakeDirectory(r)
  BY <1>1, <1>2 DEF MakeDirectory, IdentitiesNameAgents, Names, KeptWhereNeeded, AgentIsKnown, AgentOf,
                    Lives, Claim, ProcessIdentity, DirectoryIsLeft
<1>3. CASE StartFails(r)
  BY <1>1, <1>3 DEF StartFails, IdentitiesNameAgents, Names, KeptWhereNeeded, AgentIsKnown, AgentOf,
                    Lives, Claim, ProcessIdentity, DirectoryIsLeft
<1>4. CASE IdentifyAgent(r)
  <2>1. CASE socket[r] = "own" /\ AgentOf(r) # {}
    <3> DEFINE p == CHOOSE q \in AgentOf(r) : TRUE
    <3>1. p \in AgentOf(r)
      BY <2>1
    <3>2. held' = [held EXCEPT ![r] = ProcessIdentity(p)] /\ run' = [run EXCEPT ![r] = "held"]
      BY <1>4, <2>1 DEF IdentifyAgent
    <3>3. ProcessIdentity(p) = [pid |-> p, birth |-> processes[p].birth] /\ p \in Pids /\ Lives(p)
      BY <3>1 DEF ProcessIdentity, AgentOf
    <3> HIDE DEF p
    <3> USE <1>4 DEF IdentifyAgent
    <3>4. AgentTypeOK' /\ harmed' = {} /\ DirectoryIsLeft'
      BY <3>2, <3>3 DEF DirectoryIsLeft
    <3>5. IdentitiesNameAgents'
      BY <3>1, <3>2, <3>3 DEF IdentitiesNameAgents, Names, BirthsAreUnique, Lives, AgentOf
    <3>6. KeptWhereNeeded'
      BY <3>2 DEF KeptWhereNeeded
    <3>7. AgentIsKnown'
      BY <3>1, <3>2, <3>3 DEF AgentIsKnown, AgentOf, Lives, Claim, ProcessIdentity, BirthsAreUnique
    <3>8. QED
      BY <1>1, <3>4, <3>5, <3>6, <3>7
  <2>2. CASE socket[r] # "own" \/ AgentOf(r) = {}
    <3>1. /\ held' = held \/ held' = [held EXCEPT ![r] = NoOne]
          /\ (run' = [run EXCEPT ![r] = "held"] /\ AgentOf(r) = {}) \/ run' = [run EXCEPT ![r] = "failed"]
      BY <1>4, <2>2 DEF IdentifyAgent
    <3>2. held' = held
      BY <1>4, <3>1 DEF IdentifyAgent, KeptWhereNeeded
    <3> USE <1>4, <3>1, <3>2 DEF IdentifyAgent
    <3>3. AgentTypeOK' /\ harmed' = {} /\ DirectoryIsLeft' /\ IdentitiesNameAgents'
      BY DEF DirectoryIsLeft, IdentitiesNameAgents, Names, Lives
    <3>4. KeptWhereNeeded' /\ AgentIsKnown'
      BY DEF KeptWhereNeeded, AgentIsKnown, AgentOf, Lives, Claim, ProcessIdentity
    <3>5. QED
      BY <1>1, <3>3, <3>4
  <2>3. QED
    BY <2>1, <2>2
<1>5. CASE LoadKeys(r)
  <2> USE <1>5 DEF LoadKeys
  <2>1. AgentTypeOK' /\ harmed' = {}
    <3>1. NoOne \in Identities
      OBVIOUS
    <3>2. held' \in [Runs -> Identities]
      BY <3>1
    <3>3. run' \in [Runs -> AgentPhases]
      OBVIOUS
    <3>4. UNCHANGED <<processes, births, saved, place, socket, harmed>>
      OBVIOUS
    <3>5. QED
      BY <3>2, <3>3, <3>4
  <2>2. DirectoryIsLeft'
    BY DEF DirectoryIsLeft
  <2>3. IdentitiesNameAgents' /\ KeptWhereNeeded'
    BY DEF IdentitiesNameAgents, Names, Lives, KeptWhereNeeded
  <2>4. AgentIsKnown'
    BY DEF AgentIsKnown, AgentOf, Lives, Claim, ProcessIdentity
  <2>5. QED
    BY <1>1, <2>1, <2>2, <2>3, <2>4
<1>6. CASE Record(r)
  BY <1>1, <1>6 DEF Record, IdentitiesNameAgents, Names, KeptWhereNeeded, AgentIsKnown, AgentOf,
                    Lives, Claim, ProcessIdentity, DirectoryIsLeft
<1>7. CASE TaskEnds(r) \/ RecoverRun(r)
  <2> USE <1>7 DEF TaskEnds, RecoverRun
  <2>1. AgentTypeOK' /\ harmed' = {} /\ DirectoryIsLeft'
    BY DEF DirectoryIsLeft
  <2>2. IdentitiesNameAgents' /\ KeptWhereNeeded'
    BY DEF IdentitiesNameAgents, Names, Lives, KeptWhereNeeded
  <2>3. AgentIsKnown'
    BY DEF AgentIsKnown, AgentOf, Lives, Claim, ProcessIdentity
  <2>4. QED
    BY <1>1, <2>1, <2>2, <2>3
<1>8. QED
  BY <1>2, <1>3, <1>4, <1>5, <1>6, <1>7


\* A process starts under a free PID.
LEMMA StartKeeps ==
  ASSUME AgentInv, NEW p \in Pids, NEW who \in Runs \cup {Stranger}, Start(p, who)
  PROVE  /\ BirthsAreUnique'
         /\ \A r \in Runs, c \in Identities : Names(c, r) => Names(c, r)'
         /\ \A r \in Runs : AgentOf(r)' = IF r = who THEN AgentOf(r) \cup {p} ELSE AgentOf(r)
         /\ \A q \in Pids : q # p => ProcessIdentity(q)' = ProcessIdentity(q)
         /\ p \notin UNION {AgentOf(r) : r \in Runs}
<1> USE DEF AgentInv, AgentTypeOK, Start, Identities, Lives, Empty
<1>1. /\ processes' = [processes EXCEPT ![p] = [birth |-> births, whose |-> who]]
      /\ births' = births + 1 /\ births \in Nat /\ births > 0 /\ processes[p] = Empty
  OBVIOUS
<1>2. processes'[p].birth = births /\ processes'[p].whose = who
  BY <1>1
<1>3. BirthsAreUnique'
  BY <1>1, <1>2 DEF BirthsAreUnique
<1>4. \A r \in Runs, c \in Identities : Names(c, r) => Names(c, r)'
  BY <1>1, <1>2 DEF Names
<1>5. \A r \in Runs : AgentOf(r)' = IF r = who THEN AgentOf(r) \cup {p} ELSE AgentOf(r)
  BY <1>1, <1>2 DEF AgentOf
<1>6. \A q \in Pids : q # p => ProcessIdentity(q)' = ProcessIdentity(q)
  BY <1>1 DEF ProcessIdentity
<1>7. p \notin UNION {AgentOf(r) : r \in Runs}
  BY <1>1 DEF AgentOf
<1>8. QED
  BY <1>3, <1>4, <1>5, <1>6, <1>7

\* A process ends: nothing that was true of the others changes.
LEMMA EndKeeps ==
  ASSUME AgentInv, NEW p \in Pids, processes' = [processes EXCEPT ![p] = Empty], births' = births
  PROVE  /\ processes' \in [Pids -> [birth : Nat, whose : Runs \cup {Stranger}]]
         /\ BirthsAreUnique'
         /\ \A r \in Runs, c \in Identities : Names(c, r) => Names(c, r)'
         /\ \A r \in Runs : AgentOf(r)' = AgentOf(r) \ {p}
         /\ \A q \in Pids : q # p => ProcessIdentity(q)' = ProcessIdentity(q)
<1> USE DEF AgentInv, AgentTypeOK, Identities, Lives, Empty
<1>1. processes' \in [Pids -> [birth : Nat, whose : Runs \cup {Stranger}]]
  OBVIOUS
<1>2. BirthsAreUnique'
  BY DEF BirthsAreUnique
<1>3. \A r \in Runs, c \in Identities : Names(c, r) => Names(c, r)'
  BY DEF Names
<1>4. \A r \in Runs : AgentOf(r)' = AgentOf(r) \ {p}
  BY DEF AgentOf
<1>5. \A q \in Pids : q # p => ProcessIdentity(q)' = ProcessIdentity(q)
  BY DEF ProcessIdentity
<1>6. QED
  BY <1>1, <1>2, <1>3, <1>4, <1>5

\* No process changes.
LEMMA SameProcesses ==
  ASSUME AgentInv, UNCHANGED <<processes, births>>
  PROVE  /\ BirthsAreUnique'
         /\ \A r \in Runs, c \in Identities : Names(c, r)' <=> Names(c, r)
         /\ \A r \in Runs : AgentOf(r)' = AgentOf(r)
         /\ \A p : ProcessIdentity(p)' = ProcessIdentity(p)
BY DEF AgentInv, BirthsAreUnique, Names, AgentOf, ProcessIdentity, Lives

\* An agent is born under a number of its own.
LEMMA StartAgentKeeps == ASSUME AgentInv, NEW r \in Runs, StartAgent(r) PROVE AgentInv'
<1> USE DEF AgentInv, AgentTypeOK, AgentPhases, Found, NoOne, StartAgent, RunGoes
<1>1. PICK p \in Pids : Start(p, r)
  OBVIOUS
<1>2. run' = [run EXCEPT ![r] = "started"] /\ AgentOf(r) = {} /\ AgentOf(r)' = {p}
  BY <1>1, StartKeeps DEF AgentIsKnown
<1>3. AgentTypeOK' /\ harmed' = {}
  BY <1>1 DEF Start
<1>4. BirthsAreUnique' /\ IdentitiesNameAgents'
  BY <1>1, StartKeeps DEF IdentitiesNameAgents, Names
<1>5. KeptWhereNeeded' /\ DirectoryIsLeft'
  BY <1>2 DEF KeptWhereNeeded, DirectoryIsLeft
<1>6. AgentIsKnown'
  <2> SUFFICES ASSUME NEW s \in Runs, s # r
               PROVE  /\ AgentOf(s)' = AgentOf(s) /\ Claim(s)' = Claim(s) /\ run'[s] = run[s]
                      /\ \A q \in AgentOf(s) : ProcessIdentity(q)' = ProcessIdentity(q)
    BY <1>2 DEF AgentIsKnown
  <2>1. AgentOf(s)' = AgentOf(s) /\ Claim(s)' = Claim(s) /\ run'[s] = run[s]
    BY <1>1, <1>2, StartKeeps DEF Claim
  <2>2. \A q \in AgentOf(s) : q # p /\ q \in Pids
    BY <1>1, StartKeeps DEF AgentOf
  <2>3. QED
    BY <1>1, <2>1, <2>2, StartKeeps
<1>7. QED
  BY <1>3, <1>4, <1>5, <1>6


-----------------------------------------------------------------------------
(* Closing.                                                                *)

\* Only a live process has the identity that was kept: what Kill ends is the
\* run's own agent, and an agent that is not there was gone before.
LEMMA KillKeeps == ASSUME AgentInv, NEW r \in Runs, Kill(r) PROVE AgentInv'
<1> USE DEF AgentInv, AgentTypeOK, AgentPhases, Found, RunGoes, files
<1> DEFINE p == Claim(r).pid
<1>1. /\ ProcessIdentity(p) = Claim(r) /\ Claim(r) # NoOne
      /\ processes' = [processes EXCEPT ![p] = Empty]
      /\ run[r] = "kill" /\ run' = [run EXCEPT ![r] = "open"]
      /\ UNCHANGED <<births, held, saved, place, socket, crowded, spared>>
      /\ harmed' = IF processes[p].whose # r THEN harmed \cup {r} ELSE harmed
  BY DEF Kill, Harm
<1>2. Lives(p) /\ p \in Pids /\ Claim(r) = [pid |-> p, birth |-> processes[p].birth]
  BY <1>1 DEF ProcessIdentity, Lives
<1>3. processes[p].whose = r
  <2>1. Names(Claim(r), r)
    BY DEF IdentitiesNameAgents, Claim
  <2>2. QED
    BY <1>1, <1>2, <2>1 DEF Names
<1>4. AgentOf(r) \subseteq {p}
  BY <1>2, <1>3 DEF AgentIsKnown, AgentOf
<1> HIDE DEF p
<1>5. AgentTypeOK' /\ harmed' = {}
  BY <1>1, <1>2, <1>3, EndKeeps
<1>6. BirthsAreUnique' /\ IdentitiesNameAgents'
  BY <1>1, <1>2, EndKeeps DEF IdentitiesNameAgents
<1>7. KeptWhereNeeded' /\ DirectoryIsLeft'
  BY <1>1 DEF KeptWhereNeeded, DirectoryIsLeft
<1>8. AgentIsKnown'
  <2>1. AgentOf(r)' = {}
    <3>1. AgentOf(r)' = AgentOf(r) \ {p}
      BY <1>1, <1>2, EndKeeps
    <3>2. QED
      BY <1>4, <3>1, Zenon
  <2>2. ASSUME NEW s \in Runs, s # r
        PROVE  /\ AgentOf(s)' = AgentOf(s) /\ p \notin AgentOf(s) /\ Claim(s)' = Claim(s) /\ run'[s] = run[s]
               /\ \A q \in AgentOf(s) : ProcessIdentity(q)' = ProcessIdentity(q)
    <3>1. p \notin AgentOf(s)
      BY <1>3, <2>2 DEF AgentOf
    <3>2. AgentOf(s)' = AgentOf(s) /\ \A q \in AgentOf(s) : q \in Pids /\ q # p
      <4>1. AgentOf(s)' = AgentOf(s) \ {p}
        BY <1>1, <1>2, EndKeeps
      <4>2. AgentOf(s)' = AgentOf(s)
        BY <3>1, <4>1
      <4>3. QED
        BY <3>1, <4>2 DEF AgentOf
    <3>3. Claim(s)' = Claim(s) /\ run'[s] = run[s]
      BY <1>1, <2>2 DEF Claim
    <3>4. QED
      BY <1>1, <1>2, <3>1, <3>2, <3>3, EndKeeps
  <2>3. QED
    BY <1>1, <2>1, <2>2 DEF AgentIsKnown
<1>9. QED
  BY <1>5, <1>6, <1>7, <1>8

\* What a closing does to files and to what is kept.
LEMMA ClosingKeeps ==
  ASSUME AgentInv, NEW r \in Runs,
         AlreadyGone(r) \/ OpenDirectory(r) \/ UnlinkSocket(r) \/ RemoveDirectory(r) \/ ClosePass(r)
  PROVE  AgentInv'
<1> USE DEF AgentInv, AgentTypeOK, AgentPhases, Found, NoOne, RunGoes, files
<1>1. /\ UNCHANGED <<processes, births>> /\ BirthsAreUnique'
      /\ \A s \in Runs : AgentOf(s)' = AgentOf(s)
      /\ \A p : ProcessIdentity(p)' = ProcessIdentity(p)
      /\ \A s \in Runs, c \in Identities : Names(c, s)' <=> Names(c, s)
  BY SameProcesses DEF AlreadyGone, OpenDirectory, UnlinkSocket, RemoveDirectory, ClosePass
<1>2. CASE AlreadyGone(r)
  <2>1. run[r] = "kill" /\ (Claim(r) = NoOne \/ ProcessIdentity(Claim(r).pid) # Claim(r))
    BY <1>2 DEF AlreadyGone
  <2>2. AgentOf(r) = {}
    BY <2>1 DEF AgentIsKnown, ProcessIdentity, AgentOf, BirthsAreUnique
  <2>3. /\ \/ run' = [run EXCEPT ![r] = "open"] /\ spared' = spared
           \/ run' = [run EXCEPT ![r] = "passed"] /\ spared' = spared \cup {r}
        /\ UNCHANGED <<processes, births, held, saved, place, socket, crowded, harmed>>
    BY <1>2 DEF AlreadyGone
  <2>4. AgentTypeOK' /\ harmed' = {} /\ KeptWhereNeeded' /\ DirectoryIsLeft'
    BY <2>1, <2>3 DEF KeptWhereNeeded, DirectoryIsLeft
  <2>5. IdentitiesNameAgents' /\ AgentIsKnown'
    BY <1>1, <2>1, <2>2, <2>3 DEF IdentitiesNameAgents, AgentIsKnown, Claim
  <2>6. QED
    BY <1>1, <2>4, <2>5
<1>3. CASE OpenDirectory(r)
  BY <1>1, <1>3 DEF OpenDirectory, IdentitiesNameAgents, KeptWhereNeeded, AgentIsKnown, Claim, DirectoryIsLeft
<1>4. CASE UnlinkSocket(r)
  <2> USE <1>4 DEF UnlinkSocket, Removable, Harm
  <2>1. AgentTypeOK' /\ harmed' = {} /\ DirectoryIsLeft'
    BY DEF DirectoryIsLeft
  <2>2. IdentitiesNameAgents' /\ KeptWhereNeeded' /\ AgentIsKnown'
    BY <1>1 DEF IdentitiesNameAgents, KeptWhereNeeded, AgentIsKnown, Claim
  <2>3. QED
    BY <1>1, <2>1, <2>2
<1>5. CASE RemoveDirectory(r)
  BY <1>1, <1>5 DEF RemoveDirectory, IdentitiesNameAgents, KeptWhereNeeded, AgentIsKnown, Claim, DirectoryIsLeft
<1>6. CASE ClosePass(r)
  <2>1. /\ run[r] = "passed" /\ UNCHANGED <<processes, births, place, socket, crowded, harmed, spared>>
        /\ \/ /\ held[r] # NoOne /\ run' = [run EXCEPT ![r] = "kill"]
              /\ held' = [held EXCEPT ![r] = NoOne] /\ saved' = saved
           \/ /\ held[r] = NoOne /\ run' = [run EXCEPT ![r] = "closed"]
              /\ held' = held /\ saved' = [saved EXCEPT ![r] = NoOne]
    BY <1>6 DEF ClosePass
  <2>2. NoOne \in Identities
    BY DEF Identities
  <2>3. AgentTypeOK'
    <3>1. run' \in [Runs -> AgentPhases] /\ held' \in [Runs -> Identities] /\ saved' \in [Runs -> Identities]
      BY <2>1, <2>2
    <3>2. QED
      BY <2>1, <3>1
  <2>4. harmed' = {} /\ DirectoryIsLeft' /\ KeptWhereNeeded'
    BY <2>1 DEF DirectoryIsLeft, KeptWhereNeeded
  <2>5. IdentitiesNameAgents'
    BY <1>1, <2>1, <2>2 DEF IdentitiesNameAgents, Names
  <2>6. AgentIsKnown'
    BY <1>1, <2>1 DEF AgentIsKnown, Claim
  <2>7. QED
    BY <1>1, <2>3, <2>4, <2>5, <2>6
<1>7. QED
  BY <1>2, <1>3, <1>4, <1>5, <1>6

-----------------------------------------------------------------------------
(* The host, and the end of the API process.                               *)

\* A process of somebody else may take a PID, never the birth of an agent.
LEMMA StrangerKeeps == AgentInv /\ ProcessStarts => AgentInv'
<1> SUFFICES ASSUME AgentInv, ProcessStarts PROVE AgentInv'
  OBVIOUS
<1> USE DEF AgentInv, AgentTypeOK, ProcessStarts, files
<1>1. PICK p \in Pids : Start(p, Stranger)
  OBVIOUS
<1>2. AgentTypeOK' /\ harmed' = {} /\ KeptWhereNeeded' /\ DirectoryIsLeft'
  BY <1>1 DEF Start, KeptWhereNeeded, DirectoryIsLeft
<1>3. BirthsAreUnique' /\ IdentitiesNameAgents'
  BY <1>1, StartKeeps DEF IdentitiesNameAgents
<1>4. \A r \in Runs : /\ AgentOf(r)' = AgentOf(r) /\ Claim(r)' = Claim(r)
                      /\ \A q \in AgentOf(r) : ProcessIdentity(q)' = ProcessIdentity(q)
  <2> TAKE r \in Runs
  <2>1. AgentOf(r)' = AgentOf(r) /\ p \notin AgentOf(r) /\ Claim(r)' = Claim(r)
    BY <1>1, StartKeeps, StrangerAssumption DEF Claim
  <2>2. \A q \in AgentOf(r) : q \in Pids /\ q # p
    BY <2>1 DEF AgentOf
  <2>3. QED
    BY <1>1, <2>1, <2>2, StartKeeps
<1>5. AgentIsKnown'
  BY <1>4 DEF AgentIsKnown
<1>6. QED
  BY <1>2, <1>3, <1>5

\* A process that ends is no agent any more, and no other becomes one.
LEMMA EndedKeeps == ASSUME AgentInv, NEW p \in Pids, ProcessEnds(p) PROVE AgentInv'
<1> USE DEF AgentInv, AgentTypeOK, Found, ProcessEnds
<1>1. /\ \A s \in Runs : AgentOf(s)' = AgentOf(s) \ {p}
      /\ \A q \in Pids : q # p => ProcessIdentity(q)' = ProcessIdentity(q)
      /\ BirthsAreUnique' /\ IdentitiesNameAgents'
      /\ processes' \in [Pids -> [birth : Nat, whose : Runs \cup {Stranger}]]
  BY EndKeeps DEF IdentitiesNameAgents
<1>2. \/ socket' = socket
      \/ \E r \in Runs : p \in AgentOf(r) /\ socket' = [socket EXCEPT ![r] = "nothing"]
  BY DEF AgentOf
<1>3. AgentTypeOK' /\ harmed' = {} /\ KeptWhereNeeded'
  BY <1>1, <1>2 DEF KeptWhereNeeded
<1>4. DirectoryIsLeft'
  BY <1>2 DEF DirectoryIsLeft, AgentIsKnown
<1>5. AgentIsKnown'
  <2>1. \A s \in Runs : /\ Claim(s)' = Claim(s) /\ run'[s] = run[s] /\ AgentOf(s)' \subseteq AgentOf(s)
                        /\ \A q \in AgentOf(s)' : ProcessIdentity(q)' = ProcessIdentity(q)
    BY <1>1 DEF Claim, AgentOf
  <2>2. QED
    BY <2>1 DEF AgentIsKnown
<1>6. QED
  BY <1>1, <1>3, <1>4, <1>5

\* Others may change the files, the agents go on.
LEMMA MeddlingKeeps == ASSUME AgentInv, NEW r \in Runs, Meddle(r) PROVE AgentInv'
<1> USE DEF AgentInv, AgentTypeOK, Found, Meddle
<1>1. /\ UNCHANGED <<run, processes, births, held, saved, harmed>> /\ BirthsAreUnique'
      /\ \A s \in Runs : AgentOf(s)' = AgentOf(s)
      /\ \A p : ProcessIdentity(p)' = ProcessIdentity(p)
      /\ IdentitiesNameAgents'
  BY SameProcesses DEF IdentitiesNameAgents
<1>2. AgentTypeOK' /\ DirectoryIsLeft'
  BY <1>1 DEF DirectoryIsLeft
<1>3. AgentIsKnown' /\ KeptWhereNeeded'
  BY <1>1 DEF AgentIsKnown, KeptWhereNeeded, Claim
<1>4. QED
  BY <1>1, <1>2, <1>3

\* What cleanup.json says of a run is all that is needed to close it.
LEMMA RestartKeeps == AgentInv /\ (ApiCrash \/ Reboot) => AgentInv'
<1> SUFFICES ASSUME AgentInv, ApiCrash \/ Reboot PROVE AgentInv'
  OBVIOUS
<1> USE DEF AgentInv, AgentTypeOK, AgentPhases, Found, NoOne, Forgotten, files, ApiCrash, Reboot
<1>1. /\ run' = [r \in Runs |-> IF run[r] \in {"none", "closed"} THEN run[r]
                            ELSE IF saved[r] = NoOne THEN "failed" ELSE "orphaned"]
      /\ held' = [r \in Runs |-> NoOne]
      /\ UNCHANGED <<births, saved, place, socket, crowded, harmed, spared>>
      /\ processes' = processes \/ processes' = [p \in Pids |-> Empty]
  OBVIOUS
<1>2. AgentTypeOK' /\ harmed' = {}
  <2>1. NoOne \in Identities /\ Empty \in [birth : Nat, whose : Runs \cup {Stranger}]
    BY DEF Identities, Empty
  <2>2. processes' \in [Pids -> [birth : Nat, whose : Runs \cup {Stranger}]] /\ held' \in [Runs -> Identities]
    BY <1>1, <2>1
  <2>3. run' \in [Runs -> AgentPhases]
    BY <1>1
  <2>4. QED
    BY <1>1, <2>2, <2>3
<1>3. \A p \in Pids : Lives(p)' => Lives(p) /\ processes'[p] = processes[p]
  BY <1>1 DEF Lives
<1>4. BirthsAreUnique' /\ IdentitiesNameAgents'
  BY <1>1, <1>3 DEF BirthsAreUnique, IdentitiesNameAgents, Names
<1>5. KeptWhereNeeded' /\ DirectoryIsLeft'
  BY <1>1 DEF KeptWhereNeeded, DirectoryIsLeft
<1>6. AgentIsKnown'
  <2>1. \A r \in Runs : /\ AgentOf(r)' \subseteq AgentOf(r)
                        /\ \A p \in AgentOf(r)' : ProcessIdentity(p)' = ProcessIdentity(p)
    BY <1>3 DEF AgentOf, ProcessIdentity
  <2>2. \A r \in Runs : Claim(r)' = saved[r]
    BY <1>1 DEF Claim
  <2>3. ASSUME NEW r \in Runs, run'[r] = "orphaned"
        PROVE  \A p \in AgentOf(r) : saved[r] = ProcessIdentity(p)
    BY <1>1, <2>3 DEF AgentIsKnown, KeptWhereNeeded, Claim
  <2>4. ASSUME NEW r \in Runs PROVE run'[r] \in {"none", "closed", "failed", "orphaned"} /\ run'[r] \in {"none", "closed"} => run[r] = run'[r]
    BY <1>1
  <2>5. QED
    BY <2>1, <2>2, <2>3, <2>4 DEF AgentIsKnown
<1>7. QED
  BY <1>2, <1>4, <1>5, <1>6

-----------------------------------------------------------------------------
(* Theorems.                                                               *)

\* The inductive invariant holds in every reachable state.
THEOREM AgentInvariance == AgentSpec => []AgentInv
<1>1. AgentInit => AgentInv
  <2> SUFFICES ASSUME AgentInit PROVE AgentInv
    OBVIOUS
  <2>1. AgentTypeOK /\ harmed = {}
    <3>1. NoOne \in Identities /\ Empty \in [birth : Nat, whose : Runs \cup {Stranger}]
      BY DEF NoOne, Identities, Empty
    <3>2. QED
      BY <3>1 DEF AgentInit, AgentTypeOK, AgentPhases, Found
  <2>2. \A p \in Pids : ~Lives(p)
    BY DEF AgentInit, Lives
  <2>3. QED
    BY <2>1, <2>2 DEF AgentInit, AgentInv, BirthsAreUnique, IdentitiesNameAgents, Names, KeptWhereNeeded,
                      AgentIsKnown, AgentOf, DirectoryIsLeft
<1>2. AgentInv /\ [AgentNext]_agentVars => AgentInv'
  <2> SUFFICES ASSUME AgentInv, [AgentNext]_agentVars PROVE AgentInv'
    OBVIOUS
  <2>1. ASSUME NEW r \in Runs, Attempts(r) PROVE AgentInv'
    BY <2>1, TaskKeeps, StartAgentKeeps DEF Attempts
  <2>2. ASSUME NEW r \in Runs, Closing(r) PROVE AgentInv'
    BY <2>2, KillKeeps, ClosingKeeps DEF Closing
  <2>3. CASE UNCHANGED agentVars
    <3>1. UNCHANGED <<run, processes, births, held, saved, place, socket, crowded, harmed, spared>>
      BY <2>3 DEF agentVars
    <3>2. BirthsAreUnique' /\ IdentitiesNameAgents' /\ AgentTypeOK' /\ harmed' = {}
      BY <3>1 DEF AgentInv, BirthsAreUnique, IdentitiesNameAgents, Names, Lives, AgentTypeOK
    <3>3. KeptWhereNeeded' /\ AgentIsKnown' /\ DirectoryIsLeft'
      BY <3>1 DEF AgentInv, KeptWhereNeeded, AgentIsKnown, AgentOf, Lives, Claim, ProcessIdentity, DirectoryIsLeft
    <3>4. QED
      BY <3>2, <3>3 DEF AgentInv
  <2>4. QED
    BY <2>1, <2>2, <2>3, StrangerKeeps, EndedKeeps, MeddlingKeeps, RestartKeeps DEF AgentNext
<1>3. QED
  BY <1>1, <1>2, PTL DEF AgentSpec

\* Whoever closes an agent, with the handle or with cleanup.json, how often and
\* after how many restarts, kills no other process and removes no file of
\* others, and leaves neither the agent nor its directory (ssh_agent.close,
\* attempt_cleanup).
THEOREM AgentsAreOwnedHolds == AgentSpec => []AgentsAreOwned
<1>1. AgentInv => AgentsAreOwned
  BY DEF AgentInv, AgentsAreOwned, AgentIsKnown, DirectoryIsLeft
<1>2. QED
  BY <1>1, AgentInvariance, PTL
==============================================================================
