----------------------------- MODULE AuditTrail -----------------------------
(***************************************************************************)
(* The authentication middleware and the audit of mutations: a request is  *)
(* identified, its route is looked up, the intent of a mutation is made    *)
(* durable, the handler runs, and the intent is finished when the response *)
(* starts.  The audit storage fails, handlers fail before and after their  *)
(* effect, and the process stops between any two steps.                    *)
(***************************************************************************)
EXTENDS Naturals, FiniteSets

CONSTANTS
  Calls,         \* HTTP requests
  Routes,        \* bound: the routes that are called: mutations and reads
  AuditEnabled   \* named principals or the audit are configured

VARIABLES
  call,      \* the requests in the process
  records,   \* AuditRecord: [Calls -> row or NoRecord]
  effects    \* effects of handlers: who had which route executed, in which role

auditVars == <<call, records, effects>>

Roles == {"admin", "operator", "viewer", "unknown"}
NoRecord == [role |-> "none", route |-> "none", state |-> "none"]
Gone == [step |-> "gone", role |-> "unknown", route |-> "none", intent |-> FALSE]

\* A route is a read of viewers or of operators, a write of operators, or
\* reserved to administrators; reads are not audited.
Reads == {"viewer_read", "operator_read", "admin_read"}
Allowed(role, route) ==
  \/ role = "admin"
  \/ route = "viewer_read"
  \/ role = "operator" /\ route \in {"operator_read", "operator_write"}

AuditInit ==
  /\ call = [c \in Calls |-> Gone]
  /\ records = [c \in Calls |-> NoRecord]
  /\ effects = {}

Turns(c, step) == call' = [call EXCEPT ![c].step = step]
Departs(c) == call' = [call EXCEPT ![c] = [Gone EXCEPT !.step = "answered"]]

\* Without a valid token the request is answered with 401, before the audit.
Identify(c) ==
  /\ call[c].step = "gone"
  /\ \E role \in Roles, route \in Routes :
       call' = [call EXCEPT ![c] = IF role = "unknown" THEN [Gone EXCEPT !.step = "answered"]
                  ELSE [step |-> "identified", role |-> role, route |-> route, intent |-> FALSE]]
  /\ UNCHANGED <<records, effects>>

IsAudited(q) == AuditEnabled /\ q.route \notin Reads

Turned(q) == IF Allowed(q.role, q.route) THEN "permitted" ELSE "denied"

\* Fault: the handler does not wait for the storage.
BeginWithoutWaiting(c) ==
  LET q == call[c] IN
  /\ q.step = "identified" /\ IsAudited(q)
  /\ records' \in {records, [records EXCEPT ![c] = [role |-> q.role, route |-> q.route, state |-> "started"]]}
  /\ call' = [call EXCEPT ![c] = [q EXCEPT !.step = Turned(q), !.intent = TRUE]]
  /\ UNCHANGED effects

\* begin_record; 503 if the storage does not take it.
BeginRecord(c) ==
  LET q == call[c] IN
  /\ q.step = "identified" /\ IsAudited(q)
  /\ \/ /\ records' = [records EXCEPT ![c] = [role |-> q.role, route |-> q.route, state |-> "started"]]
        /\ call' = [call EXCEPT ![c] = [q EXCEPT !.step = Turned(q), !.intent = TRUE]]
     \/ Departs(c) /\ UNCHANGED records
  /\ UNCHANGED effects

NotAudited(c) ==
  /\ call[c].step = "identified" /\ ~IsAudited(call[c])
  /\ Turns(c, Turned(call[c]))
  /\ UNCHANGED <<records, effects>>

\* The handler takes effect, or refuses without one.
Handle(c) ==
  LET q == call[c] IN
  /\ q.step = "permitted"
  /\ effects' \in {effects, effects \cup {[by |-> c, role |-> q.role, route |-> q.route]}}
  /\ Turns(c, "handled")
  /\ UNCHANGED records

\* finish_record when the response starts; if that fails the result is
\* delivered nevertheless, and marked unconfirmed.
ResponseStarts(c) ==
  LET q == call[c] IN
  /\ q.step \in {"handled", "denied"}
  /\ records' \in {records, IF q.intent THEN [records EXCEPT ![c].state =
                       IF q.step = "denied" THEN "denied" ELSE "completed"] ELSE records}
  /\ Departs(c)
  /\ UNCHANGED effects

\* A handler that raises has no response of its own: the error response of
\* the outer middleware does not pass the audit.
HandlerRaises(c) ==
  /\ call[c].step = "handled"
  /\ Departs(c)
  /\ UNCHANGED <<records, effects>>

ProcessStops ==
  /\ \E c \in Calls : call[c].step \notin {"gone", "answered"}
  /\ call' = [c \in Calls |-> IF call[c].step = "gone" THEN Gone ELSE [Gone EXCEPT !.step = "answered"]]
  /\ UNCHANGED <<records, effects>>

AuditNext ==
  \/ \E c \in Calls : Identify(c) \/ BeginRecord(c) \/ NotAudited(c) \/ Handle(c)
                      \/ ResponseStarts(c) \/ HandlerRaises(c)
  \/ ProcessStops

AuditSpec == AuditInit /\ [][AuditNext]_auditVars

-----------------------------------------------------------------------------
(* Properties.                                                             *)

\* Every mutation that took effect has a durable record with its actor and
\* its route; a record says denied only of a request that had no effect, and
\* completed only of one whose role may call the route.
AuditCovers ==
  /\ AuditEnabled => \A e \in effects : e.route \notin Reads =>
       records[e.by].role = e.role /\ records[e.by].route = e.route /\ records[e.by].state # "denied"
  /\ \A c \in Calls : records[c].state = "completed" => Allowed(records[c].role, records[c].route)
  /\ \A c \in Calls : records[c].state = "denied" => \A e \in effects : e.by # c
=============================================================================
