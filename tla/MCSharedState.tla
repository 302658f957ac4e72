---------------------------- MODULE MCSharedState ----------------------------
(***************************************************************************)
(* The parts whose state several processes share - files, processes and    *)
(* locks of the host, rows, caches of API workers - in one run.  They have *)
(* no variable in common: a behaviour is one of one part, chosen at its    *)
(* start, while the others stay where they are.                            *)
(***************************************************************************)
EXTENDS RuntimeVault, SshAgent, AllocationLedger, MaintenanceGate, CatalogCache, AuditTrail, TLC

CONSTANTS Parts, p1, p2, d1, d2
VARIABLE part

sharedVars == <<part, vars, agentVars, ledgerVars, gateVars, cacheVars, auditVars>>

SharedInit ==
  /\ part \in Parts
  /\ Init /\ AgentInit /\ GateInit /\ CatalogInit /\ AuditInit
  /\ LedgerInit /\ (part # "ledger" => present = CHOOSE population \in Populations : TRUE)

\* Everything but the chosen part stays as it is.
Others(p) ==
  /\ part = p /\ UNCHANGED part
  /\ IF p = "vault" THEN TRUE ELSE UNCHANGED vars
  /\ IF p = "agent" THEN TRUE ELSE UNCHANGED agentVars
  /\ IF p = "ledger" THEN TRUE ELSE UNCHANGED ledgerVars
  /\ IF p = "gate" THEN TRUE ELSE UNCHANGED gateVars
  /\ IF p = "catalog" THEN TRUE ELSE UNCHANGED cacheVars
  /\ IF p = "audit" THEN TRUE ELSE UNCHANGED auditVars

VaultPart == part = "vault" /\ Next /\ Others("vault")
AgentPart == part = "agent" /\ AgentNext /\ Others("agent")
LedgerPart == part = "ledger" /\ LedgerNext /\ Others("ledger")
GatePart == part = "gate" /\ GateNext /\ Others("gate")
CatalogPart == part = "catalog" /\ CatalogNext /\ Others("catalog")
AuditPart == part = "audit" /\ AuditNext /\ Others("audit")

SharedNext == VaultPart \/ AgentPart \/ LedgerPart \/ GatePart \/ CatalogPart \/ AuditPart

SharedSpec == SharedInit /\ [][SharedNext]_sharedVars

\* The ledger: two authors and a deployment, or one author and two.
MCPopulations == {{p1, p2, d1}, {p1, d1, d2}}

\* Workers, runs and identifiers are interchangeable: no definition names one.
MCSymmetry == Permutations(Workers) \cup Permutations(Runs) \cup Permutations(Vmids)
=============================================================================
