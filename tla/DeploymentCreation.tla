------------------------- MODULE DeploymentCreation -------------------------
(***************************************************************************)
(* Creation of deployments that race for one codename and label, which     *)
(* name both the row and the workspace directory.  A request checks for a  *)
(* clash, creates or reuses the directory, with the credentials of the     *)
(* installation's template unless it brings its own, reserves the name by  *)
(* a flush, writes the vault password it was given and commits.  Requests  *)
(* fail at every step, writes are cut short, and the process stops.        *)
(***************************************************************************)
EXTENDS Naturals, FiniteSets

CONSTANTS
  Creates,      \* requests
  Template      \* RANGE42_WORKSPACE_TEMPLATE_DIR is configured

VARIABLES
  create,       \* the requests
  row,          \* the committed row: the request that made it
  password,     \* secrets/vault_pass.txt
  vault,        \* an encrypted vault of the template is in the workspace
  stopped       \* bound: the process has stopped once

creationVars == <<create, row, password, vault, stopped>>

Brings == {"nothing", "keys", "password"}  \* payload.secrets, native files, vault_password
NoRow == "none"
NoFile == "none"
Broken == "broken"
ASSUME CreatesAssumption == Creates \cap {NoRow, NoFile, Broken, "template", "operator"} = {}

Ready == [step |-> "ready", brings |-> "nothing", prior |-> NoFile, applied |-> FALSE]

CreationInit ==
  /\ create \in [Creates -> {[Ready EXCEPT !.brings = b] : b \in Brings}]
  /\ row = NoRow
  /\ password \in {NoFile, "operator"}   \* an operator may have seeded it
  /\ vault = FALSE
  /\ stopped = FALSE

Steps(c, step) == create' = [create EXCEPT ![c].step = step]
Fails(c) == Steps(c, "ended")

\* SQLite has one writer: from the flush to the commit or the rollback.
Writing(c) == create[c].step \in {"flushed", "seeded"}
NoWriter == \A c \in Creates : ~Writing(c)

-----------------------------------------------------------------------------
\* The check for a clash, and those of the references and the checkout.
Check(c) ==
  /\ create[c].step = "ready"
  /\ Steps(c, IF row = NoRow THEN "checked" ELSE "ended")
  /\ UNCHANGED <<row, password, vault, stopped>>

\* Workspace.create.  The template is copied whole, into a workspace without
\* credentials and for a request without secrets of its own; what a failed
\* copy had made is removed again.
Inherits(q) == Template /\ q.brings = "nothing" /\ password = NoFile /\ ~vault

Scaffold(c) ==
  /\ create[c].step = "checked"
  /\ \/ /\ Steps(c, "scaffolded")
        /\ vault' = (vault \/ Inherits(create[c]))
        /\ password' = IF Inherits(create[c]) THEN "template" ELSE password
     \/ Fails(c) /\ UNCHANGED <<password, vault>>
  /\ UNCHANGED <<row, stopped>>

\* The flush reserves the name.  When it does not, or has waited too long for
\* another writer, the workspace stays.
Flush(c) ==
  /\ create[c].step = "scaffolded"
  /\ Steps(c, IF row = NoRow /\ NoWriter THEN "flushed" ELSE "ended")
  /\ UNCHANGED <<row, password, vault, stopped>>

\* The reservation cannot be bound: the transaction is rolled back.
BindFails(c) ==
  /\ create[c].step = "flushed"
  /\ Fails(c)
  /\ UNCHANGED <<row, password, vault, stopped>>

\* vault_seed; without a password in the payload the file is left alone.
Seed(c) ==
  /\ create[c].step = "flushed"
  /\ IF create[c].brings = "password"
     THEN /\ password' = c
          /\ create' = [create EXCEPT ![c] = [@ EXCEPT !.step = "seeded", !.prior = password, !.applied = TRUE]]
     ELSE Steps(c, "seeded") /\ UNCHANGED password
  /\ UNCHANGED <<row, vault, stopped>>

\* The file was made or cut to nothing, or not touched yet: applied is not
\* set, and the revert does nothing.
SeedFails(c) ==
  /\ create[c].step = "flushed" /\ create[c].brings = "password"
  /\ password' \in {password, Broken}
  /\ Fails(c)
  /\ UNCHANGED <<row, vault, stopped>>

Commit(c) ==
  /\ create[c].step = "seeded"
  /\ row' = c
  /\ Steps(c, "created")
  /\ UNCHANGED <<password, vault, stopped>>

\* Fault: a failed create leaves the password it wrote.
RevertedNever(q) == password

\* The file gets its previous contents back, or is removed.
Reverted(q) == IF q.applied THEN q.prior ELSE password

CommitFails(c) ==
  /\ create[c].step = "seeded"
  /\ password' = Reverted(create[c])
  /\ Fails(c)
  /\ UNCHANGED <<row, vault, stopped>>

\* The transaction is gone with the process, the files are not.
ProcessIsKilled ==
  /\ ~stopped
  /\ stopped' = TRUE
  /\ create' = [c \in Creates |-> IF create[c].step \in {"ready", "created"} THEN create[c]
                                  ELSE [create[c] EXCEPT !.step = "ended"]]
  /\ UNCHANGED <<row, password, vault>>

CreationNext ==
  \/ \E c \in Creates : \/ Check(c) \/ Scaffold(c) \/ Flush(c) \/ BindFails(c) \/ Seed(c)
                        \/ SeedFails(c) \/ Commit(c) \/ CommitFails(c)
  \/ ProcessIsKilled

CreationSpec == CreationInit /\ [][CreationNext]_creationVars

-----------------------------------------------------------------------------
(* Properties.                                                             *)

\* The deployment has the password it was created with, whatever the requests
\* that lost the name or failed have done to the shared workspace; a create
\* that is rolled back without a kill of the process leaves no password of
\* its own behind.
CreationHolds ==
  /\ row # NoRow /\ create[row].brings = "password" => password = row
  /\ \A c \in Creates : create[c].step = "ended" /\ password = c => stopped
=============================================================================
