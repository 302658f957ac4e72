---------------------------- MODULE RuntimeVault ----------------------------
(***************************************************************************)
(* secrets/default_vault.yml of one workspace.  Bundles load it always; an *)
(* attempt that finds none creates an empty placeholder, remembers its     *)
(* inode in memory and in cleanup.json, and removes it again if the inode  *)
(* and the content are still the same.  The file system gives the inode of *)
(* a removed file to the next one.  Users add, edit and remove vaults at   *)
(* any time, never one with the content of a placeholder.                  *)
(***************************************************************************)
CONSTANTS Att, Null, Inodes

ASSUME NullAssumption == Null \notin Att \cup Inodes /\ "absent" \notin Inodes

VARIABLES
  vault,     \* the file: inode, who wrote it first, whether a user's content
  lock,      \* the attempt that has the workspace
  phase,     \* progress of an attempt
  handle,    \* RuntimeVaultPlaceholder in memory: an inode or Null
  record,    \* cleanup.json: "absent", or the inode or Null that it names
  armed      \* attempts that have written cleanup.json

vars == <<vault, lock, phase, handle, record, armed>>

NoVault == [inode |-> Null, by |-> Null, edited |-> FALSE]
Vaults == [inode : Inodes, by : Att \cup {"user"}, edited : BOOLEAN]

\* "lost": no API process works on it, and its runner, if any, has exited.
Phases == {"none", "holding", "prepared", "recorded", "running", "orphan", "lost",
           "failing", "cleaned", "released", "done"}

TypeOK ==
  /\ vault \in Vaults \cup {NoVault}
  /\ lock \in Att \cup {Null}
  /\ phase \in [Att -> Phases]
  /\ handle \in [Att -> Inodes \cup {Null}]
  /\ record \in [Att -> Inodes \cup {Null, "absent"}]
  /\ armed \subseteq Att

Init ==
  /\ vault = NoVault /\ lock = Null
  /\ phase = [a \in Att |-> "none"]
  /\ handle = [a \in Att |-> Null]
  /\ record = [a \in Att |-> "absent"]
  /\ armed = {}

Go(a, next) == phase' = [phase EXCEPT ![a] = next]

-----------------------------------------------------------------------------
(* The attempt.                                                            *)

AcquireLock(a) ==
  /\ lock = Null /\ phase[a] = "none"
  /\ lock' = a
  /\ Go(a, "holding")
  /\ UNCHANGED <<vault, handle, record, armed>>

\* prepare_runtime_vault: O_EXCL creates the placeholder, or finds a file.
Prepare(a) ==
  /\ phase[a] = "holding"
  /\ IF vault = NoVault
     THEN \E i \in Inodes : /\ vault' = [inode |-> i, by |-> a, edited |-> FALSE]
                            /\ handle' = [handle EXCEPT ![a] = i]
     ELSE UNCHANGED <<vault, handle>>
  /\ Go(a, "prepared")
  /\ UNCHANGED <<lock, record, armed>>

\* record_attempt_cleanup, before the launch.
RecordCleanup(a) ==
  /\ phase[a] = "prepared"
  /\ record' = [record EXCEPT ![a] = handle[a]]
  /\ armed' = armed \cup {a}
  /\ Go(a, "recorded")
  /\ UNCHANGED <<vault, lock, handle>>

Launch(a) ==
  /\ phase[a] = "recorded"
  /\ Go(a, "running")
  /\ UNCHANGED <<vault, lock, handle, record, armed>>

\* Fault: the inode alone decides.
IsPlaceholderByInode(i) == i # Null /\ vault.inode = i

\* cleanup_runtime_vault: same device and inode, and still "{}".
IsPlaceholder(i) == i # Null /\ vault.inode = i /\ ~vault.edited

\* cleanup(): what memory knows, then what cleanup.json names, which goes too.
\* A fault reads only the memory.
CleanInMemory(a) ==
  /\ vault' = IF IsPlaceholder(handle[a]) THEN NoVault ELSE vault
  /\ record' = [record EXCEPT ![a] = "absent"]

Clean(a) ==
  /\ vault' = IF IsPlaceholder(handle[a]) \/ (record[a] # "absent" /\ IsPlaceholder(record[a]))
              THEN NoVault ELSE vault
  /\ record' = [record EXCEPT ![a] = "absent"]

\* Setup fails before the process exists.
SetupFails(a) ==
  /\ phase[a] \in {"holding", "prepared", "recorded"}
  /\ Clean(a)
  /\ Go(a, "failing")
  /\ UNCHANGED <<lock, handle, armed>>

\* The observer has seen the runner exit.
ObserveExit(a) ==
  /\ phase[a] = "running"
  /\ Clean(a)
  /\ Go(a, "cleaned")
  /\ UNCHANGED <<lock, handle, armed>>

\* After a crash the recovery pass has only cleanup.json.
Recover(a) ==
  /\ phase[a] \in {"orphan", "lost"}
  /\ Clean(a)
  /\ Go(a, "failing")
  /\ UNCHANGED <<lock, handle, armed>>

\* finish_attempt releases the lock; an observer cleans up once more.
Finish(a) ==
  /\ phase[a] \in {"failing", "cleaned"}
  /\ lock' = Null
  /\ Go(a, IF phase[a] = "cleaned" THEN "released" ELSE "done")
  /\ UNCHANGED <<vault, handle, record, armed>>

CleanAgain(a) ==
  /\ phase[a] = "released"
  /\ Clean(a)
  /\ Go(a, "done")
  /\ UNCHANGED <<lock, handle, armed>>

-----------------------------------------------------------------------------
(* The user and the API process.                                           *)

\* A vault moved into place has an inode of its own.
UserPlaces ==
  /\ \E i \in Inodes \ {vault.inode} : vault' = [inode |-> i, by |-> "user", edited |-> TRUE]
  /\ UNCHANGED <<lock, phase, handle, record, armed>>

UserEdits ==
  /\ vault # NoVault /\ ~vault.edited
  /\ vault' = [inode |-> vault.inode, by |-> vault.by, edited |-> TRUE]
  /\ UNCHANGED <<lock, phase, handle, record, armed>>

UserRemoves ==
  /\ vault # NoVault
  /\ vault' = NoVault
  /\ UNCHANGED <<lock, phase, handle, record, armed>>

User == UserPlaces \/ UserEdits \/ UserRemoves

\* A hard crash: memory is lost, a runner works on.
AfterCrash(p) ==
  CASE p \in {"holding", "prepared", "recorded", "failing", "cleaned"} -> "lost"
    [] p = "running" -> "orphan"
    [] p = "released" -> "done"
    [] OTHER -> p

Crash ==
  /\ phase' = [a \in Att |-> AfterCrash(phase[a])]
  /\ handle' = [a \in Att |-> Null]
  /\ UNCHANGED <<vault, lock, record, armed>>

Attempt(a) ==
  \/ AcquireLock(a) \/ Prepare(a) \/ RecordCleanup(a) \/ Launch(a) \/ SetupFails(a)
  \/ ObserveExit(a) \/ Recover(a) \/ Finish(a) \/ CleanAgain(a)

Next == (\E a \in Att : Attempt(a)) \/ User \/ Crash

Spec == Init /\ [][Next]_vars

-----------------------------------------------------------------------------
(* Properties.                                                             *)

\* A vault that holds a user's content is touched by the user alone: neither
\* setup nor any cleanup, late or after a crash, replaces or removes it.
UserVaultKept == [][vault.edited /\ vault' # vault => User]_vars

\* A finished attempt whose ownership was recorded leaves no placeholder: the
\* next one would take it for a configured vault.
NoLeftover ==
  \A a \in armed : phase[a] \in {"released", "done"} /\ vault.by = a => vault.edited

\* What NoLeftover rests on: memory, then the record, name the placeholder
\* until the attempt has cleaned up.
Placeholder(a) == vault.by = a /\ ~vault.edited
Owned ==
  /\ \A a \in armed : phase[a] \notin {"none", "holding", "prepared"}
  /\ \A a \in Att : Placeholder(a) =>
       /\ phase[a] \notin {"none", "holding"}
       /\ phase[a] = "prepared" => handle[a] = vault.inode
       /\ a \in armed => /\ record[a] = vault.inode
                         /\ phase[a] \notin {"failing", "cleaned", "released", "done"}

\* "cleanup removes only the unchanged file created by this attempt, before
\* releasing the workspace lock."
Removed(a) == vault.by = a /\ vault' = NoVault /\ ~User
RemovedByOwner == [][\A a \in Att : Removed(a) => lock = a /\ phase'[a] # phase[a]]_vars
=============================================================================
