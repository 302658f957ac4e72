------------------------------ MODULE SshAgent ------------------------------
(***************************************************************************)
(* The ssh-agent an attempt starts for its runner: a process that outlives *)
(* the API, and a directory with a socket in the deployment's workspace.   *)
(* The handle in memory and cleanup.json on disk name the process by its   *)
(* identity and the directory and the socket by their inodes, so that      *)
(* whoever closes the agent, perhaps after a restart, touches nothing else.*)
(*                                                                         *)
(* Two system calls in a row that look at a file and remove it are one     *)
(* step, and a new process takes no PID the API has yet to identify.  What *)
(* replaces a file leaves the original on disk: no inode is used again.    *)
(***************************************************************************)
EXTENDS Naturals, FiniteSets

CONSTANTS Runs,        \* attempts of different deployments, one host
          Pids,        \* process numbers the host hands out, again and again
          Stranger,    \* a program that is nobody's agent
          MaxBirths,   \* processes ever started
          MaxMeddling  \* changes to the files by others

ASSUME StrangerAssumption == Stranger \notin Runs

VARIABLES
  run,      \* how far the attempt's task, or its closing, has got
  processes,  \* what runs under a PID: its start time and whose it is
  births,   \* the next start time
  held,     \* identity in the handle of a task, gone with the API process
  saved,    \* identity in cleanup.json
  place,       \* what is found under the name of the run's directory
  socket,   \* what is found under the socket's name in the run's directory
  crowded,  \* runs whose directory holds files of others
  meddling, \* changes to the files so far
  harmed,   \* runs whose closing killed or removed what is not theirs (history)
  spared    \* runs whose closing found no identity, or a stranger under it (history)

agentVars == <<run, processes, births, held, saved, place, socket, crowded, meddling, harmed, spared>>
files == <<place, socket, crowded, meddling>>

Empty == [birth |-> 0, whose |-> Stranger]
NoOne == [pid |-> 0, birth |-> 0]

AgentInit ==
  /\ run = [r \in Runs |-> "none"]
  /\ processes = [p \in Pids |-> Empty] /\ births = 1
  /\ held = [r \in Runs |-> NoOne] /\ saved = [r \in Runs |-> NoOne]
  /\ place = [r \in Runs |-> "nothing"] /\ socket = [r \in Runs |-> "nothing"]
  /\ crowded = {} /\ meddling = 0 /\ harmed = {} /\ spared = {}

-----------------------------------------------------------------------------
(* Processes.                                                              *)

Lives(p) == p \in Pids /\ processes[p] # Empty
AgentOf(r) == {p \in Pids : Lives(p) /\ processes[p].whose = r}

\* Fault: the PID is taken for the process.
IdentityByNumber(p) == IF Lives(p) THEN [pid |-> p, birth |-> 1] ELSE NoOne

\* _process_identity: a PID alone may have been given to another process.
ProcessIdentity(p) == IF Lives(p) THEN [pid |-> p, birth |-> processes[p].birth] ELSE NoOne

Start(p, who) ==
  /\ ~Lives(p) /\ births <= MaxBirths
  /\ processes' = [processes EXCEPT ![p] = [birth |-> births, whose |-> who]]
  /\ births' = births + 1

-----------------------------------------------------------------------------
(* An attempt until its runner has been launched.                          *)

RunGoes(r, from, to) == run[r] = from /\ run' = [run EXCEPT ![r] = to]

MakeDirectory(r) ==
  /\ RunGoes(r, "none", "directory")
  /\ place' = [place EXCEPT ![r] = "own"]
  /\ UNCHANGED <<processes, births, held, saved, socket, crowded, meddling, harmed, spared>>

\* The path is too long for a socket, or ssh-agent does not start.
StartFails(r) ==
  /\ RunGoes(r, "directory", "failed")
  /\ place' = [place EXCEPT ![r] = "nothing"]
  /\ UNCHANGED <<processes, births, held, saved, socket, crowded, meddling, harmed, spared>>

StartAgent(r) ==
  /\ RunGoes(r, "directory", "started")
  /\ \E p \in Pids : Start(p, r)
  /\ socket' = [socket EXCEPT ![r] = "own"]
  /\ UNCHANGED <<held, saved, place, crowded, meddling, harmed, spared>>

\* The handle takes the identity, then the inodes; without a socket it raises.
IdentifyAgent(r) ==
  /\ run[r] = "started"
  /\ IF socket[r] = "own"
     THEN /\ RunGoes(r, "started", "held")
          /\ held' = [held EXCEPT ![r] = IF AgentOf(r) = {} THEN NoOne
                                         ELSE ProcessIdentity(CHOOSE p \in AgentOf(r) : TRUE)]
     ELSE RunGoes(r, "started", "failed") /\ UNCHANGED held
  /\ UNCHANGED <<processes, births, saved, files, harmed, spared>>

\* A key that is refused is skipped; an exception leaves without the handle.
LoadKeys(r) ==
  /\ \/ RunGoes(r, "held", "loaded") /\ UNCHANGED held
     \/ RunGoes(r, "held", "failed") /\ held' = [held EXCEPT ![r] = NoOne]
  /\ UNCHANGED <<processes, births, saved, files, harmed, spared>>

\* record_attempt_cleanup before the launch.
Record(r) ==
  /\ RunGoes(r, "loaded", "running")
  /\ saved' = [saved EXCEPT ![r] = held[r]]
  /\ UNCHANGED <<processes, births, held, files, harmed, spared>>

\* cleanup() of the task: the record failed, or the runner is known to be gone.
TaskEnds(r) ==
  /\ RunGoes(r, "loaded", "kill") \/ RunGoes(r, "running", "kill")
  /\ UNCHANGED <<processes, births, held, saved, files, harmed, spared>>

\* The API process is gone: only what is in cleanup.json is still known.
Forgotten ==
  /\ run' = [r \in Runs |-> IF run[r] \in {"none", "closed"} THEN run[r]
                            ELSE IF saved[r] = NoOne THEN "failed" ELSE "orphaned"]
  /\ held' = [r \in Runs |-> NoOne]
  /\ UNCHANGED <<births, saved, files, harmed, spared>>

ApiCrash == Forgotten /\ UNCHANGED processes
Reboot == Forgotten /\ processes' = [p \in Pids |-> Empty]

\* The recovery pass finds that the runner is gone.
RecoverRun(r) ==
  /\ RunGoes(r, "orphaned", "kill")
  /\ UNCHANGED <<processes, births, held, saved, files, harmed, spared>>

-----------------------------------------------------------------------------
(* Closing: once with the handle, once more with what cleanup.json says.   *)

Claim(r) == IF held[r] # NoOne THEN held[r] ELSE saved[r]
Harm(r, what) == harmed' = IF what THEN harmed \cup {r} ELSE harmed

\* signal_process_identity: the PID is pinned before it is compared.
Kill(r) ==
  /\ run[r] = "kill" /\ Claim(r) # NoOne
  /\ LET p == Claim(r).pid IN
       /\ ProcessIdentity(p) = Claim(r)
       /\ processes' = [processes EXCEPT ![p] = Empty]
       /\ Harm(r, processes[p].whose # r)
  /\ RunGoes(r, "kill", "open")
  /\ UNCHANGED <<births, held, saved, files, spared>>

\* The agent has gone; but a live process under its PID keeps the socket.
AlreadyGone(r) ==
  /\ run[r] = "kill" /\ (Claim(r) = NoOne \/ ProcessIdentity(Claim(r).pid) # Claim(r))
  /\ IF Claim(r) # NoOne /\ ProcessIdentity(Claim(r).pid) = NoOne
     THEN RunGoes(r, "kill", "open") /\ UNCHANGED spared
     ELSE RunGoes(r, "kill", "passed") /\ spared' = spared \cup {r}
  /\ UNCHANGED <<processes, births, held, saved, files, harmed>>

OpenDirectory(r) ==
  /\ RunGoes(r, "open", IF place[r] = "own" THEN "unlink" ELSE "passed")
  /\ UNCHANGED <<processes, births, held, saved, files, harmed, spared>>

\* Fault: any socket in the directory is taken for the agent's.
RemovableByName(r) == socket[r] # "nothing"

\* In the directory that was opened, whatever has become of its name.
Removable(r) == socket[r] = "own"

UnlinkSocket(r) ==
  /\ RunGoes(r, "unlink", IF socket[r] = "nothing" \/ Removable(r) THEN "rmdir" ELSE "passed")
  /\ socket' = IF Removable(r) THEN [socket EXCEPT ![r] = "nothing"] ELSE socket
  /\ Harm(r, Removable(r) /\ socket[r] # "own")
  /\ UNCHANGED <<processes, births, held, saved, place, crowded, meddling, spared>>

\* Only if the name still leads to it, and only if it is empty.
RemoveDirectory(r) ==
  /\ RunGoes(r, "rmdir", "passed")
  /\ place' = IF place[r] = "own" /\ socket[r] = "nothing" /\ r \notin crowded
           THEN [place EXCEPT ![r] = "nothing"] ELSE place
  /\ UNCHANGED <<processes, births, held, saved, socket, crowded, meddling, harmed, spared>>

\* close() is followed by a pass over cleanup.json, which is then unlinked.
ClosePass(r) ==
  /\ run[r] = "passed"
  /\ IF held[r] # NoOne
     THEN RunGoes(r, "passed", "kill") /\ held' = [held EXCEPT ![r] = NoOne] /\ UNCHANGED saved
     ELSE RunGoes(r, "passed", "closed") /\ saved' = [saved EXCEPT ![r] = NoOne] /\ UNCHANGED held
  /\ UNCHANGED <<processes, births, files, harmed, spared>>

-----------------------------------------------------------------------------
(* The host around it.                                                     *)

ProcessStarts == /\ \E p \in Pids : Start(p, Stranger)
                 /\ UNCHANGED <<run, held, saved, files, harmed, spared>>

\* An agent that ends by itself removes its socket, a killed one does not.
ProcessEnds(p) ==
  /\ Lives(p)
  /\ processes' = [processes EXCEPT ![p] = Empty]
  /\ \/ UNCHANGED socket
     \/ /\ processes[p].whose \in Runs /\ place[processes[p].whose] = "own"
        /\ socket' = [socket EXCEPT ![processes[p].whose] = "nothing"]
  /\ UNCHANGED <<run, births, held, saved, place, crowded, meddling, harmed, spared>>

Meddle(r) ==
  /\ held[r] # NoOne \/ saved[r] # NoOne
  /\ meddling < MaxMeddling /\ meddling' = meddling + 1
  /\ \/ place' = [place EXCEPT ![r] = "other"] /\ UNCHANGED <<socket, crowded>>
     \/ socket' = [socket EXCEPT ![r] = "other"] /\ UNCHANGED <<place, crowded>>
     \/ crowded' = crowded \cup {r} /\ UNCHANGED <<place, socket>>
  /\ UNCHANGED <<run, processes, births, held, saved, harmed, spared>>
-----------------------------------------------------------------------------
Attempts(r) ==
  \/ MakeDirectory(r) \/ StartFails(r) \/ StartAgent(r) \/ IdentifyAgent(r) \/ LoadKeys(r)
  \/ Record(r) \/ TaskEnds(r) \/ RecoverRun(r)
Closing(r) ==
  Kill(r) \/ AlreadyGone(r) \/ OpenDirectory(r) \/ UnlinkSocket(r) \/ RemoveDirectory(r) \/ ClosePass(r)

AgentNext ==
  \/ \E r \in Runs : Attempts(r) \/ Closing(r) \/ Meddle(r)
  \/ ProcessStarts \/ \E p \in Pids : ProcessEnds(p)
  \/ ApiCrash \/ Reboot

AgentSpec == AgentInit /\ [][AgentNext]_agentVars

-----------------------------------------------------------------------------
\* Closing an agent, twice and by whoever does it, kills and removes nothing
\* of others, be it under a PID or a name that was the agent's; and once it is
\* over the agent is gone, and its directory unless others use it by now or
\* the process could not be told.  What an API process that ends before
\* cleanup.json is written has started stays ("failed").
AgentsAreOwned ==
  /\ harmed = {}
  /\ \A r \in Runs : run[r] = "closed" =>
       /\ AgentOf(r) = {}
       /\ place[r] = "own" => socket[r] = "other" \/ r \in crowded \cup spared
=============================================================================
