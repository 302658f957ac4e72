--------------------------- MODULE RuntimeReadings ---------------------------
(***************************************************************************)
(* What runtime operations are planned on: answers of a cluster that are   *)
(* collected one by one while others change it, any of which may fail.     *)
(*                                                                         *)
(*   "status"     guests and networks of the deployment, for everybody     *)
(*   "lifecycle"  everything a declared VNet is shared with, for a plan    *)
(*                that creates or deletes it                               *)
(*   "references" all places that may name a datacenter alias, for a plan  *)
(*                that renames or deletes it                               *)
(*                                                                         *)
(* One guest of the deployment and one of somebody else, one declared VNet.*)
(* An API token is told only of the guests it may see; its permissions do  *)
(* not change during a reading.  Shapes and bounds of an answer are not    *)
(* told apart from a request that fails.                                   *)
(***************************************************************************)
EXTENDS Naturals, FiniteSets, Sequences

CONSTANTS Clusters,   \* the cluster when a reading begins
          GuestForms, \* what a guest may be changed to
          VnetForms,  \* what the VNet may be changed to
          MaxShifts   \* changes during one reading

\* What these may be: an absent guest has no card.
FormsOfGuests == {f \in [kind : {"absent", "own", "stray", "renamed"}, nic : {"none", "open", "filtered"}, firewall : BOOLEAN] :
                    f.kind = "absent" => f.nic = "none"}
FormsOfVnets == [marked : BOOLEAN, same : BOOLEAN, active : BOOLEAN]
ASSUME FormsAssumption == GuestForms \subseteq FormsOfGuests /\ VnetForms \subseteq FormsOfVnets

VARIABLES
  cluster,  \* the cluster
  reading,  \* the kind of reading, what has been asked so far
  seen,     \* the answers
  past      \* the cluster's states since the reading began (history)

readingVars == <<cluster, reading, seen, past>>

ReadGuests == {"ours", "other"}
Places == {"rules", "node rules", "group rules", "ours rules", "other rules"}
Absent == [kind |-> "absent", nic |-> "none", firewall |-> FALSE]
Holds(c, g) == c.guest[g].kind # "absent"

ClusterStates == [guest : [ReadGuests -> FormsOfGuests], visible : SUBSET ReadGuests, switch : BOOLEAN,
                  pending : BOOLEAN, vnet : FormsOfVnets, alone : BOOLEAN, overlap : BOOLEAN, refs : SUBSET Places]
ASSUME ClustersAssumption == Clusters \subseteq ClusterStates

-----------------------------------------------------------------------------
(* Requests and answers.                                                   *)

Order ==
  [status |-> <<"switch", "inventory", "vacancy", "ours", "options", "sdn", "pending", "active">>,
   lifecycle |-> <<"permissions", "nodes", "sdn", "pending", "interfaces", "inventory", "ours", "other">>,
   references |-> <<"rules", "permissions", "inventory", "node rules", "ours rules", "other rules", "group rules">>]

\* Guests as /cluster/resources lists them: with name, node and type only.
Listed(c) == {[guest |-> g, named |-> c.guest[g].kind # "renamed"] : g \in {h \in c.visible : Holds(c, h)}}

AnswerTo(r, c) ==
  CASE r = "switch" -> c.switch
    [] r = "inventory" -> Listed(c)
    [] r = "vacancy" -> ~Holds(c, "ours")
    [] r \in ReadGuests -> c.guest[r]
    [] r = "options" -> c.guest["ours"].firewall
    [] r = "sdn" -> [vnet |-> c.vnet, pending |-> c.pending]
    [] r = "pending" -> c.pending
    [] r = "active" -> c.vnet.active
    [] r = "permissions" -> c.visible = ReadGuests
    [] r = "nodes" -> c.alone
    [] r = "interfaces" -> c.overlap
    [] r \in Places -> r \in c.refs

\* Requests that name a guest fail once it is gone.
Refuses(r, c) ==
  \/ r \in {"ours", "options", "ours rules"} /\ ~Holds(c, "ours")
  \/ r \in {"other", "other rules"} /\ ~Holds(c, "other")

Asked == {reading.asked[i] : i \in DOMAIN reading.asked}
HasAnswered(r) == r \in DOMAIN seen
Failed(r) == r \in Asked \ DOMAIN seen
Lists(g) == HasAnswered("inventory") /\ \E row \in seen["inventory"] : row.guest = g
Named(g) == Lists(g) /\ [guest |-> g, named |-> TRUE] \in seen["inventory"]

\* Pending rows in the lists end the search for others; what the search for
\* others cannot read ends the reading of networks.
Needed(r) ==
  LET status == reading.kind = "status" IN
  CASE r = "vacancy" -> HasAnswered("inventory") /\ ~Lists("ours")
    [] r = "ours" -> IF status THEN Named("ours") ELSE Lists("ours")
    [] r = "options" -> HasAnswered("ours") /\ seen["ours"].kind = "own"
    [] r = "other" -> Lists("other")
    [] r = "pending" -> HasAnswered("sdn") /\ ~seen["sdn"].pending
    [] r = "active" -> HasAnswered("sdn") /\ ~Failed("pending")
    [] r = "ours rules" -> Lists("ours")
    [] r = "other rules" -> Lists("other")
    [] OTHER -> TRUE

\* A plan is refused at the first answer that is missing or speaks against it.
Stops ==
  CASE reading.kind = "status" -> FALSE
    [] reading.kind = "lifecycle" ->
         \/ \E r \in Asked : Failed(r)
         \/ HasAnswered("permissions") /\ ~seen["permissions"]
         \/ HasAnswered("nodes") /\ ~seen["nodes"]
         \/ HasAnswered("sdn") /\ seen["sdn"].pending
         \/ HasAnswered("pending") /\ seen["pending"]
    [] reading.kind = "references" ->
         \/ \E r \in Asked : Failed(r)
         \/ HasAnswered("permissions") /\ ~seen["permissions"]

Todo == LET order == Order[reading.kind] IN
        {i \in 1..Len(order) : order[i] \notin Asked /\ Needed(order[i])}
Complete == reading.kind # "none" /\ (Stops \/ Todo = {})

-----------------------------------------------------------------------------
(* The result of a status reading.                                         *)

\* Fault: a guest that the token's list leaves out is taken for absent.
StatusByList ==
  IF Failed("inventory") \/ Failed("ours") \/ Failed("options") THEN "unavailable"
  ELSE IF HasAnswered("inventory") /\ ~Lists("ours") THEN "missing"
  ELSE IF ~Named("ours") \/ seen["ours"].kind # "own" THEN "conflict" ELSE "owned"

\* Absence is believed only when the number is free.
GuestStatus ==
  CASE Failed("inventory") -> "unavailable"
    [] HasAnswered("inventory") /\ ~Lists("ours") ->
         IF HasAnswered("vacancy") /\ seen["vacancy"] THEN "missing" ELSE "unavailable"
    [] Lists("ours") /\ ~Named("ours") -> "conflict"
    [] Named("ours") ->
         IF Failed("ours") \/ Failed("options") THEN "unavailable"
         ELSE IF seen["ours"].kind # "own" THEN "conflict" ELSE "owned"

\* filtering_configured: unknown unless every switch on the way is known.
Filtering ==
  IF GuestStatus # "owned" \/ Failed("switch") THEN "unknown"
  ELSE IF seen["switch"] /\ seen["options"] /\ seen["ours"].nic = "filtered" THEN "yes" ELSE "no"

SdnPending ==
  IF Failed("sdn") \/ Failed("pending") \/ Failed("active") THEN "unknown"
  ELSE IF seen["sdn"].pending \/ (HasAnswered("pending") /\ seen["pending"]) THEN "yes" ELSE "no"

\* report_from_state withholds both as soon as one answer is missing.
VnetIdentity == IF SdnPending # "no" THEN "unknown" ELSE IF seen["sdn"].vnet.same THEN "yes" ELSE "no"
VnetActive == IF SdnPending # "no" THEN "unknown" ELSE IF seen["active"] THEN "yes" ELSE "no"

-----------------------------------------------------------------------------
(* The results of the other two.                                           *)

LifecycleAvailable == reading.kind = "lifecycle" /\ Complete /\ ~Stops
Attachments == {g \in ReadGuests : HasAnswered(g) /\ seen[g].nic # "none"}
Clashes == seen["interfaces"]
Deletable == LifecycleAvailable /\ seen["sdn"].vnet.marked /\ seen["sdn"].vnet.same /\ Attachments = {} /\ ~Clashes

Unreferenced == reading.kind = "references" /\ Complete /\ ~Stops
                /\ \A p \in Places : HasAnswered(p) => ~seen[p]

-----------------------------------------------------------------------------
NoReading == [kind |-> "none", asked |-> <<>>, shifts |-> 0]

ReadingInit ==
  /\ cluster \in Clusters
  /\ reading = NoReading /\ seen = <<>> /\ past = {}

Begin(k) ==
  /\ reading.kind = "none"
  /\ reading' = [reading EXCEPT !.kind = k]
  /\ past' = {cluster}
  /\ UNCHANGED <<cluster, seen>>

\* read_proxmox_data: an answer of the expected shape, or an error.
AskCluster ==
  /\ reading.kind # "none" /\ ~Complete
  /\ LET r == Order[reading.kind][CHOOSE i \in Todo : \A j \in Todo : i <= j] IN
       /\ reading' = [reading EXCEPT !.asked = Append(@, r)]
       /\ \/ ~Refuses(r, cluster) /\ seen' = [q \in DOMAIN seen \cup {r} |-> IF q = r THEN AnswerTo(r, cluster) ELSE seen[q]]
          \/ UNCHANGED seen
  /\ UNCHANGED <<cluster, past>>

Shifted(c) ==
  CASE reading.kind = "status" ->
         {[c EXCEPT !.guest["ours"] = g] : g \in GuestForms} \cup {[c EXCEPT !.switch = ~@], [c EXCEPT !.pending = ~@]}
         \cup {[c EXCEPT !.vnet = v] : v \in VnetForms}
    [] reading.kind = "lifecycle" ->
         {[c EXCEPT !.guest[h] = g] : h \in ReadGuests, g \in GuestForms} \cup {[c EXCEPT !.pending = ~@]}
         \cup {[c EXCEPT !.overlap = ~@]} \cup {[c EXCEPT !.vnet = v] : v \in VnetForms}
    [] reading.kind = "references" ->
         {[c EXCEPT !.refs = (@ \ {p}) \cup ({p} \ @)] : p \in Places} \cup
         {[c EXCEPT !.guest[h] = g] : h \in ReadGuests, g \in GuestForms}

Shift ==
  /\ reading.kind # "none" /\ ~Complete /\ reading.shifts < MaxShifts
  /\ cluster' \in Shifted(cluster) \ {cluster}
  /\ reading' = [reading EXCEPT !.shifts = @ + 1]
  /\ past' = past \cup {cluster'}
  /\ UNCHANGED seen

ReadingNext == (\E k \in DOMAIN Order : Begin(k)) \/ AskCluster \/ Shift

ReadingSpec == ReadingInit /\ [][ReadingNext]_readingVars

-----------------------------------------------------------------------------
\* However the cluster moves while it is read: a guest is reported owned,
\* missing or in conflict, a switch on and nothing pending, only if that was
\* so at some moment of the reading.
HonestStatus ==
  reading.kind = "status" /\ Complete =>
    /\ GuestStatus = "owned" => \E c \in past : c.guest["ours"].kind = "own"
    /\ GuestStatus = "missing" => \E c \in past : ~Holds(c, "ours")
    /\ GuestStatus = "conflict" => \E c \in past : c.guest["ours"].kind \in {"stray", "renamed"}
    /\ Filtering = "yes" => (\E c \in past : c.switch) /\ \E c \in past : c.guest["ours"].nic = "filtered"
    /\ SdnPending = "no" => \E c \in past : ~c.pending
    /\ VnetIdentity = "yes" => \E c \in past : c.vnet.same
    /\ VnetActive = "yes" => \E c \in past : c.vnet.active

\* A lifecycle reading that is available misses no guest that is attached all
\* the while, and no overlap; an alias that is named somewhere all the while
\* is not taken for unused.  (A place of a guest goes with the guest.)
Throughout(g) == \A c \in past : Holds(c, g)
CompleteReadings ==
  /\ LifecycleAvailable =>
       /\ \A g \in ReadGuests : (\A c \in past : c.guest[g].nic # "none") => g \in Attachments
       /\ (\A c \in past : c.overlap) => Clashes
       /\ \E c \in past : c.alone /\ ~c.pending
  /\ Deletable => \E c \in past : c.vnet.marked /\ c.vnet.same
  /\ Unreferenced => \A p \in Places :
       (p = "ours rules" => Throughout("ours")) /\ (p = "other rules" => Throughout("other"))
       => \E c \in past : p \notin c.refs

\* The two together: what runtime_state, runtime_networks and
\* runtime_firewall report and plan on is never torn into a claim about the
\* cluster that was not true of it.
ReadingsAreHonest == HonestStatus /\ CompleteReadings
=============================================================================
