--------------------------- MODULE PreflightChecks ---------------------------
(***************************************************************************)
(* The checks of a preflight that need no pinned scenario: each asks one   *)
(* thing, of the request or of a service that may change or fail between   *)
(* two of them.  The route runs a fixed list for an installed scenario; a  *)
(* topology may declare a list of names, run on whatever part of their     *)
(* arguments the caller has in its context.                                *)
(***************************************************************************)
EXTENDS ScenarioReview, Sequences, SequencesExt, TLC

CONSTANTS
  Situations, \* bound: requests and states of the services at the start
  Outages,    \* what a service turns to: records of fields and new values
  Contexts,   \* bound: the arguments a caller has
  NameLists,  \* bound: the declared lists
  MaxTurns    \* bound: changes of the services during a preflight

VARIABLES
  situation, \* the request and the services
  preflight  \* the checks to run and the verdicts so far
preflightVars == <<situation, preflight>>

-----------------------------------------------------------------------------
(* The checks.  An answer is "ok", "missing" (404), "denied" (401, 403),   *)
(* "broken" (500 and above) or "down" (no answer).                         *)

CheckPlaybook(s) == {IF s.playbook THEN "pass" ELSE "block"}

CheckVmids(s) ==
  {IF ToSet(s.requested) \cap s.reserved # {} \/ ~IsInjective(s.requested) THEN "block" ELSE "pass"}

CheckBudget(s) ==
  {IF s.total = 0 \/ s.required * 10 > s.total * 11 THEN "block"
   ELSE IF s.required * 10 > s.total * 9 THEN "warn" ELSE "pass"}

CheckApi(s) == {IF s.api = "ok" THEN "pass" ELSE "block"}

\* Existing bridges are not SDN networks: only a warning.
CheckBridge(s) == {IF s.sdn = "ok" /\ s.bridge THEN "pass" ELSE "warn"}

CheckSecrets(s) ==
  {IF \E e \in s.env : e.secret /\ e.required /\ e.name \notin s.provided THEN "block" ELSE "pass"}

\* Only a registry that fails blocks; the pull itself is left to the runner.
CheckImages(s) ==
  {IF \E i \in DOMAIN s.images : s.images[i] \in {"down", "broken"} THEN "block" ELSE "pass"}

CheckGit(s) ==
  {CASE s.git \in {"down", "denied"} -> "block" [] s.git = "broken" -> "warn" [] OTHER -> "pass"}

\* One attachment; kinds that are not known are not looked at.
Attachment(s, a, given) ==
  CASE a.kind \in {"file_upload", "inline_yaml"} -> IF a.there THEN {} ELSE {"block"}
    [] a.kind = "external_git" ->
         IF "registered_source_base_urls" \in given /\ a.there THEN {} ELSE {"block"}
    [] a.kind \in {"catalog_role", "catalog_container"} ->
         IF ~s.catalog THEN {"warn"} ELSE IF a.there THEN {} ELSE {"block"}
    [] OTHER -> {}
OrPass(failures) == IF failures = {} THEN {"pass"} ELSE failures
CheckAssets(s, given) == OrPass(UNION {Attachment(s, a, given) : a \in s.attachments})

CheckRoles(s) ==
  OrPass(IF \E n \in s.nodes : n.kind \in {"vm", "lxc"} /\ ~n.role THEN {"block"} ELSE {})

-----------------------------------------------------------------------------
(* Declared lists.                                                         *)

\* The arguments without which a check raises.
Arguments ==
  [connectivity |-> {"api_url", "token_ref"}, vmids |-> {"requested", "host_overrides"},
   assets |-> {"project_dir", "catalog_dir", "topology"}, node_role |-> {"topology"},
   secrets |-> {"env", "provided"}, git |-> {"repo_url"}, images |-> {"images"},
   bridge |-> {"api_url", "token_ref", "bridge"}, budget |-> {"total_ram_mb_required", "host_total_ram_mb"}]

Verdicts(name, s, given) ==
  CASE name = "connectivity" -> CheckApi(s)
    [] name = "vmids" -> CheckVmids(s)
    [] name = "assets" -> CheckAssets(s, given)
    [] name = "node_role" -> CheckRoles(s)
    [] name = "secrets" -> CheckSecrets(s)
    [] name = "git" -> CheckGit(s)
    [] name = "images" -> CheckImages(s)
    [] name = "bridge" -> CheckBridge(s)
    [] name = "budget" -> CheckBudget(s)

\* Fault: a check that could not be run has found nothing.
RunNamedOrSkip(name, s, given) ==
  IF name \notin DOMAIN Arguments THEN {"warn"}
  ELSE IF ~(Arguments[name] \subseteq given) THEN {} ELSE Verdicts(name, s, given)

\* A name nobody knows, or a check that raises, is a warning.
RunNamed(name, s, given) ==
  IF name \notin DOMAIN Arguments \/ ~(Arguments[name] \subseteq given) THEN {"warn"}
  ELSE Verdicts(name, s, given)

-----------------------------------------------------------------------------
Answers == {"ok", "missing", "denied", "broken", "down"}
AttachmentKinds == {"file_upload", "inline_yaml", "external_git", "catalog_role", "catalog_container", "unknown"}
RequestFields ==
  {"playbook", "requested", "reserved", "required", "total", "env", "provided", "nodes", "attachments", "catalog"}
ServiceFields == {"api", "sdn", "bridge", "images", "git"}

\* A request and the services it meets; what may turn are the services.
ASSUME PreflightAssumption ==
  /\ \A s \in Situations :
       /\ DOMAIN s = RequestFields \cup ServiceFields
       /\ s.required \in Nat /\ s.total \in Nat
       /\ \A a \in s.attachments : a.kind \in AttachmentKinds
  /\ \A s \in Situations \cup Outages :
       /\ "git" \in DOMAIN s => s.git \in Answers
       /\ "images" \in DOMAIN s => \A i \in DOMAIN s.images : s.images[i] \in Answers
  /\ \A o \in Outages : DOMAIN o \subseteq ServiceFields
  /\ NameLists \subseteq Seq(STRING)

-----------------------------------------------------------------------------
(* A preflight: one check per step.                                        *)

NoPreflight == [kind |-> "none", names |-> <<>>, given |-> {}, checks |-> {}, ran |-> <<>>, turns |-> 0]

PreflightInit == situation \in Situations /\ preflight = NoPreflight

BeginDeclared ==
  /\ preflight.kind = "none"
  /\ \E names \in NameLists, given \in Contexts :
       preflight' = [preflight EXCEPT !.kind = "declared", !.names = names, !.given = given]
  /\ UNCHANGED situation

\* An installed scenario brings no identifiers, requirements or secrets.
BeginInstalled ==
  /\ preflight.kind = "none"
  /\ preflight' = [preflight EXCEPT !.kind = "installed", !.names = <<"connectivity">>,
                     !.given = Arguments["connectivity"], !.checks = CheckPlaybook(situation)]
  /\ UNCHANGED situation

\* _universal is retired; nothing else is asked.
BeginRetired ==
  /\ preflight.kind = "none"
  /\ preflight' = [preflight EXCEPT !.kind = "retired", !.checks = {"block"}]
  /\ UNCHANGED situation

RunNext ==
  /\ preflight.names # <<>>
  /\ LET name == Head(preflight.names) IN
       preflight' = [preflight EXCEPT !.names = Tail(@),
                       !.checks = @ \cup RunNamed(name, situation, preflight.given),
                       !.ran = Append(@, [name |-> name, at |-> situation])]
  /\ UNCHANGED situation

Turned(s, o) == [f \in DOMAIN s |-> IF f \in DOMAIN o THEN o[f] ELSE s[f]]
ServicesTurn ==
  /\ preflight.names # <<>> /\ preflight.turns < MaxTurns
  /\ \E o \in Outages : situation' = Turned(situation, o) /\ situation' # situation
  /\ preflight' = [preflight EXCEPT !.turns = @ + 1]

PreflightNext == BeginDeclared \/ BeginInstalled \/ BeginRetired \/ RunNext \/ ServicesTurn

PreflightSpec == PreflightInit /\ [][PreflightNext]_preflightVars

-----------------------------------------------------------------------------
(* What is looked for, and what a check must not overlook.                 *)

Fine(name, s) ==
  CASE name = "connectivity" -> s.api = "ok"
    [] name = "vmids" -> \A i, j \in DOMAIN s.requested :
         s.requested[i] \notin s.reserved /\ (i # j => s.requested[i] # s.requested[j])
    [] name = "assets" -> \A a \in s.attachments : a.kind # "unknown" => a.there
    [] name = "node_role" -> \A n \in s.nodes : n.kind = "vm" => n.role
    [] name = "secrets" -> {e.name : e \in {f \in s.env : f.secret /\ f.required}} \subseteq s.provided
    [] name = "git" -> s.git \in {"ok", "missing"}
    [] name = "images" -> \A i \in DOMAIN s.images : s.images[i] \in {"ok", "missing", "denied"}
    [] name = "bridge" -> s.bridge
    [] name = "budget" -> s.required < s.total

\* A report passes only if everything it was asked for was known, was run on
\* all its arguments and was fine when it was asked, in whatever order and
\* whatever changed in between; identifiers that are protected, a target that
\* does not answer and attachments that are missing block it, and no later
\* check makes that good.
ReportsAreEarned ==
  preflight.kind # "none" /\ preflight.names = <<>> =>
    LET result == Worst(preflight.checks) IN
    /\ result = "pass" =>
         /\ preflight.kind # "retired" /\ (preflight.kind = "installed" => situation.playbook)
         /\ \A i \in DOMAIN preflight.ran :
              LET r == preflight.ran[i] IN
              r.name \in DOMAIN Arguments /\ Arguments[r.name] \subseteq preflight.given /\ Fine(r.name, r.at)
    /\ (\E i \in DOMAIN preflight.ran :
          LET r == preflight.ran[i] IN
          r.name \in {"connectivity", "vmids", "assets"} /\ Arguments[r.name] \subseteq preflight.given
          /\ ~Fine(r.name, r.at) /\ (r.name = "assets" => r.at.catalog)) => result = "block"

\* Both kinds of preflight: what the checks of a pinned scenario let through
\* (check_scenario_networks, check_scenario_resources), and what the others do.
ReviewsAreSound == ReviewIsSafe /\ ReportsAreEarned
=============================================================================
