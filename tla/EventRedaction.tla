--------------------------- MODULE EventRedaction ---------------------------
(***************************************************************************)
(* What of a runner's raw event reaches the event log: the translation of  *)
(* an Ansible event, three layers of redaction in a fixed order, and the   *)
(* cut of long texts, with the secrets known when the attempt began.       *)
(* Credentials may be replaced while it runs and the API restarted: who    *)
(* watches it then takes the secrets from redaction.json.                  *)
(*                                                                         *)
(* A text is a sequence of characters, 0 stands for the mark [REDACTED].   *)
(* Of a result, values under a denied and a plain key are modelled; the    *)
(* forms of a secret that JSON escapes are not told apart from it.         *)
(***************************************************************************)
EXTENDS Naturals, Sequences, SequencesExt, FiniteSets

CONSTANTS
  Credentials, \* the secrets of a target, one set after the other
  RawEvents,   \* bound: what a runner emits, by index of the set in force
  MaxText      \* 4096 in the code

VARIABLES
  current, \* which set of credentials the database holds
  context, \* redaction.json of the attempt: the set it was started with, 0 before
  known,   \* the set the watcher redacts with, 0 while nobody watches
  shown,   \* the last event written to the log
  audited  \* layers and fields the audit records for it

redactionVars == <<current, context, known, shown, audited>>

Mark == <<0>>
ResultKeys == {"password", "stdout"}
Denied == {"password"}

-----------------------------------------------------------------------------
(* _translate.                                                             *)

\* Of an unreachable host only a diagnosis is kept, never the message.
Translate(raw) ==
  CASE raw.event \in {"runner_on_ok", "runner_on_failed", "runner_on_skipped"} ->
         [type |-> "task_end", text |-> <<>>, res |-> raw.res]
    [] raw.event = "runner_on_unreachable" -> [type |-> "host_unreachable", text |-> <<>>, res |-> <<>>]
    [] OTHER -> [type |-> "log_line", text |-> raw.stdout, res |-> <<>>]

-----------------------------------------------------------------------------
(* The layers.  A value is a text, a value resolved from the vault, a      *)
(* text that starts with !vault, or an env record.                         *)

Redacted(v) == [v EXCEPT !.s = Mark]

\* By the name of the key, whatever the value; secret env records by theirs.
DenylistHides(k, v) == (v.kind = "text" /\ k \in Denied) \/ (v.kind = "inline" /\ k \in Denied)
                       \/ (v.kind = "env" /\ v.secret)
DenylistLayer(ev) == [ev EXCEPT !.res = [k \in DOMAIN @ |-> IF DenylistHides(k, @[k]) THEN Redacted(@[k]) ELSE @[k]]]

VaultHides(v) == v.kind \in {"vault", "inline"} /\ v.s # Mark
VaultLayer(ev) == [ev EXCEPT !.res = [k \in DOMAIN @ |-> IF VaultHides(@[k]) THEN Redacted(@[k]) ELSE @[k]]]

Occurs(text, needle, i) ==
  i + Len(needle) - 1 <= Len(text) /\ \A j \in 1..Len(needle) : text[i + j - 1] = needle[j]

\* str.replace: from the left, not overlapping; next is the position to go on from.
Replace(text, needle) ==
  LET scan[i \in 0..Len(text)] ==
        IF i = 0 THEN [out |-> <<>>, next |-> 1]
        ELSE IF i < scan[i - 1].next THEN scan[i - 1]
        ELSE IF Occurs(text, needle, i) THEN [out |-> Append(scan[i - 1].out, 0), next |-> i + Len(needle)]
        ELSE [out |-> Append(scan[i - 1].out, text[i]), next |-> i + 1] IN scan[Len(text)].out

\* A longer secret before one that is part of it; those of one length in any order.
Needles(secrets) ==
  {order \in [1..Cardinality(secrets) -> secrets] :
     ToSet(order) = secrets /\ \A i, j \in DOMAIN order : i < j => Len(order[i]) >= Len(order[j])}

Untainted(text, needles) ==
  LET after[i \in 0..Len(needles)] == IF i = 0 THEN text ELSE Replace(after[i - 1], needles[i]) IN after[Len(needles)]
TaintedLayer(ev, needles) ==
  [ev EXCEPT !.text = Untainted(@, needles),
             !.res = [k \in DOMAIN ev.res |-> [ev.res[k] EXCEPT !.s = Untainted(@, needles)]]]

\* Layers never stop one another; each leaves a row for each field it changed.
ChangedFields(layer, before, after) ==
  {<<layer, k>> : k \in {j \in DOMAIN before.res : before.res[j] # after.res[j]}}
  \cup IF before.text # after.text THEN {<<layer, "text">>} ELSE {}

Cut(text) == SubSeq(text, 1, IF Len(text) < MaxText THEN Len(text) ELSE MaxText)

-----------------------------------------------------------------------------
(* What a runner emits.  A letter of a secret is one of no other text, and *)
(* stands in a secret that was emitted as a whole; two secrets in a text   *)
(* are apart, or one is part of the other.                                 *)

PlainTexts == Seq(Nat \ {0})
Values == [kind : {"text", "vault", "inline"}, s : PlainTexts] \cup [kind : {"env"}, s : PlainTexts, secret : BOOLEAN]

LettersOf(secrets) == UNION {ToSet(s) : s \in secrets}
Covered(text, letters, secrets) == \A p \in DOMAIN text : text[p] \in letters =>
  \E s \in secrets, a \in 1..p : Occurs(text, s, a) /\ p < a + Len(s)
Nested(a, s, b, t) == a <= b /\ b + Len(t) <= a + Len(s)
Apart(a, s, b) == a + Len(s) <= b
Laminar(text, secrets) == \A s, t \in secrets, a, b \in DOMAIN text :
  Occurs(text, s, a) /\ Occurs(text, t, b) =>
    Nested(a, s, b, t) \/ Nested(b, t, a, s) \/ Apart(a, s, b) \/ Apart(b, t, a)

Texts(ev) == {ev.text} \cup {ev.res[k].s : k \in DOMAIN ev.res}
Emits(raw, secrets) ==
  /\ \E keys \in SUBSET ResultKeys : raw.res \in [keys -> Values]
  /\ \A text \in {raw.stdout} \cup {raw.res[k].s : k \in DOMAIN raw.res} :
       text \in PlainTexts /\ Covered(text, LettersOf(secrets), secrets) /\ Laminar(text, secrets)

ASSUME CredentialsAssumption ==
  /\ Credentials \in Seq(SUBSET (PlainTexts \ {<<>>})) /\ Credentials # <<>>
  /\ \A c \in DOMAIN Credentials : IsFiniteSet(Credentials[c])
ASSUME RawAssumption ==
  \A c \in DOMAIN Credentials : \A raw \in RawEvents[c] : Emits(raw, Credentials[c])
ASSUME MaxTextAssumption == MaxText \in Nat

-----------------------------------------------------------------------------
Nothing == [type |-> "none", text |-> <<>>, res |-> <<>>]

RedactionInit == current = 1 /\ context = 0 /\ known = 0 /\ shown = Nothing /\ audited = {}

\* The context is on disk before the runner starts.
StartWatched ==
  /\ context = 0 /\ context' = current /\ known' = current
  /\ UNCHANGED <<current, shown, audited>>

Rotate ==
  /\ current < Len(Credentials) /\ current' = current + 1
  /\ UNCHANGED <<context, known, shown, audited>>

Restart == known # 0 /\ known' = 0 /\ UNCHANGED <<current, context, shown, audited>>

\* Fault: the secrets are read from the database again.
RecoveredFromDatabase == current

\* Nobody copies events without redaction.json.
RecoveredContext == context
RecoverWatcher ==
  /\ known = 0 /\ context # 0 /\ known' = RecoveredContext
  /\ UNCHANGED <<current, context, shown, audited>>

\* The runner works with what it was started with.
WriteEvent ==
  /\ known # 0
  /\ \E raw \in RawEvents[context], needles \in Needles(Credentials[known]) :
       LET translated == Translate(raw)
           denied == DenylistLayer(translated)
           vaulted == VaultLayer(denied)
           clean == TaintedLayer(vaulted, needles) IN
       /\ shown' = IF clean.type = "log_line" THEN [clean EXCEPT !.text = Cut(@)] ELSE clean
       /\ audited' = ChangedFields("config_denylist", translated, denied) \cup ChangedFields("vault_tagged", denied, vaulted)
                     \cup ChangedFields("tainted_string", vaulted, clean)
  /\ UNCHANGED <<current, context, known>>

RedactionNext == StartWatched \/ Rotate \/ Restart \/ RecoverWatcher \/ WriteEvent

RedactionSpec == RedactionInit /\ [][RedactionNext]_redactionVars

-----------------------------------------------------------------------------
Letters == LettersOf(Credentials[IF context = 0 THEN 1 ELSE context])

\* Whatever is rotated or restarted while a runner works: no character of the
\* secrets it was started with is left in the log, not of one that contains
\* another nor of one that a cut would have left half (secrets that overlap
\* each other in part are left out); nothing under a denied key, of a vault or
\* of a secret variable is left; and what was hidden is audited by field.
NothingSecretIsShown ==
  /\ \A text \in Texts(shown) : ToSet(text) \cap Letters = {} /\ (shown.type = "log_line" => Len(text) <= MaxText)
  /\ \A k \in DOMAIN shown.res :
       /\ shown.res[k].kind = "text" /\ k \in Denied => shown.res[k].s = Mark
       /\ shown.res[k].kind \in {"vault", "inline"} => shown.res[k].s = Mark
       /\ shown.res[k].kind = "env" /\ shown.res[k].secret => shown.res[k].s = Mark
       /\ 0 \in ToSet(shown.res[k].s) => \E row \in audited : row[2] = k
=============================================================================
