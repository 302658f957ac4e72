---------------------------- MODULE NativeJournal ----------------------------
(***************************************************************************)
(* What the journal of native writes promises: every write goes out at     *)
(* most once, and a verdict that is written down is true.  "never" may     *)
(* only be said of a write that did not go out, and ends the possibility;  *)
(* "ok" and "failed" only of one that did.  An open verdict may stay open. *)
(***************************************************************************)
EXTENDS Naturals

CONSTANT Writes

VARIABLES
  sent,     \* how many times a write went out
  verdict   \* what is recorded of it

Verdicts == {"open", "never", "ok", "failed"}

JournalInit ==
  /\ sent = [w \in Writes |-> 0]
  /\ verdict = [w \in Writes |-> "open"]

Send(w) ==
  /\ sent[w] = 0
  /\ verdict[w] = "open"
  /\ sent' = [sent EXCEPT ![w] = 1]
  /\ UNCHANGED verdict

\* A verdict that may replace an open one.
Justified(w, v) ==
  \/ v = "never" /\ sent[w] = 0
  \/ v \in {"ok", "failed"} /\ sent[w] = 1

Conclude ==
  /\ verdict' \in [Writes -> Verdicts]
  /\ \A w \in Writes : verdict'[w] # verdict[w] =>
       verdict[w] = "open" /\ Justified(w, verdict'[w])
  /\ UNCHANGED sent

JournalNext == Conclude \/ \E w \in Writes : Send(w)

JournalSpec == JournalInit /\ [][JournalNext]_<<sent, verdict>>
=============================================================================
