----------------------------- MODULE MCEventLog -----------------------------
\* Instances of EventLog for TLC: attempts are interchangeable.
EXTENDS EventLog, TLC

Symmetry == Permutations(Att)
=============================================================================
