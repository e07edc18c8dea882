--------------------------- MODULE MCConfigAudits ---------------------------
(***************************************************************************)
(* Config audit reports for TLC.  A requeue duration of five ticks makes a *)
(* tick a minute; the last backoff is longer than it, as 1000 seconds are. *)
(***************************************************************************)
EXTENDS ConfigAudits, TLC

CONSTANTS n1, n2

TwoNames == {n1, n2}
Alike == Permutations(TwoNames)

FewCounts == {[s \in Severities |-> IF s = "HIGH" THEN 2 ELSE 0],
              [s \in Severities |-> IF s = "LOW" THEN 1 ELSE 0]}

\* No jitter, some, and more than the duration itself.
Percents == {0, 40, 120}

Backoffs == <<0, 2, 7>>

=============================================================================
