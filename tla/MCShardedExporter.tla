-------------------------- MODULE MCShardedExporter --------------------------
(***************************************************************************)
(* Two exporter pods for TLC.  With both ready the ring gives report r1 to *)
(* p2 and, where there is one, r2 to p1, so that the owner of each changes *)
(* when the other pod comes or goes.                                       *)
(***************************************************************************)
EXTENDS ShardedExporter

CONSTANTS p1, p2, r1, r2

MCPods == {p1, p2}

MCLocate ==
  [S \in (SUBSET Pods) \ {{}} |->
    [r \in Reports |-> IF S = Pods THEN IF r = r1 THEN p2 ELSE p1
                                   ELSE CHOOSE p \in S : TRUE]]

\* A report may be missing, be new to the exporter, or come from an earlier
\* release: that has left the finalizer and no map of labels.
AnyFound ==
  {Absent, [Absent EXCEPT !.spec = 1],
   [Absent EXCEPT !.spec = 1, !.label = NilLabels, !.finalizer = TRUE]}

LegacyFound == {[Absent EXCEPT !.spec = 1, !.finalizer = TRUE]}

\* One report of a single kind.
OneReport == {r1}
TrivyKind == [r \in Reports |-> "trivy"]
TwoVersions == [r \in Reports |-> 2]
ThreeVersions == [r \in Reports |-> 3]

\* A Trivy report and a manifest, of which each behaviour has one: reports of
\* different kinds meet only in the order of the shutdown hook.
TwoReports == {r1, r2}
BothKinds == [r \in Reports |-> IF r = r1 THEN "trivy" ELSE "kubescape"]
FewerOfManifests == [r \in Reports |-> IF Manifest(r) THEN 3 ELSE 4]

NeverExisted(r) == log[r] = <<Absent>> /\ \A p \in Pods : seen[p][r] = 0

OneAtATime == \E r \in Reports : NeverExisted(r)

=============================================================================
