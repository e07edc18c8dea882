----------------------- MODULE MCVulnerabilityMetrics -----------------------
(***************************************************************************)
(* One Trivy report and two manifests, with two contents each, of          *)
(* different images and with several vulnerabilities.  The controllers     *)
(* publish two and three of their five and six severities.                 *)
(***************************************************************************)
EXTENDS VulnerabilityMetrics

CONSTANTS n1, n2, n3, cve1, cve2, i1, i2

MCNames == {n1, n2, n3}
Apart == [k \in Scanners |-> IF k = "trivy" THEN {n1} ELSE {n2, n3}]
Shared == [k \in Scanners |-> {n1}]

MCSeverities ==
  [k \in Scanners |-> IF k = "trivy" THEN {"HIGH", "UNKNOWN"}
                                     ELSE {"HIGH", "NEGLIGIBLE", "UNKNOWN"}]

Entry(v, s) == [version |-> v, score |-> s]
Vuln(i, s, cvss) == [id |-> i, severity |-> s, cvss |-> cvss]

TrivyReports ==
  { [image |-> i1, counts |-> [HIGH |-> 1, UNKNOWN |-> 0],
     vulns |-> <<Vuln(cve1, "HIGH", <<Entry(31, 8)>>)>>],
    [image |-> i2, counts |-> [HIGH |-> 1, UNKNOWN |-> 1],
     vulns |-> <<Vuln(cve1, "UNKNOWN", << >>), Vuln(cve1, "HIGH", <<Entry(31, 7)>>)>>] }

\* NONE is not among the severities of the controller.
Manifests ==
  { [image |-> i1, vulns |-> <<Vuln(cve1, "NONE", <<Entry(20, 5), Entry(31, 9), Entry(40, 6)>>),
                               Vuln(cve2, "HIGH", <<Entry(0, 4), Entry(20, 3), Entry(30, 2)>>)>>],
    [image |-> i2, vulns |-> <<Vuln(cve2, "NEGLIGIBLE", << >>),
                               Vuln(cve1, "HIGH", <<Entry(30, 7), Entry(30, 1)>>),
                               Vuln(cve2, "HIGH", <<Entry(0, 8)>>)>>] }

MCContents == [k \in Scanners |-> IF k = "trivy" THEN TrivyReports ELSE Manifests]

\* The flag: not given, labels that leave the report name or the image out,
\* repetitions, and an item that is not known.
MCFlags ==
  { Unset, <<"image", "vulnerability_id">>, <<"vulnerability_id", "image", "vulnerability_id">>,
    <<"report_name", "severity">>, <<"severity", "all", "image">>, <<"image", "tag">> }
OneFlag == {<<"image", "vulnerability_id">>}

=============================================================================
