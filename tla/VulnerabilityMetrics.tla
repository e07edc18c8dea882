------------------------ MODULE VulnerabilityMetrics ------------------------
(***************************************************************************)
(* The series of one exporter pod for Trivy reports and Kubescape          *)
(* manifests (controllers/vulnerabilityreport).                            *)
(*                                                                         *)
(* Two controllers share two gauge vectors, of which the first Reconcile   *)
(* of either makes and registers the one for details.  A Reconcile deletes *)
(* every series with the name of its report, first from the summary vector *)
(* and then from the detail vector, and if the report is the pod's it sets *)
(* a summary series per severity and a detail series per vulnerability,    *)
(* one by one.  The labels of the detail series are chosen on the command  *)
(* line.                                                                   *)
(***************************************************************************)
EXTENDS Naturals, Sequences, FiniteSets, SequencesExt

CONSTANTS
  Names,       \* namespaced names of reports
  NamesOf,     \* the names that the reports of each scanner may have
  Severities,  \* the severities that each controller publishes
  Contents,    \* what a report may hold
  Flags,       \* values of --target-labels: sequences of items, or Unset
  Unset,       \* the flag is not given
  None,        \* no report
  MaxChanges   \* bound: number of reports written or deleted

Scanners == {"trivy", "kubescape"}

\* "image" stands for the labels that name the image and its namespace.
ReportLabels == {"scanner", "report_name", "image"}
VulnerabilityLabels == {"severity", "vulnerability_id"}

MetricLabels == <<"scanner", "report_name", "image", "severity", "vulnerability_id">>

ASSUME NamesAssumption == NamesOf \in [Scanners -> SUBSET Names]
\* The items of the flag are labels, all of them, or anything else.
Items == ToSet(MetricLabels) \cup {"all"} \cup STRING

ASSUME FlagsAssumption == Flags \subseteq Seq(Items) \cup {Unset}
ASSUME NoneAssumption == None \notin Seq(Items)
ASSUME SeverityAssumption ==
  \A k \in Scanners : IsFiniteSet(Severities[k]) /\ "UNKNOWN" \in Severities[k]
\* A score of a match with the version of CVSS it is of.
Entries == [version : Nat, score : Nat]

ASSUME ContentsAssumption ==
  \A k \in Scanners : \A rep \in Contents[k] :
    /\ rep # None
    /\ Len(rep.vulns) \in Nat /\ DOMAIN rep.vulns = 1..Len(rep.vulns)
    /\ \A i \in DOMAIN rep.vulns : rep.vulns[i].cvss \in Seq(Entries)
ASSUME ChangesAssumption == MaxChanges \in Nat

\* The flag is parsed item by item; an item that is not known is an error.
Appended(base, items) == base \o items  \* mutation: also what is there already
AppendIfNotExists(base, items) ==
  FoldLeft(LAMBDA l, i : IF Contains(l, i) THEN l ELSE Append(l, i), base, items)

NoneAdded(base) == base  \* mutation: report_name is not added
WithReportName(base) == AppendIfNotExists(base, <<"report_name">>)

Parsed(items) ==
  LET Step(base, item) ==
        CASE base # None /\ item = "all"                 -> AppendIfNotExists(base, MetricLabels)
          [] base # None /\ Contains(MetricLabels, item) -> AppendIfNotExists(base, <<item>>)
          [] OTHER                                       -> None
      chosen == FoldLeft(Step, << >>, items)
  IN  IF chosen = None THEN None ELSE WithReportName(chosen)

VARIABLES
  flag,     \* --target-labels
  labels,   \* the target labels, in order; None if main has ended
  content,  \* the reports, as the cache has them
  changes,  \* number of writes so far
  owned,    \* the names that the ring gives to this pod
  pc,       \* worker of each controller
  name,     \* worker: the name that it reconciles
  report,   \* worker: the report that it read
  todo,     \* worker: severities whose series are still to be set
  next,     \* worker: index of the next vulnerability
  summary,  \* gauge vector VulnerabilitySummary: labels to value
  details,  \* gauge vector VulnerabilityInfo: labels to value
  once,     \* registerMetricsOnce: new, running or done
  made,     \* number of detail vectors that were made and registered
  shown     \* history: what the last Reconcile of a name published

workerVars == <<pc, name, report, todo, next>>
vectors    == <<summary, details>>
registry   == <<once, made>>
vars       == <<flag, labels, content, changes, owned, workerVars, vectors, registry, shown>>

-----------------------------------------------------------------------------
(* The flag, and gauge vectors.                                             *)

TargetLabels == IF labels = None THEN {} ELSE ToSet(labels)

Set(vec, with, value) ==
  [l \in DOMAIN vec \cup {with} |-> IF l = with THEN value ELSE vec[l]]

\* Nothing matches in a vector that does not have the label.
Matching(vec, n) ==
  {l \in DOMAIN vec : "report_name" \in DOMAIN l /\ l["report_name"] = n}

DeleteOne(vec, n) ==  \* mutation: one series is deleted, not all that match
  LET gone == IF Matching(vec, n) = {} THEN {}
              ELSE {CHOOSE l \in Matching(vec, n) : TRUE}
  IN  [l \in DOMAIN vec \ gone |-> vec[l]]
DeletePartialMatch(vec, n) == [l \in DOMAIN vec \ Matching(vec, n) |-> vec[l]]

-----------------------------------------------------------------------------
(* The labels and the values of the series of a report.                     *)

ReportValue(label, k, n, rep) ==
  CASE label = "scanner"     -> k
    [] label = "report_name" -> n
    [] label = "image"       -> rep.image

VulnerabilityValue(label, v) ==
  CASE label = "severity"         -> v.severity
    [] label = "vulnerability_id" -> v.id

SummaryLabels(k, n, rep, s) ==
  [l \in ReportLabels \cup {"severity"} |->
    IF l = "severity" THEN s ELSE ReportValue(l, k, n, rep)]

DetailLabels(k, n, rep, v) ==
  [l \in TargetLabels |->
    IF l \in ReportLabels THEN ReportValue(l, k, n, rep) ELSE VulnerabilityValue(l, v)]

\* Kubescape: severities are compared in capitals, and one that is not known
\* counts as UNKNOWN.
CountedAsIs(s) == s  \* mutation: other severities are not counted
CountedAs(s) == IF s \in Severities["kubescape"] THEN s ELSE "UNKNOWN"

\* Trivy has counted for itself.
SeverityCount(k, rep, s) ==
  IF k = "trivy"
  THEN rep.counts[s]
  ELSE Cardinality({i \in DOMAIN rep.vulns : CountedAs(rep.vulns[i].severity) = s})

\* Versions are in the order of their strings; 0 is a missing one.
PreferredVersion == 31

\* The loop over the scores of a match, left at the first preferred version.
LastScore(cvss) == IF cvss = <<>> THEN 0 ELSE Last(cvss).score  \* mutation: no preference
BestScore(cvss) ==
  LET Step(best, entry) ==
        CASE best.final                         -> best
          [] ~best.final /\ entry.version = PreferredVersion
               -> [best EXCEPT !.score = entry.score, !.final = TRUE]
          [] ~best.final /\ entry.version # PreferredVersion
               -> IF entry.version > best.highest
                  THEN [best EXCEPT !.score = entry.score, !.highest = entry.version]
                  ELSE best
  IN  FoldLeft(Step, [score |-> 0, highest |-> 0, final |-> FALSE], cvss).score

\* Trivy gives one score or none.
Score(k, v) ==
  IF k = "kubescape" THEN BestScore(v.cvss)
  ELSE IF v.cvss = <<>> THEN 0 ELSE v.cvss[1].score

-----------------------------------------------------------------------------
Init ==
  /\ flag \in Flags
  /\ labels = IF flag = Unset THEN << >> ELSE Parsed(flag)
  /\ content = [k \in Scanners |-> [n \in NamesOf[k] |-> None]]
  /\ changes = 0
  /\ owned = Names
  /\ pc = [k \in Scanners |-> "idle"]
  /\ name \in [Scanners -> {CHOOSE n \in Names : TRUE}]
  /\ report = [k \in Scanners |-> None]
  /\ todo = [k \in Scanners |-> {}]
  /\ next = [k \in Scanners |-> 1]
  /\ summary = << >>
  /\ details = << >>
  /\ once = "new"
  /\ made = 0
  /\ shown = [k \in Scanners |-> [n \in NamesOf[k] |-> None]]

\* A scanner writes or deletes a report, or the peers change.
ReportChanges(k, n) ==
  /\ changes < MaxChanges
  /\ changes' = changes + 1
  /\ \E rep \in Contents[k] \cup {None} : content' = [content EXCEPT ![k][n] = rep]
  /\ UNCHANGED <<owned, workerVars, vectors, registry, shown>>

OwnerChanges(n) ==
  /\ changes < MaxChanges
  /\ changes' = changes + 1
  /\ owned' = IF n \in owned THEN owned \ {n} ELSE owned \cup {n}
  /\ UNCHANGED <<content, workerVars, vectors, registry, shown>>

\* registerMetricsOnce.Do: the first Reconcile makes and registers the detail
\* vector, and one of the other controller waits until that is done.
BeginRegistration(k) ==
  /\ pc[k] = "idle"
  /\ labels # None
  /\ once = "new"
  /\ once' = "running"
  /\ pc' = [pc EXCEPT ![k] = "register"]
  /\ UNCHANGED <<content, changes, owned, name, report, todo, next, vectors, made, shown>>

RegisterMetrics(k) ==
  /\ pc[k] = "register"
  /\ made' = made + 1
  /\ once' = "done"
  /\ pc' = [pc EXCEPT ![k] = "idle"]
  /\ UNCHANGED <<content, changes, owned, name, report, todo, next, vectors, shown>>

Begun == once # "new"  \* mutation: a flag in place of the Once
PassesOnce == once = "done"

\* Reconcile begins, for an event, a timer or a retry, with the summary vector.
ClearSummary(k, n) ==
  /\ pc[k] = "idle"
  /\ PassesOnce
  /\ pc' = [pc EXCEPT ![k] = "cleared"]
  /\ name' = [name EXCEPT ![k] = n]
  /\ summary' = DeletePartialMatch(summary, n)
  /\ shown' = [shown EXCEPT ![k][n] = None]
  /\ UNCHANGED <<content, changes, owned, report, todo, next, details, registry>>

ClearDetails(k) ==
  /\ pc[k] = "cleared"
  /\ details' = DeletePartialMatch(details, name[k])
  /\ pc' = [pc EXCEPT ![k] = IF name[k] \in owned THEN "read" ELSE "idle"]
  /\ UNCHANGED <<content, changes, owned, name, report, todo, next, summary, registry, shown>>

AlwaysFound(k) == FALSE  \* mutation: the error of Get is not looked at
NotFound(k) == content[k][name[k]] = None

\* The report is gone, or cannot be read.
ReadFails(k) ==
  /\ pc[k] = "read"
  /\ pc' = [pc EXCEPT ![k] = "idle"]
  /\ UNCHANGED <<content, changes, owned, name, report, todo, next, vectors, registry, shown>>

Read(k) ==
  /\ pc[k] = "read"
  /\ ~NotFound(k)
  /\ report' = [report EXCEPT ![k] = content[k][name[k]]]
  /\ todo' = [todo EXCEPT ![k] = Severities[k]]
  /\ pc' = [pc EXCEPT ![k] = "summary"]
  /\ UNCHANGED <<content, changes, owned, name, next, vectors, registry, shown>>

\* The severities are the keys of a map, and come in any order.
SetSummary(k) ==
  /\ pc[k] = "summary"
  /\ \E s \in todo[k] :
       /\ summary' = Set(summary, SummaryLabels(k, name[k], report[k], s),
                         SeverityCount(k, report[k], s))
       /\ todo' = [todo EXCEPT ![k] = @ \ {s}]
  /\ UNCHANGED <<content, changes, owned, pc, name, report, next, details, registry, shown>>

SetDetail(k) ==
  /\ pc[k] = "summary" /\ todo[k] = {}
  /\ TargetLabels # {}
  /\ next[k] \in DOMAIN report[k].vulns
  /\ LET v == report[k].vulns[next[k]]
     IN  details' = Set(details, DetailLabels(k, name[k], report[k], v), Score(k, v))
  /\ next' = [next EXCEPT ![k] = @ + 1]
  /\ UNCHANGED <<content, changes, owned, pc, name, report, todo, summary, registry, shown>>

\* What Reconcile has still to do concerns the report only.
Finish(k) ==
  /\ pc[k] = "summary" /\ todo[k] = {}
  /\ TargetLabels = {} \/ next[k] > Len(report[k].vulns)
  /\ shown' = [shown EXCEPT ![k][name[k]] = report[k]]
  /\ pc' = [pc EXCEPT ![k] = "idle"]
  /\ report' = [report EXCEPT ![k] = None]
  /\ next' = [next EXCEPT ![k] = 1]
  /\ UNCHANGED <<content, changes, owned, name, todo, vectors, registry>>

Worker(k) ==
  \/ BeginRegistration(k) \/ RegisterMetrics(k)
  \/ \E n \in NamesOf[k] : ClearSummary(k, n)
  \/ ClearDetails(k) \/ ReadFails(k) \/ Read(k)
  \/ SetSummary(k) \/ SetDetail(k) \/ Finish(k)

Next ==
  /\ \/ \E k \in Scanners : Worker(k)
     \/ \E k \in Scanners : \E n \in NamesOf[k] : ReportChanges(k, n)
     \/ \E n \in Names : OwnerChanges(n)
  /\ UNCHANGED <<flag, labels>>

Spec == Init /\ [][Next]_vars

-----------------------------------------------------------------------------
(* Properties.                                                              *)

Idle(k, n) == pc[k] = "idle" \/ name[k] # n

SummaryOf(k, n) == {l \in DOMAIN summary : l.scanner = k /\ l.report_name = n}

\* Without the scanner among the labels, all series of the name.
DetailsOf(k, n) ==
  {l \in Matching(details, n) : "scanner" \in TargetLabels => l["scanner"] = k}

WorldOK ==
  /\ DOMAIN content = Scanners /\ DOMAIN shown = Scanners
  /\ \A k \in Scanners :
       {content[k], shown[k]} \subseteq [NamesOf[k] -> Contents[k] \cup {None}]
  /\ changes \in 0..MaxChanges
  /\ owned \subseteq Names

WorkerOK ==
  /\ once \in {"new", "running", "done"}
  /\ pc \in [Scanners -> {"idle", "register", "cleared", "read", "summary"}]
  /\ {DOMAIN name, DOMAIN report, DOMAIN todo} = {Scanners} /\ next \in [Scanners -> Nat]
  /\ \A k \in Scanners :
       /\ report[k] \in Contents[k] \cup {None}
       /\ todo[k] \subseteq Severities[k]
       /\ pc[k] = "summary" <=> report[k] # None
       /\ pc[k] \in {"cleared", "read", "summary"} => name[k] \in NamesOf[k]
       /\ pc[k] = "summary" => next[k] \in 1..(Len(report[k].vulns) + 1)
       /\ pc[k] # "summary" => todo[k] = {} /\ next[k] = 1

SummaryOK == \A l \in DOMAIN summary : l.severity \in Severities[l.scanner]

\* Every variable has its type; a worker has a report exactly while it sets
\* the report's series, and has set the series of the vulnerabilities before
\* the next one.
TypeOK == WorldOK /\ WorkerOK /\ SummaryOK

\* Outside its Reconcile a report that is shown has one summary series per
\* severity, all of its own image; and nothing is left of one that is not shown.
SummaryMatchesReport ==
  \A k \in Scanners : \A n \in NamesOf[k] : Idle(k, n) =>
    IF shown[k][n] = None
    THEN SummaryOf(k, n) = {}
    ELSE /\ {l.severity : l \in SummaryOf(k, n)} = Severities[k]
         /\ \A l, o \in SummaryOf(k, n) : l.severity = o.severity => l = o
         /\ \A l \in SummaryOf(k, n) : l.image = shown[k][n].image

\* No vulnerability of a manifest is lost or counted twice: the summary series
\* add up to all of them, those of a severity that is not published included.
AllCounted ==
  \A n \in NamesOf["kubescape"] :
    Idle("kubescape", n) /\ shown["kubescape"][n] # None =>
      FoldSet(LAMBDA l, sum : sum + summary[l], 0, SummaryOf("kubescape", n))
        = Len(shown["kubescape"][n].vulns)

\* The score of the preferred version, else of the highest, else 0; of several
\* entries of one version the first counts.
ReferenceScore(k, v) ==
  LET Known     == {i \in DOMAIN v.cvss : v.cvss[i].version # 0}
      Best      == IF \E i \in Known : v.cvss[i].version = PreferredVersion
                   THEN PreferredVersion
                   ELSE Max({v.cvss[i].version : i \in Known})
      Preferred == Min({i \in Known : v.cvss[i].version = Best})
  IN  CASE k = "trivy" /\ v.cvss # <<>>  -> v.cvss[1].score
        [] k = "trivy" /\ v.cvss = <<>>  -> 0
        [] k = "kubescape" /\ Known = {} -> 0
        [] OTHER                         -> v.cvss[Preferred].score

\* Vulnerabilities that the chosen labels do not tell apart share a series.
Alike(v, w) ==
  \A l \in TargetLabels \cap VulnerabilityLabels :
    VulnerabilityValue(l, v) = VulnerabilityValue(l, w)

\* The last of the vulnerabilities that share each series.
Shown(vulns) ==
  {i \in DOMAIN vulns : \A j \in DOMAIN vulns : Alike(vulns[i], vulns[j]) => j <= i}

\* Outside its Reconcile a report that is shown has one detail series for each
\* combination of the labels among its vulnerabilities; and no series is left of
\* one that is not shown, whichever labels were chosen.  Without the flag there
\* are no detail series at all.
DetailsMatchReport ==
  /\ \A k \in Scanners : \A n \in NamesOf[k] : Idle(k, n) =>
       IF shown[k][n] = None \/ TargetLabels = {}
       THEN DetailsOf(k, n) = {}
       ELSE Cardinality(DetailsOf(k, n)) = Cardinality(Shown(shown[k][n].vulns))
  /\ \A l \in DOMAIN details : \E k \in Scanners : \E n \in NamesOf[k] :
       l \in DetailsOf(k, n)

\* "Prefer CVSS 3.1 if available, otherwise use highest version": the value of a
\* detail series is the score of its vulnerability, of the last if several
\* share the series.
ScoresMatchReport ==
  TargetLabels # {} =>
    \A k \in Scanners : \A n \in NamesOf[k] : Idle(k, n) /\ shown[k][n] # None =>
      \A i \in Shown(shown[k][n].vulns) : \E l \in DOMAIN details :
        LET v == shown[k][n].vulns[i]
        IN  l = DetailLabels(k, n, shown[k][n], v) /\ details[l] = ReferenceScore(k, v)

\* At no moment, and so in no scrape, does a vector hold series of two images
\* for one report.
OneImagePerReport ==
  /\ \A l, o \in DOMAIN summary :
       l.scanner = o.scanner /\ l.report_name = o.report_name => l.image = o.image
  /\ {"image", "report_name"} \subseteq TargetLabels =>
       \A l, o \in DOMAIN details :
         /\ l["report_name"] = o["report_name"]
         /\ "scanner" \in TargetLabels => l["scanner"] = o["scanner"]
         => l["image"] = o["image"]

\* The labels of the detail series are those that were asked for, in any order
\* and with repetitions, each once (a vector with a label twice cannot be made)
\* and always with the report name; an unknown item ends main.
LabelsAsAsked ==
  flag # Unset =>
    IF ToSet(flag) \subseteq ToSet(MetricLabels) \cup {"all"}
    THEN /\ Cardinality(ToSet(labels)) = Len(labels)
         /\ ToSet(labels) = IF "all" \in ToSet(flag) THEN ToSet(MetricLabels)
                             ELSE ToSet(flag) \cup {"report_name"}
    ELSE labels = None

\* Both controllers delete from and set the same detail vector, which is made
\* by whichever comes first: neither touches it before it is there, and it is
\* not made again, which would lose its series, or panic when it is registered.
OneDetailVector ==
  /\ made \in {0, 1}
  /\ \A k \in Scanners : pc[k] \notin {"idle", "register"} => made = 1

\* "Both scanners produce the same metric names, distinguished by the scanner
\* label": a Reconcile of one scanner's report leaves the other's series alone.
ScannersApart ==
  [][\A k \in Scanners : pc'[k] # pc[k] =>
       \A l \in DOMAIN summary : l.scanner # k => l \in DOMAIN summary']_vars

=============================================================================
