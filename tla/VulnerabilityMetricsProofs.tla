--------------------- MODULE VulnerabilityMetricsProofs ---------------------
(***************************************************************************)
(* Theorems about VulnerabilityMetrics, for any reports, contents,         *)
(* severities and flags.                                                   *)
(***************************************************************************)
EXTENDS VulnerabilityMetricsLemmas

(* Gauge vectors.                                                           *)

LEMMA SetMatching ==
  ASSUME NEW vec, NEW with, NEW value, NEW vecNew, NEW m, vecNew = Set(vec, with, value),
         "report_name" \in DOMAIN with, with["report_name"] = m
  PROVE  /\ Matching(vecNew, m) = Matching(vec, m) \cup {with}
         /\ \A n : n # m => Matching(vecNew, n) = Matching(vec, n)
BY DEF Set, Matching

LEMMA DeleteMatching ==
  ASSUME NEW vec, NEW m, NEW n
  PROVE  /\ DOMAIN DeletePartialMatch(vec, m) \subseteq DOMAIN vec
         /\ Matching(DeletePartialMatch(vec, m), n) = IF n = m THEN {} ELSE Matching(vec, n)
BY DEF DeletePartialMatch, Matching

LEMMA SummaryFields ==
  ASSUME NEW k, NEW n, NEW rep, NEW s
  PROVE  LET l == SummaryLabels(k, n, rep, s)
         IN  /\ DOMAIN l = {"scanner", "report_name", "image", "severity"}
             /\ l["scanner"] = k /\ l["report_name"] = n
             /\ l["image"] = rep.image /\ l["severity"] = s
BY DEF SummaryLabels, ReportLabels, ReportValue

LEMMA DetailFields ==
  ASSUME NEW k, NEW n, NEW rep, NEW v
  PROVE  LET l == DetailLabels(k, n, rep, v)
         IN  /\ DOMAIN l = TargetLabels
             /\ "scanner" \in TargetLabels => l["scanner"] = k
             /\ "report_name" \in TargetLabels => l["report_name"] = n
             /\ "image" \in TargetLabels => l["image"] = rep.image
             /\ \A i \in TargetLabels \ ReportLabels : l[i] = VulnerabilityValue(i, v)
BY DEF DetailLabels, ReportLabels, ReportValue

-----------------------------------------------------------------------------
(* Type correctness.                                                        *)

LEMMA TypeParts == TypeOK <=> WorldOK /\ WorkerOK /\ SummaryOK
BY DEF TypeOK

LEMMA TypeNext == ASSUME WorldOK', WorkerOK', SummaryOK' PROVE TypeOK'
BY DEF TypeOK

LEMMA InitType == ASSUME Init PROVE TypeOK
<1>1. DOMAIN summary = {}
  BY DEF Init
<1>2. WorldOK
  BY ChangesAssumption, NamesAssumption DEF Init, WorldOK
<1>3. WorkerOK
  BY DEF Init, WorkerOK
<1> QED BY <1>1, <1>2, <1>3, TypeParts DEF SummaryOK

\* The steps of the scanners, the ring and the Once.
LEMMA OutsideType ==
  ASSUME TypeOK, NEW k \in Scanners,
         \/ BeginRegistration(k) \/ RegisterMetrics(k)
         \/ \E n \in NamesOf[k] : ReportChanges(k, n)
         \/ \E n \in Names : OwnerChanges(n)
  PROVE  TypeOK'
<1> USE DEF workerVars, vectors, registry
<1>1. WorldOK /\ WorkerOK /\ SummaryOK
  BY TypeParts
<1>2. SummaryOK'
  BY <1>1 DEF SummaryOK, BeginRegistration, RegisterMetrics, ReportChanges, OwnerChanges
<1>3. WorldOK'
  <2>1. CASE BeginRegistration(k) \/ RegisterMetrics(k)
    BY <1>1, <2>1 DEF WorldOK, BeginRegistration, RegisterMetrics
  <2>2. ASSUME NEW n \in NamesOf[k], ReportChanges(k, n) PROVE WorldOK'
    <3>1. PICK rep \in Contents[k] \cup {None} : content' = [content EXCEPT ![k][n] = rep]
      BY <2>2 DEF ReportChanges
    <3>2. \A q \in Scanners : content'[q] \in [NamesOf[q] -> Contents[q] \cup {None}]
      BY <1>1, <3>1 DEF WorldOK
    <3>3. changes' \in 0..MaxChanges
      BY <1>1, <2>2, ChangesAssumption DEF ReportChanges, WorldOK
    <3> QED BY <1>1, <2>2, <3>1, <3>2, <3>3 DEF ReportChanges, WorldOK
  <2>3. ASSUME NEW n \in Names, OwnerChanges(n) PROVE WorldOK'
    <3>1. changes' \in 0..MaxChanges
      BY <1>1, <2>3, ChangesAssumption DEF OwnerChanges, WorldOK
    <3> QED BY <1>1, <2>3, <3>1 DEF OwnerChanges, WorldOK
  <2> QED BY <2>1, <2>2, <2>3
<1>4. WorkerOK'
  <2>1. CASE BeginRegistration(k)
    BY <1>1, <2>1 DEF WorkerOK, BeginRegistration
  <2>2. CASE RegisterMetrics(k)
    BY <1>1, <2>2 DEF WorkerOK, RegisterMetrics
  <2>3. CASE (\E n \in NamesOf[k] : ReportChanges(k, n)) \/ \E n \in Names : OwnerChanges(n)
    BY <1>1, <2>3 DEF WorkerOK, ReportChanges, OwnerChanges
  <2> QED BY <2>1, <2>2, <2>3
<1> QED BY <1>2, <1>3, <1>4, TypeNext

LEMMA ClearType ==
  ASSUME TypeOK, NEW k \in Scanners,
         (\E n \in NamesOf[k] : ClearSummary(k, n)) \/ ClearDetails(k) \/ ReadFails(k)
  PROVE  TypeOK'
<1> USE DEF workerVars, vectors, registry
<1>1. WorldOK /\ WorkerOK /\ SummaryOK
  BY TypeParts
<1>2. ASSUME NEW n \in NamesOf[k], ClearSummary(k, n) PROVE WorldOK' /\ WorkerOK' /\ SummaryOK'
  <2>1. DOMAIN summary' \subseteq DOMAIN summary
    BY <1>2, DeleteMatching DEF ClearSummary
  <2>2. WorldOK'
    BY <1>1, <1>2 DEF ClearSummary, WorldOK
  <2>3. WorkerOK'
    BY <1>1, <1>2 DEF ClearSummary, WorkerOK
  <2> QED BY <1>1, <2>1, <2>2, <2>3 DEF SummaryOK
<1>3. CASE ClearDetails(k)
  <2>1. WorldOK' /\ SummaryOK'
    BY <1>1, <1>3 DEF ClearDetails, WorldOK, SummaryOK
  <2>2. WorkerOK'
    BY <1>1, <1>3 DEF ClearDetails, WorkerOK
  <2> QED BY <2>1, <2>2, TypeNext
<1>4. CASE ReadFails(k)
  <2>1. WorldOK' /\ SummaryOK'
    BY <1>1, <1>4 DEF ReadFails, WorldOK, SummaryOK
  <2>2. WorkerOK'
    BY <1>1, <1>4 DEF ReadFails, WorkerOK
  <2> QED BY <2>1, <2>2, TypeNext
<1> QED BY <1>2, <1>3, <1>4, TypeNext

\* A step of one worker leaves the others as they are.
LEMMA OtherWorkersOK ==
  ASSUME WorkerOK, NEW k \in Scanners, once' = once, name' = name,
         pc' \in [Scanners -> {"idle", "register", "cleared", "read", "summary"}],
         next' \in [Scanners -> Nat], DOMAIN report' = Scanners, DOMAIN todo' = Scanners,
         \A q \in Scanners \ {k} :
           pc'[q] = pc[q] /\ report'[q] = report[q] /\ todo'[q] = todo[q] /\ next'[q] = next[q],
         report'[k] \in Contents[k] \cup {None}, todo'[k] \subseteq Severities[k],
         pc'[k] = "summary" <=> report'[k] # None,
         pc'[k] \in {"cleared", "read", "summary"} => name[k] \in NamesOf[k],
         pc'[k] = "summary" => next'[k] \in 1..(Len(report'[k].vulns) + 1),
         pc'[k] # "summary" => todo'[k] = {} /\ next'[k] = 1
  PROVE  WorkerOK'
<1>1. ASSUME NEW q \in Scanners
      PROVE  /\ report'[q] \in Contents[q] \cup {None}
             /\ todo'[q] \subseteq Severities[q]
             /\ pc'[q] = "summary" <=> report'[q] # None
             /\ pc'[q] \in {"cleared", "read", "summary"} => name'[q] \in NamesOf[q]
             /\ pc'[q] = "summary" => next'[q] \in 1..(Len(report'[q].vulns) + 1)
             /\ pc'[q] # "summary" => todo'[q] = {} /\ next'[q] = 1
  <2>1. CASE q = k
    BY <2>1
  <2>2. CASE q # k
    BY <2>2 DEF WorkerOK
  <2> QED BY <2>1, <2>2
<1>2. DOMAIN name' = Scanners
  BY DEF WorkerOK
<1> QED BY <1>1, <1>2 DEF WorkerOK

LEMMA PublishType ==
  ASSUME TypeOK, NEW k \in Scanners, Read(k) \/ SetSummary(k) \/ SetDetail(k) \/ Finish(k)
  PROVE  TypeOK'
<1> USE DEF workerVars, vectors, registry
<1>1. WorldOK /\ WorkerOK /\ SummaryOK
  BY TypeParts
<1>2. CASE Read(k)
  <2>1. name[k] \in NamesOf[k] /\ content[k][name[k]] \in Contents[k]
    BY <1>1, <1>2 DEF Read, NotFound, WorldOK, WorkerOK
  <2>2. WorkerOK'
    <3>1. Len(content[k][name[k]].vulns) \in Nat /\ content[k][name[k]] # None
      BY <2>1, ContentsAssumption
    <3>2. DOMAIN report = Scanners /\ DOMAIN todo = Scanners
      BY <1>1 DEF WorkerOK
    <3>3. /\ pc'[k] = "summary" /\ report'[k] = content[k][name[k]]
          /\ todo'[k] = Severities[k] /\ next'[k] = 1 /\ next' = next
          /\ once' = once /\ name' = name
      BY <1>1, <1>2, <3>2 DEF Read, WorkerOK
    <3>4. \A q \in Scanners \ {k} :
            pc'[q] = pc[q] /\ report'[q] = report[q] /\ todo'[q] = todo[q] /\ next'[q] = next[q]
      BY <1>1, <1>2, <3>2 DEF Read, WorkerOK
    <3>5. /\ pc' \in [Scanners -> {"idle", "register", "cleared", "read", "summary"}]
          /\ next' \in [Scanners -> Nat] /\ DOMAIN report' = Scanners /\ DOMAIN todo' = Scanners
      BY <1>1, <1>2, <3>2 DEF Read, WorkerOK
    <3> QED BY <1>1, <2>1, <3>1, <3>3, <3>4, <3>5, OtherWorkersOK
  <2> QED BY <1>1, <1>2, <2>2, TypeNext DEF Read, WorldOK, SummaryOK
<1>3. CASE SetSummary(k)
  <2>1. PICK s \in todo[k] :
          /\ summary' = Set(summary, SummaryLabels(k, name[k], report[k], s),
                            SeverityCount(k, report[k], s))
          /\ todo' = [todo EXCEPT ![k] = @ \ {s}]
    BY <1>3 DEF SetSummary
  <2>2. DOMAIN summary' = DOMAIN summary \cup {SummaryLabels(k, name[k], report[k], s)}
    BY <2>1 DEF Set
  <2>3. SummaryOK'
    BY <1>1, <2>2, SummaryFields DEF SummaryOK, WorkerOK
  <2>4. WorkerOK'
    BY <1>1, <1>3, <2>1 DEF SetSummary, WorkerOK
  <2> QED BY <1>1, <1>3, <2>3, <2>4, TypeNext DEF SetSummary, WorldOK
<1>4. CASE SetDetail(k)
  <2>1. next[k] \in 1..Len(report[k].vulns) /\ Len(report[k].vulns) \in Nat
    BY <1>1, <1>4, ContentsAssumption DEF SetDetail, WorkerOK
  <2>2. WorkerOK'
    <3>1. /\ DOMAIN report = Scanners /\ DOMAIN todo = Scanners /\ pc[k] = "summary"
          /\ next' = [next EXCEPT ![k] = next[k] + 1]
          /\ UNCHANGED <<once, name, pc, report, todo>>
      BY <1>1, <1>4 DEF SetDetail, WorkerOK
    <3>2. next[k] + 1 \in 1..(Len(report[k].vulns) + 1) /\ next[k] + 1 \in Nat
      BY <2>1
    <3>3. /\ pc \in [Scanners -> {"idle", "register", "cleared", "read", "summary"}]
          /\ next' \in [Scanners -> Nat] /\ next'[k] = next[k] + 1
          /\ \A q \in Scanners \ {k} : next'[q] = next[q]
      BY <1>1, <3>1, <3>2 DEF WorkerOK
    <3>4. /\ report[k] \in Contents[k] /\ name[k] \in NamesOf[k]
          /\ todo[k] \subseteq Severities[k] /\ report[k] # None
      BY <1>1, <3>1 DEF WorkerOK
    <3> QED BY <1>1, <3>1, <3>2, <3>3, <3>4, OtherWorkersOK
  <2> QED BY <1>1, <1>4, <2>2, TypeNext DEF SetDetail, WorldOK, SummaryOK
<1>5. CASE Finish(k)
  <2>1. name[k] \in NamesOf[k] /\ report[k] \in Contents[k]
    BY <1>1, <1>5 DEF Finish, WorkerOK
  <2>2. WorldOK'
    BY <1>1, <1>5, <2>1 DEF Finish, WorldOK
  <2>3. WorkerOK'
    BY <1>1, <1>5 DEF Finish, WorkerOK
  <2> QED BY <1>1, <1>5, <2>2, <2>3, TypeNext DEF Finish, SummaryOK
<1> QED BY <1>2, <1>3, <1>4, <1>5

LEMMA StutterType == ASSUME TypeOK, UNCHANGED vars PROVE TypeOK'
<1> USE DEF vars, workerVars, vectors, registry
<1>1. WorldOK /\ WorkerOK /\ SummaryOK
  BY TypeParts
<1>2. WorldOK' /\ SummaryOK'
  BY <1>1 DEF WorldOK, SummaryOK
<1>3. WorkerOK'
  BY <1>1 DEF WorkerOK
<1> QED BY <1>2, <1>3, TypeNext

LEMMA NextType == ASSUME TypeOK, [Next]_vars PROVE TypeOK'
<1>1. ASSUME NEW k \in Scanners, Worker(k) PROVE TypeOK'
  BY <1>1, OutsideType, ClearType, PublishType DEF Worker
<1>2. "trivy" \in Scanners
  BY DEF Scanners
<1> QED BY <1>1, <1>2, OutsideType, StutterType DEF Next

\* Type correctness: a worker has a report exactly while it sets its series.
THEOREM MetricsTypeCorrect == Spec => []TypeOK
<1>1. Init => TypeOK
  BY InitType
<1>2. TypeOK /\ [Next]_vars => TypeOK'
  BY NextType
<1> QED BY <1>1, <1>2, PTL DEF Spec

-----------------------------------------------------------------------------
(* The Once of the two controllers.                                         *)

\* Only while the Once runs there is a worker in its function, and only one.
OnceRuns ==
  /\ once = "new" => made = 0 /\ \A k \in Scanners : pc[k] = "idle"
  /\ once = "running" =>
       /\ made = 0
       /\ \A k, q \in Scanners : k # q => "idle" \in {pc[k], pc[q]}
       /\ \A k \in Scanners : pc[k] \in {"idle", "register"}
  /\ once = "done" => made = 1 /\ \A k \in Scanners : pc[k] # "register"

LEMMA OnceStep ==
  ASSUME TypeOK, OnceRuns, NEW k \in Scanners, Worker(k) PROVE OnceRuns'
<1> USE DEF registry, workerVars
<1>1. pc \in [Scanners -> {"idle", "register", "cleared", "read", "summary"}]
      /\ once \in {"new", "running", "done"}
  BY DEF TypeOK, WorkerOK
<1>2. CASE BeginRegistration(k)
  BY <1>1, <1>2 DEF BeginRegistration, OnceRuns
<1>3. CASE RegisterMetrics(k)
  <2>1. once = "running" /\ made = 0
    BY <1>1, <1>3 DEF RegisterMetrics, OnceRuns
  <2>2. \A q \in Scanners : pc'[q] = "idle"
    BY <1>1, <1>3, <2>1 DEF RegisterMetrics, OnceRuns
  <2> QED BY <1>3, <2>1, <2>2 DEF RegisterMetrics, OnceRuns
<1>4. CASE \/ \E n \in NamesOf[k] : ClearSummary(k, n)
           \/ ClearDetails(k) \/ ReadFails(k) \/ Read(k)
           \/ SetSummary(k) \/ SetDetail(k) \/ Finish(k)
  <2>1. once = "done" /\ UNCHANGED <<once, made>>
    BY <1>1, <1>4
       DEF ClearSummary, PassesOnce, ClearDetails, ReadFails, Read, SetSummary, SetDetail,
           Finish, OnceRuns
  <2>2. pc'[k] # "register" /\ \A q \in Scanners \ {k} : pc'[q] = pc[q]
    BY <1>1, <1>4, <2>1
       DEF ClearSummary, ClearDetails, ReadFails, Read, SetSummary, SetDetail, Finish, OnceRuns
  <2> QED BY <2>1, <2>2 DEF OnceRuns
<1> QED BY <1>2, <1>3, <1>4 DEF Worker

\* The detail vector is there before a worker deletes from it or sets it, and is
\* made only once, whichever controllers come first and at the same time.
THEOREM DetailVectorOnce == Spec => []OneDetailVector
<1>1. Init => OnceRuns
  BY DEF Init, OnceRuns
<1>2. TypeOK /\ OnceRuns /\ [Next]_vars => OnceRuns'
  <2> SUFFICES ASSUME TypeOK, OnceRuns, [Next]_vars PROVE OnceRuns'
    OBVIOUS
  <2>1. CASE UNCHANGED <<once, made, pc>>
    BY <2>1 DEF OnceRuns
  <2>2. ASSUME NEW k \in Scanners, NEW n \in NamesOf[k], ReportChanges(k, n) PROVE OnceRuns'
    BY <2>1, <2>2 DEF ReportChanges, registry, workerVars
  <2>3. ASSUME NEW n \in Names, OwnerChanges(n) PROVE OnceRuns'
    BY <2>1, <2>3 DEF OwnerChanges, registry, workerVars
  <2>4. CASE UNCHANGED vars
    BY <2>1, <2>4 DEF vars, registry, workerVars
  <2> QED BY <2>2, <2>3, <2>4, OnceStep DEF Next
<1>3. TypeOK /\ OnceRuns => OneDetailVector
  BY DEF TypeOK, WorkerOK, OnceRuns, OneDetailVector
<1> QED BY <1>1, <1>2, <1>3, MetricsTypeCorrect, PTL DEF Spec

-----------------------------------------------------------------------------
(* Which series there are.  The worker of a scanner, between two of its     *)
(* steps, has left the series of every other report as they were; those of  *)
(* its own report are as far as it is.                                      *)

\* No Trivy report has the name of a manifest: see ScannersApart.
NamesApart == \A k, q \in Scanners : k # q => NamesOf[k] \cap NamesOf[q] = {}

SummarySeries(k, n, rep, S) == {SummaryLabels(k, n, rep, s) : s \in S}
DetailSeries(k, n, rep, I) == {DetailLabels(k, n, rep, rep.vulns[i]) : i \in I}

Reconciling(k, n) == pc[k] \in {"cleared", "read", "summary"} /\ name[k] = n
Publishing(k, n) == pc[k] = "summary" /\ name[k] = n

SummaryIs(k, n) ==
  Matching(summary, n) =
    IF Publishing(k, n) THEN SummarySeries(k, n, report[k], Severities[k] \ todo[k])
    ELSE IF shown[k][n] = None THEN {}
    ELSE SummarySeries(k, n, shown[k][n], Severities[k])

DetailsAre(k, n) ==
  Matching(details, n) =
    IF TargetLabels = {} THEN {}
    ELSE IF Publishing(k, n) THEN DetailSeries(k, n, report[k], 1..(next[k] - 1))
    ELSE IF shown[k][n] = None THEN {}
    ELSE DetailSeries(k, n, shown[k][n], DOMAIN shown[k][n].vulns)

OneOrigin(k, n) ==
  /\ "image" \in TargetLabels => \A l, o \in Matching(details, n) : l["image"] = o["image"]
  /\ "scanner" \in TargetLabels => \A l \in Matching(details, n) : l["scanner"] = k

\* Between the two deletions the detail series are still those of before.
SeriesAre(k, n) ==
  /\ Reconciling(k, n) => shown[k][n] = None
  /\ SummaryIs(k, n)
  /\ Reconciling(k, n) /\ pc[k] = "cleared" => OneOrigin(k, n)
  /\ ~(Reconciling(k, n) /\ pc[k] = "cleared") => DetailsAre(k, n)

AllNames == UNION {NamesOf[k] : k \in Scanners}

VectorNamed(vec) == \A l \in DOMAIN vec : "report_name" \in DOMAIN l /\ l["report_name"] \in AllNames

SeriesInv ==
  /\ VectorNamed(summary) /\ VectorNamed(details)
  /\ \A k \in Scanners : \A n \in NamesOf[k] : SeriesAre(k, n)

\* Detail series can be deleted by the name of their report.
ReportNamed == TargetLabels = {} \/ "report_name" \in TargetLabels

LEMMA OfOneReport ==
  ASSUME NEW k, NEW n, NEW rep, NEW I, NEW S, S \subseteq DetailSeries(k, n, rep, I)
  PROVE  /\ "image" \in TargetLabels => \A l, o \in S : l["image"] = o["image"]
         /\ "scanner" \in TargetLabels => \A l \in S : l["scanner"] = k
BY DetailFields DEF DetailSeries

LEMMA OriginFollows == ASSUME NEW k, NEW n, DetailsAre(k, n) PROVE OneOrigin(k, n)
<1>1. PICK rep, I : Matching(details, n) \subseteq DetailSeries(k, n, rep, I)
  <2>1. CASE Publishing(k, n)
    BY <2>1 DEF DetailsAre
  <2>2. CASE ~Publishing(k, n)
    BY <2>2 DEF DetailsAre
  <2> QED BY <2>1, <2>2
<1> QED BY <1>1, OfOneReport DEF OneOrigin

LEMMA DetailSeriesKept ==
  ASSUME labels' = labels
  PROVE  \A k, n, rep, I : DetailSeries(k, n, rep, I)' = DetailSeries(k, n, rep, I)
BY DEF DetailSeries, DetailLabels, TargetLabels

LEMMA SeriesKept ==
  ASSUME NEW k, NEW n, SeriesAre(k, n), labels' = labels,
         Matching(summary', n) = Matching(summary, n),
         Matching(details', n) = Matching(details, n), shown'[k][n] = shown[k][n],
         \/ /\ pc'[k] = pc[k] /\ name'[k] = name[k] /\ report'[k] = report[k]
            /\ todo'[k] = todo[k] /\ next'[k] = next[k]
         \/ ~Reconciling(k, n) /\ ~Reconciling(k, n)'
  PROVE  SeriesAre(k, n)'
<1>1. TargetLabels' = TargetLabels
  BY DEF TargetLabels
<1>3. CASE /\ pc'[k] = pc[k] /\ name'[k] = name[k] /\ report'[k] = report[k]
           /\ todo'[k] = todo[k] /\ next'[k] = next[k]
  <2>1. (Reconciling(k, n)' <=> Reconciling(k, n)) /\ (Publishing(k, n)' <=> Publishing(k, n))
    BY <1>3 DEF Reconciling, Publishing
  <2>2. SummaryIs(k, n)'
    BY <1>3, <2>1 DEF SeriesAre, SummaryIs
  <2>3. OneOrigin(k, n) => OneOrigin(k, n)'
    BY <1>1 DEF OneOrigin
  <2>4. DetailsAre(k, n) => DetailsAre(k, n)'
    BY <1>1, <1>3, <2>1, DetailSeriesKept DEF DetailsAre
  <2> QED BY <1>3, <2>1, <2>2, <2>3, <2>4 DEF SeriesAre
<1>4. CASE ~Reconciling(k, n) /\ ~Reconciling(k, n)'
  <2>1. ~Publishing(k, n) /\ ~Publishing(k, n)'
    BY <1>4 DEF Reconciling, Publishing
  <2>2. SummaryIs(k, n)'
    BY <2>1 DEF SeriesAre, SummaryIs
  <2>3. DetailsAre(k, n)'
    BY <1>1, <1>4, <2>1, DetailSeriesKept DEF SeriesAre, DetailsAre
  <2> QED BY <1>4, <2>2, <2>3 DEF SeriesAre
<1> QED BY <1>3, <1>4

\* A step of the worker of q that concerns the report m only.
LEMMA OthersKept ==
  ASSUME NamesApart, SeriesInv, NEW q \in Scanners, NEW m \in NamesOf[q], labels' = labels,
         \A k \in Scanners \ {q} :
           /\ pc'[k] = pc[k] /\ name'[k] = name[k] /\ report'[k] = report[k]
           /\ todo'[k] = todo[k] /\ next'[k] = next[k],
         name'[q] = m, pc[q] \in {"idle", "register"} \/ name[q] = m,
         \A k \in Scanners : \A n \in NamesOf[k] : n # m => shown'[k][n] = shown[k][n],
         \A n : n # m => /\ Matching(summary', n) = Matching(summary, n)
                        /\ Matching(details', n) = Matching(details, n),
         SeriesAre(q, m)'
  PROVE  \A k \in Scanners : \A n \in NamesOf[k] : SeriesAre(k, n)'
<1> SUFFICES ASSUME NEW k \in Scanners, NEW n \in NamesOf[k] PROVE SeriesAre(k, n)'
  OBVIOUS
<1>1. SeriesAre(k, n)
  BY DEF SeriesInv
<1>2. CASE n = m
  <2>1. k = q
    BY <1>2 DEF NamesApart
  <2> QED BY <1>2, <2>1
<1>3. CASE n # m /\ k # q
  BY <1>1, <1>3, SeriesKept
<1>4. CASE n # m /\ k = q
  <2>1. ~Reconciling(k, n) /\ ~Reconciling(k, n)'
    BY <1>4 DEF Reconciling
  <2> QED BY <1>1, <1>4, <2>1, SeriesKept
<1> QED BY <1>2, <1>3, <1>4

\* The workers' variables are functions of the scanner.
LEMMA Domains ==
  ASSUME TypeOK
  PROVE  /\ DOMAIN pc = Scanners /\ DOMAIN name = Scanners /\ DOMAIN report = Scanners
         /\ DOMAIN todo = Scanners /\ DOMAIN next = Scanners /\ DOMAIN shown = Scanners
         /\ \A k \in Scanners : DOMAIN shown[k] = NamesOf[k]
BY DEF TypeOK, WorldOK, WorkerOK

LEMMA ShrunkNamed ==
  ASSUME NEW vec, NEW m, VectorNamed(vec) PROVE VectorNamed(DeletePartialMatch(vec, m))
BY DeleteMatching DEF VectorNamed

LEMMA GrownNamed ==
  ASSUME NEW vec, NEW with, NEW value, VectorNamed(vec),
         "report_name" \in DOMAIN with, with["report_name"] \in AllNames
  PROVE  VectorNamed(Set(vec, with, value))
BY DEF VectorNamed, Set

LEMMA ClearSummarySeries ==
  ASSUME TypeOK, NamesApart, SeriesInv, labels' = labels,
         NEW k \in Scanners, NEW m \in NamesOf[k], ClearSummary(k, m)
  PROVE  SeriesInv'
<1>1. /\ pc[k] = "idle" /\ pc'[k] = "cleared" /\ name'[k] = m
      /\ shown'[k][m] = None /\ details' = details /\ summary' = DeletePartialMatch(summary, m)
  BY Domains DEF ClearSummary
<1>2. \A q \in Scanners \ {k} :
        /\ pc'[q] = pc[q] /\ name'[q] = name[q] /\ report'[q] = report[q]
        /\ todo'[q] = todo[q] /\ next'[q] = next[q]
  BY Domains DEF ClearSummary
<1>3. \A q \in Scanners : \A n \in NamesOf[q] : n # m => shown'[q][n] = shown[q][n]
  BY Domains DEF ClearSummary
<1>4. Matching(summary', m) = {} /\ \A n : n # m => Matching(summary', n) = Matching(summary, n)
  BY <1>1, DeleteMatching
<1>5. OneOrigin(k, m)
  <2>1. ~Reconciling(k, m)
    BY <1>1 DEF Reconciling
  <2> QED BY <2>1, OriginFollows DEF SeriesInv, SeriesAre
<1>6. OneOrigin(k, m)'
  BY <1>1, <1>5 DEF OneOrigin, TargetLabels
<1>7. SeriesAre(k, m)'
  BY <1>1, <1>4, <1>6 DEF SeriesAre, Reconciling, Publishing, SummaryIs
<1>8. VectorNamed(summary') /\ VectorNamed(details')
  BY <1>1, ShrunkNamed DEF SeriesInv
<1> QED BY <1>1, <1>2, <1>3, <1>4, <1>7, <1>8, OthersKept DEF SeriesInv

LEMMA ClearDetailsSeries ==
  ASSUME TypeOK, NamesApart, SeriesInv, labels' = labels, NEW k \in Scanners, ClearDetails(k)
  PROVE  SeriesInv'
<1> DEFINE m == name[k]
<1>1. m \in NamesOf[k]
  BY DEF ClearDetails, TypeOK, WorkerOK
<1>2. /\ pc[k] = "cleared" /\ pc'[k] \in {"read", "idle"} /\ name' = name
      /\ shown' = shown /\ summary' = summary /\ details' = DeletePartialMatch(details, m)
  BY Domains DEF ClearDetails
<1>3. \A q \in Scanners \ {k} :
        /\ pc'[q] = pc[q] /\ name'[q] = name[q] /\ report'[q] = report[q]
        /\ todo'[q] = todo[q] /\ next'[q] = next[q]
  BY Domains DEF ClearDetails
<1>4. Matching(details', m) = {} /\ \A n : n # m => Matching(details', n) = Matching(details, n)
  BY <1>2, DeleteMatching
<1>5. SeriesAre(k, m) /\ Reconciling(k, m) /\ ~Publishing(k, m)
  BY <1>1, <1>2 DEF SeriesInv, Reconciling, Publishing
<1>6. shown[k][m] = None /\ Matching(summary, m) = {}
  BY <1>5 DEF SeriesAre, SummaryIs
<1>7. SeriesAre(k, m)'
  BY <1>2, <1>4, <1>6 DEF SeriesAre, Reconciling, Publishing, SummaryIs, DetailsAre
<1>8. VectorNamed(summary') /\ VectorNamed(details')
  BY <1>2, ShrunkNamed DEF SeriesInv
<1> HIDE DEF m
<1> QED BY <1>1, <1>2, <1>3, <1>4, <1>7, <1>8, OthersKept DEF SeriesInv, m

LEMMA ReadSeries ==
  ASSUME TypeOK, NamesApart, SeriesInv, labels' = labels, NEW k \in Scanners,
         ReadFails(k) \/ Read(k)
  PROVE  SeriesInv'
<1> DEFINE m == name[k]
<1>1. m \in NamesOf[k]
  BY DEF ReadFails, Read, TypeOK, WorkerOK
<1>2. /\ pc[k] = "read" /\ name' = name
      /\ shown' = shown /\ summary' = summary /\ details' = details
  BY Domains DEF ReadFails, Read, vectors
<1>3. \A q \in Scanners \ {k} :
        /\ pc'[q] = pc[q] /\ name'[q] = name[q] /\ report'[q] = report[q]
        /\ todo'[q] = todo[q] /\ next'[q] = next[q]
  BY Domains DEF ReadFails, Read
<1>4. SeriesAre(k, m) /\ Reconciling(k, m) /\ ~Publishing(k, m)
  BY <1>1, <1>2 DEF SeriesInv, Reconciling, Publishing
<1>5. shown[k][m] = None /\ Matching(summary, m) = {} /\ Matching(details, m) = {}
  BY <1>2, <1>4 DEF SeriesAre, SummaryIs, DetailsAre
<1>6. SeriesAre(k, m)'
  <2>1. CASE ReadFails(k)
    <3>1. pc'[k] = "idle"
      BY <2>1, Domains DEF ReadFails
    <3> QED BY <1>2, <1>5, <3>1 DEF SeriesAre, Reconciling, Publishing, SummaryIs, DetailsAre
  <2>2. CASE Read(k)
    <3>1. /\ pc'[k] = "summary" /\ report' = [report EXCEPT ![k] = content[k][m]]
          /\ todo'[k] = Severities[k] /\ next'[k] = 1
      BY <2>2, Domains DEF Read, TypeOK, WorkerOK
    <3>2. Publishing(k, m)' /\ Reconciling(k, m)'
      BY <1>2, <3>1 DEF Publishing, Reconciling
    <3>3. SummaryIs(k, m)'
      BY <1>2, <1>5, <3>1, <3>2 DEF SummaryIs, SummarySeries
    <3>4. 1..(next'[k] - 1) = {}
      BY <3>1
    <3>5. DetailsAre(k, m)'
      BY <1>2, <1>5, <3>2, <3>4 DEF DetailsAre, DetailSeries
    <3> QED BY <1>2, <1>5, <3>1, <3>3, <3>5 DEF SeriesAre
  <2> QED BY <2>1, <2>2
<1>7. VectorNamed(summary') /\ VectorNamed(details')
  BY <1>2 DEF SeriesInv
<1> HIDE DEF m
<1> QED BY <1>1, <1>2, <1>3, <1>6, <1>7, OthersKept DEF SeriesInv, m

LEMMA SetSummarySeries ==
  ASSUME TypeOK, NamesApart, SeriesInv, labels' = labels, NEW k \in Scanners, SetSummary(k)
  PROVE  SeriesInv'
<1> DEFINE m == name[k]
<1>1. m \in NamesOf[k]
  BY DEF SetSummary, TypeOK, WorkerOK
<1>2. /\ pc[k] = "summary" /\ pc' = pc /\ name' = name /\ report' = report /\ next' = next
      /\ shown' = shown /\ details' = details
  BY DEF SetSummary
<1>3. PICK s \in todo[k] :
        /\ summary' = Set(summary, SummaryLabels(k, m, report[k], s), SeverityCount(k, report[k], s))
        /\ todo' = [todo EXCEPT ![k] = @ \ {s}]
  BY DEF SetSummary
<1>4. \A q \in Scanners \ {k} : todo'[q] = todo[q]
  BY <1>3, Domains
<1>5. todo'[k] = todo[k] \ {s} /\ s \in Severities[k]
  BY <1>3, Domains DEF TypeOK, WorkerOK
<1> DEFINE added == SummaryLabels(k, m, report[k], s)
<1>6. "report_name" \in DOMAIN added /\ added["report_name"] = m
  BY SummaryFields
<1>7. /\ Matching(summary', m) = Matching(summary, m) \cup {added}
      /\ \A n : n # m => Matching(summary', n) = Matching(summary, n)
  <2>1. summary' = Set(summary, added, SeverityCount(k, report[k], s))
    BY <1>3
  <2> HIDE DEF added, m
  <2> QED BY <1>6, <2>1, SetMatching
<1>8. /\ SeriesAre(k, m) /\ Publishing(k, m) /\ Publishing(k, m)' /\ DetailsAre(k, m)
      /\ shown[k][m] = None
  BY <1>1, <1>2 DEF SeriesInv, SeriesAre, Reconciling, Publishing
<1>9. SummaryIs(k, m)'
  <2>1. Matching(summary, m) = SummarySeries(k, m, report[k], Severities[k] \ todo[k])
    BY <1>8 DEF SeriesAre, SummaryIs
  <2>2. Severities[k] \ todo'[k] = (Severities[k] \ todo[k]) \cup {s}
    BY <1>5
  <2>3. Matching(summary', m) = SummarySeries(k, m, report[k], Severities[k] \ todo'[k])
    BY <1>7, <2>1, <2>2 DEF SummarySeries
  <2> QED BY <1>2, <1>8, <2>3 DEF SummaryIs, SummarySeries
<1>10. DetailsAre(k, m)'
  BY <1>2, <1>8 DEF DetailsAre, DetailSeries, DetailLabels, TargetLabels
<1>11. SeriesAre(k, m)'
  BY <1>2, <1>8, <1>9, <1>10 DEF SeriesAre
<1>12. VectorNamed(summary') /\ VectorNamed(details')
  <2>1. m \in AllNames
    BY <1>1 DEF AllNames
  <2> HIDE DEF added
  <2>2. VectorNamed(Set(summary, added, SeverityCount(k, report[k], s)))
    BY <1>6, <2>1, GrownNamed DEF SeriesInv
  <2> QED BY <1>2, <1>3, <2>2 DEF SeriesInv, added
<1> HIDE DEF m, added
<1> QED BY <1>1, <1>2, <1>4, <1>7, <1>11, <1>12, OthersKept DEF SeriesInv, m

LEMMA SetDetailSeries ==
  ASSUME TypeOK, NamesApart, SeriesInv, ReportNamed, labels' = labels,
         NEW k \in Scanners, SetDetail(k)
  PROVE  SeriesInv'
<1> DEFINE m == name[k]
           v == report[k].vulns[next[k]]
           added == DetailLabels(k, m, report[k], v)
<1>1. m \in NamesOf[k] /\ next[k] \in Nat /\ next[k] >= 1
  BY DEF SetDetail, TypeOK, WorkerOK
<1>2. /\ pc[k] = "summary" /\ pc' = pc /\ name' = name /\ report' = report /\ todo' = todo
      /\ shown' = shown /\ summary' = summary /\ TargetLabels # {}
      /\ details' = Set(details, added, Score(k, v))
      /\ next' = [next EXCEPT ![k] = next[k] + 1]
  BY DEF SetDetail
<1>3. next'[k] = next[k] + 1 /\ \A q \in Scanners \ {k} : next'[q] = next[q]
  BY <1>2, Domains
<1>4. "report_name" \in DOMAIN added /\ added["report_name"] = m
  BY <1>2, DetailFields DEF ReportNamed
<1>5. /\ Matching(details', m) = Matching(details, m) \cup {added}
      /\ \A n : n # m => Matching(details', n) = Matching(details, n)
  <2> HIDE DEF added, v, m
  <2> QED BY <1>2, <1>4, SetMatching
<1>6. /\ SeriesAre(k, m) /\ Publishing(k, m) /\ Publishing(k, m)' /\ SummaryIs(k, m)
      /\ shown[k][m] = None
  BY <1>1, <1>2 DEF SeriesInv, SeriesAre, Reconciling, Publishing
<1>7. SummaryIs(k, m)'
  BY <1>2, <1>6 DEF SummaryIs, SummarySeries
<1>8. DetailsAre(k, m)'
  <2>1. Matching(details, m) = DetailSeries(k, m, report[k], 1..(next[k] - 1))
    BY <1>2, <1>6 DEF SeriesAre, DetailsAre
  <2>2. 1..(next'[k] - 1) = (1..(next[k] - 1)) \cup {next[k]}
    BY <1>1, <1>3
  <2>3. DetailSeries(k, m, report[k], 1..(next'[k] - 1))
          = DetailSeries(k, m, report[k], 1..(next[k] - 1)) \cup {added}
    BY <2>2 DEF DetailSeries
  <2>4. Matching(details', m) = DetailSeries(k, m, report[k], 1..(next'[k] - 1))
    BY <1>5, <2>1, <2>3
  <2> QED BY <1>2, <1>6, <2>4, DetailSeriesKept DEF DetailsAre, TargetLabels
<1>9. SeriesAre(k, m)'
  BY <1>2, <1>6, <1>7, <1>8 DEF SeriesAre
<1>10. VectorNamed(summary') /\ VectorNamed(details')
  <2>1. m \in AllNames
    BY <1>1 DEF AllNames
  <2> HIDE DEF added
  <2>2. VectorNamed(Set(details, added, Score(k, v)))
    BY <1>4, <2>1, GrownNamed DEF SeriesInv
  <2> QED BY <1>2, <2>2 DEF SeriesInv, added
<1> HIDE DEF m, added, v
<1> QED BY <1>1, <1>2, <1>3, <1>5, <1>9, <1>10, OthersKept DEF SeriesInv, m

LEMMA FinishSeries ==
  ASSUME TypeOK, NamesApart, SeriesInv, labels' = labels, NEW k \in Scanners, Finish(k)
  PROVE  SeriesInv'
<1> DEFINE m == name[k]
           rep == report[k]
<1>1. m \in NamesOf[k] /\ rep \in Contents[k] /\ next[k] \in 1..(Len(rep.vulns) + 1)
  BY DEF Finish, TypeOK, WorkerOK
<1>2. /\ pc[k] = "summary" /\ pc'[k] = "idle" /\ name' = name /\ todo[k] = {}
      /\ shown'[k][m] = rep /\ summary' = summary /\ details' = details
  BY <1>1, Domains DEF Finish, vectors
<1>3. \A q \in Scanners \ {k} :
        /\ pc'[q] = pc[q] /\ name'[q] = name[q] /\ report'[q] = report[q]
        /\ todo'[q] = todo[q] /\ next'[q] = next[q]
  BY Domains DEF Finish
<1>4. \A q \in Scanners : \A n \in NamesOf[q] : n # m => shown'[q][n] = shown[q][n]
  BY Domains DEF Finish
<1>5. SeriesAre(k, m) /\ Publishing(k, m) /\ ~Reconciling(k, m)' /\ ~Publishing(k, m)'
  BY <1>1, <1>2 DEF SeriesInv, Reconciling, Publishing
<1>6. rep # None /\ Len(rep.vulns) \in Nat /\ DOMAIN rep.vulns = 1..Len(rep.vulns)
  BY <1>1, ContentsAssumption
<1>7. SummaryIs(k, m)'
  <2>1. Matching(summary, m) = SummarySeries(k, m, rep, Severities[k])
    BY <1>2, <1>5 DEF SeriesAre, SummaryIs, SummarySeries
  <2> QED BY <1>2, <1>5, <1>6, <2>1 DEF SummaryIs, SummarySeries
<1>8. DetailsAre(k, m)'
  <2>1. TargetLabels # {} => 1..(next[k] - 1) = DOMAIN rep.vulns
    BY <1>1, <1>6 DEF Finish
  <2>2. DetailsAre(k, m)
    BY <1>2, <1>5 DEF SeriesAre, Publishing
  <2>3. TargetLabels # {} => Matching(details, m) = DetailSeries(k, m, rep, DOMAIN rep.vulns)
    BY <1>5, <2>1, <2>2 DEF DetailsAre
  <2>4. TargetLabels = {} => Matching(details, m) = {}
    BY <2>2 DEF DetailsAre
  <2>5. TargetLabels' = TargetLabels
    BY DEF TargetLabels
  <2>6. Matching(details', m) = IF TargetLabels = {} THEN {} ELSE DetailSeries(k, m, rep, DOMAIN rep.vulns)
    BY <1>2, <2>3, <2>4
  <2>7. DetailSeries(k, m, shown[k][m], DOMAIN shown[k][m].vulns)'
          = DetailSeries(k, m, rep, DOMAIN rep.vulns)
    BY <1>2 DEF DetailSeries, DetailLabels, TargetLabels
  <2> QED BY <1>2, <1>5, <1>6, <2>5, <2>6, <2>7 DEF DetailsAre
<1>9. SeriesAre(k, m)'
  BY <1>5, <1>7, <1>8 DEF SeriesAre
<1>10. VectorNamed(summary') /\ VectorNamed(details')
  BY <1>2 DEF SeriesInv
<1> HIDE DEF m, rep
<1> QED BY <1>1, <1>2, <1>3, <1>4, <1>9, <1>10, OthersKept DEF SeriesInv, m

\* The steps that leave the vectors alone while no worker is in its Reconcile.
LEMMA OutsideSeries ==
  ASSUME TypeOK, SeriesInv, labels' = labels, NEW k \in Scanners,
         \/ BeginRegistration(k) \/ RegisterMetrics(k)
         \/ \E n \in NamesOf[k] : ReportChanges(k, n)
         \/ \E n \in Names : OwnerChanges(n)
         \/ UNCHANGED vars
  PROVE  SeriesInv'
<1>1. summary' = summary /\ details' = details /\ shown' = shown
      /\ name' = name /\ report' = report /\ todo' = todo /\ next' = next
  BY DEF BeginRegistration, RegisterMetrics, ReportChanges, OwnerChanges, vars, vectors, workerVars
<1>2. \A q \in Scanners : \/ pc'[q] = pc[q]
                          \/ pc[q] \in {"idle", "register"} /\ pc'[q] \in {"idle", "register"}
  BY Domains DEF BeginRegistration, RegisterMetrics, ReportChanges, OwnerChanges, vars, workerVars
<1>3. ASSUME NEW q \in Scanners, NEW n \in NamesOf[q] PROVE SeriesAre(q, n)'
  <2>1. SeriesAre(q, n)
    BY DEF SeriesInv
  <2>2. CASE pc'[q] = pc[q]
    BY <1>1, <2>1, <2>2, SeriesKept
  <2>3. CASE pc[q] \in {"idle", "register"} /\ pc'[q] \in {"idle", "register"}
    <3>1. ~Reconciling(q, n) /\ ~Reconciling(q, n)'
      BY <2>3 DEF Reconciling
    <3> QED BY <1>1, <2>1, <3>1, SeriesKept
  <2> QED BY <1>2, <2>2, <2>3
<1>4. VectorNamed(summary') /\ VectorNamed(details')
  BY <1>1 DEF SeriesInv
<1> QED BY <1>3, <1>4 DEF SeriesInv

LEMMA InitSeries == ASSUME Init PROVE SeriesInv
<1>1. DOMAIN summary = {} /\ DOMAIN details = {}
  BY DEF Init
<1>2. \A n : Matching(summary, n) = {} /\ Matching(details, n) = {}
  BY <1>1 DEF Matching
<1>3. \A k \in Scanners : pc[k] = "idle" /\ \A n \in NamesOf[k] : shown[k][n] = None
  BY DEF Init
<1>4. \A k \in Scanners : \A n \in NamesOf[k] : SeriesAre(k, n)
  BY <1>2, <1>3 DEF SeriesAre, Reconciling, Publishing, SummaryIs, DetailsAre
<1> QED BY <1>1, <1>4 DEF SeriesInv, VectorNamed

LEMMA NextSeries ==
  ASSUME TypeOK, NamesApart, SeriesInv, ReportNamed, [Next]_vars PROVE SeriesInv'
<1>1. CASE UNCHANGED vars
  <2>1. labels' = labels /\ "trivy" \in Scanners
    BY <1>1 DEF vars, Scanners
  <2> QED BY <1>1, <2>1, OutsideSeries
<1>2. CASE Next
  <2>1. labels' = labels /\ "trivy" \in Scanners
    BY <1>2 DEF Next, Scanners
  <2>2. ASSUME NEW k \in Scanners, Worker(k) PROVE SeriesInv'
    BY <2>1, <2>2, OutsideSeries, ClearSummarySeries, ClearDetailsSeries, ReadSeries,
       SetSummarySeries, SetDetailSeries, FinishSeries DEF Worker
  <2> QED BY <1>2, <2>1, <2>2, OutsideSeries DEF Next
<1> QED BY <1>1, <1>2

\* The flag is parsed as it should be, and the labels stay as they are.
FlagInv == LabelsAsAsked /\ (flag = Unset => labels = << >>)

LEMMA InitFlag == ASSUME Init PROVE FlagInv
<1>1. flag # Unset => flag \in Seq(Items) /\ labels = Parsed(flag)
  BY FlagsAssumption DEF Init
<1>2. MetricLabels \in Seq(Items)
  <2>1. ToSet(MetricLabels) \subseteq Items
    BY DEF Items
  <2> QED BY <2>1, LabelsOf
<1>3. ASSUME flag # Unset, ToSet(flag) \subseteq ToSet(MetricLabels) \cup {"all"}
      PROVE  /\ Cardinality(ToSet(labels)) = Len(labels)
             /\ ToSet(labels) = IF "all" \in ToSet(flag) THEN ToSet(MetricLabels)
                               ELSE ToSet(flag) \cup {"report_name"}
  <2>1. labels \in Lists(Items) /\ ToSet(labels) = Asked(ToSet(flag)) \cup {"report_name"}
    BY <1>1, <1>2, <1>3, NoneAssumption, FlagParsed
  <2>2. "report_name" \in ToSet(MetricLabels)
    BY KnownLabels
  <2> QED BY <2>1, <2>2, DistinctCounted DEF Asked
<1>4. ASSUME flag # Unset, ~(ToSet(flag) \subseteq ToSet(MetricLabels) \cup {"all"})
      PROVE  labels = None
  BY <1>1, <1>2, <1>4, NoneAssumption, FlagParsed
<1> QED BY <1>3, <1>4 DEF FlagInv, LabelsAsAsked, Init

LEMMA FlagInvariant == Spec => []FlagInv
<1>1. FlagInv /\ [Next]_vars => FlagInv'
  BY DEF FlagInv, LabelsAsAsked, Next, vars
<1> QED BY <1>1, InitFlag, PTL DEF Spec

\* The detail series have the labels that were asked for, each once, and always
\* the report name; an item of the flag that is not known ends main.
THEOREM LabelsAsTheFlagSays == Spec => []LabelsAsAsked
<1>1. FlagInv => LabelsAsAsked
  BY DEF FlagInv
<1> QED BY <1>1, FlagInvariant, PTL

LEMMA NamedAsAsked == ASSUME FlagInv PROVE ReportNamed
<1>1. "report_name" \in ToSet(MetricLabels)
  BY KnownLabels
<1>2. ToSet(<< >>) = {}
  <2>1. DOMAIN << >> = {}
    OBVIOUS
  <2> QED BY <2>1 DEF ToSet
<1> QED BY <1>1, <1>2 DEF FlagInv, LabelsAsAsked, ReportNamed, TargetLabels

-----------------------------------------------------------------------------
(* The properties of the series.                                            *)

\* The series of every report are as far as its worker is.
LEMMA SeriesInvariant == ASSUME NamesApart PROVE Spec => []SeriesInv
<1>1. Init => SeriesInv
  BY InitSeries
<1>2. TypeOK /\ SeriesInv /\ FlagInv /\ [Next]_vars => SeriesInv'
  BY NextSeries, NamedAsAsked
<1> QED BY <1>1, <1>2, FlagInvariant, MetricsTypeCorrect, PTL DEF Spec

LEMMA IdleNot == ASSUME NEW k, NEW n, Idle(k, n) PROVE ~Reconciling(k, n) /\ ~Publishing(k, n)
BY DEF Idle, Reconciling, Publishing

LEMMA SummaryKnown ==
  ASSUME SeriesInv, NEW k \in Scanners, NEW n \in NamesOf[k]
  PROVE  /\ SummaryOf(k, n) = Matching(summary, n)
         /\ \E rep, S : Matching(summary, n) \subseteq SummarySeries(k, n, rep, S)
<1>1. SummaryIs(k, n)
  BY DEF SeriesInv, SeriesAre
<1>2. PICK rep, S : Matching(summary, n) \subseteq SummarySeries(k, n, rep, S)
  BY <1>1 DEF SummaryIs
<1>3. \A l \in Matching(summary, n) : l.scanner = k
  BY <1>2, SummaryFields DEF SummarySeries
<1>4. \A l \in DOMAIN summary : "report_name" \in DOMAIN l
  BY DEF SeriesInv, VectorNamed
<1> QED BY <1>2, <1>3, <1>4 DEF SummaryOf, Matching

\* Outside its Reconcile a report that is shown has one summary series per
\* severity, of its own image, and one that is not shown has none: whatever was
\* written, deleted, handed over and retried before, and at whatever moment.
THEOREM SummaryIsTheReport == ASSUME NamesApart PROVE Spec => []SummaryMatchesReport
<1>1. SeriesInv => SummaryMatchesReport
  <2> SUFFICES ASSUME SeriesInv, NEW k \in Scanners, NEW n \in NamesOf[k], Idle(k, n)
               PROVE  IF shown[k][n] = None
                      THEN SummaryOf(k, n) = {}
                      ELSE /\ {l.severity : l \in SummaryOf(k, n)} = Severities[k]
                           /\ \A l, o \in SummaryOf(k, n) : l.severity = o.severity => l = o
                           /\ \A l \in SummaryOf(k, n) : l.image = shown[k][n].image
    BY DEF SummaryMatchesReport
  <2>1. /\ SummaryOf(k, n) = Matching(summary, n)
        /\ Matching(summary, n) = IF shown[k][n] = None THEN {}
                                  ELSE SummarySeries(k, n, shown[k][n], Severities[k])
    BY SummaryKnown, IdleNot DEF SeriesInv, SeriesAre, SummaryIs
  <2> DEFINE rep == shown[k][n]
             T == SummaryOf(k, n)
  <2>2. CASE rep # None
    <3>1. T = {SummaryLabels(k, n, rep, s) : s \in Severities[k]}
      BY <2>1, <2>2 DEF SummarySeries
    <3>2. \A s : /\ SummaryLabels(k, n, rep, s).severity = s
                 /\ SummaryLabels(k, n, rep, s).image = rep.image
      BY SummaryFields
    <3> HIDE DEF T, rep
    <3>3. {l.severity : l \in T} = Severities[k]
      BY <3>1, <3>2
    <3>4. \A l, o \in T : l.severity = o.severity => l = o
      BY <3>1, <3>2
    <3>5. \A l \in T : l.image = rep.image
      BY <3>1, <3>2
    <3> QED BY <2>2, <3>3, <3>4, <3>5 DEF T, rep
  <2> QED BY <2>1, <2>2
<1> QED BY <1>1, SeriesInvariant, PTL

LEMMA DetailsKnown ==
  ASSUME SeriesInv, NEW k \in Scanners, NEW n \in NamesOf[k]
  PROVE  OneOrigin(k, n) /\ DetailsOf(k, n) = Matching(details, n)
<1>1. OneOrigin(k, n)
  BY OriginFollows DEF SeriesInv, SeriesAre
<1> QED BY <1>1 DEF OneOrigin, DetailsOf, Matching

\* At no moment does a vector hold series of two images for one report.
THEOREM OneImageAtATime == ASSUME NamesApart PROVE Spec => []OneImagePerReport
<1>1. SeriesInv => OneImagePerReport
  <2> SUFFICES ASSUME SeriesInv PROVE OneImagePerReport
    OBVIOUS
  <2>1. ASSUME NEW l \in DOMAIN summary, NEW o \in DOMAIN summary,
               l.scanner = o.scanner, l.report_name = o.report_name
        PROVE  l.image = o.image
    <3>1. PICK k \in Scanners : l.report_name \in NamesOf[k]
      BY DEF SeriesInv, VectorNamed, AllNames
    <3> DEFINE n == l.report_name
    <3>2. {l, o} \subseteq Matching(summary, n)
      BY <2>1 DEF Matching, SeriesInv, VectorNamed
    <3>3. PICK rep, S : Matching(summary, n) \subseteq SummarySeries(k, n, rep, S)
      BY <3>1, SummaryKnown
    <3>4. \A x \in Matching(summary, n) : x.image = rep.image
      BY <3>3, SummaryFields DEF SummarySeries
    <3> QED BY <3>2, <3>4
  <2>2. ASSUME "image" \in TargetLabels, NEW l \in DOMAIN details, NEW o \in DOMAIN details,
               l["report_name"] = o["report_name"]
        PROVE  l["image"] = o["image"]
    <3>1. PICK k \in Scanners : l["report_name"] \in NamesOf[k]
      BY DEF SeriesInv, VectorNamed, AllNames
    <3> DEFINE n == l["report_name"]
    <3>2. {l, o} \subseteq Matching(details, n)
      BY <2>2 DEF Matching, SeriesInv, VectorNamed
    <3>3. OneOrigin(k, n)
      BY <3>1, DetailsKnown
    <3> QED BY <2>2, <3>2, <3>3 DEF OneOrigin
  <2> QED BY <2>1, <2>2 DEF OneImagePerReport
<1> QED BY <1>1, SeriesInvariant, PTL

\* Two vulnerabilities have the same labels if they are alike.
LEMMA AlikeLabels ==
  ASSUME NEW k, NEW n, NEW rep, NEW v, NEW w, TargetLabels \subseteq ToSet(MetricLabels)
  PROVE  DetailLabels(k, n, rep, v) = DetailLabels(k, n, rep, w) <=> Alike(v, w)
<1>1. TargetLabels \subseteq ReportLabels \cup VulnerabilityLabels
      /\ ReportLabels \cap VulnerabilityLabels = {}
  BY KnownLabels DEF ReportLabels, VulnerabilityLabels
<1>2. \A l \in TargetLabels \ ReportLabels : l \in TargetLabels \cap VulnerabilityLabels
  BY <1>1
<1>3. Alike(v, w) => DetailLabels(k, n, rep, v) = DetailLabels(k, n, rep, w)
  BY <1>2 DEF Alike, DetailLabels
<1>4. ASSUME DetailLabels(k, n, rep, v) = DetailLabels(k, n, rep, w),
             NEW l \in TargetLabels \cap VulnerabilityLabels
      PROVE  VulnerabilityValue(l, v) = VulnerabilityValue(l, w)
  BY <1>1, <1>4, DetailFields
<1> QED BY <1>3, <1>4 DEF Alike

LEMMA LastOfAlike ==
  ASSUME NEW vulns, NEW L \in Nat, DOMAIN vulns = 1..L, NEW i \in 1..L
  PROVE  \E j \in Shown(vulns) : Alike(vulns[i], vulns[j])
<1> DEFINE S == {j \in 1..L : Alike(vulns[i], vulns[j])}
           m == Max(S)
<1>1. \A v, w, x : Alike(v, v) /\ (Alike(v, w) => Alike(w, v))
                   /\ (Alike(v, w) /\ Alike(w, x) => Alike(v, x))
  BY DEF Alike
<1>2. m \in S /\ \A y \in S : y <= m
  <2>1. S \subseteq 0..L /\ i \in S
    BY <1>1
  <2> HIDE DEF S
  <2> QED BY <2>1, Greatest
<1> HIDE DEF m
<1>3. m \in Shown(vulns)
  BY <1>1, <1>2 DEF Shown
<1> QED BY <1>2, <1>3

LEMMA OneEach ==
  ASSUME NEW k, NEW n, NEW rep, TargetLabels \subseteq ToSet(MetricLabels),
         NEW L \in Nat, DOMAIN rep.vulns = 1..L
  PROVE  Cardinality(DetailSeries(k, n, rep, 1..L)) = Cardinality(Shown(rep.vulns))
<1> DEFINE vulns == rep.vulns
           D == DetailSeries(k, n, rep, 1..L)
           f == [i \in Shown(vulns) |-> DetailLabels(k, n, rep, vulns[i])]
<1>1. Shown(vulns) \subseteq 1..L
  BY DEF Shown
<1>2. \A i, j : DetailLabels(k, n, rep, vulns[i]) = DetailLabels(k, n, rep, vulns[j])
                  <=> Alike(vulns[i], vulns[j])
  BY AlikeLabels
<1>3. f \in [Shown(vulns) -> D]
  BY <1>1 DEF DetailSeries
<1>4. ASSUME NEW i \in Shown(vulns), NEW j \in Shown(vulns), f[i] = f[j] PROVE i = j
  <2>1. Alike(vulns[i], vulns[j]) /\ Alike(vulns[j], vulns[i])
    BY <1>2, <1>4
  <2>2. i \in 1..L /\ j \in 1..L /\ i <= j /\ j <= i
    BY <1>1, <2>1 DEF Shown
  <2> QED BY <2>2
<1>5. ASSUME NEW l \in D PROVE \E j \in Shown(vulns) : f[j] = l
  <2>1. PICK i \in 1..L : l = DetailLabels(k, n, rep, vulns[i])
    BY DEF DetailSeries
  <2>2. PICK j \in Shown(vulns) : Alike(vulns[i], vulns[j])
    BY LastOfAlike
  <2> QED BY <1>2, <2>1, <2>2
<1> HIDE DEF f, D, vulns
<1>6. f \in Bijection(Shown(vulns), D)
  BY <1>3, <1>4, <1>5 DEF Bijection, Injection, Surjection, IsInjective
<1>7. IsFiniteSet(Shown(vulns))
  BY <1>1, FS_Interval, FS_Subset
<1> QED BY <1>6, <1>7, FS_Bijection DEF ExistsBijection, D, vulns

LEMMA LabelsKnown == ASSUME FlagInv PROVE TargetLabels \subseteq ToSet(MetricLabels)
<1>1. "report_name" \in ToSet(MetricLabels) /\ ToSet(<< >>) = {}
  <2>1. DOMAIN << >> = {}
    OBVIOUS
  <2> QED BY <2>1, KnownLabels DEF ToSet
<1> QED BY <1>1 DEF FlagInv, LabelsAsAsked, TargetLabels

\* Outside its Reconcile a report that is shown has one detail series for each
\* combination of the labels among its vulnerabilities, whichever labels were
\* chosen, and no series is left of one that is not shown.
THEOREM DetailsAreTheReport == ASSUME NamesApart PROVE Spec => []DetailsMatchReport
<1>1. TypeOK /\ SeriesInv /\ FlagInv => DetailsMatchReport
  <2> SUFFICES ASSUME TypeOK, SeriesInv, FlagInv PROVE DetailsMatchReport
    OBVIOUS
  <2>1. ASSUME NEW k \in Scanners, NEW n \in NamesOf[k], Idle(k, n)
        PROVE  IF shown[k][n] = None \/ TargetLabels = {}
               THEN DetailsOf(k, n) = {}
               ELSE Cardinality(DetailsOf(k, n)) = Cardinality(Shown(shown[k][n].vulns))
    <3> DEFINE rep == shown[k][n]
    <3>1. DetailsOf(k, n) = IF TargetLabels = {} \/ rep = None THEN {}
                            ELSE DetailSeries(k, n, rep, DOMAIN rep.vulns)
      BY <2>1, DetailsKnown, IdleNot DEF SeriesInv, SeriesAre, DetailsAre
    <3>2. CASE rep # None
      <4>1. rep \in Contents[k]
        BY <3>2 DEF TypeOK, WorldOK
      <4>2. Len(rep.vulns) \in Nat /\ DOMAIN rep.vulns = 1..Len(rep.vulns)
        BY <4>1, ContentsAssumption
      <4> HIDE DEF rep
      <4>3. Cardinality(DetailSeries(k, n, rep, DOMAIN rep.vulns)) = Cardinality(Shown(rep.vulns))
        BY <4>2, LabelsKnown, OneEach
      <4> QED BY <3>1, <3>2, <4>3 DEF rep
    <3> QED BY <3>1, <3>2
  <2>2. ASSUME NEW l \in DOMAIN details
        PROVE  \E k \in Scanners : \E n \in NamesOf[k] : l \in DetailsOf(k, n)
    <3>1. PICK k \in Scanners : l["report_name"] \in NamesOf[k]
      BY DEF SeriesInv, VectorNamed, AllNames
    <3>2. l \in Matching(details, l["report_name"])
      BY DEF Matching, SeriesInv, VectorNamed
    <3> QED BY <3>1, <3>2, DetailsKnown
  <2> QED BY <2>1, <2>2 DEF DetailsMatchReport
<1> QED BY <1>1, SeriesInvariant, FlagInvariant, MetricsTypeCorrect, PTL

-----------------------------------------------------------------------------
(* The values of the detail series.                                         *)

ScoresTo(k, n, rep, m) ==
  \A i \in 1..m : (\A j \in 1..m : Alike(rep.vulns[i], rep.vulns[j]) => j <= i) =>
    LET l == DetailLabels(k, n, rep, rep.vulns[i])
    IN  l \in DOMAIN details /\ details[l] = Score(k, rep.vulns[i])

\* Of the vulnerabilities that share a series, the last that was set counts.
ScoresAre(k, n) ==
  TargetLabels # {} =>
    /\ Publishing(k, n) => ScoresTo(k, n, report[k], next[k] - 1)
    /\ ~Reconciling(k, n) /\ shown[k][n] # None =>
         ScoresTo(k, n, shown[k][n], Len(shown[k][n].vulns))

ScoresInv == \A k \in Scanners : \A n \in NamesOf[k] : ScoresAre(k, n)

LEMMA ScoresToKept ==
  ASSUME NEW k, NEW n, NEW rep, NEW m, ScoresTo(k, n, rep, m),
         TargetLabels # {}, ReportNamed, labels' = labels,
         \A l \in Matching(details, n) : l \in DOMAIN details' /\ details'[l] = details[l]
  PROVE  ScoresTo(k, n, rep, m)'
<1>1. TargetLabels' = TargetLabels
  BY DEF TargetLabels
<1>2. \A v, w : Alike(v, w)' <=> Alike(v, w)
  BY <1>1 DEF Alike
<1>3. \A v : DetailLabels(k, n, rep, v)' = DetailLabels(k, n, rep, v)
  BY <1>1 DEF DetailLabels
<1>4. \A v : DetailLabels(k, n, rep, v) \in DOMAIN details =>
                DetailLabels(k, n, rep, v) \in Matching(details, n)
  BY DetailFields DEF ReportNamed, Matching
<1> QED BY <1>2, <1>3, <1>4 DEF ScoresTo

LEMMA ScoresKept ==
  ASSUME NEW k, NEW n, ScoresAre(k, n), ReportNamed, labels' = labels,
         \A l \in Matching(details, n) : l \in DOMAIN details' /\ details'[l] = details[l],
         shown'[k][n] = shown[k][n],
         \/ /\ pc'[k] = pc[k] /\ name'[k] = name[k] /\ report'[k] = report[k]
            /\ next'[k] = next[k]
         \/ ~Reconciling(k, n) /\ ~Reconciling(k, n)'
  PROVE  ScoresAre(k, n)'
<1>1. TargetLabels' = TargetLabels
  BY DEF TargetLabels
<1>2. \A rep, m : TargetLabels # {} /\ ScoresTo(k, n, rep, m) => ScoresTo(k, n, rep, m)'
  BY ScoresToKept
<1>3. CASE /\ pc'[k] = pc[k] /\ name'[k] = name[k] /\ report'[k] = report[k]
           /\ next'[k] = next[k]
  <2>1. (Reconciling(k, n)' <=> Reconciling(k, n)) /\ (Publishing(k, n)' <=> Publishing(k, n))
    BY <1>3 DEF Reconciling, Publishing
  <2> QED BY <1>1, <1>2, <1>3, <2>1 DEF ScoresAre
<1>4. CASE ~Reconciling(k, n) /\ ~Reconciling(k, n)'
  <2>1. ~Publishing(k, n) /\ ~Publishing(k, n)'
    BY <1>4 DEF Reconciling, Publishing
  <2> QED BY <1>1, <1>2, <1>4, <2>1 DEF ScoresAre
<1> QED BY <1>3, <1>4

\* A step of the worker of q that concerns the report m only.
LEMMA OtherScoresKept ==
  ASSUME NamesApart, ScoresInv, ReportNamed, NEW q \in Scanners, NEW m \in NamesOf[q],
         labels' = labels,
         \A k \in Scanners \ {q} :
           /\ pc'[k] = pc[k] /\ name'[k] = name[k] /\ report'[k] = report[k]
           /\ next'[k] = next[k],
         name'[q] = m, pc[q] \in {"idle", "register"} \/ name[q] = m,
         \A k \in Scanners : \A n \in NamesOf[k] : n # m => shown'[k][n] = shown[k][n],
         \A n : n # m => \A l \in Matching(details, n) :
                          l \in DOMAIN details' /\ details'[l] = details[l],
         ScoresAre(q, m)'
  PROVE  ScoresInv'
<1> SUFFICES ASSUME NEW k \in Scanners, NEW n \in NamesOf[k] PROVE ScoresAre(k, n)'
  BY DEF ScoresInv
<1>1. ScoresAre(k, n)
  BY DEF ScoresInv
<1>2. CASE n = m
  <2>1. k = q
    BY <1>2 DEF NamesApart
  <2> QED BY <1>2, <2>1
<1>3. CASE n # m /\ k # q
  BY <1>1, <1>3, ScoresKept
<1>4. CASE n # m /\ k = q
  <2>1. ~Reconciling(k, n) /\ ~Reconciling(k, n)'
    BY <1>4 DEF Reconciling
  <2> QED BY <1>1, <1>4, <2>1, ScoresKept
<1> QED BY <1>2, <1>3, <1>4

\* The steps that leave the detail vector alone.
LEMMA OtherStepsScores ==
  ASSUME TypeOK, NamesApart, ScoresInv, ReportNamed, labels' = labels, NEW k \in Scanners,
         \/ BeginRegistration(k) \/ RegisterMetrics(k)
         \/ \E n \in NamesOf[k] : ReportChanges(k, n)
         \/ \E n \in Names : OwnerChanges(n)
         \/ SetSummary(k) \/ UNCHANGED vars
  PROVE  ScoresInv'
<1>1. details' = details /\ shown' = shown /\ name' = name /\ report' = report /\ next' = next
  BY DEF BeginRegistration, RegisterMetrics, ReportChanges, OwnerChanges, SetSummary, vars,
         vectors, workerVars
<1>2. \A q \in Scanners : \/ pc'[q] = pc[q]
                          \/ pc[q] \in {"idle", "register"} /\ pc'[q] \in {"idle", "register"}
  BY Domains DEF BeginRegistration, RegisterMetrics, ReportChanges, OwnerChanges, SetSummary,
                 vars, workerVars
<1>3. ASSUME NEW q \in Scanners, NEW n \in NamesOf[q] PROVE ScoresAre(q, n)'
  <2>1. ScoresAre(q, n)
    BY DEF ScoresInv
  <2>2. \A l \in Matching(details, n) : l \in DOMAIN details' /\ details'[l] = details[l]
    BY <1>1 DEF Matching
  <2>3. CASE pc'[q] = pc[q]
    BY <1>1, <2>1, <2>2, <2>3, ScoresKept
  <2>4. CASE pc[q] \in {"idle", "register"} /\ pc'[q] \in {"idle", "register"}
    <3>1. ~Reconciling(q, n) /\ ~Reconciling(q, n)'
      BY <2>4 DEF Reconciling
    <3> QED BY <1>1, <2>1, <2>2, <3>1, ScoresKept
  <2> QED BY <1>2, <2>3, <2>4
<1> QED BY <1>3 DEF ScoresInv

LEMMA ClearScores ==
  ASSUME TypeOK, NamesApart, SeriesInv, ScoresInv, ReportNamed, labels' = labels,
         NEW k \in Scanners, NEW m \in NamesOf[k],
         ClearSummary(k, m) \/ (m = name[k] /\ (ClearDetails(k) \/ ReadFails(k) \/ Read(k)))
  PROVE  ScoresInv'
<1>1. /\ \A q \in Scanners \ {k} :
           /\ pc'[q] = pc[q] /\ name'[q] = name[q] /\ report'[q] = report[q]
           /\ next'[q] = next[q]
      /\ \A q \in Scanners : \A n \in NamesOf[q] : n # m => shown'[q][n] = shown[q][n]
      /\ name'[k] = m /\ (pc[k] \in {"idle", "register"} \/ name[k] = m)
  BY Domains DEF ClearSummary, ClearDetails, ReadFails, Read
<1>2. \A n : n # m => \A l \in Matching(details, n) :
                      l \in DOMAIN details' /\ details'[l] = details[l]
  BY DEF ClearSummary, ClearDetails, ReadFails, Read, vectors, DeletePartialMatch, Matching
<1>3. shown'[k][m] = None
  <2>1. CASE ClearSummary(k, m)
    BY <2>1, Domains DEF ClearSummary
  <2>2. CASE m = name[k] /\ (ClearDetails(k) \/ ReadFails(k) \/ Read(k))
    <3>1. Reconciling(k, m) /\ shown' = shown
      BY <2>2 DEF Reconciling, ClearDetails, ReadFails, Read
    <3> QED BY <3>1 DEF SeriesInv, SeriesAre
  <2> QED BY <2>1, <2>2
<1>4. pc'[k] = "summary" => next'[k] = 1
  BY Domains DEF ClearSummary, ClearDetails, ReadFails, Read, TypeOK, WorkerOK
<1>5. ScoresAre(k, m)'
  <2>1. pc'[k] = "summary" => 1..(next'[k] - 1) = {}
    BY <1>4
  <2> QED BY <1>3, <2>1 DEF ScoresAre, ScoresTo, Publishing
<1> QED BY <1>1, <1>2, <1>5, OtherScoresKept

LEMMA SetDetailScores ==
  ASSUME TypeOK, NamesApart, SeriesInv, ScoresInv, ReportNamed, labels' = labels,
         TargetLabels \subseteq ToSet(MetricLabels), NEW k \in Scanners, SetDetail(k)
  PROVE  ScoresInv'
<1> DEFINE m == name[k]
           rep == report[k]
           top == next[k]
           added == DetailLabels(k, m, rep, rep.vulns[top])
           value == Score(k, rep.vulns[top])
<1>1. m \in NamesOf[k] /\ top \in Nat /\ top >= 1
  BY DEF SetDetail, TypeOK, WorkerOK
<1>2. /\ pc[k] = "summary" /\ pc' = pc /\ name' = name /\ report' = report
      /\ shown' = shown /\ TargetLabels # {} /\ next' = [next EXCEPT ![k] = top + 1]
      /\ details' = Set(details, added, value)
  BY DEF SetDetail
<1>3. next'[k] = top + 1 /\ \A q \in Scanners \ {k} : next'[q] = next[q]
  BY <1>2, Domains
<1>4. added["report_name"] = m
  BY <1>2, DetailFields DEF ReportNamed
<1> HIDE DEF value, added
<1>5. /\ DOMAIN details' = DOMAIN details \cup {added} /\ details'[added] = value
      /\ \A l \in DOMAIN details \ {added} : details'[l] = details[l]
  BY <1>2 DEF Set
<1>6. \A n : n # m => \A l \in Matching(details, n) :
                      l \in DOMAIN details' /\ details'[l] = details[l]
  BY <1>4, <1>5 DEF Matching
<1>7. TargetLabels' = TargetLabels
  BY DEF TargetLabels
<1>8. \A v, w : Alike(v, w)' <=> Alike(v, w)
  BY <1>7 DEF Alike
<1>9. \A q, n, r, v : DetailLabels(q, n, r, v)' = DetailLabels(q, n, r, v)
  BY <1>7 DEF DetailLabels
<1>10. ScoresTo(k, m, rep, top - 1)
  BY <1>1, <1>2 DEF ScoresInv, ScoresAre, Publishing
<1>11. Publishing(k, m)' /\ Reconciling(k, m)'
  BY <1>2 DEF Publishing, Reconciling
<1>12. ASSUME NEW i \in 1..top, \A j \in 1..top : Alike(rep.vulns[i], rep.vulns[j]) => j <= i
       PROVE  LET l == DetailLabels(k, m, rep, rep.vulns[i])
              IN  l \in DOMAIN details' /\ details'[l] = Score(k, rep.vulns[i])
  <2>1. CASE i = top
    BY <1>5, <2>1 DEF added, value
  <2>2. CASE i # top
    <3> DEFINE l == DetailLabels(k, m, rep, rep.vulns[i])
    <3>1. i \in 1..(top - 1) /\ \A j \in 1..(top - 1) : j \in 1..top
      BY <1>1, <2>2
    <3>2. ~Alike(rep.vulns[i], rep.vulns[top])
      BY <1>1, <1>12, <2>2
    <3>3. l # added
      BY <3>2, AlikeLabels DEF added
    <3>4. l \in DOMAIN details /\ details[l] = Score(k, rep.vulns[i])
      BY <1>10, <1>12, <3>1 DEF ScoresTo
    <3> QED BY <1>5, <3>3, <3>4
  <2> QED BY <2>1, <2>2
<1>13. ScoresAre(k, m)'
  <2>1. next'[k] - 1 = top
    BY <1>1, <1>3
  <2>2. ASSUME NEW n, NEW r, NEW p, n = m, r = rep, p = top PROVE ScoresTo(k, n, r, p)'
    <3> HIDE DEF m, rep, top
    <3> QED BY <1>8, <1>9, <1>12, <2>2 DEF ScoresTo
  <2>3. ScoresTo(k, m, report[k], next[k] - 1)'
    BY <1>2, <2>1, <2>2
  <2> QED BY <1>2, <1>11, <2>3 DEF ScoresAre
<1> HIDE DEF m, rep, top
<1> QED BY <1>1, <1>2, <1>3, <1>6, <1>13, OtherScoresKept DEF m

LEMMA FinishScores ==
  ASSUME TypeOK, NamesApart, ScoresInv, ReportNamed, labels' = labels,
         NEW k \in Scanners, Finish(k)
  PROVE  ScoresInv'
<1> DEFINE m == name[k]
           rep == report[k]
<1>1. m \in NamesOf[k] /\ rep \in Contents[k] /\ next[k] \in 1..(Len(rep.vulns) + 1)
  BY DEF Finish, TypeOK, WorkerOK
<1>2. /\ pc[k] = "summary" /\ pc'[k] = "idle" /\ name' = name /\ shown'[k][m] = rep
      /\ details' = details
  BY <1>1, Domains DEF Finish, vectors
<1>3. /\ \A q \in Scanners \ {k} :
           /\ pc'[q] = pc[q] /\ name'[q] = name[q] /\ report'[q] = report[q]
           /\ next'[q] = next[q]
      /\ \A q \in Scanners : \A n \in NamesOf[q] : n # m => shown'[q][n] = shown[q][n]
  BY Domains DEF Finish
<1>4. \A n : \A l \in Matching(details, n) : l \in DOMAIN details' /\ details'[l] = details[l]
  BY <1>2 DEF Matching
<1>5. Len(rep.vulns) \in Nat
  BY <1>1, ContentsAssumption
<1>6. TargetLabels # {} => ScoresTo(k, m, rep, Len(rep.vulns))
  <2>1. TargetLabels # {} => next[k] - 1 = Len(rep.vulns)
    BY <1>1, <1>5 DEF Finish
  <2>2. Publishing(k, m)
    BY <1>2 DEF Publishing
  <2> QED BY <1>1, <2>1, <2>2 DEF ScoresInv, ScoresAre
<1>7. \A r, p : TargetLabels # {} /\ ScoresTo(k, m, r, p) => ScoresTo(k, name[k], r, p)'
  <2>1. \A q, n, r, p : TargetLabels # {} /\ ScoresTo(q, n, r, p) => ScoresTo(q, n, r, p)'
    BY <1>4, ScoresToKept
  <2> QED BY <1>2, <2>1
<1>8. ScoresAre(k, m)'
  <2>1. TargetLabels' = TargetLabels /\ ~Publishing(k, m)'
    BY <1>2 DEF TargetLabels, Publishing
  <2> QED BY <1>2, <1>6, <1>7, <2>1 DEF ScoresAre
<1> HIDE DEF m, rep
<1> QED BY <1>1, <1>2, <1>3, <1>4, <1>8, OtherScoresKept DEF m

LEMMA NextScores ==
  ASSUME TypeOK, NamesApart, SeriesInv, FlagInv, ScoresInv, [Next]_vars PROVE ScoresInv'
<1>1. ReportNamed /\ TargetLabels \subseteq ToSet(MetricLabels) /\ "trivy" \in Scanners
  BY NamedAsAsked, LabelsKnown DEF Scanners
<1>2. labels' = labels
  BY DEF Next, vars
<1>3. ASSUME NEW k \in Scanners, Worker(k) PROVE ScoresInv'
  <2>1. CASE \E n \in NamesOf[k] : ClearSummary(k, n)
    BY <1>1, <1>2, <2>1, ClearScores
  <2>2. CASE ClearDetails(k) \/ ReadFails(k) \/ Read(k)
    <3>1. name[k] \in NamesOf[k]
      BY <2>2 DEF ClearDetails, ReadFails, Read, TypeOK, WorkerOK
    <3> QED BY <1>1, <1>2, <2>2, <3>1, ClearScores
  <2> QED BY <1>1, <1>2, <1>3, <2>1, <2>2, OtherStepsScores, SetDetailScores, FinishScores DEF Worker
<1> QED BY <1>1, <1>2, <1>3, OtherStepsScores DEF Next

\* The value of a detail series is the score of its vulnerability by the preferred
\* version of CVSS, or the highest there is; of the last vulnerability, if several
\* share the series.
THEOREM ScoresAreThePreferred == ASSUME NamesApart PROVE Spec => []ScoresMatchReport
<1>1. Init => ScoresInv
  BY DEF Init, ScoresInv, ScoresAre, Publishing
<1>2. TypeOK /\ SeriesInv /\ FlagInv /\ ScoresInv /\ [Next]_vars => ScoresInv'
  BY NextScores
<1>3. TypeOK /\ ScoresInv => ScoresMatchReport
  <2> SUFFICES ASSUME TypeOK, ScoresInv, TargetLabels # {}, NEW k \in Scanners,
                      NEW n \in NamesOf[k], Idle(k, n), shown[k][n] # None,
                      NEW i \in Shown(shown[k][n].vulns)
               PROVE  \E l \in DOMAIN details :
                        LET v == shown[k][n].vulns[i]
                        IN  l = DetailLabels(k, n, shown[k][n], v)
                            /\ details[l] = ReferenceScore(k, v)
    BY DEF ScoresMatchReport
  <2> DEFINE rep == shown[k][n]
             v == rep.vulns[i]
             l == DetailLabels(k, n, rep, v)
  <2>1. rep \in Contents[k]
    BY DEF TypeOK, WorldOK
  <2>2. Len(rep.vulns) \in Nat /\ DOMAIN rep.vulns = 1..Len(rep.vulns)
        /\ \A j \in DOMAIN rep.vulns : rep.vulns[j].cvss \in Seq(Entries)
    BY <2>1, ContentsAssumption
  <2>3. i \in 1..Len(rep.vulns)
        /\ \A j \in 1..Len(rep.vulns) : Alike(rep.vulns[i], rep.vulns[j]) => j <= i
    BY <2>2 DEF Shown
  <2>4. ScoresTo(k, n, rep, Len(rep.vulns))
    BY IdleNot DEF ScoresInv, ScoresAre
  <2>5. l \in DOMAIN details /\ details[l] = Score(k, v)
    BY <2>3, <2>4 DEF ScoresTo
  <2>6. Score(k, v) = ReferenceScore(k, v)
    BY <2>2, <2>3, ScoreIsReference
  <2> QED BY <2>5, <2>6
<1> QED BY <1>1, <1>2, <1>3, SeriesInvariant, FlagInvariant, MetricsTypeCorrect, PTL DEF Spec

-----------------------------------------------------------------------------
(* The values of the summary series.                                        *)

CountsOf(k, n, rep, S) ==
  \A s \in S : LET l == SummaryLabels(k, n, rep, s)
             IN  l \in DOMAIN summary /\ summary[l] = SeverityCount(k, rep, s)

CountsAre(k, n) ==
  /\ Publishing(k, n) => CountsOf(k, n, report[k], Severities[k] \ todo[k])
  /\ ~Reconciling(k, n) /\ shown[k][n] # None => CountsOf(k, n, shown[k][n], Severities[k])

CountsInv == \A k \in Scanners : \A n \in NamesOf[k] : CountsAre(k, n)

LEMMA CountsOfKept ==
  ASSUME NEW k, NEW n, NEW rep, NEW S, CountsOf(k, n, rep, S),
         \A l \in Matching(summary, n) : l \in DOMAIN summary' /\ summary'[l] = summary[l]
  PROVE  CountsOf(k, n, rep, S)'
<1>1. \A s : SummaryLabels(k, n, rep, s) \in DOMAIN summary =>
                SummaryLabels(k, n, rep, s) \in Matching(summary, n)
  BY SummaryFields DEF Matching
<1> QED BY <1>1 DEF CountsOf

LEMMA CountsKept ==
  ASSUME NEW k, NEW n, CountsAre(k, n),
         \A l \in Matching(summary, n) : l \in DOMAIN summary' /\ summary'[l] = summary[l],
         shown'[k][n] = shown[k][n],
         \/ /\ pc'[k] = pc[k] /\ name'[k] = name[k] /\ report'[k] = report[k]
            /\ todo'[k] = todo[k]
         \/ ~Reconciling(k, n) /\ ~Reconciling(k, n)'
  PROVE  CountsAre(k, n)'
<1>1. \A rep, S : CountsOf(k, n, rep, S) => CountsOf(k, n, rep, S)'
  BY CountsOfKept
<1>2. CASE /\ pc'[k] = pc[k] /\ name'[k] = name[k] /\ report'[k] = report[k]
           /\ todo'[k] = todo[k]
  <2>1. (Reconciling(k, n)' <=> Reconciling(k, n)) /\ (Publishing(k, n)' <=> Publishing(k, n))
    BY <1>2 DEF Reconciling, Publishing
  <2> QED BY <1>1, <1>2, <2>1 DEF CountsAre
<1>3. CASE ~Reconciling(k, n) /\ ~Reconciling(k, n)'
  <2>1. ~Publishing(k, n) /\ ~Publishing(k, n)'
    BY <1>3 DEF Reconciling, Publishing
  <2> QED BY <1>1, <1>3, <2>1 DEF CountsAre
<1> QED BY <1>2, <1>3

\* A step of the worker of q that concerns the report m only.
LEMMA OtherCountsKept ==
  ASSUME NamesApart, CountsInv, NEW q \in Scanners, NEW m \in NamesOf[q],
         \A k \in Scanners \ {q} :
           /\ pc'[k] = pc[k] /\ name'[k] = name[k] /\ report'[k] = report[k]
           /\ todo'[k] = todo[k],
         name'[q] = m, pc[q] \in {"idle", "register"} \/ name[q] = m,
         \A k \in Scanners : \A n \in NamesOf[k] : n # m => shown'[k][n] = shown[k][n],
         \A n : n # m => \A l \in Matching(summary, n) :
                          l \in DOMAIN summary' /\ summary'[l] = summary[l],
         CountsAre(q, m)'
  PROVE  CountsInv'
<1> SUFFICES ASSUME NEW k \in Scanners, NEW n \in NamesOf[k] PROVE CountsAre(k, n)'
  BY DEF CountsInv
<1>1. CountsAre(k, n)
  BY DEF CountsInv
<1>2. CASE n = m
  <2>1. k = q
    BY <1>2 DEF NamesApart
  <2> QED BY <1>2, <2>1
<1>3. CASE n # m /\ k # q
  BY <1>1, <1>3, CountsKept
<1>4. CASE n # m /\ k = q
  <2>1. ~Reconciling(k, n) /\ ~Reconciling(k, n)'
    BY <1>4 DEF Reconciling
  <2> QED BY <1>1, <1>4, <2>1, CountsKept
<1> QED BY <1>2, <1>3, <1>4

\* The steps that leave the summary vector alone.
LEMMA OtherStepsCounts ==
  ASSUME TypeOK, CountsInv, NEW k \in Scanners,
         \/ BeginRegistration(k) \/ RegisterMetrics(k)
         \/ \E n \in NamesOf[k] : ReportChanges(k, n)
         \/ \E n \in Names : OwnerChanges(n)
         \/ SetDetail(k) \/ UNCHANGED vars
  PROVE  CountsInv'
<1>1. summary' = summary /\ shown' = shown /\ name' = name /\ report' = report /\ todo' = todo
  BY DEF BeginRegistration, RegisterMetrics, ReportChanges, OwnerChanges, SetDetail, vars,
         vectors, workerVars
<1>2. \A q \in Scanners : \/ pc'[q] = pc[q]
                          \/ pc[q] \in {"idle", "register"} /\ pc'[q] \in {"idle", "register"}
  BY Domains DEF BeginRegistration, RegisterMetrics, ReportChanges, OwnerChanges, SetDetail,
                 vars, workerVars
<1>3. ASSUME NEW q \in Scanners, NEW n \in NamesOf[q] PROVE CountsAre(q, n)'
  <2>1. CountsAre(q, n)
    BY DEF CountsInv
  <2>2. \A l \in Matching(summary, n) : l \in DOMAIN summary' /\ summary'[l] = summary[l]
    BY <1>1 DEF Matching
  <2>3. CASE pc'[q] = pc[q]
    BY <1>1, <2>1, <2>2, <2>3, CountsKept
  <2>4. CASE pc[q] \in {"idle", "register"} /\ pc'[q] \in {"idle", "register"}
    <3>1. ~Reconciling(q, n) /\ ~Reconciling(q, n)'
      BY <2>4 DEF Reconciling
    <3> QED BY <1>1, <2>1, <2>2, <3>1, CountsKept
  <2> QED BY <1>2, <2>3, <2>4
<1> QED BY <1>3 DEF CountsInv

LEMMA ClearCounts ==
  ASSUME TypeOK, NamesApart, SeriesInv, CountsInv, NEW k \in Scanners, NEW m \in NamesOf[k],
         ClearSummary(k, m) \/ (m = name[k] /\ (ClearDetails(k) \/ ReadFails(k) \/ Read(k)))
  PROVE  CountsInv'
<1>1. /\ \A q \in Scanners \ {k} :
           /\ pc'[q] = pc[q] /\ name'[q] = name[q] /\ report'[q] = report[q]
           /\ todo'[q] = todo[q]
      /\ \A q \in Scanners : \A n \in NamesOf[q] : n # m => shown'[q][n] = shown[q][n]
      /\ name'[k] = m /\ (pc[k] \in {"idle", "register"} \/ name[k] = m)
  BY Domains DEF ClearSummary, ClearDetails, ReadFails, Read
<1>2. \A n : n # m => \A l \in Matching(summary, n) :
                      l \in DOMAIN summary' /\ summary'[l] = summary[l]
  BY DEF ClearSummary, ClearDetails, ReadFails, Read, vectors, DeletePartialMatch, Matching
<1>3. shown'[k][m] = None
  <2>1. CASE ClearSummary(k, m)
    BY <2>1, Domains DEF ClearSummary
  <2>2. CASE m = name[k] /\ (ClearDetails(k) \/ ReadFails(k) \/ Read(k))
    <3>1. Reconciling(k, m) /\ shown' = shown
      BY <2>2 DEF Reconciling, ClearDetails, ReadFails, Read
    <3> QED BY <3>1 DEF SeriesInv, SeriesAre
  <2> QED BY <2>1, <2>2
<1>4. pc'[k] = "summary" => todo'[k] = Severities[k]
  BY Domains DEF ClearSummary, ClearDetails, ReadFails, Read
<1>5. CountsAre(k, m)'
  <2>1. pc'[k] = "summary" => Severities[k] \ todo'[k] = {}
    BY <1>4
  <2> QED BY <1>3, <2>1 DEF CountsAre, CountsOf, Publishing
<1> QED BY <1>1, <1>2, <1>5, OtherCountsKept

LEMMA SetSummaryCounts ==
  ASSUME TypeOK, NamesApart, CountsInv, NEW k \in Scanners, SetSummary(k)
  PROVE  CountsInv'
<1> DEFINE m == name[k]
           rep == report[k]
<1>1. m \in NamesOf[k]
  BY DEF SetSummary, TypeOK, WorkerOK
<1>2. /\ pc[k] = "summary" /\ pc' = pc /\ name' = name /\ report' = report
      /\ shown' = shown
  BY DEF SetSummary
<1>3. PICK s \in todo[k] :
        /\ summary' = Set(summary, SummaryLabels(k, m, rep, s), SeverityCount(k, rep, s))
        /\ todo' = [todo EXCEPT ![k] = @ \ {s}]
  BY DEF SetSummary
<1> DEFINE added == SummaryLabels(k, m, rep, s)
           value == SeverityCount(k, rep, s)
<1>4. todo'[k] = todo[k] \ {s} /\ \A q \in Scanners \ {k} : todo'[q] = todo[q]
  BY <1>3, Domains
<1>5. added["report_name"] = m /\ added["severity"] = s
  BY SummaryFields
<1>6. summary' = Set(summary, added, value)
  BY <1>3
<1> HIDE DEF added, value
<1>7. /\ DOMAIN summary' = DOMAIN summary \cup {added} /\ summary'[added] = value
      /\ \A l \in DOMAIN summary \ {added} : summary'[l] = summary[l]
  BY <1>6 DEF Set
<1>8. \A n : n # m => \A l \in Matching(summary, n) :
                      l \in DOMAIN summary' /\ summary'[l] = summary[l]
  BY <1>5, <1>7 DEF Matching
<1>9. Publishing(k, m)' /\ Reconciling(k, m)' /\ CountsOf(k, m, rep, Severities[k] \ todo[k])
  BY <1>1, <1>2 DEF Publishing, Reconciling, CountsInv, CountsAre
<1>10. ASSUME NEW x \in Severities[k] \ todo'[k]
       PROVE  LET l == SummaryLabels(k, m, rep, x)
              IN  l \in DOMAIN summary' /\ summary'[l] = SeverityCount(k, rep, x)
  <2>1. CASE x = s
    BY <1>7, <2>1 DEF added, value
  <2>2. CASE x # s
    <3> DEFINE l == SummaryLabels(k, m, rep, x)
    <3>1. l["severity"] = x
      BY SummaryFields
    <3>2. l \in DOMAIN summary /\ summary[l] = SeverityCount(k, rep, x)
      BY <1>4, <1>9, <2>2 DEF CountsOf
    <3> QED BY <1>5, <1>7, <2>2, <3>1, <3>2
  <2> QED BY <2>1, <2>2
<1>11. CountsAre(k, m)'
  <2>1. ASSUME NEW n, NEW r, NEW S, n = m, r = rep, S = Severities[k] \ todo'[k]
        PROVE  CountsOf(k, n, r, S)'
    <3> HIDE DEF m, rep
    <3> QED BY <1>10, <2>1 DEF CountsOf
  <2>2. CountsOf(k, m, report[k], Severities[k] \ todo[k])'
    BY <1>2, <2>1
  <2> QED BY <1>2, <1>9, <2>2 DEF CountsAre
<1> HIDE DEF m, rep
<1> QED BY <1>1, <1>2, <1>4, <1>8, <1>11, OtherCountsKept DEF m

LEMMA FinishCounts ==
  ASSUME TypeOK, NamesApart, CountsInv, NEW k \in Scanners, Finish(k)
  PROVE  CountsInv'
<1> DEFINE m == name[k]
           rep == report[k]
<1>1. m \in NamesOf[k] /\ rep \in Contents[k]
  BY DEF Finish, TypeOK, WorkerOK
<1>2. /\ pc[k] = "summary" /\ pc'[k] = "idle" /\ name' = name /\ shown'[k][m] = rep
      /\ summary' = summary /\ todo[k] = {}
  BY <1>1, Domains DEF Finish, vectors
<1>3. /\ \A q \in Scanners \ {k} :
           /\ pc'[q] = pc[q] /\ name'[q] = name[q] /\ report'[q] = report[q]
           /\ todo'[q] = todo[q]
      /\ \A q \in Scanners : \A n \in NamesOf[q] : n # m => shown'[q][n] = shown[q][n]
  BY Domains DEF Finish
<1>4. \A n : \A l \in Matching(summary, n) : l \in DOMAIN summary' /\ summary'[l] = summary[l]
  BY <1>2 DEF Matching
<1>5. CountsOf(k, m, rep, Severities[k])
  BY <1>1, <1>2 DEF Publishing, CountsInv, CountsAre, CountsOf
<1>6. \A q, n, r, S : CountsOf(q, n, r, S) => CountsOf(q, n, r, S)'
  BY <1>4, CountsOfKept
<1>7. CountsAre(k, m)'
  BY <1>2, <1>5, <1>6 DEF CountsAre, Publishing
<1> HIDE DEF m, rep
<1> QED BY <1>1, <1>2, <1>3, <1>4, <1>7, OtherCountsKept DEF m

LEMMA NextCounts ==
  ASSUME TypeOK, NamesApart, SeriesInv, CountsInv, [Next]_vars PROVE CountsInv'
<1>1. "trivy" \in Scanners
  BY DEF Scanners
<1>2. ASSUME NEW k \in Scanners, Worker(k) PROVE CountsInv'
  <2>1. CASE \E n \in NamesOf[k] : ClearSummary(k, n)
    BY <2>1, ClearCounts
  <2>2. CASE ClearDetails(k) \/ ReadFails(k) \/ Read(k)
    <3>1. name[k] \in NamesOf[k]
      BY <2>2 DEF ClearDetails, ReadFails, Read, TypeOK, WorkerOK
    <3> QED BY <2>2, <3>1, ClearCounts
  <2> QED BY <1>2, <2>1, <2>2, OtherStepsCounts, SetSummaryCounts, FinishCounts DEF Worker
<1> QED BY <1>1, <1>2, OtherStepsCounts DEF Next

\* The summary series of a manifest that is shown add up to the number of its
\* vulnerabilities, those of a severity that is not published included.
THEOREM EveryVulnerabilityCounted == ASSUME NamesApart PROVE Spec => []AllCounted
<1>1. Init => CountsInv
  BY DEF Init, CountsInv, CountsAre, Publishing
<1>2. TypeOK /\ SeriesInv /\ CountsInv /\ [Next]_vars => CountsInv'
  BY NextCounts
<1>3. TypeOK /\ SeriesInv /\ CountsInv => AllCounted
  <2> DEFINE k == "kubescape"
  <2> SUFFICES ASSUME TypeOK, SeriesInv, CountsInv, NEW n \in NamesOf[k],
                      Idle(k, n), shown[k][n] # None
               PROVE  SumOf(summary, SummaryOf(k, n)) = Len(shown[k][n].vulns)
    BY DEF AllCounted, SumOf
  <2> DEFINE rep == shown[k][n]
             S == SummaryOf(k, n)
  <2>1. k \in Scanners
    BY DEF Scanners
  <2> HIDE DEF k
  <2>2. rep \in Contents[k]
    BY <2>1 DEF TypeOK, WorldOK
  <2>3. Len(rep.vulns) \in Nat /\ DOMAIN rep.vulns = 1..Len(rep.vulns)
    BY <2>1, <2>2, ContentsAssumption
  <2>4. S = {SummaryLabels(k, n, rep, s) : s \in Severities[k]}
    BY <2>1, SummaryKnown, IdleNot DEF SeriesInv, SeriesAre, SummaryIs, SummarySeries
  <2>5. \A s : SummaryLabels(k, n, rep, s).severity = s
    BY SummaryFields
  <2>6. \A s \in Severities[k] :
          summary[SummaryLabels(k, n, rep, s)]
            = Cardinality({i \in DOMAIN rep.vulns : CountedAs(rep.vulns[i].severity) = s})
    BY <2>1, IdleNot DEF CountsInv, CountsAre, CountsOf, SeverityCount, k
  <2> HIDE DEF S, rep
  <2>7. {l.severity : l \in S} = Severities[k]
    BY <2>4, <2>5
  <2>8. \A l, o \in S : l.severity = o.severity => l = o
    BY <2>4, <2>5
  <2>9. \A l \in S : summary[l] = Cardinality({i \in DOMAIN rep.vulns :
                                            CountedAs(rep.vulns[i].severity) = l.severity})
    BY <2>4, <2>5, <2>6
  <2>10. CountsEach(S, summary, rep.vulns)
    BY <2>7, <2>8, <2>9 DEF CountsEach, k
  <2>11. SumOf(summary, S) = Len(rep.vulns)
    BY <2>3, <2>10, CountsAddUp
  <2> QED BY <2>11 DEF S, rep
<1> QED BY <1>1, <1>2, <1>3, SeriesInvariant, MetricsTypeCorrect, PTL DEF Spec

=============================================================================
