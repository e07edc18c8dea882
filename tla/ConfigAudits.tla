------------------------------ MODULE ConfigAudits ------------------------------
(***************************************************************************)
(* The config audit controller of one exporter pod, with time              *)
(* (controllers/configauditreport, utils/jitter.go).                       *)
(*                                                                         *)
(* A Reconcile drops the series of a report, and if the ring gives the     *)
(* report to this pod publishes one series per severity.  A change of the  *)
(* ring is no event: the pod finds out when it next visits the report, and *)
(* it visits every report, its own or not, again after the jittered        *)
(* requeue duration, or after a backoff when Reconcile has failed.         *)
(*                                                                         *)
(* Time is counted in ticks.  A Reconcile is short compared to a tick, so  *)
(* that no time passes while the worker has something to do.               *)
(***************************************************************************)
EXTENDS Integers, Sequences

CONSTANTS
  Names,            \* namespaced names of config audit reports
  Counts,           \* the counts per severity that a report may have
  None,             \* no report
  Never,            \* the workqueue does not have the name
  RequeueDuration,  \* DefaultRequeueDuration, in ticks
  JitterPercents,   \* values of --max-jitter-percent
  Backoff,          \* the delays after 1, 2, ... failures in a row
  MaxEvents         \* bound: changes of reports and of the ring, failed calls

Severities == {"CRITICAL", "HIGH", "MEDIUM", "LOW"}

ASSUME CountsAssumption == Counts \subseteq [Severities -> Nat]
ASSUME TimeAssumption ==
  /\ RequeueDuration \in Nat \ {0}
  /\ JitterPercents \subseteq Int
  /\ Backoff \in Seq(Nat) /\ Backoff # <<>>
  /\ \A i, j \in DOMAIN Backoff : i < j => Backoff[i] <= Backoff[j]
ASSUME EventsAssumption == MaxEvents \in Nat

VARIABLES
  percent,   \* --max-jitter-percent
  content,   \* the reports, as the cache has them
  owner,     \* what the ring says of a name: me, other, or nobody if it is empty
  events,    \* number of events so far
  due,       \* workqueue: ticks until the name is handed out, or Never
  failures,  \* workqueue: how often the name has failed since it was forgotten
  pc,        \* worker
  name,      \* worker: the name that it reconciles
  report,    \* worker: the report that it read
  summary,   \* gauge vector ConfigAuditSummary: name and severity to value
  late       \* history: ticks for which the series of a name have been wrong

worldVars == <<percent, content, owner, events>>
queueVars == <<due, failures>>
vars      == <<worldVars, queueVars, pc, name, report, summary, late>>

Reports ==
  [counts : Counts, finalizer : BOOLEAN, labels : {"nil", "other", "mine"}]

ASSUME AbsenceAssumption == Never \notin Nat /\ None \notin Names \cup Reports

-----------------------------------------------------------------------------
(* Jitter.                                                                  *)

\* The conversion to whole milliseconds cuts towards zero.
MaxJitter(p) ==
  IF p >= 0 THEN (RequeueDuration * p) \div 100 ELSE -((RequeueDuration * (-p)) \div 100)

\* What Jitter may return; nothing if rand.Int63n panics.
Jitter(p) ==
  IF MaxJitter(p) <= 0 THEN {}
  ELSE LET minDuration == RequeueDuration - MaxJitter(p)
       IN  {minDuration + random : random \in 0..(MaxJitter(p) - 1)}

-----------------------------------------------------------------------------
(* The workqueue: it keeps one entry of a name, the earliest.               *)

Earliest(a, b) == IF a = Never \/ b < a THEN b ELSE a

AddAfter(n, delay) == due' = [due EXCEPT ![n] = Earliest(@, delay)]

AddRateLimited(n) ==
  LET count == IF failures[n] < Len(Backoff) THEN failures[n] + 1 ELSE Len(Backoff)
  IN  failures' = [failures EXCEPT ![n] = count] /\ AddAfter(n, Backoff[count])

Forgotten(n) == failures' = [failures EXCEPT ![n] = 0]

Event == events < MaxEvents /\ events' = events + 1

-----------------------------------------------------------------------------
Init ==
  /\ percent \in JitterPercents
  /\ content \in [Names -> {None} \cup [counts : Counts, finalizer : BOOLEAN,
                                        labels : {"nil", "other"}]]
  /\ owner \in [Names -> {"me", "other"}]
  /\ events = 0
  /\ due = [n \in Names |-> IF content[n] = None THEN Never ELSE 0]
  /\ failures = [n \in Names |-> 0]
  /\ pc = "idle"
  /\ name = None
  /\ report = None
  /\ summary = << >>
  /\ late = [n \in Names |-> 0]

\* The scanner writes or deletes a report: the watch adds its name.
ReportChanges(n) ==
  /\ Event
  /\ \/ \E rep \in Reports : content' = [content EXCEPT ![n] = rep]
     \/ content' = [content EXCEPT ![n] = None]
  /\ content' # content
  /\ AddAfter(n, 0)
  /\ UNCHANGED <<percent, owner, failures, pc, name, report, summary, late>>

\* The peers change: nothing is added to the workqueue.
OwnerChanges(n) ==
  /\ Event
  /\ \E o \in {"me", "other", "nobody"} \ {owner[n]} : owner' = [owner EXCEPT ![n] = o]
  /\ UNCHANGED <<percent, content, queueVars, pc, name, report, summary, late>>

-----------------------------------------------------------------------------
(* Reconcile.                                                               *)

\* The worker is free again.
Return(n) ==
  /\ pc' = "idle"
  /\ name' = None
  /\ report' = None
  /\ late' = [late EXCEPT ![n] = 0]

\* An error, or a panic, which is turned into one.
Fail(n) == AddRateLimited(n) /\ Return(n)

\* A result with a delay; one that is not positive counts as none at all.
JitterRequeue(n) ==
  \/ Jitter(percent) = {} /\ Fail(n)
  \/ \E delay \in Jitter(percent) :
       /\ IF delay > 0 THEN Forgotten(n) /\ AddAfter(n, delay) ELSE AddRateLimited(n)
       /\ Return(n)

DeletedFirst(n) ==  \* mutation: Delete with one severity
  [k \in DOMAIN summary \ {<<n, "CRITICAL">>} |-> summary[k]]
Deleted(n) ==
  [k \in {l \in DOMAIN summary : l[1] # n} |-> summary[k]]

\* What a pod does that does not own the report.
Dismiss(n) == Forgotten(n) /\ Return(n) /\ UNCHANGED due  \* mutation: no requeue
Revisit(n) == JitterRequeue(n)

\* The entry is taken out while it is worked on.
Begin(n) ==
  /\ pc = "idle"
  /\ due[n] = 0
  /\ pc' = "owner"
  /\ name' = n
  /\ due' = [due EXCEPT ![n] = Never]
  /\ summary' = Deleted(n)
  /\ UNCHANGED <<worldVars, failures, report, late>>

\* The empty ring has no member to ask for its name.
ShouldOwn ==
  /\ pc = "owner"
  /\ \/ /\ owner[name] = "me"
        /\ pc' = "get"
        /\ UNCHANGED <<queueVars, name, report, late>>
     \/ owner[name] = "other" /\ Revisit(name)
     \/ owner[name] = "nobody" /\ Fail(name)
  /\ UNCHANGED <<worldVars, summary>>

NotFound ==
  /\ pc = "get"
  /\ content[name] = None
  /\ Forgotten(name)
  /\ Return(name)
  /\ UNCHANGED <<worldVars, due, summary>>

Published(n, rep) ==
  [k \in DOMAIN summary \cup ({n} \X Severities) |->
    IF k[1] = n THEN rep.counts[k[2]] ELSE summary[k]]

Get ==
  /\ pc = "get"
  /\ content[name] # None
  /\ report' = content[name]
  /\ summary' = Published(name, report')
  /\ pc' = IF report'.finalizer THEN "finalizer" ELSE "label"
  /\ UNCHANGED <<worldVars, queueVars, name, late>>

\* An Update of the report that was read, which the watch brings back.
Update(rep) ==
  /\ content' = [content EXCEPT ![name] = rep]
  /\ due' = IF rep = report THEN due ELSE [due EXCEPT ![name] = 0]

Unstripped(rep) == rep  \* mutation: the finalizer stays in the object
Stripped(rep) == [rep EXCEPT !.finalizer = FALSE]

DropFinalizer ==
  /\ pc = "finalizer"
  /\ \/ /\ content[name] = report
        /\ report' = Stripped(report)
        /\ Update(report')
        /\ pc' = "label"
        /\ UNCHANGED <<failures, name, late>>
     \/ content[name] # report /\ Fail(name) /\ UNCHANGED content
  /\ UNCHANGED <<percent, owner, events, summary>>

\* Without a map of labels the assignment panics.
LabelPanics ==
  /\ pc = "label"
  /\ report.labels = "nil"
  /\ Fail(name)
  /\ UNCHANGED <<worldVars, summary>>

Label ==
  /\ pc = "label"
  /\ report.labels # "nil"
  /\ content[name] = report
  /\ Update([report EXCEPT !.labels = "mine"])
  /\ pc' = "requeue"
  /\ UNCHANGED <<percent, owner, events, failures, name, report, summary, late>>

\* A conflict or any other failure is logged.
LabelFails ==
  /\ pc = "label"
  /\ report.labels # "nil"
  /\ IF content[name] = report THEN Event ELSE UNCHANGED events
  /\ pc' = "requeue"
  /\ UNCHANGED <<percent, content, owner, queueVars, name, report, summary, late>>

Requeue ==
  /\ pc = "requeue"
  /\ JitterRequeue(name)
  /\ UNCHANGED <<worldVars, summary>>

\* Get, or the Update without the finalizer, fails.
CallFails ==
  /\ pc \in {"get", "finalizer"}
  /\ Event
  /\ Fail(name)
  /\ UNCHANGED <<percent, content, owner, summary>>

-----------------------------------------------------------------------------
Wrong(n) ==
  IF owner[n] = "me" /\ content[n] # None
  THEN \E s \in Severities :
         ~(<<n, s>> \in DOMAIN summary /\ summary[n, s] = content[n].counts[s])
  ELSE \E k \in DOMAIN summary : k[1] = n

\* The workqueue hands out what is due before time goes on.
Tick ==
  /\ pc = "idle"
  /\ \A n \in Names : due[n] # 0
  /\ due' = [n \in Names |-> IF due[n] = Never THEN Never ELSE due[n] - 1]
  /\ late' = [n \in Names |-> IF Wrong(n) THEN late[n] + 1 ELSE 0]
  /\ UNCHANGED <<worldVars, failures, pc, name, report, summary>>

Worker ==
  \/ \E n \in Names : Begin(n)
  \/ ShouldOwn \/ NotFound \/ Get \/ DropFinalizer
  \/ LabelPanics \/ Label \/ LabelFails \/ Requeue \/ CallFails

Next ==
  \/ \E n \in Names : ReportChanges(n) \/ OwnerChanges(n)
  \/ Worker \/ Tick

Spec == Init /\ [][Next]_vars

-----------------------------------------------------------------------------
(* Properties.                                                              *)

\* Every variable has its type.  The worker holds a report exactly between its
\* read and the end of Reconcile, and only one without the finalizer is labelled.
TypeOK ==
  /\ percent \in JitterPercents
  /\ content \in [Names -> Reports \cup {None}]
  /\ owner \in [Names -> {"me", "other", "nobody"}]
  /\ events \in 0..MaxEvents
  /\ due \in [Names -> Nat \cup {Never}]
  /\ failures \in [Names -> 0..Len(Backoff)]
  /\ pc \in {"idle", "owner", "get", "finalizer", "label", "requeue"}
  /\ name \in Names \cup {None} /\ (name = None <=> pc = "idle")
  /\ report \in Reports \cup {None}
  /\ (report # None <=> pc \in {"finalizer", "label", "requeue"})
  /\ (pc \in {"label", "requeue"} => ~report.finalizer)
  /\ DOMAIN summary \subseteq Names \X Severities
  /\ late \in [Names -> Nat]

\* Outside its Reconcile a report has either no series or one per severity,
\* and they are those of the last report: a pod that does not own the report
\* any more, or reads that it is gone, leaves nothing behind.  (The severities
\* of a report are published in one step here; what may come between them is
\* the subject of VulnerabilityMetrics.)
Untouched(n) == name # n /\ due[n] # 0

SeriesMatchReport ==
  \A n \in Names : Untouched(n) =>
    LET shown == {k \in DOMAIN summary : k[1] = n}
    IN  /\ shown \in {{}, {n} \X Severities}
        /\ content[n] = None => shown = {}
        /\ \A k \in shown : summary[k] = content[n].counts[k[2]]

\* A report whose series are wrong is visited in time, whatever happens to the
\* ring and to the report: the next visit is due before they have been wrong
\* for the requeue duration, which the jitter of the code only ever shortens
\* (SpreadBothWays), or for the backoff of the failures that the name has
\* behind it.  The visit puts the series right, unless it fails before it has
\* read the report; then the wait starts again.  With a jitter of 0 percent
\* every Reconcile fails at its end, and the backoff is the period.
InTime ==
  \A n \in Names : Wrong(n) /\ name # n =>
    /\ due[n] # Never
    /\ late[n] + due[n] <= IF failures[n] = 0 THEN RequeueDuration - 1
                                              ELSE Backoff[failures[n]]

\* "Spreads out re-queue interval of reports by +/- this amount to spread
\* load": where there is jitter, the delay of a requeue may turn out shorter
\* than the requeue duration, and it may turn out longer.
SpreadBothWays ==
  pc = "requeue" /\ MaxJitter(percent) > 0 =>
    /\ \E delay \in Jitter(percent) : delay < RequeueDuration
    /\ \E delay \in Jitter(percent) : delay > RequeueDuration

=============================================================================
