-------------------------- MODULE ConfigAuditsProofs --------------------------
(***************************************************************************)
(* Theorems about ConfigAudits, for any reports, durations, percentages,   *)
(* backoffs and number of events.                                          *)
(***************************************************************************)
EXTENDS ConfigAudits, TLAPS

-----------------------------------------------------------------------------
(* Delays.                                                                  *)

LEMMA Constants ==
  /\ RequeueDuration \in Nat \ {0}
  /\ Len(Backoff) \in Nat \ {0}
  /\ \A i \in 1..Len(Backoff) : Backoff[i] \in Nat
BY TimeAssumption

LEMMA JitterBelow ==
  ASSUME NEW p \in JitterPercents, NEW delay \in Jitter(p)
  PROVE  delay \in Int /\ delay < RequeueDuration
<1>1. p \in Int /\ RequeueDuration \in Nat
  BY TimeAssumption
<1>2. RequeueDuration * p \in Int /\ RequeueDuration * (-p) \in Int
  BY <1>1
<1>3. MaxJitter(p) \in Int
  BY <1>2 DEF MaxJitter
<1> QED BY <1>1, <1>3 DEF Jitter

LEMMA EarliestOf ==
  ASSUME NEW a \in Nat \cup {Never}, NEW b \in Nat
  PROVE  /\ Earliest(a, b) \in Nat
         /\ Earliest(a, b) <= b
         /\ Earliest(a, b) # 0 => a # 0
BY AbsenceAssumption DEF Earliest

\* How long the series of a name may be wrong.
Bound(f) == IF f = 0 THEN RequeueDuration - 1 ELSE Backoff[f]

\* What all ends of Reconcile but NotFound have in common.
Finished(n) ==
  /\ \E b \in Nat, f \in 0..Len(Backoff) :
       /\ due' = [due EXCEPT ![n] = Earliest(@, b)]
       /\ failures' = [failures EXCEPT ![n] = f]
       /\ b <= Bound(f)
  /\ Return(n)

LEMMA FailFinishes ==
  ASSUME TypeOK, NEW n \in Names, AddRateLimited(n), Return(n) PROVE Finished(n)
<1> DEFINE count == IF failures[n] < Len(Backoff) THEN failures[n] + 1 ELSE Len(Backoff)
<1>1. failures[n] \in 0..Len(Backoff)
  BY DEF TypeOK
<1>2. count \in 1..Len(Backoff) /\ count \in 0..Len(Backoff)
  BY <1>1, Constants
<1>3. Backoff[count] \in Nat /\ Backoff[count] <= Bound(count)
  BY <1>2, Constants DEF Bound
<1>4. /\ due' = [due EXCEPT ![n] = Earliest(@, Backoff[count])]
      /\ failures' = [failures EXCEPT ![n] = count]
  BY DEF AddRateLimited, AddAfter
<1> QED BY <1>2, <1>3, <1>4 DEF Finished

LEMMA RequeueFinishes ==
  ASSUME TypeOK, NEW n \in Names, JitterRequeue(n) PROVE Finished(n)
<1>1. CASE Fail(n)
  BY <1>1, FailFinishes DEF Fail
<1>2. ASSUME NEW delay \in Jitter(percent), Return(n),
             IF delay > 0 THEN Forgotten(n) /\ AddAfter(n, delay) ELSE AddRateLimited(n)
      PROVE  Finished(n)
  <2>1. delay \in Int /\ delay < RequeueDuration
    BY <1>2, JitterBelow DEF TypeOK
  <2>2. CASE delay > 0
    <3>1. delay \in Nat /\ delay <= Bound(0) /\ 0 \in 0..Len(Backoff)
      BY <2>1, <2>2, Constants DEF Bound
    <3>2. /\ due' = [due EXCEPT ![n] = Earliest(@, delay)]
          /\ failures' = [failures EXCEPT ![n] = 0]
      BY <1>2, <2>2 DEF Forgotten, AddAfter
    <3> QED BY <1>2, <3>1, <3>2 DEF Finished
  <2>3. CASE ~(delay > 0)
    BY <1>2, <2>3, FailFinishes
  <2> QED BY <2>2, <2>3
<1> QED BY <1>1, <1>2 DEF JitterRequeue

-----------------------------------------------------------------------------
(* Types.                                                                   *)

WorldOK ==
  /\ percent \in JitterPercents
  /\ content \in [Names -> Reports \cup {None}]
  /\ owner \in [Names -> {"me", "other", "nobody"}]
  /\ events \in 0..MaxEvents

QueueOK ==
  /\ due \in [Names -> Nat \cup {Never}]
  /\ failures \in [Names -> 0..Len(Backoff)]
  /\ late \in [Names -> Nat]

WorkerOK ==
  /\ pc \in {"idle", "owner", "get", "finalizer", "label", "requeue"}
  /\ name \in Names \cup {None} /\ (name = None <=> pc = "idle")
  /\ report \in Reports \cup {None}
  /\ (report # None <=> pc \in {"finalizer", "label", "requeue"})
  /\ (pc \in {"label", "requeue"} => ~report.finalizer)

SummaryOK == DOMAIN summary \subseteq Names \X Severities

LEMMA TypeParts ==
  ASSUME WorldOK', QueueOK', WorkerOK', SummaryOK' PROVE TypeOK'
BY DEF TypeOK, WorldOK, QueueOK, WorkerOK, SummaryOK

LEMMA Working ==
  ASSUME TypeOK, pc # "idle" PROVE name \in Names
BY DEF TypeOK

LEMMA ReturnType == ASSUME NEW n, Return(n) PROVE WorkerOK'
BY DEF Return, WorkerOK

LEMMA FinishedType ==
  ASSUME TypeOK, NEW n \in Names, Finished(n) PROVE QueueOK' /\ WorkerOK'
<1>1. PICK b \in Nat, f \in 0..Len(Backoff) :
        /\ due' = [due EXCEPT ![n] = Earliest(@, b)]
        /\ failures' = [failures EXCEPT ![n] = f]
  BY DEF Finished
<1>2. Earliest(due[n], b) \in Nat
  BY EarliestOf DEF TypeOK
<1>3. /\ due' \in [Names -> Nat \cup {Never}]
      /\ failures' \in [Names -> 0..Len(Backoff)]
  BY <1>1, <1>2 DEF TypeOK
<1>4. late' = [late EXCEPT ![n] = 0] /\ late \in [Names -> Nat]
  BY DEF Finished, Return, TypeOK
<1> QED BY <1>3, <1>4, ReturnType DEF Finished, QueueOK

LEMMA EventType == ASSUME TypeOK, Event PROVE events' \in 0..MaxEvents
BY EventsAssumption DEF TypeOK, Event

LEMMA InitType == ASSUME Init PROVE TypeOK
<1>1. [counts : Counts, finalizer : BOOLEAN, labels : {"nil", "other"}] \subseteq Reports
  BY DEF Reports
<1>2. WorldOK
  BY <1>1, EventsAssumption DEF Init, WorldOK
<1>3. QueueOK
  BY Constants DEF Init, QueueOK
<1>4. WorkerOK /\ SummaryOK
  BY DEF Init, WorkerOK, SummaryOK
<1> QED BY <1>2, <1>3, <1>4 DEF TypeOK, WorldOK, QueueOK, WorkerOK, SummaryOK

LEMMA WorldType ==
  ASSUME TypeOK, NEW n \in Names, ReportChanges(n) \/ OwnerChanges(n) PROVE TypeOK'
<1>1. events' \in 0..MaxEvents
  BY EventType DEF ReportChanges, OwnerChanges
<1>2. CASE ReportChanges(n)
  <2>1. content' \in [Names -> Reports \cup {None}]
    BY <1>2 DEF ReportChanges, TypeOK
  <2>2. due' \in [Names -> Nat \cup {Never}]
    <3>1. due' = [due EXCEPT ![n] = Earliest(@, 0)]
      BY <1>2 DEF ReportChanges, AddAfter
    <3>2. Earliest(due[n], 0) \in Nat
      BY EarliestOf DEF TypeOK
    <3> QED BY <3>1, <3>2 DEF TypeOK
  <2> QED BY <1>1, <1>2, <2>1, <2>2 DEF ReportChanges, TypeOK
<1>3. CASE OwnerChanges(n)
  BY <1>1, <1>3 DEF OwnerChanges, TypeOK, queueVars
<1> QED BY <1>2, <1>3

LEMMA BeginType == ASSUME TypeOK, NEW n \in Names, Begin(n) PROVE TypeOK'
<1>1. WorldOK' /\ QueueOK'
  BY DEF Begin, worldVars, TypeOK, WorldOK, QueueOK
<1>2. WorkerOK'
  BY AbsenceAssumption DEF Begin, TypeOK, WorkerOK
<1>3. SummaryOK'
  BY DEF Begin, Deleted, TypeOK, SummaryOK
<1> QED BY <1>1, <1>2, <1>3, TypeParts

LEMMA PublishedDomain ==
  ASSUME NEW n, NEW rep
  PROVE  DOMAIN Published(n, rep) = DOMAIN summary \cup ({n} \X Severities)
BY DEF Published

LEMMA UpdateType ==
  ASSUME TypeOK, pc # "idle", NEW rep \in Reports, Update(rep)
  PROVE  /\ content' \in [Names -> Reports \cup {None}]
         /\ due' \in [Names -> Nat \cup {Never}]
BY Working DEF TypeOK, Update

LEMMA WorkerType ==
  ASSUME TypeOK,
         \/ ShouldOwn \/ NotFound \/ Get \/ DropFinalizer
         \/ LabelPanics \/ Label \/ LabelFails \/ Requeue \/ CallFails
  PROVE  TypeOK'
<1>0. name \in Names
  BY Working
     DEF ShouldOwn, NotFound, Get, DropFinalizer, LabelPanics, Label, LabelFails,
         Requeue, CallFails
<1>1. CASE ShouldOwn
  <2>1. WorldOK' /\ SummaryOK'
    BY <1>1 DEF ShouldOwn, worldVars, TypeOK, WorldOK, SummaryOK
  <2>2. CASE owner[name] = "me"
    BY <1>1, <2>1, <2>2, TypeParts
       DEF ShouldOwn, queueVars, TypeOK, QueueOK, WorkerOK
  <2>3. CASE owner[name] # "me"
    <3>1. Finished(name)
      BY <1>0, <1>1, <2>3, FailFinishes, RequeueFinishes DEF ShouldOwn, Revisit, Fail
    <3> QED BY <1>0, <2>1, <3>1, FinishedType, TypeParts
  <2> QED BY <2>2, <2>3
<1>2. CASE NotFound
  <2>1. WorldOK' /\ SummaryOK'
    BY <1>2 DEF NotFound, worldVars, TypeOK, WorldOK, SummaryOK
  <2>2. QueueOK'
    BY <1>0, <1>2, Constants DEF NotFound, Forgotten, Return, TypeOK, QueueOK
  <2> QED BY <1>2, <2>1, <2>2, ReturnType, TypeParts DEF NotFound
<1>3. CASE Get
  <2>1. WorldOK' /\ QueueOK'
    BY <1>3 DEF Get, worldVars, queueVars, TypeOK, WorldOK, QueueOK
  <2>2. WorkerOK'
    <3>1. report' \in Reports
      BY <1>0, <1>3 DEF Get, TypeOK
    <3>2. pc' \in {"finalizer", "label"}
      BY <1>3 DEF Get
    <3> QED BY <1>0, <1>3, <3>1, <3>2, AbsenceAssumption DEF Get, TypeOK, WorkerOK
  <2>3. SummaryOK'
    <3>1. DOMAIN summary' = DOMAIN summary \cup ({name} \X Severities)
      BY <1>3, PublishedDomain DEF Get
    <3>2. {name} \X Severities \subseteq Names \X Severities
      BY <1>0
    <3> QED BY <3>1, <3>2 DEF TypeOK, SummaryOK
  <2> QED BY <2>1, <2>2, <2>3, TypeParts
<1>4. CASE DropFinalizer
  <2>1. SummaryOK' /\ percent' = percent /\ owner' = owner /\ events' = events
    BY <1>4 DEF DropFinalizer, TypeOK, SummaryOK
  <2>2. CASE content[name] = report
    <3>1. report \in Reports
      BY <1>4 DEF DropFinalizer, TypeOK
    <3>2. CASE content[name] # report
      BY <2>2, <3>2
    <3>3. CASE /\ report' = Stripped(report)
               /\ Update(report')
               /\ pc' = "label"
               /\ UNCHANGED <<failures, name, late>>
      <4>1. report' \in Reports /\ report' # None /\ ~report'.finalizer
        BY <3>1, <3>3, AbsenceAssumption DEF Reports, Stripped
      <4>2. /\ content' \in [Names -> Reports \cup {None}]
            /\ due' \in [Names -> Nat \cup {Never}]
        BY <1>4, <3>3, <4>1, UpdateType DEF DropFinalizer
      <4> QED BY <1>0, <2>1, <3>3, <4>1, <4>2, AbsenceAssumption DEF TypeOK, SummaryOK
    <3> QED BY <1>4, <2>2, <3>3 DEF DropFinalizer
  <2>3. CASE content[name] # report
    <3>1. Finished(name) /\ content' = content
      BY <1>0, <1>4, <2>3, FailFinishes DEF DropFinalizer, Fail
    <3> QED BY <1>0, <2>1, <3>1, FinishedType, TypeParts DEF TypeOK, WorldOK
  <2> QED BY <2>2, <2>3
<1>5. CASE Label
  <2>1. [report EXCEPT !.labels = "mine"] \in Reports
    BY <1>5 DEF Label, TypeOK, Reports
  <2>2. /\ content' \in [Names -> Reports \cup {None}]
        /\ due' \in [Names -> Nat \cup {Never}]
    BY <1>5, <2>1, UpdateType DEF Label
  <2> QED BY <1>5, <2>2 DEF Label, TypeOK
<1>6. CASE LabelFails
  <2>1. events' \in 0..MaxEvents
    BY <1>6, EventType DEF LabelFails, TypeOK
  <2> QED BY <1>6, <2>1 DEF LabelFails, queueVars, TypeOK
<1>7. CASE LabelPanics \/ Requeue
  <2>1. Finished(name) /\ UNCHANGED <<worldVars, summary>>
    BY <1>0, <1>7, FailFinishes, RequeueFinishes DEF LabelPanics, Requeue, Fail
  <2>2. WorldOK' /\ SummaryOK'
    BY <2>1 DEF worldVars, TypeOK, WorldOK, SummaryOK
  <2> QED BY <1>0, <2>1, <2>2, FinishedType, TypeParts
<1>8. CASE CallFails
  <2>1. Finished(name) /\ events' \in 0..MaxEvents
    BY <1>0, <1>8, FailFinishes, EventType DEF CallFails, Fail
  <2>2. WorldOK' /\ SummaryOK'
    BY <1>8, <2>1 DEF CallFails, TypeOK, WorldOK, SummaryOK
  <2> QED BY <1>0, <2>1, <2>2, FinishedType, TypeParts
<1> QED BY <1>1, <1>2, <1>3, <1>4, <1>5, <1>6, <1>7, <1>8

LEMMA TickType == ASSUME TypeOK, Tick PROVE TypeOK'
<1>1. due' \in [Names -> Nat \cup {Never}]
  <2>1. ASSUME NEW n \in Names, due[n] # Never PROVE due[n] - 1 \in Nat
    BY <2>1 DEF Tick, TypeOK
  <2> QED BY <2>1 DEF Tick
<1>2. late' \in [Names -> Nat]
  BY DEF Tick, TypeOK
<1> QED BY <1>1, <1>2 DEF Tick, worldVars, TypeOK

LEMMA NextType == ASSUME TypeOK, [Next]_vars PROVE TypeOK'
<1>1. CASE UNCHANGED vars
  BY <1>1 DEF vars, worldVars, queueVars, TypeOK
<1>2. CASE Next
  BY <1>2, WorldType, BeginType, WorkerType, TickType DEF Next, Worker
<1> QED BY <1>1, <1>2

\* TypeOK holds in every reachable state, for any percentage: the worker has a
\* report while it needs one, and labels none that still has the finalizer.
THEOREM AuditsTypeCorrect == Spec => []TypeOK
<1>1. Init => TypeOK
  BY InitType
<1>2. TypeOK /\ [Next]_vars => TypeOK'
  BY NextType
<1> QED BY <1>1, <1>2, PTL DEF Spec

-----------------------------------------------------------------------------
(* The series of a report, and the time until its next visit.               *)

Series(n) == {k \in DOMAIN summary : k[1] = n}

Shows(n, rep) == \A k \in Series(n) : summary[k] = rep.counts[k[2]]

\* All severities or none.
Whole(n) == Series(n) \in {{}, {n} \X Severities}

\* The series of a name that is not due are those of the report.
Settled(n) ==
  name # n /\ due[n] # 0 =>
    (content[n] = None => Series(n) = {}) /\ Shows(n, content[n])

\* Nothing is left to put right where the workqueue does not have the name, and
\* elsewhere the visit comes before the series have been wrong for too long.
Scheduled(n) ==
  name # n =>
    IF due[n] = Never
    THEN content[n] = None /\ late[n] = 0
    ELSE late[n] + due[n] <= Bound(failures[n])

\* The worker has no series yet, or those of the report that it read; and that
\* is the report there is unless the name is due again, and then at once.
WorkerSeries ==
  /\ pc # "idle" => due[name] \in {0, Never}
  /\ pc \in {"owner", "get"} => Series(name) = {}
  /\ report # None =>
       /\ Shows(name, report)
       /\ due[name] # 0 => content[name] # None /\ content[name].counts = report.counts

IInv == WorkerSeries /\ \A n \in Names : Whole(n) /\ Settled(n) /\ Scheduled(n)

LEMMA BoundIsNat == ASSUME NEW f \in 0..Len(Backoff) PROVE Bound(f) \in Nat
BY Constants DEF Bound

LEMMA IInvImplies == ASSUME TypeOK, IInv PROVE SeriesMatchReport /\ InTime
<1>1. SeriesMatchReport
  BY DEF IInv, Settled, Shows, Whole, Series, SeriesMatchReport, Untouched
<1>2. ASSUME NEW n \in Names, Wrong(n), name # n
      PROVE  due[n] # Never /\ late[n] + due[n] <= Bound(failures[n])
  <2>1. CASE due[n] = Never
    <3>1. content[n] = None /\ due[n] # 0
      BY <1>2, <2>1, AbsenceAssumption DEF IInv, Scheduled
    <3>2. Series(n) = {}
      BY <1>2, <3>1 DEF IInv, Settled
    <3> QED BY <1>2, <3>1, <3>2 DEF Wrong, Series
  <2>2. CASE due[n] # Never
    BY <1>2, <2>2 DEF IInv, Scheduled
  <2> QED BY <2>1, <2>2
<1>3. InTime
  BY <1>2 DEF InTime, Bound
<1> QED BY <1>1, <1>3

LEMMA InitHolds == ASSUME Init PROVE IInv
<1>1. \A n \in Names : Series(n) = {}
  <2>1. summary = << >>
    BY DEF Init
  <2>2. DOMAIN summary = {}
    BY <2>1
  <2> QED BY <2>2 DEF Series
<1>2. WorkerSeries
  BY DEF Init, WorkerSeries
<1>3. ASSUME NEW n \in Names PROVE Whole(n) /\ Settled(n) /\ Scheduled(n)
  <2>1. Whole(n) /\ Settled(n)
    BY <1>1 DEF Whole, Settled, Shows
  <2>2. Scheduled(n)
    BY Constants, AbsenceAssumption DEF Init, Scheduled, Bound
  <2> QED BY <2>1, <2>2
<1> QED BY <1>2, <1>3 DEF IInv

-----------------------------------------------------------------------------
(* Steps that leave a name alone, and the steps of a Reconcile.             *)

SameSeries(n) ==
  Series(n)' = Series(n) /\ \A k \in Series(n) : summary'[k] = summary[k]

LEMMA SameSummary == ASSUME summary' = summary, NEW n PROVE SameSeries(n)
BY DEF SameSeries, Series

LEMMA Undisturbed ==
  ASSUME IInv, NEW n \in Names, name # n \/ name' = n, SameSeries(n),
         content'[n] = content[n], due'[n] = due[n], failures'[n] = failures[n],
         late'[n] = late[n]
  PROVE  Whole(n)' /\ Settled(n)' /\ Scheduled(n)'
<1>1. Whole(n) /\ Settled(n) /\ Scheduled(n)
  BY DEF IInv
<1>2. Whole(n)'
  BY <1>1 DEF Whole, SameSeries
<1>3. Settled(n)'
  BY <1>1 DEF Settled, Shows, SameSeries
<1>4. Scheduled(n)'
  BY <1>1 DEF Scheduled
<1> QED BY <1>2, <1>3, <1>4

\* The worker begins or goes on with m.
LEMMA GoesOn ==
  ASSUME TypeOK, IInv, NEW m \in Names, name' = m, name \in {m, None},
         \A n \in Names \ {m} :
           SameSeries(n) /\ content'[n] = content[n] /\ due'[n] = due[n],
         failures' = failures, late' = late,
         Whole(m)', WorkerSeries'
  PROVE  IInv'
<1>1. ASSUME NEW n \in Names, n # m PROVE Whole(n)' /\ Settled(n)' /\ Scheduled(n)'
  BY <1>1, Undisturbed, AbsenceAssumption
<1>2. Settled(m)' /\ Scheduled(m)'
  BY DEF Settled, Scheduled
<1> QED BY <1>1, <1>2 DEF IInv

\* The worker is done with m, and the next visit is near enough.
LEMMA FinishedHolds ==
  ASSUME TypeOK, IInv, NEW m \in Names, name = m, pc # "idle", Finished(m),
         content' = content, summary' = summary
  PROVE  IInv'
<1>0. name' = None /\ pc' = "idle" /\ report' = None /\ late' = [late EXCEPT ![m] = 0]
  BY DEF Finished, Return
<1>1. PICK b \in Nat, f \in 0..Len(Backoff) :
        /\ due' = [due EXCEPT ![m] = Earliest(@, b)]
        /\ failures' = [failures EXCEPT ![m] = f]
        /\ b <= Bound(f)
  BY DEF Finished
<1>2. /\ due'[m] \in Nat /\ due'[m] <= b
      /\ due'[m] # 0 => due[m] # 0
  BY <1>1, EarliestOf DEF TypeOK
<1>3. failures'[m] = f /\ late'[m] = 0
  BY <1>0, <1>1 DEF TypeOK
<1>4. WorkerSeries'
  BY <1>0 DEF WorkerSeries
<1>5. ASSUME NEW n \in Names, n # m PROVE Whole(n)' /\ Settled(n)' /\ Scheduled(n)'
  <2>1. due'[n] = due[n] /\ failures'[n] = failures[n] /\ late'[n] = late[n]
    BY <1>0, <1>1, <1>5 DEF TypeOK
  <2> QED BY <1>5, <2>1, Undisturbed, SameSummary
<1>6. Series(m)' = Series(m)
  BY DEF Series
<1>7. Whole(m)'
  BY <1>6 DEF IInv, Whole
<1>8. Settled(m)'
  <2>1. CASE report = None
    <3>1. pc \in {"owner", "get"}
      BY <2>1 DEF TypeOK
    <3>2. Series(m)' = {}
      BY <1>6, <3>1 DEF IInv, WorkerSeries
    <3> QED BY <3>2 DEF Settled, Shows
  <2>2. CASE report # None
    BY <1>2, <1>6, <2>2 DEF IInv, WorkerSeries, Settled, Shows
  <2> QED BY <2>1, <2>2
<1>9. Scheduled(m)'
  <2>1. due'[m] \in Nat /\ b \in Nat /\ Bound(f) \in Nat
    BY <1>2, Constants, BoundIsNat
  <2> QED BY <1>1, <1>2, <1>3, <2>1, AbsenceAssumption DEF Scheduled
<1> QED BY <1>4, <1>5, <1>7, <1>8, <1>9 DEF IInv

LEMMA NotFoundHolds == ASSUME TypeOK, IInv, NotFound PROVE IInv'
<1>1. PICK n \in Names : name = n
  BY Working DEF NotFound
<1>2. /\ pc = "get" /\ content[n] = None /\ name' = None /\ pc' = "idle" /\ report' = None
      /\ late' = [late EXCEPT ![n] = 0] /\ failures' = [failures EXCEPT ![n] = 0]
      /\ content' = content /\ due' = due /\ summary' = summary
  BY <1>1 DEF NotFound, Return, Forgotten, worldVars
<1>3. WorkerSeries'
  BY <1>2 DEF WorkerSeries
<1>4. ASSUME NEW o \in Names, o # n PROVE Whole(o)' /\ Settled(o)' /\ Scheduled(o)'
  <2>1. failures'[o] = failures[o] /\ late'[o] = late[o]
    BY <1>2, <1>4 DEF TypeOK
  <2> QED BY <1>1, <1>2, <1>4, <2>1, Undisturbed, SameSummary
<1>5. Series(n)' = {} /\ due'[n] \in {0, Never}
  BY <1>1, <1>2 DEF IInv, WorkerSeries, Series
<1>6. Whole(n)' /\ Settled(n)'
  BY <1>5, <1>2 DEF Whole, Settled, Shows
<1>7. Scheduled(n)'
  <2>1. late'[n] = 0 /\ failures'[n] = 0
    BY <1>2 DEF TypeOK
  <2> QED BY <1>2, <1>5, <2>1, Constants, AbsenceAssumption DEF Scheduled, Bound
<1> QED BY <1>3, <1>4, <1>6, <1>7 DEF IInv

LEMMA BeginHolds == ASSUME TypeOK, IInv, NEW m \in Names, Begin(m) PROVE IInv'
<1>1. \A n \in Names \ {m} : SameSeries(n)
  BY DEF Begin, Deleted, SameSeries, Series
<1>2. Series(m)' = {}
  BY DEF Begin, Deleted, Series
<1>3. due'[m] = Never /\ \A n \in Names \ {m} : due'[n] = due[n]
  BY DEF Begin, TypeOK
<1>4. WorkerSeries'
  <2>1. pc' = "owner" /\ name' = m /\ report' = None
    BY DEF Begin, TypeOK
  <2> QED BY <1>2, <1>3, <2>1 DEF WorkerSeries
<1>5. Whole(m)'
  BY <1>2 DEF Whole
<1>6. name' = m /\ name = None /\ content' = content /\ failures' = failures /\ late' = late
  BY DEF Begin, TypeOK, worldVars
<1> QED BY <1>1, <1>3, <1>4, <1>5, <1>6, GoesOn

LEMMA GetHolds == ASSUME TypeOK, IInv, Get PROVE IInv'
<1>1. PICK m \in Names : name = m
  BY Working DEF Get
<1>2. /\ name' = m /\ content' = content /\ due' = due /\ failures' = failures
      /\ late' = late /\ report' = content[m] /\ content[m] # None
      /\ pc' \in {"finalizer", "label"} /\ summary' = Published(m, report')
  BY <1>1 DEF Get, worldVars, queueVars
<1>3. DOMAIN summary' = DOMAIN summary \cup ({m} \X Severities)
  BY <1>2, PublishedDomain
<1>4. Series(m)' = {m} \X Severities
  <2>1. Series(m) \subseteq {m} \X Severities
    BY DEF IInv, Whole
  <2> QED BY <1>3, <2>1 DEF Series
<1>5. \A k \in Series(m)' : summary'[k] = report'.counts[k[2]]
  BY <1>2, <1>3, <1>4 DEF Published
<1>6. ASSUME NEW n \in Names \ {m} PROVE SameSeries(n)
  <2>1. Series(n)' = Series(n)
    BY <1>3 DEF Series
  <2>2. \A k \in Series(n) : summary'[k] = summary[k]
    BY <1>2 DEF Published, Series
  <2> QED BY <2>1, <2>2 DEF SameSeries
<1>7. due[m] \in {0, Never}
  BY <1>1 DEF Get, IInv, WorkerSeries
<1>8. WorkerSeries'
  BY <1>2, <1>5, <1>7 DEF WorkerSeries, Shows
<1>9. Whole(m)'
  BY <1>4 DEF Whole
<1> QED BY <1>1, <1>2, <1>6, <1>8, <1>9, GoesOn

\* A successful Update by the worker: the counts stay.
LEMMA UpdateHolds ==
  ASSUME TypeOK, IInv, NEW m \in Names, name = m, name' = m,
         report # None, report' # None, report'.counts = report.counts,
         pc' \in {"label", "requeue"},
         NEW rep, Update(rep), rep # None, rep.counts = report.counts,
         summary' = summary, failures' = failures, late' = late
  PROVE  IInv'
<1>1. /\ content' = [content EXCEPT ![m] = rep]
      /\ due' = IF rep = report THEN due ELSE [due EXCEPT ![m] = 0]
  BY DEF Update
<1>2. content'[m] = rep /\ due'[m] \in {0, Never}
  BY <1>1 DEF TypeOK, IInv, WorkerSeries
<1>3. \A n \in Names \ {m} :
        SameSeries(n) /\ content'[n] = content[n] /\ due'[n] = due[n]
  BY <1>1, SameSummary DEF TypeOK
<1>4. Series(m)' = Series(m)
  BY DEF Series
<1>5. Whole(m)'
  BY <1>4 DEF IInv, Whole
<1>6. Shows(m, report)
  BY DEF IInv, WorkerSeries
<1>7. WorkerSeries'
  BY <1>2, <1>4, <1>6 DEF WorkerSeries, Shows
<1> QED BY <1>3, <1>5, <1>7, GoesOn

\* Only the worker's place changes.
LEMMA PlaceHolds ==
  ASSUME TypeOK, IInv, pc # "idle", pc' # "idle",
         pc' \in {"owner", "get"} => pc \in {"owner", "get"},
         UNCHANGED <<content, due, failures, name, report, summary, late>>
  PROVE  IInv'
BY DEF IInv, WorkerSeries, Whole, Settled, Scheduled, Shows, Series

LEMMA WorkerHolds ==
  ASSUME TypeOK, IInv,
         \/ ShouldOwn \/ NotFound \/ Get \/ DropFinalizer
         \/ LabelPanics \/ Label \/ LabelFails \/ Requeue \/ CallFails
  PROVE  IInv'
<1>0. pc # "idle"
  BY DEF ShouldOwn, NotFound, Get, DropFinalizer, LabelPanics, Label, LabelFails,
         Requeue, CallFails
<1>m. PICK m \in Names : name = m
  BY <1>0, Working
<1>1. CASE ShouldOwn
  <2>1. CASE owner[name] = "me"
    BY <1>0, <1>1, <2>1, PlaceHolds DEF ShouldOwn, queueVars, worldVars
  <2>2. CASE owner[name] # "me"
    <3>1. Finished(m) /\ content' = content /\ summary' = summary
      BY <1>m, <1>1, <2>2, FailFinishes, RequeueFinishes
         DEF ShouldOwn, Revisit, Fail, worldVars
    <3> QED BY <1>0, <1>m, <3>1, FinishedHolds
  <2> QED BY <2>1, <2>2
<1>2. CASE NotFound
  BY <1>2, NotFoundHolds
<1>3. CASE Get
  BY <1>3, GetHolds
<1>4. CASE DropFinalizer
  <2>1. CASE content[name] # report
    <3>1. Finished(m) /\ content' = content /\ summary' = summary
      BY <1>m, <1>4, <2>1, FailFinishes DEF DropFinalizer, Fail
    <3> QED BY <1>0, <1>m, <3>1, FinishedHolds
  <2>2. CASE content[name] = report
    <3>1. /\ report' = Stripped(report) /\ Update(report')
          /\ pc' = "label" /\ UNCHANGED <<failures, name, late>>
      BY <1>4, <2>2 DEF DropFinalizer
    <3>2. report \in Reports /\ report # None
      BY <1>4, AbsenceAssumption DEF DropFinalizer, TypeOK
    <3>3. report' \in Reports /\ report'.counts = report.counts
      BY <3>1, <3>2 DEF Reports, Stripped
    <3>4. report' # None /\ summary' = summary
      BY <1>4, <3>3, AbsenceAssumption DEF DropFinalizer
    <3> QED BY <1>m, <3>1, <3>2, <3>3, <3>4, UpdateHolds
  <2> QED BY <2>1, <2>2
<1>5. CASE Label
  <2>1. report \in Reports /\ report # None
    BY <1>5, AbsenceAssumption DEF Label, TypeOK
  <2> DEFINE rep == [report EXCEPT !.labels = "mine"]
  <2>2. rep \in Reports /\ rep.counts = report.counts
    BY <2>1 DEF Reports
  <2>3. rep # None /\ Update(rep) /\ pc' = "requeue"
        /\ UNCHANGED <<failures, name, report, summary, late>>
    BY <1>5, <2>2, AbsenceAssumption DEF Label
  <2> QED BY <1>m, <2>1, <2>2, <2>3, UpdateHolds
<1>6. CASE LabelFails
  BY <1>0, <1>6, PlaceHolds DEF LabelFails, queueVars
<1>7. CASE LabelPanics \/ Requeue \/ CallFails
  <2>1. Finished(m) /\ content' = content /\ summary' = summary
    BY <1>m, <1>7, FailFinishes, RequeueFinishes
       DEF LabelPanics, Requeue, CallFails, Fail, worldVars
  <2> QED BY <1>0, <1>m, <2>1, FinishedHolds
<1> QED BY <1>1, <1>2, <1>3, <1>4, <1>5, <1>6, <1>7

-----------------------------------------------------------------------------
(* The world, and time.                                                     *)

LEMMA ReportChangesHolds ==
  ASSUME TypeOK, IInv, NEW n \in Names, ReportChanges(n) PROVE IInv'
<1>1. /\ due' = [due EXCEPT ![n] = Earliest(@, 0)]
      /\ UNCHANGED <<failures, pc, name, report, summary, late>>
  BY DEF ReportChanges, AddAfter
<1>2. due'[n] = 0
  <2>1. Earliest(due[n], 0) \in Nat /\ Earliest(due[n], 0) <= 0
    BY EarliestOf DEF TypeOK
  <2>2. Earliest(due[n], 0) = 0
    BY <2>1
  <2> QED BY <1>1, <2>2 DEF TypeOK
<1>3. \A o \in Names \ {n} : content'[o] = content[o] /\ due'[o] = due[o]
  BY <1>1 DEF ReportChanges, TypeOK
<1>4. ASSUME NEW o \in Names, o # n PROVE Whole(o)' /\ Settled(o)' /\ Scheduled(o)'
  BY <1>1, <1>3, <1>4, Undisturbed, SameSummary
<1>5. Whole(n)' /\ Settled(n)'
  BY <1>1, <1>2 DEF IInv, Whole, Series, Settled
<1>6. Scheduled(n)'
  <2>1. /\ Bound(failures[n]) \in Nat /\ late[n] \in Nat
        /\ due[n] \in Nat \cup {Never} /\ Scheduled(n)
    BY BoundIsNat, Constants DEF TypeOK, IInv
  <2>2. late[n] <= Bound(failures[n]) \/ name = n
    BY <2>1 DEF Scheduled
  <2> QED BY <1>1, <1>2, <2>1, <2>2, AbsenceAssumption DEF Scheduled
<1>7. WorkerSeries'
  <2>1. CASE pc = "idle"
    BY <1>1, <2>1 DEF WorkerSeries, TypeOK
  <2>2. CASE pc # "idle"
    <3>1. name \in Names
      BY <2>2, Working
    <3>2. Series(name)' = Series(name) /\ Shows(name, report)' = Shows(name, report)
      BY <1>1 DEF Series, Shows
    <3>3. CASE name = n
      BY <1>1, <1>2, <3>2, <3>3 DEF IInv, WorkerSeries
    <3>4. CASE name # n
      BY <1>1, <1>3, <3>1, <3>2, <3>4 DEF IInv, WorkerSeries
    <3> QED BY <3>3, <3>4
  <2> QED BY <2>1, <2>2
<1> QED BY <1>4, <1>5, <1>6, <1>7 DEF IInv

LEMMA TickHolds == ASSUME TypeOK, IInv, Tick PROVE IInv'
<1>1. /\ name = None /\ report = None
      /\ UNCHANGED <<content, failures, pc, name, report, summary>>
  BY DEF Tick, TypeOK, worldVars
<1>2. WorkerSeries'
  BY <1>1 DEF Tick, WorkerSeries
<1>3. ASSUME NEW n \in Names PROVE Whole(n)' /\ Settled(n)' /\ Scheduled(n)'
  <2>1. /\ name # n /\ due[n] # 0
        /\ due'[n] = IF due[n] = Never THEN Never ELSE due[n] - 1
        /\ late'[n] = IF Wrong(n) THEN late[n] + 1 ELSE 0
    BY <1>1, AbsenceAssumption DEF Tick
  <2>2. Whole(n)' /\ Settled(n)'
    BY <1>1, <2>1 DEF IInv, Whole, Settled, Shows, Series
  <2>3. CASE due[n] = Never
    <3>1. content[n] = None /\ Series(n) = {}
      BY <2>1, <2>3 DEF IInv, Settled, Scheduled
    <3>2. ~Wrong(n)
      BY <3>1 DEF Wrong, Series
    <3> QED BY <1>1, <2>1, <2>2, <2>3, <3>1, <3>2 DEF Scheduled
  <2>4. CASE due[n] # Never
    <3>1. /\ due[n] \in Nat \ {0} /\ late[n] \in Nat
          /\ Bound(failures[n]) \in Nat
          /\ late[n] + due[n] <= Bound(failures[n])
      BY <2>1, <2>4, BoundIsNat, Constants DEF TypeOK, IInv, Scheduled
    <3>2. due'[n] \in Nat /\ late'[n] + due'[n] <= Bound(failures[n])
      BY <2>1, <2>4, <3>1
    <3> QED BY <1>1, <2>2, <3>2, AbsenceAssumption DEF Scheduled
  <2> QED BY <2>3, <2>4
<1> QED BY <1>2, <1>3 DEF IInv

LEMMA NextHolds == ASSUME TypeOK, IInv, [Next]_vars PROVE IInv'
<1>1. CASE UNCHANGED vars
  BY <1>1 DEF vars, worldVars, queueVars, IInv, WorkerSeries, Whole, Settled,
              Scheduled, Shows, Series
<1>2. ASSUME NEW n \in Names, OwnerChanges(n) PROVE IInv'
  BY <1>2 DEF OwnerChanges, queueVars, IInv, WorkerSeries, Whole, Settled,
              Scheduled, Shows, Series
<1>3. CASE Next
  BY <1>2, <1>3, ReportChangesHolds, BeginHolds, WorkerHolds, TickHolds DEF Next, Worker
<1> QED BY <1>1, <1>3

LEMMA InvariantHolds == Spec => []IInv
<1>1. Init => IInv
  BY InitHolds
<1>2. TypeOK /\ IInv /\ [Next]_vars => IInv'
  BY NextHolds
<1> QED BY <1>1, <1>2, AuditsTypeCorrect, PTL DEF Spec

\* A pod that does not own a report any more, or has read that it is gone, has
\* none of its series, and otherwise has all of them from one report.
THEOREM AuditsMatch == Spec => []SeriesMatchReport
<1>1. TypeOK /\ IInv => SeriesMatchReport
  BY IInvImplies
<1> QED BY <1>1, AuditsTypeCorrect, InvariantHolds, PTL

\* The series of a report are put right before they have been wrong for the
\* requeue duration, or for the backoff of the failures behind the name.
THEOREM AuditsInTime == Spec => []InTime
<1>1. TypeOK /\ IInv => InTime
  BY IInvImplies
<1> QED BY <1>1, AuditsTypeCorrect, InvariantHolds, PTL

=============================================================================
