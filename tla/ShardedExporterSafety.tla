------------------------ MODULE ShardedExporterSafety ------------------------
(***************************************************************************)
(* Safety of ShardedExporter, for any pods, reports, kinds and hash ring:  *)
(* no scan is lost, no report is forgotten, and series that are out of     *)
(* date are visited again.                                                 *)
(***************************************************************************)
EXTENDS ShardedExporterProofs

-----------------------------------------------------------------------------
(* What any step may do to the reports on the API server.                   *)

\* A version that keeps the scan of the one before it, removes the report, or
\* is a new scan.
Follows(r, o) ==
  \/ o = Absent
  \/ Current(r) # Absent /\ o.spec = Current(r).spec
  \/ o.spec = edits + 1 /\ edits' = edits + 1

\* At most one version is appended to what the API server has of a report.
Writes ==
  /\ edits' \in {edits, edits + 1}
  /\ \A r \in Reports :
       \/ log'[r] = log[r]
       \/ \E o \in Object : Follows(r, o) /\ log'[r] = Append(log[r], o)

LEMMA NothingWritten == ASSUME UNCHANGED <<log, edits>> PROVE Writes
BY DEF Writes

LEMMA AppendWrites ==
  ASSUME TypeOK, NEW r \in Reports, NEW o \in Object, Follows(r, o),
         log' = Appended(r, o), edits' \in {edits, edits + 1}
  PROVE  Writes
<1>1. ASSUME NEW s \in Reports
      PROVE  \/ log'[s] = log[s]
             \/ s = r /\ log'[s] = Append(log[s], o)
  BY DEF Appended, TypeOK, ApiOK
<1> QED BY <1>1 DEF Writes

\* The update of an object keeps its scan or removes it.
LEMMA UpdateWrites ==
  ASSUME TypeOK, NEW r \in Reports, NEW v \in 1..Len(log[r]), NEW o \in Object,
         o = Absent \/ o.spec = log[r][v].spec,
         log' = Updated(r, v, o), edits' = edits
  PROVE  Writes
<1>1. CASE log' = log
  BY <1>1, NothingWritten
<1>2. CASE log' # log
  <2>1. v = Len(log[r]) /\ Current(r) # Absent /\ log' = Appended(r, o)
    BY <1>2 DEF Updated, Unchanged
  <2>2. Follows(r, o)
    BY <2>1 DEF Follows, Current
  <2> QED BY <2>1, <2>2, AppendWrites
<1> QED BY <1>1, <1>2

LEMMA ScannerWrites == ASSUME TypeOK, Scanner PROVE Writes
<1>1. PICK r \in Reports : Create(r) \/ Rescan(r) \/ Delete(r)
  BY DEF Scanner
<1>2. Current(r) \in Object /\ Absent \in Object /\ edits + 1 \in Nat
  BY LogIsSequences, AbsentIsObject DEF TypeOK, ApiOK
<1>3. PICK o \in Object :
        ScannerWrite(r, o) /\ (\/ o = Absent
                               \/ o.spec = edits + 1
                               \/ Current(r) # Absent /\ o.spec = Current(r).spec)
  <2>1. CASE Create(r)
    <3>1. PICK l \in {NoLabel, NilLabels} :
            ScannerWrite(r, [Absent EXCEPT !.spec = edits + 1, !.label = l])
      BY <2>1 DEF Create
    <3>2. /\ [Absent EXCEPT !.spec = edits + 1, !.label = l] \in Object
          /\ [Absent EXCEPT !.spec = edits + 1, !.label = l].spec = edits + 1
      BY <1>2 DEF Object
    <3> QED BY <3>1, <3>2
  <2>2. CASE Rescan(r)
    <3>1. PICK l \in {Current(r).label, NoLabel} :
            ScannerWrite(r, [Current(r) EXCEPT !.spec = edits + 1, !.label = l])
      BY <2>2 DEF Rescan
    <3>2. /\ [Current(r) EXCEPT !.spec = edits + 1, !.label = l] \in Object
          /\ [Current(r) EXCEPT !.spec = edits + 1, !.label = l].spec = edits + 1
      BY <1>2 DEF Object
    <3> QED BY <3>1, <3>2
  <2>3. CASE Delete(r)
    <3>1. /\ [Current(r) EXCEPT !.deleting = TRUE] \in Object
          /\ [Current(r) EXCEPT !.deleting = TRUE].spec = Current(r).spec
      BY <1>2 DEF Object
    <3> QED BY <1>2, <2>3, <3>1 DEF Delete
  <2> QED BY <1>1, <2>1, <2>2, <2>3
<1>4. log' = Appended(r, o) /\ edits' = edits + 1
  BY <1>3 DEF ScannerWrite
<1>5. Follows(r, o)
  BY <1>3, <1>4 DEF Follows
<1> QED BY <1>4, <1>5, AppendWrites

LEMMA ShutdownWrites == ASSUME TypeOK, ShutdownHook PROVE Writes
<1>1. PICK p \in Pods, r \in Reports : Release(p, r) \/ ReleaseFails(p, r)
  BY DEF ShutdownHook
<1>2. CASE ReleaseFails(p, r)
  BY <1>2, NothingWritten DEF ReleaseFails, apiVars
<1>3. CASE Release(p, r) /\ Manifest(r)
  <2>1. PICK v \in Readable(p, r) :
          log' = IF StillMine(p, log[r][v])
                 THEN Updated(r, v, [log[r][v] EXCEPT !.label = NoLabel])
                 ELSE log
    BY <1>3 DEF Release, ReleaseManifest
  <2>2. v \in 1..Len(log[r]) /\ log[r][v] \in Object
    BY <1>3, ReadableIsObject DEF Release, TypeOK, PodOK
  <2>3. /\ [log[r][v] EXCEPT !.label = NoLabel] \in Object
        /\ [log[r][v] EXCEPT !.label = NoLabel].spec = log[r][v].spec
    BY <2>2 DEF Object
  <2>4. edits' = edits
    BY <1>3 DEF Release
  <2> QED BY <2>1, <2>2, <2>3, <2>4, UpdateWrites, NothingWritten
<1>4. CASE Release(p, r) /\ ~Manifest(r)
  <2>1. log' = Updated(r, seen[p][r], log[r][seen[p][r]]) /\ edits' = edits
    BY <1>4 DEF Release, ReleaseReport
  <2>2. log' = log
    BY <2>1 DEF Updated, Unchanged, Current
  <2> QED BY <2>1, <2>2, NothingWritten
<1> QED BY <1>1, <1>2, <1>3, <1>4

LEMMA ReconcileWrites == ASSUME TypeOK, Reconcile PROVE Writes
<1>1. PICK p \in Pods, r \in Reports :
        \/ Begin(p, r) \/ Fetch(p, r)
        \/ DropFinalizer(p, r) \/ Label(p, r) \/ CallFails(p, r)
  BY DEF Reconcile
<1> DEFINE v    == base[p][r]
           read == log[r][v]
<1>2. CASE Begin(p, r) \/ Fetch(p, r) \/ CallFails(p, r)
  BY <1>2, NothingWritten DEF Begin, Fetch, CallFails, apiVars
<1>3. ASSUME DropFinalizer(p, r) \/ Label(p, r)
      PROVE  v \in 1..Len(log[r]) /\ read \in Object /\ edits' = edits
  <2>1. pc[p][r] \in {"finalize", "label"} /\ edits' = edits
    BY <1>3 DEF DropFinalizer, Label
  <2>2. base[p][r] \in Nat /\ base[p][r] # 0 /\ base[p][r] <= Len(log[r])
    BY <2>1 DEF TypeOK, WorkOK
  <2>3. v \in 1..Len(log[r])
    BY <2>2, LogIsSequences
  <2> QED BY <2>1, <2>3, LogIsSequences
<1>4. CASE DropFinalizer(p, r)
  <2> DEFINE o == IF read.deleting THEN Absent ELSE [read EXCEPT !.finalizer = FALSE]
  <2>1. o \in Object /\ (o = Absent \/ o.spec = read.spec)
    BY <1>3, <1>4, AbsentIsObject DEF Object
  <2>2. log' = Updated(r, v, o)
    BY <1>4 DEF DropFinalizer
  <2> HIDE DEF o
  <2> QED BY <1>3, <1>4, <2>1, <2>2, UpdateWrites
<1>5. CASE Label(p, r)
  <2> DEFINE o == [read EXCEPT !.label = p]
  <2>1. o \in Object /\ o.spec = read.spec
    BY <1>3, <1>5 DEF Object
  <2>2. log' = log \/ log' = Updated(r, v, o)
    BY <1>5 DEF Label, LabelManifest, LabelReport
  <2> HIDE DEF o
  <2> QED BY <1>3, <1>5, <2>1, <2>2, UpdateWrites, NothingWritten
<1> QED BY <1>1, <1>2, <1>4, <1>5

LEMMA NextWrites == ASSUME TypeOK, [Next]_vars PROVE Writes
<1>1. CASE Endpoints
  BY <1>1, NothingWritten
  DEF Endpoints, EndpointAdded, EndpointRemoved, EndpointFlap
<1>2. CASE Lifecycle
  BY <1>2, NothingWritten
  DEF Lifecycle, Start, StartManager, UpdatePeers, Stop, ListOwned, Exit, Crash, apiVars
<1>3. CASE Watch
  BY <1>3, NothingWritten DEF Watch, Deliver, TimerFires, apiVars
<1>4. CASE UNCHANGED vars
  BY <1>4, NothingWritten DEF vars, apiVars
<1> QED BY <1>1, <1>2, <1>3, <1>4, ScannerWrites, ShutdownWrites, ReconcileWrites DEF Next

-----------------------------------------------------------------------------
(* No scan is lost.                                                         *)

\* Stamps come from a counter that no version is ahead of.
StampsCounted ==
  \A r \in Reports : \A i \in DOMAIN log[r] : log[r][i].spec <= edits

\* Versions that are there stay as they are.
LEMMA WritesKeep ==
  ASSUME TypeOK, Writes, NEW r \in Reports
  PROVE  /\ \A i \in 1..Len(log[r]) : i \in 1..Len(log'[r]) /\ log'[r][i] = log[r][i]
         /\ \/ log'[r] = log[r]
            \/ /\ Len(log'[r]) = Len(log[r]) + 1
               /\ log'[r][Len(log[r]) + 1] \in Object
               /\ Follows(r, log'[r][Len(log[r]) + 1])
<1>1. log[r] \in Seq(Object) /\ Len(log[r]) \in Nat
  BY LogIsSequences
<1>2. CASE log'[r] = log[r]
  BY <1>1, <1>2
<1>3. CASE log'[r] # log[r]
  <2>1. PICK o \in Object : Follows(r, o) /\ log'[r] = Append(log[r], o)
    BY <1>3 DEF Writes
  <2>2. /\ Len(log'[r]) = Len(log[r]) + 1
        /\ log'[r][Len(log[r]) + 1] = o
        /\ \A i \in 1..Len(log[r]) : log'[r][i] = log[r][i]
    BY <1>1, <2>1
  <2> QED BY <1>1, <2>1, <2>2
<1> QED BY <1>2, <1>3

LEMMA ScansKept ==
  ASSUME TypeOK, TypeOK', NoLostScan, StampsCounted, Writes
  PROVE  NoLostScan' /\ StampsCounted'
<1> SUFFICES ASSUME NEW r \in Reports
             PROVE  /\ \A i, j \in DOMAIN log'[r] :
                          i < j /\ log'[r][j] # Absent => log'[r][i].spec <= log'[r][j].spec
                    /\ \A i \in DOMAIN log'[r] : log'[r][i].spec <= edits'
  BY DEF NoLostScan, StampsCounted
<1> DEFINE n == Len(log[r])
<1>1. /\ n \in Nat \ {0} /\ DOMAIN log[r] = 1..n
      /\ \A i \in 1..n : log[r][i].spec \in Nat
      /\ edits \in Nat /\ edits' \in Nat /\ edits <= edits'
  <2>1. /\ log[r] \in Seq(Object) /\ n \in Nat \ {0}
        /\ \A i \in 1..n : log[r][i] \in Object
    BY LogIsSequences
  <2>2. \A i \in 1..n : log[r][i].spec \in Nat
    BY <2>1 DEF Object
  <2>3. DOMAIN log[r] = 1..n
    BY <2>1
  <2>4. edits \in Nat /\ edits' \in Nat /\ edits <= edits'
    BY DEF TypeOK, ApiOK, Writes
  <2> QED BY <2>1, <2>2, <2>3, <2>4
<1>2. \A i, j \in 1..n : i < j /\ log[r][j] # Absent => log[r][i].spec <= log[r][j].spec
  BY <1>1 DEF NoLostScan
<1>3. \A i \in 1..n : log[r][i].spec <= edits
  BY <1>1 DEF StampsCounted
<1>4. CASE log'[r] = log[r]
  BY <1>1, <1>2, <1>3, <1>4
<1>5. CASE log'[r] # log[r]
  <2> DEFINE o == log'[r][n + 1]
  <2>1. /\ DOMAIN log'[r] = 1..(n + 1)
        /\ \A i \in 1..n : log'[r][i] = log[r][i]
    BY <1>1, <1>5, WritesKeep DEF TypeOK, ApiOK
  <2>2. o \in Object /\ o.spec \in Nat /\ Follows(r, o)
    BY <1>5, WritesKeep DEF Object
  <2>3. o.spec <= edits'
    BY <1>1, <1>3, <2>2 DEF Follows, Current, Absent
  <2>4. o # Absent => \A i \in 1..n : log[r][i].spec <= o.spec
    <3>1. CASE Current(r) # Absent /\ o.spec = Current(r).spec
      BY <1>1, <1>2, <3>1 DEF Current
    <3>2. CASE o.spec = edits + 1
      BY <1>1, <1>3, <3>2
    <3> QED BY <2>2, <3>1, <3>2 DEF Follows
  <2>5. \A i \in DOMAIN log'[r] : i \in 1..n \/ i = n + 1
    BY <1>1, <2>1
  <2> HIDE DEF o, n
  <2>6. ASSUME NEW i \in DOMAIN log'[r], NEW j \in DOMAIN log'[r],
               i < j, log'[r][j] # Absent
        PROVE  log'[r][i].spec <= log'[r][j].spec
    <3>1. i \in 1..n
      BY <1>1, <2>1, <2>5, <2>6
    <3>2. CASE j \in 1..n
      BY <1>2, <2>1, <2>6, <3>1, <3>2
    <3>3. CASE j = n + 1
      BY <2>1, <2>4, <2>6, <3>1, <3>3 DEF o
    <3> QED BY <2>5, <3>2, <3>3
  <2>7. ASSUME NEW i \in DOMAIN log'[r]
        PROVE  log'[r][i].spec <= edits'
    <3>1. CASE i \in 1..n
      BY <1>1, <1>3, <2>1, <3>1
    <3>2. CASE i = n + 1
      BY <2>3, <3>2 DEF o
    <3> QED BY <2>5, <3>1, <3>2
  <2> QED BY <2>6, <2>7
<1> QED BY <1>4, <1>5

LEMMA FirstScans == ASSUME Init PROVE NoLostScan /\ StampsCounted
<1>1. ASSUME NEW o \in Found PROVE o.spec \in {0, 1}
  <2>1. o = Absent \/ o \in [spec : {1}, label : {NoLabel, NilLabels},
                               finalizer : BOOLEAN, deleting : {FALSE}]
    BY FoundAssumption, Zenon
  <2>2. CASE o = Absent
    BY <2>2 DEF Absent
  <2>3. CASE o \in [spec : {1}, label : {NoLabel, NilLabels},
                    finalizer : BOOLEAN, deleting : {FALSE}]
    BY <2>3
  <2> QED BY <2>1, <2>2, <2>3
<1>2. ASSUME NEW r \in Reports
      PROVE  DOMAIN log[r] = {1} /\ log[r][1].spec \in {0, 1}
  <2>1. PICK o \in Found : log[r] = <<o>>
    BY DEF Init
  <2>2. DOMAIN log[r] = 1..1 /\ log[r][1] = o
    BY <2>1
  <2> QED BY <1>1, <2>2
<1>3. edits = 1
  BY DEF Init
<1>4. ASSUME NEW r \in Reports, NEW i \in DOMAIN log[r]
      PROVE  i = 1 /\ log[r][i].spec <= edits
  BY <1>2, <1>3
<1> QED BY <1>4 DEF NoLostScan, StampsCounted

\* No exporter, with an object that it read however long ago, brings an older
\* scan of a report back over a later one.
THEOREM ScansInOrder == Spec => []NoLostScan
<1>1. Init => NoLostScan /\ StampsCounted
  BY FirstScans
<1>2. TypeOK /\ TypeOK' /\ NoLostScan /\ StampsCounted /\ [Next]_vars
        => NoLostScan' /\ StampsCounted'
  BY NextWrites, ScansKept
<1> QED BY <1>1, <1>2, TypeCorrect, PTL DEF Spec

-----------------------------------------------------------------------------
(* No report is forgotten.                                                  *)

\* What NoReportForgotten promises of a report that p's cache has.
Attended(p, r) ==
  \/ <<p, r>> \in queue \cup timer
  \/ pc[p][r] # "idle"
  \/ seen[p][r] < Len(log[r])

\* Before the manager starts there is no cache.
EmptyCaches ==
  \A p \in Pods, r \in Reports : life[p] \in {"down", "booting"} => seen[p][r] = 0

\* A cache that no event has reached has what it had.
LEMMA CachedKept ==
  ASSUME TypeOK, Writes, NEW p \in Pods, NEW r \in Reports, seen'[p][r] = seen[p][r]
  PROVE  /\ Cached(p, r)' = Cached(p, r)
         /\ seen[p][r] < Len(log[r]) => seen'[p][r] < Len(log'[r])
<1>1. /\ seen[p][r] \in Nat /\ seen[p][r] <= Len(log[r])
      /\ Len(log[r]) \in Nat
  BY LogIsSequences DEF TypeOK, PodOK
<1>2. seen[p][r] # 0 => log'[r][seen[p][r]] = log[r][seen[p][r]]
  BY <1>1, WritesKeep
<1>3. Cached(p, r)' = Cached(p, r)
  BY <1>2 DEF Cached
<1>4. Len(log'[r]) \in {Len(log[r]), Len(log[r]) + 1}
  BY WritesKeep
<1> QED BY <1>1, <1>3, <1>4

\* A step that does nothing to the work on r at p does not forget it.
LEMMA StillAttended ==
  ASSUME TypeOK, Writes, NEW p \in Pods, NEW r \in Reports,
         Working(p) /\ Cached(p, r) # Absent => Attended(p, r),
         Working(p)' => Working(p),
         seen'[p][r] = seen[p][r], pc'[p][r] = pc[p][r],
         <<p, r>> \in queue \cup timer => <<p, r>> \in queue' \cup timer'
  PROVE  Working(p)' /\ Cached(p, r)' # Absent => Attended(p, r)'
BY CachedKept DEF Attended

\* Neither does the end of another pod, and there is nothing left of one's own.
LEMMA EndAttended ==
  ASSUME TypeOK, Writes, NoReportForgotten, EmptyCaches,
         NEW p \in Pods, GoDown(p)
  PROVE  NoReportForgotten' /\ EmptyCaches'
<1>1. ASSUME NEW q \in Pods, NEW r \in Reports
      PROVE  /\ Working(q)' /\ Cached(q, r)' # Absent => Attended(q, r)'
             /\ life'[q] \in {"down", "booting"} => seen'[q][r] = 0
  <2>1. CASE q = p
    BY <2>1 DEF GoDown, TypeOK, PodOK, Working
  <2>2. CASE q # p
    <3>1. /\ life'[q] = life[q] /\ seen'[q] = seen[q] /\ pc'[q] = pc[q]
          /\ <<q, r>> \in queue \cup timer => <<q, r>> \in queue' \cup timer'
      BY <2>2 DEF GoDown, TypeOK, PodOK, WorkOK
    <3>2. Working(q)' => Working(q)
      BY <3>1 DEF Working
    <3>3. Working(q) /\ Cached(q, r) # Absent => Attended(q, r)
      BY DEF NoReportForgotten, Attended
    <3> QED BY <3>1, <3>2, <3>3, StillAttended DEF EmptyCaches
  <2> QED BY <2>1, <2>2
<1> QED BY <1>1 DEF NoReportForgotten, Attended, EmptyCaches

\* Steps outside the watch and the workers.
LEMMA AsideAttended ==
  ASSUME TypeOK, Writes, NoReportForgotten, EmptyCaches,
         UNCHANGED <<seen, queue, timer, pc>>,
         \A p \in Pods :
           /\ Working(p)' => Working(p) \/ life[p] = "booting"
           /\ life'[p] \in {"down", "booting"} => life[p] \in {"down", "booting"}
  PROVE  NoReportForgotten' /\ EmptyCaches'
<1>1. ASSUME NEW p \in Pods, NEW r \in Reports
      PROVE  Working(p)' /\ Cached(p, r)' # Absent => Attended(p, r)'
  <2>1. CASE life[p] = "booting"
    <3>1. Cached(p, r)' = Absent
      BY <2>1 DEF EmptyCaches, Cached
    <3> QED BY <3>1
  <2>2. CASE life[p] # "booting"
    <3>1. Working(p) /\ Cached(p, r) # Absent => Attended(p, r)
      BY DEF NoReportForgotten, Attended
    <3> QED BY <2>2, <3>1, StillAttended
  <2> QED BY <2>1, <2>2
<1> QED BY <1>1 DEF NoReportForgotten, Attended, EmptyCaches

\* A step of the watch or of a worker, that concerns r at p.
LEMMA WorkAttended ==
  ASSUME TypeOK, Writes, NoReportForgotten, EmptyCaches,
         NEW p \in Pods, NEW r \in Reports, Working(p), UNCHANGED life,
         \A q \in Pods, s \in Reports : <<q, s>> # <<p, r>> =>
           /\ seen'[q][s] = seen[q][s] /\ pc'[q][s] = pc[q][s]
           /\ <<q, s>> \in queue \cup timer => <<q, s>> \in queue' \cup timer',
         Cached(p, r)' # Absent => Attended(p, r)'
  PROVE  NoReportForgotten' /\ EmptyCaches'
<1>1. ASSUME NEW q \in Pods, NEW s \in Reports
      PROVE  Working(q)' /\ Cached(q, s)' # Absent => Attended(q, s)'
  <2>1. CASE <<q, s>> = <<p, r>>
    BY <2>1
  <2>2. CASE <<q, s>> # <<p, r>>
    <3>1. Working(q) /\ Cached(q, s) # Absent => Attended(q, s)
      BY DEF NoReportForgotten, Attended
    <3> QED BY <2>2, <3>1, StillAttended DEF Working
  <2> QED BY <2>1, <2>2
<1>2. EmptyCaches'
  BY DEF EmptyCaches, Working
<1> QED BY <1>1, <1>2 DEF NoReportForgotten, Attended

LEMMA WatchAttended ==
  ASSUME TypeOK, Writes, NoReportForgotten, EmptyCaches, Watch
  PROVE  NoReportForgotten' /\ EmptyCaches'
<1>1. PICK p \in Pods, r \in Reports : Deliver(p, r) \/ TimerFires(p, r)
  BY DEF Watch
<1>2. CASE Deliver(p, r)
  <2>1. PICK v \in (seen[p][r] + 1)..Len(log[r]) :
          /\ seen' = [seen EXCEPT ![p][r] = v]
          /\ queue' = IF Wakes(Cached(p, r), log[r][v])
                      THEN queue \cup {<<p, r>>} ELSE queue
    BY <1>2 DEF Deliver
  <2>2. v # 0
    BY <2>1 DEF TypeOK, PodOK
  <2>3. Cached(p, r)' = log[r][v]
    BY <1>2, <2>1, <2>2 DEF Deliver, Cached, apiVars, TypeOK, PodOK
  <2>4. Cached(p, r)' # Absent => Attended(p, r)'
    BY <2>1, <2>3 DEF Wakes, Attended
  <2>5. \A q \in Pods, s \in Reports : <<q, s>> # <<p, r>> =>
          /\ seen'[q][s] = seen[q][s] /\ pc'[q][s] = pc[q][s]
          /\ <<q, s>> \in queue \cup timer => <<q, s>> \in queue' \cup timer'
    BY <1>2, <2>1 DEF Deliver, TypeOK, PodOK
  <2> QED BY <1>2, <2>4, <2>5, WorkAttended DEF Deliver
<1>3. CASE TimerFires(p, r)
  <2>1. Attended(p, r)'
    BY <1>3 DEF TimerFires, Attended
  <2>2. \A q \in Pods, s \in Reports : <<q, s>> # <<p, r>> =>
          /\ seen'[q][s] = seen[q][s] /\ pc'[q][s] = pc[q][s]
          /\ <<q, s>> \in queue \cup timer => <<q, s>> \in queue' \cup timer'
    BY <1>3 DEF TimerFires, viewVars
  <2> QED BY <1>3, <2>1, <2>2, WorkAttended DEF TimerFires, Working
<1> QED BY <1>1, <1>2, <1>3

\* A Reconcile of r at p goes on, or r is added again after a delay; only a
\* report that is gone is dropped.
LEMMA StepAttended ==
  ASSUME TypeOK, NEW p \in Pods, NEW r \in Reports,
         \/ Begin(p, r) \/ Fetch(p, r)
         \/ DropFinalizer(p, r) \/ Label(p, r) \/ CallFails(p, r)
  PROVE  Cached(p, r)' # Absent => Attended(p, r)'
<1>1. pc \in [Pods -> [Reports -> {"idle", "fetch", "finalize", "label"}]]
  BY DEF TypeOK, WorkOK
<1>2. CASE Begin(p, r)
  <2>1. pc'[p][r] = "fetch" \/ <<p, r>> \in timer'
    BY <1>1, <1>2 DEF Begin, Revisit, Retry, Return
  <2> QED BY <2>1 DEF Attended
<1>3. CASE Fetch(p, r)
  <2>1. PICK v \in Readable(p, r) :
          \/ log[r][v] = Absent
          \/ pc' = [pc EXCEPT ![p][r] =
                      IF Legacy(log[r][v]) THEN "finalize" ELSE "label"]
    BY <1>3 DEF Fetch
  <2>2. CASE log[r][v] = Absent
    <3>1. UNCHANGED <<log, seen>>
      BY <1>3 DEF Fetch, apiVars, viewVars
    <3>2. CASE v = seen[p][r]
      BY <2>2, <3>1, <3>2 DEF Cached
    <3>3. CASE v = Len(log[r]) /\ v # seen[p][r]
      <4>1. seen[p][r] \in Nat /\ seen[p][r] <= Len(log[r]) /\ Len(log[r]) \in Nat
        BY LogIsSequences DEF TypeOK, PodOK
      <4> QED BY <3>1, <3>3, <4>1 DEF Attended
    <3> QED BY <3>2, <3>3 DEF Readable
  <2>3. CASE log[r][v] # Absent
    <3>1. pc'[p][r] # "idle"
      BY <1>1, <2>1, <2>3
    <3> QED BY <3>1 DEF Attended
  <2> QED BY <2>2, <2>3
<1>4. CASE DropFinalizer(p, r)
  <2>1. pc'[p][r] = "label" \/ <<p, r>> \in timer'
    BY <1>1, <1>4 DEF DropFinalizer, Retry, Return
  <2> QED BY <2>1 DEF Attended
<1>5. CASE Label(p, r) \/ CallFails(p, r)
  BY <1>5 DEF Label, CallFails, Retry, Return, Attended
<1> QED BY <1>2, <1>3, <1>4, <1>5

LEMMA ReconcileAttended ==
  ASSUME TypeOK, Writes, NoReportForgotten, EmptyCaches, Reconcile
  PROVE  NoReportForgotten' /\ EmptyCaches'
<1>1. PICK p \in Pods, r \in Reports :
        \/ Begin(p, r) \/ Fetch(p, r)
        \/ DropFinalizer(p, r) \/ Label(p, r) \/ CallFails(p, r)
  BY DEF Reconcile
<1>2. Working(p) /\ UNCHANGED <<life, seen>>
  BY <1>1
  DEF Begin, Fetch, DropFinalizer, Label, CallFails, Working, viewVars
<1>3. /\ queue \ {<<p, r>>} \subseteq queue'
      /\ timer \subseteq timer'
      /\ pc' = pc \/ \E c : pc' = [pc EXCEPT ![p][r] = c]
  BY <1>1
  DEF Begin, Fetch, DropFinalizer, Label, CallFails, Revisit, Retry, Return
<1>4. \A q \in Pods, s \in Reports : <<q, s>> # <<p, r>> =>
        /\ seen'[q][s] = seen[q][s] /\ pc'[q][s] = pc[q][s]
        /\ <<q, s>> \in queue \cup timer => <<q, s>> \in queue' \cup timer'
  BY <1>2, <1>3 DEF TypeOK, WorkOK
<1>5. Cached(p, r)' # Absent => Attended(p, r)'
  BY <1>1, StepAttended
<1> QED BY <1>2, <1>4, <1>5, WorkAttended

LEMMA LifecycleAttended ==
  ASSUME TypeOK, Writes, NoReportForgotten, EmptyCaches, Lifecycle
  PROVE  NoReportForgotten' /\ EmptyCaches'
<1>1. PICK p \in Pods :
        \/ Start(p) \/ StartManager(p) \/ UpdatePeers(p) \/ Stop(p)
        \/ ListOwned(p) \/ Exit(p) \/ Crash(p)
  BY DEF Lifecycle
<1>2. CASE Exit(p) \/ Crash(p)
  BY <1>2, EndAttended DEF Exit, Crash
<1>3. CASE Start(p) \/ StartManager(p) \/ UpdatePeers(p) \/ Stop(p) \/ ListOwned(p)
  <2>1. UNCHANGED <<seen, queue, timer, pc>>
    BY <1>3 DEF Start, StartManager, UpdatePeers, Stop, ListOwned, viewVars, workVars
  <2>2. \A q \in Pods :
          /\ Working(q)' => Working(q) \/ life[q] = "booting"
          /\ life'[q] \in {"down", "booting"} => life[q] \in {"down", "booting"}
    BY <1>3
    DEF Start, StartManager, UpdatePeers, Stop, ListOwned, Working, TypeOK, PodOK
  <2> QED BY <2>1, <2>2, AsideAttended
<1> QED BY <1>1, <1>2, <1>3

LEMMA NextAttended ==
  ASSUME TypeOK, NoReportForgotten, EmptyCaches, [Next]_vars
  PROVE  NoReportForgotten' /\ EmptyCaches'
<1>1. Writes
  BY NextWrites
<1>2. CASE Scanner \/ Endpoints \/ ShutdownHook \/ UNCHANGED vars
  <2>1. UNCHANGED <<life, seen, queue, timer, pc>>
    BY <1>2
    DEF Scanner, Create, Rescan, Delete, ScannerWrite, Endpoints, EndpointAdded,
        EndpointRemoved, EndpointFlap, ShutdownHook, Release, ReleaseFails,
        vars, viewVars, workVars
  <2>2. \A p \in Pods :
          /\ Working(p)' => Working(p) \/ life[p] = "booting"
          /\ life'[p] \in {"down", "booting"} => life[p] \in {"down", "booting"}
    BY <2>1 DEF Working
  <2> QED BY <1>1, <2>1, <2>2, AsideAttended
<1> QED BY <1>1, <1>2, WatchAttended, ReconcileAttended, LifecycleAttended DEF Next

\* A report that a live pod has in its cache is always about to be looked at
\* again there, so that whoever becomes its owner will find out.
THEOREM NothingForgotten == Spec => []NoReportForgotten
<1>1. Init => NoReportForgotten /\ EmptyCaches
  BY DEF Init, NoReportForgotten, EmptyCaches, Working
<1>2. TypeOK /\ NoReportForgotten /\ EmptyCaches /\ [Next]_vars
        => NoReportForgotten' /\ EmptyCaches'
  BY NextAttended
<1> QED BY <1>1, <1>2, TypeCorrect, PTL DEF Spec

-----------------------------------------------------------------------------
(* Stale series are visited again.                                          *)

\* What StaleSeriesRevisited says of r at p.
Fresh(p, r) ==
  series[p][r] # 0 /\ <<p, r>> \notin queue =>
    Cached(p, r) # Absent /\ series[p][r] >= Cached(p, r).spec

LEMMA StillFresh ==
  ASSUME TypeOK, Writes, NEW p \in Pods, NEW r \in Reports, Fresh(p, r),
         seen'[p][r] = seen[p][r], series'[p][r] = series[p][r],
         <<p, r>> \in queue => <<p, r>> \in queue'
  PROVE  Fresh(p, r)'
BY CachedKept DEF Fresh

\* Nothing is exposed of a report, or its turn will come.
LEMMA Blank ==
  ASSUME NEW p \in Pods, NEW r \in Reports,
         series'[p][r] = 0 \/ <<p, r>> \in queue'
  PROVE  Fresh(p, r)'
BY DEF Fresh

LEMMA EndFresh ==
  ASSUME TypeOK, Writes, StaleSeriesRevisited, NEW p \in Pods, GoDown(p)
  PROVE  StaleSeriesRevisited'
<1>1. ASSUME NEW q \in Pods, NEW r \in Reports PROVE Fresh(q, r)'
  <2>1. CASE q = p
    <3>1. series'[q][r] = 0
      BY <2>1 DEF GoDown, TypeOK, WorkOK
    <3> QED BY <3>1, Blank
  <2>2. CASE q # p
    <3>1. /\ seen'[q][r] = seen[q][r] /\ series'[q][r] = series[q][r]
          /\ <<q, r>> \in queue => <<q, r>> \in queue'
      BY <2>2 DEF GoDown, TypeOK, PodOK, WorkOK
    <3>2. Fresh(q, r)
      BY DEF StaleSeriesRevisited, Fresh
    <3> QED BY <3>1, <3>2, StillFresh
  <2> QED BY <2>1, <2>2
<1> QED BY <1>1 DEF StaleSeriesRevisited, Fresh

\* A step of the watch or of a worker, that concerns r at p.
LEMMA WorkFresh ==
  ASSUME TypeOK, Writes, StaleSeriesRevisited, NEW p \in Pods, NEW r \in Reports,
         \A q \in Pods, s \in Reports : <<q, s>> # <<p, r>> =>
           /\ seen'[q][s] = seen[q][s] /\ series'[q][s] = series[q][s]
           /\ <<q, s>> \in queue => <<q, s>> \in queue',
         Fresh(p, r)'
  PROVE  StaleSeriesRevisited'
<1>1. ASSUME NEW q \in Pods, NEW s \in Reports PROVE Fresh(q, s)'
  <2>1. CASE <<q, s>> = <<p, r>>
    BY <2>1
  <2>2. CASE <<q, s>> # <<p, r>>
    <3>1. Fresh(q, s)
      BY DEF StaleSeriesRevisited, Fresh
    <3> QED BY <2>2, <3>1, StillFresh
  <2> QED BY <2>1, <2>2
<1> QED BY <1>1 DEF StaleSeriesRevisited, Fresh

\* What Get returned is at least as late as what the cache has, even when the
\* hydrating cache went to the API server.
LEMMA FetchFresh ==
  ASSUME TypeOK, NoLostScan, StaleSeriesRevisited,
         NEW p \in Pods, NEW r \in Reports, Fetch(p, r)
  PROVE  Fresh(p, r)'
<1>1. PICK v \in Readable(p, r) :
        \/ log[r][v] = Absent /\ UNCHANGED series
        \/ log[r][v] # Absent /\ series' = [series EXCEPT ![p][r] = log[r][v].spec]
  BY DEF Fetch
<1>2. /\ UNCHANGED <<log, seen, queue>>
      /\ Cached(p, r)' = Cached(p, r)
  BY DEF Fetch, apiVars, viewVars, Cached
<1>3. Fresh(p, r)
  BY DEF StaleSeriesRevisited, Fresh
<1>4. CASE UNCHANGED series
  BY <1>2, <1>3, <1>4 DEF Fresh
<1>5. CASE log[r][v] # Absent /\ series' = [series EXCEPT ![p][r] = log[r][v].spec]
  <2>1. seen[p][r] # 0
    BY DEF Fetch, TypeOK, WorkOK
  <2>2. /\ v \in 1..Len(log[r]) /\ seen[p][r] \in 1..Len(log[r])
        /\ seen[p][r] <= v /\ log[r][v].spec \in Nat
    BY <2>1, ReadableIsObject, LogIsSequences DEF Object, TypeOK, PodOK
  <2>3. Cached(p, r) = log[r][seen[p][r]]
    BY <2>1 DEF Cached
  <2>4. log[r][seen[p][r]].spec <= log[r][v].spec
    <3>1. CASE seen[p][r] = v
      BY <2>2, <3>1
    <3>2. CASE seen[p][r] # v
      <4>1. DOMAIN log[r] = 1..Len(log[r]) /\ seen[p][r] < v
        BY <2>2, <3>2, LogIsSequences
      <4> QED BY <1>5, <2>2, <4>1 DEF NoLostScan
    <3> QED BY <3>1, <3>2
  <2>5. Cached(p, r) # Absent
    BY <1>5, <2>3 DEF Readable
  <2>6. series'[p][r] = log[r][v].spec
    BY <1>5 DEF TypeOK, WorkOK
  <2>7. Cached(p, r).spec \in Nat
    BY <2>2, <2>3, LogIsSequences DEF Object
  <2> QED BY <1>2, <2>2, <2>3, <2>4, <2>5, <2>6, <2>7 DEF Fresh
<1> QED BY <1>1, <1>4, <1>5

LEMMA ReconcileFresh ==
  ASSUME TypeOK, Writes, NoLostScan, StaleSeriesRevisited, Reconcile
  PROVE  StaleSeriesRevisited'
<1>1. PICK p \in Pods, r \in Reports :
        \/ Begin(p, r) \/ Fetch(p, r)
        \/ DropFinalizer(p, r) \/ Label(p, r) \/ CallFails(p, r)
  BY DEF Reconcile
<1>2. /\ queue \ {<<p, r>>} \subseteq queue'
      /\ UNCHANGED seen
      /\ series' = series \/ \E n : series' = [series EXCEPT ![p][r] = n]
  BY <1>1
  DEF Begin, Cleared, Fetch, DropFinalizer, Label, CallFails, viewVars
<1>3. \A q \in Pods, s \in Reports : <<q, s>> # <<p, r>> =>
        /\ seen'[q][s] = seen[q][s] /\ series'[q][s] = series[q][s]
        /\ <<q, s>> \in queue => <<q, s>> \in queue'
  BY <1>2 DEF TypeOK, WorkOK
<1>4. CASE Begin(p, r)
  <2>1. series'[p][r] = 0
    BY <1>4 DEF Begin, Cleared, TypeOK, WorkOK
  <2> QED BY <1>3, <2>1, Blank, WorkFresh
<1>5. CASE Fetch(p, r)
  BY <1>3, <1>5, FetchFresh, WorkFresh
<1>6. CASE DropFinalizer(p, r) \/ Label(p, r) \/ CallFails(p, r)
  <2>1. UNCHANGED <<seen, series, queue>>
    BY <1>6 DEF DropFinalizer, Label, CallFails, viewVars
  <2>2. Fresh(p, r)
    BY DEF StaleSeriesRevisited, Fresh
  <2>3. Fresh(p, r)'
    BY <2>1, <2>2, StillFresh
  <2> QED BY <1>3, <2>3, WorkFresh
<1> QED BY <1>1, <1>4, <1>5, <1>6

\* An event that changes what the cache has enqueues the report.
LEMMA WatchFresh ==
  ASSUME TypeOK, Writes, StaleSeriesRevisited, Watch
  PROVE  StaleSeriesRevisited'
<1>1. PICK p \in Pods, r \in Reports : Deliver(p, r) \/ TimerFires(p, r)
  BY DEF Watch
<1>2. Fresh(p, r)
  BY DEF StaleSeriesRevisited, Fresh
<1>3. CASE Deliver(p, r)
  <2>1. PICK v \in (seen[p][r] + 1)..Len(log[r]) :
          /\ seen' = [seen EXCEPT ![p][r] = v]
          /\ queue' = IF Wakes(Cached(p, r), log[r][v])
                      THEN queue \cup {<<p, r>>} ELSE queue
    BY <1>3 DEF Deliver
  <2>2. series' = series
    BY <1>3 DEF Deliver
  <2>3. Wakes(Cached(p, r), log[r][v]) => <<p, r>> \in queue'
    BY <2>1
  <2>4. ~Wakes(Cached(p, r), log[r][v]) => Cached(p, r) = Absent /\ queue' = queue
    BY <2>1 DEF Wakes
  <2>5. Fresh(p, r)'
    <3>1. series'[p][r] = 0 \/ <<p, r>> \in queue'
      BY <1>2, <2>2, <2>3, <2>4 DEF Fresh
    <3> QED BY <3>1, Blank
  <2>6. \A q \in Pods, s \in Reports : <<q, s>> # <<p, r>> =>
          /\ seen'[q][s] = seen[q][s] /\ series'[q][s] = series[q][s]
          /\ <<q, s>> \in queue => <<q, s>> \in queue'
    BY <2>1, <2>2 DEF TypeOK, PodOK
  <2> QED BY <2>5, <2>6, WorkFresh
<1>4. CASE TimerFires(p, r)
  <2>1. Fresh(p, r)'
    BY <1>4, Blank DEF TimerFires
  <2>2. \A q \in Pods, s \in Reports : <<q, s>> # <<p, r>> =>
          /\ seen'[q][s] = seen[q][s] /\ series'[q][s] = series[q][s]
          /\ <<q, s>> \in queue => <<q, s>> \in queue'
    BY <1>4 DEF TimerFires, viewVars
  <2> QED BY <2>1, <2>2, WorkFresh
<1> QED BY <1>1, <1>3, <1>4

LEMMA NextFresh ==
  ASSUME TypeOK, NoLostScan, StaleSeriesRevisited, [Next]_vars
  PROVE  StaleSeriesRevisited'
<1>1. Writes
  BY NextWrites
<1>2. ASSUME UNCHANGED <<seen, series, queue>> PROVE StaleSeriesRevisited'
  <2>1. ASSUME NEW p \in Pods, NEW r \in Reports PROVE Fresh(p, r)'
    <3>1. Fresh(p, r)
      BY DEF StaleSeriesRevisited, Fresh
    <3> QED BY <1>1, <1>2, <3>1, StillFresh
  <2> QED BY <2>1 DEF StaleSeriesRevisited, Fresh
<1>3. CASE Scanner \/ Endpoints \/ ShutdownHook \/ UNCHANGED vars
  BY <1>2, <1>3
  DEF Scanner, Create, Rescan, Delete, ScannerWrite, Endpoints, EndpointAdded,
      EndpointRemoved, EndpointFlap, ShutdownHook, Release, ReleaseFails,
      vars, viewVars, workVars
<1>4. CASE Lifecycle
  <2>1. PICK p \in Pods :
          \/ Start(p) \/ StartManager(p) \/ UpdatePeers(p) \/ Stop(p)
          \/ ListOwned(p) \/ Exit(p) \/ Crash(p)
    BY <1>4 DEF Lifecycle
  <2>2. CASE Exit(p) \/ Crash(p)
    BY <1>1, <2>2, EndFresh DEF Exit, Crash
  <2>3. CASE ~(Exit(p) \/ Crash(p))
    BY <1>2, <2>1, <2>3
    DEF Start, StartManager, UpdatePeers, Stop, ListOwned, viewVars, workVars
  <2> QED BY <2>2, <2>3
<1> QED BY <1>1, <1>3, <1>4, WatchFresh, ReconcileFresh DEF Next

\* Series of an old scan, or of a report that is gone, are only there while the
\* cache does not know better or the report waits for its Reconcile.
THEOREM StaleSeriesFound == Spec => []StaleSeriesRevisited
<1>1. Init => StaleSeriesRevisited
  BY DEF Init, StaleSeriesRevisited
<1>2. TypeOK /\ NoLostScan /\ StaleSeriesRevisited /\ [Next]_vars
        => StaleSeriesRevisited'
  BY NextFresh
<1> QED BY <1>1, <1>2, TypeCorrect, ScansInOrder, PTL DEF Spec

-----------------------------------------------------------------------------
(* A report is served under its own label.                                  *)

\* Nothing can have failed before a shutdown began.
Faultless == faults = 0 => \A p \in Pods : life[p] \notin {"stopping", "releasing"}

\* The worker has cleared the series when it fetches, and drops a finalizer only
\* where there is one.
InOrder(p, r) ==
  /\ pc[p][r] = "fetch" => series[p][r] = 0
  /\ pc[p][r] = "finalize" => Legacy(log[r][base[p][r]])

\* The label is p's, or cannot be, or p has still to be told of a version.
Noticed(p, r) ==
  \/ seen[p][r] < Len(log[r])
  \/ Current(r).label \in {p, NilLabels}
  \/ Misled(p, r)

\* What ServesUnderItsLabel promises, and what makes it so: the version that a
\* Reconcile is going to label is not behind the cache, so that a label that is
\* refused leaves something to be told of.
Told(p, r) ==
  /\ series[p][r] # 0 /\ <<p, r>> \notin queue
  /\ faults = 0 /\ Len(log[r]) < MaxVersions[r]
  => IF pc[p][r] \in {"finalize", "label"} THEN seen[p][r] <= base[p][r] ELSE Noticed(p, r)

ToldInv == Faultless /\ \A p \in Pods, r \in Reports : InOrder(p, r) /\ Told(p, r)

\* The faults are never fewer.
LEMMA FaultsGrow == ASSUME TypeOK, [Next]_vars PROVE faults' = 0 => faults = 0
<1>1. faults \in Nat
  BY DEF TypeOK, ApiOK
<1>2. ASSUME NEW p \in Pods, Fault(p) PROVE faults' = 0 => faults = 0
  BY <1>1, <1>2 DEF Fault
<1>3. CASE Scanner \/ Watch \/ UNCHANGED vars
  BY <1>3
  DEF Scanner, Create, Rescan, Delete, ScannerWrite, Watch, Deliver, TimerFires, vars
<1>4. CASE Endpoints
  BY <1>2, <1>4 DEF Endpoints, EndpointAdded, EndpointRemoved, EndpointFlap
<1>5. CASE Lifecycle
  BY <1>1, <1>2, <1>5
  DEF Lifecycle, Start, StartManager, UpdatePeers, Stop, ListOwned, Exit, Crash
<1>6. CASE ShutdownHook
  BY <1>2, <1>6 DEF ShutdownHook, Release, ReleaseFails
<1>7. CASE Reconcile
  BY <1>2, <1>7
  DEF Reconcile, Begin, Fetch, DropFinalizer, Label, CallFails
<1> QED BY <1>3, <1>4, <1>5, <1>6, <1>7 DEF Next

LEMMA NextFaultless == ASSUME TypeOK, Faultless, [Next]_vars PROVE Faultless'
<1>1. faults \in Nat /\ life \in [Pods -> {"down", "booting", "running", "stopping", "releasing"}]
  BY DEF TypeOK, ApiOK, PodOK
<1>2. CASE UNCHANGED life
  BY <1>2, FaultsGrow DEF Faultless
<1>3. CASE Lifecycle
  <2>1. PICK p \in Pods :
          \/ Start(p) \/ StartManager(p) \/ UpdatePeers(p) \/ Stop(p)
          \/ ListOwned(p) \/ Exit(p) \/ Crash(p)
    BY <1>3 DEF Lifecycle
  <2>2. CASE UpdatePeers(p)
    BY <1>2, <2>2 DEF UpdatePeers
  <2>3. CASE Stop(p)
    <3>1. faults' = faults + 1
      BY <2>3 DEF Stop, Fault
    <3> QED BY <1>1, <3>1 DEF Faultless
  <2>4. CASE ListOwned(p)
    BY <2>4 DEF ListOwned, Faultless
  <2>5. CASE Start(p) \/ StartManager(p) \/ Exit(p) \/ Crash(p)
    <3>1. \A q \in Pods : life'[q] = life[q] \/ life'[q] \in {"down", "booting", "running"}
      BY <1>1, <2>5 DEF Start, StartManager, Exit, Crash, GoDown
    <3> QED BY <3>1, FaultsGrow DEF Faultless
  <2> QED BY <2>1, <2>2, <2>3, <2>4, <2>5
<1>4. CASE Scanner \/ Endpoints \/ ShutdownHook \/ Watch \/ Reconcile \/ UNCHANGED vars
  <2>1. UNCHANGED life
    BY <1>4
    DEF Scanner, Create, Rescan, Delete, ScannerWrite, Endpoints, EndpointAdded,
        EndpointRemoved, EndpointFlap, ShutdownHook, Release, ReleaseFails, Watch,
        Deliver, TimerFires, Reconcile, Begin, Fetch, DropFinalizer, Label,
        CallFails, vars
  <2> QED BY <1>2, <2>1
<1> QED BY <1>3, <1>4 DEF Next

\* A version that is added is one to be told of.
LEMMA StillNoticed ==
  ASSUME TypeOK, Writes, NEW p \in Pods, NEW r \in Reports, Noticed(p, r),
         seen'[p][r] = seen[p][r]
  PROVE  Noticed(p, r)'
<1>1. seen[p][r] \in Nat /\ seen[p][r] <= Len(log[r]) /\ Len(log[r]) \in Nat
  BY LogIsSequences DEF TypeOK, PodOK
<1>2. CASE log'[r] = log[r]
  BY <1>2 DEF Noticed, Misled, Current
<1>3. CASE log'[r] # log[r]
  BY <1>1, <1>3, WritesKeep DEF Noticed
<1> QED BY <1>2, <1>3

LEMMA StillTold ==
  ASSUME TypeOK, Writes, faults' = 0 => faults = 0,
         NEW p \in Pods, NEW r \in Reports, InOrder(p, r), Told(p, r),
         seen'[p][r] = seen[p][r], series'[p][r] = series[p][r],
         pc'[p][r] = pc[p][r], base'[p][r] = base[p][r],
         <<p, r>> \in queue => <<p, r>> \in queue'
  PROVE  InOrder(p, r)' /\ Told(p, r)'
<1>1. /\ base[p][r] \in Nat /\ base[p][r] <= Len(log[r])
      /\ pc[p][r] = "finalize" => base[p][r] # 0
  BY DEF TypeOK, WorkOK
<1>2. /\ Len(log[r]) \in Nat
      /\ Len(log'[r]) \in {Len(log[r]), Len(log[r]) + 1}
      /\ pc[p][r] = "finalize" => log'[r][base[p][r]] = log[r][base[p][r]]
  BY <1>1, LogIsSequences, WritesKeep
<1>3. InOrder(p, r)'
  BY <1>2 DEF InOrder, Legacy
<1>4. Len(log'[r]) < MaxVersions[r] => Len(log[r]) < MaxVersions[r]
  BY <1>2, BoundAssumption
<1>5. Noticed(p, r) => Noticed(p, r)'
  BY StillNoticed
<1> QED BY <1>3, <1>4, <1>5 DEF Told

\* Nothing is exposed of a report, or its turn will come, or something failed.
LEMMA NotTold ==
  ASSUME NEW p \in Pods, NEW r \in Reports,
         \/ series'[p][r] = 0
         \/ <<p, r>> \in queue'
         \/ faults' # 0
  PROVE  Told(p, r)'
BY DEF Told

LEMMA EndTold ==
  ASSUME TypeOK, Writes, faults' = 0 => faults = 0, NEW p \in Pods, GoDown(p),
         NEW q \in Pods, NEW r \in Reports, InOrder(q, r), Told(q, r)
  PROVE  InOrder(q, r)' /\ Told(q, r)'
<1>1. CASE q = p
  <2>1. series'[q][r] = 0 /\ pc'[q][r] = "idle"
    BY <1>1 DEF GoDown, TypeOK, WorkOK
  <2> QED BY <2>1, NotTold DEF InOrder
<1>2. CASE q # p
  <2>1. /\ seen'[q][r] = seen[q][r] /\ series'[q][r] = series[q][r]
        /\ pc'[q][r] = pc[q][r] /\ base'[q][r] = base[q][r]
        /\ <<q, r>> \in queue => <<q, r>> \in queue'
    BY <1>2 DEF GoDown, TypeOK, PodOK, WorkOK
  <2> QED BY <2>1, StillTold
<1> QED BY <1>1, <1>2

\* Where an update of the version last read, or of the one after, is refused,
\* there is a version that p has still to be told of.
LEMMA Refused ==
  ASSUME TypeOK, NEW p \in Pods, NEW r \in Reports, NEW v \in 1..Len(log[r]),
         v # Len(log[r]), seen[p][r] <= v
  PROVE  Noticed(p, r)
BY LogIsSequences DEF Noticed, TypeOK, PodOK

LEMMA FinalizerTold ==
  ASSUME TypeOK, Writes, NEW p \in Pods, NEW r \in Reports, InOrder(p, r), Told(p, r),
         DropFinalizer(p, r)
  PROVE  InOrder(p, r)' /\ Told(p, r)'
<1> DEFINE v == base[p][r]
           read == log[r][v]
           new == IF read.deleting THEN Absent ELSE [read EXCEPT !.finalizer = FALSE]
<1>1. /\ pc \in [Pods -> [Reports -> {"idle", "fetch", "finalize", "label"}]]
      /\ base \in [Pods -> [Reports -> Nat]]
      /\ seen[p][r] \in Nat
  BY DEF TypeOK, WorkOK, PodOK
<1>2. /\ pc[p][r] = "finalize" /\ log' = Updated(r, v, new)
      /\ UNCHANGED <<seen, series, queue, faults>>
  BY DEF DropFinalizer, viewVars
<1>3. v \in 1..Len(log[r]) /\ Len(log[r]) \in Nat /\ read \in Object /\ read.finalizer
  BY <1>1, <1>2, LogIsSequences DEF InOrder, Legacy, TypeOK, WorkOK
<1>4. Len(log'[r]) \in {Len(log[r]), Len(log[r]) + 1}
  BY <1>3, WritesKeep
<1>5. CASE log' # log
  <2>1. pc'[p][r] = "label" /\ base'[p][r] = v + 1
    BY <1>1, <1>5 DEF DropFinalizer
  <2>2. Told(p, r)'
    BY <1>1, <1>2, <1>3, <1>4, <2>1, BoundAssumption DEF Told
  <2> QED BY <2>1, <2>2 DEF InOrder
<1>6. CASE log' = log
  <2>1. pc'[p][r] = "idle"
    BY <1>1, <1>6 DEF DropFinalizer, Retry, Return
  <2>2. v # Len(log[r])
    <3>1. SUFFICES ASSUME v = Len(log[r]) PROVE FALSE
      OBVIOUS
    <3>2. read = Current(r) /\ read # Absent
      BY <1>3, <3>1 DEF Current, Absent
    <3>3. new # Current(r)
      BY <1>3, <3>2 DEF Absent, Object
    <3>4. log' = Appended(r, new) /\ new \in Object
      BY <1>2, <1>3, <3>1, <3>2, <3>3, AbsentIsObject DEF Updated, Unchanged, Object
    <3> HIDE DEF new
    <3>5. Len(log'[r]) = Len(log[r]) + 1
      BY <3>4, AppendObject
    <3> QED BY <1>3, <1>6, <3>5
  <2>3. seen[p][r] <= v => Noticed(p, r)
    BY <1>3, <2>2, Refused
  <2>4. Noticed(p, r) => Noticed(p, r)'
    BY <1>2, StillNoticed
  <2>5. Told(p, r)'
    BY <1>2, <1>6, <2>1, <2>3, <2>4 DEF Told
  <2> QED BY <2>1, <2>5 DEF InOrder
<1> QED BY <1>5, <1>6

\* The label is written, or is there already, or cannot be written, or the
\* update is refused because there is a later version.
LEMMA LabelTold ==
  ASSUME TypeOK, StaleSeriesRevisited, Writes,
         NEW p \in Pods, NEW r \in Reports, Told(p, r), Label(p, r)
  PROVE  InOrder(p, r)' /\ Told(p, r)'
<1> DEFINE v == base[p][r]
           read == log[r][v]
           new == [read EXCEPT !.label = p]
<1>1. /\ pc \in [Pods -> [Reports -> {"idle", "fetch", "finalize", "label"}]]
      /\ seen[p][r] \in Nat /\ seen[p][r] <= Len(log[r])
  BY DEF TypeOK, WorkOK, PodOK
<1>2. /\ pc[p][r] = "label" /\ pc'[p][r] = "idle"
      /\ UNCHANGED <<seen, series, queue, faults>>
  BY <1>1 DEF Label, Return, viewVars
<1>3. v \in 1..Len(log[r]) /\ Len(log[r]) \in Nat /\ read \in Object
  BY <1>1, <1>2, LogIsSequences DEF TypeOK, WorkOK
<1>4. Len(log'[r]) \in {Len(log[r]), Len(log[r]) + 1}
  BY <1>3, WritesKeep
<1>5. SUFFICES ASSUME series[p][r] # 0, <<p, r>> \notin queue, Len(log'[r]) < MaxVersions[r],
                      seen[p][r] <= v
               PROVE  Noticed(p, r)'
  BY <1>2, <1>3, <1>4, BoundAssumption DEF InOrder, Told
<1>6. CASE v # Len(log[r])
  BY <1>2, <1>3, <1>5, <1>6, Refused, StillNoticed
<1>7. CASE v = Len(log[r]) /\ SeemsLabelled(p, r) /\ UNCHANGED log
  <2>1. read = Current(r)
    BY <1>7 DEF Current
  <2>2. DOMAIN log[r] = 1..v
    BY <1>7, LogIsSequences
  <2>3. Misled(p, r)
    BY <1>7, <2>1, <2>2 DEF SeemsLabelled, Misled
  <2> QED BY <1>2, <2>3, StillNoticed DEF Noticed
<1>8. CASE v = Len(log[r]) /\ log' = Updated(r, v, new)
  <2>1. read = Current(r)
    BY <1>8 DEF Current
  <2>2. new \in Object /\ new.label = p
    BY <1>3 DEF Object
  <2> HIDE DEF new
  <2>3. CASE Current(r) = Absent
    <3>1. seen[p][r] # Len(log[r])
      BY <1>3, <1>5, <2>3 DEF StaleSeriesRevisited, Cached, Current
    <3> QED BY <1>1, <1>2, <1>3, <3>1, StillNoticed DEF Noticed
  <2>4. CASE new = Current(r)
    BY <1>2, <2>2, <2>4, StillNoticed DEF Noticed
  <2>5. CASE Current(r) # Absent /\ new # Current(r)
    <3>1. log' = Appended(r, new)
      BY <1>8, <2>5 DEF Updated, Unchanged
    <3>2. Len(log'[r]) = Len(log[r]) + 1
      BY <2>2, <3>1, AppendObject
    <3> QED BY <1>1, <1>2, <1>3, <3>2 DEF Noticed
  <2> QED BY <2>3, <2>4, <2>5
<1>9. CASE v = Len(log[r]) /\ read.label = NilLabels /\ UNCHANGED log
  <2>1. Noticed(p, r)
    BY <1>9 DEF Noticed, Current
  <2> QED BY <1>2, <2>1, StillNoticed
<1>10. \/ SeemsLabelled(p, r) /\ UNCHANGED log
       \/ read.label = NilLabels /\ UNCHANGED log
       \/ log' = Updated(r, v, new)
  <2>1. ~(Len(log[r]) >= MaxVersions[r])
    BY <1>3, <1>4, <1>5, BoundAssumption
  <2> QED BY <2>1 DEF Label, LabelManifest, LabelReport
<1> QED BY <1>6, <1>7, <1>8, <1>9, <1>10

LEMMA StepTold ==
  ASSUME TypeOK, TypeOK', StaleSeriesRevisited, Faultless, Writes,
         NEW p \in Pods, NEW r \in Reports, InOrder(p, r), Told(p, r),
         \/ Begin(p, r) \/ Fetch(p, r)
         \/ DropFinalizer(p, r) \/ Label(p, r) \/ CallFails(p, r)
  PROVE  InOrder(p, r)' /\ Told(p, r)'
<1>1. /\ pc \in [Pods -> [Reports -> {"idle", "fetch", "finalize", "label"}]]
      /\ series \in [Pods -> [Reports -> Nat]]
      /\ base \in [Pods -> [Reports -> Nat]]
      /\ faults \in Nat
  BY DEF TypeOK, WorkOK, ApiOK
<1>2. CASE Begin(p, r)
  <2>1. series'[p][r] = 0
    BY <1>1, <1>2 DEF Begin, Cleared
  <2>2. pc'[p][r] # "finalize"
    BY <1>1, <1>2 DEF Begin, WorkerFree, Revisit, Retry, Return
  <2> QED BY <2>1, <2>2, NotTold DEF InOrder
<1>3. CASE Fetch(p, r)
  <2>1. PICK v \in Readable(p, r) :
          \/ Return(p, r, FALSE) /\ UNCHANGED series
          \/ /\ base' = [base EXCEPT ![p][r] = v]
             /\ pc' = [pc EXCEPT ![p][r] =
                         IF Legacy(log[r][v]) THEN "finalize" ELSE "label"]
    BY <1>3 DEF Fetch
  <2>2. pc[p][r] = "fetch" /\ series[p][r] = 0 /\ UNCHANGED <<log, seen>>
    BY <1>3 DEF Fetch, InOrder, apiVars, viewVars
  <2>3. CASE Return(p, r, FALSE) /\ UNCHANGED series
    <3>1. series'[p][r] = 0 /\ pc'[p][r] = "idle"
      BY <1>1, <2>2, <2>3 DEF Return
    <3> QED BY <3>1, NotTold DEF InOrder
  <2>4. CASE /\ base' = [base EXCEPT ![p][r] = v]
             /\ pc' = [pc EXCEPT ![p][r] =
                         IF Legacy(log[r][v]) THEN "finalize" ELSE "label"]
    <3>1. /\ base'[p][r] = v
          /\ pc'[p][r] = IF Legacy(log[r][v]) THEN "finalize" ELSE "label"
      BY <1>1, <2>4
    <3>2. seen[p][r] <= v
      BY <2>2, ReadableIsObject DEF TypeOK, WorkOK
    <3> QED BY <2>2, <3>1, <3>2 DEF InOrder, Told
  <2> QED BY <2>1, <2>3, <2>4
<1>4. CASE CallFails(p, r)
  <2>1. faults' # 0
    BY <1>1, <1>4 DEF CallFails, Fault, Faultless
  <2>2. pc'[p][r] = "idle"
    BY <1>1, <1>4 DEF CallFails, Retry, Return
  <2> QED BY <2>1, <2>2, NotTold DEF InOrder
<1> QED BY <1>2, <1>3, <1>4, FinalizerTold, LabelTold

\* Whatever an event is of, the report is queued: series are only exposed while
\* the cache has it, or while it is queued already.
LEMMA WatchTold ==
  ASSUME TypeOK, StaleSeriesRevisited, Writes, NEW p \in Pods, NEW r \in Reports,
         InOrder(p, r), Deliver(p, r) \/ TimerFires(p, r)
  PROVE  InOrder(p, r)' /\ Told(p, r)'
<1>1. UNCHANGED <<log, series, pc, base>>
  BY DEF Deliver, TimerFires, apiVars
<1>2. InOrder(p, r)'
  BY <1>1 DEF InOrder
<1>3. series[p][r] = 0 \/ <<p, r>> \in queue'
  <2>1. series[p][r] = 0 \/ <<p, r>> \in queue \/ Cached(p, r) # Absent
    BY DEF StaleSeriesRevisited
  <2> QED BY <2>1 DEF Deliver, TimerFires, Wakes
<1> QED BY <1>1, <1>2, <1>3, NotTold

LEMMA NextTold ==
  ASSUME TypeOK, TypeOK', StaleSeriesRevisited, ToldInv, [Next]_vars
  PROVE  ToldInv'
<1>1. Writes /\ (faults' = 0 => faults = 0) /\ Faultless /\ Faultless'
  BY NextWrites, FaultsGrow, NextFaultless DEF ToldInv
<1>2. SUFFICES ASSUME NEW q \in Pods, NEW s \in Reports
               PROVE  InOrder(q, s)' /\ Told(q, s)'
  BY <1>1 DEF ToldInv
<1>3. InOrder(q, s) /\ Told(q, s)
  BY DEF ToldInv
<1>4. ASSUME seen'[q][s] = seen[q][s], series'[q][s] = series[q][s],
             pc'[q][s] = pc[q][s], base'[q][s] = base[q][s],
             <<q, s>> \in queue => <<q, s>> \in queue'
      PROVE  InOrder(q, s)' /\ Told(q, s)'
  BY <1>1, <1>3, <1>4, StillTold
<1>5. CASE Scanner \/ Endpoints \/ ShutdownHook \/ UNCHANGED vars
  <2>1. UNCHANGED <<seen, series, pc, base, queue>>
    BY <1>5
    DEF Scanner, Create, Rescan, Delete, ScannerWrite, Endpoints, EndpointAdded,
        EndpointRemoved, EndpointFlap, ShutdownHook, Release, ReleaseFails,
        vars, viewVars, workVars
  <2> QED BY <1>4, <2>1
<1>6. CASE Lifecycle
  <2>1. PICK p \in Pods :
          \/ Start(p) \/ StartManager(p) \/ UpdatePeers(p) \/ Stop(p)
          \/ ListOwned(p) \/ Exit(p) \/ Crash(p)
    BY <1>6 DEF Lifecycle
  <2>2. CASE Exit(p) \/ Crash(p)
    BY <1>1, <1>3, <2>2, EndTold DEF Exit, Crash
  <2>3. CASE ~(Exit(p) \/ Crash(p))
    <3>1. UNCHANGED <<seen, series, pc, base, queue>>
      BY <2>1, <2>3
      DEF Start, StartManager, UpdatePeers, Stop, ListOwned, viewVars, workVars
    <3> QED BY <1>4, <3>1
  <2> QED BY <2>2, <2>3
<1>7. CASE Watch
  <2>1. PICK p \in Pods, r \in Reports : Deliver(p, r) \/ TimerFires(p, r)
    BY <1>7 DEF Watch
  <2>2. CASE q = p /\ s = r
    BY <1>1, <1>3, <2>1, <2>2, WatchTold
  <2>3. CASE ~(q = p /\ s = r)
    <3>1. /\ UNCHANGED <<series, pc, base>> /\ queue \ {<<p, r>>} \subseteq queue'
          /\ seen' = seen \/ \E v : seen' = [seen EXCEPT ![p][r] = v]
      BY <2>1 DEF Deliver, TimerFires, viewVars
    <3>2. seen'[q][s] = seen[q][s] /\ (<<q, s>> \in queue => <<q, s>> \in queue')
      BY <2>3, <3>1 DEF TypeOK, PodOK
    <3> QED BY <1>4, <3>1, <3>2
  <2> QED BY <2>2, <2>3
<1>8. CASE Reconcile
  <2>1. PICK p \in Pods, r \in Reports :
          \/ Begin(p, r) \/ Fetch(p, r)
          \/ DropFinalizer(p, r) \/ Label(p, r) \/ CallFails(p, r)
    BY <1>8 DEF Reconcile
  <2>2. CASE q = p /\ s = r
    BY <1>1, <1>3, <2>1, <2>2, StepTold
  <2>3. CASE ~(q = p /\ s = r)
    <3>1. /\ UNCHANGED seen /\ queue \ {<<p, r>>} \subseteq queue'
          /\ series' = series \/ \E n : series' = [series EXCEPT ![p][r] = n]
      BY <2>1
      DEF Begin, Cleared, Fetch, DropFinalizer, Label, CallFails, viewVars
    <3>2. /\ pc' = pc \/ \E c : pc' = [pc EXCEPT ![p][r] = c]
          /\ base' = base \/ \E b : base' = [base EXCEPT ![p][r] = b]
      BY <2>1
      DEF Begin, Fetch, DropFinalizer, Label, CallFails, Revisit, Retry, Return
    <3>3. /\ series \in [Pods -> [Reports -> Nat]] /\ base \in [Pods -> [Reports -> Nat]]
          /\ pc \in [Pods -> [Reports -> {"idle", "fetch", "finalize", "label"}]]
      BY DEF TypeOK, WorkOK
    <3>4. series'[q][s] = series[q][s]
      BY <2>3, <3>1, <3>3
    <3>5. pc'[q][s] = pc[q][s]
      BY <2>3, <3>2, <3>3
    <3>6. base'[q][s] = base[q][s]
      BY <2>3, <3>2, <3>3
    <3>7. <<q, s>> \in queue => <<q, s>> \in queue'
      BY <2>3, <3>1
    <3> QED BY <1>4, <3>1, <3>4, <3>5, <3>6, <3>7
  <2> QED BY <2>2, <2>3
<1> QED BY <1>5, <1>6, <1>7, <1>8 DEF Next

\* A pod that serves a report and has nothing left to do about it serves it
\* under its own label, unless a call failed: no former owner is left untold.
THEOREM ServesLabelled == Spec => []ServesUnderItsLabel
<1>1. Init => ToldInv
  <2> SUFFICES ASSUME Init PROVE ToldInv
    OBVIOUS
  <2>1. \A p \in Pods, r \in Reports :
          series[p][r] = 0 /\ pc[p][r] = "idle" /\ life[p] = "down"
    BY DEF Init
  <2>2. Faultless
    BY DEF Init, Faultless
  <2>3. \A p \in Pods, r \in Reports : InOrder(p, r)
    BY <2>1 DEF InOrder
  <2>4. \A p \in Pods, r \in Reports : Told(p, r)
    BY <2>1 DEF Told
  <2> QED BY <2>2, <2>3, <2>4 DEF ToldInv
<1>2. TypeOK /\ TypeOK' /\ StaleSeriesRevisited /\ ToldInv /\ [Next]_vars => ToldInv'
  BY NextTold
<1>3. ToldInv => ServesUnderItsLabel
  <2> SUFFICES ASSUME ToldInv, NEW p \in Pods, NEW r \in Reports,
                      series[p][r] # 0, <<p, r>> \notin queue, pc[p][r] = "idle",
                      seen[p][r] = Len(log[r]), faults = 0, Len(log[r]) < MaxVersions[r],
                      Current(r).label # NilLabels
               PROVE  Current(r).label = p \/ Misled(p, r)
    BY DEF ServesUnderItsLabel
  <2>1. Noticed(p, r)
    BY DEF ToldInv, Told
  <2>2. ~(seen[p][r] < Len(log[r]))
    BY <2>1 DEF ToldInv
  <2> QED BY <2>1, <2>2 DEF Noticed
<1> QED BY <1>1, <1>2, <1>3, TypeCorrect, StaleSeriesFound, PTL DEF Spec

-----------------------------------------------------------------------------
(* What exporters write.                                                    *)

\* An update changes the last version of its own report, or nothing.
LEMMA UpdateChanges ==
  ASSUME TypeOK, NEW r \in Reports, NEW v, NEW o \in Object, log' = Updated(r, v, o),
         NEW s \in Reports
  PROVE  \/ Current(s)' = Current(s)
         \/ /\ s = r /\ v = Len(log[r])
            /\ Current(r) # Absent /\ Current(r)' = o
<1>1. CASE log' = log
  BY <1>1 DEF Current
<1>2. CASE log' # log
  <2>1. v = Len(log[r]) /\ Current(r) # Absent /\ log' = Appended(r, o)
    BY <1>2 DEF Updated, Unchanged
  <2>2. CASE s = r
    <3>1. log'[r] = Append(log[r], o)
      BY <2>1, AppendObject
    <3>2. Len(log'[r]) = Len(log[r]) + 1 /\ log'[r][Len(log[r]) + 1] = o
      BY <3>1, LogIsSequences
    <3> QED BY <2>1, <2>2, <3>2 DEF Current
  <2>3. CASE s # r
    <3>1. log'[s] = log[s]
      BY <2>1, <2>3 DEF Appended, TypeOK, ApiOK
    <3> QED BY <3>1 DEF Current
  <2> QED BY <2>2, <2>3
<1> QED BY <1>1, <1>2

\* What ExporterWritesOnlyItsOwn allows a step to make of r.
OwnWrite(r) ==
  /\ Current(r)'.spec = Current(r).spec \/ (Current(r).deleting /\ Current(r)' = Absent)
  /\ \A q \in Pods :
       Current(r).label = q /\ Current(r)'.label = NoLabel /\ Current(r)' # Absent
         => life[q] = "releasing"

LEMMA NoWrite ==
  ASSUME NEW r \in Reports, Current(r)' = Current(r) PROVE OwnWrite(r)
BY LabelAssumption DEF OwnWrite

LEMMA HookWritesOwn ==
  ASSUME TypeOK, NEW p \in Pods, NEW r \in Reports, Release(p, r), NEW s \in Reports
  PROVE  OwnWrite(s)
<1>1. CASE Manifest(r)
  <2>1. PICK v \in Readable(p, r) :
          log' = IF StillMine(p, log[r][v])
                 THEN Updated(r, v, [log[r][v] EXCEPT !.label = NoLabel])
                 ELSE log
    BY <1>1 DEF Release, ReleaseManifest
  <2> DEFINE o == [log[r][v] EXCEPT !.label = NoLabel]
  <2>2. v \in 1..Len(log[r]) /\ log[r][v] \in Object
    BY ReadableIsObject DEF Release, TypeOK, PodOK
  <2>3. o \in Object /\ o.spec = log[r][v].spec
    BY <2>2 DEF Object
  <2>4. CASE ~StillMine(p, log[r][v])
    BY <2>1, <2>4, NoWrite DEF Current
  <2>5. CASE StillMine(p, log[r][v])
    <3>1. log' = Updated(r, v, o)
      BY <2>1, <2>5
    <3>2. CASE Current(s)' = Current(s)
      BY <3>2, NoWrite
    <3>3. CASE s = r /\ v = Len(log[r]) /\ Current(r)' = o
      <4>1. log[r][v] = Current(r) /\ Current(r).label = p
        BY <2>5, <3>3 DEF Current, StillMine
      <4> HIDE DEF o
      <4> QED BY <2>3, <3>3, <4>1 DEF OwnWrite, Release
    <3> HIDE DEF o
    <3> QED BY <2>3, <3>1, <3>2, <3>3, UpdateChanges
  <2> QED BY <2>4, <2>5
<1>2. CASE ~Manifest(r)
  <2>1. log' = log
    BY <1>2 DEF Release, ReleaseReport, Updated, Unchanged, Current
  <2> QED BY <2>1, NoWrite DEF Current
<1> QED BY <1>1, <1>2

LEMMA WorkerWritesOwn ==
  ASSUME TypeOK, NEW p \in Pods, NEW r \in Reports, DropFinalizer(p, r) \/ Label(p, r),
         NEW s \in Reports
  PROVE  OwnWrite(s)
<1> DEFINE v    == base[p][r]
           read == log[r][v]
<1>1. v \in 1..Len(log[r]) /\ read \in Object
  <2>1. pc[p][r] \in {"finalize", "label"}
    BY DEF DropFinalizer, Label
  <2>2. base[p][r] \in Nat /\ base[p][r] # 0 /\ base[p][r] <= Len(log[r])
    BY <2>1 DEF TypeOK, WorkOK
  <2> QED BY <2>2, LogIsSequences
<1>2. CASE DropFinalizer(p, r)
  <2> DEFINE o == IF read.deleting THEN Absent ELSE [read EXCEPT !.finalizer = FALSE]
  <2>1. /\ o \in Object
        /\ read.deleting => o = Absent
        /\ ~read.deleting => o.spec = read.spec /\ o.label = read.label
    BY <1>1, AbsentIsObject DEF Object
  <2>2. log' = Updated(r, v, o)
    BY <1>2 DEF DropFinalizer
  <2>3. CASE s = r /\ v = Len(log[r]) /\ Current(r)' = o
    <3>1. read = Current(r)
      BY <2>3 DEF Current
    <3> HIDE DEF o, read
    <3>2. CASE read.deleting
      BY <2>1, <2>3, <3>1, <3>2 DEF OwnWrite
    <3>3. CASE ~read.deleting
      BY <2>1, <2>3, <3>1, <3>3, LabelAssumption DEF OwnWrite
    <3> QED BY <3>2, <3>3
  <2> HIDE DEF o
  <2> QED BY <2>1, <2>2, <2>3, NoWrite, UpdateChanges
<1>3. CASE Label(p, r)
  <2> DEFINE o == [read EXCEPT !.label = p]
  <2>1. o \in Object /\ o.spec = read.spec /\ o.label = p
    BY <1>1 DEF Object
  <2>2. log' = log \/ log' = Updated(r, v, o)
    BY <1>3 DEF Label, LabelManifest, LabelReport
  <2>3. CASE log' = log
    BY <2>3, NoWrite DEF Current
  <2>4. CASE s = r /\ v = Len(log[r]) /\ Current(r)' = o
    <3>1. read = Current(r)
      BY <2>4 DEF Current
    <3> HIDE DEF o, read
    <3> QED BY <2>1, <2>4, <3>1, LabelAssumption DEF OwnWrite
  <2> HIDE DEF o
  <2> QED BY <2>1, <2>2, <2>3, <2>4, NoWrite, UpdateChanges
<1> QED BY <1>2, <1>3

LEMMA NextWritesOwn ==
  ASSUME TypeOK, [Next]_vars, edits' = edits, NEW s \in Reports
  PROVE  OwnWrite(s)
<1>1. CASE Scanner
  BY <1>1 DEF Scanner, Create, Rescan, Delete, ScannerWrite, TypeOK, ApiOK
<1>2. CASE ShutdownHook
  <2>1. PICK p \in Pods, r \in Reports : Release(p, r) \/ ReleaseFails(p, r)
    BY <1>2 DEF ShutdownHook
  <2>2. CASE ReleaseFails(p, r)
    BY <2>2, NoWrite DEF ReleaseFails, apiVars, Current
  <2> QED BY <2>1, <2>2, HookWritesOwn
<1>3. CASE Reconcile
  <2>1. PICK p \in Pods, r \in Reports :
          \/ Begin(p, r) \/ Fetch(p, r)
          \/ DropFinalizer(p, r) \/ Label(p, r) \/ CallFails(p, r)
    BY <1>3 DEF Reconcile
  <2>2. CASE Begin(p, r) \/ Fetch(p, r) \/ CallFails(p, r)
    BY <2>2, NoWrite DEF Begin, Fetch, CallFails, apiVars, Current
  <2> QED BY <2>1, <2>2, WorkerWritesOwn
<1>4. CASE Endpoints \/ Lifecycle \/ Watch \/ UNCHANGED vars
  <2>1. log' = log
    BY <1>4
    DEF Endpoints, EndpointAdded, EndpointRemoved, EndpointFlap, Lifecycle, Start,
        StartManager, UpdatePeers, Stop, ListOwned, Exit, Crash, Watch, Deliver,
        TimerFires, vars, apiVars
  <2> QED BY <2>1, NoWrite DEF Current
<1> QED BY <1>1, <1>2, <1>3, <1>4 DEF Next

\* No exporter makes a report disappear that is not being deleted, or appear, or
\* takes another's label off unless that one is shutting down, however old the
\* object is that it sends.
THEOREM WritesOnlyItsOwn == Spec => ExporterWritesOnlyItsOwn
<1>1. TypeOK /\ [Next]_vars => (\A r \in Reports : edits' = edits => OwnWrite(r))
  BY NextWritesOwn
<1>2. TypeOK /\ [Next]_vars =>
        [\A r \in Reports : edits' = edits => OwnWrite(r)]_log
  BY <1>1
<1>3. Spec => [][\A r \in Reports : edits' = edits => OwnWrite(r)]_log
  BY <1>2, TypeCorrect, PTL DEF Spec
<1> QED BY <1>3 DEF ExporterWritesOnlyItsOwn, OwnWrite

\* When the hook's calls for a manifest have succeeded, and it knew of the last
\* version, the label is not this pod's any more.  (The hook of the other kinds
\* sends the object that it did not change.)
THEOREM ManifestsCleared == Spec => ManifestClearedOnShutdown
<1>1. ASSUME TypeOK, NEW p \in Pods, NEW r \in Reports,
             Release(p, r), Manifest(r), seen[p][r] = Len(log[r])
      PROVE  Current(r)'.label # p
  <2>1. PICK v \in Readable(p, r) :
          log' = IF StillMine(p, log[r][v])
                 THEN Updated(r, v, [log[r][v] EXCEPT !.label = NoLabel])
                 ELSE log
    BY <1>1 DEF Release, ReleaseManifest
  <2> DEFINE o == [log[r][v] EXCEPT !.label = NoLabel]
  <2>2. v = Len(log[r]) /\ log[r][v] = Current(r) /\ Current(r) \in Object
    BY <1>1, LogIsSequences DEF Readable, Current
  <2>3. o \in Object /\ o.label = NoLabel
    BY <2>2 DEF Object
  <2>4. CASE Current(r).label # p
    BY <2>1, <2>2, <2>4 DEF StillMine, Current
  <2>5. CASE Current(r).label = p
    <3>1. log' = Updated(r, v, o)
      BY <2>1, <2>2, <2>5 DEF StillMine
    <3> HIDE DEF o
    <3>2. Current(r) # Absent /\ o # Current(r)
      BY <2>3, <2>5, LabelAssumption DEF Absent
    <3>3. log' = Appended(r, o)
      BY <2>2, <3>1, <3>2 DEF Updated, Unchanged
    <3>4. log'[r] = Append(log[r], o)
      BY <1>1, <2>3, <3>3, AppendObject
    <3>5. Len(log'[r]) = Len(log[r]) + 1 /\ log'[r][Len(log[r]) + 1] = o
      BY <1>1, <3>4, LogIsSequences
    <3> QED BY <2>3, <3>5, LabelAssumption DEF Current
  <2> QED BY <2>4, <2>5
<1>2. TypeOK =>
        [\A p \in Pods, r \in Reports :
           Manifest(r) /\ Release(p, r) /\ seen[p][r] = Len(log[r])
             => Current(r)'.label # p]_todo
  BY <1>1
<1> QED BY <1>2, TypeCorrect, PTL DEF Spec, ManifestClearedOnShutdown

=============================================================================
