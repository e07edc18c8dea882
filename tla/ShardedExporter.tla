--------------------------- MODULE ShardedExporter ---------------------------
(***************************************************************************)
(* The starboard-exporter Deployment: several exporter pods that divide     *)
(* the report custom resources of a cluster among themselves.              *)
(*                                                                         *)
(* Every pod watches the EndpointSlices of its own Service and keeps the   *)
(* ready pod IPs in a consistent hash ring (utils/sharding.go).  Every pod *)
(* also watches every report, and for each one runs Reconcile              *)
(* (controllers/): drop the report's series, ask the ring who owns it, and *)
(* if the answer is this pod read the report, publish its series, drop a   *)
(* legacy finalizer and write this pod's IP into the shard-owner label so  *)
(* that the other pods are woken up by the watch and drop theirs.  Every   *)
(* report is visited again after about five minutes.  On SIGTERM a pod     *)
(* tries to clear the label on the reports it owns (main.go).              *)
(*                                                                         *)
(* The API server keeps, per report, the sequence of its versions; a watch *)
(* is a position in that sequence, and an Update is accepted only from the *)
(* last position (optimistic locking on resourceVersion).                  *)
(***************************************************************************)
EXTENDS Naturals, Sequences

CONSTANTS
  Pods,         \* the pod IPs
  Reports,      \* the namespaced names of the report CRs
  KindOf,       \* which controller reconciles a report
  Locate,       \* LocateKey of the hash ring, for every member set
  NoLabel,      \* the labels map has no shard-owner, or it is ""
  NilLabels,    \* the labels map of the object is nil
  Found,        \* what the first exporter may find of a report
  MaxEvents,    \* bound: scanner writes (with those before the start) and faults
  MaxVersions   \* bound: versions of each report after which labels are refused

Kinds == {"trivy", "configaudit", "kubescape"}

ASSUME KindAssumption == KindOf \in [Reports -> Kinds]

\* Every instance computes the same owner from the same members, and the
\* owner is a member (the ring's partition table is a function of the members).
ASSUME LocateAssumption ==
  /\ Locate \in [(SUBSET Pods) \ {{}} -> [Reports -> Pods]]
  /\ \A S \in (SUBSET Pods) \ {{}}, r \in Reports : Locate[S][r] \in S

ASSUME LabelAssumption == NoLabel \notin Pods /\ NilLabels \notin Pods

ASSUME BoundAssumption == MaxEvents \in Nat /\ MaxVersions \in [Reports -> Nat]

VARIABLES
  log,        \* API server: log[r] is the sequence of versions of report r
  edits,      \* API server: number of scanner writes so far, stamps spec
  endpoints,  \* API server: the sequence of ready IP sets of the Service
  faults,     \* number of faults so far
  life,       \* pod: down, booting, running, stopping or releasing
  peers,      \* pod: the version of endpoints that its ring was set from
  seen,       \* pod: the version of each report that its cache holds
  queue,      \* workqueue: <<p, r>> waiting for p's worker
  timer,      \* workqueue: <<p, r>> that will be added after a delay
  pc,         \* worker: where Reconcile of r is at p
  base,       \* worker: the version of r that Reconcile read
  series,     \* gauge vectors: the spec whose series for r p exposes, 0 if none
  todo        \* shutdown hook: the reports it has still to release

apiVars  == <<log, edits, endpoints>>
workVars == <<queue, timer, pc, base, series>>
viewVars == <<peers, seen>>
vars     == <<apiVars, faults, life, viewVars, workVars, todo>>

-----------------------------------------------------------------------------
(* Report objects.  spec stands for everything a scanner writes; spec 0 is  *)
(* the mark of a version in which the report does not exist.                *)

Object == [spec : Nat, label : Pods \cup {NoLabel, NilLabels},
           finalizer : BOOLEAN, deleting : BOOLEAN]

Absent == [spec |-> 0, label |-> NoLabel, finalizer |-> FALSE, deleting |-> FALSE]

ASSUME FoundAssumption ==
  Found \subseteq {Absent} \cup [spec : {1}, label : {NoLabel, NilLabels},
                              finalizer : BOOLEAN, deleting : {FALSE}]

Manifest(r) == KindOf[r] = "kubescape"

Current(r) == log[r][Len(log[r])]
Cached(p, r) == IF seen[p][r] = 0 THEN Absent ELSE log[r][seen[p][r]]

Ready == endpoints[Len(endpoints)]
Ring(p) == IF peers[p] = 0 THEN {} ELSE endpoints[peers[p]]
ShouldOwn(p, r) == Ring(p) # {} /\ Locate[Ring(p)][r] = p

Appended(r, o) == [log EXCEPT ![r] = Append(@, o)]

\* Update of an object read at version v: a conflict unless v is the last
\* version, and no new version when nothing changed.
AnyVersion(r, v) == TRUE  \* mutation: the resourceVersion is not sent
Unchanged(r, v) == v = Len(log[r])

Updated(r, v, o) ==
  IF Unchanged(r, v) /\ Current(r) # Absent /\ o # Current(r)
  THEN Appended(r, o)
  ELSE log

Up(p) == life[p] # "down"
Working(p) == life[p] \in {"running", "stopping"}

\* What the surroundings do is bounded: scanner writes, crashes, SIGTERMs,
\* failed calls and endpoints that are not ready for a while.
EventLeft == edits + faults < MaxEvents

\* A fault is counted, except that calls may fail at will during a shutdown.
Fault(p) ==
  IF life[p] \in {"stopping", "releasing"}
  THEN UNCHANGED faults
  ELSE EventLeft /\ faults' = faults + 1

-----------------------------------------------------------------------------
Init ==
  /\ log \in [Reports -> {<<o>> : o \in Found}]
  /\ \A r \in Reports : Manifest(r) => ~Current(r).finalizer
  /\ edits = 1
  /\ endpoints = <<{}>>
  /\ faults = 0
  /\ life = [p \in Pods |-> "down"]
  /\ peers = [p \in Pods |-> 0]
  /\ seen = [p \in Pods |-> [r \in Reports |-> 0]]
  /\ queue = {}
  /\ timer = {}
  /\ pc = [p \in Pods |-> [r \in Reports |-> "idle"]]
  /\ base = [p \in Pods |-> [r \in Reports |-> 0]]
  /\ series = [p \in Pods |-> [r \in Reports |-> 0]]
  /\ todo = [p \in Pods |-> {}]

-----------------------------------------------------------------------------
(* The scanners (Trivy Operator, Kubescape), which create, rewrite and      *)
(* delete reports, with or without keeping foreign labels.                  *)

ScannerWrite(r, o) ==
  /\ EventLeft
  /\ edits' = edits + 1
  /\ log' = Appended(r, o)
  /\ UNCHANGED <<endpoints, faults, life, viewVars, workVars, todo>>

Create(r) ==
  /\ Current(r) = Absent
  /\ \E l \in {NoLabel, NilLabels} :
       ScannerWrite(r, [Absent EXCEPT !.spec = edits + 1, !.label = l])

Rescan(r) ==
  /\ Current(r) # Absent
  /\ \E l \in {Current(r).label, NoLabel} :
       ScannerWrite(r, [Current(r) EXCEPT !.spec = edits + 1, !.label = l])

\* An object with a finalizer is only marked; it goes when the last one does.
Delete(r) ==
  /\ Current(r) # Absent
  /\ ~Current(r).deleting
  /\ ScannerWrite(r, IF Current(r).finalizer
                     THEN [Current(r) EXCEPT !.deleting = TRUE]
                     ELSE Absent)

-----------------------------------------------------------------------------
(* The endpoints controller of the cluster.                                 *)

EndpointAdded(p) ==
  /\ life[p] \in {"booting", "running"}
  /\ p \notin Ready
  /\ endpoints' = Append(endpoints, Ready \cup {p})
  /\ UNCHANGED <<log, edits, faults, life, viewVars, workVars, todo>>

EndpointRemoved(p) ==
  /\ life[p] \notin {"booting", "running"}
  /\ p \in Ready
  /\ endpoints' = Append(endpoints, Ready \ {p})
  /\ UNCHANGED <<log, edits, faults, life, viewVars, workVars, todo>>

\* The node of a healthy pod is reported unready for a while.
EndpointFlap(p) ==
  /\ life[p] \in {"booting", "running"}
  /\ p \in Ready
  /\ Fault(p)
  /\ endpoints' = Append(endpoints, Ready \ {p})
  /\ UNCHANGED <<log, edits, life, viewVars, workVars, todo>>

-----------------------------------------------------------------------------
(* The life of a pod: main.                                                 *)

Start(p) ==
  /\ life[p] = "down"
  /\ life' = [life EXCEPT ![p] = "booting"]
  /\ UNCHANGED <<apiVars, faults, viewVars, workVars, todo>>

\* The wait loop lets main pass when the ring has NO member.
StartManager(p) ==
  /\ life[p] = "booting"
  /\ Ring(p) = {}
  /\ life' = [life EXCEPT ![p] = "running"]
  /\ UNCHANGED <<apiVars, faults, viewVars, workVars, todo>>

\* An event handler of the EndpointSlice informer sets the ring's members
\* from the informer's store, which follows the API server with a delay.
UpdatePeers(p) ==
  /\ Up(p)
  /\ \E v \in (peers[p] + 1)..Len(endpoints) : peers' = [peers EXCEPT ![p] = v]
  /\ UNCHANGED <<apiVars, faults, life, seen, workVars, todo>>

\* SIGTERM: mgr.Start stops the workers and returns when they are idle.
Stop(p) ==
  /\ life[p] = "running"
  /\ Fault(p)
  /\ life' = [life EXCEPT ![p] = "stopping"]
  /\ UNCHANGED <<apiVars, viewVars, workVars, todo>>

\* The deferred hook lists the reports whose (cached) label is this pod.
NotAwaited(p) == TRUE  \* mutation: the hook does not wait for mgr.Start
WorkersIdle(p) == \A r \in Reports : pc[p][r] = "idle"

ListOwned(p) ==
  /\ life[p] = "stopping"
  /\ WorkersIdle(p)
  /\ life' = [life EXCEPT ![p] = "releasing"]
  /\ todo' = [todo EXCEPT ![p] = {r \in Reports : Cached(p, r).label = p}]
  /\ UNCHANGED <<apiVars, faults, viewVars, workVars>>

\* The versions that Get may return: the cached one, and for a manifest that
\* has to be hydrated also the one the API server has.
Readable(p, r) ==
  IF Manifest(r) /\ Cached(p, r) # Absent
  THEN {seen[p][r], Len(log[r])}
  ELSE {seen[p][r]}

\* The hook does the kinds one after the other.
HookOrder == [trivy |-> 1, kubescape |-> 2, configaudit |-> 3]

Turn(p, r) ==
  \A s \in todo[p] : HookOrder[KindOf[r]] <= HookOrder[KindOf[s]]

\* Trivy and config audit reports: the label is cleared in the item of the
\* list, and the object fetched by Get, unchanged, is what Update sends.
ReleaseReport(p, r) ==
  log' = Updated(r, seen[p][r], log[r][seen[p][r]])

\* Manifests: the label is checked and cleared in the object fetched by Get.
AsListed(p, o) == TRUE  \* mutation: the label is not checked again
StillMine(p, o) == o.label = p

ReleaseManifest(p, r) ==
  \E v \in Readable(p, r) :
    log' = IF StillMine(p, log[r][v])
           THEN Updated(r, v, [log[r][v] EXCEPT !.label = NoLabel])
           ELSE log

Release(p, r) ==
  /\ life[p] = "releasing"
  /\ r \in todo[p] /\ Turn(p, r)
  /\ IF Manifest(r) THEN ReleaseManifest(p, r) ELSE ReleaseReport(p, r)
  /\ todo' = [todo EXCEPT ![p] = @ \ {r}]
  /\ UNCHANGED <<edits, endpoints, faults, life, viewVars, workVars>>

\* Get or Update fails: logged, and the next report is tried.
ReleaseFails(p, r) ==
  /\ life[p] = "releasing"
  /\ r \in todo[p] /\ Turn(p, r)
  /\ Fault(p)
  /\ todo' = [todo EXCEPT ![p] = @ \ {r}]
  /\ UNCHANGED <<apiVars, life, viewVars, workVars>>

\* The process ends and everything it held in memory is gone.
GoDown(p) ==
  /\ life' = [life EXCEPT ![p] = "down"]
  /\ peers' = [peers EXCEPT ![p] = 0]
  /\ seen' = [seen EXCEPT ![p] = [r \in Reports |-> 0]]
  /\ queue' = {e \in queue : e[1] # p}
  /\ timer' = {e \in timer : e[1] # p}
  /\ pc' = [pc EXCEPT ![p] = [r \in Reports |-> "idle"]]
  /\ base' = [base EXCEPT ![p] = [r \in Reports |-> 0]]
  /\ series' = [series EXCEPT ![p] = [r \in Reports |-> 0]]
  /\ todo' = [todo EXCEPT ![p] = {}]

Exit(p) ==
  /\ life[p] = "releasing"
  /\ todo[p] = {}
  /\ GoDown(p)
  /\ UNCHANGED <<apiVars, faults>>

\* Out of memory, a lost node, or the liveness probe, which is not answered
\* while main is in its wait loop.
Crash(p) ==
  /\ Up(p)
  /\ EventLeft
  /\ faults' = faults + 1
  /\ GoDown(p)
  /\ UNCHANGED apiVars

-----------------------------------------------------------------------------
(* The watch of the reports and the workqueue (controller-runtime).         *)

\* Every event enqueues the report, there is no predicate; but nothing is seen
\* of a report that came and went between two lists.
WakesOnScan(old, new) == new.spec # old.spec  \* mutation: labels are ignored
WakesOnObject(old, new) == new # Absent       \* mutation: deletions are ignored
Wakes(old, new) == old # Absent \/ new # Absent

\* The cache moves to a later version, possibly over several.
Deliver(p, r) ==
  /\ Working(p)
  /\ \E v \in (seen[p][r] + 1)..Len(log[r]) :
       /\ seen' = [seen EXCEPT ![p][r] = v]
       /\ queue' = IF Wakes(Cached(p, r), log[r][v])
                   THEN queue \cup {<<p, r>>} ELSE queue
  /\ UNCHANGED <<apiVars, faults, life, peers, timer, pc, base, series, todo>>

TimerFires(p, r) ==
  /\ life[p] = "running"
  /\ <<p, r>> \in timer
  /\ timer' = timer \ {<<p, r>>}
  /\ queue' = queue \cup {<<p, r>>}
  /\ UNCHANGED <<apiVars, faults, life, viewVars, pc, base, series, todo>>

\* Reconcile returned: the worker is free, and if the result or an error asks
\* for it the report is added again later.
Return(p, r, again) ==
  /\ pc' = [pc EXCEPT ![p][r] = "idle"]
  /\ base' = [base EXCEPT ![p][r] = 0]
  /\ timer' = IF again THEN timer \cup {<<p, r>>} ELSE timer

\* An error is returned: the workqueue adds the report again after a backoff.
GiveUp(p, r) == Return(p, r, FALSE)  \* mutation: the error is swallowed
Retry(p, r) == Return(p, r, TRUE)

-----------------------------------------------------------------------------
(* Reconcile, from the worker's Get of the key to its return.               *)

\* One worker per controller, started when the controller's cache has synced.
WorkerFree(p, r) ==
  \A s \in Reports : KindOf[s] = KindOf[r] => seen[p][s] > 0 /\ pc[p][s] = "idle"

\* The series of this report are deleted, whoever owns it.
ClearedIfMine(p, r) ==  \* mutation: only the owner clears
  [series EXCEPT ![p][r] = IF ShouldOwn(p, r) THEN 0 ELSE @]
Cleared(p, r) == [series EXCEPT ![p][r] = 0]

\* A report of another pod is visited again like one's own.
Forget(p, r) == Return(p, r, FALSE)  \* mutation: only the owner comes back
Revisit(p, r) == Return(p, r, TRUE)

\* Clear the series and ask the ring.  An empty ring has no owner: the nil
\* Member panics, which controller-runtime turns into an error and a retry.
Begin(p, r) ==
  /\ life[p] = "running"
  /\ <<p, r>> \in queue
  /\ WorkerFree(p, r)
  /\ queue' = queue \ {<<p, r>>}
  /\ series' = Cleared(p, r)
  /\ \/ /\ ShouldOwn(p, r)
        /\ pc' = [pc EXCEPT ![p][r] = "fetch"]
        /\ UNCHANGED <<base, timer>>
     \/ Ring(p) # {} /\ ~ShouldOwn(p, r) /\ Revisit(p, r)
     \/ Ring(p) = {} /\ Retry(p, r)
  /\ UNCHANGED <<apiVars, faults, life, viewVars, todo>>

\* The finalizer that earlier releases added has to be removed.
LegacyAlive(o) == o.finalizer /\ ~o.deleting  \* mutation: skips what is deleted
Legacy(o) == o.finalizer

\* Get the report and publish its series.
Fetch(p, r) ==
  /\ Working(p)
  /\ pc[p][r] = "fetch"
  /\ \E v \in Readable(p, r) :
       \/ /\ log[r][v] = Absent
          /\ Return(p, r, FALSE)
          /\ UNCHANGED series
       \/ /\ log[r][v] # Absent
          /\ series' = [series EXCEPT ![p][r] = log[r][v].spec]
          /\ base' = [base EXCEPT ![p][r] = v]
          /\ pc' = [pc EXCEPT ![p][r] =
                      IF Legacy(log[r][v]) THEN "finalize" ELSE "label"]
          /\ UNCHANGED timer
  /\ UNCHANGED <<apiVars, faults, life, viewVars, queue, todo>>

\* Remove the finalizer; a conflict is returned as an error.
DropFinalizer(p, r) ==
  /\ Working(p)
  /\ pc[p][r] = "finalize"
  /\ LET read == log[r][base[p][r]]
         new  == IF read.deleting THEN Absent ELSE [read EXCEPT !.finalizer = FALSE]
     IN  log' = Updated(r, base[p][r], new)
  /\ IF log' # log
     THEN /\ base' = [base EXCEPT ![p][r] = @ + 1]
          /\ pc' = [pc EXCEPT ![p][r] = "label"]
          /\ UNCHANGED timer
     ELSE Retry(p, r)
  /\ UNCHANGED <<edits, endpoints, faults, life, viewVars, queue, series, todo>>

\* Trivy and config audit: the assignment panics on a nil map.
LabelReport(p, r) ==
  LET read == log[r][base[p][r]]
  IN  IF read.label = NilLabels
      THEN log
      ELSE Updated(r, base[p][r], [read EXCEPT !.label = p])

\* Kubescape: a nil map is made first.
LabelManifest(p, r) ==
  Updated(r, base[p][r], [log[r][base[p][r]] EXCEPT !.label = p])

\* A hydrated manifest without the label may still carry the one of an earlier
\* version (HydratingCache, Decoded); if that is the pod's, nothing is written.
SeemsLabelled(p, r) ==
  /\ Manifest(r)
  /\ log[r][base[p][r]].label \in {NoLabel, NilLabels}
  /\ \E i \in 1..base[p][r] : log[r][i].label = p

\* Write the shard-owner label; a failure is only logged (or, for the panic,
\* retried), and the report is visited again in any case.
Label(p, r) ==
  /\ Working(p)
  /\ pc[p][r] = "label"
  /\ \/ log' = CASE Len(log[r]) >= MaxVersions[r] -> log
                 [] Manifest(r) -> LabelManifest(p, r)
                 [] OTHER       -> LabelReport(p, r)
     \/ SeemsLabelled(p, r) /\ UNCHANGED log
  /\ Return(p, r, TRUE)
  /\ UNCHANGED <<edits, endpoints, faults, life, viewVars, queue, series, todo>>

\* Get or Update fails for a reason other than NotFound or a conflict.
CallFails(p, r) ==
  /\ Working(p)
  /\ pc[p][r] \in {"fetch", "finalize", "label"}
  /\ Fault(p)
  /\ Retry(p, r)
  /\ UNCHANGED <<apiVars, life, viewVars, queue, series, todo>>

-----------------------------------------------------------------------------
Scanner == \E r \in Reports : Create(r) \/ Rescan(r) \/ Delete(r)

Endpoints ==
  \E p \in Pods : EndpointAdded(p) \/ EndpointRemoved(p) \/ EndpointFlap(p)

Lifecycle ==
  \E p \in Pods : Start(p) \/ StartManager(p) \/ UpdatePeers(p) \/ Stop(p)
                  \/ ListOwned(p) \/ Exit(p) \/ Crash(p)

ShutdownHook == \E p \in Pods, r \in Reports : Release(p, r) \/ ReleaseFails(p, r)

Watch == \E p \in Pods, r \in Reports : Deliver(p, r) \/ TimerFires(p, r)

Reconcile ==
  \E p \in Pods, r \in Reports :
    \/ Begin(p, r) \/ Fetch(p, r)
    \/ DropFinalizer(p, r) \/ Label(p, r) \/ CallFails(p, r)

Next == Scanner \/ Endpoints \/ Lifecycle \/ ShutdownHook \/ Watch \/ Reconcile

Spec == Init /\ [][Next]_vars

-----------------------------------------------------------------------------
(* Fairness: the watches deliver, the endpoints controller works, timers    *)
(* fire, the worker of a controller goes on, and main does not hang.        *)
(* Nothing makes a pod start, and nothing makes a scanner or a fault act.   *)

Work(p, r) ==
  Begin(p, r) \/ Fetch(p, r) \/ DropFinalizer(p, r) \/ Label(p, r)

Fairness ==
  /\ \A p \in Pods :
       /\ WF_vars(EndpointAdded(p) \/ EndpointRemoved(p))
       /\ WF_vars(UpdatePeers(p))
       /\ WF_vars(StartManager(p) \/ ListOwned(p) \/ Exit(p))
  /\ \A p \in Pods, r \in Reports :
       /\ WF_vars(Deliver(p, r))
       /\ WF_vars(TimerFires(p, r))
       /\ WF_vars(Work(p, r))
       /\ WF_vars(Release(p, r))

FairSpec == Spec /\ Fairness

-----------------------------------------------------------------------------
(* Properties.                                                              *)

ApiOK ==
  /\ log \in [Reports -> Seq(Object)]
  /\ \A r \in Reports : log[r] # <<>>
  /\ edits \in Nat
  /\ endpoints \in Seq(SUBSET Pods)
  /\ endpoints # <<>>
  /\ faults \in Nat

PodOK ==
  /\ life \in [Pods -> {"down", "booting", "running", "stopping", "releasing"}]
  /\ peers \in [Pods -> Nat]
  /\ \A p \in Pods : peers[p] <= Len(endpoints)
  /\ seen \in [Pods -> [Reports -> Nat]]
  /\ \A p \in Pods, r \in Reports : seen[p][r] <= Len(log[r])
  /\ todo \in [Pods -> SUBSET Reports]
  /\ \A p \in Pods : \A r \in todo[p] : life[p] = "releasing" /\ seen[p][r] # 0

WorkOK ==
  /\ queue \subseteq Pods \X Reports
  /\ timer \subseteq Pods \X Reports
  /\ pc \in [Pods -> [Reports -> {"idle", "fetch", "finalize", "label"}]]
  /\ base \in [Pods -> [Reports -> Nat]]
  /\ series \in [Pods -> [Reports -> Nat]]
  /\ \A p \in Pods, r \in Reports :
       /\ base[p][r] <= Len(log[r])
       /\ base[p][r] # 0 <=> pc[p][r] \in {"finalize", "label"}
       /\ pc[p][r] # "idle" => Working(p) /\ seen[p][r] # 0

\* Every variable has its type.  A Reconcile is under way only while the
\* manager has workers and after the cache has synced, and it holds a version
\* exactly between its read and its last write; the shutdown hook has work
\* only while it runs.
TypeOK == ApiOK /\ PodOK /\ WorkOK

\* No pod that can still take a report over loses sight of it: as long as its
\* cache has the report, the report is queued, being reconciled, or waiting
\* for its delay, or the cache is about to learn that it has changed.  Only
\* so is an orphan picked up when its owner crashes or the ring changes.
NoReportForgotten ==
  \A p \in Pods, r \in Reports :
    Working(p) /\ Cached(p, r) # Absent =>
      \/ <<p, r>> \in queue \cup timer
      \/ pc[p][r] # "idle"
      \/ seen[p][r] < Len(log[r])

\* Series that are out of date as far as the pod's cache knows are never left
\* alone: the report is queued, and the Reconcile that follows clears them.
StaleSeriesRevisited ==
  \A p \in Pods, r \in Reports :
    series[p][r] # 0 /\ <<p, r>> \notin queue =>
      Cached(p, r) # Absent /\ series[p][r] >= Cached(p, r).spec

\* A manifest that has lost its label, but may still seem to have p's.
Misled(p, r) ==
  /\ Manifest(r) /\ Current(r).label \in {NoLabel, NilLabels}
  /\ \E i \in DOMAIN log[r] : log[r][i].label = p

\* The label does what it is for.  A pod that serves a report, with its cache
\* up to date and nothing left to do, serves it under its own label: it is not
\* a previous owner that nobody told.  (Unless a call failed, the label could
\* not be written to a nil map, the hydrating cache still shows a label that is
\* gone, or the bound on versions was met.)
ServesUnderItsLabel ==
  \A p \in Pods, r \in Reports :
      /\ series[p][r] # 0 /\ <<p, r>> \notin queue /\ pc[p][r] = "idle"
      /\ seen[p][r] = Len(log[r])
      /\ faults = 0 /\ Len(log[r]) < MaxVersions[r]
      /\ Current(r).label # NilLabels
    => Current(r).label = p \/ Misled(p, r)

\* The exporters write back whole objects that they read some time ago: no
\* such write brings an older scan back over a later one.
NoLostScan ==
  \A r \in Reports : \A i, j \in DOMAIN log[r] :
    i < j /\ log[r][j] # Absent => log[r][i].spec <= log[r][j].spec

\* An exporter makes a report disappear only if it was being deleted, never
\* makes one appear, and never removes another exporter's label unless that
\* exporter is the one shutting down.
ExporterWritesOnlyItsOwn ==
  [][\A r \in Reports : edits' = edits =>
       /\ Current(r)'.spec = Current(r).spec \/ (Current(r).deleting /\ Current(r)' = Absent)
       /\ \A q \in Pods :
            Current(r).label = q /\ Current(r)'.label = NoLabel /\ Current(r)' # Absent
              => life[q] = "releasing"]_log

\* "Clear the shard-owner label if it still has our label": when the calls of
\* the hook for a report have succeeded, and there is no later version than the
\* one in its cache, the label is no longer this pod's.
ClearedOnShutdown ==
  [][\A p \in Pods, r \in Reports :
         Release(p, r) /\ seen[p][r] = Len(log[r])
       => Current(r)'.label # p]_vars

\* The same of a manifest, whose hook clears the label in the object that it
\* fetched and checked, and sends that.
ManifestClearedOnShutdown ==
  [][\A p \in Pods, r \in Reports :
         Manifest(r) /\ Release(p, r) /\ seen[p][r] = Len(log[r])
       => Current(r)'.label # p]_todo

\* "Wait for the ring to be synced for the first time so we can use it
\* immediately": a manager never starts with an empty ring.
StartsWithPeers ==
  [][\A p \in Pods : life[p] = "booting" /\ life'[p] = "running" => Ring(p) # {}]_vars

\* "Add a label to this report so any previous owners will reconcile and drop
\* the metric": a label step from the last version, without a failed call,
\* leaves the report with this pod's label.
LabelWritten ==
  [][\A p \in Pods, r \in Reports :
         /\ pc[p][r] = "label" /\ pc'[p][r] = "idle" /\ life'[p] = "running"
         /\ faults' = faults
         /\ base[p][r] = Len(log[r]) /\ Len(log[r]) < MaxVersions[r]
         /\ Current(r) # Absent
       => Current(r)'.label = p]_vars

\* Once no pod hangs in its wait loop any more, a report is served by nobody
\* but the pod the ready endpoints make its owner, and what that pod serves
\* is the last scan: whatever crashed, was missed or was read too early.
Settled == \A p \in Pods : life[p] # "booting"

OnlyOwnerServes ==
  <>[]Settled =>
    <>[](\A p \in Pods, r \in Reports : series[p][r] # 0 =>
           /\ p \in Ready
           /\ Locate[Ready][r] = p
           /\ series[p][r] = Current(r).spec)

Owner(r, p) == p \in Ready /\ Locate[Ready][r] = p /\ life[p] = "running"

\* ... and its owner, if it runs, serves the last scan whenever it is not in
\* the middle of reconciling it.
OwnerServes ==
  <>[]Settled =>
    <>[](\A p \in Pods, r \in Reports :
           Owner(r, p) /\ Current(r) # Absent /\ pc[p][r] = "idle"
             => series[p][r] = Current(r).spec)

\* A report is not kept in deletion by a finalizer of an earlier release.
FinalizerReleased ==
  <>[]Settled =>
    []<>(\A p \in Pods, r \in Reports : ~(Owner(r, p) /\ Current(r).deleting))

\* "It might not exist anymore, in which case we don't need to do anything":
\* once a report is gone for good its key leaves the workqueues.
DeletedReportForgotten ==
  \A r \in Reports :
    <>[](Current(r) = Absent) => <>[](\A p \in Pods : <<p, r>> \notin timer)

=============================================================================
