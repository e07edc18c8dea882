# A TLA+ model of starboard-exporter

starboard-exporter runs as a Deployment of one or more pods. Each pod watches
the vulnerability and configuration reports of a cluster and exposes them as
Prometheus series. The pods divide the reports among themselves with a
consistent hash ring whose members are the ready endpoints of their own
Service. This directory holds TLA+ modules of that program, the TLC
configurations that check them on small instances, and proofs that TLAPS
checks for instances of any size.

## The system

| Part | Source | State | Operations |
| --- | --- | --- | --- |
| Sharded reconciliation | `controllers/**/*_controller.go` | gauge vectors, workqueue, cache of the reports | `Reconcile` of VulnerabilityReport, VulnerabilityManifest and ConfigAuditReport |
| Process lifecycle | `main.go` | the phase `main` is in | wait loop, `mgr.Start`, SIGTERM, `shutdownRequeue` |
| Peer ring | `utils/sharding.go` | ring members under an RWMutex | `SetMembers`, `GetShardOwner`, `ShouldOwn`, the EndpointSlice handlers |
| Hydrating cache | `utils/hydrating_cache.go` | detail store | `Get` |
| Vulnerability metrics | `vulnerabilityreport_metrics.go`, `publish*` | two gauge vectors shared by two controllers | publish, delete by report name, label sets |
| Config audit metrics | `configauditreport_metrics.go` | one gauge vector | publish, delete |
| Requeue jitter | `utils/jitter.go` | none | `Jitter`, `JitterRequeue` |
| Target labels | `main.go`, `vulnerabilityreport_metrics.go` | the chosen labels | the `--target-labels` parser |
| Memory limit | `utils/memlimit.go` | none | one library call at start |

How they interact. The informer of EndpointSlices calls `SetMembers`; every
`Reconcile` calls `ShouldOwn`. A `Reconcile` deletes the series of its report
and, if the ring says the report is this pod's, reads the report through the
hydrating cache, publishes it, drops a finalizer of earlier releases and writes
the pod's IP into the label `shard-owner`. The label is the only message
between pods: the API server's watch brings it to the others, whose `Reconcile`
then drops their series. Every report is requeued after about five minutes,
whoever owns it. On SIGTERM a deferred hook tries to clear the label on the
pod's reports so that the others hear of it.

What is hard. Pods see the endpoints and the reports at different times; the
ring is asked before the report is read and the label is written later still;
`Update` sends a whole object that may be stale; calls fail, pods crash between
any two steps, and restart with the same IP; the kinds differ in details that
matter (the nil map, the hook, the hydrated read). What makes the parts correct:

* reconciliation: only the owner ends up serving a report, with its last scan;
  no report is lost from sight; an exporter never overwrites a scan;
* lifecycle: the manager starts with a usable ring; the hook clears this pod's
  labels and nobody else's;
* ring: `ShouldOwn` answers from one member set, the last one the store had;
* hydrating cache: what `Get` returns is complete and of one version, and an
  incomplete object is never written back;
* metrics: the series of a report are those of its last publication, whatever
  the other controller does; no series is left behind;
* config audits and requeue: a pod finds out in time, by its own visits, what no
  event tells it;
* algorithms: jitter spreads the visits, the score is the preferred one, the
  labels always include the report name and none of them twice.

`PROJECT.json` lists the hazards with their lines and the properties that
cover them.

## Plan

1. `ShardedExporter`: reconciliation, label protocol, endpoints, lifecycle and
   hook, as it is the heart of the program. Done.
2. `ShardedExporterProofs`, `ShardedExporterSafety`: type correctness, the safety
   invariants of the runs and the action properties that hold. Done.
3. `PeerRing` and `AtomicRing`: `SetMembers` step by step under the lock, the
   handlers reading the store, readers in between, shown to implement a ring that
   is set in one step; `PeerRingProofs`. Done.
4. `VulnerabilityMetrics`: both controllers on one registry, the registration at
   the first Reconcile, the series of a report one by one, the parser of the
   labels, severity counts and scores; `FoldTheorems`, `VulnerabilityMetricsLemmas`
   and `VulnerabilityMetricsProofs`. Done.
5. `HydratingCache` and `VersionedReads`: the detail store and its key, late and
   failing answers of the API server, the two readers and what they write back,
   shown to implement reads of one version; `HydratingCacheProofs`. Done.
6. `ConfigAudits`: the config audit controller with time, its series, the jitter
   of the requeue and the workqueue's backoff; `ConfigAuditsProofs`. Done.
7. Left: an abstract specification of serving (one owner, last scan) that
   `ShardedExporter` implements once it has settled; one of publication (the series
   of a report change at once) that `VulnerabilityMetrics` implements for what is
   outside a Reconcile; the kinds that each pod supports.

## Modules

### ShardedExporter

The API server keeps for each report the sequence `log[r]` of its versions; a
watch is a position in it (`seen[p][r]`), and `Update` is accepted only from the
last position, which is what `resourceVersion` does. `endpoints` is the sequence
of ready IP sets, and `peers[p]` the position a pod's ring was set from. A
version is a record of `spec` (a stamp for what the scanner wrote, 0 for "does
not exist"), `label` (a pod, `NoLabel` for missing or empty, `NilLabels` for an
object without any labels), `finalizer` and `deleting`. `series[p][r]` is the
stamp of the scan whose series pod `p` exposes, 0 if it exposes none: series
names and values are left out.

| Action | Code |
| --- | --- |
| `Begin` | `Reconcile` up to and including `ShouldOwn`; the not-owner's return; the panic of an empty ring |
| `Fetch` | `Get`, publication, the NotFound return |
| `DropFinalizer` | `RemoveFinalizer` and the first `Update` |
| `Label` | the label and the second `Update` (`LabelReport`, `LabelManifest`) |
| `CallFails` | an error of `Get` or `Update` |
| `Deliver`, `TimerFires` | watch event with its handler; the delayed requeue |
| `Start`, `StartManager` | `main` to the wait loop; past it |
| `UpdatePeers` | an EndpointSlice handler up to the end of `SetMembers` |
| `Stop`, `ListOwned`, `Release`, `ReleaseFails`, `Exit` | SIGTERM, the hook for the three kinds, the end |
| `Crash` | a kill, also by the liveness probe of the chart |
| `Create`, `Rescan`, `Delete`, `EndpointAdded`, `EndpointRemoved`, `EndpointFlap` | scanners and endpoints controller (external) |

`Begin` joins the deletion of the series with the question to the ring: nothing
but the worker itself touches the series of a report in between, and the ring is
read once, so that an update of the ring between the two is the same as one
before both. (That two controllers share gauge vectors is the subject of
`VulnerabilityMetrics`.) The ring is set in one step and asked in one step, which
`PeerRing` justifies. `Readable` gives the versions a `Get` may return:
the cached one, and for a manifest whose cached copy lacks its payload also the
one the API server has; how the detail store answers is in `HydratingCache`, and
`Readable` allows more than that. `SeemsLabelled` is what that module shows of
labels: a hydrated manifest may carry one that its version has lost, and is then
not written. A pod is an endpoint as soon as its container runs,
because the chart has no readiness probe.

Constants: `Locate` is the ring's partition table, any function from member sets
to owners among the members (`LocateAssumption`); `Found` says in which state
the exporters may find a report.

Operators marked "mutation" in a comment are not part of the specification; they
are plausible mistakes, each of which makes a property fail.

### MCShardedExporter

Two pods and one report. With both pods ready the ring gives report `r1` to
`p2`, so ownership moves whenever the other pod comes, goes or is unready. The run
`reports` has a Trivy report `r1` and a manifest `r2` (given to `p1`), and the
constraint `OneAtATime`: in each behaviour only one of the two ever exists, so that the
run is the two kinds side by side and not their product. Reports of different kinds
share neither worker nor series in this module; they meet only in the order of the
shutdown hook.

### AtomicRing and PeerRing

`AtomicRing` is what callers rely on: `SetMembers` replaces the members at once,
and a caller that has asked (`Call`) gets an answer (`Return`) that was right for
the members at one moment in between (`Decide`). `PeerRing` is one pod's
`utils/sharding.go`:

| Action | Code |
| --- | --- |
| `SliceChanges` | the endpoints controller writes an EndpointSlice (external) |
| `StoreFollows` | the informer's store and its notifications (external) |
| `ListStore` | an Add, Update or Delete handler: list the slices, collect the IPs |
| `Lock`, `Locked` | `Lock()` of the RWMutex, in the two phases of Go's: readers are kept out, then the last one leaves |
| `Add`, `GetMembers`, `Remove`, `Unlock` | the two loops of `SetMembers`, one member at a time |
| `Call`, `RLock`, `LocateKey`, `RUnlock` | `ShouldOwn`, `GetShardOwner`, `MemberCount` with their read lock, which is also released when the nil owner of an empty ring panics |

`history` is the sequence of states of the slices, `store` the position that the
informer has reached, `pending` the notifications not yet handled. The
refinement maps the members of `AtomicRing` to `ring`, or to `new` while the loops
run, so that the abstract step is `Locked`. `MCPeerRing` has two addresses that
move between two slices, one of them possibly of the other address family, and
two callers.

### VulnerabilityMetrics

The two gauge vectors of a pod (`summary`, `details`) as functions from label sets
(functions from label names to values) to values, and one worker for each of the
two controllers. `ClearSummary`, `ClearDetails`, `Read` or `ReadFails`, `SetSummary`
per severity, `SetDetail` per vulnerability and `Finish` are the steps of
`Reconcile`, so that the other controller, and a scrape, may come between any two.
Before the first of them, `BeginRegistration` and `RegisterMetrics` are
`registerMetricsOnce`: `made` counts the detail vectors that were registered.
`Parsed` is the parser of `--target-labels`, `labels` what it makes of `flag` (`None`
if `main` ends with an error); `CountedAs`, `BestScore` and
`SeverityCount` translate the functions of the Kubescape controller. `shown` is a
history variable: the report whose publication finished last. Versions of CVSS
are numbers in the order of their strings. The labels that name an image are one
label. `ReadFails` covers a report that is gone and a `Get` that fails; the calls
after publication concern the API server only and are in `ShardedExporter`.
`MCVulnerabilityMetrics` has one Trivy report and two manifests with two contents
each, with repeated vulnerabilities, an unknown severity, missing scores and
missing versions.

### VersionedReads and HydratingCache

`VersionedReads` is what a client of the cache may rely on: an answer is a version
of the manifest with its payload, the one that the process has followed to or, if
it had to ask, one between that and the last; and what is written back has the
payload that was read. `HydratingCache` is `utils/hydrating_cache.go` in one pod:

| Action | Code |
| --- | --- |
| `GetLocally` | `Get` answered by the base cache, or by the detail store under its resource version |
| `GetAsks`, `ApiAnswers`, `ApiFails` | the call to the API server; its answer is decoded and stored, or its error returned |
| `Reconcile`, `WriteLabel` | the worker of the manifests' controller: `Get`, and the label if it is another one |
| `ListOwned`, `Release`, `ClearLabel` | the shutdown hook: `List`, and for each item `Get` and the empty label |
| `UpdateFails` | `Update` fails without a conflict |
| `Deliver` | the informer of the base cache, whose lists may leave the payload out |
| `Stop`, `Exit`, `Crash`, `Start` | SIGTERM, the end of `main`, a kill, a new process with an empty cache and store |
| `Scan`, `Delete`, `OtherLabels` | Kubescape and the other pods (external) |

There is one reader at a time, because the controller has one worker and the hook
runs after `mgr.Start` has returned; `WorkerIdle` stands for that. `Decoded` is a
detail that matters: the answer is decoded into the object that the base cache has
filled, and decoding adds to the labels that are there. A label that the new
version has lost therefore stays in what `Get` returns and in the detail store, the
pod takes it for written, and it remains so until the manifest's next version or a
restart (`Misled`). `payload` is 0 for an empty one, which may be a scan that found
nothing: such a manifest is hydrated too.

### ConfigAudits and ConfigAuditsProofs

The config audit controller of one pod: `Begin`, `ShouldOwn`, `NotFound`, `Get`,
`DropFinalizer`, `Label` (`LabelPanics`, `LabelFails`) and `Requeue` are the steps of its
`Reconcile`, `CallFails` an error of `Get` or `Update`. `summary` is the gauge vector with
its counts. Its subject is time: `due[n]` is the number of ticks until the workqueue
hands out `n`, `Jitter` the set of delays that `utils/jitter.go` may return (none where
`rand.Int63n` panics), `Backoff` the delays after failures. The workqueue is
controller-runtime's (external): it keeps one entry of a name, the earliest; a
`RequeueAfter` that is positive forgets the failures, one that is not counts as
`Requeue`, with a backoff. `Tick` happens only when the worker is free and nothing is
due: a Reconcile is short compared to a tick. Between pods this module has only
`OwnerChanges`, and it has no hook: those are in `ShardedExporter`.

### Modules of theorems

`ShardedExporterProofs`, `ShardedExporterSafety`, `PeerRingProofs`, `HydratingCacheProofs`
and `VulnerabilityMetricsProofs` have the theorems about these modules and their proofs;
`VulnerabilityMetricsLemmas` what the operators of `VulnerabilityMetrics` compute;
`FoldTheorems` facts about sequences of steps, folds over finite sets and greatest
elements that know nothing of the exporter.

## Runs

| Run | Result | Shows |
| --- | --- | --- |
| `reports` | holds | `StaleSeriesRevisited`, `NoLostScan`, `ServesUnderItsLabel`, `ExporterWritesOnlyItsOwn`, `ManifestClearedOnShutdown` for a Trivy report and for a manifest |
| `serving` | holds | `TypeOK`, `NoReportForgotten`, and under `FairSpec` `OnlyOwnerServes`, `OwnerServes`, `FinalizerReleased`, for a Trivy report with the finalizer |
| `ring` | holds | `TypeOK`, `RingFollowsStore`, `AnswersAreAtomic`, `HandlerFinishes`, `RingCatchesUp` under `FairSpec` |
| `metrics` | holds | `TypeOK`, `SummaryMatchesReport`, `AllCounted`, `DetailsMatchReport`, `ScoresMatchReport`, `OneImagePerReport`, `OneDetailVector`, `LabelsAsAsked` |
| `hydrating` | holds | `TypeOK`, `ReadsAreVersions`, `HydratedReadsAdvance`, `ApiReadsCease`, `LabelSettles` under `FairSpec` |
| `audits` | holds | `TypeOK`, `SeriesMatchReport`, `InTime` |
| `starts_with_peers` | violated | main.go:268 waits while the ring has members instead of while it has none |
| `shutdown_label` | violated | the Trivy and config audit hooks update the report they did not change |
| `nil_labels` | violated | the label of a report without labels is never written: the assignment panics |
| `deleted_timers` | violated | a pod that does not own a deleted report requeues it for ever |
| `scanners_apart` | violated | a Trivy report and a manifest of the same name delete each other's series, which README.md:56 says the scanner label tells apart |
| `jitter_spread` | violated | the jitter only ever shortens the requeue duration, which main.go:119, jitter.go:30 and CHANGELOG.md:244 say it spreads "+/-" |

The jitter matters to `InTime`: its bound is the requeue duration because the delay
of the code is always less than that. Were the jitter added as well as subtracted, as
documented, series could be wrong for the requeue duration and the jitter. The
theorems about `ConfigAudits` are about the code.

`InTime` bounds the time to the next visit of a report whose series are wrong. A
visit that has read the report puts them right; one that fails before starts a new
wait. How many failures there may be in a row is not bounded by the code.

One more disagreement has no run of its own: the label that decoding leaves in a
hydrated manifest, which a pod takes for its own (`Misled`, see HydratingCache).
`ServesUnderItsLabel` and `LabelSettles` except it by name.

The inverted wait loop has a second consequence: a pod whose informer is quicker
than `main` stays in the loop, as an endpoint that owns reports it will never
serve, until it is killed. The liveness properties therefore assume `Settled`,
that from some time on no pod is in the loop.

Bounds. `MaxEvents` bounds scanner writes and faults together (`edits` starts at
1, for the writes before the start). With `MaxEvents = 2` every behaviour has one
scan, creation, deletion, crash, SIGTERM, failed call or unready endpoint; starts
of pods, endpoint changes that follow from them, ring updates, watch deliveries,
timers and calls that fail during a shutdown are not bounded. That is enough for
the cases the properties are about: two pods that disagree on the ring, a write
between a read and an update, an owner that dies at any step, a label taken over
between the hook's list and its read. `MaxVersions[r]` refuses label writes (as if
they failed) once `r` has that many versions: 4, for the Trivy report, lets each pod
take the label over from the other and back; 3, for the manifest, lets each pod write
it once, which is what a takeover during the hook takes. In `reports` the exporters
find no report, one without the label, or one of an earlier release with the finalizer
and a nil map; one with the finalizer and a map of labels is in `serving`.
`OneAtATime` is a state constraint; the run has no temporal properties that it could cut
short, only invariants and action properties.

In `ring`, `MaxChanges = 4` gives three writes of slices after the empty start:
an address comes, moves to the other slice or is no longer ready, and goes, with
notifications merged or delayed at will. In `metrics`, `MaxChanges = 4` counts
report writes, deletions and changes of owner; Reconciles are not bounded. Its six
values of the flag have repetitions, a group, an unknown item, or are missing.
`scanners_apart` differs from it by one name that both scanners use.

In `hydrating`, `MaxChanges = 3` counts scans, deletions, labels of other pods, stops,
crashes and failed calls together; reads, deliveries, writes and restarts are not
bounded. Three are enough for a version that the API server has ahead of the cache,
one that overtakes a pending answer, and a stop or a crash. One manifest is enough
because entries of different names meet nowhere. In `audits` there are two reports,
which share the worker and the vector, and two events (`MaxEvents`) after any initial
state of the reports; time is not bounded. The requeue duration is five ticks, the
backoffs 0, 2 and 7 ticks, so that the last is longer than the requeue duration, as
1000 seconds are; the percentages are none, one in between, and one above 100.

Fairness. In `ring` the informer's store follows, handlers go on and a caller that
has asked goes on; no caller need ever ask, and no slice need change. Weak
fairness of the handler suffices because Go's RWMutex keeps new readers out
once a writer waits. In `serving`, watches deliver, the endpoints controller and timers act, a worker with
a report goes on, `main` goes on where it does not wait, and an informer that
lags is updated: these are loops of the client libraries and of the cluster that
run as long as the process. No fairness is assumed for starts, scanners or
faults. Weak fairness of a worker suffices because the `serving` run has one
report per controller; with more, the workqueue's order would be needed.

In `hydrating` the watch delivers, a call returns (weak fairness), the worker comes to
every manifest again and again, which its timer and the workqueue do, though it may be
busy with others in between (strong fairness of `Reconcile`), and the hook goes on.
Nothing is assumed of scans, stops, crashes and starts. `audits` needs no fairness:
`InTime` is a bound.

`CHECK_DEADLOCK FALSE` is given everywhere: all pods may be stopped or hang in
the wait loop with no event left.

## Proofs

`TypeCorrect`: `Spec => []TypeOK` for any pods, reports, kinds and ring.
`TypeOK` is inductive. Besides the types it says that a Reconcile in progress has
a live manager and a synced cache behind it, that it holds a version exactly
between its read and its last write, and that the hook works only on what the
cache had: this is what makes `log[r][base[p][r]]` and `log[r][seen[p][r]]`
defined wherever an action reads them. The proof has a lemma for each group of
actions; `Grows` (the API server's sequences only get longer) carries the
bounds through every write, and `WorkerStepType` does the steps of `Reconcile`.
It uses `LabelAssumption` and `FoundAssumption`.

`ShardedExporterSafety` rests on one lemma about every step, `NextWrites`: at most
one version is appended to what the API server has of a report, and it keeps the
scan of the version before it, removes the report, or carries a new stamp.
Versions that are there stay, so a cache that no event reaches has what it had.

* `ScansInOrder`: `NoLostScan`. It is inductive together with `StampsCounted` (no
  stamp is ahead of `edits`), without which a new scan might be older.
* `NothingForgotten`: `NoReportForgotten`. It is inductive together with
  `EmptyCaches` (no cache before the manager starts), without which `StartManager`
  could begin with reports nobody queued. The case that matters is `Fetch`
  returning without a requeue: either the cache itself knows that the report is
  gone, or the API server is ahead of it and an event is still to come.
* `StaleSeriesFound`: `StaleSeriesRevisited`. It needs `NoLostScan`: what the
  hydrating cache fetches past the cache is not an older scan.
* `ServesLabelled`: `ServesUnderItsLabel`. The strengthening is `ToldInv`: between the
  read and the label, the version read (or the one that dropped the finalizer) is not
  behind the cache unless the report is queued, so that an update that is refused
  leaves a version the pod has still to be told of; and afterwards the label is the
  pod's, or cannot be written, or there is such a version. That being told of it
  enqueues the report rests on `StaleSeriesRevisited`: while there are series the
  cache has the report. A failed call is excluded, and `Faultless` is what excludes
  those of a shutdown, which are not counted.
* `WritesOnlyItsOwn`: `ExporterWritesOnlyItsOwn`. By optimistic locking, what an accepted
  update is made from is the last version (`UpdateChanges`).
* `ManifestsCleared`: `ManifestClearedOnShutdown`. The hook of the other kinds does not clear
  the label (run `shutdown_label`).

They also use `BoundAssumption`: `MaxVersions` has a number for every report.

`PeerRingProofs`, for any addresses, slices, callers and names:

* `RingTypeCorrect`: `TypeOK`, which holds what the loops of `SetMembers` have
  done so far (`new` is within the ring and the members still to visit, and so
  on) and that nobody holds the read lock while it writes.
* `RingFollows`: `RingFollowsStore`. The strengthening `Informed` says what a
  handler on its way will make of the ring: unless another notification is
  pending, it collected from the state the store still has.
* `RingIsAtomic`: `Spec => Abstract!Spec`, step by step: `Locked` sets the
  abstract members, `LocateKey` is `Decide`, the loops stutter because no reader is
  inside, and at the end of the loops the ring is `new`.

The theorems about the ring use `LocateAssumption` (an owner is a member), `ContentsAssumption` and
`QuestionAssumption` (the model's values are distinct).

`ConfigAuditsProofs`, for any reports, requeue duration, percentages, backoffs that do
not decrease, and number of events:

* `AuditsTypeCorrect`: `TypeOK`, and with it that no report is labelled that still has the
  finalizer.
* `AuditsMatch`: `SeriesMatchReport`. The strengthening is `WorkerSeries`: in the middle of a
  Reconcile the series are those of the report that was read, and if that is not the
  report any more, the name is due again.
* `AuditsInTime`: `InTime`. The strengthening `Scheduled` drops the condition that the
  series are wrong: the ticks that they have been wrong and those to the next visit
  are together within the bound, and a name that the workqueue does not have has
  neither a report nor series. That every end of `Reconcile` but the NotFound return
  schedules a visit within the bound is `FailFinishes` and `RequeueFinishes`; the latter
  rests on `JitterBelow`: the delay of the code is below the requeue duration for any
  percentage.

They use `TimeAssumption` (the backoffs do not decrease), `EventsAssumption` and
`AbsenceAssumption` (the model's values are distinct).

`HydratingCacheProofs`, for any manifests and number of changes:

* `HydrationTypeCorrect`: `TypeOK`.
* `HydrationAdvances`: `HydratedReadsAdvance`. The strengthening is `ReadsTrail`: when `Get`
  has returned a version that the base cache does not have yet, the detail store is as
  far. Its entry is then not under the base cache's resource version and is not used.
* `ReadsRefine`: `Spec => Promise!Spec`, step by step. The strengthening is `CopiesTrue`:
  every entry of the detail store, and every answer that is pending, is a copy of a
  version with that version's payload, and has a label that this or an earlier version
  had; copies stay copies because versions stay (`Grows`).

They use `ChangesAssumption` and `NoneAssumption` (`None` is not a call).

`VulnerabilityMetricsProofs`, for any reports, vulnerabilities, severities, flags and
number of changes:

* `MetricsTypeCorrect`: `TypeOK`.
* `DetailVectorOnce`: `OneDetailVector`, from `OnceRuns`, which says who can be in the
  function of the `Once` and when.
* `LabelsAsTheFlagSays`: `LabelsAsAsked`, for every value of the flag, of any length. The
  parser is a fold over the items; `ItemParsed` is what one item does to the labels so
  far, `FlagParsed` the induction.
* `SummaryIsTheReport`, `DetailsAreTheReport`, `OneImageAtATime`: `SummaryMatchesReport`,
  `DetailsMatchReport`, `OneImagePerReport`. All follow from `SeriesInv`, which says for
  every name and every point of its Reconcile exactly which series the two vectors
  have: those of the report shown, none, or those set so far. A step for one name
  leaves the series of all others alone because they are deleted and set under the
  report's name.
* `ScoresAreThePreferred`: `ScoresMatchReport`. `ScoresInv` adds to `SeriesInv` the value of
  every series; `BestScored` shows by induction that the loop of the code returns the
  reference score for lists of any length.
* `EveryVulnerabilityCounted`: `AllCounted`. `CountsInv` adds the values of the summary
  series; `CountsAddUp` sums them, by adding one series at a time, to the number of
  vulnerabilities.

All but the first three assume `NamesApart`: no Trivy report has the namespaced name of
a manifest. This is not true of every cluster, and without it they are false, which
the run `scanners_apart` shows; the run `metrics` satisfies it. They use
`SeverityAssumption` (finitely many severities are published, `UNKNOWN` among them),
`ContentsAssumption` (a report is not `None`, its vulnerabilities are a sequence and so are
their scores), `FlagsAssumption` (the flag is a sequence of words) and `NoneAssumption`.

Induction. The provers cannot instantiate the induction theorems of the library, which
take an operator as a parameter. `FoldTheorems` therefore starts from well-foundedness of
the natural numbers, which is first-order: a non-empty set of numbers has a least
element (`Least`), and so a set that has 0 and is closed under successors has them all
(`FromZero`). A recursive function or a fold over a sequence is given as the sequence of
its intermediate values (`FoldTrace`), which is followed from 0 on; a fold over a finite
set is `SetFoldValue`, where the value is a function on its subsets that grows by one
element at a time. Each use states as a set of numbers what it shows.

What stays with TLC. Liveness under fairness: `OnlyOwnerServes`, `OwnerServes`,
`FinalizerReleased`, `HandlerFinishes`, `RingCatchesUp`, `ApiReadsCease` and `LabelSettles`
need ENABLED or a measure that TLAPS does not support here. Every invariant and every
action property of a passing run is stated by a theorem.

## Not modelled

Logging, registration with the manager, the scheme, the memory limit, the chart.
Leader election: with `--leader-elect` a pod that is not the leader does not
reconcile but is still a member of every ring; the chart does not set the flag.
Discovery: whether a kind has a controller is decided once, when the pod starts, by
a flag and by what the API server supports then; in `ShardedExporter` every pod has a
controller for every kind. Of the command line `--target-labels` and
`--max-jitter-percent` are modelled. The five labels that name an image are one label,
and of the labels of a vulnerability two are kept: the others are copied the same
way. The limits of the Go and Prometheus libraries, and concurrency within them, are
taken as they are documented.
