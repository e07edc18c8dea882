------------------------ MODULE ShardedExporterProofs ------------------------
(***************************************************************************)
(* Theorems about ShardedExporter, for any pods, reports, kinds and hash    *)
(* ring.                                                                   *)
(***************************************************************************)
EXTENDS ShardedExporter, TLAPS

-----------------------------------------------------------------------------
(* What a write does to the log.                                            *)

LEMMA AbsentIsObject == Absent \in Object
BY DEF Absent, Object

LEMMA LogIsSequences ==
  ASSUME TypeOK, NEW r \in Reports
  PROVE  /\ log[r] \in Seq(Object)
         /\ Len(log[r]) \in Nat \ {0}
         /\ Current(r) \in Object
         /\ \A i \in 1..Len(log[r]) : log[r][i] \in Object
BY DEF TypeOK, ApiOK, Current

LEMMA AppendObject ==
  ASSUME TypeOK, NEW r \in Reports, NEW o \in Object
  PROVE  /\ Appended(r, o) \in [Reports -> Seq(Object)]
         /\ Appended(r, o)[r] = Append(log[r], o)
         /\ Len(Appended(r, o)[r]) = Len(log[r]) + 1
         /\ \A s \in Reports : /\ Appended(r, o)[s] # <<>>
                               /\ Len(log[s]) <= Len(Appended(r, o)[s])
<1>1. log \in [Reports -> Seq(Object)] /\ \A s \in Reports : log[s] # <<>>
  BY DEF TypeOK, ApiOK
<1>2. /\ Append(log[r], o) \in Seq(Object)
      /\ Append(log[r], o) # <<>>
      /\ Len(Append(log[r], o)) = Len(log[r]) + 1
      /\ Len(log[r]) \in Nat
  BY <1>1
<1>3. /\ Appended(r, o) \in [Reports -> Seq(Object)]
      /\ Appended(r, o)[r] = Append(log[r], o)
  BY <1>1, <1>2 DEF Appended
<1>4. ASSUME NEW s \in Reports
      PROVE  /\ Appended(r, o)[s] # <<>>
             /\ Len(log[s]) <= Len(Appended(r, o)[s])
  <2>1. CASE s = r
    BY <1>2, <1>3, <2>1
  <2>2. CASE s # r
    <3>1. Appended(r, o)[s] = log[s]
      BY <1>1, <2>2 DEF Appended
    <3> QED BY <1>1, <3>1
  <2> QED BY <2>1, <2>2
<1> QED BY <1>2, <1>3, <1>4

LEMMA UpdatedLog ==
  ASSUME TypeOK, NEW r \in Reports, NEW v, NEW o \in Object
  PROVE  /\ Updated(r, v, o) \in [Reports -> Seq(Object)]
         /\ \A s \in Reports : /\ Updated(r, v, o)[s] # <<>>
                               /\ Len(log[s]) <= Len(Updated(r, v, o)[s])
         /\ Updated(r, v, o) # log => Len(Updated(r, v, o)[r]) = v + 1
<1>1. CASE Updated(r, v, o) = log
  <2>1. /\ log \in [Reports -> Seq(Object)]
        /\ \A s \in Reports : log[s] # <<>>
    BY DEF TypeOK, ApiOK
  <2> QED BY <1>1, <2>1
<1>2. CASE Updated(r, v, o) # log
  <2>1. v = Len(log[r]) /\ Updated(r, v, o) = Appended(r, o)
    BY <1>2 DEF Updated, Unchanged
  <2> QED BY <2>1, AppendObject
<1> QED BY <1>1, <1>2

-----------------------------------------------------------------------------
(* The type invariant.                                                      *)

\* What the API server keeps grows only.
Grows ==
  /\ log' \in [Reports -> Seq(Object)]
  /\ \A r \in Reports : /\ log'[r] # <<>>
                        /\ \A n \in Nat : n <= Len(log[r]) => n <= Len(log'[r])

LEMMA Longer ==
  ASSUME TypeOK, log' \in [Reports -> Seq(Object)],
         \A s \in Reports : log'[s] # <<>> /\ Len(log[s]) <= Len(log'[s])
  PROVE  Grows
<1>1. ASSUME NEW s \in Reports, NEW n \in Nat, n <= Len(log[s])
      PROVE  n <= Len(log'[s])
  <2>1. Len(log[s]) \in Nat /\ Len(log'[s]) \in Nat
    BY LogIsSequences
  <2> QED BY <1>1, <2>1
<1> QED BY <1>1 DEF Grows

LEMMA WriteGrows ==
  ASSUME TypeOK, NEW r \in Reports, NEW o \in Object, ScannerWrite(r, o)
  PROVE  Grows
<1>1. log' = Appended(r, o)
  BY DEF ScannerWrite
<1>2. /\ log' \in [Reports -> Seq(Object)]
      /\ \A s \in Reports : log'[s] # <<>> /\ Len(log[s]) <= Len(log'[s])
  BY <1>1, AppendObject
<1> QED BY <1>2, Longer

LEMMA UpdateGrows ==
  ASSUME TypeOK, NEW r \in Reports, NEW v, NEW o \in Object, log' = Updated(r, v, o)
  PROVE  Grows
BY UpdatedLog, Longer

LEMMA StillGrows == ASSUME TypeOK, log' = log PROVE Grows
BY LogIsSequences DEF Grows, TypeOK, ApiOK

\* A longer log disturbs no work under way.
LEMMA GrowthKeepsWork ==
  ASSUME TypeOK, Grows, UNCHANGED <<life, viewVars, workVars>>
  PROVE  WorkOK'
<1>1. WorkOK /\ UNCHANGED <<seen, queue, timer, pc, base, series>>
  BY DEF TypeOK, viewVars, workVars
<1>2. ASSUME NEW p \in Pods, NEW r \in Reports
      PROVE  /\ base'[p][r] <= Len(log'[r])
             /\ base'[p][r] # 0 <=> pc'[p][r] \in {"finalize", "label"}
             /\ pc'[p][r] # "idle" => Working(p)' /\ seen'[p][r] # 0
  <2>1. base[p][r] \in Nat /\ base[p][r] <= Len(log[r])
    BY <1>1 DEF WorkOK
  <2>2. base[p][r] <= Len(log'[r])
    BY <2>1 DEF Grows
  <2> QED BY <1>1, <2>2 DEF WorkOK, Working
<1> QED BY <1>1, <1>2 DEF WorkOK

LEMMA FaultType == ASSUME TypeOK, NEW p \in Pods, Fault(p) PROVE faults' \in Nat
BY DEF Fault, TypeOK, ApiOK

LEMMA ScannerType == ASSUME TypeOK, Scanner PROVE TypeOK'
<1>1. ASSUME NEW r \in Reports, NEW o \in Object, ScannerWrite(r, o)
      PROVE  TypeOK'
  <2>1. Grows
    BY <1>1, WriteGrows
  <2>2. ApiOK'
    BY <1>1, <2>1 DEF TypeOK, ApiOK, ScannerWrite, Grows
  <2>3. PodOK'
    BY <1>1, <2>1 DEF TypeOK, PodOK, ScannerWrite, Grows, viewVars
  <2>4. WorkOK'
    BY <1>1, <2>1, GrowthKeepsWork DEF ScannerWrite
  <2> QED BY <2>2, <2>3, <2>4 DEF TypeOK
<1>2. PICK r \in Reports : Create(r) \/ Rescan(r) \/ Delete(r)
  BY DEF Scanner
<1>3. Current(r) \in Object /\ Absent \in Object /\ edits + 1 \in Nat
  BY LogIsSequences, AbsentIsObject DEF TypeOK, ApiOK
<1>4. CASE Create(r)
  BY <1>1, <1>3, <1>4 DEF Create, Object
<1>5. CASE Rescan(r)
  BY <1>1, <1>3, <1>5 DEF Rescan, Object
<1>6. CASE Delete(r)
  BY <1>1, <1>3, <1>6 DEF Delete, Object
<1> QED BY <1>2, <1>4, <1>5, <1>6

LEMMA EndpointsType == ASSUME TypeOK, Endpoints PROVE TypeOK'
<1>1. PICK p \in Pods : EndpointAdded(p) \/ EndpointRemoved(p) \/ EndpointFlap(p)
  BY DEF Endpoints
<1>2. Ready \in SUBSET Pods
  BY DEF TypeOK, ApiOK, Ready
<1>3. PICK S \in SUBSET Pods : endpoints' = Append(endpoints, S)
  BY <1>1, <1>2 DEF EndpointAdded, EndpointRemoved, EndpointFlap
<1>4. faults' \in Nat
  BY <1>1 DEF EndpointAdded, EndpointRemoved, EndpointFlap, Fault, TypeOK, ApiOK
<1>5. UNCHANGED <<log, edits, life, viewVars, workVars, todo>>
  BY <1>1 DEF EndpointAdded, EndpointRemoved, EndpointFlap
<1>6. /\ endpoints' \in Seq(SUBSET Pods) /\ endpoints' # <<>>
      /\ Len(endpoints') = Len(endpoints) + 1
      /\ Len(endpoints) \in Nat
  BY <1>3 DEF TypeOK, ApiOK
<1>7. ApiOK'
  BY <1>4, <1>5, <1>6 DEF TypeOK, ApiOK
<1>8. PodOK'
  BY <1>5, <1>6 DEF TypeOK, PodOK, viewVars
<1>9. WorkOK'
  BY <1>5 DEF TypeOK, WorkOK, viewVars, workVars, Working
<1> QED BY <1>7, <1>8, <1>9 DEF TypeOK

LEMMA GoDownType ==
  ASSUME TypeOK, NEW p \in Pods, GoDown(p), UNCHANGED apiVars, faults' \in Nat
  PROVE  TypeOK'
<1>1. ApiOK'
  BY DEF TypeOK, ApiOK, apiVars
<1>2. PodOK'
  BY LogIsSequences DEF TypeOK, PodOK, ApiOK, GoDown, apiVars
<1>3. /\ queue' \subseteq Pods \X Reports
      /\ timer' \subseteq Pods \X Reports
      /\ pc' \in [Pods -> [Reports -> {"idle", "fetch", "finalize", "label"}]]
      /\ base' \in [Pods -> [Reports -> Nat]]
      /\ series' \in [Pods -> [Reports -> Nat]]
  BY DEF TypeOK, WorkOK, GoDown
<1>4. ASSUME NEW q \in Pods, NEW r \in Reports
      PROVE  /\ base'[q][r] <= Len(log'[r])
             /\ base'[q][r] # 0 <=> pc'[q][r] \in {"finalize", "label"}
             /\ pc'[q][r] # "idle" => Working(q)' /\ seen'[q][r] # 0
  <2>1. CASE q = p
    <3>1. base'[q][r] = 0 /\ pc'[q][r] = "idle"
      BY <2>1 DEF TypeOK, WorkOK, GoDown
    <3> QED BY <3>1, LogIsSequences DEF apiVars
  <2>2. CASE q # p
    <3>1. base'[q][r] = base[q][r] /\ pc'[q][r] = pc[q][r] /\ life'[q] = life[q]
          /\ seen'[q][r] = seen[q][r]
      BY <2>2 DEF TypeOK, WorkOK, PodOK, GoDown
    <3> QED BY <3>1 DEF TypeOK, WorkOK, Working, apiVars
  <2> QED BY <2>1, <2>2
<1>5. WorkOK'
  BY <1>3, <1>4 DEF WorkOK
<1> QED BY <1>1, <1>2, <1>5 DEF TypeOK

LEMMA LifecycleType == ASSUME TypeOK, Lifecycle PROVE TypeOK'
<1> SUFFICES ASSUME NEW p \in Pods,
                    \/ Start(p) \/ StartManager(p) \/ UpdatePeers(p) \/ Stop(p)
                    \/ ListOwned(p) \/ Exit(p) \/ Crash(p)
             PROVE  TypeOK'
  BY DEF Lifecycle
<1>1. CASE Start(p)
  <2>1. ApiOK' /\ PodOK'
    BY <1>1 DEF Start, TypeOK, ApiOK, PodOK, apiVars, viewVars
  <2>2. WorkOK'
    BY <1>1 DEF Start, TypeOK, PodOK, WorkOK, Working, apiVars, viewVars, workVars
  <2> QED BY <2>1, <2>2 DEF TypeOK
<1>2. CASE StartManager(p)
  <2>1. ApiOK' /\ PodOK'
    BY <1>2 DEF StartManager, TypeOK, ApiOK, PodOK, apiVars, viewVars
  <2>2. WorkOK'
    BY <1>2 DEF StartManager, TypeOK, PodOK, WorkOK, Working, apiVars, viewVars, workVars
  <2> QED BY <2>1, <2>2 DEF TypeOK
<1>3. CASE UpdatePeers(p)
  <2>1. ApiOK' /\ PodOK'
    BY <1>3 DEF UpdatePeers, TypeOK, ApiOK, PodOK, apiVars
  <2>2. WorkOK'
    BY <1>3 DEF UpdatePeers, TypeOK, WorkOK, Working, apiVars, viewVars, workVars
  <2> QED BY <2>1, <2>2 DEF TypeOK
<1>4. CASE Stop(p)
  <2>1. ApiOK' /\ PodOK'
    BY <1>4 DEF Stop, Fault, TypeOK, ApiOK, PodOK, apiVars, viewVars
  <2>2. WorkOK'
    BY <1>4 DEF Stop, TypeOK, PodOK, WorkOK, Working, apiVars, viewVars, workVars
  <2> QED BY <2>1, <2>2 DEF TypeOK
<1>5. CASE ListOwned(p)
  <2>1. ASSUME NEW r \in Reports, Cached(p, r).label = p
        PROVE  seen[p][r] # 0
    BY <2>1, LabelAssumption DEF Cached, Absent
  <2>2. ApiOK'
    BY <1>5 DEF ListOwned, TypeOK, ApiOK, apiVars
  <2>3. /\ PodOK
        /\ life' = [life EXCEPT ![p] = "releasing"]
        /\ todo' = [todo EXCEPT ![p] = {r \in Reports : Cached(p, r).label = p}]
        /\ UNCHANGED <<log, endpoints, peers, seen>>
    BY <1>5 DEF ListOwned, TypeOK, apiVars, viewVars
  <2>4. ASSUME NEW q \in Pods, NEW r \in todo'[q]
        PROVE  life'[q] = "releasing" /\ seen'[q][r] # 0
    BY <2>1, <2>3 DEF PodOK
  <2>5. PodOK'
    BY <2>3, <2>4 DEF PodOK
  <2>6. WorkOK'
    BY <1>5 DEF ListOwned, WorkersIdle, TypeOK, PodOK, WorkOK, Working, apiVars, viewVars, workVars
  <2> QED BY <2>2, <2>5, <2>6 DEF TypeOK
<1>6. CASE Exit(p)
  BY <1>6, GoDownType DEF Exit, TypeOK, ApiOK
<1>7. CASE Crash(p)
  BY <1>7, GoDownType DEF Crash, TypeOK, ApiOK
<1> QED BY <1>1, <1>2, <1>3, <1>4, <1>5, <1>6, <1>7

\* What a Get returns is a version of the report: the workers start when the
\* cache has synced, and the hook lists what the cache has.
LEMMA ReadableIsObject ==
  ASSUME TypeOK, NEW p \in Pods, NEW r \in Reports, seen[p][r] # 0,
         NEW v \in Readable(p, r)
  PROVE  /\ v \in 1..Len(log[r])
         /\ log[r][v] \in Object
         /\ seen[p][r] <= v
<1>1. v = seen[p][r] \/ v = Len(log[r])
  BY DEF Readable
<1>2. seen[p][r] \in 1..Len(log[r])
  BY DEF TypeOK, PodOK
<1>3. Len(log[r]) \in Nat \ {0}
  BY LogIsSequences
<1>4. v \in 1..Len(log[r]) /\ seen[p][r] <= v
  BY <1>1, <1>2, <1>3
<1> QED BY <1>4, LogIsSequences

LEMMA ShutdownType == ASSUME TypeOK, ShutdownHook PROVE TypeOK'
<1> SUFFICES ASSUME NEW p \in Pods, NEW r \in Reports,
                    Release(p, r) \/ ReleaseFails(p, r)
             PROVE  TypeOK'
  BY DEF ShutdownHook
<1>1. Grows
  <2>1. CASE ReleaseFails(p, r)
    BY <2>1, StillGrows DEF ReleaseFails, apiVars
  <2>2. CASE Release(p, r) /\ Manifest(r)
    <3>1. PICK v \in Readable(p, r) :
            log' = IF StillMine(p, log[r][v])
                   THEN Updated(r, v, [log[r][v] EXCEPT !.label = NoLabel])
                   ELSE log
      BY <2>2 DEF Release, ReleaseManifest
    <3>2. log[r][v] \in Object
      BY <2>2, ReadableIsObject DEF Release, TypeOK, PodOK
    <3>3. [log[r][v] EXCEPT !.label = NoLabel] \in Object
      BY <3>2 DEF Object
    <3> QED BY <3>1, <3>3, UpdateGrows, StillGrows
  <2>3. CASE Release(p, r) /\ ~Manifest(r)
    <3>1. log' = Updated(r, seen[p][r], log[r][seen[p][r]])
      BY <2>3 DEF Release, ReleaseReport
    <3>2. log' = log
      BY <3>1 DEF Updated, Unchanged, Current
    <3> QED BY <3>2, StillGrows
  <2> QED BY <2>1, <2>2, <2>3
<1>2. /\ todo' = [todo EXCEPT ![p] = @ \ {r}]
      /\ UNCHANGED <<edits, endpoints, life, viewVars, workVars>>
      /\ faults' \in Nat
  BY DEF Release, ReleaseFails, apiVars, TypeOK, ApiOK, Fault
<1>3. ApiOK'
  BY <1>1, <1>2 DEF TypeOK, ApiOK, Grows
<1>4. PodOK'
  BY <1>1, <1>2 DEF TypeOK, ApiOK, PodOK, Grows, viewVars
<1>5. WorkOK'
  BY <1>1, <1>2, GrowthKeepsWork
<1> QED BY <1>3, <1>4, <1>5 DEF TypeOK

LEMMA WatchType == ASSUME TypeOK, Watch PROVE TypeOK'
<1> SUFFICES ASSUME NEW p \in Pods, NEW r \in Reports,
                    Deliver(p, r) \/ TimerFires(p, r)
             PROVE  TypeOK'
  BY DEF Watch
<1>1. CASE Deliver(p, r)
  <2>1. PICK v \in (seen[p][r] + 1)..Len(log[r]) :
          /\ seen' = [seen EXCEPT ![p][r] = v]
          /\ queue' \in {queue, queue \cup {<<p, r>>}}
    BY <1>1 DEF Deliver
  <2>2. v \in Nat \ {0} /\ v <= Len(log[r])
    BY <2>1, LogIsSequences DEF TypeOK, PodOK
  <2>3. ApiOK'
    BY <1>1 DEF Deliver, TypeOK, ApiOK, apiVars
  <2>4. \A q \in Pods, s \in Reports : seen[q][s] # 0 => seen'[q][s] # 0
    BY <2>1, <2>2 DEF TypeOK, PodOK
  <2>5. PodOK'
    BY <1>1, <2>1, <2>2, <2>4 DEF Deliver, TypeOK, PodOK, apiVars
  <2>6. WorkOK'
    BY <1>1, <2>1, <2>4 DEF Deliver, TypeOK, WorkOK, Working, apiVars
  <2> QED BY <2>3, <2>5, <2>6 DEF TypeOK
<1>2. CASE TimerFires(p, r)
  <2>1. ApiOK' /\ PodOK'
    BY <1>2 DEF TimerFires, TypeOK, ApiOK, PodOK, apiVars, viewVars
  <2>2. WorkOK'
    BY <1>2 DEF TimerFires, TypeOK, WorkOK, Working, apiVars, viewVars
  <2> QED BY <2>1, <2>2 DEF TypeOK
<1> QED BY <1>1, <1>2

\* A step of Reconcile of r at p that leaves the pods and their views alone
\* and moves pc and base together keeps the type.
LEMMA WorkerStepType ==
  ASSUME TypeOK, Grows, NEW p \in Pods, NEW r \in Reports,
         NEW c \in {"idle", "fetch", "finalize", "label"}, NEW b \in Nat,
         pc' = [pc EXCEPT ![p][r] = c], base' = [base EXCEPT ![p][r] = b],
         b <= Len(log'[r]), b # 0 <=> c \in {"finalize", "label"},
         c # "idle" => Working(p) /\ seen[p][r] # 0,
         UNCHANGED <<edits, endpoints, life, viewVars, todo>>,
         queue' \subseteq Pods \X Reports, timer' \subseteq Pods \X Reports,
         series' \in [Pods -> [Reports -> Nat]],
         faults' \in Nat
  PROVE  TypeOK'
<1>1. ApiOK'
  BY DEF TypeOK, ApiOK, Grows
<1>2. PodOK'
  BY DEF TypeOK, PodOK, Grows, viewVars
<1>3. /\ pc' \in [Pods -> [Reports -> {"idle", "fetch", "finalize", "label"}]]
      /\ base' \in [Pods -> [Reports -> Nat]]
  BY DEF TypeOK, WorkOK
<1>4. ASSUME NEW q \in Pods, NEW s \in Reports
      PROVE  /\ base'[q][s] <= Len(log'[s])
             /\ base'[q][s] # 0 <=> pc'[q][s] \in {"finalize", "label"}
             /\ pc'[q][s] # "idle" => Working(q)' /\ seen'[q][s] # 0
  <2>1. CASE q = p /\ s = r
    <3>1. base'[q][s] = b /\ pc'[q][s] = c
      BY <2>1 DEF TypeOK, WorkOK
    <3> QED BY <2>1, <3>1 DEF Working, viewVars
  <2>2. CASE ~(q = p /\ s = r)
    <3>1. base'[q][s] = base[q][s] /\ pc'[q][s] = pc[q][s]
      BY <2>2 DEF TypeOK, WorkOK
    <3>2. base[q][s] \in Nat /\ base[q][s] <= Len(log[s])
      BY DEF TypeOK, WorkOK
    <3>3. base[q][s] <= Len(log'[s])
      BY <3>2 DEF Grows
    <3> QED BY <3>1, <3>3 DEF TypeOK, WorkOK, Working, viewVars
  <2> QED BY <2>1, <2>2
<1>5. WorkOK'
  BY <1>3, <1>4 DEF WorkOK
<1> QED BY <1>1, <1>2, <1>5 DEF TypeOK

LEMMA ReturnType ==
  ASSUME TypeOK, Grows, NEW p \in Pods, NEW r \in Reports, NEW again \in BOOLEAN,
         Return(p, r, again),
         UNCHANGED <<edits, endpoints, life, viewVars, todo>>,
         queue' \subseteq queue, series' \in [Pods -> [Reports -> Nat]], faults' \in Nat
  PROVE  TypeOK'
<1>1. /\ queue' \subseteq Pods \X Reports
      /\ timer' \subseteq Pods \X Reports
  BY DEF Return, TypeOK, WorkOK
<1>2. 0 <= Len(log'[r])
  BY DEF Grows
<1> QED BY <1>1, <1>2, WorkerStepType DEF Return

LEMMA ReconcileType == ASSUME TypeOK, Reconcile PROVE TypeOK'
<1> SUFFICES ASSUME NEW p \in Pods, NEW r \in Reports,
                    \/ Begin(p, r) \/ Fetch(p, r)
                    \/ DropFinalizer(p, r) \/ Label(p, r) \/ CallFails(p, r)
             PROVE  TypeOK'
  BY DEF Reconcile
<1> USE TRUE \in BOOLEAN, FALSE \in BOOLEAN
<1>1. CASE Begin(p, r)
  <2>1. Grows
    BY <1>1, StillGrows DEF Begin, apiVars
  <2>2. /\ queue' \subseteq queue
        /\ series' \in [Pods -> [Reports -> Nat]]
        /\ faults' \in Nat
    BY <1>1 DEF Begin, Cleared, TypeOK, WorkOK, ApiOK
  <2>3. UNCHANGED <<edits, endpoints, life, viewVars, todo>>
    BY <1>1 DEF Begin, apiVars
  <2>4. CASE ShouldOwn(p, r)
    <3>1. pc' = [pc EXCEPT ![p][r] = "fetch"] /\ UNCHANGED <<base, timer>>
      BY <1>1, <2>4 DEF Begin, ShouldOwn
    <3>2. pc[p][r] = "idle" /\ seen[p][r] # 0 /\ Working(p)
      BY <1>1 DEF Begin, WorkerFree, Working, TypeOK, PodOK
    <3>3. base[p][r] = 0
      BY <3>2 DEF TypeOK, WorkOK
    <3>4. base' = [base EXCEPT ![p][r] = 0]
      BY <3>1, <3>3 DEF TypeOK, WorkOK
    <3>5. 0 <= Len(log'[r])
      BY <2>1 DEF Grows
    <3>6. queue' \subseteq Pods \X Reports /\ timer' \subseteq Pods \X Reports
      BY <2>2, <3>1 DEF TypeOK, WorkOK
    <3> QED BY <2>1, <2>2, <2>3, <3>1, <3>2, <3>4, <3>5, <3>6, WorkerStepType
  <2>5. CASE ~ShouldOwn(p, r)
    <3>1. Return(p, r, TRUE)
      BY <1>1, <2>5 DEF Begin, Revisit, Retry
    <3> QED BY <2>1, <2>2, <2>3, <3>1, ReturnType
  <2> QED BY <2>4, <2>5
<1>2. CASE Fetch(p, r)
  <2>1. Grows
    BY <1>2, StillGrows DEF Fetch, apiVars
  <2>2. UNCHANGED <<edits, endpoints, life, viewVars, queue, todo>> /\ faults' \in Nat
    BY <1>2 DEF Fetch, apiVars, TypeOK, ApiOK
  <2>3. Working(p) /\ seen[p][r] # 0
    BY <1>2 DEF Fetch, TypeOK, WorkOK
  <2>4. PICK v \in Readable(p, r) :
          \/ Return(p, r, FALSE) /\ UNCHANGED series
          \/ /\ series' = [series EXCEPT ![p][r] = log[r][v].spec]
             /\ base' = [base EXCEPT ![p][r] = v]
             /\ pc' = [pc EXCEPT ![p][r] =
                         IF Legacy(log[r][v]) THEN "finalize" ELSE "label"]
             /\ UNCHANGED timer
    BY <1>2 DEF Fetch
  <2>5. v \in Nat /\ v # 0 /\ v <= Len(log'[r]) /\ log[r][v].spec \in Nat
    BY <1>2, <2>3, ReadableIsObject DEF Fetch, apiVars, Object
  <2>6. CASE Return(p, r, FALSE) /\ UNCHANGED series
    BY <2>1, <2>2, <2>6, ReturnType DEF TypeOK, WorkOK
  <2>7. CASE ~(Return(p, r, FALSE) /\ UNCHANGED series)
    <3>1. PICK c \in {"finalize", "label"} : pc' = [pc EXCEPT ![p][r] = c]
      BY <2>4, <2>7
    <3>2. /\ series' = [series EXCEPT ![p][r] = log[r][v].spec]
          /\ base' = [base EXCEPT ![p][r] = v]
          /\ UNCHANGED timer
      BY <2>4, <2>7
    <3>3. series' \in [Pods -> [Reports -> Nat]]
      BY <2>5, <3>2 DEF TypeOK, WorkOK
    <3>4. queue' \subseteq Pods \X Reports /\ timer' \subseteq Pods \X Reports
      BY <2>2, <3>2 DEF TypeOK, WorkOK
    <3> QED BY <2>1, <2>2, <2>3, <2>5, <3>1, <3>2, <3>3, <3>4, WorkerStepType
  <2> QED BY <2>6, <2>7
<1>3. CASE DropFinalizer(p, r)
  <2> DEFINE v    == base[p][r]
             read == log[r][v]
             new  == IF read.deleting THEN Absent ELSE [read EXCEPT !.finalizer = FALSE]
  <2>1. v \in 1..Len(log[r])
    BY <1>3, LogIsSequences DEF DropFinalizer, TypeOK, WorkOK
  <2>2. new \in Object
    BY <2>1, LogIsSequences, AbsentIsObject DEF Object
  <2>3. log' = Updated(r, v, new)
    BY <1>3 DEF DropFinalizer
  <2>4. Grows
    BY <2>2, <2>3, UpdateGrows
  <2>5. UNCHANGED <<edits, endpoints, life, viewVars, queue, series, todo, faults>>
    BY <1>3 DEF DropFinalizer
  <2>6. CASE log' = log
    <3>1. Return(p, r, TRUE)
      BY <1>3, <2>6 DEF DropFinalizer, Retry
    <3> QED BY <2>4, <2>5, <3>1, ReturnType DEF TypeOK, ApiOK, WorkOK
  <2>7. CASE log' # log
    <3>1. /\ base' = [base EXCEPT ![p][r] = @ + 1]
          /\ pc' = [pc EXCEPT ![p][r] = "label"]
          /\ UNCHANGED timer
      BY <1>3, <2>7 DEF DropFinalizer
    <3>2. Len(log'[r]) = v + 1
      BY <2>2, <2>3, <2>7, UpdatedLog
    <3>3. base' = [base EXCEPT ![p][r] = v + 1] /\ v + 1 \in Nat /\ v + 1 # 0
      BY <2>1, <3>1 DEF TypeOK, WorkOK
    <3>4. Working(p) /\ seen[p][r] # 0
      BY <1>3 DEF DropFinalizer, TypeOK, WorkOK
    <3>5. /\ queue' \subseteq Pods \X Reports /\ timer' \subseteq Pods \X Reports
          /\ series' \in [Pods -> [Reports -> Nat]]
          /\ faults' \in Nat
      BY <2>5, <3>1 DEF TypeOK, ApiOK, WorkOK
    <3>6. v + 1 <= Len(log'[r])
      BY <3>2, <3>3
    <3> HIDE DEF v
    <3> QED BY <2>4, <2>5, <3>1, <3>3, <3>4, <3>5, <3>6, WorkerStepType
  <2> QED BY <2>6, <2>7
<1>4. CASE Label(p, r)
  <2> DEFINE v    == base[p][r]
             read == log[r][v]
  <2>1. v \in 1..Len(log[r])
    BY <1>4, LogIsSequences DEF Label, TypeOK, WorkOK
  <2>2. [read EXCEPT !.label = p] \in Object
    BY <2>1, LogIsSequences DEF Object
  <2>3. log' = log \/ log' = Updated(r, v, [read EXCEPT !.label = p])
    BY <1>4 DEF Label, LabelManifest, LabelReport
  <2>4. Grows
    BY <2>2, <2>3, UpdateGrows, StillGrows
  <2>5. /\ UNCHANGED <<edits, endpoints, life, viewVars, queue, series, todo, faults>>
        /\ Return(p, r, TRUE)
    BY <1>4 DEF Label
  <2> QED BY <2>4, <2>5, ReturnType DEF TypeOK, ApiOK, WorkOK
<1>5. CASE CallFails(p, r)
  <2>1. Grows
    BY <1>5, StillGrows DEF CallFails, apiVars
  <2>2. /\ UNCHANGED <<edits, endpoints, life, viewVars, queue, series, todo>>
        /\ Fault(p)
        /\ Return(p, r, TRUE)
    BY <1>5 DEF CallFails, Retry, apiVars
  <2>3. faults' \in Nat
    BY <2>2, FaultType
  <2> QED BY <2>1, <2>2, <2>3, ReturnType DEF TypeOK, WorkOK
<1> QED BY <1>1, <1>2, <1>3, <1>4, <1>5

\* No reachable state is ill-typed, for any number of pods and reports.
THEOREM TypeCorrect == Spec => []TypeOK
<1>1. Init => TypeOK
  <2> SUFFICES ASSUME Init PROVE TypeOK
    OBVIOUS
  <2>1. ASSUME NEW o \in Found PROVE o \in Object
    <3>1. CASE o = Absent
      BY <3>1, AbsentIsObject
    <3>2. CASE o # Absent
      <4>1. o \in [spec : {1}, label : {NoLabel, NilLabels},
                   finalizer : BOOLEAN, deleting : {FALSE}]
        BY <3>2, FoundAssumption, Zenon
      <4>2. /\ {1} \subseteq Nat
            /\ {NoLabel, NilLabels} \subseteq Pods \cup {NoLabel, NilLabels}
            /\ {FALSE} \subseteq BOOLEAN
        OBVIOUS
      <4> QED BY <4>1, <4>2 DEF Object
    <3> QED BY <3>1, <3>2
  <2>2. ApiOK
    <3>1. log \in [Reports -> Seq(Object)] /\ \A r \in Reports : log[r] # <<>>
      <4>1. \A o \in Found : <<o>> \in Seq(Object) /\ <<o>> # <<>>
        BY <2>1
      <4> QED BY <4>1 DEF Init
    <3>2. endpoints \in Seq(SUBSET Pods) /\ endpoints # <<>>
      BY DEF Init
    <3> QED BY <3>1, <3>2 DEF Init, ApiOK
  <2>3. \A r \in Reports : Len(log[r]) = 1
    BY DEF Init
  <2>4. PodOK
    BY <2>3 DEF Init, PodOK
  <2>5. WorkOK
    BY <2>3 DEF Init, WorkOK
  <2> QED BY <2>2, <2>4, <2>5 DEF TypeOK
<1>2. TypeOK /\ [Next]_vars => TypeOK'
  <2> SUFFICES ASSUME TypeOK, [Next]_vars PROVE TypeOK'
    OBVIOUS
  <2>1. CASE Next
    BY <2>1, ScannerType, EndpointsType, LifecycleType, ShutdownType, WatchType,
       ReconcileType DEF Next
  <2>2. CASE UNCHANGED vars
    BY <2>2 DEF vars, apiVars, viewVars, workVars, TypeOK, ApiOK, PodOK, WorkOK, Working
  <2> QED BY <2>1, <2>2
<1> QED BY <1>1, <1>2, PTL DEF Spec

=============================================================================
