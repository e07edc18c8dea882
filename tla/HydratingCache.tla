---------------------------- MODULE HydratingCache ----------------------------
(***************************************************************************)
(* The read-through cache of one exporter pod for Kubescape manifests      *)
(* (utils/hydrating_cache.go) and the two that read through it.            *)
(*                                                                         *)
(* The lists and watches that fill the base cache may leave the payload of *)
(* a manifest out.  Get then takes the manifest from the detail store, if  *)
(* the store has the resource version of the cached object, and else from  *)
(* the API server, which may be ahead of the base cache, and stores it.    *)
(*                                                                         *)
(* Only one goroutine at a time calls Get for manifests: the only worker   *)
(* of their controller, and when mgr.Start has returned the shutdown hook. *)
(* Both write the object that they got back, with another label.           *)
(***************************************************************************)
EXTENDS Naturals, Sequences

CONSTANTS
  Names,      \* namespaced names of manifests
  Me,         \* the IP of this pod
  Other,      \* the IP of another pod
  Cleared,    \* the shard-owner label is ""
  Missing,    \* there is no shard-owner label
  None,       \* no object, no call
  MaxChanges  \* bound: writes of others, stops, crashes and failed calls

ASSUME LabelsDiffer == Missing \notin {Me, Other, Cleared} /\ Me \notin {Other, Cleared}
ASSUME ChangesAssumption == MaxChanges \in Nat
ASSUME NoneAssumption == None \notin [name : Names, since : Nat]

VARIABLES
  log,      \* API server: log[n] is the sequence of versions of manifest n
  changes,  \* number of events so far
  phase,    \* pod: down, running, stopping (workers finish) or releasing
  seen,     \* base cache: the version that it has, 0 before the first list
  full,     \* base cache: whether that object came with a payload
  store,    \* detail store: the hydrated object of a name, or None
  asked,    \* Get waits for the API server: name, cached object, else None
  held,     \* the object that Get returned and that will be written back
  todo,     \* shutdown hook: the manifests it has still to release
  latest    \* history: the latest version of each manifest that Get returned

podVars == <<seen, full, store, asked, held, todo, latest>>
vars    == <<log, changes, phase, podVars>>

-----------------------------------------------------------------------------
(* Manifests.  payload stands for Spec.Payload.Matches; 0 is an empty one,  *)
(* be it that the scan found nothing or that the list left it out.          *)

Label == {Me, Other, Cleared, Missing}
Version == [exists : BOOLEAN, payload : Nat, label : Label]
Absent == [exists |-> FALSE, payload |-> 0, label |-> Missing]

\* An object in memory, with the name and the resource version it came with.
InMemory(n, v, payload, label) ==
  [name |-> n, version |-> v, payload |-> payload, label |-> label]

Current(n) == log[n][Len(log[n])]

Cached(n) ==
  LET o == log[n][seen[n]]
  IN  InMemory(n, seen[n], IF full[n] THEN o.payload ELSE 0, o.label)

Exists(n) == seen[n] # 0 /\ log[n][seen[n]].exists

\* The API server takes the object only as the successor of the last version.
Updated(o, label) ==
  IF o.version = Len(log[o.name]) /\ Current(o.name).exists
  THEN [log EXCEPT ![o.name] =
          Append(@, [exists |-> TRUE, payload |-> o.payload, label |-> label])]
  ELSE log

-----------------------------------------------------------------------------
\* What a manifest is like at first.
Found == {Absent} \cup {[exists |-> TRUE, payload |-> p, label |-> Missing] : p \in {0, 1}}

Init ==
  /\ log \in [Names -> {<<o>> : o \in Found}]
  /\ changes = 0
  /\ phase = "running"
  /\ seen = [n \in Names |-> 0]
  /\ full = [n \in Names |-> FALSE]
  /\ store = [n \in Names |-> None]
  /\ asked = None
  /\ held = None
  /\ todo = {}
  /\ latest = [n \in Names |-> 0]

Event == changes < MaxChanges /\ changes' = changes + 1

\* Kubescape creates or rewrites a manifest, with or without its labels,
\* or deletes it.
Scan(n) ==
  /\ Event
  /\ \E payload \in {0, changes + 2}, label \in {Current(n).label, Missing} :
       log' = [log EXCEPT ![n] =
                 Append(@, [exists |-> TRUE, payload |-> payload, label |-> label])]
  /\ UNCHANGED <<phase, podVars>>

Delete(n) ==
  /\ Event
  /\ Current(n).exists
  /\ log' = [log EXCEPT ![n] = Append(@, Absent)]
  /\ UNCHANGED <<phase, podVars>>

\* Another pod, which the ring has made the owner for a while.
OtherLabels(n) ==
  /\ Event
  /\ Current(n).exists
  /\ log' = [log EXCEPT ![n] = Append(@, [Current(n) EXCEPT !.label = Other])]
  /\ UNCHANGED <<phase, podVars>>

\* The base cache lists or watches, possibly past several versions at once.
Deliver(n) ==
  /\ phase \in {"running", "stopping"}
  /\ \E v \in (seen[n] + 1)..Len(log[n]) :
       /\ seen' = [seen EXCEPT ![n] = v]
       /\ \E whole \in {log[n][v].payload # 0, FALSE} : full' = [full EXCEPT ![n] = whole]
  /\ UNCHANGED <<log, changes, phase, store, asked, held, todo, latest>>

-----------------------------------------------------------------------------
(* Get.                                                                     *)

Idle == asked = None /\ held = None

NeedsHydration(o) == o.payload = 0

\* The store has the resource version of the cached object.
Remembered(n) == store[n] # None  \* mutation: any entry of the name will do
Fresh(n) == store[n] # None /\ store[n].version = seen[n]

Returns(o) ==
  /\ held' = o
  /\ latest' = [latest EXCEPT ![o.name] = IF o.version > @ THEN o.version ELSE @]

\* From the base cache and the detail store.
GetLocally(n) ==
  /\ Idle
  /\ Exists(n)
  /\ \/ ~NeedsHydration(Cached(n)) /\ Returns(Cached(n))
     \/ NeedsHydration(Cached(n)) /\ Fresh(n) /\ Returns(store[n])
  /\ UNCHANGED <<log, changes, phase, seen, full, store, asked, todo>>

GetAsks(n) ==
  /\ Idle
  /\ Exists(n)
  /\ NeedsHydration(Cached(n)) /\ ~Fresh(n)
  /\ asked' = Cached(n)
  /\ UNCHANGED <<log, changes, phase, seen, full, store, held, todo, latest>>

\* The answer is decoded into the object that the base cache has filled: it
\* overwrites every field that it has, and a label that it does not have stays.
Decoded(into, v) ==
  LET o == log[into.name][v]
  IN  InMemory(into.name, v, o.payload,
               IF o.label = Missing THEN into.label ELSE o.label)

\* The detail store with an answer, under its name.
NotStored(o) == store  \* mutation: the answer is not stored
Stored(o) == [store EXCEPT ![o.name] = o]

ApiAnswers ==
  /\ asked # None
  /\ Current(asked.name).exists
  /\ LET o == Decoded(asked, Len(log[asked.name]))
     IN  Returns(o) /\ store' = Stored(o)
  /\ asked' = None
  /\ UNCHANGED <<log, changes, phase, seen, full, todo>>

\* A name that the hook has dealt with, or any name of the worker.
Done(n) == todo' = todo \ {n}

\* The manifest is gone, or the call fails: the error is returned.
ApiFails ==
  /\ asked # None
  /\ IF Current(asked.name).exists THEN Event ELSE UNCHANGED changes
  /\ asked' = None
  /\ Done(asked.name)
  /\ UNCHANGED <<log, phase, seen, full, store, held, latest>>

-----------------------------------------------------------------------------
(* The worker and the hook.                                                 *)

Reconcile(n) == phase = "running" /\ (GetLocally(n) \/ GetAsks(n))

\* The label is written only if it is another one; what Get returned is sent.
Unowned(o) ==  \* mutation: another pod's label is left
  IF o.label \in {Missing, Cleared} THEN Updated(o, Me) ELSE log
Labelled(o) == IF o.label # Me THEN Updated(o, Me) ELSE log

WriteLabel ==
  /\ phase \in {"running", "stopping"}
  /\ held # None
  /\ log' = Labelled(held)
  /\ held' = None
  /\ UNCHANGED <<changes, phase, seen, full, store, asked, todo, latest>>

Stop ==
  /\ phase = "running"
  /\ Event
  /\ phase' = "stopping"
  /\ UNCHANGED <<log, podVars>>

\* mgr.Start returns when the worker has, and the hook lists what the base
\* cache has with this pod's label.
NotAwaited == TRUE  \* mutation: the hook does not wait for mgr.Start
WorkerIdle == Idle

ListOwned ==
  /\ phase = "stopping"
  /\ WorkerIdle
  /\ phase' = "releasing"
  /\ todo' = {n \in Names : Exists(n) /\ Cached(n).label = Me}
  /\ UNCHANGED <<log, changes, seen, full, store, asked, held, latest>>

Release(n) ==
  /\ phase = "releasing"
  /\ n \in todo
  /\ GetLocally(n) \/ GetAsks(n)

\* The object of Get, not the item of the list, is changed and sent.
ListItem(o) == Updated(Cached(o.name), Cleared)  \* mutation: the item is sent
Unlabelled(o) == IF o.label = Me THEN Updated(o, Cleared) ELSE log

ClearLabel ==
  /\ phase = "releasing"
  /\ held # None
  /\ log' = Unlabelled(held)
  /\ held' = None
  /\ Done(held.name)
  /\ UNCHANGED <<changes, phase, seen, full, store, asked, latest>>

\* Update fails for another reason than a conflict: it is logged.
UpdateFails ==
  /\ held # None
  /\ Event
  /\ held' = None
  /\ Done(held.name)
  /\ UNCHANGED <<log, phase, seen, full, store, asked, latest>>

\* The process ends, after the hook or at any time, and starts again.
Ends ==
  /\ phase' = "down"
  /\ seen' = [n \in Names |-> 0]
  /\ full' = [n \in Names |-> FALSE]
  /\ store' = [n \in Names |-> None]
  /\ asked' = None
  /\ held' = None
  /\ todo' = {}
  /\ latest' = [n \in Names |-> 0]
  /\ UNCHANGED log

Exit == phase = "releasing" /\ todo = {} /\ Idle /\ Ends /\ UNCHANGED changes

Crash == phase # "down" /\ Event /\ Ends

Start ==
  /\ phase = "down"
  /\ phase' = "running"
  /\ UNCHANGED <<log, changes, podVars>>

Next ==
  \/ \E n \in Names : Scan(n) \/ Delete(n) \/ OtherLabels(n) \/ Deliver(n)
  \/ \E n \in Names : Reconcile(n) \/ Release(n)
  \/ ApiAnswers \/ ApiFails
  \/ WriteLabel \/ ClearLabel \/ UpdateFails
  \/ Stop \/ ListOwned \/ Exit \/ Crash \/ Start

Spec == Init /\ [][Next]_vars

\* The watch delivers, a call returns, every manifest is reconciled again and
\* again (its timer), whatever else the worker does in between.
Fairness ==
  /\ \A n \in Names : WF_vars(Deliver(n)) /\ SF_vars(Reconcile(n)) /\ WF_vars(Release(n))
  /\ WF_vars(ApiAnswers \/ (ApiFails /\ UNCHANGED changes))
  /\ WF_vars(WriteLabel \/ ClearLabel)
  /\ WF_vars(ListOwned \/ Exit)

FairSpec == Spec /\ Fairness

-----------------------------------------------------------------------------
(* Properties.                                                              *)

Objects(n) == [name : {n}, version : 1..Len(log[n]), payload : Nat, label : Label]

\* Every variable has its type; no call is under way while the pod is down or
\* between the worker and the hook.
TypeOK ==
  /\ log \in [Names -> Seq(Version)]
  /\ changes \in 0..MaxChanges
  /\ phase \in {"down", "running", "stopping", "releasing"}
  /\ full \in [Names -> BOOLEAN]
  /\ {seen, latest} \subseteq [Names -> Nat] /\ DOMAIN store = Names
  /\ todo \subseteq Names
  /\ \A n \in Names :
       /\ log[n] # <<>>
       /\ {seen[n], latest[n]} \subseteq 0..Len(log[n])
       /\ store[n] \in Objects(n) \cup {None}
  /\ \A o \in {asked, held} \ {None} : o.name \in Names /\ o \in Objects(o.name)
  /\ asked = None \/ held = None
  /\ phase = "down" => Idle
  /\ phase = "releasing" => {o.name : o \in {asked, held} \ {None}} \subseteq todo

\* What the two readers may rely on: see VersionedReads.
Promise == INSTANCE VersionedReads WITH
  asked <- IF asked = None THEN None
           ELSE [name |-> asked.name, since |-> asked.version]

ReadsAreVersions == Promise!Spec

\* A Get that hydrates never goes back: what it returns is at least as new as
\* all that Get has returned of this manifest, and as what the base cache has.
\* So an entry of the detail store that is behind is never used, and one that
\* is ahead of the base cache does not bring older series back.
HydratedReadsAdvance ==
  [][held = None /\ held' # None =>
       LET n == held'.name
       IN  (asked # None \/ NeedsHydration(Cached(n))) =>
             held'.version >= latest[n] /\ held'.version >= seen[n]]_vars

\* "Get from the API server or a local detail store": when the manifests do
\* not change any more, and the pod runs, the API server is left alone.
Quiet == phase = "running" /\ \A n \in Names : seen[n] = Len(log[n])

ApiReadsCease == <>[]Quiet => <>[](asked = None)

\* When nothing else changes, every manifest carries this pod's label; but not
\* where a hydrated object has kept a label that its version does not have.
Misled(n) ==
  store[n] # None /\ store[n].label # log[n][store[n].version].label

LabelSettles ==
  \A n \in Names :
    <>[](phase = "running" /\ changes = MaxChanges) =>
      <>[](Current(n).exists => Current(n).label = Me \/ Misled(n))

=============================================================================
