------------------------ MODULE HydratingCacheProofs ------------------------
(***************************************************************************)
(* Theorems about HydratingCache, for any manifests and any number of      *)
(* events: type correctness, that reads that hydrate never go back, and    *)
(* that the cache implements VersionedReads.                               *)
(***************************************************************************)
EXTENDS HydratingCache, TLAPS

(* Versions are only ever added.                                            *)

Grows ==
  /\ log' \in [Names -> Seq(Version)]
  /\ \A n \in Names :
       /\ Len(log'[n]) >= Len(log[n])
       /\ \A i \in 1..Len(log[n]) : log'[n][i] = log[n][i]

LEMMA LogIsSequences ==
  ASSUME TypeOK, NEW n \in Names
  PROVE  /\ log[n] \in Seq(Version) /\ Len(log[n]) \in Nat \ {0}
         /\ Current(n) \in Version
         /\ \A i \in 1..Len(log[n]) : log[n][i] \in Version
<1>1. log[n] \in Seq(Version) /\ log[n] # <<>>
  BY DEF TypeOK
<1>2. Len(log[n]) \in Nat \ {0}
  BY <1>1
<1> QED BY <1>1, <1>2 DEF Current

LEMMA AppendGrows ==
  ASSUME TypeOK, NEW n \in Names, NEW o \in Version,
         log' = [log EXCEPT ![n] = Append(@, o)]
  PROVE  Grows
<1>1. \A m \in Names : log[m] \in Seq(Version)
  BY LogIsSequences
<1>2. log' \in [Names -> Seq(Version)]
  BY <1>1 DEF TypeOK
<1>3. ASSUME NEW m \in Names
      PROVE  /\ Len(log'[m]) >= Len(log[m])
             /\ \A i \in 1..Len(log[m]) : log'[m][i] = log[m][i]
  <2>1. CASE m = n
    <3>1. log'[m] = Append(log[m], o)
      BY <2>1 DEF TypeOK
    <3> QED BY <1>1, <3>1
  <2>2. CASE m # n
    BY <1>1, <2>2 DEF TypeOK
  <2> QED BY <2>1, <2>2
<1> QED BY <1>2, <1>3 DEF Grows

LEMMA SameGrows == ASSUME TypeOK, log' = log PROVE Grows
BY LogIsSequences DEF TypeOK, Grows

LEMMA UpdateGrows ==
  ASSUME TypeOK, NEW n \in Names, NEW o \in Objects(n), NEW label \in Label,
         log' = Updated(o, label)
  PROVE  Grows
<1>1. o.name = n /\ o.payload \in Nat
  BY DEF Objects
<1>2. [exists |-> TRUE, payload |-> o.payload, label |-> label] \in Version
  BY <1>1 DEF Version
<1> QED BY <1>1, <1>2, AppendGrows, SameGrows DEF Updated

LEMMA HeldIsObject ==
  ASSUME TypeOK
  PROVE  /\ asked # None => asked.name \in Names /\ asked \in Objects(asked.name)
         /\ held # None => held.name \in Names /\ held \in Objects(held.name)
BY DEF TypeOK

LEMMA NextGrows == ASSUME TypeOK, [Next]_vars PROVE Grows
<1>1. Me \in Label /\ Other \in Label /\ Cleared \in Label /\ Missing \in Label
  BY DEF Label
<1>2. ASSUME NEW n \in Names, Scan(n) PROVE Grows
  <2>1. PICK payload \in {0, changes + 2}, label \in {Current(n).label, Missing} :
          log' = [log EXCEPT ![n] =
                    Append(@, [exists |-> TRUE, payload |-> payload, label |-> label])]
    BY <1>2 DEF Scan
  <2>2. payload \in Nat /\ label \in Label
    <3>1. changes + 2 \in Nat
      BY ChangesAssumption DEF TypeOK
    <3>2. Current(n).label \in Label
      BY LogIsSequences DEF Version
    <3> QED BY <1>1, <3>1, <3>2
  <2>3. [exists |-> TRUE, payload |-> payload, label |-> label] \in Version
    BY <2>2 DEF Version
  <2> QED BY <2>1, <2>3, AppendGrows
<1>3. ASSUME NEW n \in Names, Delete(n) PROVE Grows
  <2>1. Absent \in Version
    BY <1>1 DEF Absent, Version
  <2> QED BY <1>3, <2>1, AppendGrows DEF Delete
<1>4. ASSUME NEW n \in Names, OtherLabels(n) PROVE Grows
  <2>1. [Current(n) EXCEPT !.label = Other] \in Version
    BY <1>1, LogIsSequences DEF Version
  <2> QED BY <1>4, <2>1, AppendGrows DEF OtherLabels
<1>5. CASE WriteLabel
  BY <1>1, <1>5, HeldIsObject, UpdateGrows, SameGrows DEF WriteLabel, Labelled
<1>6. CASE ClearLabel
  BY <1>1, <1>6, HeldIsObject, UpdateGrows, SameGrows DEF ClearLabel, Unlabelled
<1>7. ASSUME log' = log PROVE Grows
  BY <1>7, SameGrows
<1>8. ASSUME NEW n \in Names, Deliver(n) \/ Reconcile(n) \/ Release(n) PROVE Grows
  BY <1>7, <1>8 DEF Deliver, Reconcile, Release, GetLocally, GetAsks
<1>9. CASE ApiAnswers \/ ApiFails \/ UpdateFails
  BY <1>7, <1>9 DEF ApiAnswers, ApiFails, UpdateFails
<1>10. CASE Stop \/ ListOwned \/ Exit \/ Crash \/ Start \/ UNCHANGED vars
  BY <1>7, <1>10 DEF Stop, ListOwned, Exit, Crash, Start, Ends, vars
<1> QED
  BY <1>2, <1>3, <1>4, <1>5, <1>6, <1>8, <1>9, <1>10 DEF Next

-----------------------------------------------------------------------------
(* Type correctness.                                                        *)

Phases == {"down", "running", "stopping", "releasing"}

LEMMA ObjectsKept ==
  ASSUME TypeOK, Grows, NEW n \in Names
  PROVE  /\ log'[n] # <<>>
         /\ Objects(n) \subseteq Objects(n)'
         /\ 0..Len(log[n]) \subseteq 0..Len(log'[n])
<1>1. Len(log[n]) \in Nat \ {0} /\ Len(log'[n]) \in Nat /\ Len(log'[n]) >= Len(log[n])
  BY LogIsSequences DEF Grows
<1> QED BY <1>1 DEF Objects

LEMMA CachedIsObject ==
  ASSUME TypeOK, NEW n \in Names, Exists(n)
  PROVE  /\ Cached(n) \in Objects(n)
         /\ Cached(n).version = seen[n]
         /\ seen[n] \in 1..Len(log[n])
<1>1. seen[n] \in 1..Len(log[n])
  BY LogIsSequences DEF TypeOK, Exists
<1>2. log[n][seen[n]] \in Version
  BY <1>1, LogIsSequences
<1> QED BY <1>1, <1>2 DEF Cached, InMemory, Objects, Version

\* The steps that leave a call as it is.
LEMMA CallKept ==
  ASSUME TypeOK, Grows, changes' \in 0..MaxChanges,
         UNCHANGED <<seen, full, store, asked, held, todo, latest>>,
         phase' \in {phase, "stopping"}, phase' = "stopping" => phase \in {"running", "stopping"}
  PROVE  TypeOK'
<1>1. \A n \in Names :
        /\ log'[n] # <<>>
        /\ {seen'[n], latest'[n]} \subseteq 0..Len(log'[n])
        /\ store'[n] \in Objects(n)' \cup {None}
  BY ObjectsKept DEF TypeOK
<1>2. \A o \in {asked', held'} \ {None} : o.name \in Names /\ o \in Objects(o.name)'
  BY ObjectsKept DEF TypeOK
<1> QED BY <1>1, <1>2 DEF TypeOK, Grows, Idle

\* The steps that end a call, or begin or end without one.
LEMMA CallEnded ==
  ASSUME TypeOK, Grows, changes' \in 0..MaxChanges, phase' \in Phases,
         UNCHANGED <<seen, full, store, latest>>, Idle', todo' \subseteq Names
  PROVE  TypeOK'
<1>1. \A n \in Names :
        /\ log'[n] # <<>>
        /\ {seen'[n], latest'[n]} \subseteq 0..Len(log'[n])
        /\ store'[n] \in Objects(n)' \cup {None}
  BY ObjectsKept DEF TypeOK
<1>2. {asked', held'} \ {None} = {}
  BY DEF Idle
<1> QED BY <1>1, <1>2 DEF TypeOK, Grows, Idle, Phases

LEMMA ReturnedType ==
  ASSUME TypeOK, NEW n \in Names, NEW o \in Objects(n), Returns(o),
         phase # "down", phase = "releasing" => n \in todo,
         asked' = None, store' \in {store, [store EXCEPT ![n] = o]},
         UNCHANGED <<log, changes, phase, seen, full, todo>>
  PROVE  TypeOK'
<1>1. o.name = n /\ o.version \in 1..Len(log[n])
  BY DEF Objects
<1>2. ASSUME NEW m \in Names
      PROVE  /\ log[m] # <<>>
             /\ {seen[m], latest'[m]} \subseteq 0..Len(log[m])
             /\ store'[m] \in Objects(m) \cup {None}
  <2>1. latest'[m] \in {latest[m], o.version} /\ (m # n => latest'[m] = latest[m])
    BY <1>1 DEF Returns, TypeOK
  <2>2. store'[m] = store[m] \/ (m = n /\ store'[m] = o)
    BY DEF TypeOK
  <2> QED BY <1>1, <2>1, <2>2 DEF TypeOK
<1>3. \A m \in Names : Objects(m)' = Objects(m)
  BY DEF Objects
<1>4. {asked', held'} \ {None} \subseteq {o}
  BY DEF Returns
<1>5. \A c \in {asked', held'} \ {None} : c.name \in Names /\ c \in Objects(c.name)'
  BY <1>1, <1>3, <1>4
<1>6. latest' \in [Names -> Nat] /\ DOMAIN store' = Names
  BY <1>1, LogIsSequences DEF TypeOK, Returns
<1>7. phase = "releasing" => {c.name : c \in {asked', held'} \ {None}} \subseteq todo
  BY <1>1, <1>4
<1> QED BY <1>2, <1>3, <1>5, <1>6, <1>7 DEF TypeOK

LEMMA DecodedIsObject ==
  ASSUME TypeOK, asked # None
  PROVE  /\ asked.name \in Names
         /\ Decoded(asked, Len(log[asked.name])) \in Objects(asked.name)
<1>1. asked.name \in Names /\ asked.label \in Label
  BY HeldIsObject DEF Objects
<1>2. Len(log[asked.name]) \in 1..Len(log[asked.name])
  BY <1>1, LogIsSequences
<1>3. log[asked.name][Len(log[asked.name])] \in Version
  BY <1>1, <1>2, LogIsSequences
<1> QED BY <1>1, <1>2, <1>3 DEF Decoded, InMemory, Objects, Version

\* What GetLocally returns, and from where.
LEMMA LocalAnswer ==
  ASSUME TypeOK, NEW n \in Names, GetLocally(n)
  PROVE  \E o \in Objects(n) :
           /\ Returns(o)
           /\ \/ o = Cached(n) /\ ~NeedsHydration(Cached(n))
              \/ o = store[n] /\ Fresh(n) /\ NeedsHydration(Cached(n))
<1>1. CASE ~NeedsHydration(Cached(n)) /\ Returns(Cached(n))
  BY <1>1, CachedIsObject DEF GetLocally
<1>2. CASE NeedsHydration(Cached(n)) /\ Fresh(n) /\ Returns(store[n])
  BY <1>2 DEF Fresh, TypeOK
<1> QED BY <1>1, <1>2 DEF GetLocally

LEMMA GetLocallyType ==
  ASSUME TypeOK, NEW n \in Names, GetLocally(n),
         phase # "down", phase = "releasing" => n \in todo
  PROVE  TypeOK'
<1>1. PICK o \in Objects(n) : Returns(o)
  BY LocalAnswer
<1>2. asked' = None /\ UNCHANGED <<log, changes, phase, seen, full, store, todo>>
  BY DEF GetLocally, Idle
<1> QED BY <1>1, <1>2, ReturnedType

LEMMA GetAsksType ==
  ASSUME TypeOK, NEW n \in Names, GetAsks(n),
         phase # "down", phase = "releasing" => n \in todo
  PROVE  TypeOK'
<1>1. Cached(n) \in Objects(n) /\ Cached(n).name = n
  BY CachedIsObject DEF GetAsks, Cached, InMemory
<1>2. /\ asked' = Cached(n) /\ held' = None
      /\ UNCHANGED <<log, changes, phase, seen, full, store, todo, latest>>
  BY DEF GetAsks, Idle
<1>3. \A m \in Names : Objects(m)' = Objects(m)
  BY <1>2 DEF Objects
<1>4. {asked', held'} \ {None} \subseteq {Cached(n)}
  BY <1>2
<1>5. \A c \in {asked', held'} \ {None} : c.name \in Names /\ c \in Objects(c.name)'
  BY <1>1, <1>3, <1>4
<1>6. phase = "releasing" => {c.name : c \in {asked', held'} \ {None}} \subseteq todo
  BY <1>1, <1>4
<1> QED BY <1>2, <1>3, <1>5, <1>6 DEF TypeOK

LEMMA ApiAnswersType == ASSUME TypeOK, ApiAnswers PROVE TypeOK'
<1> DEFINE n == asked.name
           o == Decoded(asked, Len(log[n]))
<1>1. n \in Names /\ o \in Objects(n) /\ o.name = n
  BY DecodedIsObject DEF ApiAnswers, Decoded, InMemory
<1>2. Returns(o) /\ store' = [store EXCEPT ![n] = o]
  BY <1>1 DEF ApiAnswers, Stored
<1>3. phase # "down" /\ (phase = "releasing" => n \in todo)
  BY DEF ApiAnswers, TypeOK, Idle
<1>4. asked' = None /\ UNCHANGED <<log, changes, phase, seen, full, todo>>
  BY DEF ApiAnswers
<1> HIDE DEF n, o
<1> QED BY <1>1, <1>2, <1>3, <1>4, ReturnedType

LEMMA DeliverType == ASSUME TypeOK, NEW n \in Names, Deliver(n) PROVE TypeOK'
<1>1. PICK v \in (seen[n] + 1)..Len(log[n]) : seen' = [seen EXCEPT ![n] = v]
  BY DEF Deliver
<1>2. v \in 0..Len(log[n]) /\ v \in Nat
  BY <1>1, LogIsSequences DEF TypeOK
<1>3. full' \in [Names -> BOOLEAN]
  BY LogIsSequences DEF Deliver, TypeOK
<1>4. UNCHANGED <<log, changes, phase, store, asked, held, todo, latest>>
  BY DEF Deliver
<1>5. \A m \in Names : seen'[m] \in 0..Len(log[m]) /\ Objects(m)' = Objects(m)
  BY <1>1, <1>2, <1>4 DEF TypeOK, Objects
<1>6. seen' \in [Names -> Nat]
  BY <1>1, <1>2 DEF TypeOK
<1> QED BY <1>3, <1>4, <1>5, <1>6 DEF TypeOK, Idle

LEMMA EndsType == ASSUME TypeOK, Grows, changes' \in 0..MaxChanges, Ends PROVE TypeOK'
<1>1. \A n \in Names :
        /\ log'[n] # <<>>
        /\ {seen'[n], latest'[n]} \subseteq 0..Len(log'[n])
        /\ store'[n] \in Objects(n)' \cup {None}
  BY ObjectsKept, LogIsSequences DEF Ends
<1>2. Idle' /\ {asked', held'} \ {None} = {}
  BY DEF Ends, Idle
<1> QED BY <1>1, <1>2 DEF TypeOK, Ends, Grows

LEMMA InitType == ASSUME Init PROVE TypeOK
<1>1. Found \subseteq Version
  <2> SUFFICES ASSUME NEW o \in Found PROVE o \in Version
    OBVIOUS
  <2>1. PICK p \in Nat : o = Absent \/ o = [exists |-> TRUE, payload |-> p, label |-> Missing]
    BY DEF Found
  <2>2. Missing \in Label
    BY DEF Label
  <2>3. Absent \in Version /\ [exists |-> TRUE, payload |-> p, label |-> Missing] \in Version
    BY <2>2 DEF Absent, Version
  <2> QED BY <2>1, <2>3
<1>2. ASSUME NEW o \in Version PROVE <<o>> \in Seq(Version) /\ <<o>> # <<>> /\ Len(<<o>>) = 1
  OBVIOUS
<1>3. ASSUME NEW n \in Names
       PROVE  log[n] \in Seq(Version) /\ log[n] # <<>> /\ Len(log[n]) = 1
  <2>1. PICK o \in Found : log[n] = <<o>>
    BY DEF Init
  <2> QED BY <1>1, <1>2, <2>1
<1>4. \A n \in Names : seen[n] = 0 /\ latest[n] = 0 /\ store[n] = None
  BY DEF Init
<1>5. {asked, held} \ {None} = {} /\ Idle
  BY DEF Init, Idle
<1>6. log \in [Names -> Seq(Version)]
  BY <1>3 DEF Init
<1>7. \A n \in Names :
        /\ log[n] # <<>>
        /\ {seen[n], latest[n]} \subseteq 0..Len(log[n])
        /\ store[n] \in Objects(n) \cup {None}
  <2> TAKE n \in Names
  <2>1. 0 \in 0..Len(log[n])
    BY <1>3
  <2> QED BY <1>3, <1>4, <2>1, Zenon
<1>8. full \in [Names -> BOOLEAN] /\ {seen, latest} \subseteq [Names -> Nat]
  BY DEF Init
<1> QED BY <1>5, <1>6, <1>7, <1>8, ChangesAssumption DEF Init, TypeOK

LEMMA NextType == ASSUME TypeOK, [Next]_vars PROVE TypeOK'
<1>1. Grows
  BY NextGrows
<1>2. changes \in 0..MaxChanges /\ (Event => changes' \in 0..MaxChanges)
  BY ChangesAssumption DEF TypeOK, Event
<1>3. ASSUME NEW n \in Names, Scan(n) \/ Delete(n) \/ OtherLabels(n) PROVE TypeOK'
  <2>1. Event /\ UNCHANGED <<phase, seen, full, store, asked, held, todo, latest>>
    BY <1>3 DEF Scan, Delete, OtherLabels, podVars
  <2> QED BY <1>1, <1>2, <2>1, CallKept DEF TypeOK
<1>4. CASE Stop
  BY <1>1, <1>2, <1>4, CallKept DEF Stop, podVars
<1>5. ASSUME NEW n \in Names, Reconcile(n) \/ Release(n) PROVE TypeOK'
  BY <1>5, GetLocallyType, GetAsksType DEF Reconcile, Release
<1>6. CASE ApiFails
  <2>1. Idle'
    BY <1>6 DEF ApiFails, Idle, TypeOK
  <2>2. todo' \subseteq Names /\ phase' \in Phases /\ changes' \in 0..MaxChanges
    BY <1>2, <1>6 DEF ApiFails, Done, TypeOK, Phases
  <2> QED BY <1>1, <1>6, <2>1, <2>2, CallEnded DEF ApiFails
<1>7. CASE WriteLabel \/ ClearLabel \/ UpdateFails
  <2>1. Idle'
    BY <1>7 DEF WriteLabel, ClearLabel, UpdateFails, Idle, TypeOK
  <2>2. todo' \subseteq Names /\ phase' \in Phases /\ changes' \in 0..MaxChanges
    BY <1>2, <1>7 DEF WriteLabel, ClearLabel, UpdateFails, Done, TypeOK, Phases
  <2> QED BY <1>1, <1>7, <2>1, <2>2, CallEnded DEF WriteLabel, ClearLabel, UpdateFails
<1>8. CASE ListOwned \/ Start
  <2>1. Idle' /\ todo' \subseteq Names /\ phase' \in Phases
    BY <1>8 DEF ListOwned, WorkerIdle, Start, podVars, Idle, TypeOK, Phases
  <2> QED BY <1>1, <1>2, <1>8, <2>1, CallEnded DEF ListOwned, Start, podVars
<1>9. CASE Exit \/ Crash
  BY <1>1, <1>2, <1>9, EndsType DEF Exit, Crash
<1>10. CASE UNCHANGED vars
  <2>1. UNCHANGED <<changes, phase, seen, full, store, asked, held, todo, latest>>
    BY <1>10 DEF vars, podVars
  <2> QED BY <1>1, <1>2, <2>1, CallKept DEF TypeOK
<1> QED
  BY <1>3, <1>4, <1>5, <1>6, <1>7, <1>8, <1>9, <1>10, DeliverType, ApiAnswersType DEF Next

\* Type correctness, for any manifests and any number of events; and only one
\* call of Get is under way, none while the pod is down.
THEOREM HydrationTypeCorrect == Spec => []TypeOK
<1>1. Init => TypeOK
  BY InitType
<1>2. TypeOK /\ [Next]_vars => TypeOK'
  BY NextType
<1> QED BY <1>1, <1>2, PTL DEF Spec

-----------------------------------------------------------------------------
(* Reads that hydrate never go back.                                        *)

\* When Get has returned a version that the base cache does not have yet, the
\* detail store is as far, and so cannot be taken for what the base cache has.
ReadsTrail ==
  \A n \in Names :
    store[n] # None /\ latest[n] > seen[n] => store[n].version >= latest[n]

LEMMA TrailKept ==
  ASSUME TypeOK, ReadsTrail, UNCHANGED <<store, latest>>,
         seen' = seen \/ (\E n \in Names : Deliver(n))
  PROVE  ReadsTrail'
<1>1. \A n \in Names : seen[n] \in Nat /\ seen'[n] \in Nat /\ seen'[n] >= seen[n]
  <2>1. CASE \E n \in Names : Deliver(n)
    <3>1. PICK n \in Names : Deliver(n)
      BY <2>1
    <3>2. PICK v \in (seen[n] + 1)..Len(log[n]) : seen' = [seen EXCEPT ![n] = v]
      BY <3>1 DEF Deliver
    <3>3. \A m \in Names : seen[m] \in Nat
      BY DEF TypeOK
    <3>4. v \in Nat /\ v >= seen[n]
      BY <3>3, LogIsSequences
    <3> QED BY <3>2, <3>3, <3>4 DEF TypeOK
  <2>2. CASE seen' = seen
    BY <2>2 DEF TypeOK
  <2> QED BY <2>1, <2>2
<1>2. \A n \in Names : latest[n] \in Nat
  BY DEF TypeOK
<1> QED BY <1>1, <1>2 DEF ReadsTrail

LEMMA LocalTrail ==
  ASSUME TypeOK, ReadsTrail, NEW n \in Names, GetLocally(n)
  PROVE  /\ ReadsTrail'
         /\ held'.name = n
         /\ NeedsHydration(Cached(n)) => held'.version >= latest[n] /\ held'.version = seen[n]
<1>1. PICK o \in Objects(n) :
        /\ Returns(o)
        /\ \/ o = Cached(n) /\ ~NeedsHydration(Cached(n))
           \/ o = store[n] /\ Fresh(n) /\ NeedsHydration(Cached(n))
  BY LocalAnswer
<1>2. o.name = n /\ o.version = seen[n] /\ seen[n] \in Nat /\ latest[n] \in Nat
  BY <1>1, CachedIsObject DEF GetLocally, Fresh, Objects, TypeOK
<1>3. NeedsHydration(Cached(n)) => latest[n] <= seen[n]
  BY <1>1, <1>2 DEF ReadsTrail, Fresh
<1>4. held' = o /\ UNCHANGED <<seen, store>>
  BY <1>1 DEF Returns, GetLocally
<1>5. latest' = [latest EXCEPT ![n] = IF seen[n] > latest[n] THEN seen[n] ELSE latest[n]]
  BY <1>1, <1>2 DEF Returns, TypeOK
<1>6. \A m \in Names : latest'[m] = latest[m] \/ latest'[m] = seen[m]
  BY <1>5 DEF TypeOK
<1>7. ReadsTrail'
  <2> SUFFICES ASSUME NEW m \in Names, store[m] # None, latest'[m] > seen[m]
               PROVE  store[m].version >= latest'[m]
    BY <1>4 DEF ReadsTrail
  <2>1. seen[m] \in Nat /\ latest[m] \in Nat
    BY DEF TypeOK
  <2> QED BY <1>6, <2>1 DEF ReadsTrail
<1> QED BY <1>2, <1>3, <1>4, <1>7

LEMMA AnswerTrail ==
  ASSUME TypeOK, ReadsTrail, ApiAnswers
  PROVE  /\ ReadsTrail'
         /\ held'.name \in Names
         /\ held'.version >= latest[held'.name] /\ held'.version >= seen[held'.name]
<1> DEFINE n == asked.name
           o == Decoded(asked, Len(log[n]))
<1>1. n \in Names /\ o.name = n /\ o.version = Len(log[n]) /\ o \in Objects(n)
  BY DecodedIsObject DEF ApiAnswers, Decoded, InMemory
<1>2. Returns(o) /\ store' = [store EXCEPT ![n] = o] /\ seen' = seen
  BY <1>1 DEF ApiAnswers, Stored
<1>3. Len(log[n]) \in Nat /\ latest[n] \in 0..Len(log[n]) /\ seen[n] \in 0..Len(log[n])
  BY <1>1, LogIsSequences DEF TypeOK
<1> HIDE DEF n, o
<1>4. held' = o
  BY <1>2 DEF Returns
<1>5. ASSUME NEW m \in Names, store'[m] # None, latest'[m] > seen'[m]
      PROVE  store'[m].version >= latest'[m]
  <2>1. CASE m = n
    <3>1. store'[n] = o /\ latest'[n] <= o.version
      BY <1>1, <1>2, <1>3 DEF Returns, TypeOK
    <3> QED BY <1>1, <1>3, <2>1, <3>1, <1>2 DEF Returns, TypeOK
  <2>2. CASE m # n
    BY <1>1, <1>2, <1>5, <2>2 DEF Returns, TypeOK, ReadsTrail
  <2> QED BY <2>1, <2>2
<1> QED BY <1>1, <1>3, <1>4, <1>5 DEF ReadsTrail

LEMMA NextTrail == ASSUME TypeOK, ReadsTrail, [Next]_vars PROVE ReadsTrail'
<1>1. CASE UNCHANGED <<store, latest>> /\ (seen' = seen \/ \E n \in Names : Deliver(n))
  BY <1>1, TrailKept
<1>2. CASE \A n \in Names : store'[n] = None
  BY <1>2 DEF ReadsTrail
<1>3. ASSUME NEW n \in Names, Scan(n) \/ Delete(n) \/ OtherLabels(n) \/ GetAsks(n)
      PROVE  ReadsTrail'
  BY <1>1, <1>3 DEF Scan, Delete, OtherLabels, GetAsks, podVars
<1>4. ASSUME NEW n \in Names, Deliver(n) PROVE ReadsTrail'
  BY <1>1, <1>4 DEF Deliver
<1>5. ASSUME NEW n \in Names, Reconcile(n) \/ Release(n) PROVE ReadsTrail'
  BY <1>3, <1>5, LocalTrail DEF Reconcile, Release
<1>6. CASE ApiFails \/ WriteLabel \/ ClearLabel \/ UpdateFails
  BY <1>1, <1>6 DEF ApiFails, WriteLabel, ClearLabel, UpdateFails
<1>7. CASE Stop \/ ListOwned \/ Start \/ UNCHANGED vars
  BY <1>1, <1>7 DEF Stop, ListOwned, Start, vars, podVars
<1>8. CASE Exit \/ Crash
  BY <1>2, <1>8 DEF Exit, Crash, Ends
<1> QED
  BY <1>3, <1>4, <1>5, <1>6, <1>7, <1>8, AnswerTrail DEF Next

\* The only steps after which Get has returned something.
LEMMA OnlyGetReturns ==
  ASSUME TypeOK, [Next]_vars, held = None, held' # None
  PROVE  ApiAnswers \/ \E n \in Names : GetLocally(n)
<1>1. ASSUME NEW n \in Names PROVE ~(Scan(n) \/ Delete(n) \/ OtherLabels(n) \/ Deliver(n))
  BY DEF Scan, Delete, OtherLabels, Deliver, podVars
<1>2. ~(Stop \/ ListOwned \/ Start \/ Exit \/ Crash \/ UNCHANGED vars)
  BY DEF Stop, ListOwned, Start, Exit, Crash, Ends, vars, podVars
<1>3. ~(ApiFails \/ WriteLabel \/ ClearLabel \/ UpdateFails)
  BY DEF ApiFails, WriteLabel, ClearLabel, UpdateFails
<1>4. ASSUME NEW n \in Names, Reconcile(n) \/ Release(n) PROVE GetLocally(n)
  BY <1>4 DEF Reconcile, Release, GetAsks
<1> QED BY <1>1, <1>2, <1>3, <1>4 DEF Next

\* A Get that hydrates returns a version that is at least as new as all that it
\* has returned of the manifest and as what the base cache has.
THEOREM HydrationAdvances == Spec => HydratedReadsAdvance
<1>1. Init => ReadsTrail
  BY DEF Init, ReadsTrail
<1>2. TypeOK /\ ReadsTrail /\ [Next]_vars => ReadsTrail'
  BY NextTrail
<1>3. TypeOK /\ ReadsTrail /\ [Next]_vars =>
        [held = None /\ held' # None =>
           LET n == held'.name
           IN  (asked # None \/ NeedsHydration(Cached(n))) =>
                 held'.version >= latest[n] /\ held'.version >= seen[n]]_vars
  <2> SUFFICES ASSUME TypeOK, ReadsTrail, [Next]_vars, held = None, held' # None,
                      asked # None \/ NeedsHydration(Cached(held'.name))
               PROVE  held'.version >= latest[held'.name] /\ held'.version >= seen[held'.name]
    OBVIOUS
  <2>1. CASE ApiAnswers
    BY <2>1, AnswerTrail
  <2>2. ASSUME NEW n \in Names, GetLocally(n)
        PROVE  held'.version >= latest[held'.name] /\ held'.version >= seen[held'.name]
    <3>1. held'.name = n /\ asked = None /\ seen[n] \in Nat
      BY <2>2, LocalTrail DEF GetLocally, Idle, TypeOK
    <3> QED BY <2>2, <3>1, LocalTrail
  <2> QED BY <2>1, <2>2, OnlyGetReturns
<1> QED BY <1>1, <1>2, <1>3, HydrationTypeCorrect, PTL DEF Spec, HydratedReadsAdvance

-----------------------------------------------------------------------------
(* The refinement: what Get returns is a version, with all of its payload.  *)

CopyOf(o, n) ==
  /\ log[n][o.version].exists
  /\ o.payload = log[n][o.version].payload
  /\ o.label \in Promise!LabelsAt(n, o.version)

CopiesTrue ==
  /\ \A n \in Names : store[n] # None => CopyOf(store[n], n)
  /\ asked # None => asked.label = log[asked.name][asked.version].label

\* A copy stays one when versions are added.
LEMMA CopyKept ==
  ASSUME TypeOK, Grows, NEW n \in Names, NEW o \in Objects(n), CopyOf(o, n)
  PROVE  CopyOf(o, n)'
<1>1. o.version \in 1..Len(log[n]) /\ Len(log[n]) \in Nat
  BY LogIsSequences DEF Objects
<1>2. \A i \in 1..o.version : log'[n][i] = log[n][i]
  BY <1>1 DEF Grows
<1>3. {log'[n][i].label : i \in 1..o.version} = {log[n][i].label : i \in 1..o.version}
  BY <1>2
<1>4. log'[n][o.version] = log[n][o.version]
  BY <1>1, <1>2
<1> QED BY <1>3, <1>4 DEF CopyOf, Promise!LabelsAt

LEMMA CachedIsCopy ==
  ASSUME TypeOK, NEW n \in Names, Exists(n), ~NeedsHydration(Cached(n))
  PROVE  CopyOf(Cached(n), n)
<1>1. seen[n] \in 1..Len(log[n])
  BY CachedIsObject
<1>2. log[n][seen[n]].label \in Promise!LabelsAt(n, seen[n])
  BY <1>1, LogIsSequences DEF Promise!LabelsAt
<1> QED BY <1>2 DEF Cached, InMemory, Exists, NeedsHydration, CopyOf

LEMMA DecodedIsCopy ==
  ASSUME TypeOK, CopiesTrue, asked # None, Current(asked.name).exists
  PROVE  CopyOf(Decoded(asked, Len(log[asked.name])), asked.name)
<1> DEFINE n == asked.name
           v == Len(log[n])
<1>1. n \in Names /\ asked.version \in 1..v /\ v \in Nat \ {0}
  BY HeldIsObject, LogIsSequences DEF Objects
<1>2. asked.label = log[n][asked.version].label
  BY DEF CopiesTrue
<1>3. log[n][v].exists
  BY DEF Current
<1> HIDE DEF n, v
<1>4. Decoded(asked, v).label \in Promise!LabelsAt(n, v)
  <2>1. CASE log[n][v].label = Missing
    BY <1>1, <1>2, <2>1 DEF n, Decoded, InMemory, Promise!LabelsAt
  <2>2. CASE log[n][v].label # Missing
    BY <2>2 DEF n, Decoded, InMemory, Promise!LabelsAt
  <2> QED BY <2>1, <2>2
<1>5. CopyOf(Decoded(asked, v), n)
  BY <1>3, <1>4 DEF n, Decoded, InMemory, CopyOf
<1> QED BY <1>5 DEF n, v

LEMMA CopiesKept ==
  ASSUME TypeOK, Grows, CopiesTrue, asked' \in {asked, None},
         \A n \in Names : store'[n] \in {store[n], None}
  PROVE  CopiesTrue'
<1>1. ASSUME NEW n \in Names, store'[n] # None PROVE CopyOf(store[n], n)'
  <2>1. store'[n] = store[n] /\ store[n] \in Objects(n) /\ CopyOf(store[n], n)
    BY <1>1 DEF TypeOK, CopiesTrue
  <2>2. ASSUME NEW o, o = store[n] PROVE CopyOf(o, n)'
    BY <2>1, <2>2, CopyKept
  <2> QED BY <2>1, <2>2 DEF CopyOf, Promise!LabelsAt
<1>2. ASSUME asked' # None PROVE asked'.label = log'[asked'.name][asked'.version].label
  <2>1. asked.name \in Names /\ asked.version \in 1..Len(log[asked.name])
    BY <1>2, HeldIsObject DEF Objects
  <2>2. log'[asked.name][asked.version] = log[asked.name][asked.version]
    BY <2>1 DEF Grows
  <2> QED BY <1>2, <2>2 DEF CopiesTrue
<1> QED BY <1>1, <1>2 DEF CopiesTrue

LEMMA AnswerCopies == ASSUME TypeOK, CopiesTrue, ApiAnswers PROVE CopiesTrue'
<1> DEFINE n == asked.name
           o == Decoded(asked, Len(log[n]))
<1>1. n \in Names /\ CopyOf(o, n) /\ o.name = n
  BY HeldIsObject, DecodedIsCopy DEF ApiAnswers, Decoded, InMemory
<1>2. store' = [store EXCEPT ![n] = o] /\ asked' = None /\ log' = log
  BY <1>1 DEF ApiAnswers, Stored
<1> HIDE DEF n, o
<1>3. \A m \in Names : store'[m] = store[m] \/ (m = n /\ store'[m] = o)
  BY <1>2 DEF TypeOK
<1>4. \A m \in Names : store'[m] # None => CopyOf(store'[m], m)
  BY <1>1, <1>3 DEF CopiesTrue
<1>5. ASSUME NEW m \in Names, store'[m] # None PROVE CopyOf(store[m], m)'
  BY <1>2, <1>4, <1>5 DEF CopyOf, Promise!LabelsAt
<1> QED BY <1>2, <1>5 DEF CopiesTrue

LEMMA AskCopies ==
  ASSUME TypeOK, CopiesTrue, NEW n \in Names, GetAsks(n) PROVE CopiesTrue'
<1>1. asked' = Cached(n) /\ UNCHANGED <<log, store>>
  BY DEF GetAsks
<1>2. \A m \in Names : store[m] # None => CopyOf(store[m], m)'
  BY <1>1 DEF CopiesTrue, CopyOf, Promise!LabelsAt
<1>3. asked'.label = log'[asked'.name][asked'.version].label
  BY <1>1 DEF Cached, InMemory
<1> QED BY <1>1, <1>2, <1>3 DEF CopiesTrue, CopyOf, Promise!LabelsAt

LEMMA NextCopies == ASSUME TypeOK, CopiesTrue, [Next]_vars PROVE CopiesTrue'
<1>1. Grows
  BY NextGrows
<1>2. CASE asked' \in {asked, None} /\ \A n \in Names : store'[n] \in {store[n], None}
  BY <1>1, <1>2, CopiesKept
<1>3. ASSUME NEW n \in Names, Scan(n) \/ Delete(n) \/ OtherLabels(n) \/ Deliver(n)
      PROVE  CopiesTrue'
  BY <1>2, <1>3 DEF Scan, Delete, OtherLabels, Deliver, podVars
<1>4. ASSUME NEW n \in Names, Reconcile(n) \/ Release(n) PROVE CopiesTrue'
  BY <1>2, <1>4, AskCopies DEF Reconcile, Release, GetLocally
<1>5. CASE ApiFails \/ WriteLabel \/ ClearLabel \/ UpdateFails
  BY <1>2, <1>5 DEF ApiFails, WriteLabel, ClearLabel, UpdateFails
<1>6. CASE Stop \/ ListOwned \/ Start \/ Exit \/ Crash \/ UNCHANGED vars
  BY <1>2, <1>6 DEF Stop, ListOwned, Start, Exit, Crash, Ends, vars, podVars
<1> QED BY <1>3, <1>4, <1>5, <1>6, AnswerCopies DEF Next

LEMMA CopyAnswers ==
  ASSUME NEW n \in Names, NEW o \in Objects(n), CopyOf(o, n), NEW S, o.version \in S
  PROVE  o \in Promise!Answers(n, S)
<1> DEFINE v == o.version
           Alike(w) == [name : {n}, version : {w}, payload : {log[n][w].payload},
                        label : Promise!LabelsAt(n, w)]
<1>1. v \in {w \in S : log[n][w].exists}
  BY DEF CopyOf
<1>2. o = [name |-> o.name, version |-> v, payload |-> o.payload, label |-> o.label]
  BY DEF Objects
<1>3. o.name \in {n} /\ v \in {v} /\ o.payload \in {log[n][v].payload}
      /\ o.label \in Promise!LabelsAt(n, v)
  BY DEF Objects, CopyOf
<1>4. o \in Alike(v)
  BY <1>2, <1>3, Zenon
<1> HIDE DEF v, Alike
<1>5. o \in UNION {Alike(w) : w \in {w \in S : log[n][w].exists}}
  BY <1>1, <1>4
<1> QED BY <1>5, Zenon DEF Alike, Promise!Answers

LEMMA LocalRefines ==
  ASSUME TypeOK, CopiesTrue, NEW n \in Names, GetLocally(n) PROVE Promise!AnswerAtOnce
<1>1. PICK o \in Objects(n) :
        /\ Returns(o)
        /\ \/ o = Cached(n) /\ ~NeedsHydration(Cached(n))
           \/ o = store[n] /\ Fresh(n) /\ NeedsHydration(Cached(n))
  BY LocalAnswer
<1>2. Exists(n) /\ asked = None /\ held = None /\ UNCHANGED <<log, seen, asked>>
  BY DEF GetLocally, Idle
<1>3. o.version = seen[n] /\ CopyOf(o, n)
  BY <1>1, <1>2, CachedIsObject, CachedIsCopy DEF Fresh, CopiesTrue
<1>4. held' \in Promise!Answers(n, {seen[n]})
  BY <1>1, <1>3, CopyAnswers DEF Returns
<1>5. seen[n] # 0
  BY <1>2 DEF Exists
<1> QED BY <1>2, <1>4, <1>5 DEF Promise!AnswerAtOnce, Promise!Idle

\* The abstract read has the name and the version of the cached object.
LEMMA AskRefines ==
  ASSUME TypeOK, NEW n \in Names, GetAsks(n)
  PROVE  Promise!Ask \/ UNCHANGED Promise!vars
<1>1. /\ asked = None /\ held = None
      /\ asked' = Cached(n) /\ UNCHANGED <<log, seen, held>>
  BY DEF GetAsks, Idle
<1>2. Cached(n).name = n /\ Cached(n).version = seen[n]
  BY DEF Cached, InMemory
<1>3. CASE Cached(n) = None
  BY <1>1, <1>3 DEF Promise!vars
<1>4. CASE Cached(n) # None
  BY <1>1, <1>2, <1>4 DEF Promise!Ask, Promise!Idle
<1> QED BY <1>3, <1>4

LEMMA AnswerRefines ==
  ASSUME TypeOK, CopiesTrue, ApiAnswers PROVE Promise!Answer
<1> DEFINE n == asked.name
           o == Decoded(asked, Len(log[n]))
           read == [name |-> asked.name, since |-> asked.version]
<1>1. n \in Names /\ o \in Objects(n) /\ CopyOf(o, n) /\ asked.version \in 1..Len(log[n])
  BY HeldIsObject, DecodedIsObject, DecodedIsCopy DEF ApiAnswers, Objects
<1>2. o.version \in asked.version .. Len(log[n])
  BY <1>1, LogIsSequences DEF Decoded, InMemory
<1>3. read \in [name : Names, since : Nat]
  BY <1>1
<1>4. held' = o /\ asked # None /\ asked' = None /\ UNCHANGED <<log, seen>>
  BY DEF ApiAnswers, Returns
<1>5. o \in Promise!Answers(n, asked.version .. Len(log[n]))
  BY <1>1, <1>2, CopyAnswers
<1>6. read # None
  BY <1>3, NoneAssumption
<1>7. read.name = n /\ read.since = asked.version
  OBVIOUS
<1> HIDE DEF read, n, o
<1>8. (IF asked = None THEN None ELSE read) = read
  BY <1>4
<1>9. held' \in Promise!Answers(read.name, read.since .. Len(log[read.name]))
  BY <1>4, <1>5, <1>7
<1> QED BY <1>4, <1>6, <1>8, <1>9 DEF read, Promise!Answer

\* A write of what Get has returned, accepted or not.
LEMMA WriteRefines ==
  ASSUME TypeOK, held # None, NEW label \in Label,
         log' \in {log, Updated(held, label)}, held' = None, UNCHANGED <<seen, asked>>
  PROVE  Promise!Write \/ Promise!GiveUp
<1> DEFINE n == held.name
           new == [exists |-> TRUE, payload |-> held.payload, label |-> label]
<1>1. n \in Names /\ asked = None /\ asked' = None
  BY HeldIsObject DEF TypeOK
<1>2. CASE log' = log
  BY <1>1, <1>2 DEF Promise!GiveUp
<1>3. CASE held.version = Len(log[n]) /\ log' = [log EXCEPT ![n] = Append(@, new)]
  <2>1. log'[n] = Append(log[n], new) /\ log[n] \in Seq(Version)
    BY <1>1, <1>3, LogIsSequences DEF TypeOK
  <2>2. log'[n][Len(log'[n])].label = label
    BY <2>1
  <2> QED BY <1>1, <1>3, <2>2 DEF Promise!Write
<1> QED BY <1>2, <1>3 DEF Updated

LEMMA GrowthRefines ==
  ASSUME TypeOK, TypeOK', Grows, UNCHANGED <<asked, held>>,
         \A n \in Names : seen'[n] >= seen[n]
  PROVE  Promise!World
<1> SUFFICES ASSUME NEW n \in Names
             PROVE  /\ Len(log'[n]) >= Len(log[n])
                    /\ SubSeq(log'[n], 1, Len(log[n])) = log[n]
                    /\ seen'[n] \in seen[n]..Len(log'[n])
  BY DEF Promise!World
<1>1. log[n] \in Seq(Version) /\ log'[n] \in Seq(Version) /\ Len(log[n]) \in Nat
  BY LogIsSequences DEF Grows
<1>2. Len(log'[n]) >= Len(log[n]) /\ \A i \in 1..Len(log[n]) : log'[n][i] = log[n][i]
  BY DEF Grows
<1>3. SubSeq(log'[n], 1, Len(log[n])) = log[n]
  BY <1>1, <1>2
<1>4. seen[n] \in Nat /\ seen'[n] \in 0..Len(log'[n])
  BY DEF TypeOK
<1> QED BY <1>1, <1>2, <1>3, <1>4

LEMMA NextRefines ==
  ASSUME TypeOK, TypeOK', CopiesTrue, [Next]_vars
  PROVE  Promise!Next \/ UNCHANGED Promise!vars
<1>1. Grows /\ \A n \in Names : seen[n] \in Nat
  BY NextGrows DEF TypeOK
<1>2. Me \in Label /\ Cleared \in Label
  BY DEF Label
<1>3. ASSUME NEW n \in Names, Scan(n) \/ Delete(n) \/ OtherLabels(n) PROVE Promise!World
  BY <1>1, <1>3, GrowthRefines DEF Scan, Delete, OtherLabels, podVars
<1>4. ASSUME NEW n \in Names, Deliver(n) PROVE Promise!World
  <2>1. PICK v \in (seen[n] + 1)..Len(log[n]) : seen' = [seen EXCEPT ![n] = v]
    BY <1>4 DEF Deliver
  <2>2. v >= seen[n]
    BY <1>1, <2>1, LogIsSequences
  <2>3. \A m \in Names : seen'[m] >= seen[m]
    BY <1>1, <2>1, <2>2 DEF TypeOK
  <2> QED BY <1>1, <1>4, <2>3, GrowthRefines DEF Deliver
<1>5. ASSUME NEW n \in Names, Reconcile(n) \/ Release(n)
      PROVE  Promise!AnswerAtOnce \/ Promise!Ask \/ UNCHANGED Promise!vars
  BY <1>5, LocalRefines, AskRefines DEF Reconcile, Release
<1>6. CASE WriteLabel
  <2>1. log' \in {log, Updated(held, Me)}
    BY <1>6 DEF WriteLabel, Labelled
  <2> QED BY <1>2, <1>6, <2>1, WriteRefines DEF WriteLabel, Promise!Next
<1>7. CASE ClearLabel
  <2>1. log' \in {log, Updated(held, Cleared)}
    BY <1>7 DEF ClearLabel, Unlabelled
  <2> QED BY <1>2, <1>7, <2>1, WriteRefines DEF ClearLabel, Promise!Next
<1>8. CASE ApiFails \/ UpdateFails
  <2>1. asked' = None /\ held' = None /\ UNCHANGED <<log, seen>>
    BY <1>8 DEF ApiFails, UpdateFails, TypeOK
  <2> QED BY <2>1 DEF Promise!GiveUp, Promise!Next
<1>9. CASE Exit \/ Crash
  <2>1. /\ asked' = None /\ held' = None /\ log' = log
        /\ \A n \in Names : seen'[n] = 0
    BY <1>9 DEF Exit, Crash, Ends
  <2> QED BY <2>1 DEF Promise!Restart, Promise!Idle, Promise!Next
<1>10. CASE Stop \/ ListOwned \/ Start \/ UNCHANGED vars
  <2>1. UNCHANGED <<log, seen, asked, held>>
    BY <1>10 DEF Stop, ListOwned, Start, vars, podVars
  <2> QED BY <2>1 DEF Promise!vars
<1> QED
  BY <1>3, <1>4, <1>5, <1>6, <1>7, <1>8, <1>9, <1>10, AnswerRefines DEF Next, Promise!Next

\* What Get returns, from the base cache, the detail store or the API server, is
\* a version between the one the process has followed to and the last, with all
\* of its payload; and a write of it is accepted only as its successor.
THEOREM ReadsRefine == Spec => ReadsAreVersions
<1>1. Init => Promise!Init
  BY InitType DEF Init, TypeOK, Promise!Init, Promise!Idle
<1>2. Init => CopiesTrue
  BY DEF Init, CopiesTrue
<1>3. TypeOK /\ CopiesTrue /\ [Next]_vars => CopiesTrue'
  BY NextCopies
<1>4. TypeOK /\ TypeOK' /\ CopiesTrue /\ [Next]_vars => [Promise!Next]_(Promise!vars)
  BY NextRefines
<1> QED
  BY <1>1, <1>2, <1>3, <1>4, HydrationTypeCorrect, PTL
     DEF Spec, ReadsAreVersions, Promise!Spec

=============================================================================
