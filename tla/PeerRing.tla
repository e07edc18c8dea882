------------------------------ MODULE PeerRing ------------------------------
(***************************************************************************)
(* The hash ring of one pod, step by step (utils/sharding.go).             *)
(*                                                                         *)
(* The informer keeps the EndpointSlices of the Service in a store and     *)
(* calls the event handlers one at a time.  A handler ignores the object   *)
(* it is given, lists the store, collects the ready IPs and adds and       *)
(* removes members one by one under the write lock of an RWMutex, while    *)
(* the workers and main ask the ring under its read lock.                  *)
(***************************************************************************)
EXTENDS Naturals, Sequences

CONSTANTS
  IPs,         \* the pod IPs
  Keys,        \* the names that ShouldOwn is asked about
  Callers,     \* the goroutines that ask
  Slices,      \* the names of the EndpointSlices
  Contents,    \* what an EndpointSlice may hold
  Locate,      \* LocateKey of the hash ring, for every member set
  Nobody, NoQuestion, Pending,
  MaxChanges   \* bound: number of states of the EndpointSlices

\* The endpoints of a slice are up unless their condition Ready is false.
SliceContent == [family : {"IPv4", "IPv6"}, up : SUBSET IPs, down : SUBSET IPs]

\* A slice that does not exist, or that cannot be parsed.
Gone == [family |-> "IPv4", up |-> {}, down |-> {}]

\* The owner of a name is a member.
ASSUME LocateAssumption ==
  \A S \in (SUBSET IPs) \ {{}}, k \in Keys : Locate[S][k] \in S

ASSUME ContentsAssumption == Contents \subseteq SliceContent
ASSUME QuestionAssumption == NoQuestion # "count" /\ {NoQuestion, "count"} \cap Keys = {}

VARIABLES
  history,  \* API server: the sequence of states of the EndpointSlices
  store,    \* informer: the state that its store holds
  pending,  \* informer: notifications not yet handled
  handler,  \* handler: where updateAllEndpoints and SetMembers are
  new,      \* handler: newMembers
  todo,     \* handler: members that its loop has still to visit
  ring,     \* the members of the consistent hash ring
  inside,   \* callers that hold the read lock
  asked,    \* the question of each caller
  answer    \* the answer that LocateKey or GetMembers gave it

watchVars  == <<history, store, pending>>
writerVars == <<handler, new, todo, ring>>
callerVars == <<inside, asked, answer>>
vars       == <<watchVars, writerVars, callerVars>>

\* Callers see no member set but the one that the lock lets them see.
Abstract ==
  INSTANCE AtomicRing
    WITH members <- IF handler \in {"adding", "removing"} THEN new ELSE ring

-----------------------------------------------------------------------------
(* The collection of the IPs.                                               *)

AnyEndpoint(s) == s.up \cup s.down  \* mutation: the condition is not looked at
Usable(s) == IF s.family = "IPv4" THEN s.up ELSE {}

OneSlice(slices) ==  \* mutation: only the slice of one notification is used
  Usable(slices[CHOOSE s \in Slices : TRUE])
Collected(slices) == UNION {Usable(slices[s]) : s \in Slices}

Init ==
  /\ history = <<[s \in Slices |-> Gone]>>
  /\ store = 1
  /\ pending = 0
  /\ handler = "idle"
  /\ new = {}
  /\ todo = {}
  /\ ring = {}
  /\ inside = {}
  /\ asked = [c \in Callers |-> NoQuestion]
  /\ answer = [c \in Callers |-> Pending]

\* The endpoints controller writes one slice at a time.
SliceChanges ==
  /\ Len(history) < MaxChanges
  /\ \E s \in Slices, c \in Contents :
       history' = Append(history, [history[Len(history)] EXCEPT ![s] = c])
  /\ UNCHANGED <<store, pending, writerVars, callerVars>>

\* The store follows, over several states at once after a list, and there is a
\* notification for each state or only for the last.
StoreFollows ==
  /\ \E v \in (store + 1)..Len(history) :
       /\ store' = v
       /\ \E n \in {1, v - store} : pending' = pending + n
  /\ UNCHANGED <<history, writerVars, callerVars>>

-----------------------------------------------------------------------------
(* A handler.                                                               *)

ListStore ==
  /\ handler = "idle" /\ pending > 0
  /\ pending' = pending - 1
  /\ new' = Collected(history[store])
  /\ handler' = "locking"
  /\ UNCHANGED <<history, store, todo, ring, callerVars>>

\* Lock: from here on no further reader comes in ...
Lock ==
  /\ handler = "locking"
  /\ handler' = "waiting"
  /\ UNCHANGED <<watchVars, new, todo, ring, callerVars>>

\* ... and when the last reader has left, the loop over newMembers begins.
NotDrained == TRUE  \* mutation: SetMembers does not take the lock
Drained == inside = {}

Locked ==
  /\ handler = "waiting"
  /\ Drained
  /\ handler' = "adding"
  /\ todo' = new
  /\ UNCHANGED <<watchVars, new, ring, callerVars>>

Add ==
  /\ handler = "adding"
  /\ \E m \in todo :
       /\ ring' = ring \cup {m}
       /\ todo' = todo \ {m}
  /\ UNCHANGED <<watchVars, handler, new, callerVars>>

GetMembers ==
  /\ handler = "adding" /\ todo = {}
  /\ handler' = "removing"
  /\ todo' = ring
  /\ UNCHANGED <<watchVars, new, ring, callerVars>>

Remove ==
  /\ handler = "removing"
  /\ \E m \in todo :
       /\ ring' = IF m \in new THEN ring ELSE ring \ {m}
       /\ todo' = todo \ {m}
  /\ UNCHANGED <<watchVars, handler, new, callerVars>>

Unlock ==
  /\ handler = "removing" /\ todo = {}
  /\ handler' = "idle"
  /\ UNCHANGED <<watchVars, new, todo, ring, callerVars>>

-----------------------------------------------------------------------------
(* GetShardOwner, as ShouldOwn calls it, and MemberCount.                   *)

Call(c) ==
  /\ asked[c] = NoQuestion
  /\ \E q \in Keys \cup {"count"} : asked' = [asked EXCEPT ![c] = q]
  /\ UNCHANGED <<watchVars, writerVars, inside, answer>>

NeverShut == TRUE  \* mutation: GetShardOwner does not take the read lock
Open == handler \in {"idle", "locking"}

RLock(c) ==
  /\ asked[c] # NoQuestion
  /\ c \notin inside
  /\ Open
  /\ inside' = inside \cup {c}
  /\ UNCHANGED <<watchVars, writerVars, asked, answer>>

LocateKey(c) ==
  /\ c \in inside
  /\ asked[c] # NoQuestion /\ answer[c] = Pending
  /\ answer' = [answer EXCEPT ![c] = Abstract!Answer(ring, asked[c])]
  /\ UNCHANGED <<watchVars, writerVars, inside, asked>>

\* The deferred RUnlock runs also when String() of a nil Member panics.
NotDeferred(c) ==  \* mutation: the panic skips it
  IF answer[c] = Nobody THEN inside ELSE inside \ {c}
Released(c) == inside \ {c}

RUnlock(c) ==
  /\ c \in inside
  /\ answer[c] # Pending
  /\ inside' = Released(c)
  /\ asked' = [asked EXCEPT ![c] = NoQuestion]
  /\ answer' = [answer EXCEPT ![c] = Pending]
  /\ UNCHANGED <<watchVars, writerVars>>

-----------------------------------------------------------------------------
Informer == SliceChanges \/ StoreFollows
Handler ==
  ListStore \/ Lock \/ Locked \/ Add \/ GetMembers \/ Remove \/ Unlock
Caller(c) == Call(c) \/ RLock(c) \/ LocateKey(c) \/ RUnlock(c)

Next == Informer \/ Handler \/ \E c \in Callers : Caller(c)

Spec == Init /\ [][Next]_vars

\* The informer and its handlers go on, and a caller that has asked does too.
Fairness ==
  /\ WF_vars(StoreFollows)
  /\ WF_vars(Handler)
  /\ \A c \in Callers : WF_vars(RLock(c) \/ LocateKey(c) \/ RUnlock(c))

FairSpec == Spec /\ Fairness

-----------------------------------------------------------------------------
(* Properties.                                                              *)

WatchOK ==
  /\ history \in Seq([Slices -> SliceContent])
  /\ store \in 1..Len(history)
  /\ pending \in Nat

WriterOK ==
  /\ handler \in {"idle", "locking", "waiting", "adding", "removing"}
  /\ new \in SUBSET IPs
  /\ ring \in SUBSET IPs
  /\ todo \in SUBSET IPs
  /\ handler = "adding" => new \subseteq ring \cup todo
  /\ handler = "removing" => new \subseteq ring /\ ring \subseteq new \cup todo

CallersOK ==
  /\ inside \subseteq Callers
  /\ asked \in [Callers -> Keys \cup {"count", NoQuestion}]
  /\ answer \in [Callers -> IPs \cup {Nobody, Pending, "zero", "positive"}]
  /\ \A c \in Callers : answer[c] # Pending => c \in inside
  /\ \A c \in inside : asked[c] # NoQuestion
  /\ handler \in {"adding", "removing"} => inside = {}

\* Every variable has its type, the loops of SetMembers are where their
\* iterations left the ring, and nobody reads while it writes.
TypeOK == WatchOK /\ WriterOK /\ CallersOK

\* The addresses that traffic of the Service would be sent to.
InService(slices) ==
  {ip \in IPs : \E s \in Slices : slices[s].family = "IPv4" /\ ip \in slices[s].up}

\* A handler may read a store that is ahead of its notification, and the slice
\* it was called for may be only one of several: when no handler is left to
\* run, the members are exactly the IPv4 endpoints that are up in some slice
\* of the store.
RingFollowsStore ==
  pending = 0 /\ handler = "idle" => ring = InService(history[store])

\* Nobody is given an owner that belongs to neither the old nor the new member
\* set, though members are added and removed one at a time.
AnswersAreAtomic == Abstract!Spec

\* A handler that has started gets the lock and finishes, however many callers
\* there are and even if one of them panics.
HandlerFinishes == handler # "idle" ~> handler = "idle"

\* When the slices change no more, the ring of the pod ends with what the API
\* server says, and so with the ring of every other pod.
RingCatchesUp == <>[](ring = InService(history[Len(history)]))

=============================================================================
