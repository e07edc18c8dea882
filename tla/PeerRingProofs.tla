--------------------------- MODULE PeerRingProofs ---------------------------
(***************************************************************************)
(* Theorems about PeerRing, for any addresses, slices and callers: the     *)
(* invariants of the ring run, and that the ring implements AtomicRing.    *)
(***************************************************************************)
EXTENDS PeerRing, TLAPS

\* The groups of actions that leave the two others alone.
LEMMA WatchFrame == ASSUME Informer PROVE UNCHANGED <<writerVars, callerVars>>
BY DEF Informer, SliceChanges, StoreFollows

LEMMA HandlerFrame == ASSUME Handler PROVE UNCHANGED <<history, store, callerVars>>
BY DEF Handler, ListStore, Lock, Locked, Add, GetMembers, Remove, Unlock, watchVars

LEMMA CallerFrame ==
  ASSUME NEW c, Caller(c) PROVE UNCHANGED <<watchVars, writerVars>>
BY DEF Caller, Call, RLock, LocateKey, RUnlock

-----------------------------------------------------------------------------
LEMMA CollectedIsSet ==
  ASSUME NEW slices \in [Slices -> SliceContent]
  PROVE  /\ Collected(slices) \in SUBSET IPs
         /\ Collected(slices) = InService(slices)
BY DEF Collected, InService, Usable, SliceContent

\* What the ring answers; a panic is one of the answers.
LEMMA AnswerType ==
  ASSUME NEW S \in SUBSET IPs, NEW q \in Keys \cup {"count"}
  PROVE  Abstract!Answer(S, q) \in IPs \cup {Nobody, "zero", "positive"}
<1>1. ASSUME q \in Keys, S # {} PROVE Locate[S][q] \in IPs
  BY <1>1, LocateAssumption
<1>2. CASE q = "count"
  BY <1>2, QuestionAssumption DEF Abstract!Answer
<1>3. CASE q \in Keys
  BY <1>1, <1>3, QuestionAssumption DEF Abstract!Answer
<1> QED BY <1>2, <1>3

LEMMA InitType == ASSUME Init PROVE TypeOK
<1>1. Gone \in SliceContent
  BY DEF Gone, SliceContent
<1>2. WatchOK
  BY <1>1 DEF Init, WatchOK
<1>3. WriterOK /\ CallersOK
  BY DEF Init, WriterOK, CallersOK
<1> QED BY <1>2, <1>3 DEF TypeOK

LEMMA InformerType == ASSUME TypeOK, Informer PROVE TypeOK'
<1>1. WriterOK' /\ CallersOK'
  BY WatchFrame DEF TypeOK, WriterOK, CallersOK, writerVars, callerVars
<1>2. WatchOK'
  <2>1. CASE SliceChanges
    <3>1. PICK s \in Slices, c \in Contents :
            history' = Append(history, [history[Len(history)] EXCEPT ![s] = c])
      BY <2>1 DEF SliceChanges
    <3>2. history[Len(history)] \in [Slices -> SliceContent]
      BY DEF TypeOK, WatchOK
    <3>3. [history[Len(history)] EXCEPT ![s] = c] \in [Slices -> SliceContent]
      BY <3>2, ContentsAssumption
    <3> QED BY <2>1, <3>1, <3>3 DEF SliceChanges, TypeOK, WatchOK
  <2>2. CASE StoreFollows
    BY <2>2 DEF StoreFollows, TypeOK, WatchOK
  <2> QED BY <2>1, <2>2 DEF Informer
<1> QED BY <1>1, <1>2 DEF TypeOK

\* Each iteration keeps what the loop has to reach at its end.
LEMMA HandlerType == ASSUME TypeOK, Handler PROVE TypeOK'
<1>1. CallersOK'
  <2>1. CASE Locked
    BY <2>1, HandlerFrame DEF Locked, Drained, TypeOK, CallersOK, callerVars
  <2>2. CASE ~Locked
    BY <2>2, HandlerFrame
       DEF Handler, ListStore, Lock, Add, GetMembers, Remove, Unlock,
           TypeOK, CallersOK, callerVars
  <2> QED BY <2>1, <2>2
<1>2. WatchOK'
  BY HandlerFrame
     DEF Handler, ListStore, Lock, Locked, Add, GetMembers, Remove, Unlock,
         watchVars, TypeOK, WatchOK
<1>3. WriterOK'
  <2>1. CASE ListStore
    <3>1. Collected(history[store]) \in SUBSET IPs
      BY CollectedIsSet DEF TypeOK, WatchOK
    <3> QED BY <2>1, <3>1 DEF ListStore, TypeOK, WriterOK
  <2>2. CASE Lock \/ Locked \/ Unlock
    BY <2>2 DEF Lock, Locked, Unlock, TypeOK, WriterOK
  <2>3. CASE Add
    BY <2>3 DEF Add, TypeOK, WriterOK
  <2>4. CASE GetMembers
    BY <2>4 DEF GetMembers, TypeOK, WriterOK
  <2>5. CASE Remove
    BY <2>5 DEF Remove, TypeOK, WriterOK
  <2> QED BY <2>1, <2>2, <2>3, <2>4, <2>5 DEF Handler
<1> QED BY <1>1, <1>2, <1>3 DEF TypeOK

LEMMA CallerType == ASSUME TypeOK, NEW c \in Callers, Caller(c) PROVE TypeOK'
<1>1. WatchOK' /\ WriterOK'
  BY CallerFrame DEF TypeOK, WatchOK, WriterOK, watchVars, writerVars
<1>2. handler' = handler
  BY CallerFrame DEF writerVars
<1>3. CallersOK'
  <2>1. CASE Call(c)
    BY <1>2, <2>1, QuestionAssumption DEF Call, TypeOK, CallersOK
  <2>2. CASE RLock(c)
    BY <1>2, <2>2 DEF RLock, Open, TypeOK, CallersOK
  <2>3. CASE LocateKey(c)
    <3>1. asked[c] \in Keys \cup {"count"}
      BY <2>3 DEF LocateKey, TypeOK, CallersOK
    <3>2. Abstract!Answer(ring, asked[c]) \in IPs \cup {Nobody, "zero", "positive"}
      BY <3>1, AnswerType DEF TypeOK, WriterOK
    <3> QED BY <1>2, <2>3, <3>2 DEF LocateKey, TypeOK, CallersOK
  <2>4. CASE RUnlock(c)
    BY <1>2, <2>4 DEF RUnlock, Released, TypeOK, CallersOK
  <2> QED BY <2>1, <2>2, <2>3, <2>4 DEF Caller
<1> QED BY <1>1, <1>3 DEF TypeOK

LEMMA StutterType == ASSUME TypeOK, UNCHANGED vars PROVE TypeOK'
BY DEF TypeOK, WatchOK, WriterOK, CallersOK, vars, watchVars, writerVars, callerVars

\* Type correctness, mutual exclusion of readers and writer, and the loop
\* invariants of SetMembers.
THEOREM RingTypeCorrect == Spec => []TypeOK
<1>1. Init => TypeOK
  BY InitType
<1>2. TypeOK /\ [Next]_vars => TypeOK'
  BY InformerType, HandlerType, CallerType, StutterType DEF Next
<1> QED BY <1>1, <1>2, PTL DEF Spec

-----------------------------------------------------------------------------
\* A notification that is still to come makes up for whatever the handler that
\* runs, or the ring, does not know yet.
Informed ==
  pending = 0 =>
    (IF handler = "idle" THEN ring ELSE new) = InService(history[store])

LEMMA InitInformed == ASSUME Init PROVE Informed
BY DEF Init, Informed, InService, Gone

LEMMA InformerInformed == ASSUME TypeOK, Informed, Informer PROVE Informed'
<1>1. CASE SliceChanges
  <2>1. history'[store] = history[store]
    BY <1>1 DEF SliceChanges, TypeOK, WatchOK
  <2> QED BY <1>1, <2>1 DEF SliceChanges, Informed, InService, writerVars
<1>2. CASE StoreFollows
  <2>1. pending' # 0
    BY <1>2 DEF StoreFollows, TypeOK, WatchOK
  <2> QED BY <2>1 DEF Informed
<1> QED BY <1>1, <1>2 DEF Informer

LEMMA HandlerInformed == ASSUME TypeOK, Informed, Handler PROVE Informed'
<1>1. InService(history[store])' = InService(history[store])
  BY HandlerFrame DEF InService
<1>2. CASE ListStore
  BY <1>1, <1>2, CollectedIsSet DEF ListStore, Informed, TypeOK, WatchOK
<1>3. CASE Unlock
  <2>1. ring = new
    BY <1>3 DEF Unlock, TypeOK, WriterOK
  <2> QED BY <1>1, <1>3, <2>1 DEF Unlock, Informed, watchVars
<1>4. CASE Lock \/ Locked \/ Add \/ GetMembers \/ Remove
  <2>1. handler # "idle" /\ handler' # "idle" /\ UNCHANGED <<new, pending>>
    BY <1>4 DEF Lock, Locked, Add, GetMembers, Remove, watchVars
  <2> QED BY <1>1, <2>1 DEF Informed
<1> QED BY <1>2, <1>3, <1>4 DEF Handler

\* With no handler left to run the ring is what is in service in the store.
THEOREM RingFollows == Spec => []RingFollowsStore
<1>1. Init => Informed
  BY InitInformed
<1>2. TypeOK /\ Informed /\ [Next]_vars => Informed'
  <2> SUFFICES ASSUME TypeOK, Informed, [Next]_vars PROVE Informed'
    OBVIOUS
  <2>1. CASE Informer
    BY <2>1, InformerInformed
  <2>2. CASE Handler
    BY <2>2, HandlerInformed
  <2>3. ASSUME NEW c \in Callers, Caller(c) PROVE Informed'
    BY <2>3, CallerFrame DEF Informed, InService, watchVars, writerVars
  <2>4. CASE UNCHANGED vars
    BY <2>4 DEF Informed, InService, vars, watchVars, writerVars
  <2> QED BY <2>1, <2>2, <2>3, <2>4 DEF Next
<1>3. Informed => RingFollowsStore
  BY DEF Informed, RingFollowsStore
<1> QED BY <1>1, <1>2, <1>3, RingTypeCorrect, PTL DEF Spec

-----------------------------------------------------------------------------
(* The refinement: callers see the members change when the lock is taken.   *)

Members == IF handler \in {"adding", "removing"} THEN new ELSE ring

LEMMA InitRefines == ASSUME Init PROVE Abstract!Init
BY DEF Init, Abstract!Init

\* Only taking the lock is a step of the abstract ring.
LEMMA HandlerRefines ==
  ASSUME TypeOK, Handler PROVE Abstract!SetMembers \/ UNCHANGED Abstract!vars
<1>1. UNCHANGED <<asked, answer>>
  BY HandlerFrame DEF callerVars
<1>2. CASE Locked
  <2>1. Members' = new /\ new \in SUBSET IPs
    BY <1>2 DEF Locked, Members, TypeOK, WriterOK
  <2> QED BY <1>1, <2>1 DEF Members, Abstract!SetMembers
<1>3. CASE ~Locked
  <2>1. Unlock => ring = new
    BY DEF Unlock, TypeOK, WriterOK
  <2>2. Members' = Members
    BY <1>3, <2>1
       DEF Handler, ListStore, Lock, Add, GetMembers, Remove, Unlock, Members
  <2> QED BY <1>1, <2>2 DEF Members, Abstract!vars
<1> QED BY <1>2, <1>3

LEMMA CallerRefines ==
  ASSUME TypeOK, NEW c \in Callers, Caller(c)
  PROVE  \/ Abstract!Call(c) \/ Abstract!Decide(c) \/ Abstract!Return(c)
         \/ UNCHANGED Abstract!vars
<1>1. Members' = Members
  BY CallerFrame DEF Members, writerVars
<1>2. CASE Call(c)
  BY <1>1, <1>2 DEF Call, Members, Abstract!Call, Abstract!Questions
<1>3. CASE RLock(c)
  BY <1>1, <1>3 DEF RLock, Members, Abstract!vars
<1>4. CASE LocateKey(c)
  <2>1. Members = ring /\ asked[c] # NoQuestion
    BY <1>4 DEF LocateKey, Members, TypeOK, CallersOK
  <2> QED BY <1>1, <1>4, <2>1 DEF LocateKey, Members, Abstract!Decide
<1>5. CASE RUnlock(c)
  BY <1>1, <1>5 DEF RUnlock, Members, Abstract!Return
<1> QED BY <1>2, <1>3, <1>4, <1>5 DEF Caller

\* Every answer is the answer of a ring whose members change in one step.
THEOREM RingIsAtomic == Spec => AnswersAreAtomic
<1>1. Init => Abstract!Init
  BY InitRefines
<1>2. TypeOK /\ [Next]_vars => [Abstract!Next]_(Abstract!vars)
  <2> SUFFICES ASSUME TypeOK, [Next]_vars
               PROVE  Abstract!Next \/ UNCHANGED Abstract!vars
    OBVIOUS
  <2>1. CASE Informer
    BY <2>1, WatchFrame DEF writerVars, callerVars, Abstract!vars
  <2>2. CASE Handler
    BY <2>2, HandlerRefines DEF Abstract!Next
  <2>3. ASSUME NEW c \in Callers, Caller(c)
        PROVE  Abstract!Next \/ UNCHANGED Abstract!vars
    BY <2>3, CallerRefines DEF Abstract!Next
  <2>4. CASE UNCHANGED vars
    BY <2>4 DEF vars, writerVars, callerVars, Abstract!vars
  <2> QED BY <2>1, <2>2, <2>3, <2>4 DEF Next
<1> QED BY <1>1, <1>2, RingTypeCorrect, PTL DEF Spec, AnswersAreAtomic, Abstract!Spec

=============================================================================
