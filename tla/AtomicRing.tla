----------------------------- MODULE AtomicRing -----------------------------
(***************************************************************************)
(* What the rest of the exporter relies on in the hash ring of             *)
(* utils/sharding.go: its members change in one step, and whoever asks it  *)
(* a question gets an answer that was right, for the members of one        *)
(* moment, at some time between the call and its return.                   *)
(***************************************************************************)
CONSTANTS
  IPs,      \* the pod IPs
  Keys,     \* the names that ShouldOwn is asked about
  Callers,  \* the goroutines that ask
  Locate,   \* LocateKey of the hash ring, for every member set
  Nobody,   \* the nil Member of an empty ring, on which String() panics
  NoQuestion, Pending

VARIABLES
  members,  \* the ring
  asked,    \* the question of each caller
  answer    \* the answer that the caller will be given

\* Of MemberCount main uses only whether it is 0.
Questions == Keys \cup {"count"}

Answer(S, q) ==
  CASE q = "count" -> IF S = {} THEN "zero" ELSE "positive"
    [] q \in Keys  -> IF S = {} THEN Nobody ELSE Locate[S][q]

vars == <<members, asked, answer>>

Init ==
  /\ members = {}
  /\ asked = [c \in Callers |-> NoQuestion]
  /\ answer = [c \in Callers |-> Pending]

SetMembers ==
  /\ members' \in SUBSET IPs
  /\ UNCHANGED <<asked, answer>>

Call(c) ==
  /\ asked[c] = NoQuestion
  /\ \E q \in Questions : asked' = [asked EXCEPT ![c] = q]
  /\ UNCHANGED <<members, answer>>

Decide(c) ==
  /\ asked[c] # NoQuestion
  /\ answer[c] = Pending
  /\ answer' = [answer EXCEPT ![c] = Answer(members, asked[c])]
  /\ UNCHANGED <<members, asked>>

Return(c) ==
  /\ answer[c] # Pending
  /\ asked' = [asked EXCEPT ![c] = NoQuestion]
  /\ answer' = [answer EXCEPT ![c] = Pending]
  /\ UNCHANGED members

Next == SetMembers \/ \E c \in Callers : Call(c) \/ Decide(c) \/ Return(c)

Spec == Init /\ [][Next]_vars

=============================================================================
