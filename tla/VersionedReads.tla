---------------------------- MODULE VersionedReads ----------------------------
(***************************************************************************)
(* What a client of the hydrating cache may rely on.                       *)
(*                                                                         *)
(* The API server keeps the versions of every manifest, and the process    *)
(* follows them with a delay.  A read answered at once gives the version   *)
(* the process has followed to; one that has to ask gives some version     *)
(* between that one and the last.  Either way the payload is all of that   *)
(* version's payload, and a write made of the answer is accepted only as   *)
(* the successor of the version that was read, with its payload.           *)
(*                                                                         *)
(* Of the label a client knows less: where the version has none, the       *)
(* answer may carry one of an earlier version.                             *)
(***************************************************************************)
EXTENDS Naturals, Sequences

CONSTANTS
  Names,    \* names of the manifests
  Missing,  \* the object does not have the label
  None      \* no read

VARIABLES
  log,    \* log[n]: the versions of n, each with exists, payload and label
  seen,   \* seen[n]: the version of n that the process has followed to
  asked,  \* the read that is under way: its name and the version seen then
  held    \* the answer the client works with

vars == <<log, seen, asked, held>>

Idle == asked = None /\ held = None

LabelsAt(n, v) ==
  IF log[n][v].label # Missing
  THEN {log[n][v].label}
  ELSE {log[n][i].label : i \in 1..v}

Answers(n, versions) ==
  UNION {[name : {n}, version : {v}, payload : {log[n][v].payload}, label : LabelsAt(n, v)]
         : v \in {w \in versions : log[n][w].exists}}

Init ==
  /\ \A n \in Names : log[n] # <<>> /\ seen[n] = 0
  /\ Idle

AnswerAtOnce ==
  /\ Idle
  /\ \E n \in Names : seen[n] # 0 /\ held' \in Answers(n, {seen[n]})
  /\ UNCHANGED <<log, seen, asked>>

Ask ==
  /\ Idle
  /\ \E n \in Names : asked' = [name |-> n, since |-> seen[n]]
  /\ UNCHANGED <<log, seen, held>>

Answer ==
  /\ asked # None
  /\ held' \in Answers(asked.name, asked.since .. Len(log[asked.name]))
  /\ asked' = None
  /\ UNCHANGED <<log, seen>>

\* Without an answer, or without a write.
GiveUp ==
  /\ asked' = None
  /\ held' = None
  /\ UNCHANGED <<log, seen>>

Write ==
  /\ held # None
  /\ held.version = Len(log[held.name])
  /\ LET after == log'[held.name]
     IN  log' = [log EXCEPT ![held.name] =
                   Append(@, [exists |-> TRUE, payload |-> held.payload,
                              label |-> after[Len(after)].label])]
  /\ held' = None
  /\ UNCHANGED <<seen, asked>>

\* Others write, and the process follows.
World ==
  /\ \A n \in Names :
       /\ Len(log'[n]) >= Len(log[n])
       /\ SubSeq(log'[n], 1, Len(log[n])) = log[n]
       /\ seen'[n] \in seen[n]..Len(log'[n])
  /\ UNCHANGED <<asked, held>>

Restart ==
  /\ \A n \in Names : seen'[n] = 0
  /\ Idle'
  /\ UNCHANGED log

Next ==
  AnswerAtOnce \/ Ask \/ Answer \/ GiveUp \/ Write \/ World \/ Restart

Spec == Init /\ [][Next]_vars

=============================================================================
