---------------------------- MODULE SensorCalls -----------------------------
(***************************************************************************)
(* What the sensor worker promises its callers: it serves one request at a *)
(* time and answers each once.  An answer that is not an error comes after *)
(* the Nano began on the request and, while the channel can be trusted, is *)
(* the Nano's answer to that very request.  The Nano sets to work on an    *)
(* enroll at most once, on another request at most twice, be it still in   *)
(* hand or given up.                                                       *)
(***************************************************************************)
EXTENDS Naturals

CONSTANTS
  Requests,
  Enrolls,   \* those that are enrolls
  None,
  Failed,    \* the answer is an error of the worker's own
  Stray      \* the answer was made up from a line of no request

VARIABLES
  current,   \* the request being served
  answer,    \* what each request was answered with: the origin of the line
  started,   \* how often the Nano set to work on a request
  trusted    \* the channel is authenticated, and the counters are in step

vars == << current, answer, started, trusted >>

Limit(r) == IF r \in Enrolls THEN 1 ELSE 2

Init ==
  /\ current = None
  /\ answer = [r \in Requests |-> None]
  /\ started = [r \in Requests |-> 0]
  /\ trusted \in BOOLEAN

Take(r) ==
  /\ current = None /\ answer[r] = None
  /\ current' = r
  /\ UNCHANGED << answer, started, trusted >>

\* The Nano may come to a request after the worker gave it up.
Begin(r) ==
  /\ r = current \/ answer[r] # None
  /\ started[r] < Limit(r)
  /\ started' = [started EXCEPT ![r] = @ + 1]
  /\ UNCHANGED << current, answer, trusted >>

Answer(v) ==
  /\ current # None
  /\ answer' = [answer EXCEPT ![current] = v]
  /\ current' = None
  /\ UNCHANGED started

Reply ==
  /\ current # None /\ started[current] > 0
  /\ Answer(current)
  /\ UNCHANGED trusted

Misread ==
  /\ ~ trusted
  /\ \E v \in Requests \cup { Stray } : Answer(v)
  /\ UNCHANGED trusted

\* The worker gives up; if it was killed, the counter may be lost with it.
Fail == Answer(Failed) /\ trusted' \in BOOLEAN

\* state.json lost its counter, or got it back.
TrustChanges ==
  /\ trusted' \in BOOLEAN
  /\ UNCHANGED << current, answer, started >>

Next ==
  \/ \E r \in Requests : Take(r) \/ Begin(r)
  \/ Reply \/ Misread \/ Fail \/ TrustChanges

Spec == Init /\ [][Next]_vars
=============================================================================
