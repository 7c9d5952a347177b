--------------------------- MODULE AtomicRegistry ---------------------------
(***************************************************************************)
(* What storage.rs promises of the registry: an update reaches users.json  *)
(* as a whole or not at all, a call that reports success has reached it,   *)
(* and a restart finds some registry that was complete once.               *)
(***************************************************************************)
CONSTANTS Prints, Slots, None

VARIABLES
  phase,      \* "down", "booting" (Storage::open) or "up"
  rows,       \* the registry in memory
  published,  \* users.json, None when there is no such file
  durable,    \* users.json as a power loss would leave it
  pending,    \* an update has not returned yet
  outcome     \* how the last update returned

vars == << phase, rows, published, durable, pending, outcome >>

Registry == [Prints -> Slots \cup { None }]
NoRows == [k \in Prints |-> None]

Init ==
  /\ phase = "down"
  /\ rows = NoRows
  /\ published = None
  /\ durable = None
  /\ pending = FALSE
  /\ outcome = "none"

Boot ==
  /\ phase = "down"
  /\ phase' = "booting"
  /\ rows' = IF published = None THEN NoRows ELSE published
  /\ UNCHANGED << published, durable, pending, outcome >>

Ready ==
  /\ phase = "booting"
  /\ phase' = "up"
  /\ published' = rows
  /\ UNCHANGED << rows, durable, pending, outcome >>

Update ==
  /\ phase = "up" /\ ~ pending
  /\ \E k \in Prints, s \in Slots \cup { None } :
       rows' = [rows EXCEPT ![k] = s]
  /\ pending' = TRUE
  /\ outcome' = "none"
  /\ UNCHANGED << phase, published, durable >>

\* The file changes and the update returns with success.
Publish ==
  /\ pending
  /\ published' = rows
  /\ pending' = FALSE
  /\ outcome' = "ok"
  /\ UNCHANGED << phase, rows, durable >>

\* The update returns an error; the row stays changed in memory.
Fail ==
  /\ pending
  /\ pending' = FALSE
  /\ outcome' = "failed"
  /\ UNCHANGED << phase, rows, published, durable >>

Flush ==
  /\ durable' = published
  /\ UNCHANGED << phase, rows, published, pending, outcome >>

\* The process ends; with the power, what was not durable goes too.
Down ==
  /\ phase' = "down"
  /\ rows' = NoRows
  /\ pending' = FALSE
  /\ outcome' = "none"
  /\ published' \in { published, durable }
  /\ UNCHANGED durable

Next ==
  \/ Boot \/ Ready \/ Update \/ Publish \/ Fail \/ Flush \/ Down

Spec == Init /\ [][Next]_vars
=============================================================================
