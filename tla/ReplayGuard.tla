---------------------------- MODULE ReplayGuard -----------------------------
(***************************************************************************)
(* What the Nano's counter is for: a command is carried out only under a   *)
(* counter higher than every one seen, and the counter is seen for good    *)
(* before the command starts.                                              *)
(***************************************************************************)
EXTENDS Naturals

CONSTANTS
  Ceiling,   \* COUNTER_CEILING: the first counter that is never accepted
  None

VARIABLES
  last,      \* the highest counter accepted; it survives every reset
  running    \* the counter of the command being carried out

vars == << last, running >>

Init ==
  /\ last = 0
  /\ running = None

Accept ==
  /\ running = None
  /\ \E c \in (last + 1) .. (Ceiling - 1) : last' = c /\ running' = c

\* The command is over, or the Nano was reset under it.
Stop ==
  /\ running' = None
  /\ UNCHANGED last

Next == Accept \/ Stop

Spec == Init /\ [][Next]_vars
=============================================================================
