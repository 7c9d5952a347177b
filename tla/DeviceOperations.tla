-------------------------- MODULE DeviceOperations ---------------------------
(***************************************************************************)
(* What the Device promises about its operations.  An operation is known   *)
(* by its token; one at a time owns the action slot.  It may lose the slot *)
(* before it has wound up; then the client hears no outcome of its capture *)
(* any more, and it disturbs no operation that came after it.  Two         *)
(* captures never overlap, from the start of one to its verdict, and no    *)
(* capture gets two verdicts.                                              *)
(*                                                                         *)
(* One verdict is not tied to the slot: a capture of a Refusable kind may  *)
(* be refused while it is under way, and that is reported even when it has *)
(* lost the slot meanwhile.                                                *)
(***************************************************************************)
EXTENDS Naturals

CONSTANTS
  Kinds,      \* the kinds of operations
  Captures,   \* those that use the sensor's reader, and end in a verdict
  Refusable,  \* captures that may report before they wind up
  NoAction

VARIABLES
  action,     \* the token in the action slot
  next,       \* the epoch of the next token
  cancelled,  \* epochs of operations that lost the slot
  running,    \* tokens of operations that have not wound up
  owed,       \* tokens of captures that owe their verdict
  silent      \* tokens of operations under way with nothing more to report

vars == << action, next, cancelled, running, owed, silent >>

Init ==
  /\ action = NoAction
  /\ next = 0
  /\ cancelled = {} /\ running = {} /\ owed = {} /\ silent = {}

\* A start may turn out to be in vain at once.
Start(kind) ==
  /\ action = NoAction
  /\ kind \in Captures => \A t \in running \cup owed : t.kind \notin Captures
  /\ action' = [kind |-> kind, epoch |-> next]
  /\ next' = next + 1
  /\ running' = running \cup { action' }
  /\ silent' \in { silent, silent \cup { action' } }
  /\ UNCHANGED << cancelled, owed >>

\* A stop, a release or a disconnect.
Cancel ==
  /\ action # NoAction
  /\ action' = NoAction
  /\ cancelled' = cancelled \cup { action.epoch }
  /\ UNCHANGED << next, running, owed, silent >>

\* The refusal of a capture, whoever owns the slot by now.
Refuse(t) ==
  /\ t \in running \ (owed \cup silent) /\ t.kind \in Refusable
  /\ owed' = owed \cup { t }
  /\ UNCHANGED << action, next, cancelled, running, silent >>

\* Only the owner of the slot gives it up, and only it may then owe a verdict.
Finish(t) ==
  /\ t = action /\ t \in running \ owed
  /\ action' = NoAction
  /\ running' = running \ { t }
  /\ silent' = silent \ { t }
  /\ \/ UNCHANGED owed
     \/ t.kind \in Captures /\ t \notin silent /\ owed' = owed \cup { t }
  /\ UNCHANGED << next, cancelled >>

Abandon(t) ==
  /\ t \in running \ owed /\ t # action /\ t.epoch \in cancelled
  /\ running' = running \ { t }
  /\ silent' = silent \ { t }
  /\ UNCHANGED << action, next, cancelled, owed >>

Report(t) ==
  /\ t \in owed
  /\ owed' = owed \ { t }
  /\ silent' = IF t \in running THEN silent \cup { t } ELSE silent
  /\ UNCHANGED << action, next, cancelled, running >>

Next ==
  \/ \E kind \in Kinds : Start(kind)
  \/ Cancel
  \/ \E t \in running : Refuse(t) \/ Finish(t) \/ Abandon(t)
  \/ \E t \in owed : Report(t)

Spec == Init /\ [][Next]_vars
=============================================================================
