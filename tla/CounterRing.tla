---------------------------- MODULE CounterRing -----------------------------
(***************************************************************************)
(* The replay counter of the firmware: a ring of EEPROM cells (eeprom.h),  *)
(* scanned for the highest counter whose CRC is right, written cell after  *)
(* cell, and the check of process_line (r503fp.ino) on top of it.  The     *)
(* Nano can be reset between any two bytes.                                *)
(*                                                                         *)
(* The ring is followed from one pairing to the next; ee_save_pairing and  *)
(* ee_wipe erase it.                                                       *)
(***************************************************************************)
EXTENDS Integers

CONSTANTS
  Cells,     \* EE_COUNTER_RING_CELLS
  Ceiling,   \* COUNTER_CEILING (2^64 - 2^16 in the code); BOUND in the runs
  None,
  Erased,    \* a cell of 0xFF bytes: the CRC does not match
  Torn       \* some bytes of one counter and some of another

ASSUME RingAssumption ==
  /\ Cells \in Nat /\ Cells >= 2
  /\ Ceiling \in Nat
  /\ None \notin Int /\ Erased \notin Int /\ Torn \notin Int

VARIABLES
  ring,      \* the cells: a counter, or bytes with a wrong CRC
  pc,        \* process_line: "idle", "bytes", "crc", "run"
  ctr,       \* the counter of the frame being processed
  cell,      \* next_cell of ee_save_counter
  ran        \* history: counters of commands carried out

vars == << ring, pc, ctr, cell, ran >>

Index == 0 .. (Cells - 1)
Counter == 0 .. (Ceiling - 1)

-----------------------------------------------------------------------------
(* ee_scan_ring *)

Valid == { i \in Index : ring[i] \in Counter }

\* The first cell with the highest counter.
IsMaxCell(i) ==
  /\ i \in Valid
  /\ \A j \in Valid : ring[j] < ring[i] \/ (ring[j] = ring[i] /\ i <= j)

MaxCell == CHOOSE i \in Index : IsMaxCell(i)

\* ee_load_counter
Load == IF Valid = {} THEN 0 ELSE ring[MaxCell]

-----------------------------------------------------------------------------
(* process_line, from the counter check on *)

\* Faulty variants: the counter last accepted is accepted again; no ceiling.
FreshUnbounded(c) == c > Load
FreshOrLast(c) == c >= Load /\ c < Ceiling

Fresh(c) == c > Load /\ c < Ceiling

\* Faulty variant: the cell with the highest counter is written over.
NextCellInPlace == IF Valid = {} THEN 0 ELSE MaxCell

NextCell == IF Valid = {} THEN 0 ELSE (MaxCell + 1) % Cells

\* A frame with a right MAC; ee_save_counter picks the cell.
Receive(c) ==
  /\ pc = "idle"
  /\ Fresh(c)
  /\ pc' = "bytes"
  /\ ctr' = c
  /\ cell' = NextCell
  /\ UNCHANGED << ring, ran >>

\* EEPROM.update skips equal bytes; the first that differs spoils the CRC.
WriteBytes ==
  /\ pc = "bytes"
  /\ ring' = [ring EXCEPT ![cell] = Torn]
  /\ pc' = "crc"
  /\ UNCHANGED << ctr, cell, ran >>

\* The last byte makes the cell valid; ee_save_counter returns.
WriteCrc ==
  /\ pc = "crc"
  /\ ring' = [ring EXCEPT ![cell] = ctr]
  /\ pc' = "run"
  /\ UNCHANGED << ctr, cell, ran >>

\* dispatch
Run ==
  /\ pc = "run"
  /\ ran' = ran \cup { ctr }
  /\ pc' = "idle"
  /\ ctr' = None /\ cell' = None
  /\ UNCHANGED ring

\* frame_body_too_long: the counter is spent, nothing runs.
Drop ==
  /\ pc = "run"
  /\ pc' = "idle"
  /\ ctr' = None /\ cell' = None
  /\ UNCHANGED << ring, ran >>

\* Power, or the DTR line when the host opens the port.
Reset ==
  /\ pc # "idle"
  /\ pc' = "idle"
  /\ ctr' = None /\ cell' = None
  /\ UNCHANGED << ring, ran >>

\* After ee_save_pairing.
Init ==
  /\ ring = [i \in Index |-> Erased]
  /\ pc = "idle"
  /\ ctr = None /\ cell = None
  /\ ran = {}

\* The host's counters, and two that only a faulty peer would send.
Next ==
  \/ \E c \in 0 .. (Ceiling + 1) : Receive(c)
  \/ WriteBytes \/ WriteCrc \/ Run \/ Drop \/ Reset

Spec == Init /\ [][Next]_vars

-----------------------------------------------------------------------------
(* Properties *)

\* Every variable has its type; no counter of the reserved band is stored.
TypeOK ==
  /\ ring \in [Index -> Counter \cup { Erased, Torn }]
  /\ pc \in { "idle", "bytes", "crc", "run" }
  /\ ctr \in Counter \cup { None }
  /\ cell \in Index \cup { None }
  /\ ran \subseteq Counter

\* "Commit the new counter BEFORE handler runs so a crash-and-restart can't be
\* tricked into accepting the same counter twice": a command runs only under a
\* counter above those of all commands run before, whatever was torn meanwhile.
RunOnce == [][Run => \A c \in ran : c < ctr]_vars

Guard == INSTANCE ReplayGuard WITH
  last <- Load, running <- IF pc = "run" THEN ctr ELSE None

\* The ring is one atomic counter: a save that is torn by a reset leaves the
\* last committed counter in force, and a finished one is in force for good.
ImplementsGuard == Guard!Spec
=============================================================================
