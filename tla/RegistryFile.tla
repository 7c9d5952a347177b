---------------------------- MODULE RegistryFile ----------------------------
(***************************************************************************)
(* The registry of storage.rs with the file behind it: every set_slot and  *)
(* remove_finger changes the map and then runs save() - snapshot, open the *)
(* temporary file, write, fsync, rename - and Storage::open reads the file *)
(* back.  The process can be killed and the power can fail between any two *)
(* steps; each file operation can fail.                                    *)
(*                                                                         *)
(* A caller is the enroll task or delete handler around such a call, down  *)
(* to what it did to the sensor's template flash before.                   *)
(***************************************************************************)
EXTENDS Integers

CONSTANTS
  Callers,    \* tasks and handlers that may use the registry at a time
  Prints,     \* (user, finger) pairs
  Capacity,   \* number of template slots of the sensor
  MaxFaults,  \* BOUND: kills, power losses and failed file operations
  None,
  Blank,      \* content of a file just created or truncated
  Garbage     \* content that does not parse

Slots == 0 .. (Capacity - 1)
Registry == [Prints -> Slots \cup { None }]
NoRows == [k \in Prints |-> None]
NoFile == None
Content == Registry \cup { NoFile, Blank, Garbage }
Names == { "json", "tmp" }

ASSUME FileAssumption ==
  /\ Capacity \in Nat
  /\ MaxFaults \in Nat
  /\ None \notin Slots
  /\ None \notin Prints
  /\ { NoFile, Blank, Garbage } \cap Registry = {}
  /\ NoFile # Blank /\ NoFile # Garbage /\ Blank # Garbage

VARIABLES
  phase,   \* "down", "booting" (Storage::open) or "up"
  rows,    \* StorageInner.data.users
  flash,   \* sensor flash: slot -> the print whose template it stores
  file,    \* users.json and users.json.tmp as the kernel shows them
  safe,    \* what fsync has put on the medium for the files so named
  linked,  \* the medium's directory knows of the last rename
  stale,   \* users.json on the medium while it does not
  call,    \* the callers
  faults,  \* faults so far
  clean    \* history: no registry write has failed, no power was lost

vars == << phase, rows, flash, file, safe, linked, stale, call, faults, clean >>

-----------------------------------------------------------------------------
(* Callers.  `fd` is where the file the caller has open is linked by now.  *)

Idle == [ pc |-> "idle", op |-> "none", print |-> None, slot |-> None,
          bytes |-> Blank, fd |-> "none", result |-> "none" ]

Saving == { "snapshot", "open", "write", "sync", "rename" }

CallRecord ==
  [ pc : { "idle", "store", "insert", "erase", "remove" } \cup Saving,
    op : { "none", "boot", "enroll", "delete" },
    print : Prints \cup { None },
    slot : Slots \cup { None },
    bytes : Content,
    fd : { "none", "tmp", "json", "gone" },
    result : { "none", "ok", "failed" } ]

Become(c, r) == call' = [call EXCEPT ![c] = r]
Goto(c, pc) == Become(c, [call[c] EXCEPT !.pc = pc])

StartSave(c) == Become(c, [call[c] EXCEPT !.pc = "snapshot", !.result = "none"])
Leave(c) == Become(c, [Idle EXCEPT !.result = call[c].result])

FileUnchanged == UNCHANGED << file, safe, linked, stale >>

-----------------------------------------------------------------------------
(* Storage::open *)

Boot(c) ==
  /\ phase = "down"
  /\ file["json"] \in Registry \cup { NoFile }    \* else a parse error: exit
  /\ phase' = "booting"
  /\ rows' = IF file["json"] = NoFile THEN NoRows ELSE file["json"]
  /\ Become(c, [Idle EXCEPT !.pc = "snapshot", !.op = "boot"])
  /\ FileUnchanged
  /\ UNCHANGED << flash, faults, clean >>

-----------------------------------------------------------------------------
(* Enroll: slot, template, row.  Delete: template, row. *)

\* The row's slot, or the lowest that no row has.
UsedSlots == { rows[k] : k \in Prints }
LowestFree(s, limit) ==
  s <= limit /\ s \notin UsedSlots /\ \A t \in 0 .. (s - 1) : t \in UsedSlots

\* Faulty variant: the range of the search includes the capacity.
TargetSlotPastEnd(k, s) ==
  IF rows[k] # None THEN s = rows[k] ELSE LowestFree(s, Capacity)

TargetSlot(k, s) ==
  IF rows[k] # None THEN s = rows[k] ELSE LowestFree(s, Capacity - 1)

\* An enroll task gives the action slot up before set_slot and keeps its
\* permit to the end; a delete handler holds the action slot to the end.
ActionFree == \A d \in Callers : call[d].op # "delete" /\ call[d].pc # "store"
PermitFree == \A d \in Callers : call[d].op # "enroll"

\* Faulty variant: the row is there before the template.
BeginEnrollEarly(c, k, s) ==
  /\ phase = "up" /\ call[c].pc = "idle"
  /\ ActionFree /\ PermitFree
  /\ TargetSlot(k, s)
  /\ rows' = [rows EXCEPT ![k] = s]
  /\ Become(c, [call[c] EXCEPT !.pc = "store", !.op = "enroll",
                               !.print = k, !.slot = s])
  /\ FileUnchanged
  /\ UNCHANGED << phase, flash, faults, clean >>

BeginEnroll(c, k, s) ==
  /\ phase = "up" /\ call[c].pc = "idle"
  /\ ActionFree /\ PermitFree
  /\ TargetSlot(k, s)
  /\ Become(c, [call[c] EXCEPT !.pc = "store", !.op = "enroll",
                               !.print = k, !.slot = s])
  /\ FileUnchanged
  /\ UNCHANGED << phase, rows, flash, faults, clean >>

Stored(c) == [flash EXCEPT ![call[c].slot] = call[c].print]

StoreTemplate(c) ==
  /\ call[c].pc = "store"
  /\ flash' = Stored(c)
  /\ Goto(c, "insert")
  /\ FileUnchanged
  /\ UNCHANGED << phase, rows, faults, clean >>

\* The enroll failed, or it was stopped or its answer lost: the firmware may
\* have stored the template all the same.
AbandonEnroll(c) ==
  /\ call[c].pc = "store"
  /\ flash' \in { flash, Stored(c) }
  /\ Leave(c)
  /\ FileUnchanged
  /\ UNCHANGED << phase, rows, faults, clean >>

\* set_slot, under the write lock
Insert(c) ==
  /\ call[c].pc = "insert"
  /\ rows' = [rows EXCEPT ![call[c].print] = call[c].slot]
  /\ StartSave(c)
  /\ FileUnchanged
  /\ UNCHANGED << phase, flash, faults, clean >>

BeginDelete(c, k) ==
  /\ phase = "up" /\ call[c].pc = "idle"
  /\ ActionFree
  /\ rows[k] # None
  /\ Become(c, [call[c] EXCEPT !.pc = "erase", !.op = "delete",
                               !.print = k, !.slot = rows[k]])
  /\ FileUnchanged
  /\ UNCHANGED << phase, rows, flash, faults, clean >>

\* A delete the sensor refused leaves the row alone.
Erased(c) == [flash EXCEPT ![call[c].slot] = None]

EraseTemplate(c) ==
  /\ call[c].pc = "erase"
  /\ \/ flash' = Erased(c) /\ Goto(c, "remove")
     \/ UNCHANGED flash /\ Leave(c)
  /\ FileUnchanged
  /\ UNCHANGED << phase, rows, faults, clean >>

\* remove_finger, under the write lock
Remove(c) ==
  /\ call[c].pc = "remove"
  /\ rows' = [rows EXCEPT ![call[c].print] = None]
  /\ StartSave(c)
  /\ FileUnchanged
  /\ UNCHANGED << phase, flash, faults, clean >>

-----------------------------------------------------------------------------
(* The end of the process, and of a save that fails *)

\* The firmware finishes what it was told to do.
Performed ==
  { flash }
    \cup { Stored(c) : c \in { d \in Callers : call[d].pc = "store" } }
    \cup { Erased(c) : c \in { d \in Callers : call[d].pc = "erase" } }

StopProcess ==
  /\ phase' = "down"
  /\ rows' = NoRows
  /\ call' = [c \in Callers |-> Idle]

\* save() returns an error: the map keeps the change, Storage::open gives up.
Fail(c) ==
  /\ clean' = FALSE
  /\ IF call[c].op = "boot"
       THEN StopProcess
       ELSE /\ Become(c, [Idle EXCEPT !.result = "failed"])
            /\ UNCHANGED << phase, rows >>

-----------------------------------------------------------------------------
(* save *)

Snapshot(c) ==
  /\ call[c].pc = "snapshot"
  /\ Become(c, [call[c] EXCEPT !.pc = "open", !.bytes = rows])
  /\ FileUnchanged
  /\ UNCHANGED << phase, rows, flash, faults, clean >>

\* Faulty variant: users.json itself is truncated and written.
OpenInPlace(c) ==
  /\ call[c].pc = "open"
  /\ file' = [file EXCEPT !["json"] = Blank]
  /\ safe' = [safe EXCEPT !["json"] = Blank]
  /\ Become(c, [call[c] EXCEPT !.pc = "write", !.fd = "json"])
  /\ UNCHANGED << phase, rows, flash, linked, stale, faults, clean >>

Open(c) ==
  /\ call[c].pc = "open"
  /\ file' = [file EXCEPT !["tmp"] = Blank]
  /\ safe' = [safe EXCEPT !["tmp"] = Blank]
  /\ Become(c, [call[c] EXCEPT !.pc = "write", !.fd = "tmp"])
  /\ UNCHANGED << phase, rows, flash, linked, stale, faults, clean >>

\* Bytes over other bytes: what was longer shows through at the end.
Overwrite(old, new) ==
  IF old \in { Blank, new } THEN { new } ELSE { new, Garbage }

Write(c) ==
  /\ call[c].pc = "write"
  /\ IF call[c].fd \in Names
       THEN \E b \in Overwrite(file[call[c].fd], call[c].bytes) :
              file' = [file EXCEPT ![call[c].fd] = b]
       ELSE UNCHANGED file
  /\ Goto(c, "sync")
  /\ UNCHANGED << phase, rows, flash, safe, linked, stale, faults, clean >>

\* Faulty variant: the data is left to the page cache.
SyncSkipped(c) ==
  /\ call[c].pc = "sync"
  /\ Goto(c, "rename")
  /\ FileUnchanged
  /\ UNCHANGED << phase, rows, flash, faults, clean >>

Sync(c) ==
  /\ call[c].pc = "sync"
  /\ IF call[c].fd \in Names
       THEN safe' = [safe EXCEPT ![call[c].fd] = file[call[c].fd]]
       ELSE UNCHANGED safe
  /\ Goto(c, "rename")
  /\ UNCHANGED << phase, rows, flash, file, linked, stale, faults, clean >>

\* Who else has a file open keeps it, wherever it is linked now.
Follow(fd) == CASE fd = "tmp"  -> "json"
                [] fd = "json" -> "gone"
                [] OTHER       -> fd

\* Storage::open has no caller waiting for a result.
Saved(c) == IF call[c].op = "boot" THEN "none" ELSE "ok"

Rename(c) ==
  /\ call[c].pc = "rename"
  /\ file["tmp"] # NoFile
  /\ file' = [n \in Names |-> IF n = "json" THEN file["tmp"] ELSE NoFile]
  /\ safe' = [n \in Names |-> IF n = "json" THEN safe["tmp"] ELSE NoFile]
  /\ linked' = FALSE
  /\ stale' = IF linked THEN safe["json"] ELSE stale
  /\ call' = [d \in Callers |->
                IF d = c THEN [Idle EXCEPT !.result = Saved(c)]
                         ELSE [call[d] EXCEPT !.fd = Follow(@)]]
  /\ phase' = IF call[c].op = "boot" THEN "up" ELSE phase
  /\ UNCHANGED << rows, flash, faults, clean >>

-----------------------------------------------------------------------------
(* Faults and the medium *)

Fault == faults < MaxFaults /\ faults' = faults + 1

\* A file operation fails; a write may have left a part of its bytes.  No fault
\* is needed when another save has renamed the temporary file away: ENOENT.
FileError(c) ==
  /\ call[c].pc \in { "open", "write", "sync", "rename" }
  /\ IF call[c].pc = "rename" /\ file["tmp"] = NoFile
       THEN UNCHANGED faults
       ELSE Fault
  /\ IF call[c].pc = "write" /\ call[c].fd \in Names
       THEN file' = [file EXCEPT ![call[c].fd] = Garbage]
       ELSE UNCHANGED file
  /\ Fail(c)
  /\ UNCHANGED << flash, safe, linked, stale >>

\* The journal commits the directory; a rename alone does not wait for it.
Commit ==
  /\ ~ linked
  /\ linked' = TRUE
  /\ UNCHANGED << phase, rows, flash, file, safe, stale, call, faults, clean >>

Kill ==
  /\ Fault
  /\ phase # "down"
  /\ StopProcess
  /\ flash' \in Performed
  /\ FileUnchanged
  /\ UNCHANGED clean

\* Data that was not synced may be there, not be there, or be there in part.
OnMedium ==
  IF ~ linked THEN { stale }
  ELSE IF file["json"] = safe["json"] THEN { safe["json"] }
  ELSE { safe["json"], file["json"], Garbage }

PowerLoss ==
  /\ Fault
  /\ StopProcess
  /\ flash' \in Performed
  /\ \E b \in OnMedium :
       /\ file' = [n \in Names |-> IF n = "json" THEN b ELSE NoFile]
       /\ safe' = file'
       /\ stale' = b
  /\ linked' = TRUE
  /\ clean' = FALSE

-----------------------------------------------------------------------------
Init ==
  /\ phase = "down"
  /\ rows = NoRows
  /\ flash = [s \in Slots |-> None]
  /\ file = [n \in Names |-> NoFile]
  /\ safe = [n \in Names |-> NoFile]
  /\ linked = TRUE
  /\ stale = NoFile
  /\ call = [c \in Callers |-> Idle]
  /\ faults = 0
  /\ clean = TRUE

Step(c) ==
  \/ Boot(c)
  \/ \E k \in Prints : BeginDelete(c, k)
  \/ \E k \in Prints, s \in 0 .. Capacity : BeginEnroll(c, k, s)
  \/ StoreTemplate(c) \/ AbandonEnroll(c) \/ Insert(c)
  \/ EraseTemplate(c) \/ Remove(c)
  \/ Snapshot(c) \/ Open(c) \/ Write(c) \/ Sync(c)
  \/ Rename(c) \/ FileError(c)

Next == (\E c \in Callers : Step(c)) \/ Commit \/ Kill \/ PowerLoss

Spec == Init /\ [][Next]_vars

-----------------------------------------------------------------------------
(* Properties *)

\* Every variable has its type.
TypeOK ==
  /\ phase \in { "down", "booting", "up" }
  /\ rows \in Registry
  /\ flash \in [Slots -> Prints \cup { None }]
  /\ file \in [Names -> Content]
  /\ safe \in [Names -> Content]
  /\ linked \in BOOLEAN
  /\ stale \in Content
  /\ call \in [Callers -> CallRecord]
  /\ faults \in 0 .. MaxFaults
  /\ clean \in BOOLEAN

\* "Atomic writes via temp-file rename": whenever the daemon is started,
\* whatever stopped it, users.json is absent or a registry it can parse.
BootReads == phase = "down" => file["json"] \in Registry \cup { NoFile }

\* "This file is just a label that says user X's right-thumb lives in slot N":
\* the rows of a running daemon, which it may have read back after a kill,
\* never point at another print's template.  Nothing is claimed once a registry
\* write has failed (the older row stays in the file and its slot is reused) or
\* the power was lost (it may take back a rename that was reported done).
Labelled(r) == \A k \in Prints : r[k] # None => flash[r[k]] \in { k, None }
LabelsTrue == (clean /\ phase = "up") => Labelled(rows)

\* What AtomicRegistry speaks of, read off this state.
Durable == IF linked THEN safe["json"] ELSE stale
Pending == \E c \in Callers : call[c].op # "boot" /\ call[c].pc \in Saving
Returned(result) == \E c \in Callers : call[c].result = result
Outcome ==
  IF Returned("ok") THEN "ok" ELSE IF Returned("failed") THEN "failed" ELSE "none"

Atomic == INSTANCE AtomicRegistry WITH
  published <- file["json"], durable <- Durable,
  pending <- Pending, outcome <- Outcome

\* The calls of a single caller implement the abstract registry: success is
\* reported only for an update that is in users.json as a whole, and whatever
\* stops the daemon, the next start finds a registry that was complete once.
ImplementsAtomic == Atomic!Spec
=============================================================================
