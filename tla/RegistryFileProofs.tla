------------------------- MODULE RegistryFileProofs -------------------------
(***************************************************************************)
(* Theorems about RegistryFile for registry calls that do not overlap:     *)
(* users.json can always be read back, its rows and those in memory never  *)
(* point at another print's template, and the file steps implement the     *)
(* abstract registry.  With two callers none of this holds; the violation  *)
(* runs of MCRegistryFile show how.                                        *)
(***************************************************************************)
EXTENDS RegistryFile, TLAPS

\* The hypothesis of every theorem: there are never two callers.
Serial == \A c, d \in Callers : c = d

Whole == Registry \cup { NoFile }
OnDisk == { "open", "write", "sync", "rename" }

\* What a caller's place in the code says of the daemon and of its file.
CallInv(c) ==
  /\ call[c].pc = "idle" => call[c].op = "none"
  /\ call[c].pc \in { "store", "insert" } => call[c].op = "enroll"
  /\ call[c].pc \in { "erase", "remove" } => call[c].op = "delete"
  /\ call[c].pc \in Saving =>
       call[c].op \in { "boot", "enroll", "delete" } /\ call[c].result = "none"
  /\ call[c].op = "boot" => phase = "booting" /\ call[c].pc \in Saving
  /\ call[c].op \in { "enroll", "delete" } =>
       phase = "up" /\ call[c].print \in Prints /\ call[c].slot \in Slots
  /\ phase = "down" => call[c] = Idle

\* How far the save has brought the rows.
SaveInv(c) ==
  /\ call[c].pc \in OnDisk => call[c].bytes = rows
  /\ call[c].pc \in { "write", "sync", "rename" } => call[c].fd = "tmp"
  /\ call[c].pc = "write" => file["tmp"] = Blank
  /\ call[c].pc \in { "sync", "rename" } => file["tmp"] = rows
  /\ call[c].pc = "rename" => safe["tmp"] = rows

\* users.json is whole, and what a power loss leaves of it is too.
MediumInv ==
  /\ file["json"] \in Whole
  /\ safe["json"] = file["json"]
  /\ stale \in Whole

Injective(r) == \A k, l \in Prints : r[k] # None /\ r[k] = r[l] => k = l
Sound(r) == Labelled(r) /\ Injective(r)

\* The labels: rows and file agree unless a save is under way, and the slot an
\* enroll was given belongs to no other row of either.
LabelInv ==
  clean =>
    /\ Sound(rows)
    /\ file["json"] \in Registry => Sound(file["json"])
    /\ \A c \in Callers :
         /\ phase = "up" /\ call[c].pc \notin Saving => file["json"] = rows
         /\ call[c].pc \in { "store", "insert" } =>
              \A k \in Prints : k # call[c].print => rows[k] # call[c].slot
         /\ call[c].pc = "insert" => flash[call[c].slot] = call[c].print

FileInv == TypeOK /\ MediumInv /\ \A c \in Callers : CallInv(c) /\ SaveInv(c)

USE FileAssumption

-----------------------------------------------------------------------------
(* Helpers *)

LEMMA Members ==
  /\ NoRows \in Registry
  /\ None \notin Registry /\ Blank \notin Registry /\ Garbage \notin Registry
  /\ Idle = [ pc |-> "idle", op |-> "none", print |-> None, slot |-> None,
              bytes |-> Blank, fd |-> "none", result |-> "none" ]
  BY DEF NoRows, Registry, NoFile, Idle

LEMMA SlotGiven ==
  ASSUME NEW k \in Prints, NEW s \in 0 .. Capacity, TypeOK, TargetSlot(k, s)
  PROVE  s \in Slots
<1>1. CASE rows[k] # None
  BY <1>1 DEF TargetSlot, TypeOK, Registry
<1>2. CASE rows[k] = None
  BY <1>2 DEF TargetSlot, LowestFree, Slots
<1> QED BY <1>1, <1>2

\* With one caller, a step of it leaves no one else to speak of.
LEMMA Alone ==
  ASSUME Serial, NEW c \in Callers
  PROVE  Callers = { c }
  BY DEF Serial

LEMMA PerformedType ==
  ASSUME TypeOK, \A c \in Callers : CallInv(c), flash' \in Performed
  PROVE  flash' \in [Slots -> Prints \cup { None }]
<1>1. CASE flash' = flash
  BY <1>1 DEF TypeOK
<1>2. ASSUME NEW c \in Callers, flash' = Stored(c), call[c].pc = "store"
      PROVE  flash' \in [Slots -> Prints \cup { None }]
  BY <1>2 DEF TypeOK, Stored, CallInv
<1>3. ASSUME NEW c \in Callers, flash' = Erased(c)
      PROVE  flash' \in [Slots -> Prints \cup { None }]
  BY <1>3 DEF TypeOK, Erased
<1> QED BY <1>1, <1>2, <1>3 DEF Performed

-----------------------------------------------------------------------------
(* FileInv is inductive. *)

LEMMA FileInit == ASSUME Init PROVE FileInv
<1> USE Members DEF Init
<1>1. TypeOK
  <2>1. Idle \in CallRecord
    BY DEF CallRecord, Content
  <2> QED BY <2>1 DEF TypeOK, Content, NoFile
<1>2. MediumInv BY DEF MediumInv, Whole, NoFile, Names
<1>3. ASSUME NEW c \in Callers PROVE CallInv(c) /\ SaveInv(c)
  BY DEF CallInv, SaveInv, Saving, OnDisk, Idle
<1> QED BY <1>1, <1>2, <1>3 DEF FileInv


\* It is enough to show the invariant's conjuncts for the caller that moved.
LEMMA OneCaller ==
  ASSUME Serial, NEW c \in Callers,
         TypeOK', MediumInv', CallInv(c)', SaveInv(c)'
  PROVE  FileInv'
<1>1. \A d \in Callers : d = c
  BY DEF Serial
<1>2. ASSUME NEW d \in Callers PROVE CallInv(d)' /\ SaveInv(d)'
  <2>1. d = c BY <1>1
  <2> QED BY <2>1
<1> QED BY <1>2 DEF FileInv

LEMMA Becomes ==
  ASSUME TypeOK, NEW c \in Callers, NEW r \in CallRecord, Become(c, r)
  PROVE  call' \in [Callers -> CallRecord] /\ call'[c] = r
  BY DEF TypeOK, Become

LEMMA IdleRecord ==
  ASSUME TypeOK, NEW c \in Callers,
         NEW result \in { "none", "ok", "failed" }
  PROVE  [Idle EXCEPT !.result = result] \in CallRecord
  BY Members DEF CallRecord, Content

\* The updates of a caller's record, each within its type.
CallPcs == { "idle", "store", "insert", "erase", "remove" } \cup Saving

LEMMA MoveType ==
  ASSUME NEW r \in CallRecord, NEW pc \in CallPcs
  PROVE  [r EXCEPT !.pc = pc] \in CallRecord
  BY DEF CallRecord, CallPcs

LEMMA BeginType ==
  ASSUME NEW r \in CallRecord, NEW pc \in CallPcs,
         NEW op \in { "enroll", "delete" }, NEW k \in Prints, NEW s \in Slots
  PROVE  [r EXCEPT !.pc = pc, !.op = op, !.print = k, !.slot = s]
           \in CallRecord
  BY DEF CallRecord, CallPcs

LEMMA SaveType ==
  ASSUME NEW r \in CallRecord
  PROVE  /\ [r EXCEPT !.pc = "snapshot", !.result = "none"] \in CallRecord
         /\ \A b \in Content : [r EXCEPT !.pc = "open", !.bytes = b] \in CallRecord
         /\ [r EXCEPT !.pc = "write", !.fd = "tmp"] \in CallRecord
<1>1. [r EXCEPT !.pc = "snapshot", !.result = "none"] \in CallRecord
  BY DEF CallRecord, Saving
<1>2. ASSUME NEW b \in Content
      PROVE  [r EXCEPT !.pc = "open", !.bytes = b] \in CallRecord
  BY DEF CallRecord, Saving
<1>3. [r EXCEPT !.pc = "write", !.fd = "tmp"] \in CallRecord
  BY DEF CallRecord, Saving
<1> QED BY <1>1, <1>2, <1>3

LEMMA OwnRecord ==
  ASSUME TypeOK, NEW c \in Callers
  PROVE  call[c] \in CallRecord
  BY DEF TypeOK

LEMMA GotoRecord ==
  ASSUME TypeOK, NEW c \in Callers,
         NEW pc \in { "insert", "remove" } \cup Saving
  PROVE  [call[c] EXCEPT !.pc = pc] \in CallRecord
  BY OwnRecord, MoveType DEF CallPcs

LEMMA BootStep ==
  ASSUME Serial, FileInv, NEW c \in Callers, Boot(c)
  PROVE  FileInv'
<1> USE Members DEF FileInv, Boot, FileUnchanged
<1>0. [Idle EXCEPT !.pc = "snapshot", !.op = "boot"] \in CallRecord
  BY DEF CallRecord, Content, Saving
<1>1. /\ phase' = "booting"
      /\ rows' \in Registry
      /\ call' \in [Callers -> CallRecord]
      /\ call'[c] = [Idle EXCEPT !.pc = "snapshot", !.op = "boot"]
  BY <1>0, Becomes
<1>2. TypeOK'
  BY <1>1 DEF TypeOK
<1>3. MediumInv'
  BY DEF MediumInv
<1>4. CallInv(c)' /\ SaveInv(c)'
  BY <1>1 DEF CallInv, SaveInv, Saving, OnDisk
<1> QED BY <1>2, <1>3, <1>4, OneCaller

LEMMA BeginEnrollStep ==
  ASSUME Serial, FileInv, NEW c \in Callers,
         NEW k \in Prints, NEW s \in 0 .. Capacity, BeginEnroll(c, k, s)
  PROVE  FileInv'
<1> USE Members DEF FileInv, BeginEnroll, FileUnchanged
<1> DEFINE r == [call[c] EXCEPT !.pc = "store", !.op = "enroll",
                                !.print = k, !.slot = s]
<1>1. s \in Slots
  BY SlotGiven
<1>2. call[c] \in CallRecord /\ r \in CallRecord
  BY <1>1, OwnRecord, BeginType DEF CallPcs
<1>3. call' \in [Callers -> CallRecord] /\ call'[c] = r
  BY <1>2, Becomes
<1>4. TypeOK'
  BY <1>3 DEF TypeOK
<1>5. MediumInv'
  BY DEF MediumInv
<1>6. CallInv(c)' /\ SaveInv(c)'
  BY <1>1, <1>2, <1>3 DEF CallRecord, CallInv, SaveInv, Saving, OnDisk
<1> QED BY <1>4, <1>5, <1>6, OneCaller

LEMMA BeginDeleteStep ==
  ASSUME Serial, FileInv, NEW c \in Callers, NEW k \in Prints,
         BeginDelete(c, k)
  PROVE  FileInv'
<1> USE Members DEF FileInv, BeginDelete, FileUnchanged
<1> DEFINE r == [call[c] EXCEPT !.pc = "erase", !.op = "delete",
                                !.print = k, !.slot = rows[k]]
<1>1. rows[k] \in Slots
  BY DEF TypeOK, Registry
<1>2. call[c] \in CallRecord /\ r \in CallRecord
  BY <1>1, OwnRecord, BeginType DEF CallPcs
<1>3. call' \in [Callers -> CallRecord] /\ call'[c] = r
  BY <1>2, Becomes
<1>4. TypeOK'
  BY <1>3 DEF TypeOK
<1>5. MediumInv'
  BY DEF MediumInv
<1>6. CallInv(c)' /\ SaveInv(c)'
  BY <1>1, <1>2, <1>3 DEF CallRecord, CallInv, SaveInv, Saving, OnDisk
<1> QED BY <1>4, <1>5, <1>6, OneCaller

\* The steps of a call before the registry is changed.
LEMMA SensorStep ==
  ASSUME Serial, FileInv, NEW c \in Callers,
         StoreTemplate(c) \/ AbandonEnroll(c) \/ EraseTemplate(c)
  PROVE  FileInv'
<1> USE Members DEF FileInv
<1>1. call[c] \in CallRecord
  BY DEF TypeOK
<1>2. /\ call' \in [Callers -> CallRecord]
      /\ call[c].pc \in { "store", "erase" }
      /\ \/ /\ call[c].pc = "store"
            /\ call'[c] = [call[c] EXCEPT !.pc = "insert"]
         \/ /\ call[c].pc = "erase"
            /\ call'[c] = [call[c] EXCEPT !.pc = "remove"]
         \/ call'[c] = [Idle EXCEPT !.result = call[c].result]
  <2>1. CASE Goto(c, "insert") /\ call[c].pc = "store"
    BY <2>1, GotoRecord, Becomes DEF Goto
  <2>2. CASE Goto(c, "remove") /\ call[c].pc = "erase"
    BY <2>2, GotoRecord, Becomes DEF Goto
  <2>3. CASE Leave(c) /\ call[c].pc \in { "store", "erase" }
    <3>1. call[c].result \in { "none", "ok", "failed" }
      BY <1>1 DEF CallRecord
    <3> QED BY <2>3, <3>1, IdleRecord, Becomes DEF Leave
  <2> QED
    BY <2>1, <2>2, <2>3 DEF StoreTemplate, AbandonEnroll, EraseTemplate
<1>3. /\ flash' \in { flash, Stored(c), Erased(c) }
      /\ flash' = Stored(c) => call[c].pc = "store" \/ flash' = Erased(c)
                                \/ flash' = flash
      /\ FileUnchanged
      /\ UNCHANGED << phase, rows, faults, clean >>
  BY DEF StoreTemplate, AbandonEnroll, EraseTemplate
<1>4. flash' \in [Slots -> Prints \cup { None }]
  BY <1>3 DEF TypeOK, CallInv, Stored, Erased
<1>5. TypeOK'
  BY <1>2, <1>3, <1>4 DEF TypeOK, FileUnchanged
<1>6. MediumInv'
  BY <1>3 DEF MediumInv, FileUnchanged
<1>7. CallInv(c)' /\ SaveInv(c)'
  BY <1>1, <1>2, <1>3
     DEF CallRecord, CallInv, SaveInv, Saving, OnDisk, FileUnchanged
<1> QED BY <1>5, <1>6, <1>7, OneCaller

LEMMA ChangeStep ==
  ASSUME Serial, FileInv, NEW c \in Callers, Insert(c) \/ Remove(c)
  PROVE  FileInv'
<1> USE Members DEF FileInv
<1> DEFINE r == [call[c] EXCEPT !.pc = "snapshot", !.result = "none"]
<1>1. call[c] \in CallRecord /\ r \in CallRecord
  BY OwnRecord, SaveType
<1>2. /\ call' \in [Callers -> CallRecord] /\ call'[c] = r
      /\ call[c].pc \in { "insert", "remove" }
      /\ FileUnchanged
      /\ UNCHANGED << phase, flash, faults, clean >>
  BY <1>1, Becomes DEF Insert, Remove, StartSave
<1>3. rows' \in Registry
  BY <1>2 DEF Insert, Remove, TypeOK, Registry, CallInv
<1>4. TypeOK'
  BY <1>2, <1>3 DEF TypeOK, FileUnchanged
<1>5. MediumInv'
  BY <1>2 DEF MediumInv, FileUnchanged
<1>6. CallInv(c)' /\ SaveInv(c)'
  BY <1>1, <1>2 DEF CallRecord, CallInv, SaveInv, Saving, OnDisk
<1> QED BY <1>4, <1>5, <1>6, OneCaller

LEMMA SnapshotStep ==
  ASSUME Serial, FileInv, NEW c \in Callers, Snapshot(c)
  PROVE  FileInv'
<1> USE Members DEF FileInv, Snapshot, FileUnchanged
<1> DEFINE r == [call[c] EXCEPT !.pc = "open", !.bytes = rows]
<1>1. call[c] \in CallRecord /\ r \in CallRecord
  BY OwnRecord, SaveType DEF TypeOK, Content
<1>2. call' \in [Callers -> CallRecord] /\ call'[c] = r
  BY <1>1, Becomes
<1>3. TypeOK'
  BY <1>2 DEF TypeOK
<1>4. MediumInv'
  BY DEF MediumInv
<1>5. CallInv(c)' /\ SaveInv(c)'
  BY <1>1, <1>2 DEF CallRecord, CallInv, SaveInv, Saving, OnDisk
<1> QED BY <1>3, <1>4, <1>5, OneCaller

LEMMA OpenStep ==
  ASSUME Serial, FileInv, NEW c \in Callers, Open(c)
  PROVE  FileInv'
<1> USE Members DEF FileInv, Open
<1> DEFINE r == [call[c] EXCEPT !.pc = "write", !.fd = "tmp"]
<1>1. call[c] \in CallRecord /\ r \in CallRecord
  BY OwnRecord, SaveType
<1>2. call' \in [Callers -> CallRecord] /\ call'[c] = r
  BY <1>1, Becomes
<1>3. /\ file' \in [Names -> Content] /\ file'["tmp"] = Blank
      /\ safe' \in [Names -> Content] /\ file'["json"] = file["json"]
      /\ safe'["json"] = safe["json"]
  BY DEF TypeOK, Names, Content
<1>4. TypeOK'
  BY <1>2, <1>3 DEF TypeOK
<1>5. MediumInv'
  BY <1>3 DEF MediumInv
<1>6. CallInv(c)' /\ SaveInv(c)'
  BY <1>1, <1>2, <1>3 DEF CallRecord, CallInv, SaveInv, Saving, OnDisk
<1> QED BY <1>4, <1>5, <1>6, OneCaller

LEMMA WriteStep ==
  ASSUME Serial, FileInv, NEW c \in Callers, Write(c)
  PROVE  FileInv'
<1> USE Members DEF FileInv, Write
<1> DEFINE r == [call[c] EXCEPT !.pc = "sync"]
<1>1. call[c] \in CallRecord /\ r \in CallRecord
  BY DEF TypeOK, CallRecord, Saving
<1>2. call' \in [Callers -> CallRecord] /\ call'[c] = r
  BY <1>1, Becomes DEF Goto
<1>3. call[c].fd = "tmp" /\ file["tmp"] = Blank /\ call[c].bytes = rows
  BY DEF SaveInv, OnDisk
<1>4. file' = [file EXCEPT !["tmp"] = rows]
  BY <1>3 DEF Overwrite, Names
<1>5. /\ file' \in [Names -> Content] /\ file'["tmp"] = rows
      /\ file'["json"] = file["json"]
  BY <1>4 DEF TypeOK, Names, Content
<1>6. TypeOK'
  BY <1>2, <1>5 DEF TypeOK
<1>7. MediumInv'
  BY <1>5 DEF MediumInv
<1>8. CallInv(c)' /\ SaveInv(c)'
  BY <1>1, <1>2, <1>3, <1>5
     DEF CallRecord, CallInv, SaveInv, Saving, OnDisk
<1> QED BY <1>6, <1>7, <1>8, OneCaller

LEMMA SyncStep ==
  ASSUME Serial, FileInv, NEW c \in Callers, Sync(c)
  PROVE  FileInv'
<1> USE Members DEF FileInv, Sync
<1> DEFINE r == [call[c] EXCEPT !.pc = "rename"]
<1>1. call[c] \in CallRecord /\ r \in CallRecord
  BY DEF TypeOK, CallRecord, Saving
<1>2. call' \in [Callers -> CallRecord] /\ call'[c] = r
  BY <1>1, Becomes DEF Goto
<1>3. call[c].fd = "tmp" /\ file["tmp"] = rows /\ call[c].bytes = rows
  BY DEF SaveInv, OnDisk
<1>4. safe' = [safe EXCEPT !["tmp"] = rows]
  BY <1>3 DEF Names
<1>5. /\ safe' \in [Names -> Content] /\ safe'["tmp"] = rows
      /\ safe'["json"] = safe["json"]
  BY <1>4 DEF TypeOK, Names, Content
<1>6. TypeOK'
  BY <1>2, <1>5 DEF TypeOK
<1>7. MediumInv'
  BY <1>5 DEF MediumInv
<1>8. CallInv(c)' /\ SaveInv(c)'
  BY <1>1, <1>2, <1>3, <1>5
     DEF CallRecord, CallInv, SaveInv, Saving, OnDisk
<1> QED BY <1>6, <1>7, <1>8, OneCaller

\* Here the rows become users.json.
LEMMA RenameFacts ==
  ASSUME FileInv, NEW c \in Callers, Rename(c)
  PROVE  /\ file'["json"] = rows /\ safe'["json"] = rows
         /\ call'[c] = [Idle EXCEPT !.result = Saved(c)]
         /\ call' \in [Callers -> CallRecord]
<1> USE Members DEF FileInv, Rename
<1>1. file["tmp"] = rows /\ safe["tmp"] = rows
  BY DEF SaveInv
<1>2. ASSUME NEW d \in Callers PROVE call'[d] \in CallRecord
  <2>1. CASE d = c
    <3>1. Saved(c) \in { "none", "ok", "failed" }
      BY DEF Saved
    <3>2. call'[d] = [Idle EXCEPT !.result = Saved(c)]
      BY <2>1
    <3> QED BY <3>1, <3>2, IdleRecord
  <2>2. CASE d # c
    <3>1. call[d] \in CallRecord
      BY DEF TypeOK
    <3>2. Follow(call[d].fd) \in { "none", "tmp", "json", "gone" }
      <4>1. call[d].fd \in { "none", "tmp", "json", "gone" }
        BY <3>1 DEF CallRecord
      <4> QED BY <4>1 DEF Follow
    <3>3. call'[d] = [call[d] EXCEPT !.fd = Follow(call[d].fd)]
      BY <2>2
    <3> QED BY <3>1, <3>2, <3>3 DEF CallRecord
  <2> QED BY <2>1, <2>2
<1> QED BY <1>1, <1>2 DEF Names

LEMMA RenameStep ==
  ASSUME Serial, FileInv, NEW c \in Callers, Rename(c)
  PROVE  FileInv'
<1> USE Members DEF FileInv
<1>1. /\ file' \in [Names -> Content] /\ safe' \in [Names -> Content]
      /\ stale' \in Whole /\ linked' = FALSE
      /\ phase' = IF call[c].op = "boot" THEN "up" ELSE phase
      /\ UNCHANGED << rows, flash, faults, clean >>
  BY DEF Rename, TypeOK, MediumInv, Names, Content
<1>2. TypeOK'
  BY <1>1, RenameFacts DEF TypeOK, Whole, Content
<1>3. MediumInv'
  BY <1>1, RenameFacts DEF MediumInv, TypeOK, Whole
<1>4. Saved(c) \in { "none", "ok" }
  BY DEF Saved
<1>5. call[c].op # "boot" => phase # "down"
  BY DEF CallInv, Rename, Saving
<1>6. /\ call'[c].pc = "idle" /\ call'[c].op = "none"
      /\ call'[c].result = Saved(c)
      /\ phase' # "down"
  <2>1. call'[c] = [Idle EXCEPT !.result = Saved(c)]
    BY RenameFacts
  <2>2. call[c].op = "boot" \/ phase # "down"
    BY <1>5
  <2> QED BY <1>1, <2>1, <2>2
<1>7. CallInv(c)' /\ SaveInv(c)'
  BY <1>6 DEF CallInv, SaveInv, Saving, OnDisk
<1> QED BY <1>2, <1>3, <1>7, OneCaller

\* A stopped process leaves a file nobody is saving.
LEMMA Stopped ==
  ASSUME FileInv, StopProcess,
         flash' \in [Slots -> Prints \cup { None }],
         file' \in [Names -> Content], safe' \in [Names -> Content],
         linked' \in BOOLEAN, MediumInv',
         faults' \in 0 .. MaxFaults, clean' \in BOOLEAN
  PROVE  FileInv'
<1> USE Members DEF StopProcess
<1>1. Idle \in CallRecord
  BY DEF CallRecord, Content
<1>2. TypeOK'
  BY <1>1 DEF TypeOK, MediumInv, Whole, Content
<1>3. ASSUME NEW c \in Callers PROVE CallInv(c)' /\ SaveInv(c)'
  <2>1. call'[c] = Idle
    OBVIOUS
  <2> QED BY <2>1 DEF CallInv, SaveInv, Saving, OnDisk
<1> QED BY <1>2, <1>3 DEF FileInv

LEMMA FailStep ==
  ASSUME Serial, FileInv, NEW c \in Callers, FileError(c)
  PROVE  FileInv'
<1> USE Members
<1>1. /\ Fail(c) /\ UNCHANGED << flash, safe, linked, stale >>
      /\ call[c].pc \in OnDisk
      /\ faults' \in 0 .. MaxFaults
  BY DEF FileError, OnDisk, Fault, FileInv, TypeOK
<1>2. file' \in [Names -> Content] /\ file'["json"] = file["json"]
  <2>1. CASE call[c].pc = "write" /\ call[c].fd \in Names
    <3>1. call[c].fd = "tmp" /\ file' = [file EXCEPT !["tmp"] = Garbage]
      BY <2>1 DEF FileError, FileInv, SaveInv
    <3> QED BY <3>1 DEF FileInv, TypeOK, Names, Content
  <2>2. CASE ~ (call[c].pc = "write" /\ call[c].fd \in Names)
    BY <2>2 DEF FileError, FileInv, TypeOK
  <2> QED BY <2>1, <2>2
<1>3. MediumInv'
  BY <1>1, <1>2 DEF FileInv, MediumInv
<1>4. clean' = FALSE
  BY <1>1 DEF Fail
<1>5. CASE call[c].op = "boot"
  <2>1. StopProcess
    BY <1>1, <1>5 DEF Fail
  <2> QED BY <1>1, <1>2, <1>3, <1>4, <2>1, Stopped DEF FileInv, TypeOK
<1>6. CASE call[c].op # "boot"
  <2> DEFINE r == [Idle EXCEPT !.result = "failed"]
  <2>1. Become(c, r) /\ UNCHANGED << phase, rows >>
    BY <1>1, <1>6 DEF Fail
  <2>2. call' \in [Callers -> CallRecord] /\ call'[c] = r
    BY <2>1, IdleRecord, Becomes DEF FileInv
  <2>3. TypeOK'
    BY <1>1, <1>2, <1>4, <2>1, <2>2 DEF FileInv, TypeOK
  <2>4. phase # "down"
    BY <1>1, <1>6 DEF FileInv, CallInv, OnDisk, Saving
  <2>5. CallInv(c)' /\ SaveInv(c)'
    BY <2>1, <2>2, <2>4 DEF CallInv, SaveInv, Saving, OnDisk
  <2> QED BY <1>3, <2>3, <2>5, OneCaller
<1> QED BY <1>5, <1>6

LEMMA KillStep ==
  ASSUME Serial, FileInv, Kill
  PROVE  FileInv'
<1>1. flash' \in [Slots -> Prints \cup { None }]
  BY PerformedType DEF Kill, FileInv
<1>2. MediumInv'
  BY DEF FileInv, MediumInv, Kill, FileUnchanged
<1>3. /\ StopProcess /\ faults' \in 0 .. MaxFaults
      /\ FileUnchanged /\ UNCHANGED clean
  BY DEF Kill, Fault, FileInv, TypeOK
<1> QED BY <1>1, <1>2, <1>3, Stopped DEF FileInv, TypeOK, FileUnchanged

\* The power takes users.json back to what the medium has: a whole registry.
LEMMA PowerFacts ==
  ASSUME FileInv, PowerLoss
  PROVE  /\ file'["json"] = IF linked THEN safe["json"] ELSE stale
         /\ safe' = file' /\ stale' = file'["json"]
         /\ file' \in [Names -> Whole]
<1>1. OnMedium = { IF linked THEN safe["json"] ELSE stale }
  BY DEF OnMedium, FileInv, MediumInv
<1>2. (IF linked THEN safe["json"] ELSE stale) \in Whole
  BY DEF FileInv, MediumInv
<1> QED BY <1>1, <1>2 DEF PowerLoss, Names, Whole

LEMMA PowerStep ==
  ASSUME Serial, FileInv, PowerLoss
  PROVE  FileInv'
<1>1. flash' \in [Slots -> Prints \cup { None }]
  BY PerformedType DEF PowerLoss, FileInv
<1>2. file' \in [Names -> Content]
  BY PowerFacts DEF Whole, Content
<1>3. MediumInv'
  BY PowerFacts DEF MediumInv, Names
<1>4. /\ StopProcess /\ faults' \in 0 .. MaxFaults
      /\ linked' = TRUE /\ clean' = FALSE
  BY DEF PowerLoss, Fault, FileInv, TypeOK
<1> QED BY <1>1, <1>2, <1>3, <1>4, PowerFacts, Stopped

LEMMA CommitStep ==
  ASSUME FileInv, Commit
  PROVE  FileInv'
<1> USE DEF FileInv, Commit
<1>1. TypeOK' BY DEF TypeOK
<1>2. MediumInv' BY DEF MediumInv
<1>3. ASSUME NEW c \in Callers PROVE CallInv(c)' /\ SaveInv(c)'
  BY DEF CallInv, SaveInv
<1> QED BY <1>1, <1>2, <1>3

LEMMA FileStutter ==
  ASSUME FileInv, UNCHANGED vars
  PROVE  FileInv'
<1> USE DEF FileInv, vars
<1>1. TypeOK' BY DEF TypeOK
<1>2. MediumInv' BY DEF MediumInv
<1>3. ASSUME NEW c \in Callers PROVE CallInv(c)' /\ SaveInv(c)'
  BY DEF CallInv, SaveInv
<1> QED BY <1>1, <1>2, <1>3

LEMMA FileNext ==
  ASSUME Serial, FileInv, [Next]_vars
  PROVE  FileInv'
<1>1. ASSUME NEW c \in Callers, Step(c) PROVE FileInv'
  <2>1. CASE Boot(c) BY <2>1, BootStep
  <2>2. ASSUME NEW k \in Prints, NEW s \in 0 .. Capacity,
               BeginEnroll(c, k, s)
        PROVE  FileInv'
    BY <2>2, BeginEnrollStep
  <2>3. ASSUME NEW k \in Prints, BeginDelete(c, k) PROVE FileInv'
    BY <2>3, BeginDeleteStep
  <2>4. CASE StoreTemplate(c) \/ AbandonEnroll(c) \/ EraseTemplate(c)
    BY <2>4, SensorStep
  <2>5. CASE Insert(c) \/ Remove(c) BY <2>5, ChangeStep
  <2>6. CASE Snapshot(c) BY <2>6, SnapshotStep
  <2>7. CASE Open(c) BY <2>7, OpenStep
  <2>8. CASE Write(c) BY <2>8, WriteStep
  <2>9. CASE Sync(c) BY <2>9, SyncStep
  <2>10. CASE Rename(c) BY <2>10, RenameStep
  <2>11. CASE FileError(c) BY <2>11, FailStep
  <2> QED
    BY <1>1, <2>1, <2>2, <2>3, <2>4, <2>5, <2>6, <2>7, <2>8, <2>9, <2>10,
       <2>11
    DEF Step
<1>2. CASE Commit BY <1>2, CommitStep
<1>3. CASE Kill BY <1>3, KillStep
<1>4. CASE PowerLoss BY <1>4, PowerStep
<1>5. CASE UNCHANGED vars BY <1>5, FileStutter
<1> QED BY <1>1, <1>2, <1>3, <1>4, <1>5 DEF Next

\* With one caller at a time the file protocol keeps its invariant.
THEOREM FileInvariance == Serial => (Spec => []FileInv)
<1> SUFFICES ASSUME Serial PROVE Spec => []FileInv
  OBVIOUS
<1>1. Init => FileInv BY FileInit
<1>2. FileInv /\ [Next]_vars => FileInv' BY FileNext
<1> QED BY <1>1, <1>2, PTL DEF Spec

\* The rows of storage.rs and the slots of its calls stay within the capacity.
THEOREM FileTypeCorrect == Serial => (Spec => []TypeOK)
<1> SUFFICES ASSUME Serial PROVE Spec => []TypeOK
  OBVIOUS
<1>1. FileInv => TypeOK BY DEF FileInv
<1>2. Spec => []FileInv BY FileInvariance
<1> QED BY <1>1, <1>2, PTL

\* Whatever stops the daemon - a kill, a failed file operation at boot, a power
\* loss - storage.rs's Storage::open can parse what save() left behind.
THEOREM AlwaysBoots == Serial => (Spec => []BootReads)
<1> SUFFICES ASSUME Serial PROVE Spec => []BootReads
  OBVIOUS
<1>1. FileInv => BootReads
  BY DEF FileInv, MediumInv, Whole, BootReads
<1>2. Spec => []FileInv BY FileInvariance
<1> QED BY <1>1, <1>2, PTL

-----------------------------------------------------------------------------
(* The file steps implement AtomicRegistry. *)

LEMMA Seen ==
  ASSUME Serial, TypeOK, NEW c \in Callers
  PROVE  /\ Pending = (call[c].op # "boot" /\ call[c].pc \in Saving)
         /\ Outcome = call[c].result
<1>1. Callers = { c }
  BY Alone
<1>2. call[c].result \in { "none", "ok", "failed" }
  BY DEF TypeOK, CallRecord
<1> QED BY <1>1, <1>2 DEF Pending, Outcome, Returned

LEMMA SeenNext ==
  ASSUME Serial, TypeOK', NEW c \in Callers
  PROVE  /\ Pending' = (call'[c].op # "boot" /\ call'[c].pc \in Saving)
         /\ Outcome' = call'[c].result
<1>1. Callers = { c }
  BY Alone
<1>2. call'[c].result \in { "none", "ok", "failed" }
  BY DEF TypeOK, CallRecord
<1> QED BY <1>1, <1>2 DEF Pending, Outcome, Returned

LEMMA SeenStopped ==
  ASSUME StopProcess
  PROVE  Pending' = FALSE /\ Outcome' = "none"
<1>1. \A c \in Callers : call'[c] = Idle
  BY DEF StopProcess
<1> QED BY <1>1 DEF Idle, Saving, Pending, Outcome, Returned

LEMMA StepImplements ==
  ASSUME Serial, FileInv, FileInv', NEW c \in Callers, Step(c)
  PROVE  Atomic!Next \/ UNCHANGED Atomic!vars
<1> USE Members DEF Atomic!vars
<1>0. /\ TypeOK /\ TypeOK' /\ CallInv(c) /\ SaveInv(c)
      /\ call[c] \in CallRecord
  BY DEF FileInv, TypeOK
<1>1. /\ Pending = (call[c].op # "boot" /\ call[c].pc \in Saving)
      /\ Outcome = call[c].result
      /\ Pending' = (call'[c].op # "boot" /\ call'[c].pc \in Saving)
      /\ Outcome' = call'[c].result
  BY <1>0, Seen, SeenNext
<1>2. CASE Boot(c)
  <2>1. call'[c] = [Idle EXCEPT !.pc = "snapshot", !.op = "boot"]
    BY <1>0, <1>2 DEF Boot, Become, TypeOK
  <2>2. Pending' = Pending /\ Outcome' = Outcome
    BY <1>0, <1>1, <1>2, <2>1 DEF Boot, CallInv
  <2>3. Durable' = Durable
    BY <1>2 DEF Boot, FileUnchanged, Durable
  <2>4. Atomic!Boot
    BY <1>2, <2>2, <2>3
       DEF Boot, FileUnchanged, Atomic!Boot, NoFile, NoRows, Atomic!NoRows
  <2> QED BY <2>4 DEF Atomic!Next
<1>3. ASSUME NEW k \in Prints, NEW s \in 0 .. Capacity, BeginEnroll(c, k, s)
      PROVE  UNCHANGED Atomic!vars
  <2>1. call'[c] = [call[c] EXCEPT !.pc = "store", !.op = "enroll",
                                   !.print = k, !.slot = s]
    BY <1>0, <1>3 DEF BeginEnroll, Become, TypeOK
  <2> QED BY <1>0, <1>1, <1>3, <2>1
             DEF BeginEnroll, FileUnchanged, Durable, Saving, CallRecord
<1>4. ASSUME NEW k \in Prints, BeginDelete(c, k)
      PROVE  UNCHANGED Atomic!vars
  <2>1. call'[c] = [call[c] EXCEPT !.pc = "erase", !.op = "delete",
                                   !.print = k, !.slot = rows[k]]
    BY <1>0, <1>4 DEF BeginDelete, Become, TypeOK
  <2> QED BY <1>0, <1>1, <1>4, <2>1
             DEF BeginDelete, FileUnchanged, Durable, Saving, CallRecord
<1>5. CASE StoreTemplate(c) \/ AbandonEnroll(c) \/ EraseTemplate(c)
  <2>1. /\ call[c].pc \in { "store", "erase" }
        /\ \/ call'[c] = [call[c] EXCEPT !.pc = "insert"]
           \/ call'[c] = [call[c] EXCEPT !.pc = "remove"]
           \/ call'[c] = [Idle EXCEPT !.result = call[c].result]
        /\ FileUnchanged /\ UNCHANGED << phase, rows >>
    BY <1>0, <1>5 DEF StoreTemplate, AbandonEnroll, EraseTemplate,
                      Goto, Leave, Become, TypeOK
  <2>2. Pending' = Pending /\ Outcome' = Outcome
    BY <1>0, <1>1, <2>1 DEF Saving, CallRecord
  <2> QED BY <2>1, <2>2 DEF FileUnchanged, Durable
<1>6. CASE Insert(c) \/ Remove(c)
  <2>1. /\ call'[c] = [call[c] EXCEPT !.pc = "snapshot", !.result = "none"]
        /\ call[c].pc \in { "insert", "remove" }
        /\ FileUnchanged /\ UNCHANGED phase
    BY <1>0, <1>6 DEF Insert, Remove, StartSave, Become, TypeOK
  <2>2. /\ Pending = FALSE /\ Pending' = TRUE /\ Outcome' = "none"
        /\ Durable' = Durable
    BY <1>0, <1>1, <2>1
       DEF CallInv, Saving, CallRecord, FileUnchanged, Durable
  <2>3. /\ phase = "up" /\ call[c].print \in Prints
        /\ call[c].slot \in Slots
    BY <1>0, <2>1 DEF CallInv
  <2>4. \E k \in Prints, s \in Slots \cup { None } :
          rows' = [rows EXCEPT ![k] = s]
    BY <1>6, <2>3 DEF Insert, Remove
  <2>5. Atomic!Update
    BY <2>1, <2>2, <2>3, <2>4 DEF Atomic!Update, FileUnchanged
  <2> QED BY <2>5 DEF Atomic!Next
<1>7. CASE Snapshot(c) \/ Open(c) \/ Write(c) \/ Sync(c)
  <2>1. /\ call[c].pc \in Saving /\ call'[c].pc \in Saving
        /\ call'[c].op = call[c].op /\ call'[c].result = call[c].result
        /\ UNCHANGED << phase, rows, linked, stale >>
    <3>1. \/ call'[c] = [call[c] EXCEPT !.pc = "open", !.bytes = rows]
          \/ call'[c] = [call[c] EXCEPT !.pc = "write", !.fd = "tmp"]
          \/ call'[c] = [call[c] EXCEPT !.pc = "sync"]
          \/ call'[c] = [call[c] EXCEPT !.pc = "rename"]
      BY <1>0, <1>7 DEF Snapshot, Open, Write, Sync, Goto, Become, TypeOK
    <3>2. /\ call[c].pc \in Saving
          /\ UNCHANGED << phase, rows, linked, stale >>
      BY <1>7 DEF Snapshot, Open, Write, Sync, FileUnchanged, Saving
    <3> QED BY <1>0, <3>1, <3>2 DEF CallRecord, Saving
  <2>2. file'["json"] = file["json"] /\ safe'["json"] = safe["json"]
    BY <1>0, <1>7 DEF Snapshot, Open, Write, Sync, FileUnchanged, TypeOK,
                      Names, SaveInv
  <2> QED BY <1>1, <2>1, <2>2 DEF Durable
<1>8. CASE Rename(c)
  <2>1. /\ file'["json"] = rows
        /\ call'[c] = [Idle EXCEPT !.result = Saved(c)]
    BY <1>8, RenameFacts
  <2>2. /\ linked' = FALSE /\ UNCHANGED rows
        /\ stale' = IF linked THEN safe["json"] ELSE stale
        /\ phase' = IF call[c].op = "boot" THEN "up" ELSE phase
    BY <1>8 DEF Rename
  <2>3. Durable' = Durable
    BY <2>2 DEF Durable
  <2>4. Pending' = FALSE /\ call[c].pc \in Saving
    BY <1>1, <1>8, <2>1 DEF Saving, Rename
  <2>5. CASE call[c].op = "boot"
    <3>1. phase = "booting" /\ Pending = FALSE /\ Outcome' = Outcome
      BY <1>0, <1>1, <2>1, <2>4, <2>5 DEF CallInv, Saved
    <3>2. Atomic!Ready
      BY <2>1, <2>2, <2>3, <2>4, <2>5, <3>1 DEF Atomic!Ready
    <3> QED BY <3>2 DEF Atomic!Next
  <2>6. CASE call[c].op # "boot"
    <3>1. Pending = TRUE /\ Outcome' = "ok"
      BY <1>1, <2>1, <2>4, <2>6 DEF Saved
    <3>2. Atomic!Publish
      BY <2>1, <2>2, <2>3, <2>4, <2>6, <3>1 DEF Atomic!Publish
    <3> QED BY <3>2 DEF Atomic!Next
  <2> QED BY <2>5, <2>6
<1>9. CASE FileError(c)
  <2>1. /\ Fail(c) /\ UNCHANGED << safe, linked, stale >>
        /\ call[c].pc \in Saving
    BY <1>9 DEF FileError, Saving
  <2>2. file'["json"] = file["json"] /\ Durable' = Durable
    BY <2>1 DEF FileInv, MediumInv, Durable
  <2>3. CASE call[c].op = "boot"
    <3>1. StopProcess
      BY <2>1, <2>3 DEF Fail
    <3>2. Atomic!Down
      BY <2>2, <3>1, SeenStopped
         DEF StopProcess, Atomic!Down, NoRows, Atomic!NoRows
    <3> QED BY <3>2 DEF Atomic!Next
  <2>4. CASE call[c].op # "boot"
    <3>1. /\ call'[c] = [Idle EXCEPT !.result = "failed"]
          /\ UNCHANGED << phase, rows >>
      BY <1>0, <2>1, <2>4 DEF Fail, Become, TypeOK
    <3>2. Pending = TRUE /\ Pending' = FALSE /\ Outcome' = "failed"
      BY <1>1, <2>1, <2>4, <3>1 DEF Saving
    <3>3. Atomic!Fail
      BY <2>2, <3>1, <3>2 DEF Atomic!Fail
    <3> QED BY <3>3 DEF Atomic!Next
  <2> QED BY <2>3, <2>4
<1> QED BY <1>2, <1>3, <1>4, <1>5, <1>6, <1>7, <1>8, <1>9 DEF Step

LEMMA NextImplements ==
  ASSUME Serial, FileInv, FileInv', [Next]_vars
  PROVE  Atomic!Next \/ UNCHANGED Atomic!vars
<1>1. ASSUME NEW c \in Callers, Step(c)
      PROVE  Atomic!Next \/ UNCHANGED Atomic!vars
  BY <1>1, StepImplements
<1>2. CASE Commit
  <2>1. Durable' = file["json"] /\ Pending' = Pending /\ Outcome' = Outcome
    BY <1>2 DEF Commit, Durable, Pending, Outcome, Returned, FileInv,
                MediumInv
  <2>2. Atomic!Flush
    BY <1>2, <2>1 DEF Commit, Atomic!Flush
  <2> QED BY <2>2 DEF Atomic!Next
<1>3. CASE Kill
  <2>1. StopProcess /\ FileUnchanged
    BY <1>3 DEF Kill
  <2>2. Atomic!Down
    BY <2>1, SeenStopped
       DEF StopProcess, FileUnchanged, Durable, Atomic!Down, NoRows,
           Atomic!NoRows
  <2> QED BY <2>2 DEF Atomic!Next
<1>4. CASE PowerLoss
  <2>1. StopProcess /\ linked' = TRUE
    BY <1>4 DEF PowerLoss
  <2>2. file'["json"] = Durable /\ Durable' = Durable
    BY <1>4, <2>1, PowerFacts DEF Durable
  <2>3. Atomic!Down
    BY <2>1, <2>2, SeenStopped
       DEF StopProcess, Atomic!Down, NoRows, Atomic!NoRows
  <2> QED BY <2>3 DEF Atomic!Next
<1>5. CASE UNCHANGED vars
  BY <1>5 DEF vars, Atomic!vars, Durable, Pending, Outcome, Returned
<1> QED BY <1>1, <1>2, <1>3, <1>4, <1>5 DEF Next

\* The registry calls of one caller are atomic updates of users.json: save()
\* reports success only when the whole update is in the file, a failure or a
\* crash leaves the previous registry, and a power loss an earlier whole one.
THEOREM SerialSavesAreAtomic == Serial => (Spec => ImplementsAtomic)
<1> SUFFICES ASSUME Serial PROVE Spec => ImplementsAtomic
  OBVIOUS
<1>1. Init => Atomic!Init
  <2> SUFFICES ASSUME Init PROVE Atomic!Init
    OBVIOUS
  <2>1. \A c \in Callers : call[c] = Idle
    BY DEF Init
  <2>2. Pending = FALSE /\ Outcome = "none"
    BY <2>1 DEF Idle, Saving, Pending, Outcome, Returned
  <2>3. file["json"] = None /\ Durable = None
    BY DEF Init, Durable, Names, NoFile
  <2> QED BY <2>2, <2>3 DEF Init, Atomic!Init, NoRows, Atomic!NoRows
<1>2. FileInv /\ FileInv' /\ [Next]_vars => [Atomic!Next]_(Atomic!vars)
  BY NextImplements
<1>3. Spec => []FileInv BY FileInvariance
<1> QED BY <1>1, <1>2, <1>3, PTL DEF Spec, Atomic!Spec, ImplementsAtomic

-----------------------------------------------------------------------------
(* The labels. *)

LEMMA LabelInit == ASSUME Init PROVE LabelInv
<1>1. Sound(NoRows)
  BY DEF Sound, Labelled, Injective, NoRows
<1>2. file["json"] \notin Registry
  BY DEF Init, Names, NoFile, Registry
<1>3. \A c \in Callers : call[c].pc = "idle"
  BY DEF Init, Idle
<1> QED BY <1>1, <1>2, <1>3 DEF Init, LabelInv

\* A template stored in a slot no other print has, or erased, spoils no label.
LEMMA FlashKeepsLabels ==
  ASSUME FileInv, NEW r \in Registry, Sound(r), NEW c \in Callers,
         \/ flash' = flash
         \/ /\ flash' = Stored(c) /\ call[c].slot \in Slots
            /\ \A k \in Prints : k # call[c].print => r[k] # call[c].slot
         \/ flash' = Erased(c)
  PROVE  \A k \in Prints : r[k] # None => flash'[r[k]] \in { k, None }
<1> SUFFICES ASSUME NEW k \in Prints, r[k] # None
             PROVE  flash'[r[k]] \in { k, None }
  OBVIOUS
<1>1. r[k] \in Slots /\ flash[r[k]] \in { k, None }
  BY DEF Registry, Sound, Labelled
<1> QED BY <1>1 DEF Stored, Erased, FileInv, TypeOK

LEMMA LabelSensor ==
  ASSUME Serial, FileInv, LabelInv, NEW c \in Callers,
         StoreTemplate(c) \/ AbandonEnroll(c) \/ EraseTemplate(c)
  PROVE  LabelInv'
<1> SUFFICES ASSUME clean' PROVE LabelInv'
  BY DEF LabelInv
<1>1. /\ TypeOK /\ CallInv(c) /\ call[c] \in CallRecord /\ Callers = { c }
      /\ clean /\ FileUnchanged /\ UNCHANGED << phase, rows, clean >>
  BY Alone DEF FileInv, TypeOK, StoreTemplate, AbandonEnroll, EraseTemplate
<1>2. /\ call[c].pc \in { "store", "erase" }
      /\ \/ flash' = flash
         \/ flash' = Stored(c) /\ call[c].pc = "store"
         \/ flash' = Erased(c)
      /\ \/ /\ call'[c] = [call[c] EXCEPT !.pc = "insert"]
            /\ call[c].pc = "store" /\ flash' = Stored(c)
         \/ call'[c] = [call[c] EXCEPT !.pc = "remove"]
         \/ call'[c] = [Idle EXCEPT !.result = call[c].result]
  BY <1>1 DEF StoreTemplate, AbandonEnroll, EraseTemplate, Goto, Leave,
              Become, TypeOK
<1>3. /\ phase = "up" /\ call[c].slot \in Slots
      /\ file["json"] = rows /\ Sound(rows)
      /\ call[c].pc = "store" =>
           \A k \in Prints : k # call[c].print => rows[k] # call[c].slot
  BY <1>1, <1>2 DEF LabelInv, CallInv, Saving
<1>4. Sound(rows)'
  <2>1. rows \in Registry
    BY <1>1 DEF TypeOK
  <2>2. \A k \in Prints : rows[k] # None => flash'[rows[k]] \in { k, None }
    BY <1>2, <1>3, <2>1, FlashKeepsLabels
  <2> QED BY <1>1, <1>3, <2>2 DEF Sound, Labelled, Injective
<1>5. file'["json"] = rows' /\ rows' = rows
  BY <1>1, <1>3 DEF FileUnchanged
<1>6. /\ call'[c].pc \in { "store", "insert" } =>
           \A k \in Prints : k # call'[c].print => rows[k] # call'[c].slot
      /\ call'[c].pc = "insert" => flash'[call'[c].slot] = call'[c].print
  BY <1>1, <1>2, <1>3 DEF Idle, CallRecord, Stored, TypeOK
<1>7. Sound(file["json"])'
  BY <1>4, <1>5 DEF Sound, Labelled, Injective
<1> QED BY <1>1, <1>4, <1>5, <1>6, <1>7 DEF LabelInv

LEMMA LabelKill ==
  ASSUME Serial, FileInv, LabelInv, Kill
  PROVE  LabelInv'
<1> SUFFICES ASSUME clean PROVE LabelInv'
  BY DEF LabelInv, Kill
<1>1. /\ phase' = "down" /\ rows' = NoRows /\ flash' \in Performed
      /\ call' = [c \in Callers |-> Idle]
      /\ file' = file
  BY DEF Kill, StopProcess, FileUnchanged
<1>2. Sound(rows)'
  BY <1>1 DEF Sound, Labelled, Injective, NoRows
<1>3. ASSUME file["json"] \in Registry
      PROVE  \A k \in Prints : file["json"][k] # None =>
               flash'[file["json"][k]] \in { k, None }
  <2>0. Sound(file["json"])
    BY <1>3 DEF LabelInv
  <2>1. CASE flash' = flash
    BY <2>0, <2>1 DEF Sound, Labelled
  <2>2. ASSUME NEW c \in Callers, call[c].pc = "store", flash' = Stored(c)
        PROVE  \A k \in Prints : file["json"][k] # None =>
                 flash'[file["json"][k]] \in { k, None }
    <3>1. phase = "up" /\ call[c].slot \in Slots
      BY <2>2 DEF FileInv, CallInv
    <3>2. /\ file["json"] = rows
          /\ \A k \in Prints : k # call[c].print => rows[k] # call[c].slot
      BY <2>2, <3>1 DEF LabelInv, Saving
    <3> QED BY <1>3, <2>0, <2>2, <3>1, <3>2, FlashKeepsLabels
  <2>3. ASSUME NEW c \in Callers, flash' = Erased(c)
        PROVE  \A k \in Prints : file["json"][k] # None =>
                 flash'[file["json"][k]] \in { k, None }
    BY <1>3, <2>0, <2>3, FlashKeepsLabels
  <2> QED BY <1>1, <2>1, <2>2, <2>3 DEF Performed
<1>4. file'["json"] \in Registry => Sound(file["json"])'
  BY <1>1, <1>3 DEF LabelInv, Sound, Labelled, Injective
<1>5. \A c \in Callers : call'[c].pc = "idle"
  BY <1>1 DEF Idle
<1> QED BY <1>1, <1>2, <1>4, <1>5 DEF LabelInv

LEMMA LabelBoot ==
  ASSUME Serial, FileInv, LabelInv, NEW c \in Callers, Boot(c)
  PROVE  LabelInv'
<1> SUFFICES ASSUME clean PROVE LabelInv'
  BY DEF LabelInv, Boot
<1>1. /\ file' = file /\ flash' = flash /\ phase' = "booting"
      /\ call'[c].pc = "snapshot" /\ Callers = { c }
      /\ rows' = IF file["json"] = NoFile THEN NoRows ELSE file["json"]
      /\ file["json"] \in Registry \cup { NoFile }
  BY Alone DEF Boot, FileUnchanged, Become, Idle, FileInv, TypeOK
<1>2. file["json"] \in Registry => Sound(file["json"])
  BY DEF LabelInv
<1>3. Sound(rows)'
  <2>1. CASE file["json"] = NoFile
    BY <1>1, <2>1 DEF Sound, Labelled, Injective, NoRows
  <2>2. CASE file["json"] # NoFile
    BY <1>1, <1>2, <2>2 DEF Sound, Labelled, Injective
  <2> QED BY <2>1, <2>2
<1>4. file'["json"] \in Registry => Sound(file["json"])'
  BY <1>1, <1>2 DEF Sound, Labelled, Injective
<1> QED BY <1>1, <1>3, <1>4 DEF LabelInv

LEMMA LabelBegin ==
  ASSUME Serial, FileInv, LabelInv, NEW c \in Callers, NEW k \in Prints,
         \/ \E s \in 0 .. Capacity : BeginEnroll(c, k, s)
         \/ BeginDelete(c, k)
  PROVE  LabelInv'
<1> SUFFICES ASSUME clean PROVE LabelInv'
  BY DEF LabelInv, BeginEnroll, BeginDelete
<1>1. /\ TypeOK /\ call[c] \in CallRecord /\ Callers = { c }
      /\ phase = "up" /\ call[c].pc = "idle"
      /\ UNCHANGED << phase, rows, flash, clean >> /\ file' = file
  BY Alone DEF FileInv, TypeOK, BeginEnroll, BeginDelete, FileUnchanged
<1>2. /\ Sound(rows) /\ file["json"] = rows
  BY <1>1 DEF LabelInv, Saving
<1>3. Sound(rows)' /\ Sound(file["json"])'
  BY <1>1, <1>2 DEF Sound, Labelled, Injective
<1>4. /\ call'[c].pc \in { "store", "erase" }
      /\ call'[c].pc = "store" =>
           \A l \in Prints : l # call'[c].print => rows[l] # call'[c].slot
  <2>1. ASSUME NEW s \in 0 .. Capacity, BeginEnroll(c, k, s) PROVE <1>4!1 /\ <1>4!2
    <3>1. /\ call'[c].pc = "store" /\ call'[c].print = k
          /\ call'[c].slot = s /\ TargetSlot(k, s)
      BY <1>1, <2>1 DEF BeginEnroll, Become, TypeOK, CallRecord
    <3>2. ASSUME NEW l \in Prints, l # k PROVE rows[l] # s
      <4>1. CASE rows[k] # None
        BY <1>2, <3>1, <3>2, <4>1 DEF TargetSlot, Sound, Injective
      <4>2. CASE rows[k] = None
        BY <3>1, <4>2 DEF TargetSlot, LowestFree, UsedSlots
      <4> QED BY <4>1, <4>2
    <3> QED BY <3>1, <3>2
  <2>2. CASE BeginDelete(c, k)
    BY <1>1, <2>2 DEF BeginDelete, Become, TypeOK, CallRecord
  <2> QED BY <2>1, <2>2
<1> QED BY <1>1, <1>2, <1>3, <1>4 DEF LabelInv, Saving

LEMMA LabelChange ==
  ASSUME Serial, FileInv, LabelInv, NEW c \in Callers, Insert(c) \/ Remove(c)
  PROVE  LabelInv'
<1> SUFFICES ASSUME clean PROVE LabelInv'
  BY DEF LabelInv, Insert, Remove
<1>1. /\ TypeOK /\ call[c] \in CallRecord /\ Callers = { c }
      /\ CallInv(c) /\ call[c].pc \in { "insert", "remove" }
      /\ flash' = flash /\ file' = file
      /\ call'[c].pc = "snapshot"
  <2>1. TypeOK /\ call[c] \in CallRecord /\ Callers = { c } /\ CallInv(c)
    BY Alone DEF FileInv, TypeOK
  <2>2. call'[c] = [call[c] EXCEPT !.pc = "snapshot", !.result = "none"]
    BY <2>1 DEF Insert, Remove, StartSave, Become, TypeOK
  <2> QED BY <2>1, <2>2 DEF Insert, Remove, FileUnchanged, CallRecord
<1>2. /\ call[c].print \in Prints /\ call[c].slot \in Slots
      /\ Sound(rows)
      /\ file["json"] \in Registry => Sound(file["json"])
  BY <1>1 DEF LabelInv, CallInv
<1>3. file'["json"] \in Registry => Sound(file["json"])'
  BY <1>1, <1>2 DEF Sound, Labelled, Injective
<1>4. Sound(rows)'
  <2>1. CASE Insert(c)
    <3>1. /\ rows' = [rows EXCEPT ![call[c].print] = call[c].slot]
          /\ flash[call[c].slot] = call[c].print
          /\ \A l \in Prints : l # call[c].print => rows[l] # call[c].slot
      BY <1>1, <2>1 DEF Insert, LabelInv
    <3> QED BY <1>1, <1>2, <3>1
            DEF Sound, Labelled, Injective, TypeOK, Registry
  <2>2. CASE Remove(c)
    <3>1. rows' = [rows EXCEPT ![call[c].print] = None]
      BY <2>2 DEF Remove
    <3> QED BY <1>1, <1>2, <3>1
            DEF Sound, Labelled, Injective, TypeOK, Registry
  <2> QED BY <2>1, <2>2
<1> QED BY <1>1, <1>3, <1>4 DEF LabelInv, Saving

LEMMA LabelSave ==
  ASSUME Serial, FileInv, LabelInv, NEW c \in Callers,
         Snapshot(c) \/ Open(c) \/ Write(c) \/ Sync(c)
  PROVE  LabelInv'
<1> SUFFICES ASSUME clean PROVE LabelInv'
  BY DEF LabelInv, Snapshot, Open, Write, Sync
<1>1. /\ Callers = { c } /\ call'[c].pc \in OnDisk
      /\ UNCHANGED << phase, rows, flash, clean >>
  <2>1. TypeOK /\ call[c] \in CallRecord /\ Callers = { c }
    BY Alone DEF FileInv, TypeOK
  <2>2. \/ call'[c] = [call[c] EXCEPT !.pc = "open", !.bytes = rows]
        \/ call'[c] = [call[c] EXCEPT !.pc = "write", !.fd = "tmp"]
        \/ call'[c] = [call[c] EXCEPT !.pc = "sync"]
        \/ call'[c] = [call[c] EXCEPT !.pc = "rename"]
    BY <2>1 DEF Snapshot, Open, Write, Sync, Goto, Become, TypeOK
  <2> QED BY <2>1, <2>2 DEF Snapshot, Open, Write, Sync, CallRecord, OnDisk
<1>2. file'["json"] = file["json"]
  BY DEF Snapshot, Open, Write, Sync, FileUnchanged, FileInv, TypeOK, Names,
         SaveInv
<1>3. Sound(rows) /\ (file["json"] \in Registry => Sound(file["json"]))
  BY DEF LabelInv
<1>4. Sound(rows)' /\ (file'["json"] \in Registry => Sound(file["json"])')
  BY <1>1, <1>2, <1>3 DEF Sound, Labelled, Injective
<1> QED BY <1>1, <1>4 DEF LabelInv, OnDisk, Saving

LEMMA LabelRename ==
  ASSUME Serial, FileInv, LabelInv, NEW c \in Callers, Rename(c)
  PROVE  LabelInv'
<1> SUFFICES ASSUME clean PROVE LabelInv'
  BY DEF LabelInv, Rename
<1>1. /\ Callers = { c } /\ call'[c].pc = "idle"
      /\ file'["json"] = rows /\ rows' = rows /\ flash' = flash
  BY Alone, RenameFacts DEF Rename, Idle
<1>2. Sound(rows)
  BY DEF LabelInv
<1>3. Sound(rows)' /\ Sound(file["json"])'
  BY <1>1, <1>2 DEF Sound, Labelled, Injective
<1> QED BY <1>1, <1>3 DEF LabelInv

LEMMA LabelOther ==
  ASSUME LabelInv, Commit \/ UNCHANGED vars
  PROVE  LabelInv'
<1>1. UNCHANGED << phase, rows, flash, file, call, clean >>
  BY DEF Commit, vars
<1>2. (\A r : Sound(r)' <=> Sound(r)) /\ (Sound(rows)' <=> Sound(rows))
      /\ (Sound(file["json"])' <=> Sound(file["json"]))
  BY <1>1 DEF Sound, Labelled, Injective
<1> QED BY <1>1, <1>2 DEF LabelInv

LEMMA LabelNext ==
  ASSUME Serial, FileInv, LabelInv, [Next]_vars
  PROVE  LabelInv'
<1>1. ASSUME NEW c \in Callers, Step(c) PROVE LabelInv'
  <2>1. CASE Boot(c) BY <2>1, LabelBoot
  <2>2. ASSUME NEW k \in Prints,
               \/ \E s \in 0 .. Capacity : BeginEnroll(c, k, s)
               \/ BeginDelete(c, k)
        PROVE  LabelInv'
    BY <2>2, LabelBegin
  <2>3. CASE StoreTemplate(c) \/ AbandonEnroll(c) \/ EraseTemplate(c)
    BY <2>3, LabelSensor
  <2>4. CASE Insert(c) \/ Remove(c) BY <2>4, LabelChange
  <2>5. CASE Snapshot(c) \/ Open(c) \/ Write(c) \/ Sync(c)
    BY <2>5, LabelSave
  <2>6. CASE Rename(c) BY <2>6, LabelRename
  <2>7. CASE FileError(c) BY <2>7 DEF FileError, Fail, LabelInv
  <2> QED BY <1>1, <2>1, <2>2, <2>3, <2>4, <2>5, <2>6, <2>7 DEF Step
<1>2. CASE Kill BY <1>2, LabelKill
<1>3. CASE PowerLoss BY <1>3 DEF PowerLoss, LabelInv
<1>4. CASE Commit \/ UNCHANGED vars BY <1>4, LabelOther
<1> QED BY <1>1, <1>2, <1>3, <1>4 DEF Next

\* With one caller at a time the rows of a running daemon stay true labels
\* through any number of kills and restarts, as long as no registry write
\* fails and the power stays on.
THEOREM LabelsStayTrue == Serial => (Spec => []LabelsTrue)
<1> SUFFICES ASSUME Serial PROVE Spec => []LabelsTrue
  OBVIOUS
<1>1. Init => FileInv /\ LabelInv
  BY FileInit, LabelInit
<1>2. FileInv /\ LabelInv /\ [Next]_vars => FileInv' /\ LabelInv'
  BY FileNext, LabelNext
<1>3. LabelInv => LabelsTrue
  BY DEF LabelInv, LabelsTrue, Sound
<1> QED BY <1>1, <1>2, <1>3, PTL DEF Spec

=============================================================================
