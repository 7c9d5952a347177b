---------------------------- MODULE FprintDevice ----------------------------
(***************************************************************************)
(* The D-Bus Device object of r503d (dbus_iface.rs): the claim, the single *)
(* action slot, the capture permit, the enroll/verify tasks, the deletes,  *)
(* and what they share: the in-memory registry of storage.rs and the       *)
(* template flash behind the sensor worker's FIFO of requests.             *)
(*                                                                         *)
(* A process of Procs is one D-Bus method invocation together with the     *)
(* task it spawns.  Every section of code between two awaits, or under one *)
(* hold of the state mutex, is one action; handlers interleave freely.     *)
(***************************************************************************)
EXTENDS Integers, Sequences, FiniteSets

CONSTANTS
  Clients,         \* unique names of bus clients
  Users,           \* user names a claim can be for
  Fingers,         \* finger names that can be enrolled
  Capacity,        \* number of template slots of the sensor
  Procs,           \* BOUND: method invocations alive at the same time
  Methods,         \* the methods clients call in this instance
  MaxRetries,      \* MAX_RETRIES of the verify task
  MaxEpoch,        \* BOUND: no operation is dispatched from this epoch on
  EnrollProgress,  \* PROGRESS lines the firmware prints during an enroll
  VerifyProgress,  \* PROGRESS lines the firmware prints during a verify
  SensorFaults,    \* whether the worker may report an error for a command
                   \* that the firmware did carry out
  None

AllMethods == { "Claim", "Release", "VerifyStart", "VerifyStop",
                "EnrollStart", "EnrollStop", "DeleteEnrolledFingers",
                "DeleteEnrolledFingers2", "DeleteEnrolledFinger" }

Lines == { "place", "remove" }
Slots == 0 .. (Capacity - 1)
Prints == Users \X Fingers
AnyFinger == "any"

ASSUME ConstantsAssumption ==
  /\ Capacity \in Nat
  /\ MaxRetries \in Nat
  /\ MaxEpoch \in Nat
  /\ Methods \subseteq AllMethods
  /\ EnrollProgress \in Seq(Lines)
  /\ VerifyProgress \in Seq(Lines)
  /\ SensorFaults \in BOOLEAN

ASSUME NoneAssumption ==
  /\ None \notin Users
  /\ None \notin Clients
  /\ None \notin Fingers
  /\ None \notin Slots
  /\ None \notin Prints
  /\ AnyFinger \notin Fingers

VARIABLES
  dev,       \* DeviceState, guarded by the state mutex
  permits,   \* available permits of the capture_slot semaphore
  rows,      \* registry in memory: print -> slot, None when not enrolled
  flash,     \* sensor flash: slot -> the print whose template it stores
  queue,     \* requests the worker has not answered, head being served
  served,    \* PROGRESS lines already sent for the head request
  proc,      \* method invocations and the tasks they spawned
  alive,     \* clients still on the bus
  departed,  \* clients whose NameOwnerChanged the watcher has yet to handle
  cancelled  \* history: epochs cleared by a stop, a release or a disconnect

vars == << dev, permits, rows, flash, queue, served, proc, alive, departed,
           cancelled >>

-----------------------------------------------------------------------------
(* Device state *)

NoAction == [kind |-> "none", epoch |-> 0]
Captures == { "enroll", "verify" }

StartAction(d, kind) ==
  [d EXCEPT !.action = [kind |-> kind, epoch |-> d.next_epoch],
            !.next_epoch = d.next_epoch + 1]

ClearAction(d) ==
  [d EXCEPT !.action = NoAction,
            !.finger_needed = FALSE,
            !.finger_present = FALSE]

\* Faulty variant: an operation that ends clears whatever is in the slot.
EndActionAlways(d, token) == ClearAction(d)

EndActionIfOwner(d, token) ==
  IF d.action = token THEN ClearAction(d) ELSE d

\* Release and the disconnect watcher drop the claim and whatever is running.
DropClaim(d) ==
  [ClearAction(d) EXCEPT !.claimed_by = None, !.claim_sender = None]

Cancel == cancelled' = IF dev.action = NoAction
                         THEN cancelled
                         ELSE cancelled \cup { dev.action.epoch }

\* ensure_claim
HoldsClaim(cl) == dev.claimed_by # None /\ dev.claim_sender = cl

\* update_finger_state_from_progress, not guarded by the caller's token
FingerHint(d, line) ==
  [d EXCEPT !.finger_needed = (line = "place"),
            !.finger_present = (line = "remove")]

-----------------------------------------------------------------------------
(* Invocations *)

Idle ==
  [ pc |-> "idle", kind |-> "none", client |-> None, user |-> None,
    finger |-> None, token |-> NoAction, expected |-> {}, entry |-> None,
    todo |-> {}, succeeded |-> {}, reply |-> None, progress |-> << >>,
    retries |-> 0, status |-> "none" ]

\* a call as its first await finds it
NewCall(pc, kind, client, user, finger) ==
  [Idle EXCEPT !.pc = pc, !.kind = kind, !.client = client, !.user = user,
               !.finger = finger]

Become(p, r) == proc' = [proc EXCEPT ![p] = r]
Goto(p, pc) == Become(p, [proc[p] EXCEPT !.pc = pc])
Return(p) == Become(p, Idle)

\* dropping the OwnedSemaphorePermit, on return from the handler or the task
ReturnPermit(p) == permits' = permits + 1 /\ Return(p)

Request(p, slot) == [proc |-> p, cmd |-> proc[p].kind, slot |-> slot]
UserSlots(u) ==
  { e \in Fingers \X Slots : rows[<< u, e[1] >>] = e[2] }
UsedSlots == { rows[k] : k \in Prints }

-----------------------------------------------------------------------------
(* Calls that arrive from the bus.  A claim-gated method runs ensure_claim *)
(* first; a refused call changes nothing and is left out.                  *)

Dispatch(p, cl, method, r) ==
  /\ method \in Methods
  /\ cl \in alive
  /\ proc[p].pc = "idle"
  /\ Become(p, r)
  /\ UNCHANGED << dev, permits, rows, flash, queue, served, alive, departed,
                  cancelled >>

\* authorize_username has accepted the user; the state lock comes next
CallClaim(p, cl, u) ==
  Dispatch(p, cl, "Claim", NewCall("claim", "none", cl, u, None))

CallVerifyStart(p, cl, f) ==
  /\ HoldsClaim(cl)
  /\ dev.next_epoch < MaxEpoch
  /\ Dispatch(p, cl, "VerifyStart",
              NewCall("permit", "verify", None, dev.claimed_by, f))

CallEnrollStart(p, cl, f) ==
  /\ HoldsClaim(cl)
  /\ dev.next_epoch < MaxEpoch
  /\ Dispatch(p, cl, "EnrollStart",
              NewCall("permit", "enroll", None, dev.claimed_by, f))

CallVerifyStop(p, cl) ==
  /\ HoldsClaim(cl)
  /\ Dispatch(p, cl, "VerifyStop", NewCall("stop", "verify", None, None, None))

CallEnrollStop(p, cl) ==
  /\ HoldsClaim(cl)
  /\ Dispatch(p, cl, "EnrollStop", NewCall("stop", "enroll", None, None, None))

\* DeleteEnrolledFingers: authorised for u, no claim needed
CallDeleteAll(p, cl, u) ==
  /\ dev.next_epoch < MaxEpoch
  /\ Dispatch(p, cl, "DeleteEnrolledFingers",
              NewCall("begin_delete", "delete", None, u, None))

CallDeleteAll2(p, cl) ==
  /\ HoldsClaim(cl)
  /\ dev.next_epoch < MaxEpoch
  /\ Dispatch(p, cl, "DeleteEnrolledFingers2",
              NewCall("begin_delete", "delete", None, dev.claimed_by, None))

CallDeleteOne(p, cl, f) ==
  /\ HoldsClaim(cl)
  /\ dev.next_epoch < MaxEpoch
  /\ Dispatch(p, cl, "DeleteEnrolledFinger",
              NewCall("lookup", "delete", None, dev.claimed_by, f))

-----------------------------------------------------------------------------
(* The claim *)

Claim(p) ==
  /\ proc[p].pc = "claim"
  /\ IF \/ dev.claimed_by = None
        \/ dev.claimed_by = proc[p].user /\ dev.action = NoAction
       THEN dev' = [dev EXCEPT !.claimed_by = proc[p].user,
                               !.claim_sender = proc[p].client]
       ELSE UNCHANGED dev    \* AlreadyInUse
  /\ Return(p)
  /\ UNCHANGED << permits, rows, flash, queue, served, alive, departed,
                  cancelled >>

Release(cl) ==
  /\ "Release" \in Methods
  /\ cl \in alive
  /\ HoldsClaim(cl)
  /\ dev' = DropClaim(dev)
  /\ Cancel
  /\ UNCHANGED << permits, rows, flash, queue, served, proc, alive, departed >>

\* A client's connection ends; the bus announces it, its calls run on.
Disconnect(cl) ==
  /\ cl \in alive
  /\ alive' = alive \ { cl }
  /\ departed' = departed \cup { cl }
  /\ UNCHANGED << dev, permits, rows, flash, queue, served, proc, cancelled >>

HandleClientDisconnect(cl) ==
  /\ cl \in departed
  /\ departed' = departed \ { cl }
  /\ IF dev.claim_sender = cl
       THEN dev' = DropClaim(dev) /\ Cancel
       ELSE UNCHANGED << dev, cancelled >>
  /\ UNCHANGED << permits, rows, flash, queue, served, proc, alive >>

\* The second lock section of VerifyStop and EnrollStop.
Stop(p) ==
  /\ proc[p].pc = "stop"
  /\ IF dev.action.kind = proc[p].kind
       THEN dev' = ClearAction(dev) /\ Cancel
       ELSE UNCHANGED << dev, cancelled >>    \* NoActionInProgress
  /\ Return(p)
  /\ UNCHANGED << permits, rows, flash, queue, served, alive, departed >>

-----------------------------------------------------------------------------
(* VerifyStart and EnrollStart, up to the spawn of the task *)

\* Faulty variant: the semaphore is not consulted.
AcquirePermitUnchecked(p) ==
  /\ proc[p].pc = "permit"
  /\ permits' = permits - 1 /\ Goto(p, "mint")
  /\ UNCHANGED << dev, rows, flash, queue, served, alive, departed,
                  cancelled >>

AcquirePermit(p) ==
  /\ proc[p].pc = "permit"
  /\ IF permits > 0
       THEN permits' = permits - 1 /\ Goto(p, "mint")
       ELSE UNCHANGED permits /\ Return(p)    \* AlreadyInUse
  /\ UNCHANGED << dev, rows, flash, queue, served, alive, departed,
                  cancelled >>

MintRefused(p) ==
  /\ proc[p].pc = "mint"
  /\ dev.action # NoAction
  /\ ReturnPermit(p)
  /\ UNCHANGED << dev, rows, flash, queue, served, alive, departed,
                  cancelled >>

\* The token and the snapshot of the user's slots, under one lock.
Wanted(p) ==
  { e[2] : e \in { d \in UserSlots(proc[p].user) :
                     proc[p].finger \in { AnyFinger, d[1] } } }

MintVerify(p) ==
  /\ proc[p].pc = "mint" /\ proc[p].kind = "verify"
  /\ dev.action = NoAction
  /\ dev' = StartAction(dev, "verify")
  /\ Become(p, [proc[p] EXCEPT
                  !.pc = IF Wanted(p) = {} THEN "refuse" ELSE "hint",
                  !.token = dev'.action,
                  !.expected = Wanted(p)])
  /\ UNCHANGED << permits, rows, flash, queue, served, alive, departed,
                  cancelled >>

MintEnroll(p) ==
  /\ proc[p].pc = "mint" /\ proc[p].kind = "enroll"
  /\ dev.action = NoAction
  /\ dev' = StartAction(dev, "enroll")
  /\ Become(p, [proc[p] EXCEPT !.pc = "slot", !.token = dev'.action])
  /\ UNCHANGED << permits, rows, flash, queue, served, alive, departed,
                  cancelled >>

\* Faulty variant: only the user's own rows count as used.
TargetSlotPerUser(p, s) ==
  LET row == rows[<< proc[p].user, proc[p].finger >>]
      used == { e[2] : e \in UserSlots(proc[p].user) }
  IN  IF row # None
        THEN s = row
        ELSE s \notin used /\ \A t \in Slots : t < s => t \in used

\* The slot of a re-enrolled finger is reused; else the lowest unused one.
TargetSlot(p, s) ==
  LET row == rows[<< proc[p].user, proc[p].finger >>]
  IN  IF row # None
        THEN s = row
        ELSE /\ s \notin UsedSlots
             /\ \A t \in Slots : t < s => t \in UsedSlots

\* Faulty variant: at a full sensor the permit is dropped before the signal.
ChooseSlotDropsPermit(p) ==
  /\ proc[p].pc = "slot"
  /\ \/ \E s \in Slots :
          /\ TargetSlot(p, s)
          /\ Become(p, [proc[p] EXCEPT !.pc = "hint",
                                       !.entry = << proc[p].finger, s >>])
          /\ UNCHANGED permits
     \/ /\ ~ \E s \in Slots : TargetSlot(p, s)
        /\ Become(p, [proc[p] EXCEPT !.pc = "data_full",
                                     !.status = "enroll-data-full"])
        /\ permits' = permits + 1
  /\ UNCHANGED << dev, rows, flash, queue, served, alive, departed, cancelled >>

ChooseSlot(p) ==
  /\ proc[p].pc = "slot"
  /\ \/ \E s \in Slots :
          /\ TargetSlot(p, s)
          /\ Become(p, [proc[p] EXCEPT !.pc = "hint",
                                       !.entry = << proc[p].finger, s >>])
     \/ /\ ~ \E s \in Slots : TargetSlot(p, s)   \* NoFreeSlot
        /\ Become(p, [proc[p] EXCEPT !.pc = "data_full",
                                     !.status = "enroll-data-full"])
  /\ UNCHANGED << dev, permits, rows, flash, queue, served, alive, departed,
                  cancelled >>

\* The enroll-data-full signal, terminal and not guarded by the token: it goes
\* out while the permit is held, but also when the enroll was stopped meanwhile.
EmitDataFull(p) ==
  /\ proc[p].pc = "data_full"
  /\ Goto(p, "refuse")
  /\ UNCHANGED << dev, permits, rows, flash, queue, served, alive, departed,
                  cancelled >>

\* Faulty variant: an early return forgets to clear the action slot.
RefuseKeepsAction(p) ==
  /\ proc[p].pc = "refuse"
  /\ ReturnPermit(p)
  /\ UNCHANGED << dev, rows, flash, queue, served, alive, departed,
                  cancelled >>

\* NoEnrolledPrints, or what follows enroll-data-full
Refuse(p) ==
  /\ proc[p].pc = "refuse"
  /\ dev' = EndActionIfOwner(dev, proc[p].token)
  /\ ReturnPermit(p)
  /\ UNCHANGED << rows, flash, queue, served, alive, departed, cancelled >>

\* finger_needed is set without looking at the token; the task is spawned.
Spawn(p) ==
  /\ proc[p].pc = "hint"
  /\ dev' = FingerHint(dev, "place")
  /\ Goto(p, "run")
  /\ UNCHANGED << permits, rows, flash, queue, served, alive, departed,
                  cancelled >>

-----------------------------------------------------------------------------
(* The capture task *)

RunEnroll(p) ==
  /\ proc[p].pc = "run" /\ proc[p].kind = "enroll"
  /\ queue' = Append(queue, Request(p, proc[p].entry[2]))
  /\ Goto(p, "wait")
  /\ UNCHANGED << dev, permits, rows, flash, served, alive, departed,
                  cancelled >>

\* Head of the verify task's loop: it goes on only while its token is current.
RunVerify(p) ==
  /\ proc[p].pc = "run" /\ proc[p].kind = "verify"
  /\ IF dev.action = proc[p].token
       THEN /\ queue' = Append(queue, Request(p, None))
            /\ Goto(p, "wait")
            /\ UNCHANGED permits
       ELSE /\ ReturnPermit(p)
            /\ UNCHANGED queue
  /\ UNCHANGED << dev, rows, flash, served, alive, departed, cancelled >>

\* While waiting, and in the drain of a verify task that lost its token.
TakeProgress(p) ==
  /\ \/ proc[p].pc = "wait"
     \/ /\ proc[p].pc = "run" /\ proc[p].kind = "verify"
        /\ dev.action # proc[p].token
  /\ proc[p].progress # << >>
  /\ dev' = FingerHint(dev, Head(proc[p].progress))
  /\ Become(p, [proc[p] EXCEPT !.progress = Tail(@)])
  /\ UNCHANGED << permits, rows, flash, queue, served, alive, departed,
                  cancelled >>

\* Faulty variant: the retry branch without its budget.
RetryVerifyUnbounded(p) ==
  /\ proc[p].pc = "wait" /\ proc[p].kind = "verify"
  /\ proc[p].reply # None
  /\ proc[p].reply.res = "retry"
  /\ Become(p, [proc[p] EXCEPT !.pc = "run", !.reply = None])
  /\ UNCHANGED << dev, permits, rows, flash, queue, served, alive, departed,
                  cancelled >>

\* Emits verify-retry-scan, whoever owns the action slot by now.
RetryVerify(p) ==
  /\ proc[p].pc = "wait" /\ proc[p].kind = "verify"
  /\ proc[p].reply # None
  /\ proc[p].reply.res = "retry"
  /\ proc[p].retries < MaxRetries
  /\ Become(p, [proc[p] EXCEPT !.pc = "run", !.reply = None,
                               !.retries = @ + 1])
  /\ UNCHANGED << dev, permits, rows, flash, queue, served, alive, departed,
                  cancelled >>

\* Faulty variant: any template that matches will do.
VerifyStatusAnySlot(p) ==
  LET res == proc[p].reply.res
  IN  IF res = "match" THEN "verify-match"
      ELSE IF res = "disconnected" THEN "verify-disconnected"
      ELSE IF res = "error" THEN "verify-unknown-error"
      ELSE "verify-no-match"

\* A retryable answer is final once the retry or the time budget is spent;
\* the clock is abstract, so the time budget may be spent at any retry.
VerifyStatus(p) ==
  LET r == proc[p].reply
  IN  IF r.res = "match" /\ r.slot \in proc[p].expected THEN "verify-match"
      ELSE IF r.res = "disconnected" THEN "verify-disconnected"
      ELSE IF r.res = "error" THEN "verify-unknown-error"
      ELSE "verify-no-match"

\* Faulty variant: the terminal status goes out whoever owns the action slot.
FinishVerifyUnguarded(p) ==
  /\ proc[p].pc = "wait" /\ proc[p].kind = "verify"
  /\ proc[p].reply # None
  /\ dev' = EndActionIfOwner(dev, proc[p].token)
  /\ Become(p, [proc[p] EXCEPT !.pc = "emit", !.status = VerifyStatus(p)])
  /\ UNCHANGED << permits, rows, flash, queue, served, alive, departed,
                  cancelled >>

FinishVerify(p) ==
  /\ proc[p].pc = "wait" /\ proc[p].kind = "verify"
  /\ proc[p].reply # None
  /\ dev' = EndActionIfOwner(dev, proc[p].token)
  /\ IF dev.action = proc[p].token
       THEN /\ Become(p, [proc[p] EXCEPT !.pc = "emit",
                                         !.status = VerifyStatus(p)])
            /\ UNCHANGED permits
       ELSE ReturnPermit(p)
  /\ UNCHANGED << rows, flash, queue, served, alive, departed, cancelled >>

EnrollStatus(p) ==
  IF proc[p].reply.res = "disconnected" THEN "enroll-disconnected"
                                        ELSE "enroll-failed"

AfterEnroll(p) == IF proc[p].reply.res = "ok" THEN "set_slot" ELSE "emit"

\* Faulty variant: the permit is dropped with the action, before set_slot.
FinishEnrollDropsPermit(p) ==
  /\ proc[p].pc = "wait" /\ proc[p].kind = "enroll"
  /\ proc[p].reply # None
  /\ dev' = EndActionIfOwner(dev, proc[p].token)
  /\ permits' = permits + 1
  /\ IF dev.action = proc[p].token
       THEN Become(p, [proc[p] EXCEPT
                         !.pc = AfterEnroll(p),
                         !.status = EnrollStatus(p)])
       ELSE Return(p)
  /\ UNCHANGED << rows, flash, queue, served, alive, departed, cancelled >>

\* The action slot is given up before the registry learns of the template.
FinishEnroll(p) ==
  /\ proc[p].pc = "wait" /\ proc[p].kind = "enroll"
  /\ proc[p].reply # None
  /\ dev' = EndActionIfOwner(dev, proc[p].token)
  /\ IF dev.action = proc[p].token
       THEN /\ Become(p, [proc[p] EXCEPT
                            !.pc = AfterEnroll(p),
                            !.status = EnrollStatus(p)])
            /\ UNCHANGED permits
       ELSE ReturnPermit(p)
  /\ UNCHANGED << rows, flash, queue, served, alive, departed, cancelled >>

\* set_slot: the row enters the map, then the file write succeeds or fails.
SetSlot(p) ==
  /\ proc[p].pc = "set_slot"
  /\ rows' = [rows EXCEPT ![<< proc[p].user, proc[p].finger >>] = proc[p].entry[2]]
  /\ \E st \in { "enroll-completed", "enroll-failed" } :
       Become(p, [proc[p] EXCEPT !.pc = "emit", !.status = st])
  /\ UNCHANGED << dev, permits, flash, queue, served, alive, departed,
                  cancelled >>

\* The terminal VerifyStatus / EnrollStatus signal; the task ends.
Emit(p) ==
  /\ proc[p].pc = "emit"
  /\ ReturnPermit(p)
  /\ UNCHANGED << dev, rows, flash, queue, served, alive, departed,
                  cancelled >>

-----------------------------------------------------------------------------
(* Deletes *)

\* DeleteEnrolledFinger reads the slot before it owns the action slot.
LookupSlot(p) ==
  /\ proc[p].pc = "lookup"
  /\ LET row == rows[<< proc[p].user, proc[p].finger >>]
     IN  IF row = None
           THEN Return(p)                       \* NoEnrolledPrints
           ELSE Become(p, [proc[p] EXCEPT
                             !.pc = "begin_delete",
                             !.todo = { << proc[p].finger, row >> }])
  /\ UNCHANGED << dev, permits, rows, flash, queue, served, alive, departed,
                  cancelled >>

BeginDelete(p) ==
  /\ proc[p].pc = "begin_delete"
  /\ IF dev.action = NoAction
       THEN /\ dev' = StartAction(dev, "delete")
            /\ Become(p, [proc[p] EXCEPT
                            !.pc = IF proc[p].finger = None
                                     THEN "snapshot" ELSE "erase",
                            !.token = dev'.action])
       ELSE UNCHANGED dev /\ Return(p)          \* AlreadyInUse
  /\ UNCHANGED << permits, rows, flash, queue, served, alive, departed,
                  cancelled >>

SnapshotSlots(p) ==
  /\ proc[p].pc = "snapshot"
  /\ Become(p, [proc[p] EXCEPT !.pc = "erase",
                               !.todo = UserSlots(proc[p].user)])
  /\ UNCHANGED << dev, permits, rows, flash, queue, served, alive, departed,
                  cancelled >>

\* One sensor.delete at a time, in the map's arbitrary order.
EraseNext(p) ==
  /\ proc[p].pc = "erase"
  /\ \E e \in proc[p].todo :
       /\ queue' = Append(queue, Request(p, e[2]))
       /\ Become(p, [proc[p] EXCEPT !.pc = "erasing", !.entry = e,
                                    !.todo = @ \ { e }])
  /\ UNCHANGED << dev, permits, rows, flash, served, alive, departed,
                  cancelled >>

EraseReply(p) ==
  /\ proc[p].pc = "erasing"
  /\ proc[p].reply # None
  /\ Become(p, [proc[p] EXCEPT
                  !.pc = "erase", !.reply = None, !.entry = None,
                  !.succeeded = IF proc[p].reply.res = "ok"
                                  THEN @ \cup { proc[p].entry[1] } ELSE @])
  /\ UNCHANGED << dev, permits, rows, flash, queue, served, alive, departed,
                  cancelled >>

\* remove_finger for a finger whose template was deleted
RemoveRow(p) ==
  /\ proc[p].pc = "erase"
  /\ proc[p].todo = {}
  /\ \E f \in proc[p].succeeded :
       /\ rows' = [rows EXCEPT ![<< proc[p].user, f >>] = None]
       /\ Become(p, [proc[p] EXCEPT !.succeeded = @ \ { f }])
  /\ UNCHANGED << dev, permits, flash, queue, served, alive, departed,
                  cancelled >>

FinishDelete(p) ==
  /\ proc[p].pc = "erase"
  /\ proc[p].todo = {} /\ proc[p].succeeded = {}
  /\ dev' = EndActionIfOwner(dev, proc[p].token)
  /\ Return(p)
  /\ UNCHANGED << permits, rows, flash, queue, served, alive, departed,
                  cancelled >>

-----------------------------------------------------------------------------
(* The sensor worker and the firmware behind it, one request at a time *)

ProgressOf(cmd) ==
  IF cmd = "enroll" THEN EnrollProgress
  ELSE IF cmd = "verify" THEN VerifyProgress
  ELSE << >>

WorkerProgress ==
  /\ queue # << >>
  /\ LET h == Head(queue)
         lines == ProgressOf(h.cmd)
     IN  /\ served < Len(lines)
         /\ proc' = [proc EXCEPT ![h.proc].progress =
                       Append(@, lines[served + 1])]
  /\ served' = served + 1
  /\ UNCHANGED << dev, permits, rows, flash, queue, alive, departed,
                  cancelled >>

\* The answer leaves the worker: `res`, the matched slot, and (history) whose
\* template that slot held when it matched.
Answer(res, slot, owner) ==
  /\ proc' = [proc EXCEPT ![Head(queue).proc].reply =
                [res |-> res, slot |-> slot, owner |-> owner]]
  /\ queue' = Tail(queue)
  /\ served' = 0
  /\ UNCHANGED << dev, permits, rows, alive, departed, cancelled >>

\* storeModel runs last; an error after it is an answer that got lost.
ServeEnroll ==
  /\ queue # << >>
  /\ LET h == Head(queue)
     IN  /\ h.cmd = "enroll"
         /\ \/ /\ served = Len(EnrollProgress)
               /\ flash' = [flash EXCEPT ![h.slot] =
                              << proc[h.proc].user, proc[h.proc].finger >>]
               /\ \/ Answer("ok", None, None)
                  \/ SensorFaults /\ \E res \in { "error", "disconnected" } :
                       Answer(res, None, None)
            \/ /\ UNCHANGED flash
               /\ \E res \in { "error", "disconnected" } :
                    Answer(res, None, None)

\* A weak match is answered as a match by the firmware and refused by the
\* confidence threshold: here it is "no_match", to the same effect.
ServeVerify ==
  /\ queue # << >>
  /\ Head(queue).cmd = "verify"
  /\ UNCHANGED flash
  /\ \/ \E s \in Slots :
          /\ flash[s] # None
          /\ served = Len(VerifyProgress)
          /\ Answer("match", s, flash[s])
     \/ \E res \in { "no_match", "retry", "error", "disconnected" } :
          Answer(res, None, None)

ServeDelete ==
  /\ queue # << >>
  /\ LET h == Head(queue)
     IN  /\ h.cmd = "delete"
         /\ \/ /\ flash' = [flash EXCEPT ![h.slot] = None]
               /\ \/ Answer("ok", None, None)
                  \/ SensorFaults /\ Answer("error", None, None)
            \/ UNCHANGED flash /\ Answer("error", None, None)

-----------------------------------------------------------------------------
Init ==
  /\ dev = [claimed_by |-> None, claim_sender |-> None, action |-> NoAction,
            next_epoch |-> 0, finger_present |-> FALSE,
            finger_needed |-> FALSE]
  /\ permits = 1
  /\ rows = [k \in Prints |-> None]
  /\ flash = [s \in Slots |-> None]
  /\ queue = << >>
  /\ served = 0
  /\ proc = [p \in Procs |-> Idle]
  /\ alive = Clients
  /\ departed = {}
  /\ cancelled = {}

Call(p) ==
  \E cl \in Clients :
    \/ \E u \in Users : CallClaim(p, cl, u) \/ CallDeleteAll(p, cl, u)
    \/ \E f \in Fingers \cup { AnyFinger } : CallVerifyStart(p, cl, f)
    \/ \E f \in Fingers : CallEnrollStart(p, cl, f) \/ CallDeleteOne(p, cl, f)
    \/ CallVerifyStop(p, cl) \/ CallEnrollStop(p, cl) \/ CallDeleteAll2(p, cl)

\* What an invocation does on its own once it has been dispatched.
ProcStep(p) ==
  \/ Claim(p) \/ Stop(p)
  \/ AcquirePermit(p) \/ MintRefused(p) \/ MintVerify(p) \/ MintEnroll(p)
  \/ ChooseSlot(p) \/ EmitDataFull(p) \/ Refuse(p) \/ Spawn(p)
  \/ RunEnroll(p) \/ RunVerify(p) \/ TakeProgress(p) \/ RetryVerify(p)
  \/ FinishVerify(p) \/ FinishEnroll(p) \/ SetSlot(p) \/ Emit(p)
  \/ LookupSlot(p) \/ BeginDelete(p) \/ SnapshotSlots(p) \/ EraseNext(p)
  \/ EraseReply(p) \/ RemoveRow(p) \/ FinishDelete(p)

Worker == WorkerProgress \/ ServeEnroll \/ ServeVerify \/ ServeDelete

Bus(cl) == Release(cl) \/ Disconnect(cl) \/ HandleClientDisconnect(cl)

Next ==
  \/ \E p \in Procs : Call(p) \/ ProcStep(p)
  \/ \E cl \in Clients : Bus(cl)
  \/ Worker

Spec == Init /\ [][Next]_vars

\* The tokio runtime polls every woken task, the worker thread serves its
\* channel, firmware commands time out, and the watcher drains its stream.
\* Nothing obliges a client to call anything.
Fairness ==
  /\ \A p \in Procs : WF_vars(ProcStep(p))
  /\ WF_vars(Worker)
  /\ \A cl \in Clients : WF_vars(HandleClientDisconnect(cl))

FairSpec == Spec /\ Fairness

-----------------------------------------------------------------------------
(* Correctness *)

Kinds == { "none", "enroll", "verify", "delete" }
Token == [kind : Kinds, epoch : Nat]
Reply == [res : { "ok", "match", "no_match", "retry", "error", "disconnected" },
          slot : Slots \cup { None },
          owner : Prints \cup { None }]
Statuses == { "none", "verify-match", "verify-no-match", "verify-disconnected",
              "verify-unknown-error", "enroll-completed", "enroll-failed",
              "enroll-disconnected", "enroll-data-full" }

\* Where an invocation holds the permit, and where it owns the action slot
\* unless that was cleared under it.
PermitPcs == { "mint", "refuse", "slot", "data_full", "hint", "run", "wait",
               "set_slot", "emit" }
OwnerPcs == { "refuse", "slot", "data_full", "hint", "run", "wait",
              "snapshot", "erase", "erasing" }
Pcs == PermitPcs \cup OwnerPcs \cup
       { "idle", "claim", "stop", "permit", "lookup", "begin_delete" }

Device ==
  [claimed_by : Users \cup { None }, claim_sender : Clients \cup { None },
   action : Token, next_epoch : Nat, finger_present : BOOLEAN,
   finger_needed : BOOLEAN]

Invocation ==
  [pc : Pcs, kind : Kinds, client : Clients \cup { None },
   user : Users \cup { None }, finger : Fingers \cup { AnyFinger, None },
   token : Token, expected : SUBSET Slots,
   entry : (Fingers \X Slots) \cup { None },
   todo : SUBSET (Fingers \X Slots), succeeded : SUBSET Fingers,
   reply : Reply \cup { None }, progress : Seq(Lines), retries : Nat,
   status : Statuses]

SensorRequest ==
  [proc : Procs, cmd : Kinds, slot : Slots \cup { None }]

\* Every variable of the Device, its tasks, the registry and the worker keeps
\* its type.
TypeOK ==
  /\ dev \in Device
  /\ permits \in Nat
  /\ rows \in [Prints -> Slots \cup { None }]
  /\ flash \in [Slots -> Prints \cup { None }]
  /\ queue \in Seq(SensorRequest)
  /\ served \in Nat
  /\ proc \in [Procs -> Invocation]
  /\ alive \subseteq Clients
  /\ departed \subseteq Clients
  /\ cancelled \subseteq Nat

\* The DoS-1 comment on capture_slot: however callers churn Start and Stop,
\* the worker's queue holds at most one capture request.
OneCaptureQueued ==
  \A i, j \in 1 .. Len(queue) :
    queue[i].cmd \in Captures /\ queue[j].cmd \in Captures => i = j

\* allocate_slot and set_slot are far apart and hold no lock between them:
\* still, no two enrolled prints share a template slot.
SlotsUnique ==
  \A k, l \in Prints : rows[k] # None /\ rows[k] = rows[l] => k = l

\* A registry row never leads to a template of another print, whatever
\* deletes, re-enrolls and abandoned enrolls did to the flash meanwhile.
RowsOwnTemplates ==
  \A k \in Prints : rows[k] # None => flash[rows[k]] \in { k, None }

\* The prints a verify asks for: its user's, of the finger named or of any.
OwnPrints(p) ==
  { << proc[p].user, f >> :
      f \in { g \in Fingers : proc[p].finger \in { AnyFinger, g } } }

\* verify-match means: when the sensor matched, the slot held a template that
\* was enrolled for the very user, and the finger, the verify was started for.
MatchIsOwn ==
  \A p \in Procs :
    proc[p].pc = "emit" /\ proc[p].status = "verify-match"
      => proc[p].reply.owner \in OwnPrints(p)

\* An occupied action slot is always backed by a live invocation that will
\* clear it: no exit path of a handler or a task leaves the device busy.
ActionBacked ==
  dev.action # NoAction =>
    \E p \in Procs : /\ proc[p].pc \in OwnerPcs
                     /\ proc[p].token = dev.action

\* A terminal signal never lands in the capture session of another operation.
\* What a capture found out (and the set_slot before it) is reported only by an
\* operation that nobody stopped, after it gave the action slot up and before
\* the next capture starts.  enroll-data-full is the exception that the code
\* makes: it may come from an enroll that was stopped meanwhile, yet never while
\* a capture other than its own is open.
VerdictsIsolated ==
  \A p \in Procs :
    /\ proc[p].pc \in { "set_slot", "emit" } =>
         /\ dev.action.kind \notin Captures
         /\ proc[p].token.epoch \notin cancelled
    /\ proc[p].pc = "data_full" /\ dev.action.kind \in Captures =>
         dev.action = proc[p].token

\* The tokens of the invocations that have reached one of the places pcs.
TokensAt(pcs) == { proc[p].token : p \in { q \in Procs : proc[q].pc \in pcs } }

Operations == INSTANCE DeviceOperations WITH
  Kinds <- Captures \cup { "delete" }, Refusable <- { "enroll" },
  action <- dev.action, next <- dev.next_epoch, running <- TokensAt(OwnerPcs),
  owed <- TokensAt({ "set_slot", "emit", "data_full" }),
  silent <- TokensAt({ "refuse" })

\* The token discipline of StartAction, EndActionIfOwner and the capture permit,
\* followed from any operation's start to its verdict: an operation winds up
\* once and reports once at most, one that lost the slot reports no outcome of
\* its capture and does not clear its successor's action, and captures never
\* overlap.  An enroll refused for a full sensor reports that, stopped or not.
ImplementsOperations == Operations!Spec

\* Every method returns and every task ends, so the permit always comes back.
CallsReturn ==
  \A p \in Procs : proc[p].pc # "idle" ~> proc[p].pc = "idle"

\* The action slot never stays with one operation for ever.
ActionsEnd ==
  \A e \in 0 .. (MaxEpoch + Cardinality(Procs)) :
    dev.action # NoAction /\ dev.action.epoch = e
      ~> ~(dev.action # NoAction /\ dev.action.epoch = e)

-----------------------------------------------------------------------------
(* What the documentation promises and the code does not keep *)

Quiet == \A p \in Procs : proc[p].pc = "idle"

\* dbus_iface.rs, delete_user_fingers: "the surviving registry rows still
\* authenticate against their templates" (checked without sensor faults).
RowsBacked ==
  Quiet => \A k \in Prints : rows[k] # None => flash[rows[k]] = k

\* dbus_iface.rs, handle_client_disconnect: "If they were holding the claim,
\* release it so the next client can claim."
DeadClaimsReleased ==
  \A cl \in Clients :
    cl \notin alive /\ dev.claim_sender = cl ~> dev.claim_sender # cl
=============================================================================
