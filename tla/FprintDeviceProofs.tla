------------------------ MODULE FprintDeviceProofs ------------------------
(***************************************************************************)
(* The inductive invariant of FprintDevice and the proofs that its safety  *)
(* properties hold for any clients, users, fingers, capacity, retry budget *)
(* and number of concurrent method invocations.                            *)
(***************************************************************************)
EXTENDS FprintDevice, TLAPS, SequenceTheorems

-----------------------------------------------------------------------------
(* The inductive invariant, part by part *)

HoldsPermit(p) == proc[p].pc \in PermitPcs
VerdictPcs == { "set_slot", "emit" }
TokenPcs == OwnerPcs \cup VerdictPcs
DeletePcs == { "lookup", "begin_delete", "snapshot", "erase", "erasing" }

\* An invocation's fields fit the place it has reached.
Shape(p) ==
  /\ proc[p].pc \in PermitPcs \cup { "permit" } => proc[p].kind \in Captures
  /\ proc[p].pc \in DeletePcs => proc[p].kind = "delete"
  /\ proc[p].pc \in TokenPcs \cup DeletePcs \cup { "permit", "mint", "claim" }
       => proc[p].user \in Users
  /\ proc[p].pc = "claim" => proc[p].client \in Clients
  /\ proc[p].kind = "enroll" /\ proc[p].pc # "stop"
       => proc[p].finger \in Fingers
  /\ proc[p].pc = "lookup" => proc[p].finger \in Fingers
  /\ proc[p].pc = "erasing" => proc[p].entry \in Fingers \X Slots
  /\ proc[p].pc \in { "slot", "data_full", "set_slot" } => proc[p].kind = "enroll"
  /\ proc[p].pc \notin { "wait", "set_slot", "emit", "erasing" }
       => proc[p].reply = None
  /\ proc[p].pc = "stop" => proc[p].kind \in Captures

ShapeInv == \A p \in Procs : Shape(p)

\* The semaphore's permit and the pieces of code that run with it.
PermitInv ==
  /\ permits <= 1
  /\ \A p \in Procs : HoldsPermit(p) => permits = 0
  /\ \A p, q \in Procs : HoldsPermit(p) /\ HoldsPermit(q) => p = q

\* Tokens are fresh when minted, never shared, and dead once cancelled.
TokenInv ==
  /\ dev.action.kind = "none" => dev.action = NoAction
  /\ dev.action # NoAction => dev.action.epoch < dev.next_epoch
  /\ \A e \in cancelled : e < dev.next_epoch
  /\ dev.action # NoAction => dev.action.epoch \notin cancelled
  /\ \A p \in Procs : proc[p].pc \in TokenPcs =>
       /\ proc[p].token.kind = proc[p].kind
       /\ proc[p].token.epoch < dev.next_epoch
  /\ \A p, q \in Procs :
       /\ proc[p].pc \in TokenPcs /\ proc[q].pc \in TokenPcs
       /\ proc[p].token.epoch = proc[q].token.epoch
       => p = q
  /\ \A p \in Procs : proc[p].pc \in VerdictPcs =>
       proc[p].token.epoch \notin cancelled

\* A queued request belongs to an invocation that awaits its answer.
QueueInv ==
  /\ \A i \in 1 .. Len(queue) :
       LET p == queue[i].proc
       IN  /\ proc[p].pc = IF queue[i].cmd = "delete"
                             THEN "erasing" ELSE "wait"
           /\ queue[i].cmd = proc[p].kind
           /\ proc[p].reply = None
           /\ queue[i].cmd # "verify" => queue[i].slot = proc[p].entry[2]
  /\ \A i, j \in 1 .. Len(queue) : queue[i].proc = queue[j].proc => i = j

\* The slot an enroll has chosen is nobody else's until its row is written.
EnrollInv ==
  \A p \in Procs :
    /\ proc[p].kind = "enroll"
    /\ proc[p].pc \in { "hint", "run", "wait", "set_slot" }
    => /\ proc[p].entry \in Fingers \X Slots
       /\ \A k \in Prints :
            rows[k] = proc[p].entry[2] => k = << proc[p].user, proc[p].finger >>

\* A template reported as stored is in that slot, or was erased since.
StoredInv ==
  \A p \in Procs :
    /\ proc[p].kind = "enroll"
    /\ \/ proc[p].pc = "wait" /\ proc[p].reply # None /\ proc[p].reply.res = "ok"
       \/ proc[p].pc = "set_slot"
    => flash[proc[p].entry[2]] \in { << proc[p].user, proc[p].finger >>, None }

\* While a verify runs, the slots it expects hold templates of its user.
VerifyInv ==
  \A p \in Procs :
    /\ proc[p].kind = "verify" /\ proc[p].pc \in { "hint", "run", "wait" } =>
         \A s \in proc[p].expected : flash[s] \in OwnPrints(p) \cup { None }
    /\ /\ proc[p].kind = "verify" /\ proc[p].pc = "wait"
       /\ proc[p].reply # None /\ proc[p].reply.res = "match"
       /\ proc[p].reply.slot \in proc[p].expected
       => proc[p].reply.owner \in OwnPrints(p)

IInv ==
  /\ TypeOK /\ ShapeInv /\ PermitInv /\ TokenInv /\ ActionBacked
  /\ QueueInv /\ EnrollInv /\ StoredInv /\ VerifyInv
  /\ SlotsUnique /\ RowsOwnTemplates /\ MatchIsOwn

-----------------------------------------------------------------------------
(* Types *)

LEMMA IdleType == Idle \in Invocation
  BY DEF Idle, Invocation, Pcs, Kinds, Token, NoAction, Statuses

LEMMA BecomeType ==
  ASSUME TypeOK, NEW p \in Procs, NEW r \in Invocation, Become(p, r)
  PROVE  proc' \in [Procs -> Invocation]
  BY DEF TypeOK, Become

LEMMA ActionTypes ==
  ASSUME NEW d \in Device
  PROVE  /\ \A kind \in Kinds : StartAction(d, kind) \in Device
         /\ ClearAction(d) \in Device
         /\ DropClaim(d) \in Device
         /\ \A t : EndActionIfOwner(d, t) \in Device
         /\ \A line : FingerHint(d, line) \in Device
         /\ \A u \in Users, cl \in Clients :
              [d EXCEPT !.claimed_by = u, !.claim_sender = cl] \in Device
<1>1. NoAction \in Token
  BY DEF NoAction, Token, Kinds
<1>2. ASSUME NEW kind \in Kinds
      PROVE  StartAction(d, kind) \in Device
  <2>1. [kind |-> kind, epoch |-> d.next_epoch] \in Token
    BY DEF Token, Device
  <2>2. d.next_epoch + 1 \in Nat
    BY DEF Device
  <2>3. QED
    BY <2>1, <2>2 DEF Device, StartAction
<1>3. ClearAction(d) \in Device
  BY <1>1 DEF Device, ClearAction
<1>4. DropClaim(d) \in Device
  BY <1>3 DEF Device, DropClaim
<1>5. \A t : EndActionIfOwner(d, t) \in Device
  BY <1>3 DEF EndActionIfOwner
<1>6. \A line : FingerHint(d, line) \in Device
  BY DEF Device, FingerHint
<1>7. \A u \in Users, cl \in Clients :
        [d EXCEPT !.claimed_by = u, !.claim_sender = cl] \in Device
  BY DEF Device
<1>8. QED
  BY <1>2, <1>3, <1>4, <1>5, <1>6, <1>7

\* One field of an invocation, updated within its type.
LEMMA FieldTypes ==
  /\ \A r \in Invocation, pc \in Pcs : [r EXCEPT !.pc = pc] \in Invocation
  /\ \A r \in Invocation, kind \in Kinds : [r EXCEPT !.kind = kind] \in Invocation
  /\ \A r \in Invocation, cl \in Clients \cup { None } :
       [r EXCEPT !.client = cl] \in Invocation
  /\ \A r \in Invocation, u \in Users \cup { None } :
       [r EXCEPT !.user = u] \in Invocation
  /\ \A r \in Invocation, f \in Fingers \cup { AnyFinger, None } :
       [r EXCEPT !.finger = f] \in Invocation
  /\ \A r \in Invocation, t \in Token : [r EXCEPT !.token = t] \in Invocation
  /\ \A r \in Invocation, w \in SUBSET Slots :
       [r EXCEPT !.expected = w] \in Invocation
  /\ \A r \in Invocation, e \in (Fingers \X Slots) \cup { None } :
       [r EXCEPT !.entry = e] \in Invocation
  /\ \A r \in Invocation, t \in SUBSET (Fingers \X Slots) :
       [r EXCEPT !.todo = t] \in Invocation
  /\ \A r \in Invocation, done \in SUBSET Fingers :
       [r EXCEPT !.succeeded = done] \in Invocation
  /\ \A r \in Invocation : [r EXCEPT !.reply = None] \in Invocation
  /\ \A r \in Invocation, l \in Seq(Lines) :
       [r EXCEPT !.progress = l] \in Invocation
  /\ \A r \in Invocation, n \in Nat : [r EXCEPT !.retries = n] \in Invocation
  /\ \A r \in Invocation, st \in Statuses :
       [r EXCEPT !.status = st] \in Invocation
<1> USE DEF Invocation
<1>1. \A r \in Invocation, pc \in Pcs : [r EXCEPT !.pc = pc] \in Invocation
  OBVIOUS
<1>2. \A r \in Invocation, kind \in Kinds : [r EXCEPT !.kind = kind] \in Invocation
  OBVIOUS
<1>3. \A r \in Invocation, cl \in Clients \cup { None } :
        [r EXCEPT !.client = cl] \in Invocation
  OBVIOUS
<1>4. \A r \in Invocation, u \in Users \cup { None } :
        [r EXCEPT !.user = u] \in Invocation
  OBVIOUS
<1>5. \A r \in Invocation, f \in Fingers \cup { AnyFinger, None } :
        [r EXCEPT !.finger = f] \in Invocation
  OBVIOUS
<1>6. \A r \in Invocation, t \in Token : [r EXCEPT !.token = t] \in Invocation
  OBVIOUS
<1>7. \A r \in Invocation, w \in SUBSET Slots :
        [r EXCEPT !.expected = w] \in Invocation
  OBVIOUS
<1>8. \A r \in Invocation, e \in (Fingers \X Slots) \cup { None } :
        [r EXCEPT !.entry = e] \in Invocation
  OBVIOUS
<1>9. \A r \in Invocation, t \in SUBSET (Fingers \X Slots) :
        [r EXCEPT !.todo = t] \in Invocation
  OBVIOUS
<1>10. \A r \in Invocation, done \in SUBSET Fingers :
         [r EXCEPT !.succeeded = done] \in Invocation
  OBVIOUS
<1>11. \A r \in Invocation : [r EXCEPT !.reply = None] \in Invocation
  OBVIOUS
<1>12. ASSUME NEW r \in Invocation, NEW l \in Seq(Lines)
       PROVE  [r EXCEPT !.progress = l] \in Invocation
  OBVIOUS
<1>13. \A r \in Invocation, n \in Nat : [r EXCEPT !.retries = n] \in Invocation
  OBVIOUS
<1>14. \A r \in Invocation, st \in Statuses :
         [r EXCEPT !.status = st] \in Invocation
  OBVIOUS
<1> HIDE DEF Invocation
<1> QED
  BY <1>1, <1>2, <1>3, <1>4, <1>5, <1>6, <1>7, <1>8, <1>9, <1>10, <1>11, <1>12,
     <1>13, <1>14

LEMMA NewCallType ==
  ASSUME NEW pc \in Pcs, NEW kind \in Kinds, NEW client \in Clients \cup { None },
         NEW user \in Users \cup { None },
         NEW finger \in Fingers \cup { AnyFinger, None }
  PROVE  NewCall(pc, kind, client, user, finger) \in Invocation
<1>1. Idle \in Invocation
  BY IdleType
<1> DEFINE r1 == [Idle EXCEPT !.pc = pc]
           r2 == [r1 EXCEPT !.kind = kind]
           r3 == [r2 EXCEPT !.client = client]
           r4 == [r3 EXCEPT !.user = user]
<1>2. r1 \in Invocation /\ NewCall(pc, kind, client, user, finger)
                             = [r4 EXCEPT !.finger = finger]
  BY <1>1, FieldTypes DEF NewCall
<1> HIDE DEF r1
<1>3. r2 \in Invocation
  BY <1>2, FieldTypes
<1> HIDE DEF r2
<1>4. r3 \in Invocation
  BY <1>3, FieldTypes
<1> HIDE DEF r3
<1>5. r4 \in Invocation
  BY <1>4, FieldTypes
<1> HIDE DEF r4
<1>6. QED
  BY <1>2, <1>5, FieldTypes

LEMMA CallType ==
  ASSUME TypeOK, NEW p \in Procs, Call(p)
  PROVE  TypeOK'
<1>1. ASSUME NEW pc \in Pcs, NEW kind \in Kinds, NEW cl \in Clients,
             NEW client \in Clients \cup { None },
             NEW user \in Users \cup { None },
             NEW finger \in Fingers \cup { AnyFinger, None }, NEW m,
             Dispatch(p, cl, m, NewCall(pc, kind, client, user, finger))
      PROVE  TypeOK'
  <2>1. proc' \in [Procs -> Invocation]
    BY <1>1, NewCallType, BecomeType DEF Dispatch
  <2>2. QED
    BY <1>1, <2>1 DEF Dispatch, TypeOK
<1>2. dev.claimed_by \in Users \cup { None }
  BY DEF TypeOK, Device
<1>3. QED
  BY <1>1, <1>2
     DEF Call, CallClaim, CallVerifyStart, CallEnrollStart, CallVerifyStop,
         CallEnrollStop, CallDeleteAll, CallDeleteAll2, CallDeleteOne,
         Pcs, PermitPcs, OwnerPcs, Kinds

\* The updates an invocation goes through, each within its type.
LEMMA UpdateType ==
  ASSUME NEW r \in Invocation, NEW pc \in Pcs
  PROVE  /\ [r EXCEPT !.pc = pc] \in Invocation
         /\ \A t \in Token : [r EXCEPT !.pc = pc, !.token = t] \in Invocation
         /\ \A t \in Token, w \in SUBSET Slots :
              [r EXCEPT !.pc = pc, !.token = t, !.expected = w] \in Invocation
         /\ \A e \in (Fingers \X Slots) :
              [r EXCEPT !.pc = pc, !.entry = e] \in Invocation
         /\ \A n \in Nat :
              [r EXCEPT !.pc = pc, !.reply = None, !.retries = n] \in Invocation
         /\ \A st \in Statuses :
              [r EXCEPT !.pc = pc, !.status = st] \in Invocation
         /\ \A todo \in SUBSET (Fingers \X Slots) :
              [r EXCEPT !.pc = pc, !.todo = todo] \in Invocation
         /\ \A e \in (Fingers \X Slots), todo \in SUBSET (Fingers \X Slots) :
              [r EXCEPT !.pc = pc, !.entry = e, !.todo = todo] \in Invocation
         /\ \A done \in SUBSET Fingers :
              [r EXCEPT !.pc = pc, !.reply = None, !.entry = None,
                        !.succeeded = done] \in Invocation
         /\ \A l \in Seq(Lines) : [r EXCEPT !.progress = l] \in Invocation
         /\ \A done \in SUBSET Fingers :
              [r EXCEPT !.succeeded = done] \in Invocation
<1>0. \A x \in Fingers \X Slots : x \in (Fingers \X Slots) \cup { None }
  OBVIOUS
<1>1. [r EXCEPT !.pc = pc] \in Invocation
  BY FieldTypes
<1> DEFINE q == [r EXCEPT !.pc = pc]
<1>2. q \in Invocation
  BY <1>1
<1> HIDE DEF q
<1>3. \A t \in Token : [q EXCEPT !.token = t] \in Invocation
  BY <1>2, FieldTypes
<1>4. \A t \in Token, w \in SUBSET Slots :
        [[q EXCEPT !.token = t] EXCEPT !.expected = w] \in Invocation
  BY <1>3, FieldTypes
<1>5. \A e \in Fingers \X Slots : [q EXCEPT !.entry = e] \in Invocation
  BY <1>0, <1>2, FieldTypes
<1>6. \A e \in Fingers \X Slots, todo \in SUBSET (Fingers \X Slots) :
        [[q EXCEPT !.entry = e] EXCEPT !.todo = todo] \in Invocation
  BY <1>5, FieldTypes
<1>7. [q EXCEPT !.reply = None] \in Invocation
  BY <1>2, FieldTypes
<1>8. \A n \in Nat : [[q EXCEPT !.reply = None] EXCEPT !.retries = n] \in Invocation
  BY <1>7, FieldTypes
<1>9. [[q EXCEPT !.reply = None] EXCEPT !.entry = None] \in Invocation
  BY <1>7, FieldTypes
<1>10. \A done \in SUBSET Fingers :
         [[[q EXCEPT !.reply = None] EXCEPT !.entry = None]
            EXCEPT !.succeeded = done] \in Invocation
  BY <1>9, FieldTypes
<1>11. /\ \A st \in Statuses : [q EXCEPT !.status = st] \in Invocation
       /\ \A todo \in SUBSET (Fingers \X Slots) :
            [q EXCEPT !.todo = todo] \in Invocation
       /\ \A l \in Seq(Lines) : [r EXCEPT !.progress = l] \in Invocation
       /\ \A done \in SUBSET Fingers : [r EXCEPT !.succeeded = done] \in Invocation
  BY <1>2, FieldTypes
<1>12. QED
  BY <1>1, <1>3, <1>4, <1>5, <1>6, <1>8, <1>10, <1>11 DEF q

LEMMA PcTypes ==
  /\ { "idle", "claim", "stop", "permit", "lookup", "begin_delete", "mint",
       "refuse", "slot", "data_full", "hint", "run", "wait", "set_slot", "emit",
       "snapshot", "erase", "erasing" } \subseteq Pcs
  /\ Captures \cup { "delete" } \subseteq Kinds
  BY DEF Pcs, PermitPcs, OwnerPcs, Kinds, Captures

LEMMA ProcStepType ==
  ASSUME TypeOK, ShapeInv, EnrollInv, NEW p \in Procs, ProcStep(p)
  PROVE  TypeOK'
<1>1. proc[p] \in Invocation /\ proc[p].pc \in Pcs /\ dev \in Device
  BY DEF TypeOK, Invocation
<1>2. ASSUME NEW r \in Invocation, Become(p, r), permits' \in Nat,
             dev' \in Device, rows' \in [Prints -> Slots \cup { None }],
             queue' \in Seq(SensorRequest), cancelled' \subseteq Nat,
             UNCHANGED << flash, served, alive, departed >>
      PROVE  TypeOK'
  BY <1>2, BecomeType DEF TypeOK
<1>3. /\ permits \in Nat /\ permits + 1 \in Nat
      /\ rows \in [Prints -> Slots \cup { None }]
      /\ queue \in Seq(SensorRequest) /\ cancelled \subseteq Nat
  BY DEF TypeOK
<1>4. dev.action.epoch \in Nat /\ dev.next_epoch \in Nat /\ dev.action \in Token
  BY <1>1 DEF Device, Token
<1>5. \A kind \in Kinds : StartAction(dev, kind).action \in Token
  BY <1>1, <1>4 DEF StartAction, Token, Device
<1>6. \A pc \in Pcs : [proc[p] EXCEPT !.pc = pc] \in Invocation
  BY <1>1, UpdateType
<1>7. UserSlots(proc[p].user) \in SUBSET (Fingers \X Slots)
  BY DEF UserSlots
<1>10. CASE Claim(p)
  <2>1. proc[p].user \in Users /\ proc[p].client \in Clients
    BY <1>10 DEF Claim, ShapeInv, Shape
  <2>2. dev' \in Device
    <3>1. [dev EXCEPT !.claimed_by = proc[p].user,
                      !.claim_sender = proc[p].client] \in Device
      BY <1>1, <2>1, ActionTypes
    <3>2. \/ dev' = dev
          \/ dev' = [dev EXCEPT !.claimed_by = proc[p].user,
                                !.claim_sender = proc[p].client]
      BY <1>10 DEF Claim
    <3> QED BY <1>1, <3>1, <3>2
  <2>3. QED
    BY <1>2, <1>3, <1>10, <2>2, IdleType DEF Claim, Return
<1>11. CASE Stop(p)
  BY <1>1, <1>2, <1>3, <1>4, <1>11, IdleType, ActionTypes
     DEF Stop, Return, Cancel
<1>12. CASE AcquirePermit(p)
  BY <1>1, <1>2, <1>3, <1>6, <1>12, IdleType, PcTypes
     DEF AcquirePermit, Return, Goto
<1>13. CASE MintRefused(p)
  BY <1>1, <1>2, <1>3, <1>13, IdleType DEF MintRefused, ReturnPermit, Return
<1>14. CASE MintVerify(p)
  <2>1. Wanted(p) \in SUBSET Slots
    BY DEF Wanted, UserSlots
  <2>2. dev' \in Device /\ dev'.action \in Token
    BY <1>1, <1>5, <1>14, ActionTypes, PcTypes DEF MintVerify, Captures
  <2> DEFINE r == [proc[p] EXCEPT
                     !.pc = IF Wanted(p) = {} THEN "refuse" ELSE "hint",
                     !.token = dev'.action,
                     !.expected = Wanted(p)]
  <2>3. r \in Invocation
    BY <1>1, <2>1, <2>2, UpdateType, PcTypes
  <2>4. QED
    BY <1>2, <1>3, <1>14, <2>2, <2>3 DEF MintVerify
<1>15. CASE MintEnroll(p)
  <2>1. dev' \in Device /\ dev'.action \in Token
    BY <1>1, <1>5, <1>15, ActionTypes, PcTypes DEF MintEnroll, Captures
  <2>2. [proc[p] EXCEPT !.pc = "slot", !.token = dev'.action] \in Invocation
    BY <1>1, <2>1, UpdateType, PcTypes
  <2>3. QED
    BY <1>2, <1>3, <1>15, <2>1, <2>2 DEF MintEnroll
<1>16. CASE ChooseSlot(p)
  <2>1. proc[p].finger \in Fingers
    BY <1>16 DEF ChooseSlot, ShapeInv, Shape
  <2>2. \A s \in Slots :
          [proc[p] EXCEPT !.pc = "hint", !.entry = << proc[p].finger, s >>]
            \in Invocation
    BY <1>1, <2>1, UpdateType, PcTypes
  <2>3. [proc[p] EXCEPT !.pc = "data_full", !.status = "enroll-data-full"]
          \in Invocation
    BY <1>1, UpdateType, PcTypes DEF Statuses
  <2>4. QED
    BY <1>1, <1>2, <1>3, <1>16, <2>2, <2>3 DEF ChooseSlot
<1>17. CASE EmitDataFull(p)
  BY <1>1, <1>2, <1>3, <1>6, <1>17, PcTypes DEF EmitDataFull, Goto
<1>18. CASE Spawn(p)
  BY <1>1, <1>2, <1>3, <1>6, <1>18, ActionTypes, PcTypes DEF Spawn, Goto
<1>19. CASE RunEnroll(p)
  <2>1. Request(p, proc[p].entry[2]) \in SensorRequest
    BY <1>1, <1>19 DEF RunEnroll, Request, EnrollInv, SensorRequest, Invocation
  <2>2. queue' \in Seq(SensorRequest)
    BY <1>3, <1>19, <2>1 DEF RunEnroll
  <2>3. QED
    BY <1>1, <1>2, <1>3, <1>6, <1>19, <2>2, PcTypes DEF RunEnroll, Goto
<1>20. CASE RunVerify(p)
  <2>1. Request(p, None) \in SensorRequest
    BY <1>1 DEF Request, SensorRequest, Invocation
  <2>2. queue' \in Seq(SensorRequest)
    BY <1>3, <1>20, <2>1 DEF RunVerify
  <2>3. QED
    BY <1>1, <1>2, <1>3, <1>6, <1>20, <2>2, IdleType, PcTypes
       DEF RunVerify, Goto, ReturnPermit, Return
<1>21. CASE TakeProgress(p)
  <2>1. Tail(proc[p].progress) \in Seq(Lines)
    BY <1>1, <1>21 DEF TakeProgress, Invocation
  <2>2. [proc[p] EXCEPT !.progress = Tail(proc[p].progress)] \in Invocation
    BY <1>1, <2>1, UpdateType
  <2>3. QED
    BY <1>1, <1>2, <1>3, <1>21, <2>2, ActionTypes DEF TakeProgress
<1>22. CASE RetryVerify(p)
  <2>1. proc[p].retries + 1 \in Nat
    BY <1>1 DEF Invocation
  <2>2. [proc[p] EXCEPT !.pc = "run", !.reply = None,
                        !.retries = proc[p].retries + 1] \in Invocation
    BY <1>1, <2>1, UpdateType, PcTypes
  <2>3. QED
    BY <1>1, <1>2, <1>3, <1>22, <2>2 DEF RetryVerify
<1>23. CASE FinishVerify(p)
  <2>1. VerifyStatus(p) \in Statuses
    BY DEF VerifyStatus, Statuses
  <2>2. [proc[p] EXCEPT !.pc = "emit", !.status = VerifyStatus(p)] \in Invocation
    BY <1>1, <2>1, UpdateType, PcTypes
  <2>3. QED
    BY <1>1, <1>2, <1>3, <1>23, <2>2, IdleType, ActionTypes
       DEF FinishVerify, ReturnPermit, Return
<1>24. CASE FinishEnroll(p)
  <2>1. EnrollStatus(p) \in Statuses /\ AfterEnroll(p) \in Pcs
    BY PcTypes DEF EnrollStatus, AfterEnroll, Statuses
  <2>2. [proc[p] EXCEPT !.pc = AfterEnroll(p), !.status = EnrollStatus(p)]
          \in Invocation
    BY <1>1, <2>1, UpdateType
  <2>3. QED
    BY <1>1, <1>2, <1>3, <1>24, <2>2, IdleType, ActionTypes
       DEF FinishEnroll, ReturnPermit, Return
<1>25. CASE SetSlot(p)
  <2>1. proc[p].entry[2] \in Slots
    BY <1>25 DEF SetSlot, EnrollInv, ShapeInv, Shape
  <2>2. rows' \in [Prints -> Slots \cup { None }]
    BY <1>3, <1>25, <2>1 DEF SetSlot
  <2>3. \A st \in { "enroll-completed", "enroll-failed" } :
          [proc[p] EXCEPT !.pc = "emit", !.status = st] \in Invocation
    BY <1>1, UpdateType, PcTypes DEF Statuses
  <2>4. QED
    BY <1>1, <1>2, <1>3, <1>25, <2>2, <2>3 DEF SetSlot
<1>26. CASE Emit(p)
  BY <1>1, <1>2, <1>3, <1>26, IdleType DEF Emit, ReturnPermit, Return
<1>27. CASE LookupSlot(p)
  <2> DEFINE row == rows[<< proc[p].user, proc[p].finger >>]
  <2>1. proc[p].finger \in Fingers /\ proc[p].user \in Users
    BY <1>27 DEF LookupSlot, ShapeInv, Shape, DeletePcs
  <2>2. row # None => { << proc[p].finger, row >> } \in SUBSET (Fingers \X Slots)
    BY <1>3, <2>1 DEF Prints
  <2>3. row # None =>
          [proc[p] EXCEPT !.pc = "begin_delete",
                          !.todo = { << proc[p].finger, row >> }] \in Invocation
    BY <1>1, <2>2, UpdateType, PcTypes
  <2>4. QED
    BY <1>1, <1>2, <1>3, <1>27, <2>3, IdleType DEF LookupSlot, Return
<1>28. CASE BeginDelete(p)
  <2>1. StartAction(dev, "delete") \in Device
        /\ StartAction(dev, "delete").action \in Token
    BY <1>1, <1>5, ActionTypes, PcTypes
  <2>2. \A t \in Token :
          [proc[p] EXCEPT
             !.pc = IF proc[p].finger = None THEN "snapshot" ELSE "erase",
             !.token = t] \in Invocation
    BY <1>1, UpdateType, PcTypes
  <2>3. QED
    BY <1>1, <1>2, <1>3, <1>28, <2>1, <2>2, IdleType DEF BeginDelete, Return
<1>29. CASE SnapshotSlots(p)
  <2>1. [proc[p] EXCEPT !.pc = "erase", !.todo = UserSlots(proc[p].user)]
          \in Invocation
    BY <1>1, <1>7, UpdateType, PcTypes
  <2>2. QED
    BY <1>1, <1>2, <1>3, <1>29, <2>1 DEF SnapshotSlots
<1>30. CASE EraseNext(p)
  <2>1. PICK e \in proc[p].todo :
          /\ queue' = Append(queue, Request(p, e[2]))
          /\ Become(p, [proc[p] EXCEPT !.pc = "erasing", !.entry = e,
                                       !.todo = proc[p].todo \ { e }])
    BY <1>30 DEF EraseNext
  <2>2. e \in Fingers \X Slots /\ proc[p].todo \ { e } \in SUBSET (Fingers \X Slots)
    BY <1>1, <2>1 DEF Invocation
  <2>3. Request(p, e[2]) \in SensorRequest
    BY <1>1, <2>2 DEF Request, SensorRequest, Invocation
  <2>4. queue' \in Seq(SensorRequest)
    BY <1>3, <2>1, <2>3
  <2>5. [proc[p] EXCEPT !.pc = "erasing", !.entry = e,
                        !.todo = proc[p].todo \ { e }] \in Invocation
    BY <1>1, <2>2, UpdateType, PcTypes
  <2>6. QED
    BY <1>1, <1>2, <1>3, <1>30, <2>1, <2>4, <2>5 DEF EraseNext
<1>31. CASE EraseReply(p)
  <2> DEFINE done == IF proc[p].reply.res = "ok"
                       THEN proc[p].succeeded \cup { proc[p].entry[1] }
                       ELSE proc[p].succeeded
  <2>1. done \in SUBSET Fingers
    BY <1>1, <1>31 DEF EraseReply, ShapeInv, Shape, Invocation
  <2>2. [proc[p] EXCEPT !.pc = "erase", !.reply = None, !.entry = None,
                        !.succeeded = done] \in Invocation
    BY <1>1, <2>1, UpdateType, PcTypes
  <2>3. QED
    BY <1>1, <1>2, <1>3, <1>31, <2>2 DEF EraseReply
<1>32. CASE RemoveRow(p)
  <2>1. PICK f \in proc[p].succeeded :
          /\ rows' = [rows EXCEPT ![<< proc[p].user, f >>] = None]
          /\ Become(p, [proc[p] EXCEPT !.succeeded = proc[p].succeeded \ { f }])
    BY <1>32 DEF RemoveRow
  <2>2. rows' \in [Prints -> Slots \cup { None }]
    BY <1>3, <2>1
  <2>3. proc[p].succeeded \ { f } \in SUBSET Fingers
    BY <1>1 DEF Invocation
  <2>4. [proc[p] EXCEPT !.succeeded = proc[p].succeeded \ { f }] \in Invocation
    BY <1>1, <2>3, UpdateType
  <2>5. QED
    BY <1>1, <1>2, <1>3, <1>32, <2>1, <2>2, <2>4 DEF RemoveRow
<1>33. CASE FinishDelete(p)
  BY <1>1, <1>2, <1>3, <1>33, IdleType, ActionTypes DEF FinishDelete, Return
<1>34. CASE Refuse(p)
  BY <1>1, <1>2, <1>3, <1>34, IdleType, ActionTypes
     DEF Refuse, ReturnPermit, Return
<1>35. QED
  BY <1>10, <1>11, <1>12, <1>13, <1>14, <1>15, <1>16, <1>17, <1>18, <1>19,
     <1>20, <1>21, <1>22, <1>23, <1>24, <1>25, <1>26, <1>27, <1>28, <1>29,
     <1>30, <1>31, <1>32, <1>33, <1>34 DEF ProcStep

-----------------------------------------------------------------------------
(* What each step does to the fields of its invocation *)

Fixed(p) ==
  /\ proc'[p].kind = proc[p].kind /\ proc'[p].client = proc[p].client
  /\ proc'[p].user = proc[p].user /\ proc'[p].finger = proc[p].finger

SameToken(p) == Fixed(p) /\ proc'[p].token = proc[p].token

SameWork(p) ==
  /\ SameToken(p)
  /\ proc'[p].entry = proc[p].entry /\ proc'[p].expected = proc[p].expected
  /\ proc'[p].reply = proc[p].reply /\ proc'[p].status = proc[p].status

\* An invocation is updated by its own steps only.
LEMMA Frame ==
  ASSUME TypeOK, NEW p \in Procs, NEW r, Become(p, r)
  PROVE  proc'[p] = r /\ \A q \in Procs : q # p => proc'[q] = proc[q]
  BY DEF TypeOK, Become

LEMMA CaptureEffects ==
  ASSUME TypeOK, NEW p \in Procs
  PROVE  /\ AcquirePermit(p) =>
              \/ permits = 0 /\ permits' = permits /\ proc'[p] = Idle
              \/ /\ permits > 0 /\ permits' = permits - 1
                 /\ proc'[p].pc = "mint" /\ SameWork(p)
         /\ MintVerify(p) =>
              /\ proc'[p].pc \in { "refuse", "hint" }
              /\ proc'[p].token = dev'.action /\ proc'[p].expected = Wanted(p)
              /\ proc'[p].reply = proc[p].reply /\ Fixed(p)
         /\ MintEnroll(p) =>
              /\ proc'[p].pc = "slot" /\ proc'[p].token = dev'.action
              /\ proc'[p].reply = proc[p].reply /\ Fixed(p)
         /\ ChooseSlot(p) =>
              /\ proc'[p].reply = proc[p].reply /\ SameToken(p)
              /\ \/ proc'[p].pc = "data_full"
                 \/ /\ proc'[p].pc = "hint"
                    /\ \E s \in Slots :
                         /\ TargetSlot(p, s)
                         /\ proc'[p].entry = << proc[p].finger, s >>
         /\ EmitDataFull(p) => proc'[p].pc = "refuse" /\ SameWork(p)
         /\ Spawn(p) => proc'[p].pc = "run" /\ SameWork(p)
         /\ RunEnroll(p) => proc'[p].pc = "wait" /\ SameWork(p)
         /\ RunVerify(p) =>
              \/ /\ dev.action = proc[p].token /\ permits' = permits
                 /\ queue' = Append(queue, Request(p, None))
                 /\ proc'[p].pc = "wait" /\ SameWork(p)
              \/ /\ dev.action # proc[p].token /\ permits' = permits + 1
                 /\ queue' = queue /\ proc'[p] = Idle
<1>1. proc[p] \in Invocation /\ permits \in Nat
  BY DEF TypeOK
<1>2. \A r : Become(p, r) => proc'[p] = r
  BY Frame
<1>3. ASSUME NEW pc, Goto(p, pc)
      PROVE  proc'[p].pc = pc /\ SameWork(p)
  <2>1. proc'[p] = [proc[p] EXCEPT !.pc = pc]
    BY <1>2, <1>3 DEF Goto
  <2>2. QED
    BY <1>1, <2>1 DEF Invocation, SameWork, SameToken, Fixed
<1>4. Return(p) => proc'[p] = Idle
  BY <1>2 DEF Return
<1>5. AcquirePermit(p) =>
        \/ permits = 0 /\ permits' = permits /\ proc'[p] = Idle
        \/ /\ permits > 0 /\ permits' = permits - 1
           /\ proc'[p].pc = "mint" /\ SameWork(p)
  BY <1>1, <1>3, <1>4 DEF AcquirePermit
<1>6. ASSUME MintVerify(p)
      PROVE  /\ proc'[p].pc \in { "refuse", "hint" }
             /\ proc'[p].token = dev'.action /\ proc'[p].expected = Wanted(p)
             /\ proc'[p].reply = proc[p].reply /\ Fixed(p)
  <2>1. proc'[p] = [proc[p] EXCEPT
                      !.pc = IF Wanted(p) = {} THEN "refuse" ELSE "hint",
                      !.token = dev'.action,
                      !.expected = Wanted(p)]
    BY <1>2, <1>6 DEF MintVerify
  <2>2. QED
    BY <1>1, <2>1 DEF Invocation, Fixed
<1>7. ASSUME MintEnroll(p)
      PROVE  /\ proc'[p].pc = "slot" /\ proc'[p].token = dev'.action
             /\ proc'[p].reply = proc[p].reply /\ Fixed(p)
  <2>1. proc'[p] = [proc[p] EXCEPT !.pc = "slot", !.token = dev'.action]
    BY <1>2, <1>7 DEF MintEnroll
  <2>2. QED
    BY <1>1, <2>1 DEF Invocation, Fixed
<1>8. ASSUME ChooseSlot(p)
      PROVE  /\ proc'[p].reply = proc[p].reply /\ SameToken(p)
             /\ \/ proc'[p].pc = "data_full"
                \/ /\ proc'[p].pc = "hint"
                   /\ \E s \in Slots :
                        /\ TargetSlot(p, s)
                        /\ proc'[p].entry = << proc[p].finger, s >>
  <2> DEFINE full == [proc[p] EXCEPT !.pc = "data_full",
                                     !.status = "enroll-data-full"]
  <2>1. CASE Become(p, full)
    <3>1. proc'[p] = full
      BY <1>2, <2>1
    <3>2. QED
      BY <1>1, <3>1 DEF Invocation, SameToken, Fixed
  <2>2. CASE ~ Become(p, full)
    <3>1. PICK s \in Slots :
            /\ TargetSlot(p, s)
            /\ Become(p, [proc[p] EXCEPT !.pc = "hint",
                                         !.entry = << proc[p].finger, s >>])
      BY <1>8, <2>2 DEF ChooseSlot
    <3>2. proc'[p] = [proc[p] EXCEPT !.pc = "hint",
                                     !.entry = << proc[p].finger, s >>]
      BY <1>2, <3>1
    <3>3. /\ proc'[p].pc = "hint" /\ proc'[p].reply = proc[p].reply
          /\ proc'[p].entry = << proc[p].finger, s >> /\ SameToken(p)
      BY <1>1, <3>2 DEF Invocation, SameToken, Fixed
    <3>4. QED
      BY <3>1, <3>3
  <2>3. QED
    BY <2>1, <2>2
<1>9. Spawn(p) => proc'[p].pc = "run" /\ SameWork(p)
  BY <1>3 DEF Spawn
<1>10. RunEnroll(p) => proc'[p].pc = "wait" /\ SameWork(p)
  BY <1>3 DEF RunEnroll
<1>11. RunVerify(p) =>
         \/ /\ dev.action = proc[p].token /\ permits' = permits
            /\ queue' = Append(queue, Request(p, None))
            /\ proc'[p].pc = "wait" /\ SameWork(p)
         \/ /\ dev.action # proc[p].token /\ permits' = permits + 1
            /\ queue' = queue /\ proc'[p] = Idle
  BY <1>3, <1>4 DEF RunVerify, ReturnPermit
<1>12. EmitDataFull(p) => proc'[p].pc = "refuse" /\ SameWork(p)
  BY <1>3 DEF EmitDataFull
<1>13. QED
  BY <1>5, <1>6, <1>7, <1>8, <1>9, <1>10, <1>11, <1>12

LEMMA TaskEffects ==
  ASSUME TypeOK, NEW p \in Procs
  PROVE  /\ TakeProgress(p) => proc'[p].pc = proc[p].pc /\ SameWork(p)
         /\ RetryVerify(p) =>
              /\ proc'[p].pc = "run" /\ proc'[p].reply = None
              /\ proc'[p].expected = proc[p].expected /\ SameToken(p)
         /\ FinishVerify(p) =>
              \/ /\ dev.action = proc[p].token /\ permits' = permits
                 /\ proc'[p].pc = "emit" /\ proc'[p].status = VerifyStatus(p)
                 /\ proc'[p].reply = proc[p].reply /\ SameToken(p)
              \/ /\ dev.action # proc[p].token /\ permits' = permits + 1
                 /\ proc'[p] = Idle
         /\ FinishEnroll(p) =>
              \/ /\ dev.action = proc[p].token /\ permits' = permits
                 /\ proc'[p].pc = AfterEnroll(p)
                 /\ proc'[p].status = EnrollStatus(p)
                 /\ proc'[p].entry = proc[p].entry /\ SameToken(p)
              \/ /\ dev.action # proc[p].token /\ permits' = permits + 1
                 /\ proc'[p] = Idle
         /\ SetSlot(p) =>
              /\ proc'[p].pc = "emit" /\ proc'[p].status # "verify-match"
              /\ SameToken(p)
<1>1. proc[p] \in Invocation /\ permits \in Nat
  BY DEF TypeOK
<1>2. \A r : Become(p, r) => proc'[p] = r
  BY Frame
<1>3. ASSUME TakeProgress(p)
      PROVE  proc'[p].pc = proc[p].pc /\ SameWork(p)
  <2>1. proc'[p] = [proc[p] EXCEPT !.progress = Tail(proc[p].progress)]
    BY <1>2, <1>3 DEF TakeProgress
  <2>2. QED
    BY <1>1, <2>1 DEF Invocation, SameWork, SameToken, Fixed
<1>4. ASSUME RetryVerify(p)
      PROVE  /\ proc'[p].pc = "run" /\ proc'[p].reply = None
             /\ proc'[p].expected = proc[p].expected /\ SameToken(p)
  <2>1. proc'[p] = [proc[p] EXCEPT !.pc = "run", !.reply = None,
                                   !.retries = proc[p].retries + 1]
    BY <1>2, <1>4 DEF RetryVerify
  <2>2. QED
    BY <1>1, <2>1 DEF Invocation, SameToken, Fixed
<1>5. ASSUME FinishVerify(p)
      PROVE  \/ /\ dev.action = proc[p].token /\ permits' = permits
                /\ proc'[p].pc = "emit" /\ proc'[p].status = VerifyStatus(p)
                /\ proc'[p].reply = proc[p].reply /\ SameToken(p)
             \/ /\ dev.action # proc[p].token /\ permits' = permits + 1
                /\ proc'[p] = Idle
  <2>1. CASE dev.action = proc[p].token
    <3>1. proc'[p] = [proc[p] EXCEPT !.pc = "emit", !.status = VerifyStatus(p)]
      BY <1>2, <1>5, <2>1 DEF FinishVerify
    <3>2. QED
      BY <1>1, <1>5, <2>1, <3>1 DEF FinishVerify, Invocation, SameToken, Fixed
  <2>2. CASE dev.action # proc[p].token
    BY <1>2, <1>5, <2>2 DEF FinishVerify, ReturnPermit, Return
  <2>3. QED
    BY <2>1, <2>2
<1>6. ASSUME FinishEnroll(p)
      PROVE  \/ /\ dev.action = proc[p].token /\ permits' = permits
                /\ proc'[p].pc = AfterEnroll(p)
                /\ proc'[p].status = EnrollStatus(p)
                /\ proc'[p].entry = proc[p].entry /\ SameToken(p)
             \/ /\ dev.action # proc[p].token /\ permits' = permits + 1
                /\ proc'[p] = Idle
  <2>1. CASE dev.action = proc[p].token
    <3>1. proc'[p] = [proc[p] EXCEPT !.pc = AfterEnroll(p),
                                     !.status = EnrollStatus(p)]
      BY <1>2, <1>6, <2>1 DEF FinishEnroll
    <3>2. QED
      BY <1>1, <1>6, <2>1, <3>1 DEF FinishEnroll, Invocation, SameToken, Fixed
  <2>2. CASE dev.action # proc[p].token
    BY <1>2, <1>6, <2>2 DEF FinishEnroll, ReturnPermit, Return
  <2>3. QED
    BY <2>1, <2>2
<1>7. ASSUME SetSlot(p)
      PROVE  /\ proc'[p].pc = "emit" /\ proc'[p].status # "verify-match"
             /\ SameToken(p)
  <2>1. PICK st \in { "enroll-completed", "enroll-failed" } :
          proc'[p] = [proc[p] EXCEPT !.pc = "emit", !.status = st]
    BY <1>2, <1>7 DEF SetSlot
  <2>2. QED
    BY <1>1, <2>1 DEF Invocation, SameToken, Fixed
<1>8. QED
  BY <1>3, <1>4, <1>5, <1>6, <1>7

LEMMA DeleteEffects ==
  ASSUME TypeOK, NEW p \in Procs
  PROVE  /\ LookupSlot(p) =>
              \/ proc'[p] = Idle
              \/ /\ proc'[p].pc = "begin_delete"
                 /\ proc'[p].reply = proc[p].reply /\ Fixed(p)
         /\ BeginDelete(p) =>
              \/ dev.action # NoAction /\ dev' = dev /\ proc'[p] = Idle
              \/ /\ dev.action = NoAction /\ dev' = StartAction(dev, "delete")
                 /\ proc'[p].pc \in { "snapshot", "erase" }
                 /\ proc'[p].token = dev'.action
                 /\ proc'[p].reply = proc[p].reply /\ Fixed(p)
         /\ SnapshotSlots(p) =>
              /\ proc'[p].pc = "erase" /\ proc'[p].reply = proc[p].reply
              /\ SameToken(p)
         /\ EraseNext(p) =>
              /\ proc'[p].pc = "erasing" /\ proc'[p].reply = proc[p].reply
              /\ proc'[p].entry \in Fingers \X Slots
              /\ queue' = Append(queue, Request(p, proc'[p].entry[2]))
              /\ SameToken(p)
         /\ EraseReply(p) =>
              /\ proc'[p].pc = "erase" /\ proc'[p].reply = None
              /\ SameToken(p)
         /\ RemoveRow(p) =>
              /\ proc'[p].pc = proc[p].pc /\ proc'[p].reply = proc[p].reply
              /\ SameToken(p)
<1>1. proc[p] \in Invocation
  BY DEF TypeOK
<1>2. \A r : Become(p, r) => proc'[p] = r
  BY Frame
<1>3. ASSUME LookupSlot(p)
      PROVE  \/ proc'[p] = Idle
             \/ /\ proc'[p].pc = "begin_delete"
                /\ proc'[p].reply = proc[p].reply /\ Fixed(p)
  <2> DEFINE row == rows[<< proc[p].user, proc[p].finger >>]
  <2>1. CASE row = None
    BY <1>2, <1>3, <2>1 DEF LookupSlot, Return
  <2>2. CASE row # None
    <3>1. proc'[p] = [proc[p] EXCEPT !.pc = "begin_delete",
                                     !.todo = { << proc[p].finger, row >> }]
      BY <1>2, <1>3, <2>2 DEF LookupSlot
    <3>2. QED
      BY <1>1, <3>1 DEF Invocation, Fixed
  <2>3. QED
    BY <2>1, <2>2
<1>4. ASSUME BeginDelete(p)
      PROVE  \/ dev.action # NoAction /\ dev' = dev /\ proc'[p] = Idle
             \/ /\ dev.action = NoAction /\ dev' = StartAction(dev, "delete")
                /\ proc'[p].pc \in { "snapshot", "erase" }
                /\ proc'[p].token = dev'.action
                /\ proc'[p].reply = proc[p].reply /\ Fixed(p)
  <2>1. CASE dev.action = NoAction
    <3>1. proc'[p] = [proc[p] EXCEPT
                        !.pc = IF proc[p].finger = None
                                 THEN "snapshot" ELSE "erase",
                        !.token = dev'.action]
      BY <1>2, <1>4, <2>1 DEF BeginDelete
    <3>2. QED
      BY <1>1, <1>4, <2>1, <3>1 DEF BeginDelete, Invocation, Fixed
  <2>2. CASE dev.action # NoAction
    BY <1>2, <1>4, <2>2 DEF BeginDelete, Return
  <2>3. QED
    BY <2>1, <2>2
<1>5. ASSUME SnapshotSlots(p)
      PROVE  /\ proc'[p].pc = "erase" /\ proc'[p].reply = proc[p].reply
             /\ SameToken(p)
  <2>1. proc'[p] = [proc[p] EXCEPT !.pc = "erase",
                                   !.todo = UserSlots(proc[p].user)]
    BY <1>2, <1>5 DEF SnapshotSlots
  <2>2. QED
    BY <1>1, <2>1 DEF Invocation, SameToken, Fixed
<1>6. ASSUME EraseNext(p)
      PROVE  /\ proc'[p].pc = "erasing" /\ proc'[p].reply = proc[p].reply
             /\ proc'[p].entry \in Fingers \X Slots
             /\ queue' = Append(queue, Request(p, proc'[p].entry[2]))
             /\ SameToken(p)
  <2>1. PICK e \in proc[p].todo :
          /\ queue' = Append(queue, Request(p, e[2]))
          /\ Become(p, [proc[p] EXCEPT !.pc = "erasing", !.entry = e,
                                       !.todo = proc[p].todo \ { e }])
    BY <1>6 DEF EraseNext
  <2>2. proc'[p] = [proc[p] EXCEPT !.pc = "erasing", !.entry = e,
                                   !.todo = proc[p].todo \ { e }]
    BY <1>2, <2>1
  <2>3. /\ proc'[p].pc = "erasing" /\ proc'[p].reply = proc[p].reply
        /\ proc'[p].entry = e /\ e \in Fingers \X Slots /\ SameToken(p)
    BY <1>1, <2>2 DEF Invocation, SameToken, Fixed
  <2>4. QED
    BY <2>1, <2>3
<1>7. ASSUME EraseReply(p)
      PROVE  /\ proc'[p].pc = "erase" /\ proc'[p].reply = None
             /\ SameToken(p)
  <2>1. PICK done : proc'[p] = [proc[p] EXCEPT !.pc = "erase", !.reply = None,
                                               !.entry = None,
                                               !.succeeded = done]
    BY <1>2, <1>7 DEF EraseReply
  <2>2. QED
    BY <1>1, <2>1 DEF Invocation, SameToken, Fixed
<1>8. ASSUME RemoveRow(p)
      PROVE  /\ proc'[p].pc = proc[p].pc /\ proc'[p].reply = proc[p].reply
             /\ SameToken(p)
  <2>1. PICK done : proc'[p] = [proc[p] EXCEPT !.succeeded = done]
    BY <1>2, <1>8 DEF RemoveRow
  <2>2. QED
    BY <1>1, <2>1 DEF Invocation, SameToken, Fixed
<1>9. QED
  BY <1>3, <1>4, <1>5, <1>6, <1>7, <1>8

\* The steps that end an invocation outright.
LEMMA ReturnEffects ==
  ASSUME TypeOK, NEW p \in Procs,
         \/ Claim(p) \/ Stop(p) \/ MintRefused(p) \/ Refuse(p) \/ Emit(p)
         \/ FinishDelete(p)
  PROVE  proc'[p] = Idle
  BY Frame DEF Claim, Stop, MintRefused, Refuse, Emit, FinishDelete,
               ReturnPermit, Return

LEMMA OthersKeep ==
  ASSUME TypeOK, NEW p \in Procs, ProcStep(p)
  PROVE  \A q \in Procs : q # p => proc'[q] = proc[q]
<1>1. \A r : Become(p, r) => \A q \in Procs : q # p => proc'[q] = proc[q]
  BY Frame
<1>2. \A pc : Goto(p, pc) => \A q \in Procs : q # p => proc'[q] = proc[q]
  BY <1>1 DEF Goto
<1>3. Return(p) => \A q \in Procs : q # p => proc'[q] = proc[q]
  BY <1>1 DEF Return
<1>4. CASE ChooseSlot(p)
  BY <1>1, <1>2, <1>4 DEF ChooseSlot
<1>5. CASE LookupSlot(p) \/ BeginDelete(p)
  BY <1>1, <1>3, <1>5 DEF LookupSlot, BeginDelete
<1>6. CASE FinishVerify(p) \/ FinishEnroll(p)
  BY <1>1, <1>3, <1>6 DEF FinishVerify, FinishEnroll, ReturnPermit
<1>7. CASE SetSlot(p) \/ EraseNext(p) \/ EraseReply(p) \/ RemoveRow(p)
  BY <1>1, <1>7 DEF SetSlot, EraseNext, EraseReply, RemoveRow
<1>8. CASE \/ MintVerify(p) \/ MintEnroll(p) \/ TakeProgress(p)
           \/ RetryVerify(p) \/ SnapshotSlots(p)
  BY <1>1, <1>8 DEF MintVerify, MintEnroll, TakeProgress, RetryVerify,
                    SnapshotSlots
<1>9. CASE \/ AcquirePermit(p) \/ RunVerify(p) \/ RunEnroll(p) \/ Spawn(p)
           \/ Claim(p) \/ Stop(p) \/ MintRefused(p) \/ Refuse(p) \/ Emit(p)
           \/ EmitDataFull(p) \/ FinishDelete(p)
  BY <1>2, <1>3, <1>9 DEF AcquirePermit, RunVerify, RunEnroll, Spawn, Claim,
     Stop, MintRefused, Refuse, Emit, EmitDataFull, FinishDelete, ReturnPermit
<1>10. QED
  BY <1>4, <1>5, <1>6, <1>7, <1>8, <1>9 DEF ProcStep

-----------------------------------------------------------------------------
(* Preservation of the shape and of the permit invariant *)

LEMMA ShapeStep ==
  ASSUME TypeOK, ShapeInv, NEW p \in Procs, ProcStep(p)
  PROVE  ShapeInv'
<1>0. \A q \in Procs : q # p => Shape(q)'
  BY OthersKeep DEF ShapeInv, Shape
<1> SUFFICES Shape(p)'
  BY <1>0 DEF ShapeInv
<1>1. Shape(p)
  BY DEF ShapeInv
<1>2. proc'[p] = Idle => Shape(p)'
  BY NoneAssumption DEF Idle, Shape, PermitPcs, OwnerPcs,
         VerdictPcs, TokenPcs, DeletePcs, Captures
<1>3. CASE \/ AcquirePermit(p) \/ MintVerify(p) \/ MintEnroll(p)
           \/ ChooseSlot(p) \/ EmitDataFull(p) \/ Spawn(p)
  BY <1>1, <1>2, <1>3, CaptureEffects
     DEF AcquirePermit, MintVerify, MintEnroll, ChooseSlot, EmitDataFull, Spawn,
         SameWork, SameToken, Fixed, Shape, PermitPcs, OwnerPcs,
         VerdictPcs, TokenPcs, DeletePcs, Captures
<1>4. CASE RunEnroll(p) \/ RunVerify(p)
  BY <1>1, <1>2, <1>4, CaptureEffects
     DEF RunEnroll, RunVerify, SameWork, SameToken, Fixed, Shape, PermitPcs, OwnerPcs,
         VerdictPcs, TokenPcs, DeletePcs, Captures
<1>5. CASE TakeProgress(p) \/ RetryVerify(p)
  BY <1>1, <1>2, <1>5, TaskEffects
     DEF TakeProgress, RetryVerify, SameWork, SameToken, Fixed, Shape, PermitPcs, OwnerPcs,
         VerdictPcs, TokenPcs, DeletePcs, Captures
<1>6. CASE FinishVerify(p)
  BY <1>1, <1>2, <1>6, TaskEffects DEF FinishVerify, SameToken, Fixed, Shape, PermitPcs, OwnerPcs,
         VerdictPcs, TokenPcs, DeletePcs, Captures
<1>7. CASE FinishEnroll(p)
  BY <1>1, <1>2, <1>7, TaskEffects DEF FinishEnroll, AfterEnroll, SameToken, Fixed, Shape, PermitPcs, OwnerPcs,
         VerdictPcs, TokenPcs, DeletePcs, Captures
<1>8. CASE SetSlot(p)
  BY <1>1, <1>2, <1>8, TaskEffects DEF SetSlot, SameToken, Fixed, Shape, PermitPcs, OwnerPcs,
         VerdictPcs, TokenPcs, DeletePcs, Captures
<1>9. CASE LookupSlot(p)
  BY <1>1, <1>2, <1>9, DeleteEffects DEF LookupSlot, Fixed, Shape, PermitPcs, OwnerPcs,
         VerdictPcs, TokenPcs, DeletePcs, Captures
<1>10. CASE BeginDelete(p)
  BY <1>1, <1>2, <1>10, DeleteEffects DEF BeginDelete, Fixed, Shape, PermitPcs, OwnerPcs,
         VerdictPcs, TokenPcs, DeletePcs, Captures
<1>11. CASE SnapshotSlots(p) \/ EraseNext(p) \/ EraseReply(p) \/ RemoveRow(p)
  BY <1>1, <1>2, <1>11, DeleteEffects
     DEF SnapshotSlots, EraseNext, EraseReply, RemoveRow, SameToken, Fixed, Shape, PermitPcs, OwnerPcs,
         VerdictPcs, TokenPcs, DeletePcs, Captures
<1>12. CASE \/ Claim(p) \/ Stop(p) \/ MintRefused(p) \/ Refuse(p) \/ Emit(p)
            \/ FinishDelete(p)
  BY <1>2, <1>12, ReturnEffects
<1>13. QED
  BY <1>3, <1>4, <1>5, <1>6, <1>7, <1>8, <1>9, <1>10, <1>11, <1>12 DEF ProcStep

\* Permits and the pieces of code that hold one change together.
LEMMA PermitFlow ==
  ASSUME TypeOK, ShapeInv, NEW p \in Procs, ProcStep(p)
  PROVE  \/ HoldsPermit(p) /\ HoldsPermit(p)' /\ permits' = permits
         \/ ~ HoldsPermit(p) /\ ~ HoldsPermit(p)' /\ permits' = permits
         \/ /\ ~ HoldsPermit(p) /\ HoldsPermit(p)'
            /\ permits > 0 /\ permits' = permits - 1
         \/ HoldsPermit(p) /\ ~ HoldsPermit(p)' /\ permits' = permits + 1
<1> USE DEF HoldsPermit, PermitPcs
<1>1. proc'[p] = Idle => ~ HoldsPermit(p)'
  BY DEF Idle
<1>2. CASE \/ AcquirePermit(p) \/ MintVerify(p) \/ MintEnroll(p)
           \/ ChooseSlot(p) \/ EmitDataFull(p) \/ Spawn(p)
  BY <1>1, <1>2, CaptureEffects
     DEF AcquirePermit, MintVerify, MintEnroll, ChooseSlot, EmitDataFull, Spawn
<1>3. CASE RunEnroll(p) \/ RunVerify(p)
  BY <1>1, <1>3, CaptureEffects DEF RunEnroll, RunVerify
<1>4. CASE \/ TakeProgress(p) \/ RetryVerify(p) \/ FinishVerify(p)
           \/ FinishEnroll(p) \/ SetSlot(p)
  BY <1>1, <1>4, TaskEffects
     DEF TakeProgress, RetryVerify, FinishVerify, FinishEnroll, AfterEnroll,
         SetSlot
<1>5. CASE LookupSlot(p) \/ BeginDelete(p)
  BY <1>1, <1>5, DeleteEffects DEF LookupSlot, BeginDelete
<1>6. CASE SnapshotSlots(p) \/ EraseNext(p) \/ EraseReply(p) \/ RemoveRow(p)
  BY <1>1, <1>6, DeleteEffects DEF SnapshotSlots, EraseNext, EraseReply, RemoveRow
<1>7. CASE MintRefused(p) \/ Refuse(p) \/ Emit(p)
  BY <1>1, <1>7, ReturnEffects DEF MintRefused, Refuse, Emit, ReturnPermit
<1>8. CASE Claim(p) \/ Stop(p) \/ FinishDelete(p)
  BY <1>1, <1>8, ReturnEffects DEF Claim, Stop, FinishDelete
<1>9. QED
  BY <1>2, <1>3, <1>4, <1>5, <1>6, <1>7, <1>8 DEF ProcStep

LEMMA PermitStep ==
  ASSUME TypeOK, ShapeInv, PermitInv, NEW p \in Procs, ProcStep(p)
  PROVE  PermitInv'
<1>1. \A q \in Procs : q # p => HoldsPermit(q)' = HoldsPermit(q)
  BY OthersKeep DEF HoldsPermit
<1>2. permits \in Nat
  BY DEF TypeOK
<1>3. QED
  BY <1>1, <1>2, PermitFlow DEF PermitInv

-----------------------------------------------------------------------------
(* What a step of an invocation does to the action slot and its token *)

Mints(p) ==
  /\ dev.action = NoAction
  /\ proc[p].pc \notin TokenPcs /\ proc'[p].pc \in OwnerPcs
  /\ proc'[p].token = dev'.action
  /\ dev'.action = [kind |-> proc'[p].kind, epoch |-> dev.next_epoch]
  /\ proc'[p].kind # "none"
  /\ dev'.next_epoch = dev.next_epoch + 1
  /\ cancelled' = cancelled

Stops(p) ==
  /\ proc[p].pc \notin TokenPcs /\ proc'[p].pc \notin TokenPcs
  /\ dev'.action = NoAction /\ dev'.next_epoch = dev.next_epoch
  /\ cancelled' = IF dev.action = NoAction THEN cancelled
                                           ELSE cancelled \cup { dev.action.epoch }

Outside(p) ==
  /\ proc[p].pc \notin TokenPcs /\ proc'[p].pc \notin TokenPcs
  /\ dev'.action = dev.action /\ dev'.next_epoch = dev.next_epoch
  /\ cancelled' = cancelled

Keeps(p) ==
  /\ \/ proc[p].pc \in OwnerPcs /\ proc'[p].pc \in OwnerPcs
     \/ proc[p].pc \in VerdictPcs /\ proc'[p].pc \in VerdictPcs
  /\ proc'[p].token = proc[p].token /\ proc'[p].kind = proc[p].kind
  /\ dev'.action = dev.action /\ dev'.next_epoch = dev.next_epoch
  /\ cancelled' = cancelled

Ends(p) ==
  /\ proc[p].pc \in OwnerPcs
  /\ dev'.action = IF dev.action = proc[p].token THEN NoAction ELSE dev.action
  /\ \/ proc'[p].pc \notin TokenPcs
     \/ /\ proc'[p].pc \in VerdictPcs /\ dev.action = proc[p].token
        /\ proc'[p].token = proc[p].token /\ proc'[p].kind = proc[p].kind
  /\ dev'.next_epoch = dev.next_epoch
  /\ cancelled' = cancelled

Leaves(p) ==
  /\ proc[p].pc \in VerdictPcs /\ proc'[p].pc \notin TokenPcs
  /\ dev'.action = dev.action /\ dev'.next_epoch = dev.next_epoch
  /\ cancelled' = cancelled

LEMMA DeviceFields ==
  ASSUME TypeOK
  PROVE  /\ \A kind : /\ StartAction(dev, kind).action
                           = [kind |-> kind, epoch |-> dev.next_epoch]
                      /\ StartAction(dev, kind).next_epoch = dev.next_epoch + 1
         /\ ClearAction(dev).action = NoAction
         /\ ClearAction(dev).next_epoch = dev.next_epoch
         /\ DropClaim(dev).action = NoAction
         /\ DropClaim(dev).next_epoch = dev.next_epoch
         /\ \A line : /\ FingerHint(dev, line).action = dev.action
                      /\ FingerHint(dev, line).next_epoch = dev.next_epoch
  BY DEF TypeOK, Device, StartAction, ClearAction, DropClaim, FingerHint

LEMMA TokenFlow ==
  ASSUME TypeOK, ShapeInv, NEW p \in Procs, ProcStep(p)
  PROVE  \/ Mints(p) \/ Stops(p) \/ Outside(p) \/ Keeps(p) \/ Ends(p)
         \/ Leaves(p)
<1> USE DEF PermitPcs, OwnerPcs, VerdictPcs, TokenPcs, DeletePcs
<1>1. Shape(p)
  BY DEF ShapeInv
<1>2. proc'[p] = Idle => proc'[p].pc \notin TokenPcs
  BY DEF Idle
<1>3. CASE AcquirePermit(p) \/ LookupSlot(p)
  BY <1>2, <1>3, CaptureEffects, DeleteEffects DEF AcquirePermit, LookupSlot, Outside
<1>4. CASE MintVerify(p) \/ MintEnroll(p)
  <2>1. /\ StartAction(dev, proc[p].kind).action
               = [kind |-> proc[p].kind, epoch |-> dev.next_epoch]
        /\ StartAction(dev, proc[p].kind).next_epoch = dev.next_epoch + 1
    BY DeviceFields
  <2>2. /\ proc'[p].token = dev'.action /\ Fixed(p)
        /\ proc'[p].pc \in { "refuse", "hint", "slot" }
    BY <1>4, CaptureEffects
  <2>3. /\ dev' = StartAction(dev, proc[p].kind)
        /\ proc[p].kind # "none" /\ proc[p].pc = "mint"
        /\ dev.action = NoAction /\ cancelled' = cancelled
    BY <1>4 DEF MintVerify, MintEnroll
  <2>4. QED
    BY <2>1, <2>2, <2>3 DEF Mints, Fixed
<1>5. CASE ChooseSlot(p) \/ EmitDataFull(p) \/ RunEnroll(p)
  BY <1>5, CaptureEffects
     DEF ChooseSlot, EmitDataFull, RunEnroll, Keeps, SameWork, SameToken, Fixed
<1>6. CASE Spawn(p)
  BY <1>6, CaptureEffects, DeviceFields DEF Spawn, Keeps, SameWork, SameToken, Fixed
<1>7. CASE RunVerify(p)
  BY <1>2, <1>7, CaptureEffects
     DEF RunVerify, Keeps, Ends, SameWork, SameToken, Fixed
<1>8. CASE TakeProgress(p)
  BY <1>8, TaskEffects, DeviceFields
     DEF TakeProgress, Keeps, SameWork, SameToken, Fixed
<1>9. CASE RetryVerify(p) \/ SetSlot(p)
  BY <1>9, TaskEffects DEF RetryVerify, SetSlot, Keeps, SameToken, Fixed
<1>10. CASE FinishVerify(p)
  BY <1>2, <1>10, TaskEffects, DeviceFields
     DEF FinishVerify, EndActionIfOwner, Ends, SameToken, Fixed
<1>11. CASE FinishEnroll(p)
  BY <1>2, <1>11, TaskEffects, DeviceFields
     DEF FinishEnroll, AfterEnroll, EndActionIfOwner, Ends, SameToken, Fixed
<1>12. CASE BeginDelete(p)
  <2>1. proc[p].kind = "delete"
    BY <1>1, <1>12 DEF BeginDelete, Shape
  <2>2. /\ StartAction(dev, "delete").action
               = [kind |-> "delete", epoch |-> dev.next_epoch]
        /\ StartAction(dev, "delete").next_epoch = dev.next_epoch + 1
    BY DeviceFields
  <2>3. proc[p].pc = "begin_delete" /\ cancelled' = cancelled
    BY <1>12 DEF BeginDelete
  <2>4. QED
    BY <1>2, <1>12, <2>1, <2>2, <2>3, DeleteEffects DEF Mints, Outside, Fixed
<1>13. CASE SnapshotSlots(p) \/ EraseNext(p) \/ EraseReply(p) \/ RemoveRow(p)
  BY <1>13, DeleteEffects
     DEF SnapshotSlots, EraseNext, EraseReply, RemoveRow, Keeps, SameToken, Fixed
<1>14. CASE Refuse(p) \/ FinishDelete(p)
  BY <1>2, <1>14, ReturnEffects, DeviceFields
     DEF Refuse, FinishDelete, EndActionIfOwner, Ends
<1>15. CASE Claim(p)
  <2>1. dev'.action = dev.action /\ dev'.next_epoch = dev.next_epoch
    BY <1>15 DEF Claim, TypeOK, Device
  <2>2. QED
    BY <1>2, <1>15, <2>1, ReturnEffects DEF Claim, Outside
<1>16. CASE Stop(p)
  BY <1>2, <1>16, ReturnEffects, DeviceFields DEF Stop, Cancel, Stops, Outside
<1>17. CASE MintRefused(p)
  BY <1>2, <1>17, ReturnEffects DEF MintRefused, Outside
<1>18. CASE Emit(p)
  BY <1>2, <1>18, ReturnEffects DEF Emit, Leaves
<1>19. QED
  BY <1>3, <1>4, <1>5, <1>6, <1>7, <1>8, <1>9, <1>10, <1>11, <1>12, <1>13,
     <1>14, <1>15, <1>16, <1>17, <1>18 DEF ProcStep

LEMMA TokenStep ==
  ASSUME TypeOK, ShapeInv, TokenInv, ActionBacked, NEW p \in Procs, ProcStep(p)
  PROVE  TokenInv' /\ ActionBacked'
<1>1. \A q \in Procs : q # p => proc'[q] = proc[q]
  BY OthersKeep
<1>2. dev.next_epoch \in Nat /\ dev.action.epoch \in Nat /\ cancelled \subseteq Nat
      /\ dev.action \in Token
  BY DEF TypeOK, Device, Token
<1>3. OwnerPcs \cap VerdictPcs = {} /\ TokenPcs = OwnerPcs \cup VerdictPcs
  BY DEF OwnerPcs, VerdictPcs, TokenPcs
<1>4. \A q \in Procs : proc[q].token.epoch \in Nat /\ proc[q].token \in Token
  BY DEF TypeOK, Invocation, Token
<1>5. CASE Mints(p)
  BY <1>1, <1>2, <1>3, <1>4, <1>5 DEF Mints, TokenInv, ActionBacked, NoAction
<1>6. CASE Stops(p)
  BY <1>1, <1>2, <1>3, <1>4, <1>6 DEF Stops, TokenInv, ActionBacked, NoAction
<1>7. CASE Outside(p)
  BY <1>1, <1>2, <1>3, <1>4, <1>7 DEF Outside, TokenInv, ActionBacked
<1>8. CASE Keeps(p)
  BY <1>1, <1>2, <1>3, <1>4, <1>8 DEF Keeps, TokenInv, ActionBacked
<1>9. CASE Ends(p)
  <2>1. CASE dev.action = proc[p].token
    <3>1. proc[p].kind # "none"
      BY <1>9 DEF Ends, ShapeInv, Shape, OwnerPcs, PermitPcs, DeletePcs, Captures
    <3>2. proc[p].token # NoAction
      BY <1>3, <1>9, <3>1 DEF Ends, TokenInv, NoAction
    <3>3. QED
      BY <1>1, <1>2, <1>3, <1>4, <1>9, <2>1, <3>2
         DEF Ends, TokenInv, ActionBacked, NoAction
  <2>2. CASE dev.action # proc[p].token
    BY <1>1, <1>2, <1>3, <1>4, <1>9, <2>2 DEF Ends, TokenInv, ActionBacked
  <2>3. QED
    BY <2>1, <2>2
<1>10. CASE Leaves(p)
  BY <1>1, <1>2, <1>3, <1>4, <1>10 DEF Leaves, TokenInv, ActionBacked
<1>11. QED
  BY <1>5, <1>6, <1>7, <1>8, <1>9, <1>10, TokenFlow

-----------------------------------------------------------------------------
(* Steps of an invocation and the worker's queue *)

Awaits(p) == proc[p].pc \in { "wait", "erasing" } /\ proc[p].reply = None

Enqueues(p) ==
  /\ proc[p].pc \in { "run", "erase" }
  /\ proc'[p].pc = IF proc[p].kind = "delete" THEN "erasing" ELSE "wait"
  /\ proc'[p].reply = None /\ proc'[p].kind = proc[p].kind
  /\ \E s \in Slots \cup { None } :
       /\ queue' = Append(queue, Request(p, s))
       /\ proc[p].kind # "verify" => s = proc'[p].entry[2]

LEMMA QueueFlow ==
  ASSUME TypeOK, ShapeInv, EnrollInv, NEW p \in Procs, ProcStep(p)
  PROVE  \/ Enqueues(p)
         \/ /\ queue' = queue
            /\ Awaits(p) => /\ proc'[p].pc = proc[p].pc
                            /\ proc'[p].kind = proc[p].kind
                            /\ proc'[p].entry = proc[p].entry
                            /\ proc'[p].reply = proc[p].reply
<1>1. Shape(p)
  BY DEF ShapeInv
<1>2. CASE RunEnroll(p)
  <2>1. proc[p].entry \in Fingers \X Slots
    BY <1>2 DEF RunEnroll, EnrollInv
  <2>2. /\ proc'[p].pc = "wait" /\ SameWork(p) /\ proc[p].reply = None
        /\ proc[p].pc = "run" /\ proc[p].kind = "enroll"
        /\ queue' = Append(queue, Request(p, proc[p].entry[2]))
    BY <1>1, <1>2, CaptureEffects DEF RunEnroll, Shape
  <2>3. QED
    BY <2>1, <2>2 DEF Enqueues, SameWork, SameToken, Fixed
<1>3. CASE RunVerify(p)
  <2>1. proc[p].pc = "run" /\ proc[p].kind = "verify" /\ proc[p].reply = None
    BY <1>1, <1>3 DEF RunVerify, Shape
  <2>2. QED
    BY <1>3, <2>1, CaptureEffects
       DEF Enqueues, Awaits, SameWork, SameToken, Fixed
<1>4. CASE EraseNext(p)
  <2>1. proc[p].pc = "erase" /\ proc[p].kind = "delete" /\ proc[p].reply = None
    BY <1>1, <1>4 DEF EraseNext, Shape, DeletePcs
  <2>2. QED
    BY <1>4, <2>1, DeleteEffects DEF Enqueues, SameToken, Fixed
<1>5. CASE TakeProgress(p)
  BY <1>5, TaskEffects DEF TakeProgress, SameWork, SameToken, Fixed
<1>6. CASE \/ Claim(p) \/ Stop(p) \/ AcquirePermit(p) \/ MintRefused(p)
           \/ MintVerify(p) \/ MintEnroll(p)
  BY <1>6 DEF Claim, Stop, AcquirePermit, MintRefused, MintVerify, MintEnroll,
              Awaits
<1>7. CASE \/ ChooseSlot(p) \/ EmitDataFull(p) \/ Refuse(p) \/ Spawn(p)
           \/ SetSlot(p) \/ Emit(p)
  BY <1>7 DEF ChooseSlot, EmitDataFull, Refuse, Spawn, SetSlot, Emit, Awaits
<1>8. CASE RetryVerify(p) \/ FinishVerify(p) \/ FinishEnroll(p) \/ EraseReply(p)
  BY <1>8 DEF RetryVerify, FinishVerify, FinishEnroll, EraseReply, Awaits
<1>9. CASE \/ LookupSlot(p) \/ BeginDelete(p) \/ SnapshotSlots(p)
           \/ RemoveRow(p) \/ FinishDelete(p)
  BY <1>9 DEF LookupSlot, BeginDelete, SnapshotSlots, RemoveRow, FinishDelete,
              Awaits
<1>10. QED
  BY <1>2, <1>3, <1>4, <1>5, <1>6, <1>7, <1>8, <1>9 DEF ProcStep

LEMMA QueueTypes ==
  ASSUME TypeOK, QueueInv, NEW i \in 1 .. Len(queue)
  PROVE  /\ queue[i] \in SensorRequest /\ queue[i].proc \in Procs
         /\ Awaits(queue[i].proc)
<1>1. queue[i] \in SensorRequest
  BY DEF TypeOK
<1>2. /\ proc[queue[i].proc].pc = IF queue[i].cmd = "delete"
                                   THEN "erasing" ELSE "wait"
      /\ proc[queue[i].proc].reply = None
  BY DEF QueueInv
<1>3. QED
  BY <1>1, <1>2 DEF SensorRequest, Awaits

LEMMA QueueStep ==
  ASSUME TypeOK, ShapeInv, EnrollInv, QueueInv, NEW p \in Procs, ProcStep(p)
  PROVE  QueueInv'
<1>1. queue \in Seq(SensorRequest) /\ Len(queue) \in Nat
  BY DEF TypeOK
<1>2. \A q \in Procs : q # p => proc'[q] = proc[q]
  BY OthersKeep
<1>3. \A i \in 1 .. Len(queue) : queue[i].proc \in Procs /\ Awaits(queue[i].proc)
  BY QueueTypes
<1>4. CASE Enqueues(p)
  <2>1. PICK s \in Slots \cup { None } :
          /\ queue' = Append(queue, Request(p, s))
          /\ proc[p].kind # "verify" => s = proc'[p].entry[2]
    BY <1>4 DEF Enqueues
  <2>2. \A i \in 1 .. Len(queue) : queue[i].proc # p
    BY <1>3, <1>4 DEF Enqueues, Awaits
  <2>3. /\ Len(queue') = Len(queue) + 1
        /\ \A i \in 1 .. Len(queue) : queue'[i] = queue[i]
        /\ queue'[Len(queue) + 1] = Request(p, s)
    BY <1>1, <2>1
  <2>4. \A i \in 1 .. Len(queue') :
          \/ i \in 1 .. Len(queue)
          \/ i = Len(queue) + 1
    BY <1>1, <2>3
  <2>5. ASSUME NEW i \in 1 .. Len(queue')
        PROVE  LET q == queue'[i].proc
               IN  /\ proc'[q].pc = IF queue'[i].cmd = "delete"
                                      THEN "erasing" ELSE "wait"
                   /\ queue'[i].cmd = proc'[q].kind
                   /\ proc'[q].reply = None
                   /\ queue'[i].cmd # "verify"
                        => queue'[i].slot = proc'[q].entry[2]
    <3>1. CASE i \in 1 .. Len(queue)
      BY <1>2, <1>3, <2>2, <2>3, <3>1 DEF QueueInv
    <3>2. CASE i = Len(queue) + 1
      BY <1>4, <2>1, <2>3, <3>2 DEF Enqueues, Request
    <3>3. QED
      BY <2>4, <3>1, <3>2
  <2>6. \A i, j \in 1 .. Len(queue') : queue'[i].proc = queue'[j].proc => i = j
    BY <1>1, <2>2, <2>3, <2>4 DEF QueueInv, Request
  <2>7. QED
    BY <2>5, <2>6 DEF QueueInv
<1>5. CASE /\ queue' = queue
           /\ Awaits(p) => /\ proc'[p].pc = proc[p].pc
                           /\ proc'[p].kind = proc[p].kind
                           /\ proc'[p].entry = proc[p].entry
                           /\ proc'[p].reply = proc[p].reply
  BY <1>2, <1>3, <1>5 DEF QueueInv
<1>6. QED
  BY <1>4, <1>5, QueueFlow

-----------------------------------------------------------------------------
(* Steps of an invocation, the registry and the templates *)

LEMMA RegistryEffects ==
  ASSUME NEW p \in Procs, ProcStep(p)
  PROVE  /\ flash' = flash
         /\ rows' = rows \/ SetSlot(p) \/ RemoveRow(p)
<1>1. CASE \/ Claim(p) \/ Stop(p) \/ AcquirePermit(p) \/ MintRefused(p)
           \/ MintVerify(p) \/ MintEnroll(p) \/ ChooseSlot(p)
           \/ EmitDataFull(p) \/ Refuse(p)
  BY <1>1 DEF Claim, Stop, AcquirePermit, MintRefused, MintVerify, MintEnroll,
              ChooseSlot, EmitDataFull, Refuse
<1>2. CASE \/ Spawn(p) \/ RunEnroll(p) \/ RunVerify(p) \/ TakeProgress(p)
           \/ RetryVerify(p) \/ FinishVerify(p) \/ FinishEnroll(p) \/ Emit(p)
  BY <1>2 DEF Spawn, RunEnroll, RunVerify, TakeProgress, RetryVerify,
              FinishVerify, FinishEnroll, Emit
<1>3. CASE \/ LookupSlot(p) \/ BeginDelete(p) \/ SnapshotSlots(p)
           \/ EraseNext(p) \/ EraseReply(p) \/ FinishDelete(p)
  BY <1>3 DEF LookupSlot, BeginDelete, SnapshotSlots, EraseNext, EraseReply,
              FinishDelete
<1>4. CASE SetSlot(p) \/ RemoveRow(p)
  BY <1>4 DEF SetSlot, RemoveRow
<1>5. QED
  BY <1>1, <1>2, <1>3, <1>4 DEF ProcStep

\* An enroll keeps the slot it has chosen, and the answer it was given.
LEMMA EnrollFlow ==
  ASSUME TypeOK, ShapeInv, NEW p \in Procs, ProcStep(p), ~ ChooseSlot(p),
         proc'[p].kind = "enroll",
         proc'[p].pc \in { "hint", "run", "wait", "set_slot" }
  PROVE  /\ proc[p].kind = "enroll"
         /\ proc[p].pc \in { "hint", "run", "wait" }
         /\ proc'[p].user = proc[p].user /\ proc'[p].finger = proc[p].finger
         /\ proc'[p].entry = proc[p].entry
         /\ \/ proc'[p].pc = "wait" /\ proc'[p].reply # None
                 /\ proc'[p].reply.res = "ok"
            \/ proc'[p].pc = "set_slot"
            => /\ proc[p].pc = "wait" /\ proc[p].reply # None
               /\ proc[p].reply.res = "ok"
<1>1. Shape(p)
  BY DEF ShapeInv
<1>2. proc'[p] # Idle
  BY DEF Idle
<1>3. CASE Spawn(p) \/ RunEnroll(p)
  BY <1>1, <1>3, CaptureEffects
     DEF Spawn, RunEnroll, Shape, SameWork, SameToken, Fixed
<1>4. CASE \/ AcquirePermit(p) \/ MintVerify(p) \/ MintEnroll(p) \/ RunVerify(p)
           \/ EmitDataFull(p)
  BY <1>2, <1>4, CaptureEffects
     DEF AcquirePermit, MintVerify, MintEnroll, RunVerify, SameWork, SameToken,
         Fixed
<1>5. CASE TakeProgress(p)
  BY <1>5, TaskEffects DEF TakeProgress, SameWork, SameToken, Fixed
<1>6. CASE RetryVerify(p) \/ FinishVerify(p) \/ SetSlot(p)
  BY <1>2, <1>6, TaskEffects DEF RetryVerify, FinishVerify, SetSlot, SameToken, Fixed
<1>7. CASE FinishEnroll(p)
  BY <1>2, <1>7, TaskEffects DEF FinishEnroll, AfterEnroll, SameToken, Fixed
<1>8. CASE \/ LookupSlot(p) \/ BeginDelete(p) \/ SnapshotSlots(p)
           \/ EraseNext(p) \/ EraseReply(p) \/ RemoveRow(p)
  BY <1>2, <1>8, DeleteEffects DEF RemoveRow
<1>9. CASE \/ Claim(p) \/ Stop(p) \/ MintRefused(p) \/ Refuse(p) \/ Emit(p)
           \/ FinishDelete(p)
  BY <1>2, <1>9, ReturnEffects
<1>10. QED
  BY <1>3, <1>4, <1>5, <1>6, <1>7, <1>8, <1>9 DEF ProcStep

LEMMA EnrollStep ==
  ASSUME TypeOK, ShapeInv, PermitInv, EnrollInv, SlotsUnique,
         NEW p \in Procs, ProcStep(p)
  PROVE  EnrollInv'
<1>1. SUFFICES ASSUME NEW q \in Procs, proc'[q].kind = "enroll",
                      proc'[q].pc \in { "hint", "run", "wait", "set_slot" }
               PROVE  /\ proc'[q].entry \in Fingers \X Slots
                      /\ \A k \in Prints :
                           rows'[k] = proc'[q].entry[2]
                             => k = << proc'[q].user, proc'[q].finger >>
  BY DEF EnrollInv
<1>2. \A r \in Procs : r # p => proc'[r] = proc[r]
  BY OthersKeep
<1>3. rows \in [Prints -> Slots \cup { None }]
  BY DEF TypeOK
<1>4. CASE ChooseSlot(p) /\ q = p
  <2>1. proc[p].user \in Users /\ proc[p].finger \in Fingers
    BY <1>4 DEF ChooseSlot, ShapeInv, Shape, TokenPcs, OwnerPcs
  <2>2. proc'[p].pc # "data_full"
    BY <1>1, <1>4
  <2>3. PICK s \in Slots : /\ TargetSlot(p, s)
                           /\ proc'[p].entry = << proc[p].finger, s >>
    BY <1>4, <2>2, CaptureEffects
  <2>4. proc'[p].user = proc[p].user /\ proc'[p].finger = proc[p].finger
        /\ rows' = rows
    BY <1>4, CaptureEffects DEF SameToken, Fixed, ChooseSlot
  <2>5. << proc[p].user, proc[p].finger >> \in Prints
    BY <2>1 DEF Prints
  <2>6. \A k \in Prints : rows[k] = s => k = << proc[p].user, proc[p].finger >>
    BY <1>3, <2>3, <2>5, NoneAssumption DEF TargetSlot, UsedSlots, SlotsUnique
  <2>7. QED
    BY <1>4, <2>1, <2>3, <2>4, <2>6
<1>5. CASE ~ (ChooseSlot(p) /\ q = p)
  <2>1. /\ proc[q].kind = "enroll" /\ proc'[q].entry = proc[q].entry
        /\ proc[q].pc \in { "hint", "run", "wait", "set_slot" }
        /\ proc'[q].user = proc[q].user /\ proc'[q].finger = proc[q].finger
    BY <1>1, <1>2, <1>5, EnrollFlow
  <2>2. /\ proc[q].entry \in Fingers \X Slots
        /\ \A k \in Prints : rows[k] = proc[q].entry[2]
                               => k = << proc[q].user, proc[q].finger >>
    BY <2>1 DEF EnrollInv
  <2>3. CASE rows' = rows
    BY <2>1, <2>2, <2>3
  <2>4. CASE RemoveRow(p)
    BY <1>3, <2>1, <2>2, <2>4, NoneAssumption DEF RemoveRow
  <2>5. CASE SetSlot(p)
    <3>1. HoldsPermit(p) /\ HoldsPermit(q)
      BY <2>1, <2>5 DEF SetSlot, HoldsPermit, PermitPcs
    <3>2. q = p
      BY <3>1 DEF PermitInv
    <3>3. QED
      BY <1>1, <2>5, <3>2, TaskEffects
  <2>6. QED
    BY <2>3, <2>4, <2>5, RegistryEffects
<1>6. QED
  BY <1>4, <1>5

LEMMA StoredStep ==
  ASSUME TypeOK, ShapeInv, StoredInv, NEW p \in Procs, ProcStep(p)
  PROVE  StoredInv'
<1>1. flash' = flash
  BY RegistryEffects
<1>2. SUFFICES ASSUME NEW q \in Procs, proc'[q].kind = "enroll",
                      \/ /\ proc'[q].pc = "wait" /\ proc'[q].reply # None
                         /\ proc'[q].reply.res = "ok"
                      \/ proc'[q].pc = "set_slot"
               PROVE  flash[proc'[q].entry[2]] \in
                        { << proc'[q].user, proc'[q].finger >>, None }
  BY <1>1 DEF StoredInv
<1>3. CASE q # p
  BY <1>2, <1>3, OthersKeep DEF StoredInv
<1>4. CASE q = p
  <2>1. ~ ChooseSlot(p)
    BY <1>2, <1>4, CaptureEffects
  <2>2. QED
    BY <1>2, <1>4, <2>1, EnrollFlow DEF StoredInv
<1>5. QED
  BY <1>3, <1>4

\* A verify keeps the slots it expects, and the answer it was given.
LEMMA VerifyFlow ==
  ASSUME TypeOK, ShapeInv, NEW p \in Procs, ProcStep(p), ~ MintVerify(p),
         proc'[p].kind = "verify", proc'[p].pc \in { "hint", "run", "wait" }
  PROVE  /\ proc[p].kind = "verify"
         /\ proc[p].pc \in { "hint", "run", "wait" }
         /\ proc'[p].user = proc[p].user /\ proc'[p].finger = proc[p].finger
         /\ proc'[p].expected = proc[p].expected
         /\ proc'[p].pc = "wait" /\ proc'[p].reply # None
              => proc[p].pc = "wait" /\ proc'[p].reply = proc[p].reply
<1>1. Shape(p)
  BY DEF ShapeInv
<1>2. proc'[p] # Idle
  BY DEF Idle
<1>3. CASE Spawn(p) \/ RunVerify(p)
  BY <1>1, <1>2, <1>3, CaptureEffects
     DEF Spawn, RunVerify, Shape, SameWork, SameToken, Fixed
<1>4. CASE AcquirePermit(p) \/ MintEnroll(p) \/ RunEnroll(p)
  BY <1>2, <1>4, CaptureEffects
     DEF AcquirePermit, MintEnroll, RunEnroll, SameWork, SameToken, Fixed
<1>5. CASE ChooseSlot(p) \/ EmitDataFull(p)
  BY <1>1, <1>5, CaptureEffects DEF ChooseSlot, Shape, SameToken, Fixed
<1>6. CASE TakeProgress(p)
  BY <1>6, TaskEffects DEF TakeProgress, SameWork, SameToken, Fixed
<1>7. CASE RetryVerify(p) \/ FinishVerify(p) \/ SetSlot(p)
  BY <1>2, <1>7, TaskEffects DEF RetryVerify, FinishVerify, SetSlot, SameToken, Fixed
<1>8. CASE FinishEnroll(p)
  BY <1>2, <1>8, TaskEffects DEF FinishEnroll, AfterEnroll, SameToken, Fixed
<1>9. CASE \/ LookupSlot(p) \/ BeginDelete(p) \/ SnapshotSlots(p)
           \/ EraseNext(p) \/ EraseReply(p) \/ RemoveRow(p)
  BY <1>2, <1>9, DeleteEffects DEF RemoveRow
<1>10. CASE \/ Claim(p) \/ Stop(p) \/ MintRefused(p) \/ Refuse(p) \/ Emit(p)
            \/ FinishDelete(p)
  BY <1>2, <1>10, ReturnEffects
<1>11. QED
  BY <1>3, <1>4, <1>5, <1>6, <1>7, <1>8, <1>9, <1>10 DEF ProcStep

LEMMA VerifyStep ==
  ASSUME TypeOK, ShapeInv, RowsOwnTemplates, VerifyInv, NEW p \in Procs,
         ProcStep(p)
  PROVE  VerifyInv'
<1>1. flash' = flash
  BY RegistryEffects
<1>2. \A r \in Procs : r # p => proc'[r] = proc[r]
  BY OthersKeep
<1>3. ASSUME NEW q \in Procs, proc'[q].kind = "verify",
             proc'[q].pc \in { "hint", "run", "wait" }, ~ (MintVerify(p) /\ q = p)
      PROVE  /\ proc[q].kind = "verify" /\ proc[q].pc \in { "hint", "run", "wait" }
             /\ proc'[q].user = proc[q].user /\ proc'[q].finger = proc[q].finger
             /\ proc'[q].expected = proc[q].expected
             /\ proc'[q].pc = "wait" /\ proc'[q].reply # None
                  => proc[q].pc = "wait" /\ proc'[q].reply = proc[q].reply
  BY <1>2, <1>3, VerifyFlow
<1>4. ASSUME MintVerify(p)
      PROVE  /\ proc'[p].pc \in { "refuse", "hint" }
             /\ \A s \in proc'[p].expected : flash[s] \in OwnPrints(p)' \cup { None }
  <2>1. /\ proc'[p].pc \in { "refuse", "hint" }
        /\ proc'[p].expected = Wanted(p)
        /\ proc'[p].user = proc[p].user /\ proc'[p].finger = proc[p].finger
    BY <1>4, CaptureEffects DEF Fixed
  <2>2. proc[p].user \in Users
    BY <1>4 DEF MintVerify, ShapeInv, Shape
  <2> DEFINE Asked == { g \in Fingers : proc[p].finger \in { AnyFinger, g } }
  <2>3. \A s \in Wanted(p) :
          \E f \in Asked : s \in Slots /\ rows[<< proc[p].user, f >>] = s
    BY DEF Wanted, UserSlots
  <2>4. \A s \in Wanted(p) :
          \E f \in Asked : flash[s] \in { << proc[p].user, f >>, None }
    BY <2>2, <2>3, NoneAssumption DEF RowsOwnTemplates, Prints
  <2>5. QED
    BY <2>1, <2>4 DEF OwnPrints
<1>5. ASSUME NEW q \in Procs, proc'[q].kind = "verify",
             proc'[q].pc \in { "hint", "run", "wait" },
             NEW s \in proc'[q].expected
      PROVE  flash[s] \in OwnPrints(q)' \cup { None }
  BY <1>3, <1>4, <1>5 DEF VerifyInv, OwnPrints
<1>6. ASSUME NEW q \in Procs, proc'[q].kind = "verify", proc'[q].pc = "wait",
             proc'[q].reply # None, proc'[q].reply.res = "match",
             proc'[q].reply.slot \in proc'[q].expected
      PROVE  proc'[q].reply.owner \in OwnPrints(q)'
  <2>1. ~ (MintVerify(p) /\ q = p)
    BY <1>4, <1>6
  <2>2. QED
    BY <1>3, <1>6, <2>1 DEF VerifyInv, OwnPrints
<1>7. QED
  BY <1>1, <1>5, <1>6 DEF VerifyInv

LEMMA RowsStep ==
  ASSUME TypeOK, ShapeInv, EnrollInv, StoredInv, SlotsUnique, RowsOwnTemplates,
         NEW p \in Procs, ProcStep(p)
  PROVE  SlotsUnique' /\ RowsOwnTemplates'
<1>1. rows \in [Prints -> Slots \cup { None }] /\ flash' = flash
  BY RegistryEffects DEF TypeOK
<1>2. CASE rows' = rows
  BY <1>1, <1>2 DEF SlotsUnique, RowsOwnTemplates
<1>3. CASE RemoveRow(p)
  BY <1>1, <1>3 DEF RemoveRow, SlotsUnique, RowsOwnTemplates
<1>4. CASE SetSlot(p)
  <2> DEFINE k == << proc[p].user, proc[p].finger >>
             s == proc[p].entry[2]
  <2>1. proc[p].kind = "enroll" /\ proc[p].pc = "set_slot"
    BY <1>4 DEF SetSlot, ShapeInv, Shape
  <2>2. k \in Prints
    BY <2>1 DEF ShapeInv, Shape, TokenPcs, VerdictPcs, Prints
  <2>3. s \in Slots /\ \A l \in Prints : rows[l] = s => l = k
    BY <2>1 DEF EnrollInv
  <2>4. flash[s] \in { k, None }
    BY <2>1 DEF StoredInv
  <2>5. rows' = [rows EXCEPT ![k] = s]
    BY <1>4 DEF SetSlot
  <2> HIDE DEF k, s
  <2>6. QED
    BY <1>1, <2>2, <2>3, <2>4, <2>5 DEF SlotsUnique, RowsOwnTemplates
<1>5. QED
  BY <1>2, <1>3, <1>4, RegistryEffects

LEMMA MatchStep ==
  ASSUME TypeOK, ShapeInv, VerifyInv, MatchIsOwn, NEW p \in Procs, ProcStep(p)
  PROVE  MatchIsOwn'
<1>1. SUFFICES ASSUME proc'[p].pc = "emit", proc'[p].status = "verify-match"
               PROVE  proc'[p].reply.owner \in OwnPrints(p)'
  BY OthersKeep DEF MatchIsOwn, OwnPrints
<1>2. proc'[p] # Idle
  BY <1>1 DEF Idle
<1>3. CASE \/ AcquirePermit(p) \/ MintVerify(p) \/ MintEnroll(p)
           \/ ChooseSlot(p) \/ EmitDataFull(p) \/ Spawn(p) \/ RunEnroll(p)
           \/ RunVerify(p)
  BY <1>1, <1>2, <1>3, CaptureEffects
<1>4. CASE TakeProgress(p) \/ RetryVerify(p) \/ SetSlot(p)
  BY <1>1, <1>4, TaskEffects DEF TakeProgress
<1>5. CASE FinishEnroll(p)
  BY <1>1, <1>2, <1>5, TaskEffects DEF EnrollStatus
<1>6. CASE FinishVerify(p)
  <2>1. /\ proc[p].pc = "wait" /\ proc[p].kind = "verify" /\ proc[p].reply # None
        /\ proc'[p].status = VerifyStatus(p) /\ proc'[p].reply = proc[p].reply
        /\ proc'[p].user = proc[p].user /\ proc'[p].finger = proc[p].finger
    BY <1>2, <1>6, TaskEffects DEF FinishVerify, SameToken, Fixed
  <2>2. /\ proc[p].reply.res = "match"
        /\ proc[p].reply.slot \in proc[p].expected
    BY <1>1, <2>1 DEF VerifyStatus
  <2>3. QED
    BY <2>1, <2>2 DEF VerifyInv, OwnPrints
<1>7. CASE \/ LookupSlot(p) \/ BeginDelete(p) \/ SnapshotSlots(p)
           \/ EraseNext(p) \/ EraseReply(p) \/ RemoveRow(p)
  BY <1>1, <1>2, <1>7, DeleteEffects DEF RemoveRow
<1>8. CASE \/ Claim(p) \/ Stop(p) \/ MintRefused(p) \/ Refuse(p) \/ Emit(p)
           \/ FinishDelete(p)
  BY <1>2, <1>8, ReturnEffects
<1>9. QED
  BY <1>3, <1>4, <1>5, <1>6, <1>7, <1>8 DEF ProcStep

-----------------------------------------------------------------------------
(* Calls and bus events *)

CallPcs == { "claim", "permit", "stop", "begin_delete", "lookup" }

LEMMA CallEffects ==
  ASSUME TypeOK, NEW p \in Procs, Call(p)
  PROVE  /\ proc[p].pc = "idle" /\ proc'[p].pc \in CallPcs /\ Shape(p)'
         /\ \A q \in Procs : q # p => proc'[q] = proc[q]
         /\ UNCHANGED << dev, permits, rows, flash, queue, served, alive,
                         departed, cancelled >>
<1>1. ASSUME NEW pc \in CallPcs, NEW kind, NEW cl \in Clients, NEW client,
             NEW user, NEW finger, NEW m,
             Dispatch(p, cl, m, NewCall(pc, kind, client, user, finger)),
             pc \in { "permit", "stop" } => kind \in Captures,
             pc \in { "begin_delete", "lookup" } => kind = "delete",
             pc # "stop" => user \in Users,
             pc = "claim" => client \in Clients /\ kind = "none",
             pc = "permit" /\ kind = "enroll" => finger \in Fingers,
             pc = "lookup" => finger \in Fingers
      PROVE  /\ proc[p].pc = "idle" /\ proc'[p].pc \in CallPcs /\ Shape(p)'
             /\ \A q \in Procs : q # p => proc'[q] = proc[q]
             /\ UNCHANGED << dev, permits, rows, flash, queue, served, alive,
                             departed, cancelled >>
  <2>1. /\ proc'[p] = NewCall(pc, kind, client, user, finger)
        /\ \A q \in Procs : q # p => proc'[q] = proc[q]
        /\ proc[p].pc = "idle"
    BY <1>1, Frame DEF Dispatch
  <2>2. /\ proc'[p].pc = pc /\ proc'[p].kind = kind /\ proc'[p].user = user
        /\ proc'[p].client = client /\ proc'[p].finger = finger
        /\ proc'[p].reply = None
    BY <2>1 DEF NewCall, Idle
  <2>3. Shape(p)'
    BY <1>1, <2>2 DEF Shape, CallPcs, PermitPcs, OwnerPcs, VerdictPcs, TokenPcs,
                      DeletePcs, Captures
  <2>4. QED
    BY <1>1, <2>1, <2>2, <2>3 DEF Dispatch
<1>2. \A cl : HoldsClaim(cl) => dev.claimed_by \in Users
  BY DEF HoldsClaim, TypeOK, Device
<1>3. PICK cl \in Clients :
        \/ \E u \in Users : CallClaim(p, cl, u) \/ CallDeleteAll(p, cl, u)
        \/ \E f \in Fingers \cup { AnyFinger } : CallVerifyStart(p, cl, f)
        \/ \E f \in Fingers : CallEnrollStart(p, cl, f) \/ CallDeleteOne(p, cl, f)
        \/ CallVerifyStop(p, cl) \/ CallEnrollStop(p, cl) \/ CallDeleteAll2(p, cl)
  BY DEF Call
<1>4. CASE \E u \in Users : CallClaim(p, cl, u) \/ CallDeleteAll(p, cl, u)
  BY <1>1, <1>4 DEF CallClaim, CallDeleteAll, CallPcs
<1>5. CASE \E f \in Fingers \cup { AnyFinger } : CallVerifyStart(p, cl, f)
  BY <1>1, <1>2, <1>5 DEF CallVerifyStart, CallPcs, Captures
<1>6. CASE \E f \in Fingers : CallEnrollStart(p, cl, f) \/ CallDeleteOne(p, cl, f)
  BY <1>1, <1>2, <1>6 DEF CallEnrollStart, CallDeleteOne, CallPcs, Captures
<1>7. CASE CallVerifyStop(p, cl) \/ CallEnrollStop(p, cl) \/ CallDeleteAll2(p, cl)
  BY <1>1, <1>2, <1>7
     DEF CallVerifyStop, CallEnrollStop, CallDeleteAll2, CallPcs, Captures
<1>8. QED
  BY <1>3, <1>4, <1>5, <1>6, <1>7

LEMMA CallStep ==
  ASSUME IInv, NEW p \in Procs, Call(p)
  PROVE  IInv'
<1> USE DEF IInv
<1>1. /\ proc[p].pc = "idle" /\ proc'[p].pc \in CallPcs /\ Shape(p)'
      /\ \A q \in Procs : q # p => proc'[q] = proc[q]
      /\ UNCHANGED << dev, permits, rows, flash, queue, served, alive,
                      departed, cancelled >>
  BY CallEffects
<1>2. TypeOK'
  BY CallType
<1>3. ShapeInv'
  BY <1>1 DEF ShapeInv, Shape
<1>4. PermitInv'
  BY <1>1 DEF PermitInv, HoldsPermit, PermitPcs, CallPcs
<1>5. TokenInv'
  BY <1>1 DEF TokenInv, TokenPcs, OwnerPcs, VerdictPcs, CallPcs
<1>6. ActionBacked'
  BY <1>1 DEF ActionBacked, OwnerPcs
<1>7. QueueInv'
  <2>1. \A i \in 1 .. Len(queue) : queue[i].proc \in Procs \ { p }
    BY <1>1, QueueTypes DEF Awaits
  <2>2. QED
    BY <1>1, <2>1 DEF QueueInv
<1>8. EnrollInv' /\ StoredInv'
  BY <1>1 DEF EnrollInv, StoredInv, CallPcs
<1>9. VerifyInv' /\ MatchIsOwn'
  BY <1>1 DEF VerifyInv, MatchIsOwn, OwnPrints, CallPcs
<1>10. SlotsUnique' /\ RowsOwnTemplates'
  BY <1>1 DEF SlotsUnique, RowsOwnTemplates
<1>11. QED
  BY <1>2, <1>3, <1>4, <1>5, <1>6, <1>7, <1>8, <1>9, <1>10

LEMMA BusStep ==
  ASSUME IInv, NEW cl \in Clients, Bus(cl)
  PROVE  IInv'
<1> USE DEF IInv
<1>1. UNCHANGED << permits, rows, flash, queue, served, proc >>
  BY DEF Bus, Release, Disconnect, HandleClientDisconnect
<1>2. \/ dev' = DropClaim(dev) /\ Cancel
      \/ UNCHANGED << dev, cancelled >>
  BY DEF Bus, Release, Disconnect, HandleClientDisconnect
<1>3. TypeOK'
  <2>1. dev \in Device /\ dev.action.epoch \in Nat
    BY DEF TypeOK, Device, Token
  <2>2. dev' \in Device /\ cancelled' \subseteq Nat
    BY <1>2, <2>1, ActionTypes DEF Cancel, TypeOK
  <2>3. alive' \subseteq Clients /\ departed' \subseteq Clients
    BY DEF Bus, Release, Disconnect, HandleClientDisconnect, TypeOK
  <2>4. QED
    BY <1>1, <2>2, <2>3 DEF TypeOK
<1>4. TokenInv' /\ ActionBacked'
  <2>1. CASE UNCHANGED << dev, cancelled >>
    BY <1>1, <2>1 DEF TokenInv, ActionBacked
  <2>2. CASE dev' = DropClaim(dev) /\ Cancel
    <3>1. dev'.action = NoAction /\ dev'.next_epoch = dev.next_epoch
      BY <2>2, DeviceFields
    <3>2. /\ cancelled' = IF dev.action = NoAction
                            THEN cancelled
                            ELSE cancelled \cup { dev.action.epoch }
      BY <2>2 DEF Cancel
    <3>3. \A p \in Procs : proc[p].pc \in VerdictPcs /\ dev.action # NoAction
            => proc[p].token.epoch # dev.action.epoch
      BY DEF TokenInv, ActionBacked, TokenPcs, VerdictPcs, OwnerPcs
    <3>4. QED
      BY <1>1, <3>1, <3>2, <3>3 DEF TokenInv, ActionBacked, NoAction, TokenPcs
  <2>3. QED
    BY <1>2, <2>1, <2>2
<1>5. ShapeInv' /\ PermitInv' /\ QueueInv'
  BY <1>1 DEF ShapeInv, Shape, PermitInv, HoldsPermit, QueueInv
<1>6. EnrollInv' /\ StoredInv' /\ VerifyInv' /\ MatchIsOwn'
  BY <1>1 DEF EnrollInv, StoredInv, VerifyInv, MatchIsOwn, OwnPrints
<1>7. SlotsUnique' /\ RowsOwnTemplates'
  BY <1>1 DEF SlotsUnique, RowsOwnTemplates
<1>8. QED
  BY <1>3, <1>4, <1>5, <1>6, <1>7

-----------------------------------------------------------------------------
(* Steps of the worker *)

Served == queue[1].proc

LEMMA WorkerEffects ==
  ASSUME TypeOK, ShapeInv, QueueInv, EnrollInv, Worker
  PROVE  /\ queue # << >> /\ Len(queue) \in Nat /\ 1 \in 1 .. Len(queue)
         /\ Head(queue) = queue[1] /\ Served \in Procs
         /\ proc[Served].reply = None
         /\ queue[1].cmd = proc[Served].kind
         /\ \/ proc[Served].pc = "wait" /\ queue[1].cmd # "delete"
            \/ proc[Served].pc = "erasing" /\ queue[1].cmd = "delete"
         /\ queue[1].cmd # "verify" =>
              queue[1].slot = proc[Served].entry[2] /\ queue[1].slot \in Slots
         /\ queue[1].cmd = "enroll" =>
              << proc[Served].user, proc[Served].finger >> \in Prints
<1>1. queue # << >>
  BY DEF Worker, WorkerProgress, ServeEnroll, ServeVerify, ServeDelete
<1>2. /\ Len(queue) \in Nat /\ 1 \in 1 .. Len(queue) /\ Head(queue) = queue[1]
      /\ Tail(queue) \in Seq(SensorRequest)
  BY <1>1 DEF TypeOK
<1>3. Served \in Procs /\ queue[1] \in SensorRequest
  BY <1>2, QueueTypes DEF Served
<1>4. /\ proc[Served].pc = IF queue[1].cmd = "delete" THEN "erasing" ELSE "wait"
      /\ queue[1].cmd = proc[Served].kind
      /\ proc[Served].reply = None
      /\ queue[1].cmd # "verify" => queue[1].slot = proc[Served].entry[2]
  BY <1>2 DEF QueueInv, Served
<1>5. Shape(Served)
  BY <1>3 DEF ShapeInv
<1>6. proc[Served].kind \in { "enroll", "verify", "delete" }
  BY <1>4, <1>5 DEF Shape, PermitPcs, Captures
<1>7. queue[1].cmd # "verify" => proc[Served].entry \in Fingers \X Slots
  BY <1>3, <1>4, <1>5, <1>6 DEF Shape, EnrollInv
<1>8. queue[1].cmd = "enroll" =>
        << proc[Served].user, proc[Served].finger >> \in Prints
  BY <1>4, <1>5 DEF Shape, TokenPcs, OwnerPcs, Prints
<1>9. QED
  BY <1>1, <1>2, <1>3, <1>4, <1>7, <1>8

\* What the worker changes: one field of the invocation it serves, and the
\* slot of the request.
Progresses ==
  /\ \E l \in Seq(Lines) :
       proc' = [proc EXCEPT ![Served].progress = l]
  /\ queue' = queue /\ flash' = flash

Answers(r) ==
  /\ proc' = [proc EXCEPT ![Served].reply = r]
  /\ queue' = Tail(queue)
  /\ r \in Reply
  /\ r.res = "match" =>
       /\ queue[1].cmd = "verify" /\ r.slot \in Slots
       /\ r.owner = flash[r.slot] /\ r.owner # None
  /\ \/ /\ flash' = flash
        /\ ~ (r.res = "ok" /\ queue[1].cmd = "enroll")
     \/ /\ queue[1].cmd = "enroll"
        /\ flash' = [flash EXCEPT ![queue[1].slot] =
                       << proc[Served].user, proc[Served].finger >>]
     \/ queue[1].cmd = "delete" /\ flash' = [flash EXCEPT ![queue[1].slot] = None]

LEMMA WorkerFlow ==
  ASSUME TypeOK, ShapeInv, QueueInv, EnrollInv, Worker
  PROVE  /\ Progresses \/ \E r \in Reply : Answers(r)
         /\ served' \in Nat
         /\ UNCHANGED << dev, permits, rows, alive, departed, cancelled >>
<1>1. Head(queue) = queue[1] /\ Served \in Procs
  BY WorkerEffects
<1>2. CASE WorkerProgress
  <2> DEFINE lines == ProgressOf(queue[1].cmd)
  <2>1. lines \in Seq(Lines) /\ served \in Nat
    BY ConstantsAssumption DEF ProgressOf, TypeOK
  <2>2. served < Len(lines)
    BY <1>1, <1>2 DEF WorkerProgress
  <2>3. lines[served + 1] \in Lines
    BY <2>1, <2>2
  <2>4. proc[Served].progress \in Seq(Lines)
    BY <1>1 DEF TypeOK, Invocation
  <2> DEFINE l == Append(proc[Served].progress, lines[served + 1])
  <2>5. l \in Seq(Lines)
    BY <2>3, <2>4
  <2>6. proc' = [proc EXCEPT ![Served].progress = l]
    BY <1>1, <1>2 DEF WorkerProgress, Served
  <2> HIDE DEF l
  <2>7. Progresses
    BY <1>2, <2>5, <2>6 DEF WorkerProgress, Progresses
  <2> HIDE DEF lines
  <2>8. QED
    BY <1>2, <2>1, <2>7 DEF WorkerProgress
<1>3. ASSUME NEW res \in { "ok", "match", "no_match", "retry", "error",
                           "disconnected" },
             NEW s \in Slots \cup { None }, NEW o \in Prints \cup { None },
             Answer(res, s, o)
      PROVE  /\ \E r \in Reply :
                  /\ r.res = res /\ r.slot = s /\ r.owner = o
                  /\ proc' = [proc EXCEPT ![Served].reply = r]
             /\ queue' = Tail(queue) /\ served' \in Nat
             /\ UNCHANGED << dev, permits, rows, alive, departed, cancelled >>
  <2> DEFINE r == [res |-> res, slot |-> s, owner |-> o]
  <2>1. r \in Reply /\ r.res = res /\ r.slot = s /\ r.owner = o
    BY DEF Reply
  <2>2. proc' = [proc EXCEPT ![Served].reply = r]
    BY <1>1, <1>3 DEF Answer, Served
  <2> HIDE DEF r
  <2>3. QED
    BY <1>3, <2>1, <2>2 DEF Answer
<1>4. CASE ServeEnroll
  <2>1. queue[1].cmd = "enroll"
    BY <1>1, <1>4 DEF ServeEnroll
  <2>2. PICK res \in { "ok", "error", "disconnected" } :
          /\ Answer(res, None, None)
          /\ \/ flash' = flash /\ res # "ok"
             \/ flash' = [flash EXCEPT ![queue[1].slot] =
                            << proc[Served].user, proc[Served].finger >>]
    BY <1>1, <1>4 DEF ServeEnroll, Served
  <2>3. /\ queue' = Tail(queue) /\ served' \in Nat
        /\ UNCHANGED << dev, permits, rows, alive, departed, cancelled >>
    BY <2>2 DEF Answer
  <2>4. PICK r \in Reply : /\ r.res = res
                           /\ proc' = [proc EXCEPT ![Served].reply = r]
    <3>1. /\ Answer(res, None, None)
          /\ res \in { "ok", "match", "no_match", "retry", "error",
                      "disconnected" }
      BY <2>2
    <3>2. \E r \in Reply :
            /\ r.res = res /\ r.slot = None /\ r.owner = None
            /\ proc' = [proc EXCEPT ![Served].reply = r]
      BY <1>3, <3>1
    <3>3. QED
      BY <3>2
  <2>5. Answers(r)
    BY <2>1, <2>2, <2>3, <2>4 DEF Answers
  <2>6. QED
    BY <2>3, <2>5
<1>5. CASE ServeVerify
  <2>1. queue[1].cmd = "verify" /\ flash' = flash
    BY <1>1, <1>5 DEF ServeVerify
  <2>2. CASE \E s \in Slots : flash[s] # None /\ Answer("match", s, flash[s])
    <3>1. PICK s \in Slots : flash[s] # None /\ Answer("match", s, flash[s])
      BY <2>2
    <3>2. flash[s] \in Prints \cup { None }
      BY DEF TypeOK
    <3>3. /\ queue' = Tail(queue) /\ served' \in Nat
          /\ UNCHANGED << dev, permits, rows, alive, departed, cancelled >>
      BY <1>3, <3>1, <3>2
    <3>4. PICK r \in Reply : /\ r.res = "match" /\ r.slot = s
                             /\ r.owner = flash[s]
                             /\ proc' = [proc EXCEPT ![Served].reply = r]
      BY <1>3, <3>1, <3>2
    <3>5. Answers(r)
      BY <2>1, <3>1, <3>3, <3>4 DEF Answers
    <3>6. QED
      BY <3>3, <3>5
  <2>3. CASE \E res \in { "no_match", "retry", "error", "disconnected" } :
               Answer(res, None, None)
    <3>1. PICK res \in { "no_match", "retry", "error", "disconnected" } :
            Answer(res, None, None)
      BY <2>3
    <3>2. /\ queue' = Tail(queue) /\ served' \in Nat
          /\ UNCHANGED << dev, permits, rows, alive, departed, cancelled >>
      BY <1>3, <3>1
    <3>3. PICK r \in Reply : /\ r.res = res
                             /\ proc' = [proc EXCEPT ![Served].reply = r]
      BY <1>3, <3>1
    <3>4. Answers(r)
      BY <2>1, <3>1, <3>2, <3>3 DEF Answers
    <3>5. QED
      BY <3>2, <3>4
  <2>4. QED
    BY <1>5, <2>2, <2>3 DEF ServeVerify
<1>6. CASE ServeDelete
  <2>1. queue[1].cmd = "delete"
    BY <1>1, <1>6 DEF ServeDelete
  <2>2. PICK res \in { "ok", "error" } :
          /\ Answer(res, None, None)
          /\ \/ flash' = flash
             \/ flash' = [flash EXCEPT ![queue[1].slot] = None]
    BY <1>1, <1>6 DEF ServeDelete
  <2>3. /\ queue' = Tail(queue) /\ served' \in Nat
        /\ UNCHANGED << dev, permits, rows, alive, departed, cancelled >>
    BY <1>3, <2>2
  <2>4. PICK r \in Reply : /\ r.res = res
                           /\ proc' = [proc EXCEPT ![Served].reply = r]
    BY <1>3, <2>2
  <2>5. Answers(r)
    BY <2>1, <2>2, <2>3, <2>4 DEF Answers
  <2>6. QED
    BY <2>3, <2>5
<1>7. QED
  BY <1>2, <1>4, <1>5, <1>6 DEF Worker

SameFields(q) ==
  /\ proc'[q].pc = proc[q].pc /\ proc'[q].kind = proc[q].kind
  /\ proc'[q].client = proc[q].client /\ proc'[q].user = proc[q].user
  /\ proc'[q].finger = proc[q].finger /\ proc'[q].token = proc[q].token
  /\ proc'[q].entry = proc[q].entry /\ proc'[q].expected = proc[q].expected
  /\ proc'[q].status = proc[q].status

Same == \A q \in Procs :
          SameFields(q) /\ (q # Served => proc'[q].reply = proc[q].reply)

LEMMA WorkerFields ==
  ASSUME TypeOK, ShapeInv, QueueInv, EnrollInv, Worker
  PROVE  /\ Same
         /\ proc' \in [Procs -> Invocation]
         /\ Progresses => proc'[Served].reply = proc[Served].reply
         /\ \A r \in Reply : Answers(r) => proc'[Served].reply = r
<1>1. /\ proc \in [Procs -> Invocation] /\ Served \in Procs
      /\ proc[Served] \in Invocation
  BY WorkerEffects DEF TypeOK
<1>2. proc[Served].pc \in Pcs
  BY <1>1 DEF Invocation
<1>3. ASSUME NEW l \in Seq(Lines), proc' = [proc EXCEPT ![Served].progress = l]
      PROVE  /\ \A q \in Procs : q # Served => proc'[q] = proc[q]
             /\ proc'[Served] = [proc[Served] EXCEPT !.progress = l]
             /\ proc' \in [Procs -> Invocation]
  <2>1. proc' = [proc EXCEPT ![Served] = [proc[Served] EXCEPT !.progress = l]]
    BY <1>3
  <2>2. [proc[Served] EXCEPT !.progress = l] \in Invocation
    BY <1>1, <1>2, UpdateType
  <2>3. QED
    BY <1>1, <2>1, <2>2
<1>4. ASSUME NEW r \in Reply, proc' = [proc EXCEPT ![Served].reply = r]
      PROVE  /\ \A q \in Procs : q # Served => proc'[q] = proc[q]
             /\ proc'[Served] = [proc[Served] EXCEPT !.reply = r]
             /\ proc' \in [Procs -> Invocation]
  <2>1. proc' = [proc EXCEPT ![Served] = [proc[Served] EXCEPT !.reply = r]]
    BY <1>4
  <2>2. [proc[Served] EXCEPT !.reply = r] \in Invocation
    BY <1>1 DEF Invocation
  <2>3. QED
    BY <1>1, <2>1, <2>2
<1>5. ASSUME Progresses
      PROVE  /\ Same
             /\ proc' \in [Procs -> Invocation]
             /\ proc'[Served].reply = proc[Served].reply
  <2>1. PICK l \in Seq(Lines) : proc' = [proc EXCEPT ![Served].progress = l]
    BY <1>5 DEF Progresses
  <2>2. /\ \A q \in Procs : q # Served => proc'[q] = proc[q]
        /\ proc'[Served] = [proc[Served] EXCEPT !.progress = l]
        /\ proc' \in [Procs -> Invocation]
    BY <1>3, <2>1
  <2>3. SameFields(Served) /\ proc'[Served].reply = proc[Served].reply
    BY <1>1, <2>2 DEF Invocation, SameFields
  <2>4. QED
    BY <2>2, <2>3 DEF Same, SameFields
<1>6. ASSUME NEW r \in Reply, Answers(r)
      PROVE  /\ Same
             /\ proc' \in [Procs -> Invocation]
             /\ proc'[Served].reply = r
  <2>1. /\ \A q \in Procs : q # Served => proc'[q] = proc[q]
        /\ proc'[Served] = [proc[Served] EXCEPT !.reply = r]
        /\ proc' \in [Procs -> Invocation]
    BY <1>4, <1>6 DEF Answers
  <2>2. SameFields(Served) /\ proc'[Served].reply = r
    BY <1>1, <2>1 DEF Invocation, SameFields
  <2>3. QED
    BY <2>1, <2>2 DEF Same, SameFields
<1>7. QED
  BY <1>5, <1>6, WorkerFlow

LEMMA WorkerType ==
  ASSUME TypeOK, ShapeInv, QueueInv, EnrollInv, Worker
  PROVE  TypeOK'
<1>1. queue' \in Seq(SensorRequest)
  <2>1. Tail(queue) \in Seq(SensorRequest)
    BY WorkerEffects DEF TypeOK
  <2>2. QED
    BY <2>1, WorkerFlow DEF Progresses, Answers, TypeOK
<1>2. flash' \in [Slots -> Prints \cup { None }]
  BY WorkerEffects, WorkerFlow DEF Progresses, Answers, TypeOK
<1>3. QED
  BY <1>1, <1>2, WorkerFlow, WorkerFields DEF TypeOK

LEMMA WorkerQueue ==
  ASSUME TypeOK, ShapeInv, QueueInv, EnrollInv, Worker
  PROVE  QueueInv'
<1>1. CASE Progresses
  BY <1>1, WorkerFields, QueueTypes DEF Progresses, QueueInv, Same, SameFields
<1>2. ASSUME NEW r \in Reply, Answers(r)
      PROVE  QueueInv'
  <2>1. queue \in Seq(SensorRequest) /\ queue # << >> /\ queue' = Tail(queue)
    BY <1>2, WorkerEffects DEF TypeOK, Answers
  <2>2. /\ Len(queue') = Len(queue) - 1 /\ Len(queue) \in Nat
        /\ \A i \in 1 .. Len(queue') : queue'[i] = queue[i + 1]
    BY <2>1
  <2>3. \A i \in 1 .. Len(queue') : i + 1 \in 1 .. Len(queue) /\ i + 1 # 1
    BY <2>2
  <2>4. \A i \in 1 .. Len(queue') : queue[i + 1].proc # Served
    BY <2>2, <2>3, WorkerEffects DEF QueueInv, Served
  <2>5. \A i \in 1 .. Len(queue') : queue[i + 1].proc \in Procs
    BY <2>3, QueueTypes
  <2>6. ASSUME NEW i \in 1 .. Len(queue')
        PROVE  LET q == queue'[i].proc
               IN  /\ proc'[q].pc = IF queue'[i].cmd = "delete"
                                      THEN "erasing" ELSE "wait"
                   /\ queue'[i].cmd = proc'[q].kind
                   /\ proc'[q].reply = None
                   /\ queue'[i].cmd # "verify"
                        => queue'[i].slot = proc'[q].entry[2]
    <3> DEFINE h == queue[i + 1]
    <3>1. /\ proc[h.proc].pc = IF h.cmd = "delete" THEN "erasing" ELSE "wait"
          /\ h.cmd = proc[h.proc].kind /\ proc[h.proc].reply = None
          /\ h.cmd # "verify" => h.slot = proc[h.proc].entry[2]
      BY <2>3 DEF QueueInv
    <3>2. h.proc \in Procs /\ h.proc # Served
      BY <2>4, <2>5
    <3>3. /\ SameFields(h.proc) /\ proc'[h.proc].reply = proc[h.proc].reply
          /\ queue'[i] = h
      BY <2>2, <3>2, WorkerFields DEF Same
    <3> HIDE DEF h
    <3>4. QED
      BY <3>1, <3>3 DEF SameFields
  <2>7. \A i, j \in 1 .. Len(queue') : queue'[i].proc = queue'[j].proc => i = j
    <3>1. SUFFICES ASSUME NEW i \in 1 .. Len(queue'), NEW j \in 1 .. Len(queue'),
                          queue[i + 1].proc = queue[j + 1].proc
                   PROVE  i = j
      BY <2>2
    <3>2. i + 1 = j + 1
      BY <2>3, <3>1 DEF QueueInv
    <3>3. QED
      BY <2>2, <3>2
  <2>8. QED
    BY <2>6, <2>7 DEF QueueInv
<1>3. QED
  BY <1>1, <1>2, WorkerFlow

LEMMA WorkerStep ==
  ASSUME IInv, Worker
  PROVE  IInv'
<1> USE DEF IInv
<1>1. TypeOK' /\ QueueInv'
  BY WorkerType, WorkerQueue
<1>2. UNCHANGED << dev, permits, rows, cancelled >> /\ Same
  BY WorkerFlow, WorkerFields
<1>3. TokenInv' /\ ActionBacked'
  BY <1>2 DEF TokenInv, ActionBacked, Same, SameFields
<1>4. PermitInv'
  BY <1>2 DEF PermitInv, HoldsPermit, Same, SameFields
<1>5. proc[Served].pc \in { "wait", "erasing" } /\ Served \in Procs
  BY WorkerEffects
<1>6. ShapeInv'
  BY <1>2, <1>5 DEF ShapeInv, Shape, Same, SameFields
<1>7. EnrollInv'
  BY <1>2 DEF EnrollInv, Same, SameFields
<1>8. SlotsUnique'
  BY <1>2 DEF SlotsUnique
<1>9. MatchIsOwn'
  BY <1>2, <1>5 DEF MatchIsOwn, OwnPrints, Same, SameFields
<1>10. \A q \in Procs : /\ proc[q].kind \in Captures
                        /\ proc[q].pc \in { "hint", "run", "wait", "set_slot" }
                        /\ proc[Served].pc = "wait"
                        => q = Served
  BY <1>5 DEF PermitInv, HoldsPermit, PermitPcs
<1>11. CASE Progresses
  <2>1. flash' = flash /\ proc'[Served].reply = proc[Served].reply
    BY <1>11, WorkerFields DEF Progresses
  <2>2. StoredInv' /\ VerifyInv'
    BY <1>2, <2>1 DEF StoredInv, VerifyInv, OwnPrints, Same, SameFields
  <2>3. RowsOwnTemplates'
    BY <1>2, <2>1 DEF RowsOwnTemplates
  <2>4. QED
    BY <1>1, <1>3, <1>4, <1>6, <1>7, <1>8, <1>9, <2>2, <2>3
<1>12. ASSUME NEW r \in Reply, Answers(r)
       PROVE  IInv'
  <2>1. proc'[Served].reply = r /\ proc[Served].reply = None
    BY <1>12, WorkerFields, WorkerEffects
  <2>2. CASE /\ queue[1].cmd = "enroll"
             /\ flash' = [flash EXCEPT ![queue[1].slot] =
                            << proc[Served].user, proc[Served].finger >>]
    <3> DEFINE s == queue[1].slot
               k == << proc[Served].user, proc[Served].finger >>
    <3>1. /\ s \in Slots /\ k \in Prints /\ s = proc[Served].entry[2]
          /\ proc[Served].kind = "enroll" /\ proc[Served].pc = "wait"
      BY <2>2, WorkerEffects
    <3>2. \A l \in Prints : rows[l] = s => l = k
      BY <1>5, <3>1 DEF EnrollInv
    <3>3. \A t \in Slots : flash'[t] = IF t = s THEN k ELSE flash[t]
      BY <2>2, <3>1 DEF TypeOK
    <3>4. RowsOwnTemplates'
      BY <1>2, <3>2, <3>3 DEF RowsOwnTemplates, TypeOK
    <3>5. \A q \in Procs : proc[q].kind = "enroll"
            /\ proc[q].pc \in { "wait", "set_slot" } => q = Served
      BY <1>10, <3>1 DEF Captures
    <3>6. StoredInv'
      BY <1>2, <3>1, <3>3, <3>5 DEF StoredInv, Same, SameFields
    <3>7. \A q \in Procs : proc[q].kind = "verify"
            => proc[q].pc \notin { "hint", "run", "wait" }
      BY <1>10, <3>1 DEF Captures
    <3>8. VerifyInv'
      BY <1>2, <3>7 DEF VerifyInv, Same, SameFields
    <3>9. QED
      BY <1>1, <1>3, <1>4, <1>6, <1>7, <1>8, <1>9, <3>4, <3>6, <3>8
  <2>3. CASE \/ /\ flash' = flash
                /\ ~ (r.res = "ok" /\ queue[1].cmd = "enroll")
             \/ /\ queue[1].cmd = "delete"
                /\ flash' = [flash EXCEPT ![queue[1].slot] = None]
    <3>1. \A s \in Slots : flash'[s] \in { flash[s], None }
      BY <2>3 DEF TypeOK
    <3>2. RowsOwnTemplates'
      BY <1>2, <3>1 DEF RowsOwnTemplates, TypeOK
    <3>3. \A q \in Procs :
            /\ proc'[q].kind = "enroll"
            /\ \/ /\ proc'[q].pc = "wait" /\ proc'[q].reply # None
                  /\ proc'[q].reply.res = "ok"
               \/ proc'[q].pc = "set_slot"
            => q # Served
      BY <1>2, <1>5, <2>1, <2>3, WorkerEffects DEF Same, SameFields
    <3>4. \A q \in Procs : /\ proc[q].kind = "enroll"
                           /\ proc[q].pc \in { "wait", "set_slot" }
                           => proc[q].entry[2] \in Slots
      BY DEF EnrollInv
    <3>5. StoredInv'
      BY <1>2, <3>1, <3>3, <3>4 DEF StoredInv, Same, SameFields
    <3>6. \A q \in Procs : proc[q].expected \subseteq Slots
      BY DEF TypeOK, Invocation
    <3>7. r.res = "match" /\ r.slot \in proc[Served].expected
            => r.owner \in OwnPrints(Served)
      <4>1. CASE r.res = "match" /\ r.slot \in proc[Served].expected
        <5>1. /\ queue[1].cmd = "verify" /\ r.slot \in Slots
              /\ r.owner = flash[r.slot] /\ r.owner # None
          BY <1>12, <4>1 DEF Answers
        <5>2. proc[Served].kind = "verify" /\ proc[Served].pc = "wait"
          BY <5>1, WorkerEffects
        <5>3. QED
          BY <1>5, <4>1, <5>1, <5>2 DEF VerifyInv
      <4>2. QED
        BY <4>1
    <3>8. VerifyInv'
      BY <1>2, <2>1, <3>1, <3>6, <3>7 DEF VerifyInv, OwnPrints, Same, SameFields
    <3>9. QED
      BY <1>1, <1>3, <1>4, <1>6, <1>7, <1>8, <1>9, <3>2, <3>5, <3>8
  <2>4. QED
    BY <1>12, <2>2, <2>3 DEF Answers
<1>13. QED
  BY <1>11, <1>12, WorkerFlow

-----------------------------------------------------------------------------
(* The theorems *)

LEMMA InitIInv == Init => IInv
<1> SUFFICES ASSUME Init
             PROVE  IInv
  OBVIOUS
<1> USE DEF Init
<1>1. TypeOK
  <2>1. dev \in Device
    BY DEF Device, Token, Kinds, NoAction
  <2>2. proc \in [Procs -> Invocation]
    BY IdleType
  <2>3. QED
    BY <2>1, <2>2 DEF TypeOK
<1>2. \A p \in Procs : proc[p] = Idle
  OBVIOUS
<1>3. ShapeInv
  BY <1>2, NoneAssumption
     DEF ShapeInv, Shape, Idle, PermitPcs, OwnerPcs, VerdictPcs, TokenPcs,
         DeletePcs
<1>4. PermitInv
  BY <1>2 DEF PermitInv, HoldsPermit, PermitPcs, Idle
<1>5. TokenInv /\ ActionBacked
  BY <1>2 DEF TokenInv, ActionBacked, TokenPcs, OwnerPcs, VerdictPcs, Idle,
              NoAction
<1>6. QueueInv /\ EnrollInv /\ StoredInv /\ VerifyInv /\ MatchIsOwn
  BY <1>2 DEF QueueInv, EnrollInv, StoredInv, VerifyInv, MatchIsOwn, Idle
<1>7. SlotsUnique /\ RowsOwnTemplates
  BY DEF SlotsUnique, RowsOwnTemplates
<1>8. QED
  BY <1>1, <1>3, <1>4, <1>5, <1>6, <1>7 DEF IInv

LEMMA NextIInv == IInv /\ [Next]_vars => IInv'
<1> SUFFICES ASSUME IInv, [Next]_vars
             PROVE  IInv'
  OBVIOUS
<1>1. ASSUME NEW p \in Procs, ProcStep(p)
      PROVE  IInv'
  BY <1>1, ProcStepType, ShapeStep, PermitStep, TokenStep, QueueStep, EnrollStep,
     StoredStep, VerifyStep, RowsStep, MatchStep
     DEF IInv
<1>2. CASE UNCHANGED vars
  BY <1>2
     DEF vars, IInv, TypeOK, ShapeInv, Shape, PermitInv, HoldsPermit, TokenInv,
         ActionBacked, QueueInv, EnrollInv, StoredInv, VerifyInv, OwnPrints,
         SlotsUnique, RowsOwnTemplates, MatchIsOwn
<1>3. QED
  BY <1>1, <1>2, CallStep, BusStep, WorkerStep DEF Next

\* The inductive invariant holds of every reachable state of the Device.
THEOREM Invariance == Spec => []IInv
  BY InitIInv, NextIInv, PTL DEF Spec

\* Every variable keeps its type: no handler stores what another cannot read.
THEOREM TypeCorrect == Spec => []TypeOK
<1>1. IInv => TypeOK
  BY DEF IInv
<1>2. QED
  BY <1>1, Invariance, PTL

\* allocate_slot's lowest free slot is still free when set_slot files it: no
\* two prints are ever registered for one template slot.
THEOREM NoSharedSlot == Spec => []SlotsUnique
<1>1. IInv => SlotsUnique
  BY DEF IInv
<1>2. QED
  BY <1>1, Invariance, PTL

\* A row of the registry leads to its own print's template or to an empty
\* slot, through deletes, re-enrolls, abandoned enrolls and lost answers.
THEOREM NoForeignTemplate == Spec => []RowsOwnTemplates
<1>1. IInv => RowsOwnTemplates
  BY DEF IInv
<1>2. QED
  BY <1>1, Invariance, PTL

\* verify-match is only ever emitted for a template that was stored for the
\* user whose verify it is.
THEOREM MatchTrue == Spec => []MatchIsOwn
<1>1. IInv => MatchIsOwn
  BY DEF IInv
<1>2. QED
  BY <1>1, Invariance, PTL

\* While the action slot is taken, the invocation that will free it exists.
THEOREM ActionOwned == Spec => []ActionBacked
<1>1. IInv => ActionBacked
  BY DEF IInv
<1>2. QED
  BY <1>1, Invariance, PTL

\* capture_slot: at most one capture is queued at the worker, for any number
\* of callers and any order of Start and Stop.
THEOREM CaptureExclusion == Spec => []OneCaptureQueued
<1>1. IInv => OneCaptureQueued
  <2>1. SUFFICES ASSUME IInv, NEW i \in 1 .. Len(queue), NEW j \in 1 .. Len(queue),
                        queue[i].cmd \in Captures, queue[j].cmd \in Captures
                 PROVE  i = j
    BY DEF OneCaptureQueued
  <2>2. queue[i].proc \in Procs /\ queue[j].proc \in Procs
    BY <2>1, QueueTypes DEF IInv
  <2>3. proc[queue[i].proc].pc = "wait" /\ proc[queue[j].proc].pc = "wait"
    BY <2>1 DEF IInv, QueueInv, Captures
  <2>4. queue[i].proc = queue[j].proc
    BY <2>1, <2>2, <2>3 DEF IInv, PermitInv, HoldsPermit, PermitPcs
  <2>5. QED
    BY <2>1, <2>4 DEF IInv, QueueInv
<1>2. QED
  BY <1>1, Invariance, PTL

\* While a capture holds the action slot, no other invocation is at a place that
\* needs the capture permit.
LEMMA OneCaptureSession ==
  ASSUME IInv, NEW p \in Procs, HoldsPermit(p), dev.action.kind \in Captures
  PROVE  proc[p].pc \in OwnerPcs /\ proc[p].token = dev.action
<1>1. dev.action # NoAction
  BY DEF NoAction, Captures
<1>2. PICK q \in Procs : proc[q].pc \in OwnerPcs /\ proc[q].token = dev.action
  BY <1>1 DEF IInv, ActionBacked
<1>3. proc[q].kind \in Captures
  BY <1>2 DEF IInv, TokenInv, TokenPcs
<1>4. HoldsPermit(q)
  BY <1>2, <1>3
     DEF IInv, ShapeInv, Shape, OwnerPcs, HoldsPermit, PermitPcs, DeletePcs,
         Captures
<1>5. q = p
  BY <1>4 DEF IInv, PermitInv
<1>6. QED
  BY <1>2, <1>5

\* What a capture found out is never reported by an operation that was stopped,
\* released or disconnected, nor while a capture owns the action slot; the one
\* terminal signal the handler sends without asking for its token,
\* enroll-data-full, never goes out during the capture of another operation.
THEOREM VerdictIsolation == Spec => []VerdictsIsolated
<1>1. IInv => VerdictsIsolated
  <2>1. SUFFICES ASSUME IInv, NEW p \in Procs
                 PROVE  /\ proc[p].pc \in VerdictPcs =>
                             /\ dev.action.kind \notin Captures
                             /\ proc[p].token.epoch \notin cancelled
                        /\ proc[p].pc = "data_full" /\ dev.action.kind \in Captures
                             => dev.action = proc[p].token
    BY DEF VerdictsIsolated, VerdictPcs
  <2>2. ASSUME proc[p].pc \in VerdictPcs
        PROVE  /\ dev.action.kind \notin Captures
               /\ proc[p].token.epoch \notin cancelled
    <3>1. HoldsPermit(p) /\ proc[p].pc \notin OwnerPcs
      BY <2>2 DEF VerdictPcs, HoldsPermit, PermitPcs, OwnerPcs
    <3>2. dev.action.kind \notin Captures
      BY <2>1, <3>1, OneCaptureSession
    <3>3. QED
      BY <2>1, <2>2, <3>2 DEF IInv, TokenInv
  <2>3. ASSUME proc[p].pc = "data_full", dev.action.kind \in Captures
        PROVE  dev.action = proc[p].token
    <3>1. HoldsPermit(p)
      BY <2>3 DEF HoldsPermit, PermitPcs
    <3>2. QED
      BY <2>1, <2>3, <3>1, OneCaptureSession
  <2>4. QED
    BY <2>2, <2>3
<1>2. QED
  BY <1>1, Invariance, PTL
=============================================================================
