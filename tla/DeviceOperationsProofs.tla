----------------------- MODULE DeviceOperationsProofs ------------------------
(***************************************************************************)
(* The Device implements DeviceOperations: the proof that every step of a  *)
(* handler, a task, the bus or the worker is a step of one operation's     *)
(* life, or none.                                                          *)
(***************************************************************************)
EXTENDS FprintDeviceProofs

\* An operation under way that is not in the action slot lost it to a stop, a
\* release or a disconnect.
LostInv ==
  \A p \in Procs : proc[p].pc \in OwnerPcs /\ proc[p].token # dev.action
    => proc[p].token.epoch \in cancelled

\* Where an invocation owes a terminal signal.
OwedPcs == VerdictPcs \cup { "data_full" }

-----------------------------------------------------------------------------
(* The tokens of the others, and of one invocation *)

OthersAt(p, pcs) ==
  { proc[q].token : q \in { r \in Procs \ { p } : proc[r].pc \in pcs } }

LEMMA Split ==
  ASSUME NEW p \in Procs, NEW pcs
  PROVE  TokensAt(pcs) = IF proc[p].pc \in pcs
                           THEN OthersAt(p, pcs) \cup { proc[p].token }
                           ELSE OthersAt(p, pcs)
  BY DEF TokensAt, OthersAt

\* A step of p alone changes p's own token at most.
LEMMA SplitStep ==
  ASSUME NEW p \in Procs, NEW pcs,
         \A q \in Procs : q # p => proc'[q] = proc[q]
  PROVE  TokensAt(pcs)' = IF proc'[p].pc \in pcs
                            THEN OthersAt(p, pcs) \cup { proc'[p].token }
                            ELSE OthersAt(p, pcs)
<1>1. { q \in Procs : proc'[q].pc \in pcs } \ { p }
        = { r \in Procs \ { p } : proc[r].pc \in pcs }
  OBVIOUS
<1>2. TokensAt(pcs)' = { proc'[q].token : q \in { r \in Procs : proc'[r].pc \in pcs } }
  BY DEF TokensAt
<1> QED BY <1>1, <1>2 DEF OthersAt

LEMMA Apart ==
  ASSUME TokenInv, NEW p \in Procs, proc[p].pc \in TokenPcs,
         NEW pcs \in SUBSET TokenPcs
  PROVE  proc[p].token \notin OthersAt(p, pcs)
  BY DEF OthersAt, TokenInv

LEMMA PlaceFacts ==
  /\ OwnerPcs \in SUBSET TokenPcs /\ VerdictPcs \in SUBSET TokenPcs
  /\ OwnerPcs \cap VerdictPcs = {} /\ TokenPcs = OwnerPcs \cup VerdictPcs
  /\ VerdictPcs \subseteq PermitPcs
  /\ OwnerPcs \subseteq PermitPcs \cup DeletePcs
  /\ OwedPcs = { "set_slot", "emit", "data_full" } /\ OwedPcs \in SUBSET TokenPcs
  /\ { "slot", "data_full", "refuse" } \subseteq OwnerPcs
  /\ "mint" \notin TokenPcs /\ "idle" \notin TokenPcs
  /\ { "refuse" } \in SUBSET TokenPcs /\ VerdictPcs = { "set_slot", "emit" }
  /\ "none" \notin Captures /\ "delete" \notin Captures /\ "none" # "delete"
  BY DEF OwnerPcs, VerdictPcs, OwedPcs, TokenPcs, PermitPcs, DeletePcs, Captures

\* What an invocation with a token is doing.
LEMMA TokenKinds ==
  ASSUME ShapeInv, TokenInv, NEW p \in Procs, proc[p].pc \in TokenPcs
  PROVE  /\ proc[p].kind \in Captures \cup { "delete" }
         /\ proc[p].kind \in Captures => HoldsPermit(p)
         /\ proc[p].pc \in VerdictPcs => proc[p].kind \in Captures
         /\ proc[p].token.kind = proc[p].kind
         /\ proc[p].token # NoAction
<1>1. /\ proc[p].pc \in PermitPcs => proc[p].kind \in Captures
      /\ proc[p].pc \in DeletePcs => proc[p].kind = "delete"
  BY DEF ShapeInv, Shape
<1>2. proc[p].token.kind = proc[p].kind
  BY DEF TokenInv
<1>3. proc[p].pc \in PermitPcs \cup DeletePcs
  BY PlaceFacts
<1>4. proc[p].token.kind # "none"
  BY <1>1, <1>2, <1>3, PlaceFacts
<1> QED BY <1>1, <1>2, <1>3, <1>4, PlaceFacts DEF HoldsPermit, NoAction

-----------------------------------------------------------------------------
(* Steps of an invocation *)

\* The way of an enroll that finds the sensor full, and of a capture that has
\* nothing to report.
LEMMA RefusalFlow ==
  ASSUME TypeOK, NEW p \in Procs, ProcStep(p)
  PROVE  /\ proc'[p].pc = "data_full" => proc[p].pc = "slot"
         /\ proc'[p].pc = "refuse" => proc[p].pc \in { "mint", "data_full" }
         /\ proc[p].pc = "data_full" => proc'[p].pc = "refuse"
         /\ proc[p].pc = "refuse" => proc'[p].pc = "idle"
<1>1. Idle.pc = "idle"
  BY DEF Idle
<1>2. CASE \/ AcquirePermit(p) \/ MintVerify(p) \/ MintEnroll(p) \/ ChooseSlot(p)
           \/ EmitDataFull(p) \/ Spawn(p)
  BY <1>1, <1>2, CaptureEffects
     DEF AcquirePermit, MintVerify, MintEnroll, ChooseSlot, EmitDataFull, Spawn
<1>3. CASE RunEnroll(p) \/ RunVerify(p)
  BY <1>1, <1>3, CaptureEffects DEF RunEnroll, RunVerify
<1>4. CASE \/ TakeProgress(p) \/ RetryVerify(p) \/ FinishVerify(p)
           \/ FinishEnroll(p) \/ SetSlot(p)
  BY <1>1, <1>4, TaskEffects
     DEF TakeProgress, RetryVerify, FinishVerify, FinishEnroll, AfterEnroll,
         SetSlot
<1>5. CASE \/ LookupSlot(p) \/ BeginDelete(p) \/ SnapshotSlots(p)
           \/ EraseNext(p) \/ EraseReply(p) \/ RemoveRow(p)
  BY <1>1, <1>5, DeleteEffects
     DEF LookupSlot, BeginDelete, SnapshotSlots, EraseNext, EraseReply, RemoveRow
<1>6. CASE \/ Claim(p) \/ Stop(p) \/ MintRefused(p) \/ Refuse(p) \/ Emit(p)
           \/ FinishDelete(p)
  BY <1>1, <1>6, ReturnEffects
     DEF Claim, Stop, MintRefused, Refuse, Emit, FinishDelete
<1> QED BY <1>2, <1>3, <1>4, <1>5, <1>6 DEF ProcStep

LEMMA LostStep ==
  ASSUME IInv, LostInv, NEW p \in Procs, ProcStep(p)
  PROVE  LostInv'
<1>1. \A q \in Procs : q # p => proc'[q] = proc[q]
  BY OthersKeep DEF IInv
<1>2. \A q \in Procs : proc[q].pc \in OwnerPcs => proc[q].token # NoAction
  BY TokenKinds, PlaceFacts DEF IInv
<1>3. \/ Mints(p) \/ Stops(p) \/ Outside(p) \/ Keeps(p) \/ Ends(p) \/ Leaves(p)
  BY TokenFlow DEF IInv
<1>4. CASE Mints(p)
  BY <1>1, <1>2, <1>4 DEF Mints, LostInv
<1>5. CASE Stops(p)
  BY <1>1, <1>2, <1>5, PlaceFacts DEF Stops, LostInv
<1>6. CASE Outside(p) \/ Leaves(p)
  BY <1>1, <1>6, PlaceFacts DEF Outside, Leaves, LostInv
<1>7. CASE Keeps(p)
  BY <1>1, <1>7, PlaceFacts DEF Keeps, LostInv
<1>8. CASE Ends(p)
  <2>1. proc'[p].pc \notin OwnerPcs /\ cancelled' = cancelled
    BY <1>8, PlaceFacts DEF Ends
  <2>2. ASSUME NEW q \in Procs, q # p, proc[q].pc \in OwnerPcs
        PROVE  proc[q].token # proc[p].token
    BY <1>8, <2>2, PlaceFacts DEF Ends, IInv, TokenInv
  <2>3. ASSUME NEW q \in Procs, q # p, proc[q].pc \in OwnerPcs,
               proc[q].token # dev'.action
        PROVE  proc[q].token # dev.action
    BY <1>8, <2>2, <2>3 DEF Ends
  <2> QED BY <1>1, <2>1, <2>3 DEF LostInv
<1> QED BY <1>3, <1>4, <1>5, <1>6, <1>7, <1>8

LEMMA StartIsFree ==
  ASSUME IInv, IInv', NEW p \in Procs, ProcStep(p), Mints(p),
         proc'[p].kind \in Captures,
         NEW t \in TokensAt(OwnerPcs) \cup TokensAt(OwedPcs)
  PROVE  t.kind \notin Captures
<1>1. PICK q \in Procs : proc[q].pc \in TokenPcs /\ t = proc[q].token
  BY PlaceFacts DEF TokensAt
<1>2. q # p /\ proc'[q] = proc[q]
  BY <1>1, OthersKeep DEF Mints, IInv
<1> SUFFICES ASSUME t.kind \in Captures PROVE FALSE
  OBVIOUS
<1>3. HoldsPermit(q)'
  BY <1>1, <1>2, TokenKinds DEF IInv, HoldsPermit
<1>4. proc'[p].pc \in PermitPcs \/ proc'[p].kind = "delete"
  BY PlaceFacts DEF Mints, IInv, ShapeInv, Shape
<1>5. HoldsPermit(p)'
  BY <1>4, PlaceFacts DEF HoldsPermit
<1> QED BY <1>2, <1>3, <1>5 DEF IInv, PermitInv

LEMMA ProcImplements ==
  ASSUME IInv, IInv', LostInv, NEW p \in Procs, ProcStep(p)
  PROVE  [Operations!Next]_(Operations!vars)
<1> DEFINE run == OthersAt(p, OwnerPcs)
           owe == OthersAt(p, OwedPcs)
           sil == OthersAt(p, { "refuse" })
           t == proc[p].token
<1>1. \A q \in Procs : q # p => proc'[q] = proc[q]
  BY OthersKeep DEF IInv
<1>2. /\ TokensAt(OwnerPcs) = IF proc[p].pc \in OwnerPcs THEN run \cup { t } ELSE run
      /\ TokensAt(OwedPcs) = IF proc[p].pc \in OwedPcs THEN owe \cup { t } ELSE owe
      /\ TokensAt({ "refuse" })
           = IF proc[p].pc = "refuse" THEN sil \cup { t } ELSE sil
  BY Split
<1>3. /\ TokensAt(OwnerPcs)' = IF proc'[p].pc \in OwnerPcs
                                 THEN run \cup { proc'[p].token } ELSE run
      /\ TokensAt(OwedPcs)' = IF proc'[p].pc \in OwedPcs
                                THEN owe \cup { proc'[p].token } ELSE owe
      /\ TokensAt({ "refuse" })' = IF proc'[p].pc = "refuse"
                                     THEN sil \cup { proc'[p].token } ELSE sil
  BY <1>1, SplitStep
<1>4. proc[p].pc \in TokenPcs => t \notin run /\ t \notin owe /\ t \notin sil
  BY Apart, PlaceFacts DEF IInv
<1>5. OwedPcs = { "set_slot", "emit", "data_full" }
  BY PlaceFacts
<1>6. /\ proc'[p].pc = "data_full" => proc[p].pc = "slot"
      /\ proc'[p].pc = "refuse" => proc[p].pc \in { "mint", "data_full" }
      /\ proc[p].pc = "data_full" => proc'[p].pc = "refuse"
      /\ proc[p].pc = "refuse" => proc'[p].pc = "idle"
  BY RefusalFlow DEF IInv
<1> HIDE DEF run, owe, sil, t
<1>7. CASE Mints(p)
  <2>1. proc'[p].kind \in Captures \cup { "delete" }
    <3>1. proc'[p].pc \in PermitPcs \cup DeletePcs
      BY <1>7, PlaceFacts DEF Mints
    <3> QED BY <3>1 DEF IInv, ShapeInv, Shape
  <2>2. proc'[p].kind \in Captures
          => \A u \in TokensAt(OwnerPcs) \cup TokensAt(OwedPcs) :
               u.kind \notin Captures
    BY <1>7, StartIsFree
  <2>3. /\ TokensAt(OwnerPcs)' = TokensAt(OwnerPcs) \cup { dev'.action }
        /\ TokensAt(OwedPcs)' = TokensAt(OwedPcs)
        /\ TokensAt({ "refuse" })' \in
             { TokensAt({ "refuse" }), TokensAt({ "refuse" }) \cup { dev'.action } }
    BY <1>2, <1>3, <1>6, <1>7, PlaceFacts DEF Mints
  <2>4. Operations!Start(proc'[p].kind)
    BY <1>5, <1>7, <2>2, <2>3 DEF Mints, Operations!Start
  <2> QED BY <2>1, <2>4 DEF Operations!Next
<1>8. CASE Stops(p) \/ Outside(p)
  <2>1. UNCHANGED << TokensAt(OwnerPcs), TokensAt(OwedPcs), TokensAt({ "refuse" }) >>
    BY <1>2, <1>3, <1>8, PlaceFacts DEF Stops, Outside
  <2>2. CASE Stops(p) /\ dev.action # NoAction
    BY <1>5, <2>1, <2>2 DEF Stops, Operations!Cancel, Operations!Next
  <2>3. CASE ~ (Stops(p) /\ dev.action # NoAction)
    BY <1>5, <1>8, <2>1, <2>3 DEF Stops, Outside, Operations!vars
  <2> QED BY <2>2, <2>3
<1>9. CASE Keeps(p)
  <2>1. proc'[p].token = t /\ (proc[p].pc \in OwnerPcs <=> proc'[p].pc \in OwnerPcs)
    BY <1>9, PlaceFacts DEF Keeps, t
  <2>2. TokensAt(OwnerPcs)' = TokensAt(OwnerPcs)
    BY <1>2, <1>3, <2>1
  <2>3. CASE proc'[p].pc = "data_full"
    <3>1. proc[p].pc = "slot"
      BY <1>6, <2>3
    <3>2. /\ t \in TokensAt(OwnerPcs)
          /\ t \notin TokensAt(OwedPcs) /\ t \notin TokensAt({ "refuse" })
          /\ TokensAt(OwedPcs)' = TokensAt(OwedPcs) \cup { t }
          /\ TokensAt({ "refuse" })' = TokensAt({ "refuse" })
      BY <1>2, <1>3, <1>4, <1>5, <2>1, <2>3, <3>1, PlaceFacts
    <3>3. t.kind = "enroll"
      BY <3>1, TokenKinds, PlaceFacts DEF IInv, ShapeInv, Shape, t
    <3>4. Operations!Refuse(t)
      BY <1>5, <1>9, <2>2, <3>2, <3>3 DEF Keeps, Operations!Refuse
    <3> QED BY <3>2, <3>4 DEF Operations!Next
  <2>4. CASE proc[p].pc = "data_full"
    <3>1. /\ t \in TokensAt(OwnerPcs) /\ t \in TokensAt(OwedPcs)
          /\ TokensAt(OwedPcs)' = TokensAt(OwedPcs) \ { t }
          /\ TokensAt({ "refuse" })' = TokensAt({ "refuse" }) \cup { t }
      BY <1>2, <1>3, <1>4, <1>5, <1>6, <2>1, <2>4, PlaceFacts
    <3>2. Operations!Report(t)
      BY <1>5, <1>9, <2>2, <3>1 DEF Keeps, Operations!Report
    <3> QED BY <1>5, <3>1, <3>2 DEF Operations!Next
  <2>5. CASE "data_full" \notin { proc[p].pc, proc'[p].pc }
    <3>1. "refuse" \notin { proc[p].pc, proc'[p].pc }
      BY <1>6, <1>9, <2>5, PlaceFacts DEF Keeps
    <3>2. proc[p].pc \in OwedPcs <=> proc'[p].pc \in OwedPcs
      BY <1>9, <2>5, PlaceFacts DEF Keeps
    <3>3. UNCHANGED << TokensAt(OwedPcs), TokensAt({ "refuse" }) >>
      BY <1>2, <1>3, <2>1, <3>1, <3>2
    <3> QED BY <1>5, <1>9, <2>2, <3>3 DEF Keeps, Operations!vars
  <2> QED BY <2>3, <2>4, <2>5
<1>10. CASE Ends(p)
  <2>1. /\ proc[p].pc \in OwnerPcs /\ proc'[p].pc \notin OwnerPcs
        /\ proc[p].pc \notin OwedPcs
    BY <1>5, <1>6, <1>10, PlaceFacts DEF Ends
  <2>2. /\ t \in TokensAt(OwnerPcs) /\ t \notin TokensAt(OwedPcs)
        /\ TokensAt(OwnerPcs)' = TokensAt(OwnerPcs) \ { t }
        /\ TokensAt({ "refuse" })' = TokensAt({ "refuse" }) \ { t }
    BY <1>2, <1>3, <1>4, <2>1, PlaceFacts
  <2>3. CASE dev.action = t
    <3>1. \/ TokensAt(OwedPcs)' = TokensAt(OwedPcs)
          \/ /\ TokensAt(OwedPcs)' = TokensAt(OwedPcs) \cup { t }
             /\ t.kind \in Captures /\ t \notin TokensAt({ "refuse" })
      <4>1. CASE proc'[p].pc \in VerdictPcs
        <5>1. proc'[p].kind = proc[p].kind /\ proc'[p].token = t
          BY <1>10, <4>1, PlaceFacts DEF Ends, t
        <5>2. t.kind = proc[p].kind
          BY <2>1, TokenKinds, PlaceFacts DEF IInv, t
        <5>3. proc'[p].kind \in Captures
          BY <4>1, PlaceFacts DEF IInv, ShapeInv, Shape
        <5>4. proc[p].pc # "refuse"
          BY <1>6, <4>1, PlaceFacts
        <5> QED BY <1>2, <1>3, <1>4, <2>1, <4>1, <5>1, <5>2, <5>3, <5>4, PlaceFacts
                DEF OwedPcs
      <4>2. CASE proc'[p].pc \notin VerdictPcs
        BY <1>2, <1>3, <2>1, <4>2, PlaceFacts DEF OwedPcs
      <4> QED BY <4>1, <4>2
    <3>2. Operations!Finish(t)
      BY <1>5, <1>10, <2>2, <2>3, <3>1 DEF Ends, Operations!Finish, t
    <3> QED BY <2>2, <3>2 DEF Operations!Next
  <2>4. CASE dev.action # t
    <3>1. t.epoch \in cancelled
      BY <1>10, <2>4 DEF Ends, LostInv, t
    <3>2. TokensAt(OwedPcs)' = TokensAt(OwedPcs)
      BY <1>2, <1>3, <1>10, <2>1, <2>4, PlaceFacts DEF Ends, t
    <3>3. Operations!Abandon(t)
      BY <1>5, <1>10, <2>2, <2>4, <3>1, <3>2 DEF Ends, Operations!Abandon, t
    <3> QED BY <2>2, <3>3 DEF Operations!Next
  <2> QED BY <2>3, <2>4
<1>11. CASE Leaves(p)
  <2>1. /\ t \in TokensAt(OwedPcs) /\ t \notin TokensAt(OwnerPcs)
        /\ TokensAt(OwedPcs)' = TokensAt(OwedPcs) \ { t }
        /\ TokensAt(OwnerPcs)' = TokensAt(OwnerPcs)
        /\ TokensAt({ "refuse" })' = TokensAt({ "refuse" })
    BY <1>2, <1>3, <1>4, <1>11, PlaceFacts DEF Leaves
  <2>2. Operations!Report(t)
    BY <1>5, <1>11, <2>1 DEF Leaves, Operations!Report
  <2> QED BY <1>5, <2>1, <2>2 DEF Operations!Next
<1> QED BY <1>7, <1>8, <1>9, <1>10, <1>11, TokenFlow DEF IInv

-----------------------------------------------------------------------------
(* Calls, bus events and the worker *)

LEMMA CallKeeps ==
  ASSUME IInv, LostInv, NEW p \in Procs, Call(p)
  PROVE  LostInv' /\ UNCHANGED Operations!vars
<1>1. /\ proc[p].pc = "idle" /\ proc'[p].pc \in CallPcs
      /\ \A q \in Procs : q # p => proc'[q] = proc[q]
      /\ UNCHANGED << dev, cancelled >>
  BY CallEffects DEF IInv
<1>2. CallPcs \cap TokenPcs = {} /\ "idle" \notin TokenPcs
  BY DEF CallPcs, TokenPcs, OwnerPcs, VerdictPcs
<1>3. ASSUME NEW pcs \in SUBSET TokenPcs PROVE TokensAt(pcs)' = TokensAt(pcs)
  BY <1>1, <1>2, Split, SplitStep
<1>4. UNCHANGED << TokensAt(OwnerPcs), TokensAt({ "set_slot", "emit", "data_full" }),
                    TokensAt({ "refuse" }) >>
  BY <1>3, PlaceFacts
<1>5. LostInv'
  BY <1>1, <1>2, PlaceFacts DEF LostInv
<1> QED BY <1>1, <1>4, <1>5 DEF Operations!vars

LEMMA BusImplements ==
  ASSUME IInv, LostInv, NEW cl \in Clients, Bus(cl)
  PROVE  LostInv' /\ [Operations!Next]_(Operations!vars)
<1>1. proc' = proc
  BY DEF Bus, Release, Disconnect, HandleClientDisconnect
<1>2. UNCHANGED << TokensAt(OwnerPcs), TokensAt({ "set_slot", "emit", "data_full" }),
                    TokensAt({ "refuse" }) >>
  BY <1>1 DEF TokensAt
<1>3. \A q \in Procs : proc[q].pc \in OwnerPcs => proc[q].token # NoAction
  BY TokenKinds, PlaceFacts DEF IInv
<1>4. CASE UNCHANGED << dev, cancelled >>
  BY <1>1, <1>2, <1>4 DEF LostInv, Operations!vars
<1>5. CASE dev' = DropClaim(dev) /\ Cancel
  <2>1. dev'.action = NoAction /\ dev'.next_epoch = dev.next_epoch
    BY <1>5, DeviceFields DEF IInv
  <2>2. CASE dev.action = NoAction
    BY <1>1, <1>2, <1>5, <2>1, <2>2 DEF Cancel, LostInv, Operations!vars
  <2>3. CASE dev.action # NoAction
    <3>1. cancelled' = cancelled \cup { dev.action.epoch }
      BY <1>5, <2>3 DEF Cancel
    <3>2. LostInv'
      BY <1>1, <1>3, <2>1, <3>1 DEF LostInv
    <3>3. Operations!Cancel
      BY <1>2, <2>1, <2>3, <3>1 DEF Operations!Cancel
    <3> QED BY <3>2, <3>3 DEF Operations!Next
  <2> QED BY <2>2, <2>3
<1> QED BY <1>4, <1>5 DEF Bus, Release, Disconnect, HandleClientDisconnect

LEMMA WorkerKeeps ==
  ASSUME IInv, LostInv, Worker
  PROVE  LostInv' /\ UNCHANGED Operations!vars
<1>1. UNCHANGED << dev, cancelled >> /\ Same
  BY WorkerFlow, WorkerFields DEF IInv
<1>2. \A q \in Procs : proc'[q].pc = proc[q].pc /\ proc'[q].token = proc[q].token
  BY <1>1 DEF Same, SameFields
<1>3. UNCHANGED << TokensAt(OwnerPcs), TokensAt({ "set_slot", "emit", "data_full" }),
                    TokensAt({ "refuse" }) >>
  BY <1>2 DEF TokensAt
<1>4. LostInv'
  BY <1>1, <1>2 DEF LostInv
<1> QED BY <1>1, <1>3, <1>4 DEF Operations!vars

-----------------------------------------------------------------------------
(* The theorems *)

LEMMA OperationStep ==
  ASSUME IInv, IInv', LostInv, [Next]_vars
  PROVE  LostInv' /\ [Operations!Next]_(Operations!vars)
<1>1. CASE UNCHANGED vars
  BY <1>1 DEF vars, LostInv, TokensAt, Operations!vars
<1> QED BY <1>1, LostStep, ProcImplements, CallKeeps, BusImplements, WorkerKeeps
        DEF Next

\* An operation that is still under way without the action slot was stopped,
\* released or disconnected: the slot is never taken from it by another one.
THEOREM LostOnlyByCancel == Spec => []LostInv
<1>1. Init => LostInv
  BY DEF Init, LostInv, Idle, OwnerPcs
<1>2. IInv /\ IInv' /\ LostInv /\ [Next]_vars => LostInv'
  BY OperationStep
<1> QED BY <1>1, <1>2, Invariance, PTL DEF Spec

\* Handlers, tasks, bus events and worker together keep the token discipline of
\* DeviceOperations, for any number of invocations.  The discipline lets an enroll
\* that is refused for a full sensor say so after it was stopped; every other
\* report is the owner's.
THEOREM OperationsImplemented == Spec => ImplementsOperations
<1>1. Init => Operations!Init
  BY DEF Init, Operations!Init, TokensAt, Idle, OwnerPcs
<1>2. IInv /\ IInv' /\ LostInv /\ [Next]_vars
        => [Operations!Next]_(Operations!vars)
  BY OperationStep
<1> QED BY <1>1, <1>2, Invariance, LostOnlyByCancel, PTL
        DEF Spec, Operations!Spec, ImplementsOperations
=============================================================================
