------------------------ MODULE CommandChannelProofs ------------------------
(***************************************************************************)
(* The two ends of the line stay in step, for any number of requests,      *)
(* faults, retries and lines, and any ceiling.                             *)
(***************************************************************************)
EXTENDS CommandChannel, TLAPS

Elems(q) == { q[i] : i \in 1 .. Len(q) }

\* Commands reach the Nano in the order of their counters.
Increasing(q) ==
  \A i, j \in 1 .. Len(q) :
    i < j /\ q[i].kind = "command" /\ q[j].kind = "command" => q[i].ctr < q[j].ctr

\* What the Nano has said or is about to say bears a counter it has seen.
NanoInv ==
  /\ keyed => \A l \in Elems(up) : l.ctr \in Counter => l.ctr <= last
  /\ nano.pc = "run" => /\ nano.of \in Requests
                        /\ keyed => nano.ctr \in Counter /\ nano.ctr <= last
  /\ \A l \in Elems(down) :
       l.kind = "command" =>
         l.of \in Requests /\ (IF keyed THEN l.ctr \in Counter ELSE l.ctr = None)

\* What the worker has at each point.
HostInv ==
  /\ host.pc \in { "exec", "send", "wait" } => host.req \in Requests
  /\ host.pc \in { "idle", "exec", "send", "wait" } /\ keyed => host.next \in Counter
  /\ host.pc \in { "send", "wait" } /\ keyed => host.ctr \in 1 .. (Ceiling - 1)
  /\ host.pc = "send" => keyed

\* A counter in state.json is above all the Nano saw or will see.
AheadInv ==
  keyed /\ file # "wrong" =>
    /\ last < disk
    /\ Increasing(down)
    /\ \A l \in Elems(down) : l.kind = "command" => last < l.ctr /\ l.ctr < disk
    /\ host.pc \in { "idle", "exec", "send", "wait" } => host.next = disk
    /\ host.pc = "send" =>
         /\ last < host.ctr /\ host.ctr < disk
         /\ \A l \in Elems(down) : l.kind = "command" => l.ctr < host.ctr

\* Whatever bears the counter of the command in hand belongs to it.
OwnInv ==
  keyed /\ file # "wrong" /\ host.pc = "wait" =>
    /\ host.ctr < disk
    /\ \A l \in Elems(up) : l.ctr = host.ctr /\ l.kind # "noise" => l.of = host.req
    /\ \A l \in Elems(down) : l.kind = "command" /\ l.ctr = host.ctr => l.of = host.req
    /\ nano.pc = "run" /\ nano.ctr = host.ctr => nano.of = host.req

SentInv ==
  keyed /\ file = "intact" =>
    \A c \in sent : c < disk /\ (host.pc = "send" => c < host.ctr)

IInv == TypeOK /\ NanoInv /\ HostInv /\ AheadInv /\ OwnInv /\ SentInv

USE ChannelAssumption

-----------------------------------------------------------------------------
(* Lines under way *)

LEMMA PutElems ==
  ASSUME NEW q \in Seq(Lines), NEW l \in Lines
  PROVE  Put(q, l) \in Seq(Lines) /\ Elems(Put(q, l)) \subseteq Elems(q) \cup { l }
BY DEF Put, Elems

LEMMA TailElems ==
  ASSUME NEW q \in Seq(Lines), q # << >>
  PROVE  /\ Tail(q) \in Seq(Lines) /\ Elems(Tail(q)) \subseteq Elems(q)
         /\ Head(q) \in Lines /\ Head(q) \in Elems(q)
BY DEF Elems

LEMMA ClearedElems ==
  ASSUME up \in Seq(Lines), NEW q \in Cleared
  PROVE  q \in Seq(Lines) /\ Elems(q) \subseteq Elems(up)
<1>1. PICK n \in 1 .. (Len(up) + 1) : q = SubSeq(up, n, Len(up))
  BY DEF Cleared
<1>2. /\ Len(q) = Len(up) - n + 1
      /\ \A i \in 1 .. Len(q) : q[i] = up[n + i - 1] /\ n + i - 1 \in 1 .. Len(up)
      /\ q = [i \in 1 .. (Len(up) - n + 1) |-> up[n + i - 1]]
  BY <1>1
<1>3. q \in Seq(Lines)
  BY <1>1, <1>2
<1>4. ASSUME NEW x \in Elems(q) PROVE x \in Elems(up)
  BY <1>2 DEF Elems
<1> QED BY <1>3, <1>4

LEMMA SwapElems ==
  ASSUME NEW q \in Seq(Lines), NEW l \in Lines, q # << >>
  PROVE  /\ << l >> \o Tail(q) \in Seq(Lines)
         /\ Elems(<< l >> \o Tail(q)) \subseteq Elems(q) \cup { l }
BY DEF Elems

LEMMA PutIncreasing ==
  ASSUME NEW q \in Seq(Lines), NEW l \in Lines, Increasing(q),
         l.kind = "command" =>
           \A m \in Elems(q) : m.kind = "command" => m.ctr < l.ctr
  PROVE  Increasing(Put(q, l))
BY DEF Put, Elems, Increasing

LEMMA TailIncreasing ==
  ASSUME NEW q \in Seq(Lines), q # << >>, Increasing(q)
  PROVE  /\ Increasing(Tail(q))
         /\ Head(q).kind = "command" =>
              \A m \in Elems(Tail(q)) : m.kind = "command" => Head(q).ctr < m.ctr
<1>1. /\ Len(Tail(q)) = Len(q) - 1 /\ Head(q) = q[1] /\ Len(q) \in Nat
      /\ \A i \in 1 .. Len(Tail(q)) : Tail(q)[i] = q[i + 1]
  OBVIOUS
<1>2. Increasing(Tail(q))
  BY <1>1 DEF Increasing
<1>3. ASSUME Head(q).kind = "command", NEW i \in 1 .. Len(Tail(q)),
             Tail(q)[i].kind = "command"
      PROVE  Head(q).ctr < Tail(q)[i].ctr
  <2>1. 1 \in 1 .. Len(q) /\ i + 1 \in 1 .. Len(q) /\ 1 < i + 1
    BY <1>1
  <2> QED BY <1>1, <1>3, <2>1 DEF Increasing
<1> QED BY <1>2, <1>3 DEF Elems

LEMMA SwapIncreasing ==
  ASSUME NEW q \in Seq(Lines), q # << >>, Increasing(q),
         NEW l \in Lines, l.kind # "command"
  PROVE  Increasing(<< l >> \o Tail(q))
BY DEF Increasing

LEMMA NoneIncreasing == Increasing(<< >>) /\ Elems(<< >>) = {} /\ << >> \in Seq(Lines)
BY DEF Increasing, Elems

\* A counter below the ceiling can be sent, and the next one saved.
LEMMA SpareCounter ==
  /\ Counter \subseteq Nat
  /\ \A n \in Counter : ~(n >= Ceiling) => n \in 1 .. (Ceiling - 1)
  /\ \A n \in 1 .. (Ceiling - 1) : n \in Counter /\ n + 1 \in Counter
  /\ \A n \in Nat : n < Ceiling /\ n >= 1 => n \in Counter /\ n + 1 \in Counter
BY DEF Counter

LEMMA LineTyped ==
  ASSUME NEW k \in { "ping", "command", "pong", "ok", "progress", "final", "noise" },
         NEW c \in Counter \cup { None }, NEW s \in Nat,
         NEW r \in Requests \cup { Stray }
  PROVE  /\ Line(k, c, s, r) \in Lines
         /\ Line(k, c, s, r).kind = k /\ Line(k, c, s, r).ctr = c
         /\ Line(k, c, s, r).seq = s /\ Line(k, c, s, r).of = r
BY DEF Line, Lines

LEMMA PlainTyped ==
  ASSUME NEW k \in { "ping", "command", "pong", "ok", "progress", "final", "noise" }
  PROVE  /\ Plain(k) \in Lines
         /\ Plain(k).kind = k /\ Plain(k).ctr = None /\ Plain(k).of = Stray
BY LineTyped DEF Plain

LEMMA PortTyped ==
  ASSUME NEW at \in HostAt
  PROVE  /\ Port(at) \in HostRecord
         /\ Port(at).pc = at /\ Port(at).req = None /\ Port(at).next = None
         /\ Port(at).ctr = None
BY DEF Port, HostRecord

-----------------------------------------------------------------------------
(* Types *)

LEMMA DoneTyped ==
  ASSUME TypeOK, host.req \in Requests,
         NEW v \in Requests \cup { Failed, Stray }, Done(v)
  PROVE  /\ answer' \in [Requests -> Requests \cup { None, Failed, Stray }]
         /\ answer'[host.req] = v
         /\ host' \in HostRecord /\ host'.pc = "idle" /\ host'.next = host.next
<1>1. /\ answer \in [Requests -> Requests \cup { None, Failed, Stray }]
      /\ host.next \in Counter \cup { None }
  BY DEF TypeOK, HostRecord
<1>2. /\ answer' = [answer EXCEPT ![host.req] = v]
      /\ host' = [Port("idle") EXCEPT !.next = host.next]
  BY DEF Done
<1>3. Port("idle") \in HostRecord /\ Port("idle").pc = "idle"
  BY PortTyped DEF HostAt
<1>4. host' \in HostRecord /\ host'.pc = "idle" /\ host'.next = host.next
  BY <1>1, <1>2, <1>3 DEF HostRecord
<1> QED BY <1>1, <1>2, <1>4

LEMMA DoneClosedTyped ==
  ASSUME TypeOK, DoneClosed
  PROVE  /\ answer' \in [Requests -> Requests \cup { None, Failed, Stray }]
         /\ host' \in HostRecord /\ host'.pc = "closed"
BY PortTyped DEF DoneClosed, TypeOK, HostAt

LEMMA BootTyped ==
  ASSUME TypeOK, Boot
  PROVE  /\ nano' \in NanoRecord /\ nano'.pc = "boot"
         /\ down' \in Seq(Lines) /\ down' \in { << >>, down }
<1>1. nano' = [pc |-> "boot", ctr |-> None, seq |-> 0, of |-> Stray]
  BY DEF Boot
<1>2. nano' \in NanoRecord /\ nano'.pc = "boot"
  BY <1>1 DEF NanoRecord
<1> QED BY <1>2, NoneIncreasing DEF Boot, TypeOK

LEMMA WorkerTypes ==
  ASSUME IInv, Worker
  PROVE  TypeOK'
<1> USE DEF IInv, TypeOK
<1>1. CASE Start
  BY <1>1, PortTyped DEF Start, line, past, HostAt
<1>2. CASE Open
  <2>1. host' \in HostRecord
    BY <1>2 DEF Open, HostRecord, HostAt
  <2> QED BY <1>2, <2>1, BootTyped, ClearedElems DEF Open, past
<1>3. CASE Ping
  <2>0. host.pings + 1 \in Nat
    BY DEF HostRecord
  <2>1. host' \in HostRecord
    BY <1>3, <2>0 DEF Ping, HostRecord, HostAt
  <2> QED BY <1>3, <2>1, PlainTyped, PutElems, ClearedElems DEF Ping, past
<1>4. CASE ReadPong
  <2>1. host' \in HostRecord
    BY <1>4 DEF ReadPong, AfterSync, Loaded, HostRecord, HostAt
  <2> QED BY <1>4, <2>1, ClearedElems DEF ReadPong, AfterSync, past
<1>5. CASE SkipLine
  BY <1>5, TailElems DEF SkipLine, past
<1>6. CASE PongTimeout
  <2>1. host' \in HostRecord
    BY <1>6 DEF PongTimeout, HostRecord, HostAt
  <2> QED BY <1>6, <2>1 DEF PongTimeout, line, past
<1>7. CASE OpenFails
  <2>1. faults' \in 0 .. MaxFaults
    BY <1>7 DEF OpenFails, Fault
  <2>2. CASE host.req = None
    BY <1>7, <2>1, <2>2, PortTyped, ClearedElems DEF OpenFails, past, HostAt, DoneClosed
  <2>3. CASE host.req # None /\ MayTryAgain
    <3>0. host.tries + 1 \in Nat
      BY DEF HostRecord
    <3>1. host' = [host EXCEPT !.pc = "open", !.tries = @ + 1, !.pings = 0]
      BY <1>7, <2>3 DEF OpenFails
    <3>2. host' \in HostRecord
      BY <3>0, <3>1 DEF HostRecord, HostAt
    <3> QED BY <1>7, <2>1, <2>3, <3>2, ClearedElems DEF OpenFails, past
  <2>4. CASE host.req # None /\ ~ MayTryAgain
    BY <1>7, <2>1, <2>4, DoneClosedTyped, ClearedElems DEF OpenFails, past
  <2> QED BY <2>2, <2>3, <2>4
<1>8. ASSUME NEW r \in Requests, Take(r) PROVE TypeOK'
  <2>1. host' \in HostRecord
    BY <1>8 DEF Take, HostRecord, HostAt
  <2> QED BY <1>8, <2>1 DEF Take, line, past
<1>9. CASE CounterExhausted
  BY <1>9, DoneTyped DEF CounterExhausted, line, past, HostInv
<1>10. CASE Persist
  <2>1. host.next \in Nat /\ host.next < Ceiling /\ host.next >= 1
    BY <1>10 DEF Persist, Exhausted, HostInv, Counter
  <2>2. host' \in HostRecord
    <3>1. host.next \in Counter /\ host.next + 1 \in Counter
      BY <2>1, SpareCounter
    <3>2. host' = [host EXCEPT !.pc = "send", !.ctr = host.next, !.next = host.next + 1]
      BY <1>10 DEF Persist
    <3> QED BY <3>1, <3>2 DEF HostRecord, HostAt
  <2>3. disk' \in Counter
    <3>1. disk' = host.next + 1
      BY <1>10 DEF Persist, NextCounter
    <3>2. host.next + 1 \in Counter
      BY <2>1, SpareCounter
    <3> QED BY <3>1, <3>2
  <2> QED BY <1>10, <2>2, <2>3 DEF Persist, line, past
<1>11. CASE SendFrame
  <2>1. host.ctr \in 1 .. (Ceiling - 1) /\ host.req \in Requests
    BY <1>11 DEF SendFrame, HostInv
  <2>2. host' \in HostRecord
    BY <1>11 DEF SendFrame, HostRecord, HostAt
  <2>3. Line("command", host.ctr, 0, host.req) \in Lines
    <3>1. host.ctr \in Counter
      BY <2>1 DEF Counter
    <3> QED BY <2>1, <3>1, LineTyped
  <2>4. sent' \subseteq 1 .. (Ceiling - 1) /\ UNCHANGED started
    BY <1>11, <2>1 DEF SendFrame
  <2> QED BY <1>11, <2>2, <2>3, <2>4, PutElems, ClearedElems DEF SendFrame
<1>12. CASE SendPlain
  <2>1. host' \in HostRecord
    BY <1>12 DEF SendPlain, HostRecord, HostAt
  <2>2. Line("command", None, 0, host.req) \in Lines
    BY <1>12, LineTyped DEF SendPlain, HostInv
  <2> QED BY <1>12, <2>1, <2>2, PutElems, ClearedElems DEF SendPlain, past
<1>13. CASE ReadProgress
  <2>0. host.seq + 1 \in Nat /\ host.seq \in Nat
    BY DEF HostRecord
  <2>1. host' \in HostRecord
    BY <1>13, <2>0 DEF ReadProgress, HostRecord
  <2>2. up # << >> /\ up' = Tail(up)
    BY <1>13 DEF ReadProgress, Reading, First
  <2> QED BY <1>13, <2>1, <2>2, TailElems DEF ReadProgress, past
<1>14. CASE ReadFinal
  <2>1. PICK l \in First(up) : Reading /\ Done(l.of)
    BY <1>14 DEF ReadFinal
  <2>2. up # << >> /\ up' = Tail(up) /\ l \in Lines /\ host.req \in Requests
    BY <2>1, TailElems DEF First, Reading, HostInv
  <2>3. l.of \in Requests \cup { Failed, Stray }
    BY <2>2 DEF Lines
  <2> QED BY <1>14, <2>1, <2>2, <2>3, DoneTyped, TailElems DEF ReadFinal, past
<1>15. CASE ReadMisfit
  <2>1. up # << >> /\ up' = Tail(up) /\ host.req \in Requests /\ Done(Failed)
    BY <1>15 DEF ReadMisfit, First, Reading, HostInv
  <2> QED BY <1>15, <2>1, DoneTyped, TailElems DEF ReadMisfit, past
<1>16. CASE ReplyTimeout
  BY <1>16, DoneTyped DEF ReplyTimeout, line, past, HostInv
<1> QED BY <1>1, <1>2, <1>3, <1>4, <1>5, <1>6, <1>7, <1>8, <1>9, <1>10, <1>11,
           <1>12, <1>13, <1>14, <1>15, <1>16 DEF Worker

LEMMA FirmwareTypes ==
  ASSUME IInv, Firmware
  PROVE  TypeOK'
<1> USE DEF IInv, TypeOK
<1>1. Idle \in NanoRecord
  BY DEF Idle, NanoRecord
<1>2. /\ nano.seq \in Nat /\ nano.ctr \in Counter \cup { None }
      /\ nano.of \in Requests \cup { Stray }
  BY DEF NanoRecord
<1>3. CASE Ready
  BY <1>1, <1>3, PlainTyped, PutElems DEF Ready, past
<1>4. CASE AnswerPing
  <2>1. down' = Tail(down) /\ down # << >>
    BY <1>4 DEF AnswerPing, Reads, First
  <2> QED BY <1>4, <2>1, TailElems, PlainTyped, PutElems DEF AnswerPing, past
<1>5. CASE Execute
  <2>1. PICK l \in First(down) :
          /\ Reads /\ l.kind = "command"
          /\ keyed => l.ctr > last /\ l.ctr < Ceiling
          /\ last' = IF keyed THEN l.ctr ELSE last
          /\ nano' = [pc |-> "run", ctr |-> l.ctr, seq |-> 0, of |-> l.of]
          /\ started' = [started EXCEPT ![l.of] = @ + 1]
    BY <1>5 DEF Execute, Accepts
  <2>2. down # << >> /\ down' = Tail(down) /\ l \in Elems(down) /\ l \in Lines
    BY <2>1, TailElems DEF First, Reads
  <2>3. l.of \in Requests /\ (keyed => l.ctr \in Counter) /\ l.ctr \in Counter \cup { None }
    BY <2>1, <2>2 DEF NanoInv, Lines
  <2>4. nano' \in NanoRecord
    BY <2>1, <2>3 DEF NanoRecord
  <2>5. last' \in 0 .. (Ceiling - 1)
    BY <2>1, <2>3 DEF Counter
  <2>6. started' \in [Requests -> Nat]
    BY <2>1, <2>3
  <2> QED BY <1>5, <2>2, <2>4, <2>5, <2>6, TailElems DEF Execute
<1>6. CASE Refuse
  <2>1. down' = Tail(down) /\ down # << >>
    BY <1>6 DEF Refuse, Reads, First
  <2> QED BY <1>6, <2>1, TailElems, PlainTyped, PutElems DEF Refuse, past
<1>7. CASE Reject
  <2>1. down' = Tail(down) /\ down # << >>
    BY <1>7 DEF Reject, Reads, First
  <2> QED BY <1>7, <2>1, TailElems, PlainTyped, PutElems DEF Reject, past
<1>8. CASE Progress
  <2>1. nano' = [nano EXCEPT !.seq = nano.seq + 1]
    BY <1>8 DEF Progress
  <2>2. nano' \in NanoRecord
    <3>1. nano.seq + 1 \in Nat /\ nano \in NanoRecord
      BY <1>2
    <3> QED BY <2>1, <3>1 DEF NanoRecord
  <2> QED BY <1>2, <1>8, <2>2, LineTyped, PutElems DEF Progress, past
<1>9. CASE Finish
  BY <1>1, <1>2, <1>9, LineTyped, PutElems DEF Finish, past
<1> QED BY <1>3, <1>4, <1>5, <1>6, <1>7, <1>8, <1>9 DEF Firmware

LEMMA DisturbanceTypes ==
  ASSUME IInv, Disturbance
  PROVE  TypeOK'
<1> USE DEF IInv, TypeOK
<1>1. faults' \in 0 .. MaxFaults
  BY DEF Disturbance, ReadPongNoState, FatalIo, Kill, LoseUp, LoseDown, NanoReset,
         PowerLoss, Fault
<1>2. CASE ReadPongNoState
  <2>1. 1 \in Counter
    BY DEF Counter
  <2>2. host' \in HostRecord
    BY <1>2, <2>1 DEF ReadPongNoState, AfterSync, HostRecord, HostAt
  <2> QED BY <1>1, <1>2, <2>2, ClearedElems DEF ReadPongNoState, AfterSync, past
<1>3. CASE FatalIo
  <2>1. CASE Retryable(host.req) /\ ~ host.retried
    <3>1. Port("open") \in HostRecord /\ host.req \in Requests
      BY <1>3, PortTyped DEF FatalIo, HostInv, HostAt
    <3>2. host' = [Port("open") EXCEPT !.req = host.req, !.retried = TRUE]
      BY <1>3, <2>1 DEF FatalIo
    <3>3. host' \in HostRecord
      BY <3>1, <3>2 DEF HostRecord
    <3> QED BY <1>1, <1>3, <2>1, <3>3, ClearedElems DEF FatalIo, past
  <2>2. CASE ~ (Retryable(host.req) /\ ~ host.retried)
    BY <1>1, <1>3, <2>2, DoneClosedTyped, ClearedElems DEF FatalIo, past
  <2> QED BY <2>1, <2>2
<1>4. CASE Kill
  BY <1>1, <1>4, PortTyped, ClearedElems DEF Kill, past, HostAt
<1>5. CASE LoseUp
  <2>1. up # << >> /\ Head(up).ctr \in Counter \cup { None }
    BY <1>5, TailElems DEF LoseUp, Lines
  <2>2. Line("noise", Head(up).ctr, 0, Stray) \in Lines
    BY <2>1, LineTyped
  <2>3. Tail(up) \in Seq(Lines)
    BY <2>1, TailElems
  <2>4. << Line("noise", Head(up).ctr, 0, Stray) >> \o Tail(up) \in Seq(Lines)
    BY <2>1, <2>2, SwapElems
  <2>5. up' \in Seq(Lines)
    BY <1>5, <2>3, <2>4 DEF LoseUp
  <2> QED BY <1>1, <1>5, <2>5 DEF LoseUp, past
<1>6. CASE LoseDown
  <2>1. Plain("noise") \in Lines
    BY PlainTyped
  <2>2. down # << >>
    BY <1>6 DEF LoseDown
  <2>3. Tail(down) \in Seq(Lines) /\ << Plain("noise") >> \o Tail(down) \in Seq(Lines)
    BY <2>1, <2>2, TailElems, SwapElems
  <2>4. down' \in Seq(Lines)
    BY <1>6, <2>3 DEF LoseDown
  <2> QED BY <1>1, <1>6, <2>4 DEF LoseDown, past
<1>7. CASE NanoReset
  BY <1>1, <1>7, BootTyped DEF NanoReset, past
<1>8. CASE PowerLoss
  <2>1. nano' \in NanoRecord
    BY <1>8 DEF PowerLoss, NanoRecord
  <2> QED BY <1>1, <1>8, <2>1, PortTyped, NoneIncreasing DEF PowerLoss, past, HostAt
<1> QED BY <1>2, <1>3, <1>4, <1>5, <1>6, <1>7, <1>8 DEF Disturbance

LEMMA ResyncTypes ==
  ASSUME IInv, Resync
  PROVE  TypeOK'
BY DEF IInv, TypeOK, Resync, line, past, Counter

LEMMA ChannelInit ==
  ASSUME Init
  PROVE  IInv
<1>1. Port("off") \in HostRecord /\ Port("off").pc = "off"
  BY PortTyped DEF HostAt
<1>2. Idle \in NanoRecord /\ Idle.pc = "idle"
  BY DEF Idle, NanoRecord
<1>3. TypeOK
  BY <1>1, <1>2, NoneIncreasing DEF Init, TypeOK, Counter
<1>4. NanoInv /\ HostInv /\ AheadInv /\ OwnInv /\ SentInv
  BY <1>1, <1>2, NoneIncreasing DEF Init, NanoInv, HostInv, AheadInv, OwnInv, SentInv
<1> QED BY <1>3, <1>4 DEF IInv

-----------------------------------------------------------------------------
(* Steps that use up no counter *)

\* The worker keeps its command, or gives it up for a state in which only the
\* counter in state.json matters.
QuietHost ==
  \/ host' = host
  \/ /\ host.pc = "wait" /\ host'.pc = "wait"
     /\ host'.req = host.req /\ host'.ctr = host.ctr /\ host'.next = host.next
  \/ /\ host'.pc \notin { "send", "wait" }
     /\ host'.pc = "exec" => host'.req \in Requests
     /\ host'.pc \in { "idle", "exec" } /\ keyed =>
          host'.next \in Counter /\ (file' # "wrong" => host'.next = disk)

QuietNano ==
  nano'.pc = "run" => nano.pc = "run" /\ nano'.ctr = nano.ctr /\ nano'.of = nano.of

\* A line may be added that is in step with the ones under way.
QuietUp ==
  \A l \in Elems(up') :
    \/ l \in Elems(up)
    \/ keyed =>
         /\ l.ctr \in Counter => l.ctr <= last
         /\ file # "wrong" /\ host.pc = "wait" /\ l.ctr = host.ctr /\ l.kind # "noise" =>
              l.of = host.req

QuietDown ==
  /\ \A l \in Elems(down') : l \in Elems(down) \/ l.kind # "command"
  /\ Increasing(down) => Increasing(down')

Quiet ==
  /\ keyed' = keyed /\ last' = last /\ sent' = sent
  /\ (file' = file /\ disk' = disk) \/ file' = "wrong"
  /\ QuietHost /\ QuietNano /\ QuietUp /\ QuietDown

Kept == NanoInv /\ HostInv /\ AheadInv /\ OwnInv /\ SentInv

LEMMA QuietKeeps ==
  ASSUME IInv, TypeOK', Quiet
  PROVE  Kept'
<1> USE DEF IInv, Quiet
<1>1. NanoInv'
  <2>1. keyed' => \A l \in Elems(up') : l.ctr \in Counter => l.ctr <= last'
    BY DEF NanoInv, QuietUp
  <2>2. \A l \in Elems(down') :
          l.kind = "command" =>
            l.of \in Requests /\ (IF keyed' THEN l.ctr \in Counter ELSE l.ctr = None)
    BY DEF NanoInv, QuietDown
  <2>3. nano'.pc = "run" =>
          nano'.of \in Requests /\ (keyed' => nano'.ctr \in Counter /\ nano'.ctr <= last')
    BY DEF NanoInv, QuietNano
  <2>4. Elems(up)' = Elems(up') /\ Elems(down)' = Elems(down')
    BY DEF Elems
  <2> QED BY <2>1, <2>2, <2>3, <2>4 DEF NanoInv, Counter
<1>2. HostInv'
  BY DEF HostInv, QuietHost, Counter
<1>3. AheadInv'
  <2>1. CASE ~ (keyed /\ file' # "wrong")
    BY <2>1 DEF AheadInv
  <2>2. CASE keyed /\ file' # "wrong"
    <3>1. /\ file' = file /\ disk' = disk /\ last' < disk' /\ Increasing(down')
          /\ \A l \in Elems(down') : l.kind = "command" => last' < l.ctr /\ l.ctr < disk'
      BY <2>2 DEF AheadInv, QuietDown
    <3>2. host'.pc \in { "idle", "exec", "send", "wait" } => host'.next = disk'
      BY <2>2, <3>1 DEF AheadInv, QuietHost
    <3>3. ASSUME host'.pc = "send"
          PROVE  /\ last' < host'.ctr /\ host'.ctr < disk'
                 /\ \A l \in Elems(down') : l.kind = "command" => l.ctr < host'.ctr
      BY <2>2, <3>1, <3>3 DEF AheadInv, QuietHost, QuietDown
    <3>4. Increasing(down)' = Increasing(down') /\ Elems(down)' = Elems(down')
      BY DEF Increasing, Elems
    <3> QED BY <2>2, <3>1, <3>2, <3>3, <3>4 DEF AheadInv
  <2> QED BY <2>1, <2>2
<1>4. OwnInv'
  <2>1. CASE ~ (keyed /\ file' # "wrong" /\ host'.pc = "wait")
    BY <2>1 DEF OwnInv
  <2>2. CASE keyed /\ file' # "wrong" /\ host'.pc = "wait"
    <3>1. file' = file /\ disk' = disk
      BY <2>2
    <3>2. host.pc = "wait" /\ host'.ctr = host.ctr /\ host'.req = host.req
      BY <2>2 DEF QuietHost
    <3>3. \A l \in Elems(up') : l.ctr = host.ctr /\ l.kind # "noise" => l.of = host.req
      BY <2>2, <3>1, <3>2 DEF OwnInv, QuietUp
    <3>4. \A l \in Elems(down') : l.kind = "command" /\ l.ctr = host.ctr => l.of = host.req
      BY <2>2, <3>1, <3>2 DEF OwnInv, QuietDown
    <3>5. nano'.pc = "run" /\ nano'.ctr = host.ctr => nano'.of = host.req
      BY <2>2, <3>1, <3>2 DEF OwnInv, QuietNano
    <3>6. Elems(up)' = Elems(up') /\ Elems(down)' = Elems(down')
      BY DEF Elems
    <3> QED BY <2>2, <3>1, <3>2, <3>3, <3>4, <3>5, <3>6 DEF OwnInv
  <2> QED BY <2>1, <2>2
<1>5. SentInv'
  BY DEF SentInv, QuietHost
<1> QED BY <1>1, <1>2, <1>3, <1>4, <1>5 DEF Kept

\* The parts of Quiet that a step may leave untouched.
LEMMA SameIsQuiet ==
  /\ host' = host => QuietHost
  /\ nano' = nano => QuietNano
  /\ up' = up => QuietUp
  /\ down' = down => QuietDown
BY DEF QuietHost, QuietNano, QuietUp, QuietDown, Elems, Increasing

LEMMA ClearedIsQuiet ==
  ASSUME TypeOK, up' \in Cleared
  PROVE  QuietUp
BY ClearedElems DEF TypeOK, QuietUp

LEMMA BootIsQuiet ==
  ASSUME TypeOK, Boot
  PROVE  QuietNano /\ QuietDown
BY BootTyped, NoneIncreasing, SameIsQuiet DEF QuietNano, QuietDown

LEMMA PlainIsQuiet ==
  ASSUME IInv,
         NEW k \in { "ping", "pong", "ok", "noise" }
  PROVE  /\ up' = Put(up, Plain(k)) => QuietUp
         /\ down' = Put(down, Plain(k)) => QuietDown
<1>1. /\ Plain(k) \in Lines /\ Plain(k).kind # "command"
      /\ Plain(k).ctr = None /\ Plain(k).ctr \notin Counter
  BY PlainTyped DEF Counter
<1>2. ASSUME up' = Put(up, Plain(k)) PROVE QuietUp
  <2>1. \A l \in Elems(up') : l \in Elems(up) \/ l = Plain(k)
    BY <1>1, <1>2, PutElems DEF IInv, TypeOK
  <2>2. keyed /\ file # "wrong" /\ host.pc = "wait" => Plain(k).ctr # host.ctr
    BY <1>1 DEF IInv, HostInv, Counter
  <2> QED BY <1>1, <2>1, <2>2 DEF QuietUp
<1>3. ASSUME down' = Put(down, Plain(k)) PROVE QuietDown
  <2>1. down \in Seq(Lines)
    BY DEF IInv, TypeOK
  <2>2. Elems(Put(down, Plain(k))) \subseteq Elems(down) \cup { Plain(k) }
    BY <1>1, <2>1, PutElems
  <2>3. Increasing(down) => Increasing(Put(down, Plain(k)))
    BY <1>1, <2>1, PutIncreasing
  <2> QED BY <1>1, <1>3, <2>2, <2>3 DEF QuietDown
<1> QED BY <1>2, <1>3

LEMMA TailIsQuiet ==
  ASSUME TypeOK
  PROVE  /\ up # << >> /\ up' = Tail(up) => QuietUp
         /\ down # << >> /\ down' = Tail(down) => QuietDown
<1>1. up # << >> /\ up' = Tail(up) => QuietUp
  BY TailElems DEF TypeOK, QuietUp
<1>2. down # << >> /\ down' = Tail(down) => QuietDown
  BY TailElems, TailIncreasing DEF TypeOK, QuietDown
<1> QED BY <1>1, <1>2

LEMMA LeaveIsQuiet ==
  ASSUME host' \in HostRecord, host'.pc \in { "off", "closed", "open", "ping", "pong" }
  PROVE  QuietHost
BY DEF QuietHost

LEMMA DoneIsQuiet ==
  ASSUME IInv, host.pc \in { "exec", "send", "wait" }, UNCHANGED << file, disk >>,
         NEW v \in Requests \cup { Failed, Stray }, Done(v)
  PROVE  QuietHost
<1>1. host'.pc = "idle" /\ host'.next = host.next
  BY DoneTyped DEF IInv, HostInv
<1>2. keyed => host.next \in Counter /\ (file # "wrong" => host.next = disk)
  BY DEF IInv, HostInv, AheadInv
<1> QED BY <1>1, <1>2 DEF QuietHost

LEMMA DoneClosedIsQuiet == ASSUME TypeOK, DoneClosed PROVE QuietHost
BY DoneClosedTyped, LeaveIsQuiet

LEMMA QuietWorker ==
  ASSUME IInv, TypeOK',
         \/ Start \/ Open \/ Ping \/ ReadPong \/ SkipLine \/ PongTimeout \/ OpenFails
         \/ (\E r \in Requests : Take(r)) \/ CounterExhausted
         \/ ReadProgress \/ ReadFinal \/ ReadMisfit \/ ReplyTimeout
  PROVE  Quiet
<1> USE DEF IInv
<1>0. /\ host \in HostRecord /\ host' \in HostRecord /\ disk \in Counter
      /\ host.req \in Requests \cup { None }
  BY DEF TypeOK, HostRecord
<1>1. CASE Start
  <2>1. host'.pc = "open"
    BY <1>1, PortTyped DEF Start, HostAt
  <2>2. QuietHost
    BY <1>0, <2>1, LeaveIsQuiet
  <2> QED BY <1>1, <2>2, SameIsQuiet DEF Start, line, past, Quiet
<1>2. CASE Open
  <2>1. QuietHost
    BY <1>0, <1>2, LeaveIsQuiet DEF Open, HostRecord
  <2> QED BY <1>2, <2>1, SameIsQuiet, BootIsQuiet, ClearedIsQuiet DEF Open, past, Quiet
<1>3. CASE Ping
  <2>1. QuietHost
    BY <1>0, <1>3, LeaveIsQuiet DEF Ping, HostRecord
  <2>2. QuietDown /\ QuietUp
    BY <1>3, PlainIsQuiet, ClearedIsQuiet DEF Ping
  <2> QED BY <1>3, <2>1, <2>2, SameIsQuiet DEF Ping, past, Quiet
<1>4. CASE ReadPong
  <2>1. host' = [host EXCEPT !.pc = IF host.req = None THEN "idle" ELSE "exec",
                             !.next = IF keyed THEN disk ELSE None]
    BY <1>4 DEF ReadPong, AfterSync, Loaded
  <2>2. QuietHost
    BY <1>0, <2>1 DEF QuietHost, HostRecord
  <2> QED BY <1>4, <2>2, SameIsQuiet, ClearedIsQuiet
          DEF ReadPong, AfterSync, past, Quiet
<1>5. CASE SkipLine
  BY <1>5, TailIsQuiet, SameIsQuiet DEF SkipLine, past, Quiet
<1>6. CASE PongTimeout
  <2>1. QuietHost
    BY <1>0, <1>6, LeaveIsQuiet DEF PongTimeout, HostRecord
  <2> QED BY <1>6, <2>1, SameIsQuiet DEF PongTimeout, line, past, Quiet
<1>7. CASE OpenFails
  <2>1. host'.pc \in { "off", "open", "closed" }
    BY <1>0, <1>7, PortTyped, DoneClosedTyped DEF OpenFails, HostRecord, HostAt
  <2>2. QuietHost
    BY <1>0, <2>1, LeaveIsQuiet
  <2> QED BY <1>7, <2>2, SameIsQuiet, ClearedIsQuiet DEF OpenFails, past, Quiet
<1>8. ASSUME NEW r \in Requests, Take(r) PROVE Quiet
  <2>1. /\ host'.pc \in { "exec", "open" } /\ host'.req = r /\ host'.next = host.next
        /\ host'.pc = "exec" => host.pc = "idle"
    BY <1>0, <1>8 DEF Take, HostRecord
  <2>2. host.pc = "idle" /\ keyed =>
          host.next \in Counter /\ (file # "wrong" => host.next = disk)
    BY DEF HostInv, AheadInv
  <2>3. QuietHost
    BY <1>8, <2>1, <2>2 DEF QuietHost, Take
  <2> QED BY <1>8, <2>3, SameIsQuiet DEF Take, line, past, Quiet
<1>9. CASE CounterExhausted
  BY <1>9, DoneIsQuiet, SameIsQuiet DEF CounterExhausted, line, past, Quiet
<1>10. CASE ReadProgress
  <2>1. up # << >> /\ up' = Tail(up) /\ host.pc = "wait"
    BY <1>10 DEF ReadProgress, Reading, First
  <2>2. QuietHost
    BY <1>0, <1>10, <2>1 DEF ReadProgress, QuietHost, HostRecord
  <2> QED BY <1>10, <2>1, <2>2, TailIsQuiet, SameIsQuiet DEF ReadProgress, past, Quiet
<1>11. CASE ReadFinal
  <2>1. PICK l \in First(up) : Reading /\ Done(l.of)
    BY <1>11 DEF ReadFinal
  <2>2. up # << >> /\ up' = Tail(up) /\ l \in Lines /\ host.pc = "wait"
    BY <2>1, TailElems DEF First, Reading, TypeOK
  <2>3. l.of \in Requests \cup { Failed, Stray } /\ UNCHANGED << file, disk >>
    BY <1>11, <2>2 DEF Lines, ReadFinal
  <2>4. QuietHost
    BY <2>1, <2>2, <2>3, DoneIsQuiet
  <2> QED BY <1>11, <2>2, <2>4, TailIsQuiet, SameIsQuiet DEF ReadFinal, past, Quiet
<1>12. CASE ReadMisfit
  <2>1. /\ up # << >> /\ up' = Tail(up) /\ host.pc = "wait" /\ Done(Failed)
        /\ UNCHANGED << file, disk >>
    BY <1>12 DEF ReadMisfit, First, Reading
  <2>2. QuietHost
    BY <2>1, DoneIsQuiet
  <2> QED BY <1>12, <2>1, <2>2, TailIsQuiet, SameIsQuiet DEF ReadMisfit, past, Quiet
<1>13. CASE ReplyTimeout
  BY <1>13, DoneIsQuiet, SameIsQuiet DEF ReplyTimeout, line, past, Quiet
<1> QED BY <1>1, <1>2, <1>3, <1>4, <1>5, <1>6, <1>7, <1>8, <1>9, <1>10, <1>11,
           <1>12, <1>13

LEMMA QuietFirmware ==
  ASSUME IInv, TypeOK',
         Ready \/ AnswerPing \/ Refuse \/ Reject \/ Progress \/ Finish
  PROVE  Quiet
<1> USE DEF IInv
<1>1. Idle.pc = "idle"
  BY DEF Idle
<1>2. CASE Ready
  <2>1. QuietNano
    BY <1>1, <1>2 DEF Ready, QuietNano
  <2> QED BY <1>2, <2>1, PlainIsQuiet, SameIsQuiet DEF Ready, past, Quiet
<1>3. ASSUME down # << >>, down' = Tail(down), nano' = nano, host' = host,
             up' = Put(up, Plain("pong")) \/ up' = Put(up, Plain("ok")),
             UNCHANGED << keyed, disk, file, last, sent >>
      PROVE  Quiet
  BY <1>3, TailIsQuiet, PlainIsQuiet, SameIsQuiet DEF Quiet
<1>4. CASE AnswerPing
  BY <1>3, <1>4 DEF AnswerPing, Reads, First, past
<1>5. CASE Refuse
  BY <1>3, <1>5 DEF Refuse, Reads, First, past
<1>6. CASE Reject
  BY <1>3, <1>6 DEF Reject, Reads, First, past
<1>7. ASSUME nano.pc = "run", NEW k \in { "progress", "final" }, NEW s \in Nat,
             up' = Put(up, Line(k, nano.ctr, s, nano.of))
      PROVE  QuietUp
  <2>1. /\ nano.ctr \in Counter \cup { None } /\ nano.of \in Requests \cup { Stray }
        /\ up \in Seq(Lines)
    BY DEF TypeOK, NanoRecord
  <2> DEFINE l == Line(k, nano.ctr, s, nano.of)
  <2>2. k \in { "ping", "command", "pong", "ok", "progress", "final", "noise" }
    BY <1>7
  <2>3. l \in Lines /\ l.ctr = nano.ctr /\ l.of = nano.of
    BY <1>7, <2>1, <2>2, LineTyped
  <2>4. Elems(up') \subseteq Elems(up) \cup { l }
    BY <1>7, <2>1, <2>3, PutElems
  <2>5. keyed => /\ nano.ctr <= last
                 /\ file # "wrong" /\ host.pc = "wait" /\ nano.ctr = host.ctr =>
                      nano.of = host.req
    BY <1>7 DEF NanoInv, OwnInv
  <2> QED BY <2>3, <2>4, <2>5 DEF QuietUp
<1>8. nano.seq \in Nat
  BY DEF TypeOK, NanoRecord
<1>9. CASE Progress
  <2>1. QuietNano
    BY <1>9 DEF Progress, QuietNano, TypeOK, NanoRecord
  <2>2. QuietUp
    BY <1>7, <1>8, <1>9 DEF Progress
  <2> QED BY <1>9, <2>1, <2>2, SameIsQuiet DEF Progress, past, Quiet
<1>10. CASE Finish
  <2>1. QuietNano
    BY <1>1, <1>10 DEF Finish, QuietNano
  <2>2. QuietUp
    BY <1>7, <1>8, <1>10 DEF Finish
  <2> QED BY <1>10, <2>1, <2>2, SameIsQuiet DEF Finish, past, Quiet
<1> QED BY <1>2, <1>4, <1>5, <1>6, <1>9, <1>10

LEMMA QuietDisturbance ==
  ASSUME IInv, TypeOK', Disturbance
  PROVE  Quiet
<1> USE DEF IInv
<1>0. /\ host \in HostRecord /\ host' \in HostRecord /\ disk \in Counter
      /\ up \in Seq(Lines) /\ down \in Seq(Lines)
      /\ host.req \in Requests \cup { None }
  BY DEF TypeOK, HostRecord
<1>1. CASE ReadPongNoState
  <2>1. host' = [host EXCEPT !.pc = IF host.req = None THEN "idle" ELSE "exec",
                             !.next = 1]
    BY <1>1 DEF ReadPongNoState, AfterSync
  <2>2. 1 \in Counter /\ (file' # "wrong" => disk = 1)
    BY <1>1 DEF ReadPongNoState, Counter
  <2>3. QuietHost
    BY <1>0, <2>1, <2>2 DEF QuietHost, HostRecord
  <2> QED BY <1>1, <2>3, SameIsQuiet, ClearedIsQuiet
          DEF ReadPongNoState, AfterSync, past, Quiet
<1>2. CASE FatalIo
  <2>1. host'.pc \in { "open", "closed" }
    <3>1. CASE Retryable(host.req) /\ ~ host.retried
      <4>1. Port("open") \in HostRecord /\ Port("open").pc = "open"
        BY PortTyped DEF HostAt
      <4> QED BY <1>2, <3>1, <4>1 DEF FatalIo, HostRecord
    <3>2. CASE ~ (Retryable(host.req) /\ ~ host.retried)
      BY <1>2, <3>2, DoneClosedTyped DEF FatalIo
    <3> QED BY <3>1, <3>2
  <2>2. QuietHost
    BY <1>0, <2>1, LeaveIsQuiet
  <2> QED BY <1>2, <2>2, SameIsQuiet, ClearedIsQuiet DEF FatalIo, past, Quiet
<1>3. CASE Kill
  <2>1. host'.pc = "off"
    BY <1>3, PortTyped DEF Kill, HostAt
  <2>2. QuietHost
    BY <1>0, <2>1, LeaveIsQuiet
  <2> QED BY <1>3, <2>2, SameIsQuiet, ClearedIsQuiet DEF Kill, past, Quiet
<1>4. CASE LoseUp
  <2>1. up # << >> /\ Head(up) \in Lines /\ Head(up) \in Elems(up)
    BY <1>0, <1>4, TailElems DEF LoseUp
  <2> DEFINE l == Line("noise", Head(up).ctr, 0, Stray)
  <2>2. Head(up).ctr \in Counter \cup { None }
    BY <2>1 DEF Lines
  <2>3. l \in Lines /\ l.kind = "noise" /\ l.ctr = Head(up).ctr
    BY <2>2 DEF Line, Lines
  <2>4. keyed /\ l.ctr \in Counter => l.ctr <= last
    BY <2>1, <2>3 DEF NanoInv
  <2>5. Elems(<< l >> \o Tail(up)) \subseteq Elems(up) \cup { l }
    BY <1>0, <2>1, <2>3, SwapElems
  <2>6. up' = << l >> \o Tail(up) => QuietUp
    BY <2>3, <2>4, <2>5 DEF QuietUp
  <2>7. QuietUp
    BY <1>4, <2>1, <2>6, TailIsQuiet DEF LoseUp
  <2> QED BY <1>4, <2>7, SameIsQuiet DEF LoseUp, past, Quiet
<1>5. CASE LoseDown
  <2>1. down # << >> /\ Plain("noise") \in Lines /\ Plain("noise").kind = "noise"
    BY <1>5, PlainTyped DEF LoseDown
  <2>2. /\ Elems(<< Plain("noise") >> \o Tail(down)) \subseteq Elems(down) \cup { Plain("noise") }
        /\ Increasing(down) => Increasing(<< Plain("noise") >> \o Tail(down))
    BY <1>0, <2>1, SwapElems, SwapIncreasing
  <2>3. down' = << Plain("noise") >> \o Tail(down) => QuietDown
    BY <2>1, <2>2 DEF QuietDown
  <2>4. QuietDown
    BY <1>5, <2>1, <2>3, TailIsQuiet DEF LoseDown
  <2> QED BY <1>5, <2>4, SameIsQuiet DEF LoseDown, past, Quiet
<1>6. CASE NanoReset
  BY <1>6, BootIsQuiet, SameIsQuiet DEF NanoReset, past, Quiet
<1>7. CASE PowerLoss
  <2>1. host'.pc = "off" /\ nano'.pc = "boot" /\ up' = << >> /\ down' = << >>
    BY <1>7, PortTyped DEF PowerLoss, HostAt
  <2>2. QuietHost
    BY <1>0, <2>1, LeaveIsQuiet
  <2>3. QuietNano /\ QuietUp /\ QuietDown
    BY <2>1, NoneIncreasing DEF QuietNano, QuietUp, QuietDown
  <2> QED BY <1>7, <2>2, <2>3 DEF PowerLoss, past, Quiet
<1> QED BY <1>1, <1>2, <1>3, <1>4, <1>5, <1>6, <1>7 DEF Disturbance

-----------------------------------------------------------------------------
(* Steps that use up a counter, or set it *)

LEMMA PersistKeeps ==
  ASSUME IInv, TypeOK', Persist
  PROVE  Kept'
<1> USE DEF IInv
<1>1. /\ keyed /\ host.pc = "exec" /\ host.next \in 1 .. (Ceiling - 1)
      /\ host \in HostRecord /\ host.req \in Requests
      /\ disk' = host.next + 1 /\ disk \in Nat
  <2>1. keyed /\ host.pc = "exec" /\ ~ Exhausted(host.next) /\ disk' = host.next + 1
    BY DEF Persist, NextCounter
  <2>2. host.next \in Counter /\ host.req \in Requests
    BY <2>1 DEF HostInv
  <2>3. host.next \in 1 .. (Ceiling - 1)
    BY <2>1, <2>2, SpareCounter DEF Exhausted
  <2>4. host \in HostRecord /\ disk \in Nat
    BY SpareCounter DEF TypeOK
  <2> QED BY <2>1, <2>2, <2>3, <2>4
<1>2. host' = [host EXCEPT !.pc = "send", !.ctr = host.next, !.next = host.next + 1]
  BY DEF Persist
<1>3. /\ host'.pc = "send" /\ host'.ctr = host.next /\ host'.next = host.next + 1
      /\ host'.req = host.req
  BY <1>1, <1>2 DEF HostRecord
<1>4. UNCHANGED << keyed, file, up, down, nano, last, sent >>
  BY DEF Persist, line, past
<1>5. NanoInv'
  BY <1>4 DEF NanoInv, Elems
<1>6. HostInv'
  BY <1>1, <1>3, <1>4 DEF HostInv, Counter
<1>7. AheadInv'
  <2>1. file # "wrong" => host.next = disk
    BY <1>1 DEF AheadInv
  <2>2. Increasing(down)' = Increasing(down) /\ Elems(down)' = Elems(down)
    BY <1>4 DEF Increasing, Elems
  <2>3. \A l \in Elems(down) : l.kind = "command" => l.ctr \in Nat
    BY <1>1 DEF NanoInv, Counter
  <2>4. last \in Nat
    BY DEF TypeOK
  <2>5. ASSUME file # "wrong"
        PROVE  /\ last < disk' /\ last < host'.ctr /\ host'.ctr < disk' /\ host'.next = disk'
               /\ \A l \in Elems(down) :
                    l.kind = "command" => last < l.ctr /\ l.ctr < disk' /\ l.ctr < host'.ctr
    BY <1>1, <1>3, <2>1, <2>3, <2>4, <2>5 DEF AheadInv
  <2>6. file # "wrong" => Increasing(down)
    BY <1>1 DEF AheadInv
  <2> QED BY <1>3, <1>4, <2>2, <2>5, <2>6 DEF AheadInv
<1>8. OwnInv'
  BY <1>3 DEF OwnInv
<1>9. SentInv'
  <2>1. file = "intact" => host.next = disk
    BY <1>1 DEF AheadInv
  <2>2. \A c \in sent : c \in Nat
    BY DEF TypeOK
  <2> QED BY <1>1, <1>3, <1>4, <2>1, <2>2 DEF SentInv
<1> QED BY <1>5, <1>6, <1>7, <1>8, <1>9 DEF Kept

LEMMA SendFrameKeeps ==
  ASSUME IInv, TypeOK', SendFrame
  PROVE  Kept'
<1> USE DEF IInv
<1> DEFINE m == Line("command", host.ctr, 0, host.req)
<1>1. /\ keyed /\ host.pc = "send" /\ host.ctr \in 1 .. (Ceiling - 1)
      /\ host.req \in Requests /\ host.next \in Counter /\ host \in HostRecord
      /\ up \in Seq(Lines) /\ down \in Seq(Lines) /\ last \in Nat
  BY DEF SendFrame, HostInv, TypeOK
<1>2. host' = [host EXCEPT !.pc = "wait", !.seq = 0]
  BY DEF SendFrame
<1>3. /\ host'.pc = "wait" /\ host'.ctr = host.ctr /\ host'.next = host.next
      /\ host'.req = host.req
  BY <1>1, <1>2 DEF HostRecord
<1>4. /\ UNCHANGED << keyed, disk, file, nano, last >>
      /\ down' = Put(down, m) /\ up' \in Cleared /\ sent' = sent \cup { host.ctr }
  BY DEF SendFrame
<1>5. m \in Lines /\ m.kind = "command" /\ m.ctr = host.ctr /\ m.of = host.req
  <2>1. host.ctr \in Counter \cup { None } /\ host.req \in Requests \cup { Stray }
    BY <1>1 DEF Counter
  <2> QED BY <2>1 DEF Line, Lines
<1>6. /\ Elems(up') \subseteq Elems(up) /\ Elems(up)' = Elems(up')
      /\ Elems(down') \subseteq Elems(down) \cup { m } /\ Elems(down)' = Elems(down')
      /\ Increasing(down)' = Increasing(down')
  <2>1. Elems(up)' = Elems(up') /\ Elems(down)' = Elems(down')
        /\ Increasing(down)' = Increasing(down')
    BY DEF Elems, Increasing
  <2> QED BY <1>1, <1>4, <1>5, <2>1, PutElems, ClearedElems
<1>7. NanoInv'
  BY <1>1, <1>4, <1>5, <1>6 DEF NanoInv, Counter
<1>8. HostInv'
  BY <1>1, <1>3, <1>4 DEF HostInv
<1>9. AheadInv'
  <2>1. CASE file = "wrong"
    BY <1>4, <2>1 DEF AheadInv
  <2>2. CASE file # "wrong"
    <3>1. /\ last < disk /\ Increasing(down) /\ host.next = disk
          /\ last < host.ctr /\ host.ctr < disk
          /\ \A l \in Elems(down) :
               l.kind = "command" => last < l.ctr /\ l.ctr < disk /\ l.ctr < host.ctr
      BY <1>1, <2>2 DEF AheadInv
    <3>2. Increasing(down')
      BY <1>1, <1>4, <1>5, <3>1, PutIncreasing
    <3> QED BY <1>3, <1>4, <1>5, <1>6, <3>1, <3>2 DEF AheadInv
  <2> QED BY <2>1, <2>2
<1>10. OwnInv'
  <2>1. ASSUME file # "wrong"
        PROVE  /\ host.ctr < disk
               /\ \A l \in Elems(up') : l.ctr # host.ctr
               /\ \A l \in Elems(down) : l.kind = "command" => l.ctr # host.ctr
               /\ nano.pc = "run" => nano.ctr # host.ctr
    <3>1. /\ last < host.ctr /\ host.ctr < disk
          /\ \A l \in Elems(down) : l.kind = "command" => l.ctr < host.ctr
      BY <1>1, <2>1 DEF AheadInv
    <3>2. \A l \in Elems(up') : l.ctr \in Counter => l.ctr <= last
      BY <1>1, <1>6 DEF NanoInv
    <3>3. host.ctr \in Counter
      BY <1>1 DEF Counter
    <3>4. \A l \in Elems(up') : l.ctr # host.ctr
      BY <1>1, <3>1, <3>2, <3>3
    <3>5. \A l \in Elems(down) : l.kind = "command" => l.ctr # host.ctr
      BY <1>1, <3>1
    <3>6. nano.pc = "run" => nano.ctr # host.ctr
      BY <1>1, <3>1 DEF NanoInv
    <3> QED BY <3>1, <3>4, <3>5, <3>6
  <2> QED BY <1>3, <1>4, <1>5, <1>6, <2>1 DEF OwnInv
<1>11. SentInv'
  BY <1>1, <1>3, <1>4 DEF SentInv, AheadInv
<1> QED BY <1>7, <1>8, <1>9, <1>10, <1>11 DEF Kept

LEMMA SendPlainKeeps ==
  ASSUME IInv, TypeOK', SendPlain
  PROVE  Kept'
<1> USE DEF IInv
<1> DEFINE m == Line("command", None, 0, host.req)
<1>1. /\ ~ keyed /\ keyed' = keyed /\ host.req \in Requests /\ nano' = nano
      /\ host \in HostRecord /\ down \in Seq(Lines) /\ down' = Put(down, m)
  BY DEF SendPlain, HostInv, TypeOK
<1>2. host'.pc = "wait" /\ host'.req = host.req
  BY <1>1 DEF SendPlain, HostRecord
<1>3. m \in Lines /\ m.of = host.req /\ m.ctr = None
  BY <1>1 DEF Line, Lines
<1>4. Elems(down') \subseteq Elems(down) \cup { m }
  BY <1>1, <1>3, PutElems
<1>5. Elems(down)' = Elems(down')
  BY DEF Elems
<1>6. NanoInv'
  BY <1>1, <1>3, <1>4, <1>5 DEF NanoInv
<1> QED BY <1>1, <1>2, <1>6 DEF Kept, HostInv, AheadInv, OwnInv, SentInv

LEMMA ExecuteKeeps ==
  ASSUME IInv, TypeOK', Execute
  PROVE  Kept'
<1> USE DEF IInv
<1>1. PICK l \in First(down) :
        /\ Reads /\ l.kind = "command"
        /\ keyed => l.ctr > last /\ l.ctr < Ceiling
        /\ last' = IF keyed THEN l.ctr ELSE last
        /\ nano' = [pc |-> "run", ctr |-> l.ctr, seq |-> 0, of |-> l.of]
  BY DEF Execute, Accepts
<1>2. /\ UNCHANGED << keyed, disk, file, host, up, sent >>
      /\ down # << >> /\ l = Head(down) /\ down' = Tail(down)
      /\ down \in Seq(Lines) /\ last \in Nat
  BY <1>1 DEF Execute, First, Reads, TypeOK
<1>3. /\ l \in Elems(down) /\ Elems(down') \subseteq Elems(down)
      /\ nano'.pc = "run" /\ nano'.ctr = l.ctr /\ nano'.of = l.of
  BY <1>1, <1>2, TailElems
<1>4. l.of \in Requests /\ (keyed => l.ctr \in Counter)
  BY <1>1, <1>3 DEF NanoInv
<1>5. /\ Elems(down)' = Elems(down') /\ Elems(up)' = Elems(up)
      /\ Increasing(down)' = Increasing(down')
  BY <1>2 DEF Elems, Increasing
<1>6. NanoInv'
  <2>1. keyed => \A m \in Elems(up) : m.ctr \in Counter => m.ctr <= last'
    BY <1>1, <1>2, <1>4 DEF NanoInv, Counter
  <2>2. keyed => l.ctr <= last'
    BY <1>1, <1>4 DEF Counter
  <2> QED BY <1>2, <1>3, <1>4, <1>5, <2>1, <2>2 DEF NanoInv
<1>7. HostInv'
  BY <1>2 DEF HostInv
<1>8. AheadInv'
  <2>1. CASE ~ (keyed /\ file # "wrong")
    BY <1>2, <2>1 DEF AheadInv
  <2>2. CASE keyed /\ file # "wrong"
    <3>1. last' = l.ctr /\ l.ctr < disk /\ Increasing(down)
      BY <1>1, <1>3, <2>2 DEF AheadInv
    <3>2. /\ Increasing(down')
          /\ \A m \in Elems(down') : m.kind = "command" => l.ctr < m.ctr
      BY <1>1, <1>2, <3>1, TailIncreasing
    <3>3. host.pc = "send" => l.ctr < host.ctr
      BY <1>1, <1>3, <2>2 DEF AheadInv
    <3> QED BY <1>2, <1>3, <1>5, <2>2, <3>1, <3>2, <3>3 DEF AheadInv
  <2> QED BY <2>1, <2>2
<1>9. OwnInv'
  <2>1. keyed /\ file # "wrong" /\ host.pc = "wait" /\ l.ctr = host.ctr => l.of = host.req
    BY <1>1, <1>3 DEF OwnInv
  <2> QED BY <1>2, <1>3, <1>5, <2>1 DEF OwnInv
<1>10. SentInv'
  BY <1>2 DEF SentInv
<1> QED BY <1>6, <1>7, <1>8, <1>9, <1>10 DEF Kept

LEMMA ResyncKeeps ==
  ASSUME IInv, TypeOK', Resync
  PROVE  Kept'
<1> USE DEF IInv
<1>1. /\ host.pc = "off" /\ keyed /\ down = << >> /\ last \in Nat
      /\ disk' = last + 1 /\ file' = "resynced"
      /\ UNCHANGED << keyed, host, up, down, nano, last >>
  BY DEF Resync, line, TypeOK
<1>2. /\ Elems(down)' = {} /\ Elems(up)' = Elems(up) /\ Increasing(down)'
  BY <1>1, NoneIncreasing DEF Elems, Increasing
<1>3. NanoInv'
  BY <1>1, <1>2 DEF NanoInv
<1> QED BY <1>1, <1>2, <1>3 DEF Kept, HostInv, AheadInv, OwnInv, SentInv

LEMMA ChannelStep ==
  ASSUME IInv, [Next]_vars
  PROVE  IInv'
<1>1. CASE Next
  <2>1. TypeOK'
    BY <1>1, WorkerTypes, FirmwareTypes, DisturbanceTypes, ResyncTypes DEF Next
  <2>2. Quiet \/ Kept'
    BY <1>1, <2>1, QuietWorker, QuietFirmware, QuietDisturbance, PersistKeeps,
       SendFrameKeeps, SendPlainKeeps, ExecuteKeeps, ResyncKeeps
       DEF Next, Worker, Firmware
  <2> QED BY <2>1, <2>2, QuietKeeps DEF IInv, Kept
<1>2. CASE UNCHANGED vars
  <2>1. UNCHANGED << keyed, disk, lost, file, host, answer, down, up, nano, last, sent,
                     started, faults >>
    BY <1>2 DEF vars, line, past
  <2>2. TypeOK'
    BY <2>1 DEF IInv, TypeOK
  <2>3. Quiet
    BY <2>1, SameIsQuiet DEF Quiet
  <2> QED BY <2>2, <2>3, QuietKeeps DEF IInv, Kept
<1> QED BY <1>1, <1>2

-----------------------------------------------------------------------------
(* Theorems *)

\* The two ends stay in step: what the host will send next is above what the
\* firmware has seen and what is still under way (sensor.rs advance_counter against
\* the check of process_line), and a frame that bears the counter of the command in
\* hand belongs to it.
THEOREM ChannelInvariance == Spec => []IInv
<1> QED BY ChannelInit, ChannelStep, PTL DEF Spec

\* The records of worker and firmware keep their shape, and every counter that is
\* saved, sent or stored stays below COUNTER_CEILING as advance_counter and
\* process_line intend.
THEOREM ChannelTypes == Spec => []TypeOK
<1>1. IInv => TypeOK
  BY DEF IInv
<1> QED BY <1>1, ChannelInvariance, PTL

\* process_line refuses no command of execute_framed for its counter, unless
\* state.json lost its own.
THEOREM ChannelAccepts == Spec => FramesAccepted
<1>1. ASSUME IInv, Refuse PROVE file = "wrong"
  <2>1. PICK l \in First(down) : l.kind = "command" /\ ~ (l.ctr > last /\ l.ctr < Ceiling)
    BY <1>1 DEF Refuse, Accepts
  <2>2. keyed /\ l \in Elems(down) /\ disk \in Counter
    BY <1>1, <2>1, TailElems DEF First, Refuse, IInv, TypeOK
  <2>3. l.ctr \in Counter
    BY <1>1, <2>1, <2>2 DEF IInv, NanoInv
  <2>4. file # "wrong" => last < l.ctr /\ l.ctr < disk
    BY <1>1, <2>1, <2>2 DEF IInv, AheadInv
  <2> QED BY <1>1, <2>1, <2>2, <2>3, <2>4 DEF IInv, TypeOK, Counter
<1>2. IInv /\ [Next]_vars => [Refuse => file = "wrong"]_vars
  BY <1>1
<1> QED BY <1>2, ChannelInvariance, PTL DEF Spec, FramesAccepted

\* execute_framed never sends a counter that went out before.
THEOREM ChannelFresh == Spec => CountersFresh
<1>1. ASSUME IInv, SendFrame, file = "intact" PROVE host.ctr \notin sent
  <2>1. keyed /\ host.pc = "send" /\ host.ctr \in Nat
    BY <1>1 DEF SendFrame, IInv, HostInv
  <2> QED BY <1>1, <2>1 DEF IInv, SentInv, TypeOK
<1>2. IInv /\ [Next]_vars => [SendFrame /\ file = "intact" => host.ctr \notin sent]_vars
  BY <1>1
<1> QED BY <1>2, ChannelInvariance, PTL DEF Spec, CountersFresh

\* The frame that framed_body accepts as the answer to a command is that command's.
THEOREM ChannelReplies == Spec => ReplyIsOwn
<1>1. ASSUME IInv, ReadFinal, keyed, file # "wrong"
      PROVE  answer'[host.req] = host.req
  <2>1. PICK l \in First(up) :
          Reading /\ Fits(l) /\ l.kind = "final" /\ Done(l.of)
    BY <1>1 DEF ReadFinal
  <2>2. /\ host.pc = "wait" /\ host.req \in Requests /\ l \in Elems(up) /\ l \in Lines
        /\ l.ctr = host.ctr /\ l.kind # "noise"
    BY <1>1, <2>1, TailElems DEF Reading, First, Fits, IInv, HostInv, TypeOK
  <2>3. l.of = host.req
    BY <1>1, <2>2 DEF IInv, OwnInv
  <2> QED BY <1>1, <2>1, <2>2, <2>3, DoneTyped DEF IInv
<1>2. IInv /\ [Next]_vars =>
        [ReadFinal /\ keyed /\ file # "wrong" => answer'[host.req] = host.req]_vars
  BY <1>1
<1> QED BY <1>2, ChannelInvariance, PTL DEF Spec, ReplyIsOwn

\* The firmware of this module, with one atomic counter, does what ReplayGuard says,
\* as eeprom.h's ring does (CounterRingProofs): the two fit together.
THEOREM ChannelGuards == Spec => NanoIsGuard
<1>1. Init => Guard!Init
  BY DEF Init, Idle, Guard!Init
<1>2. IInv /\ IInv' /\ [Next]_vars => [Guard!Next]_(Guard!vars)
  <2> SUFFICES ASSUME IInv, IInv', [Next]_vars
               PROVE  Guard!Next \/ UNCHANGED Guard!vars
    OBVIOUS
  <2> USE DEF Guard!vars
  <2>1. nano \in NanoRecord /\ last \in Nat /\ last' \in Nat
    BY DEF IInv, TypeOK
  <2>2. CASE Execute
    <3>1. PICK l \in First(down) :
            /\ Reads /\ l.kind = "command"
            /\ keyed => l.ctr > last /\ l.ctr < Ceiling
            /\ last' = IF keyed THEN l.ctr ELSE last
            /\ nano' = [pc |-> "run", ctr |-> l.ctr, seq |-> 0, of |-> l.of]
      BY <2>2 DEF Execute, Accepts
    <3>2. nano.pc = "idle" /\ nano'.pc = "run" /\ nano'.ctr = l.ctr
      BY <3>1 DEF Reads
    <3>3. CASE keyed
      <4>1. l.ctr \in (last + 1) .. (Ceiling - 1) /\ last' = l.ctr
        BY <2>1, <3>1, <3>3
      <4> QED BY <3>2, <4>1 DEF Guard!Accept, Guard!Next
    <3>4. CASE ~ keyed
      <4>1. l.ctr = None
        BY <2>1, <3>1, <3>4, TailElems DEF First, Reads, IInv, TypeOK, NanoInv
      <4> QED BY <3>1, <3>2, <3>4, <4>1 DEF Guard!Stop, Guard!Next
    <3> QED BY <3>3, <3>4
  <2>3. CASE Ready \/ Finish \/ NanoReset \/ PowerLoss \/ Open
    <3>1. last' = last
      BY <2>3 DEF Ready, Finish, NanoReset, PowerLoss, Open
    <3>2. nano' = nano \/ nano'.pc # "run"
      BY <2>3 DEF Ready, Finish, NanoReset, PowerLoss, Open, Boot, Idle
    <3> QED BY <3>1, <3>2 DEF Guard!Stop, Guard!Next
  <2>4. CASE Progress
    <3>1. last' = last /\ nano'.pc = nano.pc /\ nano'.ctr = nano.ctr
      BY <2>1, <2>4 DEF Progress, NanoRecord
    <3> QED BY <3>1
  <2>5. CASE ~ (Execute \/ Ready \/ Finish \/ NanoReset \/ PowerLoss \/ Open \/ Progress)
    <3>1. nano' = nano /\ last' = last
      BY <2>5 DEF Next, Worker, Firmware, Disturbance, vars, line, past, Start, Ping,
         ReadPong, AfterSync, SkipLine, PongTimeout, OpenFails, Take, CounterExhausted,
         Persist, SendFrame, SendPlain, ReadProgress, ReadFinal, ReadMisfit,
         ReplyTimeout, Resync, AnswerPing, Refuse, Reject, ReadPongNoState, FatalIo,
         Kill, LoseUp, LoseDown
    <3> QED BY <3>1
  <2> QED BY <2>2, <2>3, <2>4, <2>5
<1> QED BY <1>1, <1>2, ChannelInvariance, PTL DEF Spec, Guard!Spec, NanoIsGuard
=============================================================================
