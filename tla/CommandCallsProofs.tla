------------------------- MODULE CommandCallsProofs -------------------------
(***************************************************************************)
(* What the callers of the sensor worker can rely on (SensorCalls), for    *)
(* any number of requests, reopens, crashes and lines.  A request has a    *)
(* budget: how often the Nano began it, how many of its commands are still *)
(* under way, and how often the worker may yet send it.  No step raises    *)
(* the sum, although a lost command is never counted as begun.             *)
(***************************************************************************)
EXTENDS CommandChannelProofs, FiniteSetTheorems

\* Where the commands of a request are, among the lines on their way.
Commands(q, r) == { i \in 1 .. Len(q) : q[i].kind = "command" /\ q[i].of = r }

\* How often the worker may still send the request in hand.
Chances ==
  (IF Retryable(host.req) /\ ~ host.retried THEN 1 ELSE 0)
  + (IF host.pc = "wait" THEN 0 ELSE 1)

\* How often it may still send a request.
Left(r) == IF answer[r] # None THEN 0
           ELSE IF host.req = r THEN Chances ELSE Calls!Limit(r)

\* The request in hand is not answered, and there is one where the worker needs one.
ServingInv ==
  /\ host.pc \in { "off", "closed", "idle" } => host.req = None
  /\ host.req # None => answer[host.req] = None

\* A command under way is of the request in hand or of one given up, and the Nano
\* speaks of requests it has begun.
BegunInv ==
  /\ \A l \in Elems(down) : l.kind = "command" => l.of = host.req \/ answer[l.of] # None
  /\ \A l \in Elems(up) : l.of \in Requests => started[l.of] > 0
  /\ nano.pc = "run" => started[nano.of] > 0

BudgetInv ==
  \A r \in Requests :
    started[r] + Cardinality(Commands(down, r)) + Left(r) <= Calls!Limit(r)

CallsInv == ServingInv /\ BegunInv /\ BudgetInv

USE ChannelAssumption

-----------------------------------------------------------------------------
(* Commands under way *)

LEMMA CommandsFinite ==
  ASSUME NEW q \in Seq(Lines), NEW r
  PROVE  IsFiniteSet(Commands(q, r)) /\ Cardinality(Commands(q, r)) \in Nat
<1>1. Commands(q, r) \in SUBSET (1 .. Len(q)) /\ Len(q) \in Int /\ 1 \in Int
  BY DEF Commands
<1>2. IsFiniteSet(1 .. Len(q))
  BY <1>1, FS_Interval
<1>3. IsFiniteSet(Commands(q, r))
  BY <1>1, <1>2, FS_Subset
<1> QED BY <1>3, FS_CardinalityType

LEMMA NoCommands ==
  ASSUME NEW r
  PROVE  Cardinality(Commands(<< >>, r)) = 0
<1>1. Commands(<< >>, r) = {}
  BY DEF Commands
<1> QED BY <1>1, FS_EmptySet

LEMMA CommandsPut ==
  ASSUME NEW q \in Seq(Lines), NEW l \in Lines, NEW r
  PROVE  /\ Cardinality(Commands(Put(q, l), r)) <= Cardinality(Commands(q, r)) + 1
         /\ ~ (l.kind = "command" /\ l.of = r) =>
              Cardinality(Commands(Put(q, l), r)) <= Cardinality(Commands(q, r))
<1>1. IsFiniteSet(Commands(q, r)) /\ Cardinality(Commands(q, r)) \in Nat
  BY CommandsFinite
<1>2. CASE Len(q) < MaxLines
  <2>1. /\ Put(q, l) = Append(q, l) /\ Len(Append(q, l)) = Len(q) + 1
        /\ Append(q, l)[Len(q) + 1] = l
        /\ \A i \in 1 .. Len(q) : Append(q, l)[i] = q[i]
    BY <1>2 DEF Put
  <2>2. Commands(Put(q, l), r) \in SUBSET (Commands(q, r) \cup { Len(q) + 1 })
    BY <2>1 DEF Commands
  <2>3. ~ (l.kind = "command" /\ l.of = r) =>
          Commands(Put(q, l), r) \in SUBSET Commands(q, r)
    BY <2>1 DEF Commands
  <2>4. /\ IsFiniteSet(Commands(q, r) \cup { Len(q) + 1 })
        /\ Cardinality(Commands(q, r) \cup { Len(q) + 1 }) \in
             { Cardinality(Commands(q, r)), Cardinality(Commands(q, r)) + 1 }
    BY <1>1, FS_AddElement
  <2>5. /\ Cardinality(Commands(Put(q, l), r)) <= Cardinality(Commands(q, r) \cup { Len(q) + 1 })
        /\ IsFiniteSet(Commands(Put(q, l), r))
    BY <2>2, <2>4, FS_Subset
  <2>6. Cardinality(Commands(Put(q, l), r)) \in Nat
    BY <2>5, FS_CardinalityType
  <2>7. ~ (l.kind = "command" /\ l.of = r) =>
          Cardinality(Commands(Put(q, l), r)) <= Cardinality(Commands(q, r))
    BY <1>1, <2>3, FS_Subset
  <2> QED BY <1>1, <2>4, <2>5, <2>6, <2>7
<1>3. CASE ~ (Len(q) < MaxLines)
  BY <1>1, <1>3 DEF Put
<1> QED BY <1>2, <1>3

LEMMA CommandsTail ==
  ASSUME NEW q \in Seq(Lines), q # << >>, NEW r
  PROVE  /\ Cardinality(Commands(Tail(q), r)) <= Cardinality(Commands(q, r))
         /\ Head(q).kind = "command" /\ Head(q).of = r =>
              Cardinality(Commands(Tail(q), r)) + 1 <= Cardinality(Commands(q, r))
<1> DEFINE S == Commands(Tail(q), r)
           T == Commands(q, r) \ { 1 }
           f == [i \in S |-> i + 1]
<1>1. /\ Len(Tail(q)) = Len(q) - 1 /\ Head(q) = q[1] /\ Len(q) \in Nat /\ Len(q) > 0
      /\ \A i \in 1 .. Len(Tail(q)) : Tail(q)[i] = q[i + 1]
  OBVIOUS
<1>2. \A i \in S : i \in 1 .. Len(Tail(q)) /\ i + 1 \in T
  BY <1>1 DEF Commands
<1>3. f \in Injection(S, T)
  <2>1. \A i, j \in S : f[i] = f[j] => i = j
    BY <1>2
  <2>2. f \in [S -> T]
    BY <1>2
  <2> HIDE DEF f, S, T
  <2> QED BY <2>1, <2>2 DEF Injection, IsInjective
<1>4. IsFiniteSet(Commands(q, r)) /\ Cardinality(Commands(q, r)) \in Nat
  BY CommandsFinite
<1>5. /\ IsFiniteSet(T)
      /\ Cardinality(T) = IF 1 \in Commands(q, r) THEN Cardinality(Commands(q, r)) - 1
                          ELSE Cardinality(Commands(q, r))
  BY <1>4, FS_RemoveElement
<1>6. IsFiniteSet(S) /\ Cardinality(S) <= Cardinality(T)
  <2> HIDE DEF f, S, T
  <2> QED BY <1>3, <1>5, FS_Injection
<1>7. Cardinality(S) \in Nat
  BY <1>6, FS_CardinalityType
<1>8. Head(q).kind = "command" /\ Head(q).of = r => 1 \in Commands(q, r)
  BY <1>1 DEF Commands
<1> QED BY <1>4, <1>5, <1>6, <1>7, <1>8

LEMMA CommandsSwap ==
  ASSUME NEW q \in Seq(Lines), NEW l \in Lines, q # << >>, l.kind # "command", NEW r
  PROVE  Cardinality(Commands(<< l >> \o Tail(q), r)) <= Cardinality(Commands(q, r))
<1>1. /\ Len(<< l >> \o Tail(q)) = Len(q) /\ Len(q) \in Nat
      /\ (<< l >> \o Tail(q))[1] = l
      /\ \A i \in 2 .. Len(q) : (<< l >> \o Tail(q))[i] = q[i]
  OBVIOUS
<1>2. Commands(<< l >> \o Tail(q), r) \in SUBSET Commands(q, r)
  BY <1>1 DEF Commands
<1> QED BY <1>2, CommandsFinite, FS_Subset

-----------------------------------------------------------------------------
(* What a step does to the line and to the worker *)

\* No new command, no word of a request that was not begun.
CalmDown ==
  /\ \A l \in Elems(down') : l.kind = "command" => l \in Elems(down)
  /\ \A r \in Requests :
       Cardinality(Commands(down', r)) <= Cardinality(Commands(down, r))
CalmUp ==
  \A l \in Elems(up') :
    l.of \in Requests => l \in Elems(up) \/ (nano.pc = "run" /\ l.of = nano.of)
CalmNano == nano'.pc = "run" => nano.pc = "run" /\ nano'.of = nano.of
Calm == CalmDown /\ CalmUp /\ CalmNano /\ UNCHANGED started

\* The worker goes on with its request, if it has one,
Serves ==
  /\ UNCHANGED answer
  /\ host'.req = host.req
  /\ host'.pc \in { "off", "closed", "idle" } => host.req = None
  /\ host.req # None => Chances' <= Chances

\* takes one,
Takes ==
  /\ host'.pc \in { "exec", "open" }
  /\ \E r \in Requests : Calls!Take(r)

\* or answers it.
Answers(v) ==
  /\ host.req \in Requests
  /\ host'.req = None
  /\ answer' = [answer EXCEPT ![host.req] = v]

\* An answer that is not an error is of a request that was begun, the one in hand
\* unless the channel is plain or its counter was lost.
Told(v) ==
  /\ v \in Requests \cup { Stray }
  /\ UNCHANGED << keyed, file >>
  /\ keyed /\ file # "wrong" => v = host.req /\ started[v] > 0

ServeStep == Serves \/ Takes \/ Answers(Failed) \/ \E v : Answers(v) /\ Told(v)

LEMMA CallTypes ==
  ASSUME TypeOK
  PROVE  /\ host \in HostRecord /\ host.req \in Requests \cup { None }
         /\ host.retried \in BOOLEAN /\ host.pc \in HostAt
         /\ answer \in [Requests -> Requests \cup { None, Failed, Stray }]
         /\ started \in [Requests -> Nat]
         /\ down \in Seq(Lines) /\ up \in Seq(Lines)
BY DEF TypeOK, HostRecord

LEMMA LeftNat ==
  ASSUME NEW r \in Requests
  PROVE  /\ Left(r) \in Nat /\ Calls!Limit(r) \in Nat
         /\ host.req = r => Chances \in Nat /\ Chances <= Calls!Limit(r)
BY DEF Left, Chances, Calls!Limit, Retryable

LEMMA LeftNatNext ==
  ASSUME NEW r \in Requests
  PROVE  /\ Left(r)' \in Nat
         /\ host'.req = r => Chances' \in Nat /\ Chances' <= Calls!Limit(r)
BY DEF Left, Chances, Calls!Limit, Retryable

LEMMA LeftFalls ==
  ASSUME TypeOK, ServingInv, ServeStep, NEW r \in Requests
  PROVE  Left(r)' <= Left(r)
<1>1. /\ Left(r) \in Nat /\ Left(r)' \in Nat /\ Calls!Limit(r) \in Nat
      /\ host'.req = r => Chances' <= Calls!Limit(r)
  BY LeftNat, LeftNatNext
<1>2. CASE Serves
  BY <1>1, <1>2 DEF Serves, Left
<1>3. CASE Takes
  <2>1. PICK q \in Requests : Calls!Take(q)
    BY <1>3 DEF Takes
  <2>2. host.req = None /\ host'.req = q /\ answer' = answer
    BY <2>1 DEF Calls!Take
  <2>3. host.req # r
    BY <2>2
  <2> QED BY <1>1, <2>2, <2>3 DEF Left
<1>4. ASSUME NEW v, Answers(v), v # None PROVE Left(r)' <= Left(r)
  <2>1. CASE r = host.req
    <3>1. answer'[r] = v
      BY <1>4, <2>1, CallTypes DEF Answers
    <3>2. Left(r)' = 0
      BY <1>4, <3>1 DEF Left
    <3> QED BY <1>1, <3>2
  <2>2. CASE r # host.req
    <3>1. answer'[r] = answer[r] /\ host'.req # r
      BY <1>4, <2>2, CallTypes DEF Answers
    <3> QED BY <1>1, <2>2, <3>1 DEF Left
  <2> QED BY <2>1, <2>2
<1>5. \A v : Told(v) => v # None
  BY DEF Told
<1> QED BY <1>2, <1>3, <1>4, <1>5 DEF ServeStep

LEMMA ServingKept ==
  ASSUME TypeOK, ServingInv, ServeStep
  PROVE  /\ ServingInv'
         /\ \A r \in Requests : r = host.req \/ answer[r] # None =>
              r = host'.req \/ answer'[r] # None
<1>1. CASE Serves
  BY <1>1 DEF Serves, ServingInv
<1>2. CASE Takes
  <2>1. PICK q \in Requests : Calls!Take(q)
    BY <1>2 DEF Takes
  <2> QED BY <1>2, <2>1 DEF Takes, Calls!Take, ServingInv
<1>3. ASSUME NEW v, Answers(v), v # None
      PROVE  /\ ServingInv'
             /\ \A r \in Requests : r = host.req \/ answer[r] # None => answer'[r] # None
  <2>1. ServingInv'
    BY <1>3 DEF Answers, ServingInv
  <2>2. \A r \in Requests : answer'[r] = IF r = host.req THEN v ELSE answer[r]
    BY <1>3, CallTypes DEF Answers
  <2> QED BY <1>3, <2>1, <2>2
<1>4. \A v : Told(v) => v # None
  BY DEF Told
<1> QED BY <1>1, <1>2, <1>3, <1>4 DEF ServeStep

\* A step that starts nothing and sends nothing keeps the budgets.
LEMMA CalmKeeps ==
  ASSUME IInv, CallsInv, TypeOK', Calm, ServeStep
  PROVE  CallsInv'
<1>1. TypeOK /\ ServingInv /\ BegunInv /\ BudgetInv /\ NanoInv /\ UNCHANGED started
  BY DEF IInv, CallsInv, Calm
<1>2. /\ ServingInv'
      /\ \A r \in Requests : r = host.req \/ answer[r] # None =>
           r = host'.req \/ answer'[r] # None
  BY <1>1, ServingKept
<1>3. BegunInv'
  <2>1. ASSUME NEW l \in Elems(down'), l.kind = "command"
        PROVE  l.of = host'.req \/ answer'[l.of] # None
    <3>1. l \in Elems(down) /\ l.of \in Requests
      BY <1>1, <2>1 DEF Calm, CalmDown, NanoInv
    <3> QED BY <1>1, <1>2, <2>1, <3>1 DEF BegunInv
  <2>2. ASSUME NEW l \in Elems(up'), l.of \in Requests
        PROVE  started'[l.of] > 0
    BY <1>1, <2>2 DEF Calm, CalmUp, BegunInv
  <2>3. nano'.pc = "run" => started'[nano'.of] > 0
    BY <1>1 DEF Calm, CalmNano, BegunInv
  <2>4. Elems(down)' = Elems(down') /\ Elems(up)' = Elems(up')
    BY DEF Elems
  <2> QED BY <2>1, <2>2, <2>3, <2>4 DEF BegunInv
<1>4. BudgetInv'
  <2> SUFFICES ASSUME NEW r \in Requests
               PROVE  started'[r] + Cardinality(Commands(down', r)) + Left(r)'
                        <= Calls!Limit(r)
    BY DEF BudgetInv, Commands, Calls!Limit
  <2>1. started[r] + Cardinality(Commands(down, r)) + Left(r) <= Calls!Limit(r)
    BY <1>1 DEF BudgetInv
  <2>2. Cardinality(Commands(down', r)) <= Cardinality(Commands(down, r))
    BY DEF Calm, CalmDown
  <2>3. Left(r)' <= Left(r)
    BY <1>1, LeftFalls
  <2>4. /\ Cardinality(Commands(down', r)) \in Nat /\ Cardinality(Commands(down, r)) \in Nat
        /\ started[r] \in Nat
    BY <1>1, CallTypes, CommandsFinite DEF TypeOK
  <2>5. Left(r) \in Nat /\ Left(r)' \in Nat /\ Calls!Limit(r) \in Nat
    BY LeftNat, LeftNatNext
  <2> QED BY <1>1, <2>1, <2>2, <2>3, <2>4, <2>5
<1> QED BY <1>2, <1>3, <1>4 DEF CallsInv

\* A command goes out: one chance less, at most one command more.
LEMMA SendKeeps ==
  ASSUME IInv, CallsInv, TypeOK', SendFrame \/ SendPlain
  PROVE  CallsInv' /\ ServeStep /\ UNCHANGED started
<1>1. TypeOK /\ ServingInv /\ BegunInv /\ BudgetInv
  BY DEF IInv, CallsInv
<1>2. /\ host.pc \in { "exec", "send" } /\ host.req \in Requests
      /\ host' = [host EXCEPT !.pc = "wait", !.seq = 0]
      /\ up' \in Cleared /\ UNCHANGED << answer, nano, started >>
  BY DEF SendFrame, SendPlain, IInv, HostInv, past
<1>3. PICK c \in Counter \cup { None } :
        down' = Put(down, Line("command", c, 0, host.req))
  <2>1. SendFrame => host.ctr \in Counter \cup { None }
    BY <1>1 DEF TypeOK, HostRecord
  <2> QED BY <2>1 DEF SendFrame, SendPlain
<1> DEFINE m == Line("command", c, 0, host.req)
<1>4. m \in Lines /\ m.kind = "command" /\ m.of = host.req
  <2>1. host.req \in Requests \cup { Stray } /\ 0 \in Nat
    BY <1>2
  <2> QED BY <2>1, LineTyped
<1>5. host'.pc = "wait" /\ host'.req = host.req /\ host'.retried = host.retried
  BY <1>1, <1>2, CallTypes DEF HostRecord
<1>6. Chances' + 1 = Chances /\ Chances \in Nat /\ Chances' \in Nat
  BY <1>2, <1>5, LeftNat, LeftNatNext DEF Chances
<1>7. /\ Elems(down') \subseteq Elems(down) \cup { m } /\ Elems(up') \subseteq Elems(up)
      /\ Elems(down)' = Elems(down') /\ Elems(up)' = Elems(up')
  <2>1. Elems(down)' = Elems(down') /\ Elems(up)' = Elems(up')
    BY DEF Elems
  <2> HIDE DEF m
  <2> QED BY <1>1, <1>2, <1>3, <1>4, <2>1, PutElems, ClearedElems, CallTypes DEF m
<1>8. ServingInv'
  BY <1>1, <1>2, <1>5 DEF ServingInv
<1>9. BegunInv'
  <2> HIDE DEF m
  <2> QED BY <1>1, <1>2, <1>4, <1>5, <1>7 DEF BegunInv
<1>10. BudgetInv'
  <2> SUFFICES ASSUME NEW r \in Requests
               PROVE  started[r] + Cardinality(Commands(down', r)) + Left(r)'
                        <= Calls!Limit(r)
    BY <1>2 DEF BudgetInv, Commands, Calls!Limit
  <2>1. started[r] + Cardinality(Commands(down, r)) + Left(r) <= Calls!Limit(r)
    BY <1>1 DEF BudgetInv
  <2>2. /\ Cardinality(Commands(down', r)) <= Cardinality(Commands(down, r)) + 1
        /\ r # host.req => Cardinality(Commands(down', r)) <= Cardinality(Commands(down, r))
    <3> HIDE DEF m
    <3> QED BY <1>1, <1>3, <1>4, CommandsPut, CallTypes DEF m
  <2>3. /\ r = host.req => Left(r) = Chances /\ Left(r)' = Chances'
        /\ r # host.req => Left(r) = Left(r)'
    BY <1>1, <1>2, <1>5 DEF Left, ServingInv
  <2>4. /\ Cardinality(Commands(down', r)) \in Nat /\ Cardinality(Commands(down, r)) \in Nat
        /\ started[r] \in Nat
    BY <1>1, CallTypes, CommandsFinite DEF TypeOK
  <2>5. Left(r) \in Nat /\ Left(r)' \in Nat /\ Calls!Limit(r) \in Nat
    BY LeftNat, LeftNatNext
  <2>6. CASE r = host.req
    <3>1. Left(r)' + 1 = Left(r)
      BY <1>6, <2>3, <2>6
    <3> QED BY <2>1, <2>2, <2>4, <2>5, <3>1
  <2>7. CASE r # host.req
    BY <2>1, <2>2, <2>3, <2>4, <2>5, <2>7
  <2> QED BY <2>6, <2>7
<1>11. Serves
  BY <1>2, <1>5, <1>6 DEF Serves
<1> QED BY <1>2, <1>8, <1>9, <1>10, <1>11 DEF CallsInv, ServeStep

\* The Nano begins a request: one command less under way.
LEMMA ExecuteBegins ==
  ASSUME IInv, CallsInv, TypeOK', Execute
  PROVE  CallsInv' /\ \E r \in Requests : Calls!Begin(r)
<1>1. TypeOK /\ ServingInv /\ BegunInv /\ BudgetInv /\ NanoInv
  BY DEF IInv, CallsInv
<1>2. PICK l \in First(down) :
        /\ Reads /\ l.kind = "command"
        /\ nano' = [pc |-> "run", ctr |-> l.ctr, seq |-> 0, of |-> l.of]
        /\ started' = [started EXCEPT ![l.of] = @ + 1]
  BY DEF Execute
<1>3. /\ UNCHANGED << keyed, file, host, answer, up >>
      /\ down # << >> /\ l = Head(down) /\ down' = Tail(down)
      /\ down \in Seq(Lines) /\ started \in [Requests -> Nat]
  BY <1>1, <1>2 DEF Execute, First, Reads, TypeOK
<1>4. l \in Elems(down) /\ Elems(down') \subseteq Elems(down)
  BY <1>3, TailElems
<1>5. l.of \in Requests /\ (l.of = host.req \/ answer[l.of] # None)
  BY <1>1, <1>2, <1>4 DEF NanoInv, BegunInv
<1>6. /\ \A r \in Requests : started'[r] = IF r = l.of THEN started[r] + 1 ELSE started[r]
      /\ \A r \in Requests : started[r] \in Nat
  BY <1>2, <1>3
<1>7. ASSUME NEW r \in Requests
      PROVE  /\ started'[r] + Cardinality(Commands(down', r)) + Left(r) <= Calls!Limit(r)
             /\ Left(r)' = Left(r) /\ started'[r] <= Calls!Limit(r)
  <2>1. started[r] + Cardinality(Commands(down, r)) + Left(r) <= Calls!Limit(r)
    BY <1>1 DEF BudgetInv
  <2>2. /\ Cardinality(Commands(down', r)) <= Cardinality(Commands(down, r))
        /\ r = l.of => Cardinality(Commands(down', r)) + 1 <= Cardinality(Commands(down, r))
    BY <1>2, <1>3, CommandsTail
  <2>3. Cardinality(Commands(down', r)) \in Nat /\ Cardinality(Commands(down, r)) \in Nat
    BY <1>1, CallTypes, CommandsFinite DEF TypeOK
  <2>4. Left(r) \in Nat /\ Calls!Limit(r) \in Nat
    BY LeftNat
  <2>5. Left(r)' = Left(r)
    BY <1>3 DEF Left, Chances
  <2>6. started'[r] + Cardinality(Commands(down', r)) + Left(r) <= Calls!Limit(r)
    <3>1. CASE r = l.of
      BY <1>6, <2>1, <2>2, <2>3, <2>4, <3>1
    <3>2. CASE r # l.of
      BY <1>6, <2>1, <2>2, <2>3, <2>4, <3>2
    <3> QED BY <3>1, <3>2
  <2>7. started'[r] \in Nat
    BY <1>6
  <2> QED BY <2>3, <2>4, <2>5, <2>6, <2>7
<1>8. ServingInv'
  BY <1>1, <1>3 DEF ServingInv
<1>9. BegunInv'
  <2>1. Elems(down)' = Elems(down') /\ Elems(up)' = Elems(up)
    BY <1>3 DEF Elems
  <2>2. \A r \in Requests : started[r] > 0 => started'[r] > 0
    BY <1>6
  <2>3. nano'.of = l.of /\ started'[l.of] > 0
    BY <1>2, <1>5, <1>6
  <2> QED BY <1>1, <1>3, <1>4, <2>1, <2>2, <2>3 DEF BegunInv
<1>10. BudgetInv'
  BY <1>7 DEF BudgetInv, Commands, Calls!Limit
<1>11. Calls!Begin(l.of)
  <2>1. started[l.of] < Calls!Limit(l.of)
    BY <1>5, <1>6, <1>7, LeftNat
  <2> QED BY <1>2, <1>3, <1>5, <2>1 DEF Calls!Begin
<1> QED BY <1>5, <1>8, <1>9, <1>10, <1>11 DEF CallsInv

-----------------------------------------------------------------------------
(* The other steps *)

LEMMA SameIsCalm ==
  ASSUME TypeOK
  PROVE  /\ down' = down => CalmDown
         /\ up' = up => CalmUp
         /\ nano' = nano => CalmNano
<1>1. \A r \in Requests : Cardinality(Commands(down, r)) \in Nat
  BY CallTypes, CommandsFinite
<1> QED BY <1>1 DEF CalmDown, CalmUp, CalmNano

LEMMA ClearedIsCalm == ASSUME TypeOK, up' \in Cleared PROVE CalmUp
BY ClearedElems, CallTypes DEF CalmUp

LEMMA BootIsCalm == ASSUME TypeOK, Boot PROVE CalmNano /\ CalmDown
<1>1. nano'.pc = "boot" /\ down' \in { << >>, down }
  BY BootTyped
<1>2. CASE down' = << >>
  <2>1. \A r \in Requests :
          Cardinality(Commands(down', r)) = 0 /\ Cardinality(Commands(down, r)) \in Nat
    BY <1>2, CallTypes, CommandsFinite, NoCommands
  <2> QED BY <1>1, <1>2, <2>1, NoneIncreasing DEF CalmNano, CalmDown
<1> QED BY <1>1, <1>2, SameIsCalm DEF CalmNano

LEMMA PlainIsCalm ==
  ASSUME TypeOK, NEW k \in { "ping", "pong", "ok", "noise" }
  PROVE  /\ up' = Put(up, Plain(k)) => CalmUp
         /\ down' = Put(down, Plain(k)) => CalmDown
<1>1. /\ Plain(k) \in Lines /\ Plain(k).kind # "command" /\ Plain(k).of \notin Requests
      /\ up \in Seq(Lines) /\ down \in Seq(Lines)
  BY PlainTyped, CallTypes
<1>2. ASSUME up' = Put(up, Plain(k)) PROVE CalmUp
  BY <1>1, <1>2, PutElems DEF CalmUp
<1>3. ASSUME down' = Put(down, Plain(k)) PROVE CalmDown
  BY <1>1, <1>3, PutElems, CommandsPut DEF CalmDown
<1> QED BY <1>2, <1>3

LEMMA TailIsCalm ==
  ASSUME TypeOK
  PROVE  /\ up # << >> /\ up' = Tail(up) => CalmUp
         /\ down # << >> /\ down' = Tail(down) => CalmDown
<1>1. up \in Seq(Lines) /\ down \in Seq(Lines)
  BY CallTypes
<1>2. up # << >> /\ up' = Tail(up) => CalmUp
  BY <1>1, TailElems DEF CalmUp
<1>3. down # << >> /\ down' = Tail(down) => CalmDown
  BY <1>1, TailElems, CommandsTail DEF CalmDown
<1> QED BY <1>2, <1>3

LEMMA DoneAnswers ==
  ASSUME host.req \in Requests, NEW v, Done(v) \/ (DoneClosed /\ v = Failed)
  PROVE  Answers(v)
<1>1. CASE Done(v)
  BY <1>1 DEF Done, Answers, Port
<1>2. CASE DoneClosed /\ v = Failed
  BY <1>2 DEF DoneClosed, Answers, Port
<1> QED BY <1>1, <1>2

\* A step that keeps the request and its retry, and does not come to wait for less.
LEMMA KeepServes ==
  ASSUME TypeOK, answer' = answer, host'.req = host.req,
         host'.retried = host.retried,
         host'.pc \in { "off", "closed", "idle" } => host.req = None,
         host'.pc = host.pc \/ host.pc # "wait"
  PROVE  Serves
<1>1. host.req # None => Chances' <= Chances
  BY CallTypes, LeftNat, LeftNatNext DEF Chances
<1> QED BY <1>1 DEF Serves

\* The worker's own steps, but for those that send a command.
LEMMA HandshakeServes ==
  ASSUME IInv, CallsInv, TypeOK',
         \/ Start \/ Open \/ Ping \/ ReadPong \/ SkipLine \/ PongTimeout \/ OpenFails
         \/ ReadPongNoState
  PROVE  Calm /\ ServeStep
<1>0. TypeOK /\ ServingInv /\ host \in HostRecord /\ host.req \in Requests \cup { None }
  BY CallTypes DEF IInv, CallsInv
<1>1. CASE Start
  <2>1. host.req = None
    BY <1>0, <1>1 DEF Start, ServingInv
  <2>2. host'.req = None /\ host'.pc = "open" /\ answer' = answer
    BY <1>1 DEF Start, Port
  <2>3. Serves
    BY <2>1, <2>2 DEF Serves
  <2> QED BY <1>0, <1>1, <2>3, SameIsCalm DEF Start, line, past, Calm, ServeStep
<1>2. CASE Open
  <2>1. Serves
    BY <1>0, <1>2, KeepServes DEF Open, HostRecord
  <2> QED BY <1>0, <1>2, <2>1, SameIsCalm, BootIsCalm, ClearedIsCalm
          DEF Open, past, Calm, ServeStep
<1>3. CASE Ping
  <2>1. Serves
    BY <1>0, <1>3, KeepServes DEF Ping, HostRecord
  <2> QED BY <1>0, <1>3, <2>1, SameIsCalm, PlainIsCalm, ClearedIsCalm
          DEF Ping, past, Calm, ServeStep
<1>4. ASSUME NEW n, AfterSync(n) PROVE Calm /\ ServeStep
  <2>1. /\ host'.pc = IF host.req = None THEN "idle" ELSE "exec"
        /\ host'.req = host.req /\ host'.retried = host.retried
        /\ host.pc = "pong" /\ answer' = answer
    BY <1>0, <1>4 DEF AfterSync, HostRecord
  <2>2. Serves
    BY <1>0, <2>1, KeepServes
  <2> QED BY <1>0, <1>4, <2>2, SameIsCalm, ClearedIsCalm
          DEF AfterSync, past, Calm, ServeStep
<1>5. CASE SkipLine
  <2>1. Serves
    BY <1>0, <1>5, KeepServes DEF SkipLine
  <2> QED BY <1>0, <1>5, <2>1, SameIsCalm, TailIsCalm DEF SkipLine, past, Calm, ServeStep
<1>6. CASE PongTimeout
  <2>1. Serves
    BY <1>0, <1>6, KeepServes DEF PongTimeout, HostRecord
  <2> QED BY <1>0, <1>6, <2>1, SameIsCalm DEF PongTimeout, line, past, Calm, ServeStep
<1>7. CASE OpenFails
  <2>1. ASSUME host.req = None PROVE ServeStep
    <3>1. host'.req = None /\ answer' = answer
      BY <1>7, <2>1 DEF OpenFails, Port
    <3> QED BY <2>1, <3>1 DEF Serves, ServeStep
  <2>2. ASSUME host.req # None, MayTryAgain PROVE ServeStep
    <3>1. /\ host' = [host EXCEPT !.pc = "open", !.tries = @ + 1, !.pings = 0]
          /\ answer' = answer /\ host.pc \in { "open", "ping", "pong" }
      BY <1>7, <2>2 DEF OpenFails
    <3>2. /\ host'.pc = "open" /\ host'.req = host.req /\ host'.retried = host.retried
      BY <1>0, <3>1 DEF HostRecord
    <3>3. Serves
      BY <1>0, <3>1, <3>2, KeepServes
    <3> QED BY <3>3 DEF ServeStep
  <2>3. ASSUME host.req # None, ~ MayTryAgain PROVE ServeStep
    BY <1>0, <1>7, <2>3, DoneAnswers DEF OpenFails, ServeStep
  <2>4. ServeStep
    BY <2>1, <2>2, <2>3
  <2> QED BY <1>0, <1>7, <2>4, SameIsCalm, ClearedIsCalm DEF OpenFails, past, Calm
<1> QED BY <1>1, <1>2, <1>3, <1>4, <1>5, <1>6, <1>7 DEF ReadPong, ReadPongNoState

LEMMA RequestServes ==
  ASSUME IInv, CallsInv, TypeOK',
         \/ (\E r \in Requests : Take(r)) \/ CounterExhausted \/ Persist
         \/ ReadProgress \/ ReadFinal \/ ReadMisfit \/ ReplyTimeout
  PROVE  Calm /\ ServeStep
<1>0. /\ TypeOK /\ ServingInv /\ HostInv /\ OwnInv /\ BegunInv
      /\ host \in HostRecord /\ host.req \in Requests \cup { None }
  BY CallTypes DEF IInv, CallsInv
<1>1. ASSUME NEW r \in Requests, Take(r) PROVE Calm /\ ServeStep
  <2>1. /\ host.pc \in { "idle", "closed" } /\ answer[r] = None
        /\ host'.pc \in { "exec", "open" } /\ host'.req = r
        /\ UNCHANGED << keyed, file, answer, started >>
    BY <1>0, <1>1 DEF Take, HostRecord, past
  <2>2. Calls!Take(r)
    BY <1>0, <2>1 DEF Calls!Take, ServingInv
  <2>3. Takes
    BY <2>1, <2>2 DEF Takes
  <2> QED BY <1>0, <1>1, <2>1, <2>3, SameIsCalm DEF Take, line, Calm, ServeStep
<1>2. CASE CounterExhausted
  <2>1. Answers(Failed)
    BY <1>0, <1>2, DoneAnswers DEF CounterExhausted, HostInv
  <2> QED BY <1>0, <1>2, <2>1, SameIsCalm DEF CounterExhausted, line, past, Calm, ServeStep
<1>3. CASE Persist
  <2>1. /\ host'.pc = "send" /\ host'.req = host.req /\ host'.retried = host.retried
        /\ host.pc = "exec" /\ answer' = answer
    BY <1>0, <1>3 DEF Persist, HostRecord
  <2>2. Serves
    BY <1>0, <2>1, KeepServes
  <2> QED BY <1>0, <1>3, <2>2, SameIsCalm DEF Persist, line, past, Calm, ServeStep
<1>4. CASE ReadProgress
  <2>1. up # << >> /\ up' = Tail(up) /\ answer' = answer
    BY <1>4 DEF ReadProgress, Reading, First
  <2>2. host'.pc = host.pc /\ host'.req = host.req /\ host'.retried = host.retried
    BY <1>0, <1>4 DEF ReadProgress, HostRecord
  <2>3. Serves
    BY <1>0, <2>1, <2>2, KeepServes DEF ServingInv
  <2> QED BY <1>0, <1>4, <2>1, <2>3, SameIsCalm, TailIsCalm
          DEF ReadProgress, past, Calm, ServeStep
<1>5. CASE ReadFinal
  <2>1. PICK l \in First(up) :
          /\ Reading /\ Done(l.of)
          /\ keyed => Fits(l) /\ l.kind = "final"
    BY <1>5 DEF ReadFinal
  <2>2. /\ up # << >> /\ up' = Tail(up) /\ host.pc = "wait" /\ host.req \in Requests
        /\ l \in Elems(up) /\ l \in Lines
    BY <1>0, <2>1, TailElems, CallTypes DEF Reading, First, HostInv
  <2>3. Answers(l.of)
    BY <2>1, <2>2, DoneAnswers
  <2>4. UNCHANGED << keyed, file >>
    BY <1>5 DEF ReadFinal
  <2>5. keyed /\ file # "wrong" => l.of = host.req /\ started[l.of] > 0
    BY <1>0, <2>1, <2>2 DEF Fits, OwnInv, BegunInv
  <2>6. Told(l.of)
    BY <2>2, <2>4, <2>5 DEF Told, Lines
  <2> QED BY <1>0, <1>5, <2>2, <2>3, <2>6, SameIsCalm, TailIsCalm
          DEF ReadFinal, past, Calm, ServeStep
<1>6. CASE ReadMisfit
  <2>1. up # << >> /\ up' = Tail(up) /\ host.pc = "wait" /\ Done(Failed)
    BY <1>6 DEF ReadMisfit, First, Reading
  <2>2. Answers(Failed)
    BY <1>0, <2>1, DoneAnswers DEF HostInv
  <2> QED BY <1>0, <1>6, <2>1, <2>2, SameIsCalm, TailIsCalm
          DEF ReadMisfit, past, Calm, ServeStep
<1>7. CASE ReplyTimeout
  <2>1. Answers(Failed)
    BY <1>0, <1>7, DoneAnswers DEF ReplyTimeout, HostInv
  <2> QED BY <1>0, <1>7, <2>1, SameIsCalm DEF ReplyTimeout, line, past, Calm, ServeStep
<1> QED BY <1>1, <1>2, <1>3, <1>4, <1>5, <1>6, <1>7

LEMMA FirmwareCalm ==
  ASSUME IInv, CallsInv,
         Ready \/ AnswerPing \/ Refuse \/ Reject \/ Progress \/ Finish
  PROVE  Calm /\ Serves
<1>0. TypeOK /\ ServingInv /\ Idle.pc = "idle"
  BY DEF IInv, CallsInv, Idle
<1>1. UNCHANGED << host, answer, started >>
  BY DEF Ready, AnswerPing, Refuse, Reject, Progress, Finish, past
<1>2. Serves
  BY <1>0, <1>1, KeepServes DEF ServingInv
<1>3. CASE Ready
  <2>1. CalmNano
    BY <1>0, <1>3 DEF Ready, CalmNano
  <2> QED BY <1>0, <1>1, <1>2, <1>3, <2>1, SameIsCalm, PlainIsCalm DEF Ready, Calm
<1>4. ASSUME down # << >>, down' = Tail(down), nano' = nano,
             up' = Put(up, Plain("pong")) \/ up' = Put(up, Plain("ok"))
      PROVE  Calm
  BY <1>0, <1>1, <1>4, SameIsCalm, TailIsCalm, PlainIsCalm DEF Calm
<1>5. CASE AnswerPing \/ Refuse \/ Reject
  BY <1>2, <1>4, <1>5 DEF AnswerPing, Refuse, Reject, Reads, First
<1>6. ASSUME nano.pc = "run", NEW k \in { "progress", "final" }, NEW s \in Nat,
             up' = Put(up, Line(k, nano.ctr, s, nano.of))
      PROVE  CalmUp
  <2>1. /\ nano.ctr \in Counter \cup { None } /\ nano.of \in Requests \cup { Stray }
        /\ up \in Seq(Lines)
    BY <1>0 DEF TypeOK, NanoRecord
  <2>2. /\ k \in { "ping", "command", "pong", "ok", "progress", "final", "noise" }
        /\ s \in Nat
    BY <1>6
  <2> DEFINE l == Line(k, nano.ctr, s, nano.of)
  <2>3. l \in Lines /\ l.of = nano.of
    BY <2>1, <2>2 DEF Line, Lines
  <2>4. Elems(up') \subseteq Elems(up) \cup { l }
    BY <1>6, <2>1, <2>3, PutElems
  <2> QED BY <1>6, <2>3, <2>4 DEF CalmUp
<1>7. CASE Progress
  <2>1. nano.seq \in Nat /\ nano.pc = "run" /\ nano'.of = nano.of
    BY <1>0, <1>7 DEF Progress, TypeOK, NanoRecord
  <2>2. CalmUp
    BY <1>6, <1>7, <2>1 DEF Progress
  <2>3. CalmNano
    BY <2>1 DEF CalmNano
  <2> QED BY <1>0, <1>1, <1>2, <1>7, <2>2, <2>3, SameIsCalm DEF Progress, Calm
<1>8. CASE Finish
  <2>1. nano.seq \in Nat /\ nano.pc = "run" /\ CalmNano
    BY <1>0, <1>8 DEF Finish, TypeOK, NanoRecord, CalmNano
  <2>2. CalmUp
    BY <1>6, <1>8, <2>1 DEF Finish
  <2> QED BY <1>0, <1>1, <1>2, <1>8, <2>1, <2>2, SameIsCalm DEF Finish, Calm
<1> QED BY <1>3, <1>5, <1>7, <1>8

LEMMA DisturbanceServes ==
  ASSUME IInv, CallsInv, TypeOK',
         FatalIo \/ Kill \/ LoseUp \/ LoseDown \/ NanoReset \/ PowerLoss
  PROVE  Calm /\ ServeStep
<1>0. /\ TypeOK /\ ServingInv /\ HostInv
      /\ host \in HostRecord /\ host.req \in Requests \cup { None }
      /\ up \in Seq(Lines) /\ down \in Seq(Lines)
  BY CallTypes DEF IInv, CallsInv
<1>1. ASSUME UNCHANGED << host, answer >> PROVE Serves
  BY <1>0, <1>1, KeepServes DEF ServingInv
<1>2. CASE FatalIo
  <2>1. host.req \in Requests /\ host.req # None
    BY <1>0, <1>2 DEF FatalIo, HostInv
  <2>2. ASSUME Retryable(host.req), ~ host.retried PROVE ServeStep
    <3>1. /\ host' = [Port("open") EXCEPT !.req = host.req, !.retried = TRUE]
          /\ answer' = answer
      BY <1>2, <2>2 DEF FatalIo
    <3>2. host'.pc = "open" /\ host'.req = host.req /\ host'.retried
      BY <3>1 DEF Port
    <3>3. Chances' = 1 /\ Chances \in { 1, 2 }
      BY <2>2, <3>2 DEF Chances
    <3> QED BY <2>1, <3>1, <3>2, <3>3 DEF Serves, ServeStep
  <2>3. ASSUME ~ (Retryable(host.req) /\ ~ host.retried) PROVE ServeStep
    BY <1>2, <2>1, <2>3, DoneAnswers DEF FatalIo, ServeStep
  <2>4. ServeStep
    BY <2>2, <2>3
  <2> QED BY <1>0, <1>2, <2>4, SameIsCalm, ClearedIsCalm DEF FatalIo, past, Calm
<1>3. ASSUME host' = Port("off"),
             answer' = IF host.req = None THEN answer
                       ELSE [answer EXCEPT ![host.req] = Failed]
      PROVE  ServeStep
  <2>1. host'.req = None
    BY <1>3 DEF Port
  <2>2. CASE host.req = None
    BY <1>3, <2>1, <2>2 DEF Serves, ServeStep
  <2>3. CASE host.req # None
    BY <1>0, <1>3, <2>1, <2>3 DEF Answers, ServeStep
  <2> QED BY <2>2, <2>3
<1>4. CASE Kill
  BY <1>0, <1>3, <1>4, SameIsCalm, ClearedIsCalm DEF Kill, past, Calm
<1>5. CASE LoseUp
  <2>1. up # << >> /\ Head(up) \in Lines
    BY <1>0, <1>5, TailElems DEF LoseUp
  <2> DEFINE l == Line("noise", Head(up).ctr, 0, Stray)
  <2>2. l \in Lines /\ l.of \notin Requests
    BY <2>1 DEF Line, Lines
  <2>3. up' = << l >> \o Tail(up) => CalmUp
    BY <1>0, <2>1, <2>2, SwapElems DEF CalmUp
  <2>4. CalmUp
    BY <1>0, <1>5, <2>1, <2>3, TailIsCalm DEF LoseUp
  <2> QED BY <1>0, <1>1, <1>5, <2>4, SameIsCalm DEF LoseUp, past, Calm, ServeStep
<1>6. CASE LoseDown
  <2>1. /\ down # << >> /\ Plain("noise") \in Lines
        /\ Plain("noise").kind # "command"
    BY <1>6, PlainTyped DEF LoseDown
  <2>2. down' = << Plain("noise") >> \o Tail(down) => CalmDown
    BY <1>0, <2>1, SwapElems, CommandsSwap DEF CalmDown
  <2>3. CalmDown
    BY <1>0, <1>6, <2>1, <2>2, TailIsCalm DEF LoseDown
  <2> QED BY <1>0, <1>1, <1>6, <2>3, SameIsCalm DEF LoseDown, past, Calm, ServeStep
<1>7. CASE NanoReset
  BY <1>0, <1>1, <1>7, SameIsCalm, BootIsCalm DEF NanoReset, past, Calm, ServeStep
<1>8. CASE PowerLoss
  <2>1. up' = << >> /\ down' = << >> /\ nano'.pc = "boot" /\ UNCHANGED started
    BY <1>8 DEF PowerLoss, past
  <2>2. \A r \in Requests :
          Cardinality(Commands(down', r)) = 0 /\ Cardinality(Commands(down, r)) \in Nat
    BY <1>0, <2>1, CommandsFinite, NoCommands
  <2>3. Calm
    BY <2>1, <2>2, NoneIncreasing DEF Calm, CalmDown, CalmUp, CalmNano
  <2>4. ServeStep
    BY <1>3, <1>8 DEF PowerLoss
  <2> QED BY <2>3, <2>4
<1> QED BY <1>2, <1>4, <1>5, <1>6, <1>7, <1>8

LEMMA ResyncServes ==
  ASSUME IInv, CallsInv, Resync \/ UNCHANGED vars
  PROVE  Calm /\ Serves
<1>1. UNCHANGED << host, answer, down, up, nano, started >>
  BY DEF Resync, vars, line, past
<1>2. TypeOK /\ ServingInv
  BY DEF IInv, CallsInv
<1>3. Serves
  BY <1>1, <1>2, KeepServes DEF ServingInv
<1> QED BY <1>1, <1>2, <1>3, SameIsCalm DEF Calm

-----------------------------------------------------------------------------
(* Theorems *)

LEMMA CallsInit == ASSUME Init PROVE CallsInv
<1>1. /\ host = Port("off") /\ down = << >> /\ up = << >> /\ nano.pc = "idle"
      /\ answer = [r \in Requests |-> None] /\ started = [r \in Requests |-> 0]
  BY DEF Init, Idle
<1>2. host.req = None
  BY <1>1 DEF Port
<1>3. ServingInv /\ BegunInv
  BY <1>1, <1>2 DEF ServingInv, BegunInv, Elems
<1>4. ASSUME NEW r \in Requests
      PROVE  started[r] + Cardinality(Commands(down, r)) + Left(r) <= Calls!Limit(r)
  <2>1. Left(r) = Calls!Limit(r) /\ started[r] = 0
    BY <1>1, <1>2 DEF Left
  <2>2. Cardinality(Commands(down, r)) = 0
    BY <1>1, NoCommands
  <2> QED BY <2>1, <2>2, LeftNat
<1> QED BY <1>3, <1>4 DEF CallsInv, BudgetInv

LEMMA CallsStep ==
  ASSUME IInv, IInv', CallsInv, [Next]_vars
  PROVE  /\ CallsInv'
         /\ \/ ServeStep /\ UNCHANGED started
            \/ \E r \in Requests : Calls!Begin(r)
<1>1. TypeOK'
  BY DEF IInv
<1>2. CASE Execute
  BY <1>1, <1>2, ExecuteBegins
<1>3. CASE SendFrame \/ SendPlain
  BY <1>1, <1>3, SendKeeps
<1>4. CASE ~ (Execute \/ SendFrame \/ SendPlain)
  <2>1. Calm /\ ServeStep
    BY <1>1, <1>4, HandshakeServes, RequestServes, FirmwareCalm, DisturbanceServes,
       ResyncServes DEF Next, Worker, Firmware, Disturbance, ServeStep
  <2> QED BY <1>1, <2>1, CalmKeeps DEF Calm
<1> QED BY <1>2, <1>3, <1>4

\* A request's budget holds in every reachable state: what worker, line and firmware
\* may yet do for it never exceeds what handle_request allows.
THEOREM CallsInvariance == Spec => []CallsInv
<1>1. Init => CallsInv
  BY CallsInit
<1>2. IInv /\ IInv' /\ CallsInv /\ [Next]_vars => CallsInv'
  BY CallsStep
<1> QED BY <1>1, <1>2, ChannelInvariance, PTL DEF Spec

\* The firmware starts no enroll twice, and no other request a third time
\* (HandleOutcome and already_retried of sensor_actor.rs).
THEOREM ChannelStarts == Spec => []StartsBounded
<1>1. ASSUME IInv, CallsInv, NEW r \in Requests PROVE started[r] <= Calls!Limit(r)
  <2>1. started[r] \in Nat /\ Cardinality(Commands(down, r)) \in Nat
    BY <1>1, CallTypes, CommandsFinite DEF IInv
  <2> QED BY <1>1, <2>1, LeftNat DEF CallsInv, BudgetInv
<1>2. IInv /\ CallsInv => StartsBounded
  BY <1>1 DEF StartsBounded
<1> QED BY <1>2, ChannelInvariance, CallsInvariance, PTL

\* The worker thread, R503 and the firmware together keep what SensorCalls promises
\* the callers of SensorActor.
THEOREM ChannelServes == Spec => ImplementsCalls
<1>1. Init => Calls!Init
  BY DEF Init, Port, Calls!Init
<1>2. IInv /\ IInv' /\ CallsInv /\ [Next]_vars => [Calls!Next]_(Calls!vars)
  <2> SUFFICES ASSUME IInv, IInv', CallsInv, [Next]_vars PROVE Calls!Next
    OBVIOUS
  <2>1. CASE ServeStep /\ UNCHANGED started
    <3>1. CASE Serves
      BY <2>1, <3>1 DEF Serves, Calls!TrustChanges, Calls!Next
    <3>2. CASE Takes
      BY <3>2 DEF Takes, Calls!Next
    <3>3. CASE Answers(Failed)
      BY <2>1, <3>3 DEF Answers, Calls!Answer, Calls!Fail, Calls!Next
    <3>4. ASSUME NEW v, Answers(v), Told(v) PROVE Calls!Next
      <4>1. Calls!Answer(v)
        BY <2>1, <3>4 DEF Answers, Calls!Answer
      <4>2. CASE keyed /\ file # "wrong"
        BY <3>4, <4>1, <4>2 DEF Told, Calls!Answer, Calls!Reply, Calls!Next
      <4>3. CASE ~ (keyed /\ file # "wrong")
        BY <3>4, <4>1, <4>3 DEF Told, Calls!Misread, Calls!Next
      <4> QED BY <4>2, <4>3
    <3> QED BY <2>1, <3>1, <3>2, <3>3, <3>4 DEF ServeStep
  <2>2. CASE \E r \in Requests : Calls!Begin(r)
    BY <2>2 DEF Calls!Next
  <2> QED BY <2>1, <2>2, CallsStep
<1> QED BY <1>1, <1>2, ChannelInvariance, CallsInvariance, PTL
        DEF Spec, Calls!Spec, ImplementsCalls

=============================================================================
