--------------------------- MODULE CommandChannel ---------------------------
(***************************************************************************)
(* The sensor worker sends one request after another over the serial line  *)
(* to the Nano and answers it: sensor_actor.rs, sensor.rs, state.rs and    *)
(* process_line of the firmware, with the counter the two ends agree on.   *)
(*                                                                         *)
(* The Nano's counter is the atomic one of ReplayGuard, which CounterRing  *)
(* implements.  Both ends hold the same key, or neither has one.           *)
(***************************************************************************)
EXTENDS Naturals, Sequences

CONSTANTS
  Requests,        \* what callers ask of the worker
  Enrolls,         \* those that are enrolls
  Ceiling,         \* COUNTER_CEILING; BOUND in the runs
  MaxPings,        \* BOUND: pings of one handshake (8 seconds in the code)
  ReopenAttempts,  \* REOPEN_ATTEMPTS (4 in the code); BOUND in the runs
  MaxLines,        \* BOUND: lines under way in one direction; the buffers of
                   \* both USB ends and of the Nano's UART drop what does not fit
  MaxProgress,     \* BOUND: PROGRESS lines of one command
  MaxFaults,       \* BOUND: faults of a behaviour
  None,
  Failed,          \* the answer is an error the host made up
  Stray            \* the line belongs to no request

ASSUME ChannelAssumption ==
  /\ Enrolls \subseteq Requests
  /\ Ceiling \in Nat /\ Ceiling > 1
  /\ { MaxPings, ReopenAttempts, MaxLines, MaxProgress, MaxFaults } \subseteq Nat
  /\ { None, Failed, Stray } \cap (Requests \cup Nat) = {}
  /\ None # Failed /\ None # Stray /\ Failed # Stray

VARIABLES
  keyed,    \* the Nano is paired and the daemon has the key
  disk,     \* next_cmd_counter in state.json
  lost,     \* what state.json was before the last rename, which a power loss
            \* may take back
  file,     \* history: how state.json came by its counter
  host,     \* the worker: its R503 and the request it serves
  answer,   \* what each request was answered with: the origin of the line
  down,     \* lines on their way to the Nano
  up,       \* lines on their way to the host, in the kernel's queue or in rx_buf
  nano,     \* the firmware: where it is, and the command it carries out
  last,     \* its EEPROM counter
  sent,     \* history: counters that went out
  started,  \* history: how often the Nano set to work on a request
  faults    \* faults so far

line == << down, up >>
past == << sent, started >>
vars == << keyed, disk, lost, file, host, answer, line, nano, last, past, faults >>

Counter == 1 .. Ceiling
HostAt == { "off", "closed", "open", "ping", "pong", "idle", "exec", "send", "wait" }
HostRecord ==
  [pc : HostAt, req : Requests \cup { None }, next : Counter \cup { None },
   ctr : Counter \cup { None }, seq : Nat, pings : Nat, tries : Nat,
   retried : BOOLEAN]
NanoRecord ==
  [pc : { "boot", "idle", "run" }, ctr : Counter \cup { None }, seq : Nat,
   of : Requests \cup { Stray }]
Lines == [kind : { "ping", "command", "pong", "ok", "progress", "final", "noise" },
          ctr : Counter \cup { None }, seq : Nat, of : Requests \cup { Stray }]

-----------------------------------------------------------------------------
(* Lines *)

Line(kind, ctr, seq, of) == [kind |-> kind, ctr |-> ctr, seq |-> seq, of |-> of]
Plain(kind) == Line(kind, None, 0, Stray)

Put(q, l) == IF Len(q) < MaxLines THEN Append(q, l) ELSE q

\* Clearing rx_buf and the kernel's queue leaves what is still on the wire.
Cleared == { SubSeq(up, n, Len(up)) : n \in 1 .. (Len(up) + 1) }

\* The line that is read next, if any.
First(q) == IF q = << >> THEN {} ELSE { Head(q) }

\* "R ...": the output of a framed command.
Framed(l) == l.ctr # None

-----------------------------------------------------------------------------
(* The worker *)

Fault == faults < MaxFaults /\ faults' = faults + 1

\* R503 without a port, or none; no counter, no request.
Port(at) == [pc |-> at, req |-> None, next |-> None, ctr |-> None, seq |-> 0,
             pings |-> 0, tries |-> 0, retried |-> FALSE]

\* The request is answered; the port stays open.
Done(v) ==
  /\ answer' = [answer EXCEPT ![host.req] = v]
  /\ host' = [Port("idle") EXCEPT !.next = host.next]

\* The request is answered; the next one reopens the port.
\* Faulty variant: the worker goes round its loop once more with it.
DoneClosedAgain ==
  /\ answer' = [answer EXCEPT ![host.req] = Failed]
  /\ host' = [Port("open") EXCEPT !.req = host.req, !.retried = TRUE]

DoneClosed ==
  /\ answer' = [answer EXCEPT ![host.req] = Failed]
  /\ host' = Port("closed")

\* r503d is started, or started again by its service manager.
Start ==
  /\ host.pc = "off"
  /\ host' = Port("open")
  /\ UNCHANGED << keyed, disk, lost, file, answer, line, nano, last, past, faults >>

\* The Nano starts over, and forgets what it has not read.
Boot ==
  /\ nano' = [pc |-> "boot", ctr |-> None, seq |-> 0, of |-> Stray]
  /\ down' \in { << >>, down }

\* R503::open up to the first ping; DTR may reset the Nano.
Open ==
  /\ host.pc = "open"
  /\ host' = [host EXCEPT !.pc = "ping", !.pings = 0]
  /\ Boot \/ UNCHANGED << nano, down >>
  /\ up' \in Cleared
  /\ UNCHANGED << keyed, disk, lost, file, answer, last, past, faults >>

Ping ==
  /\ host.pc = "ping" /\ host.pings < MaxPings
  /\ host' = [host EXCEPT !.pc = "pong", !.pings = @ + 1]
  /\ up' \in Cleared
  /\ down' = Put(down, Plain("ping"))
  /\ UNCHANGED << keyed, disk, lost, file, answer, nano, last, past, faults >>

\* sync skips every other line; apply_auth takes the counter from state.json.
\* Faulty variant: it starts afresh after each reopen.
LoadedFresh == 1

Loaded == disk

AfterSync(next) ==
  /\ host.pc = "pong" /\ up # << >> /\ Head(up) = Plain("pong")
  /\ host' = [host EXCEPT !.pc = IF host.req = None THEN "idle" ELSE "exec",
                          !.next = IF keyed THEN next ELSE None]
  /\ up' \in Cleared
  /\ UNCHANGED << keyed, disk, lost, answer, down, nano, last, past >>

ReadPong ==
  /\ AfterSync(Loaded)
  /\ UNCHANGED << file, faults >>

\* state.json is missing or refused: apply_auth goes on with a fresh counter.
ReadPongNoState ==
  /\ keyed
  /\ AfterSync(1)
  /\ Fault
  /\ file' = IF disk = 1 THEN file ELSE "wrong"

SkipLine ==
  /\ host.pc = "pong" /\ up # << >> /\ Head(up) # Plain("pong")
  /\ up' = Tail(up)
  /\ UNCHANGED << keyed, disk, lost, file, host, answer, down, nano, last, past,
                  faults >>

PongTimeout ==
  /\ host.pc = "pong"
  /\ host' = [host EXCEPT !.pc = "ping"]
  /\ UNCHANGED << keyed, disk, lost, file, answer, line, nano, last, past, faults >>

\* No pong in time, no port, or an I/O error on it.  The first open must
\* succeed or the daemon ends; later ones are tried a few times.
MayTryAgain == host.tries + 1 < ReopenAttempts

OpenFails ==
  /\ \/ host.pc = "ping" /\ host.pings = MaxPings /\ UNCHANGED faults
     \/ host.pc \in { "open", "ping", "pong" } /\ Fault
  /\ \/ /\ host.req = None
        /\ host' = Port("off")
        /\ UNCHANGED answer
     \/ /\ host.req # None /\ MayTryAgain
        /\ host' = [host EXCEPT !.pc = "open", !.tries = @ + 1, !.pings = 0]
        /\ UNCHANGED answer
     \/ /\ host.req # None /\ ~ MayTryAgain
        /\ DoneClosed
  /\ up' \in Cleared
  /\ UNCHANGED << keyed, disk, lost, file, down, nano, last, past >>

\* blocking_recv
Take(r) ==
  /\ host.pc \in { "idle", "closed" }
  /\ answer[r] = None
  /\ host' = [host EXCEPT !.pc = IF host.pc = "idle" THEN "exec" ELSE "open",
                          !.req = r]
  /\ UNCHANGED << keyed, disk, lost, file, answer, line, nano, last, past, faults >>

\* advance_counter
\* Faulty variant: no ceiling.
ExhaustedNever(c) == FALSE

Exhausted(c) == c >= Ceiling

\* Faulty variant: the counter saved is the one about to be used.
NextCounterSame(c) == c

NextCounter(c) == c + 1

CounterExhausted ==
  /\ host.pc = "exec" /\ keyed /\ Exhausted(host.next)
  /\ Done(Failed)
  /\ UNCHANGED << keyed, disk, lost, file, line, nano, last, past, faults >>

\* state::save of the next counter, before the frame goes out.
Persist ==
  /\ host.pc = "exec" /\ keyed /\ ~ Exhausted(host.next)
  /\ disk' = NextCounter(host.next)
  /\ lost' = disk
  /\ host' = [host EXCEPT !.pc = "send", !.ctr = host.next,
                          !.next = host.next + 1]
  /\ UNCHANGED << keyed, file, answer, line, nano, last, past, faults >>

SendFrame ==
  /\ host.pc = "send"
  /\ host' = [host EXCEPT !.pc = "wait", !.seq = 0]
  /\ up' \in Cleared
  /\ down' = Put(down, Line("command", host.ctr, 0, host.req))
  /\ sent' = sent \cup { host.ctr }
  /\ UNCHANGED << keyed, disk, lost, file, answer, nano, last, started, faults >>

\* execute_unframed
SendPlain ==
  /\ host.pc = "exec" /\ ~ keyed
  /\ host' = [host EXCEPT !.pc = "wait", !.seq = 0]
  /\ up' \in Cleared
  /\ down' = Put(down, Line("command", None, 0, host.req))
  /\ UNCHANGED << keyed, disk, lost, file, answer, nano, last, past, faults >>

\* Faulty variant: a frame of another command will do.
FitsAny(l) == Framed(l) /\ l.kind # "noise"

\* The frame is intact, and the next one of this command.
Fits(l) == Framed(l) /\ l.kind # "noise" /\ l.ctr = host.ctr /\ l.seq = host.seq

\* A line of the reply in hand.
Reading == host.pc = "wait" /\ up' = Tail(up)

ReadProgress ==
  /\ \E l \in First(up) :
       /\ Reading
       /\ \/ keyed /\ Fits(l) /\ l.kind = "progress"
          \/ ~ keyed /\ l.kind \in { "progress", "noise" }
  /\ host' = [host EXCEPT !.seq = IF keyed THEN @ + 1 ELSE @]
  /\ UNCHANGED << keyed, disk, lost, file, answer, down, nano, last, past, faults >>

\* A body that starts with OK or ERR is the answer, whatever it says.
ReadFinal ==
  /\ \E l \in First(up) :
       /\ Reading
       /\ \/ keyed /\ Fits(l) /\ l.kind = "final"
          \/ ~ keyed /\ l.kind \notin { "progress", "noise" }
       /\ Done(l.of)
  /\ UNCHANGED << keyed, disk, lost, file, down, nano, last, past, faults >>

\* framing_rejected, or a Protocol error; the port stays open.
ReadMisfit ==
  /\ keyed
  /\ \E l \in First(up) : Reading /\ ~ Fits(l)
  /\ Done(Failed)
  /\ UNCHANGED << keyed, disk, lost, file, down, nano, last, past, faults >>

\* Faulty variant: a lost line is waited for.
TimesOutNever == FALSE

TimesOut == TRUE

ReplyTimeout ==
  /\ host.pc = "wait" /\ TimesOut
  /\ Done(Failed)
  /\ UNCHANGED << keyed, disk, lost, file, line, nano, last, past, faults >>

\* Faulty variant: an enroll is retried like the rest.
RetryableAll(r) == TRUE

Retryable(r) == r \notin Enrolls

\* is_fatal_io: the port is given up, and all but an enroll tried once more.
FatalIo ==
  /\ host.pc \in { "exec", "send", "wait" }
  /\ host.pc = "exec" /\ keyed => ~ Exhausted(host.next)
  /\ Fault
  /\ \/ /\ Retryable(host.req) /\ ~ host.retried
        /\ host' = [Port("open") EXCEPT !.req = host.req, !.retried = TRUE]
        /\ UNCHANGED answer
     \/ /\ ~ Retryable(host.req) \/ host.retried
        /\ DoneClosed
  /\ up' \in Cleared
  /\ UNCHANGED << keyed, disk, lost, file, down, nano, last, past >>

\* The daemon ends; its callers get an error from the bus.
Kill ==
  /\ host.pc # "off"
  /\ Fault
  /\ host' = Port("off")
  /\ answer' = IF host.req = None THEN answer ELSE [answer EXCEPT ![host.req] = Failed]
  /\ up' \in Cleared
  /\ UNCHANGED << keyed, disk, lost, file, down, nano, last, past >>

-----------------------------------------------------------------------------
(* r503d --resync, with the daemon stopped.  The status it asks for comes    *)
(* after all the Nano still had to read, so it is one step here.             *)

Resync ==
  /\ host.pc = "off" /\ keyed
  /\ down = << >> /\ nano.pc = "idle"
  /\ last + 1 < Ceiling
  /\ disk' = last + 1
  /\ lost' = disk
  /\ file' = "resynced"
  /\ UNCHANGED << keyed, host, answer, line, nano, last, past, faults >>

-----------------------------------------------------------------------------
(* The Nano *)

Idle == [pc |-> "idle", ctr |-> None, seq |-> 0, of |-> Stray]

\* setup() ends with an "OK fw=..." line.
Ready ==
  /\ nano.pc = "boot"
  /\ nano' = Idle
  /\ up' = Put(up, Plain("ok"))
  /\ UNCHANGED << keyed, disk, lost, file, host, answer, down, last, past, faults >>

Reads == nano.pc = "idle" /\ down' = Tail(down)

AnswerPing ==
  /\ \E l \in First(down) : Reads /\ l.kind = "ping"
  /\ up' = Put(up, Plain("pong"))
  /\ UNCHANGED << keyed, disk, lost, file, host, answer, nano, last, past, faults >>

\* Faulty variant: a counter seen before will do.
AcceptsAny(l) == l.ctr < Ceiling

\* The counter checks of process_line.
Accepts(l) == l.ctr > last /\ l.ctr < Ceiling

\* The counter is committed before the handler runs.
Execute ==
  /\ \E l \in First(down) :
       /\ Reads
       /\ l.kind = "command"
       /\ keyed => Accepts(l)
       /\ last' = IF keyed THEN l.ctr ELSE last
       /\ nano' = [pc |-> "run", ctr |-> l.ctr, seq |-> 0, of |-> l.of]
       /\ started' = [started EXCEPT ![l.of] = @ + 1]
  /\ UNCHANGED << keyed, disk, lost, file, host, answer, up, sent, faults >>

\* ERR replay, ERR counter_ceiling
Refuse ==
  /\ keyed
  /\ \E l \in First(down) : Reads /\ l.kind = "command" /\ ~ Accepts(l)
  /\ up' = Put(up, Plain("ok"))
  /\ UNCHANGED << keyed, disk, lost, file, host, answer, nano, last, past, faults >>

\* ERR mac_invalid, mac_required, unknown_command
Reject ==
  /\ \E l \in First(down) : Reads /\ l.kind = "noise"
  /\ up' = Put(up, Plain("ok"))
  /\ UNCHANGED << keyed, disk, lost, file, host, answer, nano, last, past, faults >>

Progress ==
  /\ nano.pc = "run" /\ nano.seq < MaxProgress
  /\ nano' = [nano EXCEPT !.seq = @ + 1]
  /\ up' = Put(up, Line("progress", nano.ctr, nano.seq, nano.of))
  /\ UNCHANGED << keyed, disk, lost, file, host, answer, down, last, past, faults >>

Finish ==
  /\ nano.pc = "run"
  /\ nano' = Idle
  /\ up' = Put(up, Line("final", nano.ctr, nano.seq, nano.of))
  /\ UNCHANGED << keyed, disk, lost, file, host, answer, down, last, past, faults >>

-----------------------------------------------------------------------------
(* The line, the power *)

\* A line is lost, or arrives with wrong bytes.
LoseUp ==
  /\ up # << >> /\ Fault
  /\ \/ up' = Tail(up)
     \/ up' = << Line("noise", Head(up).ctr, 0, Stray) >> \o Tail(up)
  /\ UNCHANGED << keyed, disk, lost, file, host, answer, down, nano, last, past >>

LoseDown ==
  /\ down # << >> /\ Fault
  /\ \/ down' = Tail(down)
     \/ down' = << Plain("noise") >> \o Tail(down)
  /\ UNCHANGED << keyed, disk, lost, file, host, answer, up, nano, last, past >>

NanoReset ==
  /\ Fault
  /\ Boot
  /\ UNCHANGED << keyed, disk, lost, file, host, answer, up, last, past >>

\* The computer loses power, and the Nano with it.  fsync of the next save
\* commits the rename before it, so at most the last one is taken back.
PowerLoss ==
  /\ Fault
  /\ disk' \in { disk, lost } /\ lost' = disk'
  /\ file' = IF disk' = disk THEN file ELSE "wrong"
  /\ host' = Port("off")
  /\ answer' = IF host.req = None THEN answer ELSE [answer EXCEPT ![host.req] = Failed]
  /\ down' = << >> /\ up' = << >>
  /\ nano' = [pc |-> "boot", ctr |-> None, seq |-> 0, of |-> Stray]
  /\ UNCHANGED << keyed, last, past >>

-----------------------------------------------------------------------------

\* After --pair, or with neither end paired.
Init ==
  /\ keyed \in BOOLEAN
  /\ disk = 1 /\ lost = 1 /\ file = "intact"
  /\ host = Port("off")
  /\ answer = [r \in Requests |-> None]
  /\ down = << >> /\ up = << >>
  /\ nano = Idle
  /\ last = 0
  /\ sent = {} /\ started = [r \in Requests |-> 0]
  /\ faults = 0

\* What the worker does by itself.
Worker ==
  \/ Start \/ Open \/ Ping \/ ReadPong \/ SkipLine \/ PongTimeout \/ OpenFails
  \/ (\E r \in Requests : Take(r))
  \/ CounterExhausted \/ Persist \/ SendFrame \/ SendPlain
  \/ ReadProgress \/ ReadFinal \/ ReadMisfit \/ ReplyTimeout

Firmware ==
  Ready \/ AnswerPing \/ Execute \/ Refuse \/ Reject \/ Progress \/ Finish

Disturbance ==
  ReadPongNoState \/ FatalIo \/ Kill \/ LoseUp \/ LoseDown \/ NanoReset \/ PowerLoss

Next == Worker \/ Resync \/ Firmware \/ Disturbance

Spec == Init /\ [][Next]_vars

\* The worker thread runs, and its deadlines pass.
FairSpec == Spec /\ WF_vars(Worker)

-----------------------------------------------------------------------------
(* Properties *)

\* No counter that is sent, saved or committed passes the ceiling, on either side
\* (advance_counter, resync_target, process_line).
TypeOK ==
  /\ keyed \in BOOLEAN
  /\ disk \in Counter /\ lost \in Counter
  /\ file \in { "intact", "wrong", "resynced" }
  /\ host \in HostRecord
  /\ answer \in [Requests -> Requests \cup { None, Failed, Stray }]
  /\ down \in Seq(Lines) /\ up \in Seq(Lines)
  /\ nano \in NanoRecord
  /\ last \in 0 .. (Ceiling - 1)
  /\ sent \subseteq 1 .. (Ceiling - 1)
  /\ started \in [Requests -> Nat]
  /\ faults \in 0 .. MaxFaults

\* "Persist next BEFORE sending": unless state.json itself was lost, refused or
\* taken back, the Nano accepts every command of the host that reaches it, through
\* crashes, retries and lost lines, up to the last counter below the ceiling.
FramesAccepted == [][Refuse => file = "wrong"]_vars

\* "a crash never lets us reuse a counter": none goes out twice.
CountersFresh == [][SendFrame /\ file = "intact" => host.ctr \notin sent]_vars

\* On the authenticated channel an answer is the Nano's own to that very request,
\* not a late one to another, a pong, or a line of setup(); this too rests on
\* state.json, for a counter used again lets a late answer through.
ReplyIsOwn ==
  [][ReadFinal /\ keyed /\ file # "wrong" => answer'[host.req] = host.req]_vars

Calls == INSTANCE SensorCalls WITH
  current <- host.req, trusted <- keyed /\ file # "wrong"

\* The worker, the line and the Nano keep what the worker promises its callers:
\* one request at a time, one answer each, through reopens, kills and power losses,
\* and no success for a request the Nano has not begun.
ImplementsCalls == Calls!Spec

Guard == INSTANCE ReplayGuard WITH
  last <- last, running <- IF nano.pc = "run" THEN nano.ctr ELSE None

\* process_line carries out a command only under a counter above those it saw, and
\* notes it first, also when a counter goes out again because state.json was lost.
NanoIsGuard == Guard!Spec

\* A reopen never makes the Nano start an enroll again; other requests it may see
\* twice, but not more often.
StartsBounded == \A r \in Requests : started[r] <= Calls!Limit(r)

\* No request occupies the worker for ever: it is answered, or the daemon ends.
RequestsAnswered == []<>(host.req = None)

\* "resync can only ever move the host's counter forward"
ResyncForward == [][Resync => disk' >= disk]_vars
=============================================================================
