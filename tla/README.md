# r503d: a verification development

`r503d` lets a Linux desktop use an R503 fingerprint sensor behind an Arduino.
It is a drop-in for fprintd: a D-Bus daemon in Rust
(`src/pcside/daemon/src/`), a serial line, and firmware on the Arduino
(`src/firmware/r503fp/`) that drives the sensor. This directory holds TLA+
models of it, their TLC configurations, and proofs checked by TLAPS.

Paths below are relative to `src/`; `daemon/` stands for `pcside/daemon/src/`.

## 1. Inventory

```
D-Bus clients ──► Device (dbus_iface.rs) ──► SensorActor (sensor_actor.rs)
 pam, settings      │   state mutex            │  unbounded mpsc, one worker thread
                    │   capture semaphore      ▼
                    │                        R503 (sensor.rs) ── counter ──► state.json
                    ▼                          │ framed "C ctr … M mac"
                  Storage (storage.rs)         ▼ USB serial
                  users.json                 firmware (r503fp.ino) ── EEPROM ring, key
                                               ▼
 r503d --pair … (pairing.rs) ─► key files    R503 sensor: template flash
                keystore.rs, tpm.rs
```

| Component | State it keeps | Operations | What makes it correct |
|---|---|---|---|
| **Device** `daemon/dbus_iface.rs` | `DeviceState`: claim and its sender, the single action slot with its epoch, `finger-*` hints; the `capture_slot` semaphore; the handlers and tasks in flight | Claim, Release, VerifyStart/Stop, EnrollStart/Stop, three deletes, list, the disconnect watcher | at most one capture queued; a busy slot always has an owner that clears it; a terminal signal never lands in another capture's session; `verify-match` only for the user's own template |
| **Storage** `daemon/storage.rs` | the registry print → slot in memory behind an `RwLock`; `users.json` and `users.json.tmp` | open, get, list, allocate, set, remove, save | no slot is shared; the file is replaced atomically and survives a crash; a restart does not resurrect a deleted row |
| **Sensor worker** `daemon/sensor_actor.rs` | request channel, open serial handle or none | serve a request, one reopen and retry after a fatal I/O error, reopen with backoff | every request is answered exactly once; an enroll is never silently repeated |
| **Serial protocol** `daemon/sensor.rs`, `framing.rs`, `crypto.rs` | `client_counter`, receive buffer, key | sync, unframed and framed execute, counter advance | a counter value never goes out twice; a late reply is not taken for another command's |
| **Counter file** `daemon/state.rs` | `state.json`: the next counter | load, save, delete | on disk before the frame is sent |
| **Keys and pairing** `daemon/keystore.rs`, `pairing.rs`, `tpm.rs` | `/var/lib/r503d/key` and its backup, `key.tpm`; the marker `/etc/r503d/allow-pair` | `--pair`, `--pair --seal-tpm`, `--reseal-tpm`, `--reseal-policy`, `--unpair`, `--resync`, `--status` | a completed pairing is never lost by the host; the marker lets one attempt through; a deleted key stays deleted; counters stay in step across re-pairing |
| **Firmware** `firmware/r503fp/` | EEPROM magic, key and counter ring; sensor | dispatch, enroll, verify, delete, pair, unpair; the wipe sketch | counters accepted are strictly increasing across resets; a torn EEPROM write is survivable |
| **Authorisation** `daemon/auth.rs` | none | resolve caller, polkit | pure decision per call |
| **Start-up** `daemon/main.rs` | none after start | key load, spawn, serve, watch for disconnects | – |
| Tools: `pcside/r503ctl.py`, `daemon/../dist`, diagnostic sketches, examples, fuzz targets, tests | – | – | – |

How they interact. A D-Bus method is an async function on a multi-threaded
tokio runtime; zbus runs the calls of all clients concurrently. They share
`DeviceState` under one async mutex that is held for single lock sections only,
the registry under an `RwLock`, and the sensor through one FIFO channel.
VerifyStart and EnrollStart return as soon as they have spawned a task, which
outlives the call, the claim and even the caller. The bus announces departed
clients to a watcher task, which may run before or after anything the client
had already asked for.

What is hard here:

* **interleaving**: the handler's checks (`ensure_claim`, `get_slot`), the
  action slot, the permit and the registry are read and written in separate
  steps; Stop, Release and the disconnect watcher clear the slot under a
  running task;
* **stale owners**: a stopped task still waits for the sensor for up to 45
  seconds and then acts;
* **lost answers**: the firmware stores a template and the host does not hear
  of it;
* **partial failure**: one of several slot deletes fails; the registry write
  fails after the template was stored;
* **crashes**: of the daemon between template flash and registry, between
  counter file and frame; of an administrator's flow between any two of its
  files, with what a power loss takes back; of the Nano between two EEPROM
  bytes, or between magic, key and ring;
* **liveness**: the retry loop, the permit, the action slot;
* **bounds**: retry budget, counter ceiling, sensor capacity, EEPROM ring.

`PROJECT.json` lists these hazards one by one at the line where they bite, with
the properties that cover them.

## 2. FprintDevice: the Device object and what its handlers share

`FprintDevice.tla` models every method of the `Device` interface that changes
state, the two capture tasks, the disconnect watcher, the in-memory registry,
the worker's request queue and the sensor's template flash.
`DeviceOperations.tla` is the abstract specification of its token discipline.

| Module | Code |
|---|---|
| `dev` | `DeviceState` behind `state: Arc<Mutex<_>>` |
| `permits` | available permits of `capture_slot` |
| `rows` | `StorageFile.users`, flattened to (user, finger) → slot |
| `flash` | template slots of the sensor; each holds the print it was taken for |
| `queue`, `served` | the worker's channel with the request it is serving at the head, and how many PROGRESS lines it has passed on |
| `proc[p]` | one method call with its local variables, and the task it spawns |
| `alive`, `departed` | bus clients; those whose NameOwnerChanged is still to be handled |
| `cancelled` | history: epochs ended by a stop, a release or a disconnect |

An action is the code between two awaits, or one hold of the state mutex:
`AcquirePermit`, `MintVerify`/`MintEnroll`, `ChooseSlot`, `EmitDataFull`,
`Refuse`, `Spawn`,
`RunVerify`/`RunEnroll`, `TakeProgress`, `RetryVerify`,
`FinishVerify`/`FinishEnroll`, `SetSlot`, `Emit` for a capture;
`LookupSlot`, `BeginDelete`, `SnapshotSlots`, `EraseNext`, `EraseReply`,
`RemoveRow`, `FinishDelete` for the deletes; `Claim`, `Release`, `Stop`,
`HandleClientDisconnect` for the claim. `ServeEnroll`, `ServeVerify` and
`ServeDelete` are the firmware's handlers seen through the worker.

Steps that were merged, and why nothing is lost:

* `ensure_claim` is part of the call's arrival. It reads the state and keeps
  the user; the gap to the next step of the handler is kept, so a Release and a
  new Claim may come between. A refused call changes nothing and is left out.
* computations on locals ride along with the lock section next to them.
* when the verify task finds its token gone, it drains and drops the permit in
  one step: a token that lost the action slot never gets it back.
* the drain window is over at any time; the 30 second budget may be spent at
  any retry (then the retryable answer is final).
* a match below the confidence threshold has the same effect as `no_match`.
* the worker's reopen and retry of an idempotent request is invisible here: the
  caller sees one answer. With `SensorFaults`, that answer may be an error
  although the firmware carried the command out.
* the firmware gives up before the host does (enroll 40 s of waits against
  45 s, verify 10 s against 15 s), so a request is over when it is answered.
* `SetSlot` and `RemoveRow` change the map; whether the file write behind them
  succeeds only decides the reported status here.
* `ListEnrolledFingers` and the property getters read only.

### Properties

* `SlotsUnique`: no two prints share a slot, although `allocate_slot` and
  `set_slot` are seconds apart without a lock. It is the permit, held until
  after `set_slot`, that makes this true; the action slot alone does not, for a
  stopped enroll no longer has it.
* `RowsOwnTemplates`: a row's slot holds the row's own template or none. Lost
  answers, stops and deletes may leave templates without rows and rows without
  templates, but never a row with somebody else's template.
* `MatchIsOwn`: a `verify-match` was given for a template of the user the
  verify was started for, and of the finger it named if it named one, as it was
  when the sensor matched.
* `OneCaptureQueued`: the promise of the comment on `capture_slot`.
* `ActionBacked`: an occupied action slot has a live invocation that will clear
  it, so no exit path forgets to.
* `VerdictsIsolated`: no terminal signal lands in the capture session of another
  operation. The outcome of a capture, and the registry write before it, belongs
  to an operation that was not stopped, and comes while no capture holds the
  action slot. `enroll-data-full` is different, and the property says so: the
  handler emits it (`dbus_iface.rs:827`) without asking whether its token is still
  in the slot, so an enroll that was stopped after it took the slot still sends
  a terminal signal. What keeps that signal out of a successor's session is the
  permit alone, which the handler holds until it returns.
* `ImplementsOperations`: an operation's whole life, seen through its token.
  `DeviceOperations` starts an operation in a free slot with a fresh epoch, lets
  a stop take the slot away, and lets the operation wind up once: as the owner
  (`Finish`), after which a capture may owe one verdict (`Report`), or without
  the slot (`Abandon`), after which nobody's slot is touched. A capture of a
  `Refusable` kind may also be refused while it is under way, whether it still
  owns the slot or not (`Refuse`), and then reports that and nothing else: this
  is `enroll-data-full`. A capture starts only when no other one is running or
  owes its verdict. `running` are the tokens of invocations that have minted one
  and not given it up, `owed` those of invocations between a decision and its
  signal, `silent` those of handlers about to return with nothing more to say.
* `CallsReturn`, `ActionsEnd`: every call and task ends, and no operation keeps
  the action slot.

### Runs

| Run | Instance | Result |
|---|---|---|
| `device_safety` | 1 client, 2 users, 2 fingers, 2 slots, 2 calls at a time, 3 operations | `TypeOK`, `OneCaptureQueued`, `ActionBacked`, `VerdictsIsolated`, `SlotsUnique`, `RowsOwnTemplates`, `MatchIsOwn`, `ImplementsOperations` hold; 2,331,046 states |
| `device_liveness` | 1 client, 2 calls, 2 retries, the firmware's PROGRESS lines | `CallsReturn`, `ActionsEnd` hold |
| `device_lost_template` | no sensor faults | `RowsBacked` violated |
| `device_dead_claim` | 2 clients, 1 call | `DeadClaimsReleased` violated under `FairSpec` |

Bounds. Two invocations at a time are what every race in this code needs: one
that owns something and one that disturbs it; the permit and the action slot
admit a third only to turn it away. `MaxEpoch` stops new operations after the
given number; three are an enroll, a delete and what races with them. Two users
and two slots make a foreign template possible, a full sensor and a reused
slot; two fingers, a match of the wrong finger. Clients, users, fingers and
processes are symmetric and nothing orders them;
the liveness run uses no symmetry. One client is enough for the safety run: a
second one that claims changes the state as a Release and a Claim for another
user by the first do, and a client that leaves is dropped by the watcher in the
same way. All these properties are proved for any number of clients; the run
about claims of departed clients has two. Every client may leave the bus, after which
nothing happens: deadlock checking is off in these runs.

Fairness. Weak fairness of each invocation's own steps (`ProcStep(p)`: tokio
polls every woken task), of the worker (one thread, a FIFO channel, firmware
commands that time out) and of the watcher for each departed client. Nothing
is assumed of clients: they may never stop, release or call again.

The two violated runs are disagreements between the code and its comments.

* `device_lost_template`: an enroll task gives up the action slot
  (`dbus_iface.rs:898`) before it writes its row (line 906). A delete that begins
  in that gap finds the row of an earlier enroll of the finger, erases the
  template just stored and removes the row; `SetSlot` then puts the row back. A
  registry row survives whose template is gone although every command succeeded,
  which the comment on `delete_user_fingers` excludes. The slot that
  `delete_enrolled_finger` reads early (line 420) and a Release under a running
  delete are further ways to such a row, in the model but in no run of their own.
* `device_dead_claim`: `claim` does not look whether its sender is still there
  (comment on `handle_client_disconnect`).

In the model's steps, but with no property: the writes of the `finger-*` hints
are not guarded by the token, so a stopped task may set them again after the stop
(comment at the drain loop). The comment at `dbus_iface.rs:893-897`, which wants
no "stale terminal signal" from a replaced operation, is written about the enroll
task and kept there; the handler's `enroll-data-full` above it is not covered by
it.

## 3. RegistryFile: the registry on disk

`RegistryFile.tla` models `Storage` with the file behind it; `AtomicRegistry.tla`
is the abstract specification of what that file is supposed to give.

| Module | Code |
|---|---|
| `phase`, `rows` | the daemon process; `StorageInner.data` |
| `file` | `users.json` and `users.json.tmp` as other processes see them |
| `safe`, `linked`, `stale` | the medium: what fsync has written of each file, whether the last rename is committed, and what `users.json` was before it |
| `flash` | the sensor's template slots |
| `call[c]` | an enroll task or delete handler from its registry look-up to the end of its save, or `Storage::open` |
| `clean` | history: no registry write failed, the power was never lost |

`Insert` and `Remove` are the write-lock sections of `set_slot` and
`remove_finger`; `Snapshot`, `Open`, `Write`, `Sync` and `Rename` are the steps
of `save()`, each of which may fail (`FileError`). `Boot` reads the file back
and saves it again. `Kill` may come between any two steps; the firmware then
still finishes the command it was given. `PowerLoss` also takes back what was
not synced and may take back a rename, because the directory is not synced.

A stopped enroll is one step here (`AbandonEnroll`): what other operations do
while it still waits for the sensor is the subject of `FprintDevice`. The guards
`ActionFree` and `PermitFree` are what that module shows of the action slot and
the capture permit; an enroll has given the action slot up before `set_slot`,
so its save may overlap a delete's.

| Run | Instance | Result |
|---|---|---|
| `registry_serial` | 1 caller, 3 prints, 2 slots, 2 faults | `TypeOK`, `BootReads`, `LabelsTrue`, `ImplementsAtomic` hold; 1,273,062 states |
| `registry_stale_save` | 2 callers, 2 prints, 2 slots, 1 fault | `LabelsTrue` violated |

Three prints for two slots fill the sensor; two faults let the second one hit
the recovery from the first. With two callers the module comment's "atomic
writes via temp-file rename" is not true: all saves share one temporary name
and none of them holds a lock, so a delete's `open(O_TRUNC)` can come between an
enroll's fsync and its rename, and an older snapshot can be renamed last.
`registry_stale_save` shows the second, and it is the only run that shows anything
about saves that overlap: `BootReads`, `LabelsTrue` and `ImplementsAtomic` are
checked, and proved, for one caller at a time. The first is in the model too: with
two callers a `users.json` that cannot be parsed follows from it.
Deadlock checking is off where an unreadable `users.json` keeps the daemon
down for good.

`LabelsTrue` has a hypothesis the code cannot do without: after a delete whose
file write failed, the row is gone from memory, its slot is reused, and a crash
brings the old row back over the new template. A power loss that takes back the
rename does the same.

## 4. CounterRing: the Nano's replay counter

`CounterRing.tla` models the EEPROM ring of `firmware/r503fp/eeprom.h` and the
counter check of `process_line` above it; `ReplayGuard.tla` is the abstract
specification: one atomic counter, spent before its command starts.

| Module | Code |
|---|---|
| `ring` | the cells of `EE_COUNTER_RING_ADDR`: a counter whose CRC is right, erased bytes, or bytes torn by a reset |
| `pc`, `ctr`, `cell` | where `process_line` is, its `ctr`, and `next_cell` of `ee_save_counter` |
| `ran` | history: the counters under which a command was carried out |

`Receive` is the check of a frame with a right MAC (`Fresh`: above
`ee_load_counter`, below `COUNTER_CEILING`) and the choice of the cell;
`WriteBytes` spoils the cell's CRC, `WriteCrc` makes it right; `Run` is
`dispatch`, `Drop` the reject of an overlong body after the counter was spent;
`Reset` may come in any of these. `Valid`, `IsMaxCell`, `Load` and `NextCell` are
`ee_scan_ring` and what its two callers make of it.

Run `ring_torn` (3 cells, ceiling 8, 5,580 states): `TypeOK` (a counter of the
reserved band is never stored), `RunOnce` (commands run under strictly
increasing counters) and `ImplementsGuard` hold. With 3 cells and 7 counters the
ring wraps twice, and every cell is torn at every place in the order. Two cells
are the least that works; the code has 16. Deadlock checking is off: once the
last counter below the ceiling is spent, the Nano refuses every frame.

A torn cell is taken to have a wrong CRC. The counter's bytes are written before
the two CRC bytes; a mix of old and new bytes with a matching CRC-16 is left out.
An erased cell is never valid: the CRC of eight 0xFF bytes is not 0xFFFF.

## 5. CommandChannel: the worker, the line and the Nano

`CommandChannel.tla` models how one request after another gets from the worker
to the firmware and back: `sensor_actor.rs`, `sensor.rs`, `state.rs`,
`--resync`, and `process_line` with the framed output. The Nano's counter is
the atomic one of `ReplayGuard`, which `CounterRing` implements. Both ends have
the key (`keyed`) or neither has. `SensorCalls.tla` is the abstract
specification: what the worker and all behind it promise the callers of
`SensorActor`.

| Module | Code |
|---|---|
| `host` | the worker thread: where it is, its request, `client_counter` (`next`), the counter and sequence number of the command in hand, reopen attempts, `already_retried` |
| `disk`, `lost` | `state.json`, and what it was before the last rename |
| `answer` | what the request's oneshot was sent: whose output it was, or an error |
| `down`, `up` | lines under way; `up` includes the kernel's queue and `rx_buf` |
| `nano`, `last` | the firmware and its `ee_load_counter` |
| `file`, `sent`, `started` | history: whether `state.json` ever lost its counter or was resynced; counters that went out; how often the Nano set to work on a request |

| Code | Actions |
|---|---|
| `SensorActor::spawn`, worker loop | `Start`, `Take`, `OpenFails`, `FatalIo` |
| `R503::open`, `sync`, `apply_auth` | `Open`, `Ping`, `SkipLine`, `PongTimeout`, `ReadPong`, `ReadPongNoState` |
| `execute_framed`, `execute_unframed` | `CounterExhausted`, `Persist`, `SendFrame`, `SendPlain`, `ReadProgress`, `ReadFinal`, `ReadMisfit`, `ReplyTimeout` |
| `run_resync` | `Resync` |
| `setup`, `process_line`, `LineFramer` | `Ready`, `AnswerPing`, `Execute`, `Refuse`, `Reject`, `Progress`, `Finish` |
| outside | `Kill`, `LoseUp`, `LoseDown`, `NanoReset`, `PowerLoss` |

What was merged or abstracted:

* A line carries its counter, its sequence number and, as history, the request
  it belongs to; a damaged one is `noise`. The MAC is why noise is never taken
  for a frame.
* Clearing `rx_buf` and the kernel's queue leaves any suffix of `up`: what is
  still on the wire, or in the Nano's output buffer, arrives later.
* A deadline may pass at any time, so every reply may be late.
* Opening the port may reset the Nano (DTR), with or without what it has not
  read. `setup()` is one step and one line, which may come at any time after.
* `--resync` runs with the daemon stopped. Its `status` is answered after all
  the Nano still had to read, so the exchange is one step there.
* `state::save` is one step. The worker is its only writer, so no two saves
  overlap; a kill before the rename leaves the old file, as a kill before
  `Persist` does. A failed save is a fatal I/O error (`FatalIo` at `exec`). The
  directory is not synced: a power loss may take back the last rename, but not
  an earlier one, which the next save's fsync has committed.
* The `info` probe of a starting daemon is one of the requests.
* An I/O error that is not fatal ends the request as a timeout does.

Properties:

* `FramesAccepted`: unless `state.json` was lost, refused or taken back, the
  Nano refuses no frame that reaches it, whatever was killed, lost, retried or
  resynced, up to the last counter below the ceiling.
* `CountersFresh`: no counter goes out twice.
* `ReplyIsOwn`: with a key, the answer a request gets is the Nano's answer to
  that very request: not a late one, a pong, or a line of `setup()`.
* `ImplementsCalls`: one request at a time is served and each is answered once.
  An answer that is no error comes after the Nano began on that request and,
  while the counters are in step on a link with a key, is the Nano's own answer
  to it; otherwise (`Misread`) it may be a line of another request or of none.
  The Nano may begin on a request the worker has given up, but never more often
  than its limit. The map: `current` is the worker's request, `started` the
  history variable, `trusted` is `keyed` and a `file` that kept its counter.
* `NanoIsGuard`: `last` and the counter of the command the Nano is carrying out
  follow `ReplayGuard`, even after `state.json` lost its counter and old ones
  went out again: whatever the host does, nothing runs under a counter that is
  not above all the Nano has seen. `Accepts` is the check that decides it.
* `StartsBounded`: a transparent retry makes the Nano begin an idempotent
  request at most twice, and an enroll never again.
* `RequestsAnswered`: the worker always comes back to its queue.

| Run | Instance | Result |
|---|---|---|
| `channel_framed` | an enroll and another request, ceiling 3, 2 pings, 2 reopen attempts, 2 lines each way, 1 PROGRESS line, 2 faults | all hold, the two refinements included; 1,474,163 states |
| `channel_resync` | the same | `ResyncForward` violated |

Bounds. Two requests are what a late answer needs. Ceiling 3 leaves two
counters, so a retry or a second daemon meets exhaustion. Two faults let the
second hit the recovery from the first. A line that does not fit is dropped, as
the buffers on the way do; two lines are a command behind a ping, or an answer
behind a stray line. Once all requests are answered nothing happens: deadlock
checking is off.

Fairness. `WF_vars(Worker)`: the thread runs, and its deadlines pass. Nothing is
assumed of the Nano, the line or the service manager. Weak fairness of the
whole worker is enough, because each of its loops is bounded in the code:
pings by the 8 seconds, opens by `REOPEN_ATTEMPTS`, retries by
`already_retried`; lines that keep coming are bounded by the commands.

`channel_resync` is a disagreement with the doc of `run_resync` ("resync can
only ever move the host's counter *forward*"). Met while modelling, and in the
model's steps, but with no property of their own:

* `state.rs` says that a garbled or insecure `state.json` is rejected loudly;
  `apply_auth` drops that error and starts at 1, and the next command
  overwrites the file (`ReadPongNoState`). The Nano then refuses what follows;
  and as counters are used again, a late answer can be taken for another
  request's. This is why three properties speak of `file`.
* Without a key, a late `OK pong`, or the `OK fw=...` of a booting Nano, is
  taken for the answer to a command: nothing in a plain line tells.

## 6. Pairing: keys, key files and the administrator's flows

`KeyFiles.tla` says what the functions of `keystore.rs`, `tpm.rs` and
`state.rs` do to the host's files; `Pairing.tla` runs the flows of `pairing.rs`
over them, against the pairing record of `firmware/r503fp/eeprom.h`.

| Module | Code |
|---|---|
| `files` | `/var/lib/r503d/key`, its backup, `key.tpm`, `state.json`, and `/etc/r503d/allow-pair`, as processes see them |
| `medium` | the same files as a power loss would leave them |
| `boot` | the PCR values since the last boot |
| `ee` | `ee_is_paired`, the key region, the highest counter of the ring |
| `nano` | where the firmware's `handlePair`, `handleUnpairFramed` is, and its key |
| `wire`, `reply` | the line on its way to the Nano, and back |
| `cli` | the flow that runs: which, at which step, the key it holds, the `key.tpm` to be |
| `reported`, `optIn`, `warned` | history: the key of the pairing last reported complete; whether `allow-pair` was given, or brought back by a power loss, since a flow last passed it; whether a shred failed and no sync has followed the deletion |

| Code | Actions |
|---|---|
| checks of `run_pair`, `run_reseal_tpm`, `run_reseal_policy`, `run_unpair` | `BeginPair`, `BeginReseal`, `PairAgain`, `BeginPolicy`, `BeginUnpair` |
| the dialogue | `CloseGate`, `SendPair`, `SpendCounter`, `SendUnpair`, `Answered`, `Confirm`, `Bail` |
| `save_key`, `save_key_sealed_with_pcrs`, `persist_sealed_blob` | `RenameKey`, `CopyKey`, `SealKey`, `Verify`, `Persist` |
| `delete_key`, `delete_sealed_key`, `state::delete`, `State::fresh` | `DeleteKey`, `DeleteRest`, `FreshState` |
| `process_line`, `ee_save_pairing`, `ee_wipe` | `Receive`, `SavePairing`, `WipePairing` |
| the daemon, `r503fp_wipe.ino`, the administrator, `reseal-tpm.sh` | `DaemonCommand`, `WipeSketch`, `Touch` |
| outside | `LoseLine`, `NanoReset`, `WriteBack`, `Kill`, `PowerLoss` |

Assumptions, and what was merged:

* One flow runs at a time, and a flow that talks to the Nano and the daemon take
  turns on the exclusive port. `--reseal-policy` never opens it, so the daemon
  may work beside it.
* `sync_all` makes every rename and unlink before it durable, as journalling
  file systems do, and nothing else does but the kernel's own write-back. It
  does not sync the contents of the backup, which `fs::copy` has written: a
  power loss may leave it empty (`Synced`).
* `shred_file` may fail, before its bytes are written or when they are synced;
  `delete_key` logs that, goes on to the unlink and returns Ok
  (`keystore.rs:223-225`). `warned` remembers it until a sync after the deletion.
* A temporary file and its sync are one step with the rename; a kill before the
  rename leaves a file nobody reads.
* A TPM may fail at any call (`Bail`), or give a blob that does not hold the key
  (`Garbled`). A blob bound to PCRs unseals when they have the values they were
  sealed under. One PCR with two values is enough to tell a blob that unseals
  from one that does not.
* A framed command of the daemon is one step: `CommandChannel` has its detail.
* The wipe sketch runs to its end, or is cut after the magic, where it starts.
* A reset inside an EEPROM region leaves the old bytes or a mix (`Torn`); in the
  ring any lower counter, or none.
* `getrandom` gives a key nobody has (`FreshKey`).

Left out: unlinks that fail (`delete_key` then returns an error, which the callers
drop with `.ok()` or bail out on), temporary files and renames that cannot be
written, files with loose permissions (`read_key_file_guarded` then refuses to start), a
`key.tpm` too short for `deserialize_blob`.

Properties:

* `PairingKept`: from the moment `paired` is printed until the Nano's record is
  wiped, the Nano has the key of that pairing and the host has it too, in the
  plaintext file or in `key.tpm`, as processes see them and on the medium. It is
  what `--reseal-policy` risks when it replaces the only copy, and what a failing
  TPM, a kill or a power loss between its writes must not break.
* `InStep`: the next counter of `state.json` is never below the last one
  accepted by the Nano whose key the host has. Deleting the state, starting it
  again at 1, and the ring a pairing has to clear (`ee_save_pairing` clears it
  last) must fit together under every interruption.
* `GateSpent`: what the removal of `allow-pair` does give. An attempt goes on to
  send a key only if the marker was given, or brought back by a power loss, after
  the attempt before it passed the gate, however that one ended. Once `paired` is
  reported, the removal has been synced along with the key files: the marker is
  back, in the files or on the medium, only if the administrator set it again.
* `DeletedForGood`: once `delete_key` has returned, no process finds a plaintext
  key; and unless a shred failed, in this deletion or in an earlier one that no
  sync has followed, none can be read after a power loss that takes the unlinks
  back. After a failed shred the code gives no such guarantee.

| Run | Instance | Result |
|---|---|---|
| `pairing_faults` | 2 keys, 1 PCR with 2 values, ceiling 3; the shred of the backup may fail | `TypeOK`, `PairingKept`, `InStep`, `GateSpent`, `DeletedForGood` hold; 3,078,488 states |
| `pairing_gate` | the same, no shred fails | `OneKeyPerOptIn` violated |
| `pairing_rotation` | the same, no shred fails | `RotationWorks` violated |

Bounds. Nothing bounds the number of flows, kills, power losses, resets or lost
lines: keys are used again once no file and no EEPROM has them, and counters end
at the ceiling. Ceiling 3 leaves the counters 1 and 2 to spend: one command before
the unpair, or one that a power loss takes back and that is spent again, and the
refusal at the ceiling. `Failing` names the shreds that may fail in an instance;
`delete_key` treats its two files alike, and the run takes the backup, which
`save_key` leaves read-only. The proofs hold for either, both or none. Two keys are the old and the new one of a re-pairing. Keys and
PCR values are symmetric. There is no fairness: no property asks a flow to end.

`OneKeyPerOptIn` is what `README.md:184-187` and the comment at
`pairing.rs:309-315` claim: after a crash the next attempt needs a new `touch`.
`remove_allow_pair` does not sync the directory, so a power loss can bring the
marker back (`optIn` is then `"revived"`), and the next attempt passes the gate
with no new opt-in. A kill alone, or an attempt that ended in `paired`, does not
have that effect (`GateSpent`).

`PairingRotation.tla` follows the key rotation of `README.md:280-292`
through `Pairing` with a history variable. `--unpair` times out after the Nano
has wiped itself; the second `--unpair` finds it unpaired, calls `delete_key`
alone and reports success; `key.tpm` is still there, and is what the daemon will
load after the plain `--pair` that follows.

Met while modelling, in the model's steps, with no property of their own:

* The comment at `pairing.rs:309-315` says that a failed pairing is retried
  after `--unpair` and a new `touch`. If the Nano did store the key, `--unpair`
  bails because the host has none (`pairing.rs:597-608`); the way back is the
  wipe sketch.
* `--seal-tpm-pcrs` is parsed, and the new blob made, only after the Nano has
  stored the key (`pairing.rs:330-341`); nothing unseals it before success is
  printed. `reported` therefore counts only blobs that hold the key.

## 7. Proofs

All theorems hold for every value of the constants that satisfies the named
assumptions; each is checked by TLAPS down to its leaves.

`FprintDeviceProofs.tla`, from `ConstantsAssumption` and `NoneAssumption` (the
constants have their types and the null values are no real values). A property
such as `RowsOwnTemplates` is not inductive: a step of a stopped enroll keeps it
only if nobody else was given its slot meanwhile. The inductive invariant `IInv`
is the conjunction of

* `TypeOK` and `ShapeInv`: an invocation at a given point has the locals the
  code has there;
* `PermitInv`: permits out and permits available add up to one, so two
  invocations never both hold it;
* `TokenInv`, `ActionBacked`: epochs are unique and below the next one, and the
  action slot's token belongs to a live invocation;
* `QueueInv`: a request in the worker's queue and the task that waits for it
  belong together, and its capture's permit is out;
* `EnrollInv`, `StoredInv`: between `allocate_slot` and `set_slot` the slot of
  an enroll belongs to no other row, and once stored its template is there or
  gone but not another's;
* `VerifyInv`: the answer a verify holds was right when it was given;
* `SlotsUnique`, `RowsOwnTemplates`, `MatchIsOwn`.

Each action has a lemma about its effects; each conjunct has a lemma that cites
them. `Invariance` gives `TypeCorrect`, `NoSharedSlot`, `NoForeignTemplate`,
`MatchTrue`, `ActionOwned` and `CaptureExclusion`; `VerdictIsolation` follows
from the guard on the token and, for `enroll-data-full`, which has no such guard,
from the permit: two invocations with a capture session would both hold it
(`OneCaptureSession`).

`DeviceOperationsProofs.tla` extends it with the refinement
(`OperationsImplemented`). `TokenFlow` says that a step of an invocation mints a
token, cancels the slot's, keeps its own, winds up, emits, or has nothing to do
with tokens, and `RefusalFlow` which steps lead through the refusal of an enroll;
each of these maps to one action of `DeviceOperations` or to a
stutter (`ProcImplements`). Calls and the worker stutter, `Release` and the
watcher are `Cancel` or stutter. `IInv` does not say why an operation under way
is not in the slot: `LostInv` adds that it was cancelled (`LostOnlyByCancel`),
which `Abandon` needs. That two captures never overlap comes from `PermitInv` in
the state after the step (`StartIsFree`); that winding up takes exactly one
token away, from the uniqueness of epochs (`Apart`).

`RegistryFileProofs.tla`, from `FileAssumption` and, in every theorem, from
`Serial`: there are never two callers. `FileInv` says of a save in progress how
far the rows have come (`SaveInv`) and of `users.json` that it and its durable
copy are one whole registry (`MediumInv`); `BootReads` is part of it.
`SerialSavesAreAtomic` maps every step to a step of `AtomicRegistry` or a
stutter: `Rename` is `Publish` (or `Ready` at boot), `Commit` is `Flush`.
`LabelsStayTrue` needs `LabelInv` on top: unless a save is under way the file is
equal to the rows, so a slot that is free in memory is free in the file a
restart would read.

`CounterRingProofs.tla`, from `RingAssumption` (at least two cells; the marks for
erased and torn bytes are no counters). `Load` is defined with CHOOSE, so the
invariant `WriteInv` carries along that a valid cell with the highest counter
exists whenever any cell is valid; no induction over the ring is needed. It also
says that the cell being written is not that one. `TornIsHarmless` and
`WrittenIsMax` then say what the two writes do to `Load`: nothing, and make it
the new counter. `CountersRunOnce` and `RingIsAtomic` follow.

`CommandChannelProofs.tla`, from `ChannelAssumption`. That the Nano accepts what
the host sends says nothing about lines that are still under way, so `IInv` adds
the order of everything between the two counters: `last` < commands under way,
in increasing order < the command in hand < `disk` (`AheadInv`); what comes up
bears a counter the Nano has seen (`NanoInv`), hence never the one about to be
sent; and what bears the counter in hand belongs to the request in hand
(`OwnInv`). Most steps use up no counter: they are `Quiet` (they may shorten or
damage a queue, append a line that is in step, or leave the port), and
`QuietKeeps` shows once for all of them that `IInv` is kept. Only `Persist`,
`SendFrame`, `SendPlain`, `Execute` and `Resync` have lemmas of their own.
`ChannelAccepts`, `ChannelFresh` and `ChannelReplies` follow. `ChannelGuards`
shows `NanoIsGuard` from the same invariant; with `RingIsAtomic` of
`CounterRingProofs`, which puts the EEPROM ring below the same `ReplayGuard`, the
counter this module takes for atomic is one the byte-wise writes give.

`CommandCallsProofs.tla` extends it with what callers see. That the Nano begins
no request too often is not inductive: nothing in `started` says how many
commands for it are still on the line, nor what the worker may yet send.
`CallsInv` adds

* `ServingInv`: the request in hand has no answer yet, and a worker without an
  open port or at its queue has none in hand;
* `BegunInv`: a command under way belongs to the request in hand or to one that
  was given up, and the Nano speaks only of requests it has begun;
* `BudgetInv`: for each request, `started`, the commands for it on the line
  (`Commands`) and the sends the worker has left (`Left`: none once it is
  answered, else by where the worker is and whether `already_retried`) are
  together at most the limit. The commands are counted as the cardinality of a
  set of positions, so no induction over the queue is needed.

`SendKeeps` moves one from `Left` to `Commands`, `ExecuteBegins` one from
`Commands` to `started`; every other step is `Calm`, and can only lower the sum.
`CallsInvariance`, `ChannelStarts` (`StartsBounded`) and `ChannelServes`
(`ImplementsCalls`) follow.

`PairingProofs.tla`, from `KeyFilesAssumption`, `BlobAssumption` and
`PairingAssumption` (the marks for missing, garbled, blank and torn contents are
no keys, and no two of them that the code tells apart are the same). `IInv` is
the conjunction of

* `TypeInv`: types, which flow is at which step (`Shape`), the counter an unpair
  has checked and spent;
* `LinkInv`: at most one line is under way; what the Nano is doing for a flow is
  what that flow asked for; after `Confirm` the Nano has the key the flow holds;
* `GateInv`: a marker in the files, or a flow at the gate, has its opt-in, given or
  revived; a flow that has passed the gate finds no revived one;
* `ShredInv`: a deletion leaves no plaintext key behind the point it has reached,
  and unless a shred failed what is no key in the files is none on the medium;
* `MoveInv`, `UndoInv`, `PairingKept`: where the key is while a flow moves it,
  and that no pairing counts as reported while one is being replaced. Without
  `MoveInv` nothing would say that the blob `Persist` renames over the old one
  holds the same key;
* `BehindInv`, `FlowInv`: any file set the host may come to have, now or after a
  power loss, that holds the Nano's key has a counter not below the Nano's, nor
  below one under way; a key on its way to the Nano is in no file.

`WriteFields`, `SyncedFields` and `WithinFacts` say once what a write or a sync
keeps. Each part has a lemma with one step per action, `PairingInvariance` puts
them together, and `PairingTypes`, `KeyKept`, `CountersInStep`, `GateHolds`
and `ShredHolds` follow.

Every invariant, action property and refinement of a passing run is a theorem.
Only model-checked: `CallsReturn`, `ActionsEnd` and `RequestsAnswered` (liveness
under fairness is out of the prover's reach), and the violation runs.

The leaves are small: every proof also goes through with a fifth of the provers'
default time (`tlapm --nofp --stretch 0.2`), so they do not depend on a fast or
idle machine.

## 8. Plan

What is left, most important first:

1. The worker inside `FprintDevice` (`ServeEnroll`, `ServeVerify`, `ServeDelete`)
   as an instance of `SensorCalls`, so that the two models meet in one abstract
   specification: a FIFO in front of it, and the flash behind `started`.
2. `RegistryFile` without `Serial`: which part of `FileInv` survives two saves
   that overlap.
3. A way back: from every state of `Pairing`, which flows lead to a working
   pairing. It needs fairness of an administrator, who is no part of the code.

## 9. Not modelled, and why

* `crypto.rs` and `siphash.h`: fixed arithmetic with published test vectors;
  the models take a MAC as something only a key holder can produce.
* `tpm.rs`: the sessions, templates and byte layout behind the calls; `KeyFiles`
  has which blob unseals when.
* `--status` and the checks that only read.
* `auth.rs`: one stateless decision per call.
* `error.rs`, D-Bus properties, logging, the Manager object: no state.
* `r503ctl.py`, install scripts, bench sketches, examples and fuzz targets:
  outside the running system. Where they touch its state (the wipe sketch, the
  marker that `reseal-tpm.sh` sets) they are environment steps of `Pairing`.
