------------------------------ MODULE Pairing -------------------------------
(***************************************************************************)
(* The administrator's one-shot flows (pairing.rs) `--pair`, `--pair       *)
(* --seal-tpm`, `--reseal-tpm`, `--reseal-policy` and `--unpair`, on the   *)
(* host's key files and the pairing record of the Nano (eeprom.h,          *)
(* r503fp.ino).  One flow runs at a time.  The host may kill it or lose    *)
(* power between any two of its writes, the Nano may be reset between any  *)
(* two of its own, and a line may be lost in either direction.             *)
(*                                                                         *)
(* One write of a file, one sync or one region of the EEPROM is a step;    *)
(* the port is exclusive, so the daemon and a flow take turns on it.       *)
(***************************************************************************)
EXTENDS KeyFiles

CONSTANTS
  Blank,     \* a key region of 0xFF bytes
  Torn,      \* some bytes of one key and some of another
  Failing    \* BOUND: which shreds may fail here, of "shredKey" and "shredBak"

ASSUME PairingAssumption ==
  /\ Blank \notin Keys /\ Torn \notin Keys
  /\ None \notin { Blank, Torn, "OK paired", "OK unpaired", "ERR" }
  /\ Garbled \notin { Blank, Torn }

VARIABLES
  files,     \* the host's files, as a process sees them
  medium,    \* the files a power loss leaves
  boot,      \* the PCR values of this boot
  ee,        \* EEPROM: ee_is_paired, the key, the highest counter of the ring
  nano,      \* the firmware's handler: the region it writes next, the key
  wire,      \* a line on its way to the Nano
  reply,     \* the reply line on its way to the host
  cli,       \* the flow that runs: its step, the key it holds, key.tpm-to-be
  reported,  \* history: the key of the pairing last reported complete
  optIn,     \* history: what put allow-pair there since a flow last passed it
  warned     \* history: a shred failed, and no sync has followed the deletion

vars == << files, medium, boot, ee, nano, wire, reply, cli, reported, optIn,
           warned >>

Ready == [at |-> "ready", key |-> None]
Off == [flow |-> "none", pc |-> "off", key |-> None, blob |-> None]

PairLine(key) == [verb |-> "pair", key |-> key, ctr |-> None]
UnpairFrame(key, ctr) == [verb |-> "unpair", key |-> key, ctr |-> ctr]

\* Nobody is at work on the link: a flow or the daemon can open it.
LinkQuiet == nano = Ready /\ wire = None /\ reply = None

Goto(pc) == cli' = [cli EXCEPT !.pc = pc]

\* The steps of delete_key.
Deleting == { "shredKey", "unlinkKey", "shredBak", "unlinkBak" }

\* The warning is history once the files are on the medium again.
Settle == warned' = (warned /\ cli.pc \in Deleting)

Sync == medium' \in Synced(medium, files) /\ Settle

-----------------------------------------------------------------------------
(* The start of a flow: its checks up to the first write *)

Begin(flow, pc, key) ==
  /\ cli = Off
  /\ cli' = [flow |-> flow, pc |-> pc, key |-> key, blob |-> None]

\* A key nobody has: getrandom does not repeat itself.
FreshKey(key) ==
  /\ key # ee.key /\ key # nano.key /\ key # reported
  /\ \A f \in { files, medium } : ~Keeps(f, key) /\ f.bak # key

\* run_pair up to generate_key; seal is --seal-tpm.
BeginPair(flow, key) ==
  /\ flow \in { "pair", "sealed" }
  /\ LinkQuiet
  /\ files.allow /\ ~ee.magic
  /\ FreshKey(key)
  /\ Begin(flow, "gate", key)
  /\ UNCHANGED << files, medium, boot, ee, nano, wire, reply, reported, optIn, warned >>

\* run_reseal_tpm up to the purge of the old pairing.
BeginReseal ==
  /\ LinkQuiet
  /\ files.allow /\ ~ee.magic
  /\ Begin("reseal", "shredKey", None)
  /\ UNCHANGED << files, medium, boot, ee, nano, wire, reply, reported, optIn, warned >>

\* run_reseal_tpm calls run_pair, which checks everything again.
PairAgain(key) ==
  /\ cli.pc = "pairAgain"
  /\ LinkQuiet
  /\ files.allow /\ ~ee.magic
  /\ FreshKey(key)
  /\ cli' = [flow |-> "sealed", pc |-> "gate", key |-> key, blob |-> None]
  /\ UNCHANGED << files, medium, boot, ee, nano, wire, reply, reported, optIn, warned >>

\* run_reseal_policy: load_key_with_source.  It never opens the port.
BeginPolicy ==
  LET key == LoadKey(files, boot)
  IN /\ key \in Keys
     /\ Begin(IF files.tpm = None THEN "policyPlain" ELSE "policy", "seal", key)
     /\ UNCHANGED << files, medium, boot, ee, nano, wire, reply, reported, optIn, warned >>

\* Faulty variant: the reserved ceiling is not checked.
BeginUnpairUnbounded ==
  LET key == LoadKey(files, boot)
  IN /\ LinkQuiet
     /\ key \in Keys
     /\ \/ ee.magic /\ Begin("unpair", "spend", key)
        \/ ~ee.magic /\ Begin("tidy", "shredKey", key)
     /\ UNCHANGED << files, medium, boot, ee, nano, wire, reply, reported, optIn, warned >>

\* run_unpair: the key, the status, and the counter below the ceiling.  An
\* unpaired Nano leaves only delete_key to do.
BeginUnpair ==
  LET key == LoadKey(files, boot)
  IN /\ LinkQuiet
     /\ key \in Keys
     /\ \/ ee.magic /\ NextCounter(files) < Ceiling /\ Begin("unpair", "spend", key)
        \/ ~ee.magic /\ Begin("tidy", "shredKey", key)
     /\ UNCHANGED << files, medium, boot, ee, nano, wire, reply, reported, optIn, warned >>

-----------------------------------------------------------------------------
(* The dialogue with the Nano *)

\* Faulty variant: the marker outlives the attempt.
CloseGateLeft ==
  /\ cli.pc = "gate"
  /\ optIn' = "none"
  /\ Goto("send")
  /\ UNCHANGED << files, medium, boot, ee, nano, wire, reply, reported, warned >>

\* remove_allow_pair, right before the key goes out; nothing syncs the removal.
CloseGate ==
  /\ cli.pc = "gate"
  /\ files' = Closed(files)
  /\ optIn' = "none"
  /\ Goto("send")
  /\ UNCHANGED << medium, boot, ee, nano, wire, reply, reported, warned >>

\* cmd_labeled("pair <key>")
SendPair ==
  /\ cli.pc = "send" /\ cli.flow \in { "pair", "sealed" }
  /\ wire' = PairLine(cli.key)
  /\ Goto("wait")
  /\ UNCHANGED << files, medium, boot, ee, nano, reply, reported, optIn, warned >>

\* state::save(counter + 1) before the send.
SpendCounter ==
  /\ cli.pc = "spend"
  /\ Sync
  /\ files' = StateSaved(files, NextCounter(files) + 1)
  /\ Goto("send")
  /\ UNCHANGED << boot, ee, nano, wire, reply, reported, optIn >>

\* encode_command(counter, "unpair")
SendUnpair ==
  /\ cli.pc = "send" /\ cli.flow = "unpair"
  /\ wire' = UnpairFrame(cli.key, NextCounter(files) - 1)
  /\ Goto("wait")
  /\ UNCHANGED << files, medium, boot, ee, nano, reply, reported, optIn, warned >>

\* The reply is the one the flow waits for.
Answered ==
  /\ cli.pc = "wait"
  /\ reply = (IF cli.flow = "unpair" THEN "OK unpaired" ELSE "OK paired")
  /\ reply' = None
  /\ Goto("confirm")
  /\ UNCHANGED << files, medium, boot, ee, nano, wire, reported, optIn, warned >>

\* The status asked again, and what the flow does next.
Confirm ==
  /\ cli.pc = "confirm" /\ LinkQuiet
  /\ ee.magic = (cli.flow # "unpair")
  /\ Goto(CASE cli.flow = "pair" -> "rename"
            [] cli.flow = "sealed" -> "seal"
            [] cli.flow = "unpair" -> "shredKey")
  /\ UNCHANGED << files, medium, boot, ee, nano, wire, reply, reported, optIn, warned >>

\* A timeout, a refusal, a TPM error or a bad --seal-tpm-pcrs: bail!.
Bail ==
  /\ cli.pc \in { "wait", "confirm", "seal", "verify", "pairAgain" }
  /\ cli' = Off
  /\ UNCHANGED << files, medium, boot, ee, nano, wire, reply, reported, optIn, warned >>

-----------------------------------------------------------------------------
(* The host's copy of the key *)

\* save_key: the temporary file is synced, then renamed.
RenameKey ==
  /\ cli.pc = "rename"
  /\ Sync
  /\ files' = KeyRenamed(files, cli.key)
  /\ Goto("copy")
  /\ UNCHANGED << boot, ee, nano, wire, reply, reported, optIn >>

\* save_key: fs::copy, in two steps; nothing syncs the backup.
CopyKey ==
  /\ \/ cli.pc = "copy" /\ files' = BackupOpened(files) /\ Goto("fill")
     \/ cli.pc = "fill" /\ files' = BackupFilled(files) /\ Goto("fresh")
  /\ UNCHANGED << medium, boot, ee, nano, wire, reply, reported, optIn, warned >>

\* seal_key_with_pcrs, seal_key_no_policy.  The TPM may give a blob that does
\* not hold the key.
SealKey(policy) ==
  /\ cli.pc = "seal"
  /\ cli.flow = "sealed" => policy # NoPolicy
  /\ \E sealed \in { cli.key, Garbled } :
       cli' = [cli EXCEPT !.blob = Seal(sealed, policy, boot),
                          !.pc = IF cli.flow = "sealed" THEN "persist" ELSE "verify"]
  /\ UNCHANGED << files, medium, boot, ee, nano, wire, reply, reported, optIn, warned >>

\* Faulty variant: the new blob is not unsealed before it replaces the old one.
VerifySkipped ==
  /\ cli.pc = "verify"
  /\ Goto("persist")
  /\ UNCHANGED << files, medium, boot, ee, nano, wire, reply, reported, optIn, warned >>

\* run_reseal_policy: "verify BEFORE touching disk"
Verify ==
  /\ cli.pc = "verify"
  /\ Unseal(cli.blob, boot) = cli.key
  /\ Goto("persist")
  /\ UNCHANGED << files, medium, boot, ee, nano, wire, reply, reported, optIn, warned >>

\* persist_sealed_blob; a policy changed from key.tpm to key.tpm ends there.
Persist ==
  /\ cli.pc = "persist"
  /\ Sync
  /\ files' = BlobRenamed(files, cli.blob)
  /\ IF cli.flow = "policy" THEN cli' = Off ELSE Goto("shredKey")
  /\ UNCHANGED << boot, ee, nano, wire, reply, reported, optIn >>

-----------------------------------------------------------------------------
(* The deletions, one file after the other *)

\* Faulty variant: the 0xFF bytes stay in the page cache.
ShredUnsynced(file, shredded, pc) ==
  /\ files' = shredded
  /\ UNCHANGED << medium, warned >>
  /\ Goto(pc)

\* shred_file syncs the bytes it has written, and with them the renames so far.
\* A failure, before or after the bytes are written, is logged; the deletion
\* goes on.
Shred(file, shredded, pc) ==
  /\ \/ /\ files' = shredded
        /\ medium' \in IF file = None THEN { medium } ELSE Synced(medium, shredded)
        /\ UNCHANGED warned
     \/ /\ cli.pc \in Failing /\ file # None
        /\ files' \in { files, shredded }
        /\ warned' = TRUE
        /\ UNCHANGED medium
  /\ Goto(pc)

\* What follows delete_key.
AfterKeys ==
  CASE cli.flow \in { "unpair", "reseal" } -> [cli EXCEPT !.pc = "unlinkBlob"]
    [] cli.flow = "sealed" -> [cli EXCEPT !.pc = "fresh"]
    [] OTHER -> Off

\* delete_key; the backup after the key.
DeleteKey ==
  /\ \/ cli.pc = "shredKey" /\ Shred(files.key, KeyShredded(files), "unlinkKey")
     \/ /\ cli.pc = "unlinkKey"
        /\ files' = KeyRemoved(files)
        /\ Goto("shredBak")
        /\ UNCHANGED << medium, warned >>
     \/ cli.pc = "shredBak" /\ Shred(files.bak, BakShredded(files), "unlinkBak")
     \/ /\ cli.pc = "unlinkBak"
        /\ files' = BakRemoved(files)
        /\ cli' = AfterKeys
        /\ UNCHANGED << medium, warned >>
  /\ UNCHANGED << boot, ee, nano, wire, reply, reported, optIn >>

\* delete_sealed_key, then state::delete
DeleteRest ==
  /\ \/ cli.pc = "unlinkBlob" /\ files' = BlobRemoved(files) /\ Goto("unlinkState")
     \/ /\ cli.pc = "unlinkState"
        /\ files' = StateRemoved(files)
        /\ IF cli.flow = "reseal" THEN Goto("pairAgain") ELSE cli' = Off
  /\ UNCHANGED << medium, boot, ee, nano, wire, reply, reported, optIn, warned >>

\* state::save(State::fresh()), and `paired` is printed.  A blob the TPM
\* spoilt is not read back: the pairing is then no key the host can count on.
FreshState ==
  /\ cli.pc = "fresh"
  /\ Sync
  /\ files' = StateSaved(files, 1)
  /\ cli' = Off
  /\ reported' = IF cli.blob # None /\ cli.blob.key # cli.key THEN None ELSE cli.key
  /\ UNCHANGED << boot, ee, nano, wire, reply, optIn >>

CliStep ==
  \/ \E key \in Keys : PairAgain(key)
  \/ CloseGate \/ SendPair \/ SpendCounter \/ SendUnpair
  \/ Answered \/ Confirm \/ Bail
  \/ RenameKey \/ CopyKey
  \/ \E policy \in Policies : SealKey(policy)
  \/ Verify \/ Persist \/ DeleteKey \/ DeleteRest \/ FreshState

-----------------------------------------------------------------------------
(* The firmware: process_line, handlePair, handleUnpairFramed, and the       *)
(* EEPROM region after region                                                *)

Answer(line) == reply' = line /\ nano' = Ready

\* process_line up to the handler; an accepted frame commits its counter.
Receive ==
  /\ wire # None /\ nano = Ready
  /\ wire' = None
  /\ \/ /\ wire.verb = "pair" /\ ~ee.magic
        /\ nano' = [at |-> "magic", key |-> wire.key]
        /\ UNCHANGED << ee, reply >>
     \/ /\ wire.verb = "unpair" /\ ee.magic
        /\ wire.key = ee.key /\ wire.ctr > ee.last /\ wire.ctr < Ceiling
        /\ ee' = [ee EXCEPT !.last = wire.ctr]
        /\ nano' = [at |-> "wipeMagic", key |-> None]
        /\ UNCHANGED reply
     \/ /\ IF wire.verb = "pair" THEN ee.magic
           ELSE \/ ~ee.magic \/ wire.key # ee.key
                \/ wire.ctr <= ee.last \/ wire.ctr >= Ceiling
        /\ Answer("ERR")
        /\ UNCHANGED ee
  /\ UNCHANGED << files, medium, boot, cli, reported, optIn, warned >>

\* Faulty variant: the counters of the last pairing stay in the ring.
SavePairingKeepsRing ==
  /\ \/ /\ nano.at = "magic"
        /\ ee' = [ee EXCEPT !.magic = TRUE]
        /\ nano' = [nano EXCEPT !.at = "key"]
        /\ UNCHANGED reply
     \/ /\ nano.at = "key"
        /\ ee' = [ee EXCEPT !.key = nano.key]
        /\ Answer("OK paired")
  /\ UNCHANGED << files, medium, boot, wire, cli, reported, optIn, warned >>

\* ee_save_pairing: the magic and the format, the key, the ring.
SavePairing ==
  /\ \/ /\ nano.at = "magic"
        /\ ee' = [ee EXCEPT !.magic = TRUE]
        /\ nano' = [nano EXCEPT !.at = "key"]
        /\ UNCHANGED reply
     \/ /\ nano.at = "key"
        /\ ee' = [ee EXCEPT !.key = nano.key]
        /\ nano' = [nano EXCEPT !.at = "ring"]
        /\ UNCHANGED reply
     \/ /\ nano.at = "ring"
        /\ ee' = [ee EXCEPT !.last = 0]
        /\ Answer("OK paired")
  /\ UNCHANGED << files, medium, boot, wire, cli, reported, optIn, warned >>

\* ee_wipe
WipePairing ==
  /\ \/ /\ nano.at = "wipeMagic"
        /\ ee' = [ee EXCEPT !.magic = FALSE]
        /\ reported' = None
        /\ nano' = [nano EXCEPT !.at = "wipeKey"]
        /\ UNCHANGED reply
     \/ /\ nano.at = "wipeKey"
        /\ ee' = [ee EXCEPT !.key = Blank]
        /\ nano' = [nano EXCEPT !.at = "wipeRing"]
        /\ UNCHANGED << reply, reported >>
     \/ /\ nano.at = "wipeRing"
        /\ ee' = [ee EXCEPT !.last = 0]
        /\ Answer("OK unpaired")
        /\ UNCHANGED reported
  /\ UNCHANGED << files, medium, boot, wire, cli, optIn, warned >>

\* What a reset in the middle of a region leaves.
Interrupted ==
  CASE nano.at \in { "key", "wipeKey" } ->
         { [ee EXCEPT !.key = k] : k \in { ee.key, Torn } }
    [] nano.at \in { "ring", "wipeRing" } ->
         { [ee EXCEPT !.last = c] : c \in 0 .. ee.last }
    [] OTHER -> { ee }

ResetNano ==
  /\ ee' \in Interrupted
  /\ nano' = Ready
  /\ wire' = None /\ reply' = None

-----------------------------------------------------------------------------
(* The rest of the world *)

\* A line is lost, or nobody reads it any more.
LoseLine ==
  /\ \/ wire # None /\ wire' = None /\ UNCHANGED reply
     \/ reply # None /\ reply' = None /\ UNCHANGED wire
  /\ UNCHANGED << files, medium, boot, ee, nano, cli, reported, optIn, warned >>

\* Its USB power, or the DTR line when somebody opens the port.
NanoReset ==
  /\ nano # Ready
  /\ ResetNano
  /\ UNCHANGED << files, medium, boot, cli, reported, optIn, warned >>

PortHeld == cli.flow \in { "pair", "sealed", "unpair", "tidy" }

\* r503fp_wipe.ino, or its first bytes: it writes from cell 0 on.
WipeSketch ==
  /\ LinkQuiet /\ ~PortHeld
  /\ ee' \in { [ee EXCEPT !.magic = FALSE],
               [magic |-> FALSE, key |-> Blank, last |-> 0] }
  /\ ee' # ee
  /\ reported' = None
  /\ UNCHANGED << files, medium, boot, nano, wire, reply, cli, optIn, warned >>

\* A framed command of the daemon, which starts only if its key can be loaded:
\* the counter is spent on disk first, the Nano may or may not see the frame.
DaemonCommand ==
  LET key == LoadKey(files, boot)
      ctr == NextCounter(files)
  IN /\ LinkQuiet /\ ~PortHeld
     /\ key \in Keys /\ ctr < Ceiling
     /\ Sync
     /\ files' = StateSaved(files, ctr + 1)
     /\ \/ UNCHANGED ee
        \/ /\ ee.magic /\ ee.key = key /\ ctr > ee.last
           /\ ee' = [ee EXCEPT !.last = ctr]
     /\ UNCHANGED << boot, nano, wire, reply, cli, reported, optIn >>

\* `touch /etc/r503d/allow-pair`, the administrator's or reseal-tpm.sh's.
Touch ==
  /\ ~files.allow
  /\ files' = Opened(files)
  /\ optIn' = "given"
  /\ UNCHANGED << medium, boot, ee, nano, wire, reply, cli, reported, warned >>

\* The host writes its caches back.
WriteBack ==
  /\ medium # files
  /\ medium' = files
  /\ Settle
  /\ UNCHANGED << files, boot, ee, nano, wire, reply, cli, reported, optIn >>

\* A signal ends the flow.
Kill ==
  /\ cli # Off
  /\ cli' = Off
  /\ UNCHANGED << files, medium, boot, ee, nano, wire, reply, reported, optIn, warned >>

\* The host starts again, perhaps with other PCR values, and the Nano with it.
\* A marker whose removal was not written back is there again: nobody gave it.
PowerLoss ==
  /\ files' = medium
  /\ boot' \in Boots
  /\ cli' = Off
  /\ ResetNano
  /\ optIn' = IF medium.allow /\ optIn = "none" THEN "revived" ELSE optIn
  /\ warned' = FALSE
  /\ UNCHANGED << medium, reported >>

Init ==
  /\ files = NoFiles /\ medium = NoFiles
  /\ boot \in Boots
  /\ ee = [magic |-> FALSE, key |-> Blank, last |-> 0]
  /\ nano = Ready /\ wire = None /\ reply = None
  /\ cli = Off
  /\ reported = None /\ optIn = "none" /\ warned = FALSE

Next ==
  \/ \E flow \in { "pair", "sealed" }, key \in Keys : BeginPair(flow, key)
  \/ BeginReseal \/ BeginPolicy \/ BeginUnpair
  \/ CliStep
  \/ Receive \/ SavePairing \/ WipePairing
  \/ LoseLine \/ NanoReset \/ WipeSketch \/ DaemonCommand
  \/ Touch \/ WriteBack \/ Kill \/ PowerLoss

Spec == Init /\ [][Next]_vars

-----------------------------------------------------------------------------
(* Properties *)

Files == [key : Keys \cup { None, Garbled }, bak : Keys \cup { None, Garbled },
          tpm : Blobs \cup { None }, state : Counter \cup { None }, allow : BOOLEAN]

Flows == { "none", "pair", "sealed", "reseal", "policy", "policyPlain",
           "unpair", "tidy" }

Steps == { "off", "gate", "spend", "send", "wait", "confirm", "rename", "copy",
           "fill", "seal", "verify", "persist", "shredKey", "unlinkKey",
           "shredBak", "unlinkBak", "unlinkBlob", "unlinkState", "pairAgain",
           "fresh" }

Regions == { "ready", "magic", "key", "ring", "wipeMagic", "wipeKey", "wipeRing" }

Lines == [verb : { "pair" }, key : Keys, ctr : { None }]
           \cup [verb : { "unpair" }, key : Keys, ctr : Counter]

\* Every variable has its type: no counter, on disk or in the ring, passes the
\* reserved ceiling.
TypeOK ==
  /\ files \in Files /\ medium \in Files
  /\ boot \in Boots
  /\ ee \in [magic : BOOLEAN, key : Keys \cup { Blank, Torn }, last : 0 .. (Ceiling - 1)]
  /\ nano \in [at : Regions, key : Keys \cup { None }]
  /\ wire \in Lines \cup { None }
  /\ reply \in { None, "OK paired", "OK unpaired", "ERR" }
  /\ cli \in [flow : Flows, pc : Steps, key : Keys \cup { None }, blob : Blobs \cup { None }]
  /\ reported \in Keys \cup { None }
  /\ optIn \in { "none", "given", "revived" }
  /\ warned \in BOOLEAN

\* After `paired` is printed and until the Nano's record is wiped, the Nano has
\* the key of that pairing and the host still has it too, whatever is resealed,
\* killed, cut off or lost meanwhile: there is always a way back that is not a
\* new pairing.
PairingKept ==
  reported # None =>
    /\ ee.magic /\ ee.key = reported
    /\ Keeps(files, reported) /\ Keeps(medium, reported)

PassesGate == cli.pc = "gate" /\ cli'.pc = "send"
Paired == reported' \notin { None, reported }

\* "Close the allow-pair gate BEFORE sending the key", as far as the code gets:
\* a flow goes on to send a key only if a marker was given, or brought back by a
\* power loss, after the flow before it got past the gate, however that attempt
\* ended.  Once `paired` is reported no power loss brings the marker back: then
\* it is there, on the medium too, only if it was given again.
GateSpent ==
  [][ /\ PassesGate => optIn # "none"
      /\ Paired /\ (files'.allow \/ medium'.allow) => optIn' = "given" ]_vars

\* delete_key "shreds contents (0xFF-overwrite + fsync) before unlink": once it
\* has returned, no process finds a plaintext key, and unless a shred failed and
\* was logged, then or in a deletion that no sync has followed, none can be read
\* after a power loss that takes the unlinks back.
DeletedForGood ==
  [][cli.pc = "unlinkBak" /\ cli'.pc # "unlinkBak" /\ files' = BakRemoved(files)
     => /\ PlaintextKey(files') = None
        /\ warned \/ PlaintextKey(medium') = None]_vars

\* The host's next counter is never below the last one its Nano accepted under a
\* key the host has: a power loss, which may take the last save back, costs one
\* refused command and no more.
InStep ==
  ee.magic /\ Keeps(files, ee.key) => NextCounter(files) >= ee.last

-----------------------------------------------------------------------------
(* What the documentation promises and the code does not keep *)

\* pairing.rs, run_pair: if the program crashes while the key goes out, "the
\* gate is closed and the admin must consciously re-touch allow-pair to retry".
OneKeyPerOptIn == [][PassesGate => optIn = "given"]_vars
=============================================================================
