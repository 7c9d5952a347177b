--------------------------- MODULE PairingProofs ----------------------------
(***************************************************************************)
(* The pairing flows keep the key, for any number of keys, PCRs, flows,    *)
(* kills, resets, lost lines and power losses.                             *)
(***************************************************************************)
EXTENDS Pairing, TLAPS

PairFlow == cli.flow \in { "pair", "sealed" }

\* Which flow is at which step, and what it has in hand there.
Shape ==
  /\ cli.pc \in { "gate", "fresh" } => PairFlow
  /\ cli.pc \in { "send", "wait", "confirm" } =>
       cli.flow \in { "pair", "sealed", "unpair" }
  /\ cli.pc \in { "rename", "copy", "fill" } => cli.flow = "pair"
  /\ cli.pc = "spend" => cli.flow = "unpair"
  /\ cli.pc = "verify" => cli.flow \in { "policy", "policyPlain" }
  /\ cli.pc \in { "seal", "persist" } =>
       cli.flow \in { "sealed", "policy", "policyPlain" }
  /\ cli.pc \in Deleting =>
       cli.flow \in { "sealed", "reseal", "policyPlain", "unpair", "tidy" }
  /\ cli.pc \in { "unlinkBlob", "unlinkState" } => cli.flow \in { "reseal", "unpair" }
  /\ cli.pc = "pairAgain" => cli.flow = "reseal"
  /\ cli.flow \notin { "none", "reseal" } => cli.key \in Keys
  /\ cli.pc \in { "verify", "persist" } => cli.blob # None
  /\ cli.flow = "sealed" /\ cli.pc \in Deleting \cup { "fresh" } => cli.blob # None

\* The counter an unpair has checked, then spent.
CounterInv ==
  /\ cli.pc = "spend" => NextCounter(files) < Ceiling
  /\ cli.pc = "send" /\ cli.flow = "unpair" => files.state \in Counter /\ files.state > 1

TypeInv == TypeOK /\ Shape /\ CounterInv

\* At most one line is under way, and none when a flow is about to send; what
\* the Nano is doing for a pair flow is what that flow asked for.
LinkInv ==
  /\ wire # None => nano = Ready /\ reply = None
  /\ nano # Ready => wire = None /\ reply = None
  /\ cli.pc \in { "gate", "spend" } => LinkQuiet
  /\ cli.pc = "send" => LinkQuiet
  /\ nano.at \in { "magic", "key", "ring" } => nano.key \in Keys
  /\ nano.at \in { "key", "ring" } => ee.magic
  /\ nano.at = "ring" => ee.key = nano.key
  /\ PairFlow /\ cli.pc = "wait" =>
       /\ wire # None => wire = PairLine(cli.key)
       /\ nano # Ready => nano.at \in { "magic", "key", "ring" } /\ nano.key = cli.key
       /\ reply = "OK paired" => ee.magic /\ ee.key = cli.key
  /\ PairFlow /\ cli.pc \notin { "gate", "send", "wait" } =>
       LinkQuiet /\ ee.magic /\ ee.key = cli.key

\* A marker, or a flow past its check, goes back to a touch or a power loss; past
\* the gate no power loss has brought a marker back.
GateInv ==
  /\ files.allow \/ cli.pc = "gate" => optIn # "none"
  /\ PairFlow /\ cli.pc # "gate" => optIn # "revived"

\* What is no key in the files is no key on the medium either, as long as no
\* shred has failed.
ShredInv ==
  /\ cli.pc \in { "shredBak", "unlinkBak" } => files.key \notin Keys
  /\ ~warned => /\ files.key \notin Keys => medium.key \notin Keys
                /\ files.bak = None => medium.bak \notin Keys
                /\ cli.pc = "unlinkKey" => files.key \notin Keys
                /\ cli.pc = "unlinkBak" =>
                     files.bak \notin Keys /\ medium.bak \notin Keys

\* A flow or the Nano undoes a pairing, or replaces it.
Undoing ==
  \/ cli.flow \in { "pair", "sealed", "reseal", "tidy" }
  \/ cli.flow = "unpair" /\ cli.pc \notin { "spend", "send", "wait", "confirm" }
  \/ nano.at \in { "magic", "key", "ring", "wipeKey", "wipeRing" }

\* Where the key is while a flow moves it from one file to another.
MoveInv ==
  /\ cli.flow = "pair" /\ cli.pc \in { "copy", "fill", "fresh" } => files.key = cli.key
  /\ cli.flow = "sealed" /\ cli.pc \in Deleting \cup { "fresh" } => files.tpm = cli.blob
  /\ cli.flow \in { "policy", "policyPlain" } /\ cli.pc = "persist" =>
       cli.blob.key = cli.key
  /\ cli.flow = "policy" => files.tpm # None /\ files.tpm.key = cli.key
  /\ cli.flow = "policyPlain" /\ cli.pc \in { "seal", "verify", "persist" } =>
       files.tpm = None /\ PlaintextKey(files) = cli.key
  /\ cli.flow = "policyPlain" /\ cli.pc \in Deleting =>
       /\ files.tpm # None /\ files.tpm.key = cli.key
       /\ reported \in { None, cli.key }

\* No pairing counts as reported meanwhile.
UndoInv == Undoing => reported = None

\* The key is in the files, in the plaintext key, its backup or key.tpm.
Has(f, key) == Keeps(f, key) \/ f.bak = key

\* Files that have the Nano's key, or what it may still be told, are in step with
\* it; a key on its way to the Nano is in no file.
Behind(f) ==
  /\ ee.key \in Keys /\ Has(f, ee.key) => NextCounter(f) >= ee.last
  /\ wire # None /\ wire.verb = "unpair" => NextCounter(f) >= wire.ctr
  /\ wire # None /\ wire.verb = "pair" => ~Has(f, wire.key)
  /\ nano.at \in { "magic", "key", "ring" } => ~Has(f, nano.key)

BehindInv == Behind(files) /\ Behind(medium)

\* What a flow has established by the time it sends, confirms or deletes.
FlowInv ==
  /\ cli.flow = "unpair" /\ cli.pc = "send" =>
       NextCounter(medium) >= NextCounter(files) - 1
  /\ PairFlow /\ cli.pc \in { "gate", "send" } =>
       ~Has(files, cli.key) /\ ~Has(medium, cli.key)
  /\ PairFlow /\ cli.pc = "wait" /\ reply = "OK paired" => ee.last = 0
  /\ PairFlow /\ cli.pc \notin { "gate", "send", "wait" } => ee.last = 0
  /\ cli.flow \in { "reseal", "tidy" } => LinkQuiet
  /\ cli.flow = "unpair" /\ cli.pc \notin { "send", "wait" } => LinkQuiet
  /\ cli.pc \in { "shredBak", "unlinkBak", "unlinkBlob", "unlinkState" } => files.key = None
  /\ cli.pc \in { "unlinkBlob", "unlinkState" } => files.bak = None
  /\ cli.pc = "unlinkState" => files.tpm = None

IInv == /\ TypeInv /\ LinkInv /\ GateInv /\ ShredInv
        /\ MoveInv /\ UndoInv /\ PairingKept
        /\ BehindInv /\ FlowInv

-----------------------------------------------------------------------------
(* The files *)

\* Sealing and unsealing give back the key or Garbled, never another key.
LEMMA BlobFacts ==
  /\ \A key \in Keys \cup { Garbled }, policy \in Policies, b \in Boots :
       Seal(key, policy, b) \in Blobs /\ Seal(key, policy, b).key = key
  /\ \A blob \in Blobs : blob.key \in Keys \cup { Garbled } /\ blob # None
  /\ \A blob \in Blobs, b \in Boots : Unseal(blob, b) \in { blob.key, Garbled }
<1>1. \A key, policy, b : Seal(key, policy, b).key = key
  BY DEF Seal, SealNoPolicy, SealWithPcrs
<1>2. \A blob, b : Unseal(blob, b) \in { blob.key, Garbled }
  BY DEF Unseal, UnsealNoPolicy, UnsealUnderPcrs
<1> QED
  BY <1>1, <1>2, BlobAssumption DEF Blobs

\* What a sync makes durable: everything but the contents of a backup.
LEMMA SyncedFields ==
  ASSUME NEW m, NEW f \in Files, NEW g \in Synced(m, f)
  PROVE  /\ g \in Files
         /\ g.key = f.key /\ g.tpm = f.tpm /\ g.state = f.state /\ g.allow = f.allow
         /\ g.bak \in { f.bak, Garbled }
  BY DEF Synced, Files

\* Each write changes one file.
LEMMA RemovedFields ==
  ASSUME NEW f \in Files
  PROVE  /\ BackupFilled(f) \in Files
         /\ { Opened(f), Closed(f), BackupOpened(f), KeyShredded(f), BakShredded(f),
              KeyRemoved(f), BakRemoved(f), BlobRemoved(f), StateRemoved(f) }
              \subseteq Files
<1>1. BackupFilled(f) \in Files /\ BackupOpened(f) \in Files
  BY DEF Files, BackupFilled, BackupOpened
<1>2. Opened(f) \in Files /\ Closed(f) \in Files
  BY DEF Files, Opened, Closed
<1>3. KeyShredded(f) \in Files /\ BakShredded(f) \in Files
  BY DEF Files, KeyShredded, BakShredded
<1>4. KeyRemoved(f) \in Files /\ BakRemoved(f) \in Files
  BY DEF Files, KeyRemoved, BakRemoved
<1>5. BlobRemoved(f) \in Files /\ StateRemoved(f) \in Files
  BY DEF Files, BlobRemoved, StateRemoved
<1> QED BY <1>1, <1>2, <1>3, <1>4, <1>5

LEMMA WriteFields ==
  ASSUME NEW f \in Files, NEW key \in Keys, NEW blob \in Blobs, NEW ctr \in Counter
  PROVE  /\ KeyRenamed(f, key) \in Files /\ BlobRenamed(f, blob) \in Files
         /\ StateSaved(f, ctr) \in Files /\ BackupFilled(f) \in Files
         /\ { Opened(f), Closed(f), BackupOpened(f), KeyShredded(f), BakShredded(f),
              KeyRemoved(f), BakRemoved(f), BlobRemoved(f), StateRemoved(f) }
              \subseteq Files
<1>1. KeyRenamed(f, key) \in Files /\ BlobRenamed(f, blob) \in Files
  BY DEF Files, KeyRenamed, BlobRenamed
<1>2. StateSaved(f, ctr) \in Files
  BY DEF Files, StateSaved
<1> QED BY <1>1, <1>2, RemovedFields

\* Each write to the EEPROM changes one part of the pairing record.
LEMMA EepromFields ==
  ASSUME NEW e \in [magic : BOOLEAN, key : Keys \cup { Blank, Torn },
                    last : 0 .. (Ceiling - 1)]
  PROVE  /\ \A b \in BOOLEAN :
              [e EXCEPT !.magic = b]
                \in [magic : BOOLEAN, key : Keys \cup { Blank, Torn },
                     last : 0 .. (Ceiling - 1)]
         /\ \A k \in Keys \cup { Blank, Torn } :
              [e EXCEPT !.key = k]
                \in [magic : BOOLEAN, key : Keys \cup { Blank, Torn },
                     last : 0 .. (Ceiling - 1)]
         /\ \A c \in 0 .. (Ceiling - 1) :
              [e EXCEPT !.last = c]
                \in [magic : BOOLEAN, key : Keys \cup { Blank, Torn },
                     last : 0 .. (Ceiling - 1)]
  OBVIOUS

-----------------------------------------------------------------------------
(* Types *)

Clis == [flow : Flows, pc : Steps, key : Keys \cup { None }, blob : Blobs \cup { None }]

\* A key that LoadKey returns, and the counter to spend.
LEMMA LoadFacts ==
  ASSUME NEW f \in Files, NEW b \in Boots
  PROVE  /\ LoadKey(f, b) \in Keys => Keeps(f, LoadKey(f, b)) \/ f.bak = LoadKey(f, b)
         /\ f.tpm # None /\ LoadKey(f, b) \in Keys => f.tpm.key = LoadKey(f, b)
         /\ f.tpm = None => LoadKey(f, b) = PlaintextKey(f)
         /\ NextCounter(f) \in Counter
<1>1. f.tpm # None /\ LoadKey(f, b) \in Keys => f.tpm.key = LoadKey(f, b)
  <2> SUFFICES ASSUME f.tpm # None, LoadKey(f, b) \in Keys
               PROVE  f.tpm.key = LoadKey(f, b)
    OBVIOUS
  <2>1. f.tpm \in Blobs
    BY DEF Files
  <2> QED
    BY <2>1, BlobFacts, KeyFilesAssumption DEF LoadKey
<1>2. f.tpm = None => LoadKey(f, b) = PlaintextKey(f)
  BY DEF LoadKey
<1>3. NextCounter(f) \in Counter
  BY KeyFilesAssumption DEF NextCounter, Files, Counter
<1> QED
  BY <1>1, <1>2, <1>3, KeyFilesAssumption DEF Keeps, PlaintextKey

LEMMA TypeInit == Init => TypeInv
<1> SUFFICES ASSUME Init
             PROVE  TypeInv
  OBVIOUS
<1>1. NoFiles \in Files
  BY DEF NoFiles, Files
<1>2. Off \in Clis /\ Ready \in [at : Regions, key : Keys \cup { None }]
  BY DEF Off, Clis, Flows, Steps, Ready, Regions
<1>3. ee \in [magic : BOOLEAN, key : Keys \cup { Blank, Torn }, last : 0 .. (Ceiling - 1)]
  BY KeyFilesAssumption DEF Init
<1>4. TypeOK
  BY <1>1, <1>2, <1>3 DEF Init, TypeOK, Clis
<1>5. Shape /\ CounterInv
  BY DEF Init, Off, Shape, CounterInv, Deleting, PairFlow
<1> QED
  BY <1>4, <1>5 DEF TypeInv

\* The flow's own record.
LEMMA CliTyped ==
  ASSUME TypeInv, Next
  PROVE  cli' \in Clis
<1> cli \in Clis /\ files \in Files /\ boot \in Boots
  BY DEF TypeInv, TypeOK, Clis
<1>0. \A pc \in Steps : Goto(pc) => cli' \in Clis
  BY DEF Goto, Clis
<1>1. ASSUME NEW flow \in Flows, NEW pc \in Steps, NEW key \in Keys \cup { None },
             Begin(flow, pc, key)
      PROVE  cli' \in Clis
  BY <1>1 DEF Begin, Clis
<1>2. Off \in Clis
  BY DEF Off, Clis, Flows, Steps
<1>3. ASSUME NEW flow \in { "pair", "sealed" }, NEW key \in Keys, BeginPair(flow, key)
      PROVE  cli' \in Clis
  BY <1>1, <1>3 DEF BeginPair, Flows, Steps
<1>4. CASE BeginReseal
  BY <1>1, <1>4 DEF BeginReseal, Flows, Steps
<1>5. CASE BeginPolicy
  BY <1>1, <1>5 DEF BeginPolicy, Flows, Steps
<1>6. CASE BeginUnpair
  BY <1>1, <1>6 DEF BeginUnpair, Flows, Steps
<1>7. CASE CliStep
  <2>1. ASSUME NEW key \in Keys, PairAgain(key)
        PROVE  cli' \in Clis
    BY <2>1 DEF PairAgain, Clis, Flows, Steps
  <2>2. CASE CloseGate \/ SendPair \/ SpendCounter \/ SendUnpair \/ Answered
    BY <1>0, <2>2 DEF CloseGate, SendPair, SpendCounter, SendUnpair, Answered, Steps
  <2>3. CASE Confirm
    <3>1. cli.flow \in { "pair", "sealed", "unpair" }
      BY <2>3 DEF Confirm, TypeInv, Shape
    <3> QED
      BY <1>0, <2>3, <3>1 DEF Confirm, Steps
  <2>4. CASE Bail
    BY <1>2, <2>4 DEF Bail
  <2>5. CASE RenameKey \/ CopyKey \/ Verify
    BY <1>0, <2>5 DEF RenameKey, CopyKey, Verify, Steps
  <2>6. ASSUME NEW policy \in Policies, SealKey(policy)
        PROVE  cli' \in Clis
    <3>1. cli.key \in Keys
      BY <2>6 DEF SealKey, TypeInv, Shape
    <3>2. \A k \in { cli.key, Garbled } : Seal(k, policy, boot) \in Blobs
      BY <3>1, BlobFacts
    <3>3. PICK sealed \in { cli.key, Garbled } :
            cli' = [cli EXCEPT !.blob = Seal(sealed, policy, boot),
                      !.pc = IF cli.flow = "sealed" THEN "persist" ELSE "verify"]
      BY <2>6 DEF SealKey
    <3> DEFINE blob == Seal(sealed, policy, boot)
    <3>4. blob \in Blobs
      BY <3>2
    <3> HIDE DEF blob
    <3>5. cli' = [cli EXCEPT !.blob = blob,
                    !.pc = IF cli.flow = "sealed" THEN "persist" ELSE "verify"]
      BY <3>3 DEF blob
    <3> QED
      BY <3>4, <3>5 DEF Clis, Steps
  <2>7. CASE Persist
    BY <1>0, <1>2, <2>7 DEF Persist, Steps
  <2>8. CASE DeleteKey
    BY <1>0, <1>2, <2>8 DEF DeleteKey, Shred, AfterKeys, Steps, Clis
  <2>9. CASE DeleteRest
    BY <1>0, <1>2, <2>9 DEF DeleteRest, Steps
  <2>10. CASE FreshState
    BY <1>2, <2>10 DEF FreshState
  <2> QED
    BY <1>7, <2>1, <2>2, <2>3, <2>4, <2>5, <2>6, <2>7, <2>8, <2>9, <2>10 DEF CliStep
<1>8. CASE Receive \/ SavePairing \/ WipePairing \/ LoseLine \/ NanoReset
           \/ WipeSketch \/ DaemonCommand \/ Touch \/ WriteBack
  BY <1>8 DEF Receive, SavePairing, WipePairing, LoseLine, NanoReset, WipeSketch,
              DaemonCommand, Touch, WriteBack
<1>9. CASE Kill \/ PowerLoss
  BY <1>2, <1>9 DEF Kill, PowerLoss
<1> QED
  BY <1>3, <1>4, <1>5, <1>6, <1>7, <1>8, <1>9 DEF Next

\* The files, in the page cache and on the medium.
LEMMA FilesTyped ==
  ASSUME TypeInv, Next
  PROVE  files' \in Files /\ medium' \in Files
<1> files \in Files /\ medium \in Files /\ boot \in Boots /\ cli \in Clis
  BY DEF TypeInv, TypeOK, Clis
<1>0. \A f \in Files : \A g \in Synced(medium, f) : g \in Files
  BY SyncedFields
<1> DEFINE Removed == { Opened(files), Closed(files), BackupOpened(files),
                        KeyShredded(files), BakShredded(files), KeyRemoved(files),
                        BakRemoved(files), BlobRemoved(files), StateRemoved(files) }
<1>a. 1 \in Counter
  BY KeyFilesAssumption DEF Counter
<1>b. StateSaved(files, 1) \in Files
  BY <1>a, WriteFields, BlobFacts DEF StateSaved, Files
<1>c. Removed \subseteq Files /\ BackupFilled(files) \in Files
  BY RemovedFields
<1> HIDE DEF Removed
<1>1. CASE UNCHANGED << files, medium >>
  BY <1>1
<1>2. CASE CloseGate \/ CopyKey \/ DeleteRest \/ Touch
  BY <1>c, <1>2 DEF CloseGate, CopyKey, DeleteRest, Touch, Removed
<1>3. CASE SpendCounter
  <2>1. NextCounter(files) + 1 \in Counter
    BY <1>3, LoadFacts, KeyFilesAssumption
    DEF SpendCounter, TypeInv, CounterInv, Counter
  <2>2. StateSaved(files, NextCounter(files) + 1) \in Files
    BY <2>1 DEF StateSaved, Files
  <2> QED
    BY <1>0, <1>3, <2>2 DEF SpendCounter, Sync
<1>4. CASE DaemonCommand
  <2>1. NextCounter(files) + 1 \in Counter
    BY <1>4, LoadFacts, KeyFilesAssumption DEF DaemonCommand, Counter
  <2>2. StateSaved(files, NextCounter(files) + 1) \in Files
    BY <2>1 DEF StateSaved, Files
  <2> QED
    BY <1>0, <1>4, <2>2 DEF DaemonCommand, Sync
<1>5. CASE RenameKey
  <2>1. cli.key \in Keys
    BY <1>5 DEF RenameKey, TypeInv, Shape
  <2>2. KeyRenamed(files, cli.key) \in Files
    BY <2>1 DEF KeyRenamed, Files
  <2> QED
    BY <1>0, <1>5, <2>2 DEF RenameKey, Sync
<1>6. CASE Persist
  <2>1. cli.blob \in Blobs
    BY <1>6 DEF Persist, TypeInv, Shape, Clis
  <2>2. BlobRenamed(files, cli.blob) \in Files
    BY <2>1 DEF BlobRenamed, Files
  <2> QED
    BY <1>0, <1>6, <2>2 DEF Persist, Sync
<1>7. CASE DeleteKey
  BY <1>0, <1>c, <1>7 DEF DeleteKey, Shred, Removed
<1>8. CASE FreshState
  BY <1>0, <1>b, <1>8 DEF FreshState, Sync
<1>9. CASE WriteBack \/ PowerLoss
  BY <1>9 DEF WriteBack, PowerLoss
<1>10. ASSUME NEW flow \in { "pair", "sealed" }, NEW key \in Keys, BeginPair(flow, key)
       PROVE  UNCHANGED << files, medium >>
  BY <1>10 DEF BeginPair
<1>11. CASE BeginReseal \/ BeginPolicy \/ BeginUnpair
  BY <1>1, <1>11 DEF BeginReseal, BeginPolicy, BeginUnpair
<1>12. CASE CliStep
  <2>1. ASSUME NEW key \in Keys, PairAgain(key)
        PROVE  UNCHANGED << files, medium >>
    BY <2>1 DEF PairAgain
  <2>2. ASSUME NEW policy \in Policies, SealKey(policy)
        PROVE  UNCHANGED << files, medium >>
    BY <2>2 DEF SealKey
  <2>3. CASE SendPair \/ SendUnpair \/ Answered \/ Confirm \/ Bail \/ Verify
    BY <1>1, <2>3 DEF SendPair, SendUnpair, Answered, Confirm, Bail, Verify
  <2> QED
    BY <1>1, <1>2, <1>3, <1>5, <1>6, <1>7, <1>8, <1>12, <2>1, <2>2, <2>3 DEF CliStep
<1>13. CASE Receive \/ SavePairing \/ WipePairing \/ LoseLine \/ NanoReset \/ WipeSketch \/ Kill
  BY <1>1, <1>13 DEF Receive, SavePairing, WipePairing, LoseLine, NanoReset, WipeSketch, Kill
<1> QED
  BY <1>1, <1>2, <1>4, <1>9, <1>10, <1>11, <1>12, <1>13 DEF Next

\* The Nano, its EEPROM and the link.
LEMMA NanoTyped ==
  ASSUME TypeInv, LinkInv, Next
  PROVE  /\ ee' \in [magic : BOOLEAN, key : Keys \cup { Blank, Torn }, last : 0 .. (Ceiling - 1)]
         /\ nano' \in [at : Regions, key : Keys \cup { None }]
         /\ wire' \in Lines \cup { None }
         /\ reply' \in { None, "OK paired", "OK unpaired", "ERR" }
<1> DEFINE Records == [magic : BOOLEAN, key : Keys \cup { Blank, Torn },
                       last : 0 .. (Ceiling - 1)]
<1> DEFINE Handlers == [at : Regions, key : Keys \cup { None }]
<1> DEFINE Replies == { None, "OK paired", "OK unpaired", "ERR" }
<1> SUFFICES ee' \in Records /\ nano' \in Handlers /\ wire' \in Lines \cup { None }
             /\ reply' \in Replies
  OBVIOUS
<1>0. ee \in Records /\ nano \in Handlers /\ wire \in Lines \cup { None }
      /\ reply \in Replies /\ files \in Files /\ boot \in Boots /\ cli \in Clis
  BY DEF TypeInv, TypeOK, Clis
<1>r. Ready \in Handlers
  BY DEF Ready, Regions
<1>1. CASE UNCHANGED << ee, nano, wire, reply >>
  BY <1>0, <1>1
<1>2. CASE SendPair
  <2>1. cli.key \in Keys
    BY <1>2 DEF SendPair, TypeInv, Shape
  <2>2. PairLine(cli.key) \in Lines
    BY <2>1 DEF PairLine, Lines
  <2> QED
    BY <1>0, <1>2, <2>2 DEF SendPair
<1>3. CASE SendUnpair
  <2>1. cli.key \in Keys /\ files.state \in Counter /\ files.state > 1
    BY <1>3 DEF SendUnpair, TypeInv, Shape, CounterInv
  <2>2. NextCounter(files) = files.state
    BY <2>1, KeyFilesAssumption DEF NextCounter, Counter
  <2>3. NextCounter(files) - 1 \in Counter
    BY <2>1, <2>2, KeyFilesAssumption DEF Counter
  <2>4. UnpairFrame(cli.key, NextCounter(files) - 1) \in Lines
    BY <2>1, <2>3 DEF UnpairFrame, Lines
  <2> QED
    BY <1>0, <1>3, <2>4 DEF SendUnpair
<1>4. CASE Answered
  BY <1>0, <1>4 DEF Answered
<1>5. CASE Receive
  <2>1. wire' = None /\ wire \in Lines /\ wire.key \in Keys
    BY <1>0, <1>5 DEF Receive, Lines
  <2>2. CASE wire.verb = "pair" /\ ~ee.magic
    <3>1. nano' = [at |-> "magic", key |-> wire.key] /\ UNCHANGED << ee, reply >>
      BY <1>5, <2>2 DEF Receive
    <3>2. nano' \in Handlers
      BY <2>1, <3>1 DEF Regions
    <3> QED
      BY <1>0, <2>1, <3>1, <3>2
  <2>3. CASE /\ wire.verb = "unpair" /\ ee.magic /\ wire.key = ee.key
             /\ wire.ctr > ee.last /\ wire.ctr < Ceiling
    <3>1. /\ ee' = [ee EXCEPT !.last = wire.ctr]
          /\ nano' = [at |-> "wipeMagic", key |-> None] /\ UNCHANGED reply
      <4>1. ~ /\ IF wire.verb = "pair" THEN ee.magic
                ELSE \/ ~ee.magic \/ wire.key # ee.key
                     \/ wire.ctr <= ee.last \/ wire.ctr >= Ceiling
              /\ Answer("ERR")
              /\ UNCHANGED ee
        <5>1. wire.ctr \in Counter
          BY <2>1, <2>3 DEF Lines
        <5>2. ee.last \in 0 .. (Ceiling - 1)
          BY <1>0
        <5>3. ~(wire.ctr <= ee.last \/ wire.ctr >= Ceiling)
          BY <2>3, <5>1, <5>2, KeyFilesAssumption DEF Counter
        <5> QED
          BY <2>3, <5>3
      <4> QED
        BY <1>5, <2>3, <4>1 DEF Receive
    <3>2. wire.ctr \in Counter
      BY <2>1, <2>3 DEF Lines
    <3>3. wire.ctr \in 0 .. (Ceiling - 1)
      BY <2>3, <3>2, KeyFilesAssumption DEF Counter
    <3>4. ee' \in Records
      BY <1>0, <3>1, <3>3
    <3>5. nano' \in Handlers
      BY <3>1 DEF Regions
    <3> QED
      BY <1>0, <2>1, <3>1, <3>4, <3>5
  <2>4. CASE Answer("ERR") /\ UNCHANGED ee
    BY <1>0, <1>r, <2>1, <2>4 DEF Answer
  <2> QED
    BY <1>5, <2>2, <2>3, <2>4 DEF Receive
<1>6. CASE SavePairing
  <2>0. 0 \in 0 .. (Ceiling - 1)
    BY KeyFilesAssumption
  <2>1. CASE nano.at = "magic"
    <3>1. nano' \in Handlers
      BY <1>0, <1>6, <2>1 DEF SavePairing, Regions
    <3>2. ee' = [ee EXCEPT !.magic = TRUE]
      BY <1>6, <2>1 DEF SavePairing
    <3>3. ee' \in Records
      BY <1>0, <3>2, EepromFields
    <3> QED
      BY <1>0, <1>6, <2>1, <3>1, <3>3 DEF SavePairing
  <2>2. CASE nano.at = "key"
    <3>1. nano' \in Handlers
      BY <1>0, <1>6, <2>2 DEF SavePairing, Regions
    <3>2. nano.key \in Keys
      BY <2>2 DEF LinkInv
    <3>3. ee' = [ee EXCEPT !.key = nano.key]
      BY <1>6, <2>2 DEF SavePairing
    <3>4. ee' \in Records
      BY <1>0, <3>2, <3>3, EepromFields
    <3> QED
      BY <1>0, <1>6, <2>2, <3>1, <3>4 DEF SavePairing
  <2>3. CASE nano.at = "ring"
    BY <1>0, <1>r, <1>6, <2>0, <2>3 DEF SavePairing, Answer
  <2> QED
    BY <1>6, <2>1, <2>2, <2>3 DEF SavePairing
<1>7. CASE WipePairing
  <2>0. 0 \in 0 .. (Ceiling - 1)
    BY KeyFilesAssumption
  <2>1. CASE nano.at = "wipeMagic"
    <3>1. nano' \in Handlers
      BY <1>0, <1>7, <2>1 DEF WipePairing, Regions
    <3>2. ee' = [ee EXCEPT !.magic = FALSE]
      BY <1>7, <2>1 DEF WipePairing
    <3>3. ee' \in Records
      BY <1>0, <3>2, EepromFields
    <3> QED
      BY <1>0, <1>7, <2>1, <3>1, <3>3 DEF WipePairing
  <2>2. CASE nano.at = "wipeKey"
    <3>1. nano' \in Handlers
      BY <1>0, <1>7, <2>2 DEF WipePairing, Regions
    <3>2. ee' = [ee EXCEPT !.key = Blank]
      BY <1>7, <2>2 DEF WipePairing
    <3>3. ee' \in Records
      BY <1>0, <3>2, EepromFields
    <3> QED
      BY <1>0, <1>7, <2>2, <3>1, <3>3 DEF WipePairing
  <2>3. CASE nano.at = "wipeRing"
    BY <1>0, <1>r, <1>7, <2>0, <2>3 DEF WipePairing, Answer
  <2> QED
    BY <1>7, <2>1, <2>2, <2>3 DEF WipePairing
<1>8. CASE ResetNano
  <2>1. Interrupted \subseteq Records
    <3>1. CASE nano.at \in { "key", "wipeKey" }
      <4>1. Interrupted = { [ee EXCEPT !.key = k] : k \in { ee.key, Torn } }
        BY <3>1 DEF Interrupted
      <4> QED
        <5>1. \A k \in Keys \cup { Blank, Torn } : [ee EXCEPT !.key = k] \in Records
          BY <1>0, EepromFields
        <5>2. ee.key \in Keys \cup { Blank, Torn }
          BY <1>0
        <5> QED BY <4>1, <5>1, <5>2
    <3>2. CASE nano.at \in { "ring", "wipeRing" }
      <4>1. Interrupted = { [ee EXCEPT !.last = c] : c \in 0 .. ee.last }
        BY <3>2 DEF Interrupted
      <4>2. ee.last \in 0 .. (Ceiling - 1)
        BY <1>0
      <4>3. \A c \in 0 .. ee.last : c \in 0 .. (Ceiling - 1)
        BY <4>2, KeyFilesAssumption
      <4>4. \A c \in 0 .. (Ceiling - 1) : [ee EXCEPT !.last = c] \in Records
        BY <1>0
      <4> QED
        BY <4>1, <4>3, <4>4
    <3>3. CASE nano.at \notin { "key", "wipeKey", "ring", "wipeRing" }
      <4>1. Interrupted = { ee }
        BY <3>3 DEF Interrupted
      <4> QED
        BY <1>0, <4>1
    <3> QED
      BY <3>1, <3>2, <3>3
  <2> QED
    BY <1>0, <1>r, <1>8, <2>1 DEF ResetNano
<1>9. CASE LoseLine
  BY <1>0, <1>9 DEF LoseLine
<1>10. CASE WipeSketch
  <2>1. [magic |-> FALSE, key |-> Blank, last |-> 0] \in Records
    BY KeyFilesAssumption
  <2>2. [ee EXCEPT !.magic = FALSE] \in Records
    BY <1>0
  <2> QED
    BY <1>0, <1>10, <2>1, <2>2 DEF WipeSketch
<1>11. CASE DaemonCommand
  <2>1. /\ UNCHANGED << nano, wire, reply >>
        /\ NextCounter(files) < Ceiling
        /\ ee' \in { ee, [ee EXCEPT !.last = NextCounter(files)] }
    BY <1>11 DEF DaemonCommand
  <2>2. NextCounter(files) \in Counter
    BY <1>0, LoadFacts
  <2>3. NextCounter(files) \in 0 .. (Ceiling - 1)
    BY <2>1, <2>2, KeyFilesAssumption DEF Counter
  <2>4. [ee EXCEPT !.last = NextCounter(files)] \in Records
    BY <1>0, <2>3
  <2> QED
    BY <1>0, <2>1, <2>4
<1>12. ASSUME NEW flow \in { "pair", "sealed" }, NEW key \in Keys, BeginPair(flow, key)
       PROVE  UNCHANGED << ee, nano, wire, reply >>
  BY <1>12 DEF BeginPair
<1>13. CASE BeginReseal \/ BeginPolicy \/ BeginUnpair \/ Touch \/ WriteBack \/ Kill
  BY <1>1, <1>13 DEF BeginReseal, BeginPolicy, BeginUnpair, Touch, WriteBack, Kill
<1>14. CASE CliStep
  <2>1. ASSUME NEW key \in Keys, PairAgain(key)
        PROVE  UNCHANGED << ee, nano, wire, reply >>
    BY <2>1 DEF PairAgain
  <2>2. ASSUME NEW policy \in Policies, SealKey(policy)
        PROVE  UNCHANGED << ee, nano, wire, reply >>
    BY <2>2 DEF SealKey
  <2>3. CASE CloseGate \/ SpendCounter \/ Confirm \/ Bail \/ RenameKey \/ CopyKey
             \/ Verify \/ Persist \/ DeleteKey \/ DeleteRest \/ FreshState
    BY <1>1, <2>3 DEF CloseGate, SpendCounter, Confirm, Bail, RenameKey, CopyKey,
                      Verify, Persist, DeleteKey, DeleteRest, FreshState
  <2> QED
    BY <1>1, <1>2, <1>3, <1>4, <1>14, <2>1, <2>2, <2>3 DEF CliStep
<1> QED
  BY <1>1, <1>5, <1>6, <1>7, <1>8, <1>9, <1>10, <1>11, <1>12, <1>13, <1>14
  DEF Next, NanoReset, PowerLoss

\* Each step of a flow follows the one the code puts before it.
LEMMA ShapeStep ==
  ASSUME TypeInv, Next
  PROVE  Shape'
<1> USE DEF Shape, PairFlow, Deleting
<1>0. cli \in Clis /\ Shape
  BY DEF TypeInv, TypeOK, Clis
<1>1. ASSUME UNCHANGED cli
      PROVE  Shape'
  BY <1>0, <1>1
<1>2. ASSUME cli' = Off
      PROVE  Shape'
  BY <1>2 DEF Off
<1>3. ASSUME NEW flow \in { "pair", "sealed" }, NEW key \in Keys, BeginPair(flow, key)
      PROVE  Shape'
  BY <1>3 DEF BeginPair, Begin
<1>4. CASE BeginReseal
  BY <1>4 DEF BeginReseal, Begin
<1>5. CASE BeginPolicy
  BY <1>5 DEF BeginPolicy, Begin
<1>6. CASE BeginUnpair
  BY <1>6 DEF BeginUnpair, Begin
<1>7. CASE CliStep
  <2>1. ASSUME NEW key \in Keys, PairAgain(key)
        PROVE  Shape'
    BY <2>1 DEF PairAgain
  <2>2. CASE CloseGate \/ SendPair \/ SpendCounter
    BY <1>0, <2>2 DEF CloseGate, SendPair, SpendCounter, Goto, Clis
  <2>3. CASE SendUnpair \/ Answered
    BY <1>0, <2>3 DEF SendUnpair, Answered, Goto, Clis
  <2>4. CASE Confirm
    <3>1. cli.flow \in { "pair", "sealed", "unpair" }
      BY <1>0, <2>4 DEF Confirm
    <3>2. CASE cli.flow = "pair"
      BY <1>0, <2>4, <3>2 DEF Confirm, Goto, Clis
    <3>3. CASE cli.flow = "sealed"
      BY <1>0, <2>4, <3>3 DEF Confirm, Goto, Clis
    <3>4. CASE cli.flow = "unpair"
      BY <1>0, <2>4, <3>4 DEF Confirm, Goto, Clis
    <3> QED
      BY <3>1, <3>2, <3>3, <3>4
  <2>5. CASE Bail
    BY <1>2, <2>5 DEF Bail
  <2>6. CASE RenameKey \/ CopyKey \/ Verify
    BY <1>0, <2>6 DEF RenameKey, CopyKey, Verify, Goto, Clis
  <2>7. ASSUME NEW policy \in Policies, SealKey(policy)
        PROVE  Shape'
    <3>1. \A k \in { cli.key, Garbled } : Seal(k, policy, boot) # None
      <4>1. boot \in Boots /\ cli.key \in Keys
        BY <1>0, <2>7 DEF SealKey, TypeInv, TypeOK
      <4> QED
        BY <4>1, BlobFacts
    <3>2. PICK blob : /\ blob # None
                      /\ cli' = [cli EXCEPT !.blob = blob,
                           !.pc = IF cli.flow = "sealed" THEN "persist" ELSE "verify"]
      BY <2>7, <3>1 DEF SealKey
    <3>3. cli.flow \in { "sealed", "policy", "policyPlain" }
      BY <1>0, <2>7 DEF SealKey
    <3> QED
      BY <1>0, <3>2, <3>3 DEF Clis
  <2>8. CASE Persist
    BY <1>0, <1>2, <2>8 DEF Persist, Goto, Clis
  <2>9. CASE DeleteKey
    <3>1. CASE cli' = AfterKeys /\ cli.pc = "unlinkBak"
      <4>1. \/ cli' = Off
            \/ cli.flow \in { "unpair", "reseal" } /\ cli' = [cli EXCEPT !.pc = "unlinkBlob"]
            \/ cli.flow = "sealed" /\ cli' = [cli EXCEPT !.pc = "fresh"]
        BY <1>0, <3>1 DEF AfterKeys
      <4> QED
        BY <1>0, <1>2, <3>1, <4>1 DEF Clis
    <3>2. CASE \E pc \in Deleting : Goto(pc) /\ cli.pc \in Deleting
      BY <1>0, <3>2 DEF Goto, Clis
    <3> QED
      BY <2>9, <3>1, <3>2 DEF DeleteKey, Shred
  <2>10. CASE DeleteRest
    BY <1>0, <1>2, <2>10 DEF DeleteRest, Goto, Clis
  <2>11. CASE FreshState
    BY <1>2, <2>11 DEF FreshState
  <2> QED
    BY <1>7, <2>1, <2>2, <2>3, <2>4, <2>5, <2>6, <2>7, <2>8, <2>9, <2>10, <2>11 DEF CliStep
<1>8. CASE Receive \/ SavePairing \/ WipePairing \/ LoseLine \/ NanoReset
           \/ WipeSketch \/ DaemonCommand \/ Touch \/ WriteBack
  BY <1>1, <1>8 DEF Receive, SavePairing, WipePairing, LoseLine, NanoReset, WipeSketch,
                    DaemonCommand, Touch, WriteBack
<1>9. CASE Kill \/ PowerLoss
  BY <1>2, <1>9 DEF Kill, PowerLoss
<1> QED
  BY <1>3, <1>4, <1>5, <1>6, <1>7, <1>8, <1>9 DEF Next

\* Which actions leave a flow about to spend its counter, or to send it.
LEMMA CounterStep ==
  ASSUME TypeInv, Next
  PROVE  CounterInv'
<1>0. cli \in Clis /\ files \in Files /\ boot \in Boots /\ CounterInv /\ Shape
  BY DEF TypeInv, TypeOK, Clis
<1>1. ASSUME UNCHANGED << cli, files >>
      PROVE  CounterInv'
  BY <1>0, <1>1 DEF CounterInv, NextCounter
<1>2. ASSUME cli'.pc \notin { "spend", "send" } \/ (cli'.flow # "unpair" /\ cli'.pc # "spend")
      PROVE  CounterInv'
  BY <1>2 DEF CounterInv
<1>3. ASSUME UNCHANGED cli, files'.state = files.state
      PROVE  CounterInv'
  BY <1>0, <1>3 DEF CounterInv, NextCounter
<1>4. ASSUME NEW flow \in { "pair", "sealed" }, NEW key \in Keys, BeginPair(flow, key)
      PROVE  CounterInv'
  BY <1>2, <1>4 DEF BeginPair, Begin
<1>5. CASE BeginReseal \/ BeginPolicy
  BY <1>2, <1>5 DEF BeginReseal, BeginPolicy, Begin
<1>6. CASE BeginUnpair
  BY <1>6 DEF BeginUnpair, Begin, CounterInv, NextCounter
<1>7. CASE CliStep
  <2>1. ASSUME NEW key \in Keys, PairAgain(key)
        PROVE  CounterInv'
    BY <1>2, <2>1 DEF PairAgain
  <2>2. CASE CloseGate
    BY <1>0, <1>2, <2>2 DEF CloseGate, Goto, Clis, Shape, PairFlow
  <2>3. CASE SpendCounter
    <3>1. NextCounter(files) \in Counter /\ NextCounter(files) < Ceiling
      BY <1>0, <2>3, LoadFacts DEF SpendCounter, CounterInv
    <3>2. files'.state = NextCounter(files) + 1
      BY <1>0, <2>3 DEF SpendCounter, StateSaved, Files
    <3>3. cli'.pc = "send"
      BY <1>0, <2>3 DEF SpendCounter, Goto, Clis
    <3> QED
      BY <3>1, <3>2, <3>3, KeyFilesAssumption DEF CounterInv, Counter
  <2>4. CASE SendPair \/ SendUnpair \/ Answered \/ RenameKey \/ CopyKey \/ Verify
    BY <1>0, <1>2, <2>4 DEF SendPair, SendUnpair, Answered, RenameKey, CopyKey, Verify,
                            Goto, Clis
  <2>5. CASE Confirm
    <3>1. cli.flow \in { "pair", "sealed", "unpair" }
      BY <1>0, <2>5 DEF Confirm, Shape
    <3>2. \E pc \in { "rename", "seal", "shredKey" } : Goto(pc)
      BY <2>5, <3>1 DEF Confirm
    <3> QED
      BY <1>0, <1>2, <3>2 DEF Goto, Clis
  <2>6. CASE Bail \/ FreshState
    BY <1>2, <2>6 DEF Bail, FreshState, Off
  <2>7. ASSUME NEW policy \in Policies, SealKey(policy)
        PROVE  CounterInv'
    <3>1. PICK blob : cli' = [cli EXCEPT !.blob = blob,
                        !.pc = IF cli.flow = "sealed" THEN "persist" ELSE "verify"]
      BY <2>7 DEF SealKey
    <3> QED
      BY <1>0, <1>2, <3>1 DEF Clis
  <2>8. CASE Persist \/ DeleteRest
    BY <1>0, <1>2, <2>8 DEF Persist, DeleteRest, Goto, Off, Clis
  <2>9. CASE DeleteKey
    <3>1. cli' = AfterKeys \/ \E pc \in Deleting : Goto(pc)
      BY <2>9 DEF DeleteKey, Shred, Deleting
    <3>2. AfterKeys.pc \in { "unlinkBlob", "fresh", "off" }
      BY <1>0 DEF AfterKeys, Off, Clis
    <3> QED
      BY <1>0, <1>2, <3>1, <3>2 DEF Goto, Clis, Deleting
  <2> QED
    BY <1>7, <2>1, <2>2, <2>3, <2>4, <2>5, <2>6, <2>7, <2>8, <2>9 DEF CliStep
<1>8. CASE Receive \/ SavePairing \/ WipePairing \/ LoseLine \/ NanoReset
           \/ WipeSketch \/ WriteBack
  BY <1>1, <1>8 DEF Receive, SavePairing, WipePairing, LoseLine, NanoReset, WipeSketch,
                    WriteBack
<1>9. CASE DaemonCommand
  <2>1. cli.flow # "unpair" /\ UNCHANGED cli
    BY <1>9 DEF DaemonCommand, PortHeld
  <2> QED
    BY <1>0, <1>2, <2>1 DEF Shape
<1>10. CASE Touch
  BY <1>0, <1>3, <1>10 DEF Touch, Opened, Files
<1>11. CASE Kill \/ PowerLoss
  BY <1>2, <1>11 DEF Kill, PowerLoss, Off
<1> QED
  BY <1>4, <1>5, <1>6, <1>7, <1>8, <1>9, <1>10, <1>11 DEF Next

LEMMA TypeStep ==
  ASSUME TypeInv, LinkInv, Next
  PROVE  TypeInv'
<1>0. cli \in Clis /\ boot \in Boots /\ reported \in Keys \cup { None }
      /\ optIn \in { "none", "given", "revived" } /\ warned \in BOOLEAN
      /\ Shape /\ files \in Files /\ medium \in Files
  BY DEF TypeInv, TypeOK, Clis
<1>1. boot' \in Boots
  <2>1. PowerLoss \/ UNCHANGED boot
    BY DEF Next, CliStep, BeginPair, BeginReseal, BeginPolicy, BeginUnpair, PairAgain,
           CloseGate, SendPair, SpendCounter, SendUnpair, Answered, Confirm, Bail,
           RenameKey, CopyKey, SealKey, Verify, Persist, DeleteKey, DeleteRest,
           FreshState, Receive, SavePairing, WipePairing, LoseLine, NanoReset,
           WipeSketch, DaemonCommand, Touch, WriteBack, Kill
  <2> QED
    BY <1>0, <2>1 DEF PowerLoss
<1>2. reported' \in Keys \cup { None }
  <2>1. FreshState \/ WipePairing \/ WipeSketch \/ UNCHANGED reported
    BY DEF Next, CliStep, BeginPair, BeginReseal, BeginPolicy, BeginUnpair, PairAgain,
           CloseGate, SendPair, SpendCounter, SendUnpair, Answered, Confirm, Bail,
           RenameKey, CopyKey, SealKey, Verify, Persist, DeleteKey, DeleteRest,
           Receive, SavePairing, LoseLine, NanoReset,
           DaemonCommand, Touch, WriteBack, Kill, PowerLoss
  <2>2. FreshState => reported' \in { None, cli.key }
    BY DEF FreshState
  <2> QED
    BY <1>0, <2>1, <2>2 DEF WipePairing, WipeSketch, Clis
<1>3. optIn' \in { "none", "given", "revived" }
  <2>1. UNCHANGED optIn \/ optIn' \in { "none", "given", "revived" }
    BY DEF Next, CliStep, BeginPair, BeginReseal, BeginPolicy, BeginUnpair, PairAgain,
           CloseGate, SendPair, SpendCounter, SendUnpair, Answered, Confirm, Bail,
           RenameKey, CopyKey, SealKey, Verify, Persist, DeleteKey, DeleteRest,
           FreshState, Receive, SavePairing, WipePairing, LoseLine, NanoReset,
           WipeSketch, DaemonCommand, Touch, WriteBack, Kill, PowerLoss
  <2> QED
    BY <1>0, <2>1
<1>4. warned' \in BOOLEAN
  <2>1. UNCHANGED warned \/ warned' \in BOOLEAN \/ Settle
    BY DEF Next, CliStep, BeginPair, BeginReseal, BeginPolicy, BeginUnpair, PairAgain,
           CloseGate, SendPair, SpendCounter, SendUnpair, Answered, Confirm, Bail,
           RenameKey, CopyKey, SealKey, Verify, Persist, DeleteKey, Shred, DeleteRest,
           FreshState, Receive, SavePairing, WipePairing, LoseLine, NanoReset,
           WipeSketch, DaemonCommand, Touch, WriteBack, Kill, PowerLoss, Sync
  <2> QED
    BY <1>0, <2>1 DEF Settle
<1> QED
  BY <1>1, <1>2, <1>3, <1>4, CliTyped, FilesTyped, NanoTyped, ShapeStep, CounterStep
  DEF TypeInv, TypeOK, Clis

-----------------------------------------------------------------------------
(* The link *)

\* The fields of the records the model names.
LEMMA RecordFields ==
  /\ Ready.at = "ready"
  /\ Off.flow = "none" /\ Off.pc = "off"
  /\ \A key : PairLine(key).verb = "pair" /\ PairLine(key).key = key
  /\ \A key, ctr : /\ UnpairFrame(key, ctr).verb = "unpair"
                    /\ UnpairFrame(key, ctr).key = key
                    /\ UnpairFrame(key, ctr).ctr = ctr
  BY DEF Ready, Off, PairLine, UnpairFrame

LEMMA LinkInit == Init => LinkInv
  BY RecordFields, PairingAssumption DEF Init, LinkInv, LinkQuiet, PairFlow

LEMMA LinkStep ==
  ASSUME TypeInv, LinkInv, Next
  PROVE  LinkInv'
<1> USE PairingAssumption DEF LinkInv, LinkQuiet, PairFlow
<1>0. /\ cli \in Clis /\ Shape
      /\ ee \in [magic : BOOLEAN, key : Keys \cup { Blank, Torn }, last : 0 .. (Ceiling - 1)]
      /\ nano \in [at : Regions, key : Keys \cup { None }]
      /\ wire \in Lines \cup { None }
  BY DEF TypeInv, TypeOK, Clis
<1>1. ASSUME UNCHANGED << ee.magic, ee.key, nano, wire, reply >>, UNCHANGED cli
      PROVE  LinkInv'
  BY <1>1
<1>2. ASSUME UNCHANGED << ee, nano, wire, reply >>,
             cli'.flow \notin { "pair", "sealed" } /\ cli'.pc \notin { "spend", "send", "gate" }
      PROVE  LinkInv'
  BY <1>2
<1>3. ASSUME UNCHANGED << ee, nano, wire, reply >>,
             LinkQuiet,
             cli'.pc \in { "gate", "send" } \/ (cli'.pc = "spend" /\ cli'.flow = "unpair")
      PROVE  LinkInv'
  BY <1>3 DEF Ready
<1>4. ASSUME NEW pc \in Steps, Goto(pc)
      PROVE  cli'.pc = pc /\ cli'.flow = cli.flow /\ cli'.key = cli.key
  BY <1>0, <1>4 DEF Goto, Clis
<1>5. ASSUME NEW pc \in Steps, Goto(pc), UNCHANGED << ee, nano, wire, reply >>,
             cli.pc \notin { "gate", "send", "wait" },
             pc \notin { "gate", "spend", "send", "wait" }
      PROVE  LinkInv'
  BY <1>4, <1>5
<1>6. Off.flow = "none" /\ Off.pc = "off" /\ Ready.at = "ready"
  BY RecordFields
<1>7. ASSUME NEW flow \in { "pair", "sealed" }, NEW key \in Keys, BeginPair(flow, key)
      PROVE  LinkInv'
  BY <1>3, <1>7 DEF BeginPair, Begin
<1>8. CASE BeginReseal \/ BeginPolicy
  <2>1. /\ UNCHANGED << ee, nano, wire, reply >>
        /\ cli'.flow \in { "reseal", "policy", "policyPlain" }
        /\ cli'.pc \in { "shredKey", "seal" }
    <3>1. CASE BeginReseal
      BY <3>1 DEF BeginReseal, Begin
    <3>2. CASE BeginPolicy
      BY <3>2 DEF BeginPolicy, Begin
    <3> QED
      BY <1>8, <3>1, <3>2
  <2> QED
    BY <1>2, <2>1
<1>9. CASE BeginUnpair
  <2>1. /\ LinkQuiet /\ UNCHANGED << ee, nano, wire, reply >>
        /\ \/ cli'.flow = "unpair" /\ cli'.pc = "spend"
           \/ cli'.flow = "tidy" /\ cli'.pc = "shredKey"
    <3>1. ASSUME NEW key, Begin("unpair", "spend", key)
          PROVE  cli'.flow = "unpair" /\ cli'.pc = "spend"
      BY <3>1 DEF Begin
    <3>2. ASSUME NEW key, Begin("tidy", "shredKey", key)
          PROVE  cli'.flow = "tidy" /\ cli'.pc = "shredKey"
      BY <3>2 DEF Begin
    <3> QED
      BY <1>9, <3>1, <3>2 DEF BeginUnpair
  <2> QED
    BY <1>2, <1>3, <2>1
<1>10. CASE CliStep
  <2>1. ASSUME NEW key \in Keys, PairAgain(key)
        PROVE  LinkInv'
    BY <1>3, <2>1 DEF PairAgain
  <2>2. CASE CloseGate \/ SpendCounter
    BY <1>3, <1>4, <2>2 DEF CloseGate, SpendCounter, Steps
  <2>3. CASE SendPair
    <3>1. cli'.pc = "wait" /\ cli'.key = cli.key /\ LinkQuiet
      BY <1>4, <2>3 DEF SendPair, Steps
    <3> QED
      BY <2>3, <3>1 DEF SendPair, Ready
  <2>4. CASE SendUnpair
    <3>1. cli'.pc = "wait" /\ cli'.flow = "unpair" /\ LinkQuiet
      BY <1>4, <2>4 DEF SendUnpair, Steps
    <3> QED
      BY <2>4, <3>1 DEF SendUnpair, Ready
  <2>5. CASE Answered
    <3>1. cli'.pc = "confirm" /\ cli'.flow = cli.flow /\ cli'.key = cli.key /\ cli.pc = "wait"
      BY <1>4, <2>5 DEF Answered, Steps
    <3>2. reply # None
      BY PairingAssumption, <2>5 DEF Answered, TypeInv, TypeOK
    <3> QED
      BY <2>5, <3>1, <3>2 DEF Answered
  <2>6. CASE Confirm
    <3>1. cli.flow \in { "pair", "sealed", "unpair" }
      BY <1>0, <2>6 DEF Confirm, Shape
    <3>2. \E pc \in { "rename", "seal", "shredKey" } : Goto(pc)
      BY <2>6, <3>1 DEF Confirm
    <3> QED
      BY <1>5, <2>6, <3>2 DEF Confirm, Steps
  <2>7. CASE Bail
    BY <1>2, <1>6, <2>7 DEF Bail
  <2>8. CASE RenameKey \/ CopyKey \/ Verify
    BY <1>5, <2>8 DEF RenameKey, CopyKey, Verify, Steps
  <2>9. ASSUME NEW policy \in Policies, SealKey(policy)
        PROVE  LinkInv'
    <3>1. PICK blob : cli' = [cli EXCEPT !.blob = blob,
                        !.pc = IF cli.flow = "sealed" THEN "persist" ELSE "verify"]
      BY <2>9 DEF SealKey
    <3>2. cli'.pc \in { "persist", "verify" } /\ cli'.flow = cli.flow /\ cli'.key = cli.key
      BY <1>0, <3>1 DEF Clis
    <3> QED
      BY <2>9, <3>2 DEF SealKey
  <2>10. CASE Persist
    BY <1>2, <1>5, <1>6, <2>10 DEF Persist, Steps
  <2>11. CASE DeleteKey
    <3>1. CASE cli' = AfterKeys /\ cli.pc = "unlinkBak"
      <4>1. \/ cli' = Off
            \/ cli' = [cli EXCEPT !.pc = "unlinkBlob"]
            \/ cli' = [cli EXCEPT !.pc = "fresh"]
        BY <1>0, <3>1 DEF AfterKeys
      <4> QED
        BY <1>2, <1>5, <1>6, <2>11, <3>1, <4>1 DEF DeleteKey, Goto, Steps
    <3>2. CASE \E pc \in Deleting : Goto(pc) /\ cli.pc \in Deleting
      BY <1>5, <2>11, <3>2 DEF DeleteKey, Deleting, Steps
    <3> QED
      BY <2>11, <3>1, <3>2 DEF DeleteKey, Shred, Deleting
  <2>12. CASE DeleteRest
    BY <1>2, <1>5, <1>6, <2>12 DEF DeleteRest, Steps
  <2>13. CASE FreshState
    BY <1>2, <1>6, <2>13 DEF FreshState
  <2> QED
    BY <1>10, <2>1, <2>2, <2>3, <2>4, <2>5, <2>6, <2>7, <2>8, <2>9, <2>10, <2>11,
       <2>12, <2>13 DEF CliStep
<1>11. CASE Receive
  <2>1. /\ wire # None /\ nano = Ready /\ reply = None /\ wire' = None /\ UNCHANGED cli
        /\ cli.pc \notin { "gate", "spend", "send" }
        /\ PairFlow => cli.pc = "wait" /\ wire = PairLine(cli.key)
    BY <1>11 DEF Receive
  <2>2. CASE wire.verb = "pair" /\ nano' = [at |-> "magic", key |-> wire.key]
             /\ UNCHANGED << ee, reply >>
    <3>1. wire.key \in Keys
      BY <1>0, <2>1 DEF Lines
    <3>2. PairFlow => wire.key = cli.key
      <4> SUFFICES ASSUME PairFlow
                   PROVE  wire.key = cli.key
        OBVIOUS
      <4>1. wire = PairLine(cli.key)
        BY <2>1
      <4>2. PairLine(cli.key).key = cli.key
        BY RecordFields
      <4> QED
        BY <4>1, <4>2
    <3> QED
      BY <2>1, <2>2, <3>1, <3>2
  <2>3. CASE wire.verb = "unpair" /\ nano' = [at |-> "wipeMagic", key |-> None]
             /\ ee' = [ee EXCEPT !.last = wire.ctr] /\ UNCHANGED reply
    <3>1. ~PairFlow
      BY <2>1, <2>3, RecordFields
    <3> QED
      BY <1>0, <2>1, <2>3, <3>1
  <2>4. CASE Answer("ERR") /\ UNCHANGED ee
    BY <2>1, <2>4 DEF Answer, Ready
  <2> QED
    BY <1>11, <2>2, <2>3, <2>4 DEF Receive
<1>12. CASE SavePairing
  <2>1. /\ nano # Ready /\ wire = None /\ reply = None /\ wire' = None /\ UNCHANGED cli
        /\ cli.pc \notin { "gate", "spend", "send" } /\ nano.key \in Keys
        /\ PairFlow => cli.pc = "wait" /\ nano.key = cli.key
    BY <1>6, <1>12 DEF SavePairing
  <2>2. CASE nano.at = "magic"
    <3>1. ee'.magic /\ nano'.at = "key" /\ nano'.key = nano.key /\ reply' = None
      BY <1>0, <1>12, <2>1, <2>2 DEF SavePairing
    <3> QED
      BY <2>1, <3>1
  <2>3. CASE nano.at = "key"
    <3>1. ee'.magic /\ ee'.key = nano.key /\ nano'.at = "ring" /\ nano'.key = nano.key
          /\ reply' = None
      BY <1>0, <1>12, <2>1, <2>3 DEF SavePairing
    <3> QED
      BY <2>1, <3>1
  <2>4. CASE nano.at = "ring"
    <3>1. ee'.magic /\ ee'.key = nano.key /\ nano' = Ready
      BY <1>0, <1>12, <2>1, <2>4 DEF SavePairing, Answer
    <3> QED
      BY <2>1, <3>1 DEF Ready
  <2> QED
    BY <1>12, <2>2, <2>3, <2>4 DEF SavePairing
<1>13. CASE WipePairing
  <2>1. /\ nano # Ready /\ wire = None /\ reply = None /\ wire' = None /\ UNCHANGED cli
        /\ cli.pc \notin { "gate", "spend", "send" } /\ ~PairFlow
    BY <1>6, <1>13 DEF WipePairing
  <2>2. nano' = Ready \/ (nano'.at \in { "wipeKey", "wipeRing" } /\ reply' = None)
    BY <1>0, <1>13, <2>1 DEF WipePairing, Answer
  <2> QED
    BY <1>6, <2>1, <2>2
<1>14. CASE NanoReset
  <2>1. /\ nano # Ready /\ nano' = Ready /\ wire' = None /\ reply' = None /\ UNCHANGED cli
        /\ PairFlow => cli.pc = "wait"
    BY <1>14 DEF NanoReset, ResetNano
  <2>2. reply' # "OK paired"
    BY <2>1, <1>14 DEF NanoReset, ResetNano, TypeInv, TypeOK
  <2> QED
    BY <2>1, <2>2 DEF Ready
<1>15. CASE LoseLine
  BY <1>15 DEF LoseLine
<1>16. CASE WipeSketch
  BY <1>16 DEF WipeSketch, PortHeld, Ready
<1>17. CASE DaemonCommand
  BY <1>0, <1>1, <1>17 DEF DaemonCommand
<1>18. CASE Touch \/ WriteBack
  BY <1>1, <1>18 DEF Touch, WriteBack
<1>19. CASE Kill
  BY <1>2, <1>6, <1>19 DEF Kill
<1>20. CASE PowerLoss
  BY <1>6, <1>20 DEF PowerLoss, ResetNano, Ready
<1> QED
  BY <1>7, <1>8, <1>9, <1>10, <1>11, <1>12, <1>13, <1>14, <1>15, <1>16, <1>17, <1>18,
     <1>19, <1>20 DEF Next

-----------------------------------------------------------------------------
(* What each write leaves alone *)

\* Writes to the plaintext key and its backup.
LEMMA PlaintextFields ==
  ASSUME NEW f \in Files
  PROVE  /\ \A k : KeyRenamed(f, k).key = k /\ KeyRenamed(f, k).bak = f.bak
         /\ KeyShredded(f).key \in { None, Garbled } /\ KeyShredded(f).bak = f.bak
         /\ KeyRemoved(f).key = None /\ KeyRemoved(f).bak = f.bak
         /\ BackupOpened(f).bak = Garbled /\ BackupFilled(f).bak = f.key
         /\ BakShredded(f).bak \in { None, Garbled } /\ BakRemoved(f).bak = None
         /\ \A g \in { BackupOpened(f), BackupFilled(f), BakShredded(f), BakRemoved(f) } :
              g.key = f.key
         /\ \A g \in { KeyShredded(f), KeyRemoved(f), BackupOpened(f), BackupFilled(f),
                       BakShredded(f), BakRemoved(f) } :
              g.tpm = f.tpm /\ g.state = f.state /\ g.allow = f.allow
         /\ \A k : LET g == KeyRenamed(f, k)
                   IN g.tpm = f.tpm /\ g.state = f.state /\ g.allow = f.allow
  BY DEF Files, KeyRenamed, KeyShredded, KeyRemoved, BackupOpened, BackupFilled,
         BakShredded, BakRemoved

\* Writes to the marker.
LEMMA MarkerFields ==
  ASSUME NEW f \in Files
  PROVE  /\ Opened(f).allow = TRUE /\ Closed(f).allow = FALSE
         /\ \A g \in { Opened(f), Closed(f) } :
              /\ g.key = f.key /\ g.bak = f.bak
              /\ g.tpm = f.tpm /\ g.state = f.state
  BY DEF Files, Opened, Closed

-----------------------------------------------------------------------------
(* The gate *)

LEMMA GateStep ==
  ASSUME TypeInv, GateInv, Next
  PROVE  GateInv'
<1>0. cli \in Clis /\ files \in Files /\ medium \in Files /\ Shape
  BY DEF TypeInv, TypeOK, Clis
<1>1. ASSUME files'.allow = files.allow, UNCHANGED optIn,
             \/ UNCHANGED cli
             \/ cli'.pc # "gate" /\ cli'.flow \notin { "pair", "sealed" }
             \/ cli'.pc # "gate" /\ cli.pc # "gate" /\ cli'.flow = cli.flow
      PROVE  GateInv'
  BY <1>1 DEF GateInv, PairFlow
<1>2. ASSUME files.allow, UNCHANGED << files, optIn >>,
             cli'.pc = "gate" \/ cli'.flow \notin { "pair", "sealed" }
      PROVE  GateInv'
  BY <1>2 DEF GateInv, PairFlow
<1>3. ASSUME NEW pc \in Steps \ { "gate" }, Goto(pc)
      PROVE  cli'.pc # "gate" /\ cli'.flow = cli.flow
  BY <1>0, <1>3 DEF Goto, Clis
<1>4. ASSUME NEW flow \in { "pair", "sealed" }, NEW key \in Keys, BeginPair(flow, key)
      PROVE  GateInv'
  BY <1>2, <1>4 DEF BeginPair, Begin
<1>5. CASE BeginReseal
  BY <1>2, <1>5 DEF BeginReseal, Begin
<1>6. CASE BeginPolicy \/ BeginUnpair
  <2>1. ASSUME NEW flow \in { "policyPlain", "policy", "unpair", "tidy" },
               NEW pc \in { "seal", "spend", "shredKey" }, NEW key,
               Begin(flow, pc, key)
        PROVE  cli'.pc # "gate" /\ cli'.flow \notin { "pair", "sealed" }
    BY <2>1 DEF Begin
  <2>2. cli'.pc # "gate" /\ cli'.flow \notin { "pair", "sealed" }
    BY <1>6, <2>1 DEF BeginPolicy, BeginUnpair
  <2> QED
    BY <1>1, <1>6, <2>2 DEF BeginPolicy, BeginUnpair
<1>7. CASE CliStep
  <2>1. ASSUME NEW key \in Keys, PairAgain(key)
        PROVE  GateInv'
    BY <1>2, <2>1 DEF PairAgain
  <2>2. CASE CloseGate
    BY <1>0, <1>3, <2>2, MarkerFields DEF CloseGate, GateInv, PairFlow, Steps
  <2>3. CASE SendPair \/ SendUnpair \/ Answered \/ Verify
    BY <1>1, <1>3, <2>3 DEF SendPair, SendUnpair, Answered, Verify, Steps
  <2>4. CASE SpendCounter
    BY <1>0, <1>1, <1>3, <2>4 DEF SpendCounter, StateSaved, Files, Steps
  <2>5. CASE Confirm
    <3>1. cli.flow \in { "pair", "sealed", "unpair" }
      BY <1>0, <2>5 DEF Confirm, Shape
    <3>2. \E pc \in { "rename", "seal", "shredKey" } : Goto(pc)
      BY <2>5, <3>1 DEF Confirm
    <3> QED
      BY <1>1, <1>3, <2>5, <3>2 DEF Confirm, Steps
  <2>6. CASE Bail
    BY <1>1, <2>6, RecordFields DEF Bail
  <2>7. CASE RenameKey
    BY <1>0, <1>1, <1>3, <2>7, PlaintextFields DEF RenameKey, Steps
  <2>8. CASE CopyKey
    BY <1>0, <1>1, <1>3, <2>8, PlaintextFields DEF CopyKey, Steps
  <2>9. ASSUME NEW policy \in Policies, SealKey(policy)
        PROVE  GateInv'
    <3>1. PICK blob : cli' = [cli EXCEPT !.blob = blob,
                        !.pc = IF cli.flow = "sealed" THEN "persist" ELSE "verify"]
      BY <2>9 DEF SealKey
    <3>2. cli'.pc # "gate" /\ cli'.flow = cli.flow
      BY <1>0, <3>1 DEF Clis
    <3> QED
      BY <1>1, <2>9, <3>2 DEF SealKey
  <2>10. CASE Persist
    <3>1. cli'.pc # "gate" /\ cli'.flow \in { cli.flow, "none" }
      BY <1>3, <2>10, RecordFields DEF Persist, Steps
    <3> QED
      BY <1>0, <1>1, <2>10, <3>1 DEF Persist, BlobRenamed, Files
  <2>11. CASE DeleteKey
    <3>1. cli'.pc # "gate" /\ cli'.flow \in { cli.flow, "none" }
      <4>1. cli' = AfterKeys \/ \E pc \in Deleting : Goto(pc)
        BY <2>11 DEF DeleteKey, Shred, Deleting
      <4>2. AfterKeys.pc # "gate" /\ AfterKeys.flow \in { cli.flow, "none" }
        BY <1>0, RecordFields DEF AfterKeys, Clis
      <4> QED
        BY <1>3, <4>1, <4>2 DEF Deleting, Steps
    <3>2. files'.allow = files.allow
      BY <1>0, <2>11, PlaintextFields DEF DeleteKey, Shred
    <3> QED
      BY <1>1, <2>11, <3>1, <3>2 DEF DeleteKey
  <2>12. CASE DeleteRest
    <3>1. cli'.pc # "gate" /\ cli'.flow \in { cli.flow, "none" }
      BY <1>3, <2>12, RecordFields DEF DeleteRest, Steps
    <3> QED
      BY <1>0, <1>1, <2>12, <3>1 DEF DeleteRest, BlobRemoved, StateRemoved, Files
  <2>13. CASE FreshState
    BY <1>0, <1>1, <2>13, RecordFields DEF FreshState, StateSaved, Files
  <2> QED
    BY <1>7, <2>1, <2>2, <2>3, <2>4, <2>5, <2>6, <2>7, <2>8, <2>9, <2>10, <2>11,
       <2>12, <2>13 DEF CliStep
<1>8. CASE Receive \/ SavePairing \/ WipePairing \/ LoseLine \/ NanoReset
           \/ WipeSketch \/ WriteBack
  BY <1>1, <1>8 DEF Receive, SavePairing, WipePairing, LoseLine, NanoReset, WipeSketch,
                    WriteBack
<1>9. CASE DaemonCommand
  BY <1>0, <1>1, <1>9 DEF DaemonCommand, StateSaved, Files
<1>10. CASE Touch
  BY <1>0, <1>10, MarkerFields DEF Touch, GateInv, PairFlow
<1>11. CASE Kill
  BY <1>1, <1>11, RecordFields DEF Kill
<1>12. CASE PowerLoss
  BY <1>0, <1>12, RecordFields DEF PowerLoss, GateInv, PairFlow
<1> QED
  BY <1>4, <1>5, <1>6, <1>7, <1>8, <1>9, <1>10, <1>11, <1>12 DEF Next

-----------------------------------------------------------------------------
(* The deletions *)

LEMMA ShredStep ==
  ASSUME TypeInv, ShredInv, MoveInv, Next
  PROVE  ShredInv'
<1> DEFINE Late == { "unlinkKey", "shredBak", "unlinkBak" }
<1>0. /\ cli \in Clis /\ files \in Files /\ medium \in Files /\ Shape
      /\ None \notin Keys /\ Garbled \notin Keys /\ None # Garbled
      /\ warned \in BOOLEAN
  BY KeyFilesAssumption DEF TypeInv, TypeOK, Clis
<1>1. ASSUME files'.key = files.key, files'.bak = files.bak,
             \/ UNCHANGED << medium, warned >>
             \/ /\ medium'.key = files'.key /\ medium'.bak \in { files'.bak, Garbled }
                /\ Settle,
             cli'.pc \notin Late \/ UNCHANGED cli
      PROVE  ShredInv'
  <2>1. CASE UNCHANGED << medium, warned >>
    BY <1>1, <2>1 DEF ShredInv
  <2>2. CASE /\ medium'.key = files'.key /\ medium'.bak \in { files'.bak, Garbled }
             /\ Settle
    <3>1. cli.pc \in Late => warned' = warned
      BY <1>0, <2>2 DEF Settle, Deleting
    <3> QED
      BY <1>0, <1>1, <2>2, <3>1 DEF ShredInv
  <2> QED
    BY <1>1, <2>1, <2>2
<1>2. ASSUME NEW f \in Files, medium' \in Synced(medium, f)
      PROVE  medium'.key = f.key /\ medium'.bak \in { f.bak, Garbled }
  BY <1>2, SyncedFields
<1>3. ASSUME NEW pc \in Steps, Goto(pc)
      PROVE  cli'.pc = pc
  BY <1>0, <1>3 DEF Goto, Clis
<1>4. ASSUME NEW flow \in { "pair", "sealed" }, NEW key \in Keys, BeginPair(flow, key)
      PROVE  ShredInv'
  BY <1>1, <1>4 DEF BeginPair, Begin
<1>5. CASE BeginReseal \/ BeginPolicy \/ BeginUnpair
  <2>1. ASSUME NEW flow, NEW pc \in { "seal", "spend", "shredKey" }, NEW key,
               Begin(flow, pc, key)
        PROVE  cli'.pc \notin Late
    BY <2>1 DEF Begin
  <2>2. cli'.pc \notin Late
    BY <1>5, <2>1 DEF BeginReseal, BeginPolicy, BeginUnpair
  <2> QED
    BY <1>1, <1>5, <2>2 DEF BeginReseal, BeginPolicy, BeginUnpair
<1>6. CASE CliStep
  <2>1. ASSUME NEW key \in Keys, PairAgain(key)
        PROVE  ShredInv'
    BY <1>1, <2>1 DEF PairAgain
  <2>2. CASE CloseGate
    BY <1>0, <1>1, <1>3, <2>2, MarkerFields DEF CloseGate, Steps
  <2>3. CASE SendPair \/ SendUnpair \/ Answered \/ Verify
    BY <1>1, <1>3, <2>3 DEF SendPair, SendUnpair, Answered, Verify, Steps
  <2>4. CASE SpendCounter
    <3>1. files'.key = files.key /\ files'.bak = files.bak
      BY <1>0, <2>4 DEF SpendCounter, StateSaved, Files
    <3> QED
      BY <1>0, <1>1, <1>2, <1>3, <2>4, <3>1 DEF SpendCounter, Sync, Steps
  <2>5. CASE Confirm
    <3>1. cli.flow \in { "pair", "sealed", "unpair" }
      BY <1>0, <2>5 DEF Confirm, Shape
    <3>2. \E pc \in { "rename", "seal", "shredKey" } : Goto(pc)
      BY <2>5, <3>1 DEF Confirm
    <3> QED
      BY <1>1, <1>3, <2>5, <3>2 DEF Confirm, Steps
  <2>6. CASE Bail
    BY <1>1, <2>6, RecordFields DEF Bail
  <2>7. CASE RenameKey
    <3>1. cli.key \in Keys /\ cli'.pc = "copy"
      BY <1>0, <1>3, <2>7 DEF RenameKey, Shape, Steps
    <3>2. files'.key = cli.key /\ files'.bak = files.bak
      BY <1>0, <2>7, PlaintextFields DEF RenameKey
    <3>3. medium'.bak \in { files.bak, Garbled }
      BY <1>0, <1>2, <2>7 DEF RenameKey, Sync
    <3> QED
      BY <1>0, <3>1, <3>2, <3>3 DEF ShredInv
  <2>8. CASE CopyKey
    <3>1. files'.key = files.key /\ files'.bak \in { Garbled, files.key }
          /\ UNCHANGED << medium, warned >>
      BY <1>0, <2>8, PlaintextFields DEF CopyKey
    <3>2. cli'.pc \in { "fill", "fresh" }
      BY <1>3, <2>8 DEF CopyKey, Steps
    <3>3. files'.bak # None
      <4>1. cli.pc = "fill" => files.key \in Keys
        BY <1>0, <2>8 DEF CopyKey, Shape, MoveInv
      <4> QED
        BY <1>0, <2>8, <4>1, PlaintextFields DEF CopyKey
    <3> QED
      BY <1>0, <3>1, <3>2, <3>3 DEF ShredInv
  <2>9. ASSUME NEW policy \in Policies, SealKey(policy)
        PROVE  ShredInv'
    <3>1. PICK blob : cli' = [cli EXCEPT !.blob = blob,
                        !.pc = IF cli.flow = "sealed" THEN "persist" ELSE "verify"]
      BY <2>9 DEF SealKey
    <3>2. cli'.pc \notin Late
      BY <1>0, <3>1 DEF Clis
    <3> QED
      BY <1>1, <2>9, <3>2 DEF SealKey
  <2>10. CASE Persist
    <3>1. cli'.pc \notin Late
      BY <1>3, <2>10, RecordFields DEF Persist, Steps
    <3>2. files'.key = files.key /\ files'.bak = files.bak
      BY <1>0, <2>10 DEF Persist, BlobRenamed, Files
    <3> QED
      BY <1>0, <1>1, <1>2, <2>10, <3>1, <3>2 DEF Persist, Sync
  <2>11. CASE DeleteKey
    <3>1. CASE cli.pc = "shredKey"
      <4>1. /\ Shred(files.key, KeyShredded(files), "unlinkKey")
            /\ cli'.pc = "unlinkKey" /\ KeyShredded(files) \in Files
        BY <1>0, <1>3, <2>11, <3>1, RemovedFields DEF DeleteKey, Shred, Steps
      <4>2. CASE warned'
        BY <4>1, <4>2 DEF ShredInv
      <4>3. CASE ~warned'
        <5>1. /\ files' = KeyShredded(files) /\ ~warned
              /\ medium' \in IF files.key = None THEN { medium }
                             ELSE Synced(medium, KeyShredded(files))
          BY <4>1, <4>3 DEF Shred
        <5>2. files'.key \in { None, Garbled } /\ files'.bak = files.bak
          BY <1>0, <5>1, PlaintextFields
        <5>3. CASE files.key = None
          BY <1>0, <4>1, <5>1, <5>2, <5>3 DEF ShredInv
        <5>4. CASE files.key # None
          <6>1. medium'.key = files'.key /\ medium'.bak \in { files'.bak, Garbled }
            BY <1>2, <4>1, <5>1, <5>4
          <6> QED
            BY <1>0, <4>1, <5>2, <6>1 DEF ShredInv
        <5> QED
          BY <5>3, <5>4
      <4> QED
        BY <4>2, <4>3
    <3>2. CASE cli.pc = "unlinkKey"
      <4>1. /\ files' = KeyRemoved(files) /\ cli'.pc = "shredBak"
            /\ UNCHANGED << medium, warned >>
        BY <1>3, <2>11, <3>2 DEF DeleteKey, Steps
      <4>2. files'.key = None /\ files'.bak = files.bak
        BY <1>0, <4>1, PlaintextFields
      <4> QED
        BY <1>0, <3>2, <4>1, <4>2 DEF ShredInv
    <3>3. CASE cli.pc = "shredBak"
      <4>1. /\ Shred(files.bak, BakShredded(files), "unlinkBak")
            /\ cli'.pc = "unlinkBak" /\ BakShredded(files) \in Files
        BY <1>0, <1>3, <2>11, <3>3, RemovedFields DEF DeleteKey, Shred, Steps
      <4>2. files.key \notin Keys /\ files'.key = files.key
        BY <1>0, <3>3, <4>1, PlaintextFields DEF ShredInv, Shred
      <4>3. CASE warned'
        BY <4>1, <4>2, <4>3 DEF ShredInv
      <4>4. CASE ~warned'
        <5>1. /\ files' = BakShredded(files) /\ ~warned
              /\ medium' \in IF files.bak = None THEN { medium }
                             ELSE Synced(medium, BakShredded(files))
          BY <4>1, <4>4 DEF Shred
        <5>2. files'.bak \in { None, Garbled }
          BY <1>0, <5>1, PlaintextFields
        <5>3. CASE files.bak = None
          BY <1>0, <4>1, <4>2, <5>1, <5>2, <5>3 DEF ShredInv
        <5>4. CASE files.bak # None
          <6>1. medium'.key = files'.key /\ medium'.bak \in { files'.bak, Garbled }
            BY <1>2, <4>1, <5>1, <5>4
          <6> QED
            BY <1>0, <4>1, <4>2, <5>2, <6>1 DEF ShredInv
        <5> QED
          BY <5>3, <5>4
      <4> QED
        BY <4>3, <4>4
    <3>4. CASE cli.pc = "unlinkBak"
      <4>1. /\ files' = BakRemoved(files) /\ cli' = AfterKeys
            /\ UNCHANGED << medium, warned >>
        BY <2>11, <3>4 DEF DeleteKey
      <4>2. files'.bak = None /\ files'.key = files.key
        BY <1>0, <4>1, PlaintextFields
      <4>3. cli'.pc \notin Late
        BY <1>0, <4>1, RecordFields DEF AfterKeys, Clis
      <4> QED
        BY <1>0, <3>4, <4>1, <4>2, <4>3 DEF ShredInv
    <3> QED
      BY <2>11, <3>1, <3>2, <3>3, <3>4 DEF DeleteKey
  <2>12. CASE DeleteRest
    <3>1. cli'.pc \notin Late
      BY <1>3, <2>12, RecordFields DEF DeleteRest, Steps
    <3> QED
      BY <1>0, <1>1, <2>12, <3>1 DEF DeleteRest, BlobRemoved, StateRemoved, Files
  <2>13. CASE FreshState
    <3>1. files'.key = files.key /\ files'.bak = files.bak /\ cli'.pc = "off"
      BY <1>0, <2>13, RecordFields DEF FreshState, StateSaved, Files
    <3> QED
      BY <1>0, <1>1, <1>2, <2>13, <3>1 DEF FreshState, Sync
  <2> QED
    BY <1>6, <2>1, <2>2, <2>3, <2>4, <2>5, <2>6, <2>7, <2>8, <2>9, <2>10, <2>11,
       <2>12, <2>13 DEF CliStep
<1>7. CASE Receive \/ SavePairing \/ WipePairing \/ LoseLine \/ NanoReset \/ WipeSketch
  BY <1>1, <1>7 DEF Receive, SavePairing, WipePairing, LoseLine, NanoReset, WipeSketch
<1>8. CASE DaemonCommand
  <2>1. files'.key = files.key /\ files'.bak = files.bak
    BY <1>0, <1>8 DEF DaemonCommand, StateSaved, Files
  <2> QED
    BY <1>0, <1>1, <1>2, <1>8, <2>1 DEF DaemonCommand, Sync
<1>9. CASE Touch
  BY <1>0, <1>1, <1>9, MarkerFields DEF Touch
<1>10. CASE WriteBack
  BY <1>1, <1>10 DEF WriteBack
<1>11. CASE Kill
  BY <1>1, <1>11, RecordFields DEF Kill
<1>12. CASE PowerLoss
  BY <1>0, <1>12, RecordFields DEF PowerLoss, ShredInv
<1> QED
  BY <1>4, <1>5, <1>6, <1>7, <1>8, <1>9, <1>10, <1>11, <1>12 DEF Next

-----------------------------------------------------------------------------
(* The key on its way from one file to another *)

\* A pairing is reported only when it is complete, and only by FreshState.
LEMMA UndoStep ==
  ASSUME TypeInv, LinkInv, UndoInv, PairingKept, Next
  PROVE  UndoInv'
<1>0. cli \in Clis /\ nano \in [at : Regions, key : Keys \cup { None }] /\ Shape
  BY DEF TypeInv, TypeOK, Clis
<1>1. ASSUME reported' \in { None, reported }, ~Undoing => ~Undoing'
      PROVE  UndoInv'
  BY <1>1 DEF UndoInv
<1>2. ASSUME ~ee.magic, reported' = reported
      PROVE  UndoInv'
  BY <1>2 DEF UndoInv, PairingKept
<1>3. ASSUME UNCHANGED << reported, nano >>, cli'.flow = cli.flow,
             cli.flow = "unpair" =>
               \/ cli'.pc \in { "send", "wait", "confirm" }
               \/ cli.pc \notin { "spend", "send", "wait", "confirm" }
      PROVE  UndoInv'
  BY <1>1, <1>3 DEF Undoing
<1>4. ASSUME NEW pc \in Steps, Goto(pc)
      PROVE  cli'.flow = cli.flow /\ cli'.pc = pc
  BY <1>0, <1>4 DEF Goto, Clis
<1>5. ASSUME cli' = Off, UNCHANGED << reported, nano >>
      PROVE  UndoInv'
  BY <1>1, <1>5, RecordFields DEF Undoing
<1>6. ASSUME UNCHANGED << reported, nano, cli >>
      PROVE  UndoInv'
  BY <1>1, <1>6 DEF Undoing
<1>7. ASSUME NEW flow \in { "pair", "sealed" }, NEW key \in Keys, BeginPair(flow, key)
      PROVE  UndoInv'
  BY <1>2, <1>7 DEF BeginPair
<1>8. CASE BeginReseal
  BY <1>2, <1>8 DEF BeginReseal
<1>9. CASE BeginPolicy
  <2>1. cli'.flow \in { "policy", "policyPlain" }
    BY <1>9 DEF BeginPolicy, Begin
  <2> QED
    BY <1>1, <1>9, <2>1 DEF BeginPolicy, Undoing
<1>10. CASE BeginUnpair
  <2>1. CASE ee.magic
    <3>1. \E key : Begin("unpair", "spend", key)
      BY <1>10, <2>1 DEF BeginUnpair
    <3>2. cli'.flow = "unpair" /\ cli'.pc = "spend"
      BY <3>1 DEF Begin
    <3> QED
      BY <1>1, <1>10, <3>2 DEF BeginUnpair, Undoing
  <2>2. CASE ~ee.magic
    BY <1>2, <1>10, <2>2 DEF BeginUnpair
  <2> QED
    BY <2>1, <2>2
<1>11. CASE CliStep
  <2>1. ASSUME NEW key \in Keys, PairAgain(key)
        PROVE  UndoInv'
    BY <1>2, <2>1 DEF PairAgain
  <2>2. CASE CloseGate \/ SendPair \/ SpendCounter \/ SendUnpair \/ Answered
    BY <1>0, <1>3, <1>4, <2>2
    DEF CloseGate, SendPair, SpendCounter, SendUnpair, Answered, Steps, Shape, PairFlow
  <2>3. CASE Confirm
    <3>1. CASE cli.flow = "unpair"
      BY <1>2, <2>3, <3>1, KeyFilesAssumption DEF Confirm, TypeInv, TypeOK
    <3>2. CASE cli.flow # "unpair"
      <4>1. \E pc \in { "rename", "seal" } : Goto(pc)
        BY <1>0, <2>3, <3>2 DEF Confirm, Shape
      <4> QED
        BY <1>3, <1>4, <2>3, <3>2, <4>1 DEF Confirm, Steps
    <3> QED
      BY <3>1, <3>2
  <2>4. CASE Bail
    BY <1>5, <2>4 DEF Bail
  <2>5. CASE RenameKey \/ CopyKey \/ Verify
    BY <1>3, <1>4, <2>5 DEF RenameKey, CopyKey, Verify, Steps
  <2>6. ASSUME NEW policy \in Policies, SealKey(policy)
        PROVE  UndoInv'
    <3>1. PICK blob : cli' = [cli EXCEPT !.blob = blob,
                        !.pc = IF cli.flow = "sealed" THEN "persist" ELSE "verify"]
      BY <2>6 DEF SealKey
    <3>2. cli'.flow = cli.flow
      BY <1>0, <3>1 DEF Clis
    <3> QED
      BY <1>3, <2>6, <3>2 DEF SealKey
  <2>7. CASE Persist
    BY <1>3, <1>4, <1>5, <2>7 DEF Persist, Steps
  <2>8. CASE DeleteKey
    <3>1. CASE cli' = AfterKeys /\ cli.pc = "unlinkBak"
      <4>1. \/ cli' = Off
            \/ Goto("unlinkBlob")
            \/ Goto("fresh")
        BY <3>1 DEF AfterKeys, Goto
      <4> QED
        BY <1>3, <1>4, <1>5, <2>8, <3>1, <4>1 DEF DeleteKey, Steps
    <3>2. CASE \E pc \in Deleting : Goto(pc) /\ cli.pc \in Deleting
      BY <1>3, <1>4, <2>8, <3>2 DEF DeleteKey, Deleting, Steps
    <3> QED
      BY <2>8, <3>1, <3>2 DEF DeleteKey, Shred, Deleting
  <2>9. CASE DeleteRest
    BY <1>3, <1>4, <1>5, <2>9 DEF DeleteRest, Steps
  <2>10. CASE FreshState
    <3>1. LinkQuiet
      BY <1>0, <2>10 DEF FreshState, Shape, LinkInv
    <3> QED
      BY <2>10, <3>1, RecordFields DEF FreshState, UndoInv, Undoing, LinkQuiet
  <2> QED
    BY <1>11, <2>1, <2>2, <2>3, <2>4, <2>5, <2>6, <2>7, <2>8, <2>9, <2>10 DEF CliStep
<1>12. CASE Receive
  <2>1. CASE ~ee.magic
    BY <1>2, <1>12, <2>1 DEF Receive
  <2>2. CASE ee.magic
    <3>1. nano'.at \in { "wipeMagic", "ready" }
      BY <1>12, <2>2, RecordFields DEF Receive, Answer
    <3> QED
      BY <1>1, <1>12, <3>1 DEF Receive, Undoing
  <2> QED
    BY <2>1, <2>2
<1>13. CASE SavePairing
  <2>1. nano.at \in { "magic", "key", "ring" }
    BY <1>13 DEF SavePairing
  <2> QED
    BY <1>1, <1>13, <2>1 DEF SavePairing, Undoing
<1>14. CASE WipePairing
  <2>1. CASE nano.at = "wipeMagic"
    BY <1>14, <2>1 DEF WipePairing, UndoInv
  <2>2. CASE nano.at \in { "wipeKey", "wipeRing" }
    BY <1>1, <1>14, <2>2 DEF WipePairing, Undoing
  <2> QED
    BY <1>14, <2>1, <2>2 DEF WipePairing
<1>15. CASE NanoReset
  BY <1>1, <1>15, RecordFields DEF NanoReset, ResetNano, Undoing
<1>16. CASE LoseLine \/ DaemonCommand \/ Touch \/ WriteBack
  BY <1>6, <1>16 DEF LoseLine, DaemonCommand, Touch, WriteBack
<1>17. CASE WipeSketch
  BY <1>17 DEF WipeSketch, UndoInv
<1>18. CASE Kill
  BY <1>5, <1>18 DEF Kill
<1>19. CASE PowerLoss
  BY <1>1, <1>19, RecordFields DEF PowerLoss, ResetNano, Undoing
<1> QED
  BY <1>7, <1>8, <1>9, <1>10, <1>11, <1>12, <1>13, <1>14, <1>15, <1>16, <1>17, <1>18,
     <1>19 DEF Next

\* A flow that moves the key has it in the file it moved it to.
LEMMA MoveStep ==
  ASSUME TypeInv, LinkInv, MoveInv, UndoInv, PairingKept, Next
  PROVE  MoveInv'
<1>0. /\ cli \in Clis /\ files \in Files /\ boot \in Boots /\ Shape
      /\ None \notin Keys /\ Garbled \notin Keys
  BY KeyFilesAssumption DEF TypeInv, TypeOK, Clis
<1>1. ASSUME cli'.flow \notin { "policy", "policyPlain" },
             cli'.pc \notin Deleting \cup { "copy", "fill", "fresh" }
      PROVE  MoveInv'
  BY <1>1 DEF MoveInv, Deleting
<1>2. ASSUME UNCHANGED cli, files'.key = files.key, files'.bak = files.bak,
             files'.tpm = files.tpm, reported' \in { None, reported }
      PROVE  MoveInv'
  BY <1>0, <1>2 DEF MoveInv, PlaintextKey
<1>3. ASSUME NEW pc \in Steps, Goto(pc)
      PROVE  cli'.flow = cli.flow /\ cli'.pc = pc /\ cli'.key = cli.key
             /\ cli'.blob = cli.blob
  BY <1>0, <1>3 DEF Goto, Clis
<1>4. ASSUME cli' = Off
      PROVE  MoveInv'
  BY <1>1, <1>4, RecordFields DEF Deleting
<1>5. ASSUME cli'.flow \in { "reseal", "unpair", "tidy" }
      PROVE  MoveInv'
  BY <1>5 DEF MoveInv
<1>6. ASSUME NEW flow \in { "pair", "sealed" }, NEW key \in Keys, BeginPair(flow, key)
      PROVE  MoveInv'
  BY <1>1, <1>6 DEF BeginPair, Begin, Deleting
<1>7. CASE BeginReseal
  BY <1>5, <1>7 DEF BeginReseal, Begin
<1>8. CASE BeginPolicy
  <2> DEFINE key == LoadKey(files, boot)
  <2>1. /\ key \in Keys /\ files' = files
        /\ Begin(IF files.tpm = None THEN "policyPlain" ELSE "policy", "seal", key)
    BY <1>8 DEF BeginPolicy
  <2>2. /\ files.tpm # None => files.tpm.key = key
        /\ files.tpm = None => PlaintextKey(files) = key
    BY <1>0, <2>1, LoadFacts
  <2> HIDE DEF key
  <2>3. CASE files.tpm = None
    <3>1. cli'.flow = "policyPlain" /\ cli'.pc = "seal" /\ cli'.key = key
      BY <2>1, <2>3 DEF Begin
    <3> QED
      BY <2>1, <2>2, <2>3, <3>1 DEF MoveInv, Deleting
  <2>4. CASE files.tpm # None
    <3>1. cli'.flow = "policy" /\ cli'.pc = "seal" /\ cli'.key = key
      BY <2>1, <2>4 DEF Begin
    <3> QED
      BY <2>1, <2>2, <2>4, <3>1 DEF MoveInv
  <2> QED
    BY <2>3, <2>4
<1>9. CASE BeginUnpair
  <2>1. ASSUME NEW pc, NEW key, Begin("unpair", pc, key) \/ Begin("tidy", pc, key)
        PROVE  cli'.flow \in { "unpair", "tidy" }
    BY <2>1 DEF Begin
  <2> QED
    BY <1>5, <1>9, <2>1 DEF BeginUnpair
<1>10. CASE CliStep
  <2>1. ASSUME NEW key \in Keys, PairAgain(key)
        PROVE  MoveInv'
    BY <1>1, <2>1 DEF PairAgain, Deleting
  <2>2. CASE CloseGate \/ SendPair \/ SpendCounter \/ SendUnpair \/ Answered
    BY <1>0, <1>1, <1>3, <2>2 DEF CloseGate, SendPair, SpendCounter, SendUnpair,
                                  Answered, Shape, PairFlow, Deleting, Steps
  <2>3. CASE Confirm
    <3>1. CASE cli.flow = "unpair"
      <4>1. Goto("shredKey")
        BY <2>3, <3>1 DEF Confirm
      <4> QED
        BY <1>3, <1>5, <3>1, <4>1 DEF Steps
    <3>2. CASE cli.flow \in { "pair", "sealed" }
      <4>1. \E pc \in { "rename", "seal" } : Goto(pc)
        BY <2>3, <3>2 DEF Confirm
      <4> QED
        BY <1>1, <1>3, <3>2, <4>1 DEF Steps, Deleting
    <3> QED
      BY <1>0, <2>3, <3>1, <3>2 DEF Confirm, Shape
  <2>4. CASE Bail
    BY <1>4, <2>4 DEF Bail
  <2>5. CASE RenameKey
    <3>1. cli'.pc = "copy" /\ cli'.flow = "pair" /\ cli'.key = cli.key
      BY <1>0, <1>3, <2>5 DEF RenameKey, Shape, Steps
    <3>2. files'.key = cli.key
      BY <1>0, <2>5, PlaintextFields DEF RenameKey
    <3> QED
      BY <3>1, <3>2 DEF MoveInv
  <2>6. CASE CopyKey
    <3>1. cli'.pc \in { "fill", "fresh" } /\ cli'.flow = "pair" /\ cli'.key = cli.key
      BY <1>0, <1>3, <2>6 DEF CopyKey, Shape, Steps
    <3>2. files.key = cli.key /\ files'.key = files.key
      BY <1>0, <2>6, PlaintextFields DEF CopyKey, Shape, MoveInv
    <3> QED
      BY <3>1, <3>2 DEF MoveInv
  <2>7. ASSUME NEW policy \in Policies, SealKey(policy)
        PROVE  MoveInv'
    <3>1. PICK blob : cli' = [cli EXCEPT !.blob = blob,
                        !.pc = IF cli.flow = "sealed" THEN "persist" ELSE "verify"]
      BY <2>7 DEF SealKey
    <3>2. /\ cli'.flow = cli.flow /\ cli'.key = cli.key /\ files' = files
          /\ cli'.pc = IF cli.flow = "sealed" THEN "persist" ELSE "verify"
      BY <1>0, <2>7, <3>1 DEF SealKey, Clis
    <3>3. cli.flow \in { "sealed", "policy", "policyPlain" } /\ cli.pc = "seal"
      BY <1>0, <2>7 DEF SealKey, Shape
    <3> QED
      BY <3>2, <3>3 DEF MoveInv, Deleting
  <2>8. CASE Verify
    <3>1. cli.blob \in Blobs /\ Unseal(cli.blob, boot) = cli.key /\ cli.key \in Keys
      BY <1>0, <2>8 DEF Verify, Shape, Clis
    <3>2. cli.blob.key = cli.key
      BY <1>0, <3>1, BlobFacts
    <3>3. /\ cli'.pc = "persist" /\ cli'.flow = cli.flow /\ cli'.key = cli.key
          /\ cli'.blob = cli.blob /\ files' = files
      BY <1>3, <2>8 DEF Verify, Steps
    <3>4. cli.flow \in { "policy", "policyPlain" } /\ cli.pc = "verify"
      BY <1>0, <2>8 DEF Verify, Shape
    <3> QED
      BY <3>2, <3>3, <3>4 DEF MoveInv, Deleting
  <2>9. CASE Persist
    <3>1. CASE cli.flow = "policy"
      BY <1>4, <2>9, <3>1 DEF Persist
    <3>2. CASE cli.flow = "sealed"
      <4>1. cli'.flow = "sealed" /\ cli'.pc = "shredKey" /\ cli'.blob = cli.blob
        BY <1>3, <2>9, <3>2 DEF Persist, Steps
      <4>2. files'.tpm = cli.blob
        BY <1>0, <2>9 DEF Persist, BlobRenamed, Files
      <4> QED
        BY <4>1, <4>2 DEF MoveInv
    <3>3. CASE cli.flow = "policyPlain"
      <4>1. /\ cli'.flow = "policyPlain" /\ cli'.pc = "shredKey" /\ cli'.key = cli.key
            /\ cli.blob # None /\ cli.blob.key = cli.key /\ reported' = reported
        BY <1>0, <1>3, <2>9, <3>3 DEF Persist, Steps, Shape, MoveInv
      <4>2. files'.tpm = cli.blob
        BY <1>0, <2>9 DEF Persist, BlobRenamed, Files
      <4>3. reported \in { None, cli.key }
        <5>1. files.tpm = None /\ PlaintextKey(files) = cli.key
          BY <2>9, <3>3 DEF Persist, MoveInv
        <5>2. reported # None => files.key = reported /\ reported \in Keys
          BY <5>1 DEF PairingKept, Keeps, TypeInv, TypeOK
        <5> QED
          BY <5>1, <5>2 DEF PlaintextKey
      <4> QED
        BY <4>1, <4>2, <4>3 DEF MoveInv, Deleting
    <3> QED
      BY <1>0, <2>9, <3>1, <3>2, <3>3 DEF Persist, Shape
  <2>10. CASE DeleteKey
    <3>1. files'.tpm = files.tpm /\ reported' = reported
      BY <1>0, <2>10, PlaintextFields DEF DeleteKey, Shred
    <3>2. CASE \E pc \in Deleting : Goto(pc) /\ cli.pc \in Deleting
      BY <1>0, <1>3, <3>1, <3>2 DEF MoveInv, Shape, Deleting, Steps
    <3>3. CASE cli' = AfterKeys /\ cli.pc = "unlinkBak"
      <4>1. \/ cli' = Off
            \/ cli.flow \in { "unpair", "reseal" } /\ Goto("unlinkBlob")
            \/ cli.flow = "sealed" /\ Goto("fresh")
        BY <3>3 DEF AfterKeys, Goto
      <4>2. ASSUME cli.flow \in { "unpair", "reseal" }, Goto("unlinkBlob")
            PROVE  MoveInv'
        BY <1>3, <1>5, <4>2 DEF Steps
      <4>3. ASSUME cli.flow = "sealed", Goto("fresh")
            PROVE  MoveInv'
        BY <1>3, <3>1, <3>3, <4>3 DEF MoveInv, Deleting, Steps
      <4> QED
        BY <1>4, <4>1, <4>2, <4>3
    <3> QED
      BY <2>10, <3>2, <3>3 DEF DeleteKey, Shred, Deleting
  <2>11. CASE DeleteRest
    BY <1>0, <1>3, <1>4, <1>5, <2>11 DEF DeleteRest, Shape, Steps
  <2>12. CASE FreshState
    BY <1>4, <2>12 DEF FreshState
  <2> QED
    BY <1>10, <2>1, <2>2, <2>3, <2>4, <2>5, <2>6, <2>7, <2>8, <2>9, <2>10, <2>11, <2>12
    DEF CliStep
<1>11. CASE Receive \/ SavePairing \/ WipePairing \/ LoseLine \/ NanoReset
            \/ WipeSketch \/ WriteBack
  BY <1>2, <1>11 DEF Receive, SavePairing, WipePairing, LoseLine, NanoReset, WipeSketch,
                     WriteBack
<1>12. CASE DaemonCommand
  BY <1>0, <1>2, <1>12 DEF DaemonCommand, StateSaved, Files
<1>13. CASE Touch
  BY <1>0, <1>2, <1>13 DEF Touch, Opened, Files
<1>14. CASE Kill \/ PowerLoss
  BY <1>4, <1>14 DEF Kill, PowerLoss
<1> QED
  BY <1>6, <1>7, <1>8, <1>9, <1>10, <1>11, <1>12, <1>13, <1>14 DEF Next

\* The host's copies of the key survive every write.
LEMMA KeptStep ==
  ASSUME TypeInv, LinkInv, MoveInv, UndoInv, PairingKept, Next
  PROVE  PairingKept'
<1>0. /\ cli \in Clis /\ files \in Files /\ medium \in Files /\ Shape
      /\ ee \in [magic : BOOLEAN, key : Keys \cup { Blank, Torn }, last : 0 .. (Ceiling - 1)]
      /\ None \notin Keys
  BY KeyFilesAssumption DEF TypeInv, TypeOK, Clis
<1>1. ASSUME UNCHANGED << reported, ee.magic, ee.key >>,
             files'.key = files.key, files'.tpm = files.tpm,
             medium' = medium \/ (medium'.key = files.key /\ medium'.tpm = files.tpm)
      PROVE  PairingKept'
  BY <1>1 DEF PairingKept, Keeps
<1>2. ASSUME UNCHANGED reported, Undoing
      PROVE  PairingKept'
  BY <1>2 DEF UndoInv, PairingKept
<1>3. ASSUME NEW f \in Files, medium' \in Synced(medium, f)
      PROVE  medium'.key = f.key /\ medium'.tpm = f.tpm
  BY <1>3, SyncedFields
<1>4. ASSUME NEW flow \in { "pair", "sealed" }, NEW key \in Keys, BeginPair(flow, key)
      PROVE  PairingKept'
  BY <1>1, <1>4 DEF BeginPair
<1>5. CASE BeginReseal \/ BeginPolicy \/ BeginUnpair
  BY <1>1, <1>5 DEF BeginReseal, BeginPolicy, BeginUnpair
<1>6. CASE CliStep
  <2>1. ASSUME NEW key \in Keys, PairAgain(key)
        PROVE  PairingKept'
    BY <1>1, <2>1 DEF PairAgain
  <2>2. CASE CloseGate
    BY <1>0, <1>1, <2>2 DEF CloseGate, Closed, Files
  <2>3. CASE SendPair \/ SendUnpair \/ Answered \/ Confirm \/ Bail \/ Verify
    BY <1>1, <2>3 DEF SendPair, SendUnpair, Answered, Confirm, Bail, Verify
  <2>4. CASE SpendCounter
    <3>1. files'.key = files.key /\ files'.tpm = files.tpm
      BY <1>0, <2>4 DEF SpendCounter, StateSaved, Files
    <3> QED
      BY <1>0, <1>1, <1>3, <2>4, <3>1 DEF SpendCounter, Sync
  <2>5. CASE RenameKey \/ CopyKey
    BY <1>0, <1>2, <2>5 DEF RenameKey, CopyKey, Shape, Undoing
  <2>6. ASSUME NEW policy \in Policies, SealKey(policy)
        PROVE  PairingKept'
    BY <1>1, <2>6 DEF SealKey
  <2>7. CASE Persist
    <3>1. CASE cli.flow = "sealed"
      BY <1>2, <2>7, <3>1 DEF Persist, Undoing
    <3>2. CASE cli.flow \in { "policy", "policyPlain" }
      <4>1. files'.key = files.key /\ files'.tpm = cli.blob
        BY <1>0, <2>7 DEF Persist, BlobRenamed, Files
      <4>2. cli.blob # None /\ cli.blob.key = cli.key
        BY <1>0, <2>7, <3>2 DEF Persist, Shape, MoveInv
      <4>3. reported # None => Keeps(files', reported)
        <5>1. cli.flow = "policy" => files.tpm.key = cli.key
          BY DEF MoveInv
        <5>2. cli.flow = "policyPlain" => files.tpm = None
          BY <2>7 DEF Persist, MoveInv
        <5> QED
          BY <3>2, <4>1, <4>2, <5>1, <5>2 DEF PairingKept, Keeps
      <4>4. medium'.key = files.key /\ medium'.tpm = files.tpm
        BY <1>0, <1>3, <2>7 DEF Persist, Sync
      <4> QED
        BY <2>7, <4>3, <4>4 DEF Persist, PairingKept, Keeps
    <3> QED
      BY <1>0, <2>7, <3>1, <3>2 DEF Persist, Shape
  <2>8. CASE DeleteKey
    <3>1. CASE cli.flow # "policyPlain"
      BY <1>0, <1>2, <2>8, <3>1 DEF DeleteKey, Shape, Deleting, Undoing
    <3>2. CASE cli.flow = "policyPlain"
      <4>1. /\ files.tpm # None /\ files.tpm.key = cli.key
            /\ reported \in { None, cli.key } /\ UNCHANGED << reported, ee >>
        BY <2>8, <3>2 DEF DeleteKey, MoveInv, Deleting
      <4>2. files'.tpm = files.tpm
        BY <1>0, <2>8, PlaintextFields DEF DeleteKey, Shred
      <4>3. medium' = medium \/ medium'.tpm = files.tpm
        <5>1. medium' = medium \/ medium' \in Synced(medium, files')
          BY <2>8 DEF DeleteKey, Shred
        <5> QED
          BY <1>3, <4>2, <5>1, FilesTyped
      <4> QED
        BY <4>1, <4>2, <4>3 DEF PairingKept, Keeps
    <3> QED
      BY <3>1, <3>2
  <2>9. CASE DeleteRest
    BY <1>0, <1>2, <2>9 DEF DeleteRest, Shape, Undoing
  <2>10. CASE FreshState
    <3>1. /\ PairFlow /\ ee.magic /\ ee.key = cli.key /\ UNCHANGED ee
          /\ cli.flow = "pair" => files.key = cli.key
          /\ cli.flow = "sealed" => files.tpm = cli.blob /\ cli.blob # None
      BY <1>0, <2>10 DEF FreshState, Shape, LinkInv, MoveInv
    <3>2. files'.key = files.key /\ files'.tpm = files.tpm
      BY <1>0, <2>10 DEF FreshState, StateSaved, Files
    <3>3. medium'.key = files.key /\ medium'.tpm = files.tpm
      BY <1>0, <1>3, <2>10 DEF FreshState, Sync
    <3>4. reported' # None =>
            reported' = cli.key /\ (cli.blob # None => cli.blob.key = cli.key)
      BY <2>10 DEF FreshState
    <3> QED
      BY <3>1, <3>2, <3>3, <3>4 DEF PairFlow, PairingKept, Keeps
  <2> QED
    BY <1>6, <2>1, <2>2, <2>3, <2>4, <2>5, <2>6, <2>7, <2>8, <2>9, <2>10 DEF CliStep
<1>7. CASE Receive
  <2>1. ee'.magic = ee.magic /\ ee'.key = ee.key
    BY <1>0, <1>7 DEF Receive
  <2> QED
    BY <1>1, <1>7, <2>1 DEF Receive
<1>8. CASE SavePairing
  BY <1>2, <1>8 DEF SavePairing, Undoing
<1>9. CASE WipePairing
  <2>1. CASE nano.at = "wipeMagic"
    BY <1>9, <2>1 DEF WipePairing, PairingKept
  <2>2. CASE nano.at \in { "wipeKey", "wipeRing" }
    BY <1>2, <1>9, <2>2 DEF WipePairing, Undoing
  <2> QED
    BY <1>9, <2>1, <2>2 DEF WipePairing
<1>10. ASSUME ee' \in Interrupted, UNCHANGED reported
       PROVE  Undoing \/ UNCHANGED << ee.magic, ee.key >>
  <2>1. CASE nano.at \in { "key", "wipeKey" }
    BY <2>1 DEF Undoing
  <2>2. CASE nano.at \in { "ring", "wipeRing" }
    BY <2>2 DEF Undoing
  <2>3. CASE nano.at \notin { "key", "wipeKey", "ring", "wipeRing" }
    BY <1>10, <2>3 DEF Interrupted
  <2> QED
    BY <2>1, <2>2, <2>3
<1>11. CASE NanoReset
  BY <1>1, <1>2, <1>10, <1>11 DEF NanoReset, ResetNano
<1>12. CASE PowerLoss
  <2>1. ee' \in Interrupted /\ UNCHANGED << reported, medium >> /\ files' = medium
    BY <1>12 DEF PowerLoss, ResetNano
  <2> QED
    BY <1>2, <1>10, <2>1 DEF PairingKept
<1>13. CASE DaemonCommand
  <2>1. ee'.magic = ee.magic /\ ee'.key = ee.key
    BY <1>0, <1>13 DEF DaemonCommand
  <2>2. files'.key = files.key /\ files'.tpm = files.tpm
    BY <1>0, <1>13 DEF DaemonCommand, StateSaved, Files
  <2> QED
    BY <1>0, <1>1, <1>3, <1>13, <2>1, <2>2 DEF DaemonCommand, Sync
<1>14. CASE Touch
  BY <1>0, <1>1, <1>14 DEF Touch, Opened, Files
<1>15. CASE LoseLine \/ WriteBack \/ Kill
  BY <1>1, <1>15 DEF LoseLine, WriteBack, Kill
<1>16. CASE WipeSketch
  BY <1>16 DEF WipeSketch, PairingKept
<1> QED
  BY <1>4, <1>5, <1>6, <1>7, <1>8, <1>9, <1>11, <1>12, <1>13, <1>14, <1>15, <1>16 DEF Next

-----------------------------------------------------------------------------
(* The counters *)

\* g has no key that f has not, and no smaller counter.
Within(g, f) ==
  /\ \A key \in Keys : Has(g, key) => Has(f, key)
  /\ NextCounter(g) >= NextCounter(f)

\* A write of the counter, the marker or a deletion adds no key.
LEMMA WithinFacts ==
  ASSUME NEW f \in Files
  PROVE  /\ NextCounter(f) \in Counter /\ Within(f, f)
         /\ \A m, g : g \in Synced(m, f) => Within(g, f)
         /\ \A g \in { Opened(f), Closed(f), KeyShredded(f), KeyRemoved(f),
                       BakShredded(f), BakRemoved(f), BlobRemoved(f) } : Within(g, f)
         /\ Within(StateSaved(f, NextCounter(f) + 1), f)
<1>0. None \notin Keys /\ Garbled \notin Keys
  BY KeyFilesAssumption
<1>1. NextCounter(f) \in Counter /\ NextCounter(f) \in Int
  BY KeyFilesAssumption DEF NextCounter, Files, Counter
<1>2. ASSUME NEW g, g.state = f.state, g.key \in { f.key, None, Garbled },
             g.bak \in { f.bak, None, Garbled }, g.tpm \in { f.tpm, None }
      PROVE  Within(g, f)
  <2>1. NextCounter(g) = NextCounter(f)
    BY <1>2 DEF NextCounter
  <2>2. \A key \in Keys : Has(g, key) => Has(f, key)
    BY <1>0, <1>2 DEF Has, Keeps
  <2> QED
    BY <1>1, <2>1, <2>2 DEF Within
<1>3. ASSUME NEW m, NEW g \in Synced(m, f)
      PROVE  Within(g, f)
  BY <1>2, <1>3, SyncedFields
<1>4. \A g \in { Opened(f), Closed(f) } : Within(g, f)
  BY <1>2, MarkerFields
<1>5. \A g \in { KeyShredded(f), KeyRemoved(f), BakShredded(f), BakRemoved(f) } : Within(g, f)
  BY <1>2, PlaintextFields
<1>6. Within(BlobRemoved(f), f)
  <2>1. /\ BlobRemoved(f).state = f.state /\ BlobRemoved(f).key = f.key
        /\ BlobRemoved(f).bak = f.bak /\ BlobRemoved(f).tpm = None
    BY DEF BlobRemoved, Files
  <2> QED
    BY <1>2, <2>1
<1>7. Within(StateSaved(f, NextCounter(f) + 1), f)
  <2> DEFINE g == StateSaved(f, NextCounter(f) + 1)
  <2>1. /\ g.state = NextCounter(f) + 1 /\ g.key = f.key /\ g.bak = f.bak
        /\ g.tpm = f.tpm
    BY DEF StateSaved, Files
  <2>2. NextCounter(g) = NextCounter(f) + 1
    BY <1>1, <2>1, KeyFilesAssumption DEF NextCounter
  <2> HIDE DEF g
  <2>3. \A key \in Keys : Has(g, key) => Has(f, key)
    BY <2>1 DEF Has, Keeps
  <2>4. Within(g, f)
    BY <1>1, <2>2, <2>3 DEF Within
  <2> QED
    BY <2>4 DEF g
<1>8. Within(f, f)
  BY <1>1 DEF Within
<1> QED
  BY <1>1, <1>3, <1>4, <1>5, <1>6, <1>7, <1>8

LEMMA BehindStep ==
  ASSUME TypeInv, LinkInv, MoveInv, BehindInv, FlowInv, Next
  PROVE  BehindInv'
<1>0. /\ cli \in Clis /\ files \in Files /\ medium \in Files /\ Shape
      /\ ee \in [magic : BOOLEAN, key : Keys \cup { Blank, Torn }, last : 0 .. (Ceiling - 1)]
      /\ wire \in Lines \cup { None } /\ nano \in [at : Regions, key : Keys \cup { None }]
  BY DEF TypeInv, TypeOK, Clis
<1>f. files' \in Files /\ medium' \in Files
  BY FilesTyped
<1>n. \A f \in Files : NextCounter(f) \in Int /\ NextCounter(f) > 0
  BY WithinFacts, KeyFilesAssumption DEF Counter
<1>i. ee.last \in Int /\ ee.last >= 0 /\ (wire # None /\ wire.verb = "unpair" => wire.ctr \in Int)
  BY <1>0, KeyFilesAssumption DEF Lines, Counter
<1>k. /\ wire # None => wire.key \in Keys
      /\ nano.at \in { "magic", "key", "ring" } => nano.key \in Keys
      /\ Blank \notin Keys /\ Torn \notin Keys
  BY <1>0, PairingAssumption DEF LinkInv, Lines
<1>w. \A f \in Files : \A m, g : g \in Synced(m, f) => Within(g, f)
  BY WithinFacts
<1>1. ASSUME UNCHANGED << ee, wire, nano >>,
             NEW f \in { files, medium }, NEW g \in Files, Within(g, f)
      PROVE  /\ ee.key \in Keys /\ Has(g, ee.key) => NextCounter(g) >= ee.last
             /\ wire # None /\ wire.verb = "unpair" => NextCounter(g) >= wire.ctr
             /\ wire # None /\ wire.verb = "pair" => ~Has(g, wire.key)
             /\ nano.at \in { "magic", "key", "ring" } => ~Has(g, nano.key)
  <2>1. NextCounter(g) \in Int /\ NextCounter(f) \in Int /\ NextCounter(g) >= NextCounter(f)
    BY <1>0, <1>n, <1>1 DEF Within
  <2>2. Behind(f)
    BY <1>1 DEF BehindInv
  <2>3. \A key \in Keys : Has(g, key) => Has(f, key)
    BY <1>1 DEF Within
  <2> QED
    BY <1>i, <1>k, <2>1, <2>2, <2>3 DEF Behind
<1>2. ASSUME UNCHANGED << ee, wire, nano >>,
             \E f \in { files, medium } : Within(files', f),
             \E f \in { files, medium } : Within(medium', f)
      PROVE  BehindInv'
  BY <1>f, <1>1, <1>2 DEF BehindInv, Behind
<1>3. ASSUME UNCHANGED << ee, wire, nano >>, LinkQuiet, ee.last = 0
      PROVE  BehindInv'
  BY <1>f, <1>n, <1>3, RecordFields DEF BehindInv, Behind, LinkQuiet
<1>s. Within(files, files) /\ Within(medium, medium)
  BY <1>0, WithinFacts
<1>4. ASSUME UNCHANGED << ee, wire, nano, files, medium >>
      PROVE  BehindInv'
  BY <1>2, <1>4, <1>s
<1>5. ASSUME NEW flow \in { "pair", "sealed" }, NEW key \in Keys, BeginPair(flow, key)
      PROVE  BehindInv'
  BY <1>4, <1>5 DEF BeginPair
<1>6. CASE BeginReseal \/ BeginPolicy \/ BeginUnpair
  BY <1>4, <1>6 DEF BeginReseal, BeginPolicy, BeginUnpair
<1>7. CASE CliStep
  <2>1. ASSUME NEW key \in Keys, PairAgain(key)
        PROVE  BehindInv'
    BY <1>4, <2>1 DEF PairAgain
  <2>2. CASE CloseGate
    BY <1>0, <1>2, <1>s, <2>2, WithinFacts DEF CloseGate
  <2>3. CASE SendPair
    <3>1. /\ wire' = PairLine(cli.key) /\ wire'.verb = "pair" /\ wire'.key = cli.key
          /\ UNCHANGED << ee, nano, files, medium >>
          /\ ~Has(files, cli.key) /\ ~Has(medium, cli.key)
      BY <2>3, RecordFields DEF SendPair, FlowInv, PairFlow
    <3> QED
      BY <3>1 DEF BehindInv, Behind
  <2>4. CASE SpendCounter
    <3>1. Within(files', files)
      BY <1>0, <2>4, WithinFacts DEF SpendCounter
    <3>2. Within(medium', files)
      BY <1>0, <1>w, <2>4 DEF SpendCounter, Sync
    <3> QED
      BY <1>2, <2>4, <3>1, <3>2 DEF SpendCounter
  <2>5. CASE SendUnpair
    <3>1. /\ wire'.verb = "unpair" /\ wire'.ctr = NextCounter(files) - 1
          /\ UNCHANGED << ee, nano, files, medium >>
          /\ NextCounter(medium) >= NextCounter(files) - 1
      BY <2>5, RecordFields DEF SendUnpair, FlowInv
    <3>2. NextCounter(files) >= NextCounter(files) - 1
      BY <1>0, <1>n
    <3> QED
      BY <3>1, <3>2 DEF BehindInv, Behind
  <2>6. CASE Answered \/ Confirm \/ Bail \/ Verify
    BY <1>4, <2>6 DEF Answered, Confirm, Bail, Verify
  <2>7. CASE RenameKey \/ CopyKey
    <3>1. LinkQuiet /\ ee.last = 0
      BY <1>0, <2>7 DEF RenameKey, CopyKey, Shape, FlowInv, LinkInv, PairFlow
    <3> QED
      BY <1>3, <2>7, <3>1 DEF RenameKey, CopyKey
  <2>8. ASSUME NEW policy \in Policies, SealKey(policy)
        PROVE  BehindInv'
    BY <1>4, <2>8 DEF SealKey
  <2>9. CASE Persist
    <3>1. CASE cli.flow = "sealed"
      <4>1. LinkQuiet /\ ee.last = 0
        BY <2>9, <3>1 DEF Persist, FlowInv, LinkInv, PairFlow
      <4> QED
        BY <1>3, <2>9, <4>1 DEF Persist
    <3>2. CASE cli.flow \in { "policy", "policyPlain" }
      <4>1. /\ files'.key = files.key /\ files'.bak = files.bak
            /\ files'.tpm = cli.blob /\ files'.state = files.state
        BY <1>0, <2>9 DEF Persist, BlobRenamed, Files
      <4>2. cli.blob.key = cli.key /\ cli.key \in Keys
        BY <1>0, <2>9, <3>2 DEF Persist, Shape, MoveInv
      <4>3. Has(files, cli.key)
        <5>1. CASE cli.flow = "policy"
          BY <5>1 DEF MoveInv, Has, Keeps
        <5>2. CASE cli.flow = "policyPlain"
          <6>1. PlaintextKey(files) = cli.key
            BY <2>9, <5>2 DEF Persist, MoveInv
          <6> QED
            BY <4>2, <6>1, KeyFilesAssumption DEF PlaintextKey, Has, Keeps
        <5> QED
          BY <3>2, <5>1, <5>2
      <4>4. Within(files', files)
        <5>1. NextCounter(files') = NextCounter(files)
          BY <4>1 DEF NextCounter
        <5>2. \A key \in Keys : Has(files', key) => Has(files, key)
          BY <4>1, <4>2, <4>3 DEF Has, Keeps
        <5> QED
          BY <1>0, <1>n, <5>1, <5>2 DEF Within
      <4>5. Within(medium', files)
        BY <1>0, <1>w, <2>9 DEF Persist, Sync
      <4> QED
        BY <1>2, <2>9, <4>4, <4>5 DEF Persist
    <3> QED
      BY <1>0, <2>9, <3>1, <3>2 DEF Persist, Shape
  <2>10. CASE DeleteKey
    <3>1. Within(files', files)
      BY <1>0, <2>10, WithinFacts DEF DeleteKey, Shred
    <3>2. medium' = medium \/ medium' \in Synced(medium, files')
      BY <2>10 DEF DeleteKey, Shred
    <3>3. medium' = medium \/ Within(medium', files)
      <4>1. ASSUME Within(medium', files')
            PROVE  Within(medium', files)
        BY <1>0, <1>f, <1>n, <3>1, <4>1 DEF Within
      <4> QED
        BY <1>f, <1>w, <3>2, <4>1
    <3> QED
      BY <1>2, <1>s, <2>10, <3>1, <3>3 DEF DeleteKey
  <2>11. CASE DeleteRest
    <3>1. CASE cli.pc = "unlinkBlob"
      BY <1>0, <1>2, <1>s, <2>11, <3>1, WithinFacts DEF DeleteRest
    <3>2. CASE cli.pc = "unlinkState"
      <4>1. /\ files.key = None /\ files.bak = None /\ files.tpm = None /\ LinkQuiet
            /\ UNCHANGED << medium, ee, nano, wire, reply >> /\ files' = StateRemoved(files)
        BY <1>0, <2>11, <3>2 DEF DeleteRest, FlowInv, Shape
      <4>2. files'.key = None /\ files'.bak = None /\ files'.tpm = None
        BY <1>0, <4>1 DEF StateRemoved, Files
      <4>3. \A key \in Keys : ~Has(files', key)
        BY <4>2, KeyFilesAssumption DEF Has, Keeps
      <4> QED
        BY <4>1, <4>3, RecordFields DEF BehindInv, Behind, LinkQuiet
    <3> QED
      BY <2>11, <3>1, <3>2 DEF DeleteRest
  <2>12. CASE FreshState
    <3>1. LinkQuiet /\ ee.last = 0
      BY <1>0, <2>12 DEF FreshState, Shape, FlowInv, LinkInv, PairFlow
    <3> QED
      BY <1>3, <2>12, <3>1 DEF FreshState
  <2> QED
    BY <1>7, <2>1, <2>2, <2>3, <2>4, <2>5, <2>6, <2>7, <2>8, <2>9, <2>10, <2>11, <2>12
    DEF CliStep
<1>8. CASE Receive
  <2>1. wire # None /\ wire' = None /\ UNCHANGED << files, medium >>
    BY <1>8 DEF Receive
  <2>2. CASE wire.verb = "pair" /\ nano' = [at |-> "magic", key |-> wire.key] /\ UNCHANGED ee
    BY <2>1, <2>2 DEF BehindInv, Behind
  <2>3. CASE wire.verb = "unpair" /\ nano' = [at |-> "wipeMagic", key |-> None]
             /\ ee' = [ee EXCEPT !.last = wire.ctr]
    <3>1. nano'.at = "wipeMagic" /\ ee'.last = wire.ctr
      BY <1>0, <2>3
    <3> QED
      BY <2>1, <2>3, <3>1 DEF BehindInv, Behind
  <2>4. CASE nano' = Ready /\ UNCHANGED ee
    BY <2>1, <2>4, RecordFields DEF BehindInv, Behind
  <2> QED
    BY <1>8, <2>2, <2>3, <2>4 DEF Receive, Answer
<1>9. CASE SavePairing
  <2>1. nano # Ready /\ wire = None /\ wire' = None /\ UNCHANGED << files, medium >>
    BY <1>9, RecordFields DEF SavePairing, LinkInv
  <2>2. CASE nano.at = "magic"
    <3>1. ee'.key = ee.key /\ ee'.last = ee.last /\ nano'.key = nano.key
      BY <1>0, <1>9, <2>2 DEF SavePairing
    <3> QED
      BY <2>1, <2>2, <3>1 DEF BehindInv, Behind
  <2>3. CASE nano.at = "key"
    <3>1. ee'.key = nano.key /\ nano'.key = nano.key
      BY <1>0, <1>9, <2>3 DEF SavePairing
    <3> QED
      BY <2>1, <2>3, <3>1 DEF BehindInv, Behind
  <2>4. CASE nano.at = "ring"
    <3>1. ee'.last = 0 /\ nano' = Ready
      BY <1>0, <1>9, <2>4 DEF SavePairing, Answer
    <3> QED
      BY <1>0, <1>n, <2>1, <3>1, RecordFields DEF BehindInv, Behind
  <2> QED
    BY <1>9, <2>2, <2>3, <2>4 DEF SavePairing
<1>10. CASE WipePairing
  <2>1. /\ nano # Ready /\ wire = None /\ wire' = None /\ UNCHANGED << files, medium >>
        /\ nano'.at \in { "wipeKey", "wipeRing", "ready" }
    BY <1>0, <1>10, RecordFields DEF WipePairing, LinkInv, Answer
  <2>2. \/ ee'.key = ee.key /\ ee'.last = ee.last
        \/ ee'.key = Blank
        \/ ee'.last = 0
    BY <1>0, <1>10 DEF WipePairing
  <2> QED
    BY <1>0, <1>k, <1>n, <2>1, <2>2 DEF BehindInv, Behind
<1>11. ASSUME ResetNano, files' \in { files, medium }, medium' = medium
       PROVE  BehindInv'
  <2>1. /\ nano'.at = "ready" /\ wire' = None /\ ee' \in Interrupted
    BY <1>11, RecordFields DEF ResetNano
  <2>2. ee'.key = Torn \/ (ee'.key = ee.key /\ ee'.last \in Int /\ ee'.last <= ee.last)
    <3>1. CASE nano.at \in { "key", "wipeKey" }
      <4>1. Interrupted = { [ee EXCEPT !.key = k] : k \in { ee.key, Torn } }
        BY <3>1 DEF Interrupted
      <4> QED
        BY <1>0, <1>i, <2>1, <4>1
    <3>2. CASE nano.at \in { "ring", "wipeRing" }
      <4>1. Interrupted = { [ee EXCEPT !.last = c] : c \in 0 .. ee.last }
        BY <3>2 DEF Interrupted
      <4>2. PICK c \in 0 .. ee.last : ee' = [ee EXCEPT !.last = c]
        BY <2>1, <4>1
      <4>3. ee'.key = ee.key /\ ee'.last = c
        BY <1>0, <4>2
      <4> QED
        BY <1>i, <4>2, <4>3
    <3>3. CASE nano.at \notin { "key", "wipeKey", "ring", "wipeRing" }
      <4>1. Interrupted = { ee }
        BY <3>3 DEF Interrupted
      <4> QED
        BY <1>i, <2>1, <4>1
    <3> QED
      BY <3>1, <3>2, <3>3
  <2>3. \A f \in { files, medium } :
          ee'.key \in Keys /\ Has(f, ee'.key) => NextCounter(f) >= ee'.last
    BY <1>0, <1>i, <1>k, <1>n, <2>2 DEF BehindInv, Behind
  <2> QED
    BY <1>11, <2>1, <2>3 DEF BehindInv, Behind
<1>12. CASE NanoReset \/ PowerLoss
  BY <1>11, <1>12 DEF NanoReset, PowerLoss
<1>13. CASE LoseLine
  BY <1>13 DEF LoseLine, BehindInv, Behind
<1>14. CASE WipeSketch
  <2>1. /\ nano' = nano /\ nano.at = "ready" /\ wire' = None /\ UNCHANGED << files, medium >>
        /\ ee'.key = Blank \/ (ee'.key = ee.key /\ ee'.last = ee.last)
    BY <1>0, <1>14, RecordFields DEF WipeSketch, LinkQuiet
  <2> QED
    BY <1>k, <2>1 DEF BehindInv, Behind
<1>15. CASE DaemonCommand
  <2> DEFINE ctr == NextCounter(files)
  <2>1. /\ nano' = nano /\ nano.at = "ready" /\ wire' = None
        /\ files' = StateSaved(files, ctr + 1) /\ medium' \in Synced(medium, files)
        /\ ee' = ee \/ (ee.key = LoadKey(files, boot) /\ ee' = [ee EXCEPT !.last = ctr])
    BY <1>15, RecordFields DEF DaemonCommand, LinkQuiet, Sync
  <2>2. Within(files', files) /\ Within(medium', files)
    BY <1>0, <1>w, <2>1, WithinFacts
  <2>3. CASE ee' = ee
    BY <1>2, <1>15, <2>2, <2>3 DEF DaemonCommand, LinkQuiet
  <2>4. CASE ee' = [ee EXCEPT !.last = ctr]
    <3>1. ee'.last = ctr
      BY <1>0, <2>4
    <3> QED
      BY <2>1, <2>2, <3>1 DEF BehindInv, Behind, Within
  <2> QED
    BY <2>1, <2>3, <2>4
<1>16. CASE Touch
  BY <1>0, <1>2, <1>s, <1>16, WithinFacts DEF Touch
<1>17. CASE WriteBack \/ Kill
  BY <1>2, <1>s, <1>17 DEF WriteBack, Kill
<1> QED
  BY <1>5, <1>6, <1>7, <1>8, <1>9, <1>10, <1>12, <1>13, <1>14, <1>15, <1>16, <1>17 DEF Next

LEMMA FlowStep ==
  ASSUME TypeInv, LinkInv, MoveInv, FlowInv, Next
  PROVE  FlowInv'
<1> DEFINE Late == { "shredBak", "unlinkBak", "unlinkBlob", "unlinkState" }
<1> USE DEF PairFlow
<1>0. /\ cli \in Clis /\ files \in Files /\ medium \in Files /\ Shape
      /\ ee \in [magic : BOOLEAN, key : Keys \cup { Blank, Torn }, last : 0 .. (Ceiling - 1)]
  BY DEF TypeInv, TypeOK, Clis
<1>n. \A f \in Files : NextCounter(f) \in Int
  BY WithinFacts, KeyFilesAssumption DEF Counter
<1>s. \A m, f, g : f \in Files /\ g \in Synced(m, f) => NextCounter(g) = NextCounter(f)
  BY SyncedFields DEF NextCounter
<1>1. ASSUME NEW pc \in Steps, Goto(pc)
      PROVE  cli'.flow = cli.flow /\ cli'.pc = pc /\ cli'.key = cli.key
  BY <1>0, <1>1 DEF Goto, Clis
<1>2. ASSUME cli'.flow \in { "none", "policy", "policyPlain" }, cli'.pc \notin Late
      PROVE  FlowInv'
  BY <1>2 DEF FlowInv
<1>3. ASSUME cli' = Off
      PROVE  FlowInv'
  BY <1>2, <1>3, RecordFields
<1>4. ASSUME UNCHANGED << cli, files, medium, nano, wire, reply >>,
             ee' = ee \/ cli.flow \notin { "pair", "sealed" }
      PROVE  FlowInv'
  BY <1>4 DEF FlowInv, LinkQuiet
<1>5. ASSUME UNCHANGED << ee, nano, wire, reply >>,
             NEW pc \in { "confirm", "rename", "copy", "fill", "seal", "verify", "persist",
                          "shredKey", "unlinkKey", "pairAgain", "fresh" },
             Goto(pc), cli.pc \notin { "gate", "send", "wait" }
      PROVE  FlowInv'
  <2>1. cli'.flow = cli.flow /\ cli'.pc = pc
    BY <1>1, <1>5 DEF Steps
  <2> QED
    BY <1>5, <2>1 DEF FlowInv, LinkQuiet
<1>6. ASSUME NEW flow \in { "pair", "sealed" }, NEW key \in Keys, LinkQuiet, FreshKey(key),
             cli' = [flow |-> flow, pc |-> "gate", key |-> key, blob |-> None],
             UNCHANGED << files, medium, ee, nano, wire, reply >>
      PROVE  FlowInv'
  <2>1. ~Has(files, key) /\ ~Has(medium, key)
    BY <1>6 DEF FreshKey, Has
  <2>2. cli'.flow = flow /\ cli'.pc = "gate" /\ cli'.key = key
    BY <1>6
  <2> QED
    BY <1>6, <2>1, <2>2 DEF FlowInv
<1>7. ASSUME NEW flow \in { "pair", "sealed" }, NEW key \in Keys, BeginPair(flow, key)
      PROVE  FlowInv'
  BY <1>6, <1>7 DEF BeginPair, Begin
<1>8. ASSUME NEW flow \in { "reseal", "unpair", "tidy" }, NEW pc \in { "shredKey", "spend" },
             NEW key, Begin(flow, pc, key), LinkQuiet,
             UNCHANGED << files, medium, ee, nano, wire, reply >>
      PROVE  FlowInv'
  <2>1. cli'.flow = flow /\ cli'.pc = pc
    BY <1>8 DEF Begin
  <2> QED
    BY <1>8, <2>1 DEF FlowInv, LinkQuiet
<1>9. CASE BeginReseal \/ BeginUnpair
  BY <1>8, <1>9 DEF BeginReseal, BeginUnpair
<1>10. CASE BeginPolicy
  <2>1. cli'.flow \in { "policy", "policyPlain" } /\ cli'.pc = "seal"
    BY <1>10 DEF BeginPolicy, Begin
  <2> QED
    BY <1>2, <2>1
<1>11. CASE CliStep
  <2>1. ASSUME NEW key \in Keys, PairAgain(key)
        PROVE  FlowInv'
    BY <1>6, <2>1 DEF PairAgain
  <2>2. CASE CloseGate
    <3>1. /\ cli'.flow = cli.flow /\ cli'.pc = "send" /\ cli'.key = cli.key
          /\ cli.flow \in { "pair", "sealed" } /\ cli.pc = "gate"
      BY <1>0, <1>1, <2>2 DEF CloseGate, Shape, Steps
    <3>2. Has(files', cli.key) => Has(files, cli.key)
      BY <1>0, <2>2, MarkerFields DEF CloseGate, Has, Keeps
    <3> QED
      BY <2>2, <3>1, <3>2 DEF CloseGate, FlowInv
  <2>3. CASE SendPair
    <3>1. /\ cli'.flow = cli.flow /\ cli'.pc = "wait" /\ LinkQuiet
          /\ cli.flow \in { "pair", "sealed" } /\ reply' = reply
      BY <1>1, <2>3 DEF SendPair, LinkInv, Steps
    <3> QED
      BY <3>1, PairingAssumption DEF FlowInv, LinkQuiet
  <2>4. CASE SpendCounter
    <3>1. cli'.flow = "unpair" /\ cli'.pc = "send"
      BY <1>0, <1>1, <2>4 DEF SpendCounter, Shape, Steps
    <3>2. NextCounter(medium') = NextCounter(files)
      BY <1>0, <1>s, <2>4 DEF SpendCounter, Sync
    <3>3. files'.state = NextCounter(files) + 1
      BY <1>0, <2>4 DEF SpendCounter, StateSaved, Files
    <3>4. NextCounter(files') = NextCounter(files) + 1
      BY <1>0, <1>n, <3>3, KeyFilesAssumption DEF NextCounter
    <3>5. NextCounter(medium') >= NextCounter(files') - 1
      BY <1>0, <1>n, <3>2, <3>4
    <3> QED
      BY <3>1, <3>5 DEF FlowInv
  <2>5. CASE SendUnpair
    <3>1. cli'.flow = "unpair" /\ cli'.pc = "wait"
      BY <1>1, <2>5 DEF SendUnpair, Steps
    <3> QED
      BY <3>1 DEF FlowInv
  <2>6. CASE Answered
    <3>1. /\ cli'.flow = cli.flow /\ cli'.pc = "confirm" /\ cli.pc = "wait"
          /\ UNCHANGED << ee, nano, wire >> /\ reply' = None
      BY <1>1, <2>6 DEF Answered, Steps
    <3>2. cli.flow \in { "pair", "sealed", "unpair" }
      BY <1>0, <3>1 DEF Shape
    <3>3. reply # None
      BY <2>6, PairingAssumption DEF Answered
    <3>4. nano = Ready /\ wire = None
      BY <3>3 DEF LinkInv
    <3>5. LinkQuiet'
      BY <3>1, <3>4 DEF LinkQuiet, Ready
    <3>6. cli.flow # "unpair" => ee.last = 0
      BY <2>6, <3>1, <3>2 DEF Answered, FlowInv
    <3> QED
      BY <3>1, <3>2, <3>5, <3>6 DEF FlowInv
  <2>7. CASE Confirm
    <3>1. \E pc \in { "rename", "seal", "shredKey" } : Goto(pc)
      BY <1>0, <2>7 DEF Confirm, Shape
    <3> QED
      BY <1>5, <2>7, <3>1 DEF Confirm
  <2>8. CASE Bail
    BY <1>3, <2>8 DEF Bail
  <2>9. CASE RenameKey \/ CopyKey \/ Verify
    BY <1>5, <2>9 DEF RenameKey, CopyKey, Verify
  <2>10. ASSUME NEW policy \in Policies, SealKey(policy)
         PROVE  FlowInv'
    <3>1. PICK blob : cli' = [cli EXCEPT !.blob = blob,
                        !.pc = IF cli.flow = "sealed" THEN "persist" ELSE "verify"]
      BY <2>10 DEF SealKey
    <3>2. cli'.pc \in { "persist", "verify" } /\ cli'.flow = cli.flow /\ cli.pc = "seal"
      BY <1>0, <2>10, <3>1 DEF SealKey, Clis
    <3> QED
      BY <1>0, <2>10, <3>2 DEF SealKey, FlowInv, Shape
  <2>11. CASE Persist
    BY <1>3, <1>5, <2>11 DEF Persist
  <2>12. CASE DeleteKey
    <3>0. UNCHANGED << ee, nano, wire, reply >> /\ cli.pc \in Deleting
      BY <2>12 DEF DeleteKey, Deleting
    <3>1. CASE cli.pc = "shredKey"
      BY <1>5, <2>12, <3>0, <3>1 DEF DeleteKey, Shred
    <3>2. CASE cli.pc = "unlinkKey"
      <4>1. Goto("shredBak") /\ files'.key = None
        BY <1>0, <2>12, <3>2, PlaintextFields DEF DeleteKey
      <4>2. cli'.flow = cli.flow /\ cli'.pc = "shredBak"
        BY <1>1, <4>1 DEF Steps
      <4> QED
        BY <3>0, <3>2, <4>1, <4>2 DEF FlowInv, LinkQuiet
    <3>3. CASE cli.pc = "shredBak"
      <4>1. Goto("unlinkBak") /\ files'.key = None
        BY <1>0, <2>12, <3>3, PlaintextFields DEF DeleteKey, Shred, FlowInv
      <4>2. cli'.flow = cli.flow /\ cli'.pc = "unlinkBak"
        BY <1>1, <4>1 DEF Steps
      <4> QED
        BY <3>0, <3>3, <4>1, <4>2 DEF FlowInv, LinkQuiet
    <3>4. CASE cli.pc = "unlinkBak"
      <4>1. cli' = AfterKeys /\ files'.key = None /\ files'.bak = None
        BY <1>0, <2>12, <3>4, PlaintextFields DEF DeleteKey, FlowInv
      <4>2. cli' = Off \/ Goto("unlinkBlob") \/ Goto("fresh")
        BY <4>1 DEF AfterKeys, Goto
      <4>3. ASSUME Goto("unlinkBlob")
            PROVE  FlowInv'
        <5>1. cli'.flow = cli.flow /\ cli'.pc = "unlinkBlob"
          BY <1>1, <4>3 DEF Steps
        <5> QED
          BY <3>0, <3>4, <4>1, <5>1 DEF FlowInv, LinkQuiet
      <4> QED
        BY <1>3, <1>5, <3>0, <3>4, <4>2, <4>3
    <3> QED
      BY <3>0, <3>1, <3>2, <3>3, <3>4 DEF Deleting
  <2>13. CASE DeleteRest
    <3>1. CASE cli.pc = "unlinkBlob"
      <4>1. /\ UNCHANGED << ee, nano, wire, reply >> /\ files' = BlobRemoved(files)
            /\ Goto("unlinkState")
        BY <2>13, <3>1 DEF DeleteRest
      <4>2. files'.key = files.key /\ files'.bak = files.bak /\ files'.tpm = None
        BY <1>0, <4>1 DEF BlobRemoved, Files
      <4>3. cli'.flow = cli.flow /\ cli'.pc = "unlinkState"
        BY <1>1, <4>1 DEF Steps
      <4> QED
        BY <3>1, <4>1, <4>2, <4>3 DEF FlowInv, LinkQuiet
    <3>2. CASE cli.pc = "unlinkState"
      BY <1>3, <1>5, <2>13, <3>2 DEF DeleteRest
    <3> QED
      BY <2>13, <3>1, <3>2 DEF DeleteRest
  <2>14. CASE FreshState
    BY <1>3, <2>14 DEF FreshState
  <2> QED
    BY <1>11, <2>1, <2>2, <2>3, <2>4, <2>5, <2>6, <2>7, <2>8, <2>9, <2>10, <2>11, <2>12,
       <2>13, <2>14 DEF CliStep
<1>12. ASSUME UNCHANGED << cli, files, medium >>, ~LinkQuiet,
              cli.flow \in { "pair", "sealed" } /\ cli.pc = "wait" /\ reply' = "OK paired"
                => ee'.last = 0
       PROVE  FlowInv'
  BY <1>12 DEF FlowInv, LinkInv
<1>13. CASE Receive
  <2>1. UNCHANGED << cli, files, medium >> /\ wire # None /\ reply = None
    BY <1>13 DEF Receive, LinkInv
  <2>2. reply' \in { None, "ERR" }
    BY <1>13, <2>1 DEF Receive, Answer
  <2> QED
    BY <1>12, <2>1, <2>2, PairingAssumption DEF LinkQuiet
<1>14. CASE SavePairing
  <2>1. UNCHANGED << cli, files, medium >> /\ nano # Ready /\ reply = None
    BY <1>14, RecordFields DEF SavePairing, LinkInv
  <2>2. reply' = None \/ ee'.last = 0
    BY <1>0, <1>14, <2>1 DEF SavePairing, Answer
  <2> QED
    BY <1>12, <2>1, <2>2, PairingAssumption DEF LinkQuiet
<1>15. CASE WipePairing
  <2>1. UNCHANGED << cli, files, medium >> /\ nano # Ready /\ reply = None
    BY <1>15, RecordFields DEF WipePairing, LinkInv
  <2>2. reply' \in { None, "OK unpaired" }
    BY <1>15, <2>1 DEF WipePairing, Answer
  <2> QED
    BY <1>12, <2>1, <2>2, PairingAssumption DEF LinkQuiet
<1>16. CASE NanoReset
  <2>1. UNCHANGED << cli, files, medium >> /\ nano # Ready /\ reply' = None
    BY <1>16 DEF NanoReset, ResetNano
  <2> QED
    BY <1>12, <2>1, PairingAssumption DEF LinkQuiet
<1>17. CASE LoseLine
  <2>1. /\ UNCHANGED << cli, files, medium, ee, nano >> /\ ~LinkQuiet
        /\ reply' \in { None, reply }
    BY <1>17 DEF LoseLine, LinkQuiet
  <2> QED
    BY <1>12, <2>1, PairingAssumption DEF FlowInv
<1>18. CASE WipeSketch
  BY <1>4, <1>18 DEF WipeSketch, PortHeld
<1>19. CASE DaemonCommand
  <2>1. /\ LinkQuiet /\ UNCHANGED << cli, nano, wire, reply >>
        /\ cli.flow \notin { "pair", "sealed", "unpair", "tidy" }
    BY <1>19 DEF DaemonCommand, PortHeld
  <2>2. files'.key = files.key /\ files'.bak = files.bak /\ files'.tpm = files.tpm
    BY <1>0, <1>19 DEF DaemonCommand, StateSaved, Files
  <2> QED
    BY <2>1, <2>2 DEF FlowInv, LinkQuiet
<1>20. CASE Touch
  <2>1. /\ UNCHANGED << cli, medium, ee, nano, wire, reply >>
        /\ files'.key = files.key /\ files'.bak = files.bak /\ files'.tpm = files.tpm
        /\ files'.state = files.state
    BY <1>0, <1>20, MarkerFields DEF Touch
  <2>2. NextCounter(files') = NextCounter(files) /\ \A key : Has(files', key) <=> Has(files, key)
    BY <2>1 DEF NextCounter, Has, Keeps
  <2> QED
    BY <2>1, <2>2 DEF FlowInv, LinkQuiet
<1>21. CASE WriteBack
  <2>1. UNCHANGED << cli, files, ee, nano, wire, reply >> /\ medium' = files
    BY <1>21 DEF WriteBack
  <2>2. NextCounter(files) >= NextCounter(files) - 1
    BY <1>0, <1>n
  <2> QED
    BY <2>1, <2>2 DEF FlowInv, LinkQuiet
<1>22. CASE Kill \/ PowerLoss
  BY <1>3, <1>22 DEF Kill, PowerLoss
<1> QED
  BY <1>7, <1>9, <1>10, <1>11, <1>13, <1>14, <1>15, <1>16, <1>17, <1>18, <1>19, <1>20,
     <1>21, <1>22 DEF Next

-----------------------------------------------------------------------------
(* Theorems *)

LEMMA IInvInit == Init => IInv
<1> SUFFICES ASSUME Init
             PROVE  IInv
  OBVIOUS
<1>1. NoFiles.key = None /\ NoFiles.bak = None /\ NoFiles.tpm = None /\ NoFiles.allow = FALSE
  BY DEF NoFiles
<1>2. None \notin Keys /\ Blank \notin Keys
  BY KeyFilesAssumption, PairingAssumption
<1>3. ee.key = Blank /\ nano.at = "ready" /\ cli.flow = "none" /\ cli.pc = "off"
  BY RecordFields DEF Init
<1>4. GateInv /\ ShredInv
  BY <1>1, <1>2, <1>3 DEF Init, GateInv, ShredInv, PairFlow
<1>5. MoveInv /\ UndoInv /\ PairingKept
  BY <1>3 DEF Init, MoveInv, UndoInv, PairingKept, Deleting
<1>6. BehindInv /\ FlowInv
  BY <1>2, <1>3 DEF Init, BehindInv, Behind, FlowInv, PairFlow
<1> QED
  BY <1>4, <1>5, <1>6, TypeInit, LinkInit DEF IInv

LEMMA IInvStep == IInv /\ [Next]_vars => IInv'
<1> SUFFICES ASSUME IInv, [Next]_vars
             PROVE  IInv'
  OBVIOUS
<1>1. CASE Next
  BY <1>1, TypeStep, LinkStep, GateStep, ShredStep, MoveStep, UndoStep, KeptStep,
     BehindStep, FlowStep DEF IInv
<1>2. CASE UNCHANGED vars
  <2>1. TypeInv'
    <3>0. TypeOK /\ Shape /\ CounterInv
      BY DEF IInv, TypeInv
    <3>1. TypeOK'
      <4>1. /\ files' \in Files /\ medium' \in Files /\ boot' \in Boots
            /\ wire' \in Lines \cup { None }
            /\ reply' \in { None, "OK paired", "OK unpaired", "ERR" }
            /\ reported' \in Keys \cup { None }
            /\ optIn' \in { "none", "given", "revived" } /\ warned' \in BOOLEAN
        BY <1>2, <3>0 DEF vars, TypeOK
      <4>2. ee' = ee /\ nano' = nano /\ cli' = cli
        BY <1>2 DEF vars
      <4> QED
        BY <3>0, <4>1, <4>2 DEF TypeOK
    <3>2. Shape'
      BY <1>2, <3>0 DEF vars, Shape, PairFlow
    <3>3. CounterInv'
      BY <1>2, <3>0 DEF vars, CounterInv, NextCounter
    <3> QED
      BY <3>1, <3>2, <3>3 DEF TypeInv
  <2>2. LinkInv' /\ GateInv' /\ ShredInv'
    <3>0. LinkInv /\ GateInv /\ ShredInv
      BY DEF IInv
    <3>1. LinkInv'
      BY <1>2, <3>0 DEF vars, LinkInv, PairFlow, LinkQuiet
    <3>2. GateInv' /\ ShredInv'
      BY <1>2, <3>0 DEF vars, GateInv, ShredInv, PairFlow
    <3> QED
      BY <3>1, <3>2
  <2>3. MoveInv' /\ UndoInv' /\ PairingKept'
    BY <1>2 DEF vars, IInv, MoveInv, UndoInv, Undoing, PairingKept
  <2>4. BehindInv' /\ FlowInv'
    <3>1. BehindInv'
      BY <1>2 DEF vars, IInv, BehindInv, Behind, NextCounter, Has, Keeps
    <3>2. FlowInv'
      <4>1. FlowInv
        BY DEF IInv
      <4>2. /\ PairFlow' = PairFlow /\ LinkQuiet' = LinkQuiet
            /\ NextCounter(medium)' = NextCounter(medium)
            /\ NextCounter(files)' = NextCounter(files)
            /\ Has(files, cli.key)' = Has(files, cli.key)
            /\ Has(medium, cli.key)' = Has(medium, cli.key)
        BY <1>2 DEF vars, PairFlow, LinkQuiet, NextCounter, Has, Keeps
      <4>3. /\ cli' = cli /\ reply' = reply /\ ee' = ee /\ files' = files
            /\ medium' = medium
        BY <1>2 DEF vars
      <4> QED
        BY <4>1, <4>2, <4>3 DEF FlowInv
    <3> QED
      BY <3>1, <3>2
  <2> QED
    BY <2>1, <2>2, <2>3, <2>4 DEF IInv
<1> QED
  BY <1>1, <1>2

\* The inductive invariant of the pairing flows: every write, sync, line, EEPROM
\* region and fault of the model keeps it, for any keys, PCRs and ceiling.
THEOREM PairingInvariance == Spec => []IInv
<1>1. Init => IInv
  BY IInvInit
<1>2. IInv /\ [Next]_vars => IInv'
  BY IInvStep
<1> QED
  BY <1>1, <1>2, PTL DEF Spec

\* No counter that a flow or the daemon writes to state.json, or the Nano to its
\* ring, passes the reserved ceiling.
THEOREM PairingTypes == Spec => []TypeOK
<1>1. IInv => TypeOK
  BY DEF IInv, TypeInv
<1> QED
  BY <1>1, PairingInvariance, PTL

\* A pairing that run_pair reported is kept by the Nano, in the files and on the
\* medium, until the Nano is wiped.
THEOREM KeyKept == Spec => []PairingKept
<1>1. IInv => PairingKept
  BY DEF IInv
<1> QED
  BY <1>1, PairingInvariance, PTL

\* state.json never falls behind the ring of the Nano whose key the host has.
THEOREM CountersInStep == Spec => []InStep
<1>1. ASSUME IInv
      PROVE  InStep
  <2>1. files \in Files /\ Behind(files)
        /\ ee \in [magic : BOOLEAN, key : Keys \cup { Blank, Torn }, last : 0 .. (Ceiling - 1)]
    BY <1>1 DEF IInv, TypeInv, TypeOK, BehindInv
  <2>2. Keeps(files, ee.key) => ee.key \in Keys
    <3>1. files.tpm # None => files.tpm.key \in Keys \cup { Garbled }
      BY <2>1, BlobFacts DEF Files
    <3>2. files.key \in Keys \cup { None, Garbled }
      BY <2>1 DEF Files
    <3>3. ee.key \in Keys \cup { Blank, Torn }
      BY <2>1
    <3> QED
      BY <3>1, <3>2, <3>3, PairingAssumption DEF Keeps
  <2> QED
    BY <2>1, <2>2 DEF InStep, Behind, Has
<1> QED
  BY <1>1, PairingInvariance, PTL

\* A flow gets past the gate only by a marker that was given, or brought back by a
\* power loss, since the flow before it did; and from `paired` on the marker that a
\* power loss could bring back is gone from the medium too.
THEOREM GateHolds == Spec => GateSpent
<1>1. IInv /\ [Next]_vars =>
        [/\ PassesGate => optIn # "none"
         /\ Paired /\ (files'.allow \/ medium'.allow) => optIn' = "given"]_vars
  <2> SUFFICES ASSUME IInv, Next
               PROVE  /\ PassesGate => optIn # "none"
                      /\ Paired /\ (files'.allow \/ medium'.allow) => optIn' = "given"
    BY DEF vars
  <2>1. PassesGate => optIn # "none"
    BY DEF IInv, GateInv, PassesGate
  <2>2. ASSUME Paired, files'.allow \/ medium'.allow
        PROVE  optIn' = "given"
    <3>1. FreshState
      <4>1. FreshState \/ reported' \in { None, reported }
        BY DEF Next, CliStep, BeginPair, BeginReseal, BeginPolicy, BeginUnpair,
               PairAgain, CloseGate, SendPair, SpendCounter, SendUnpair, Answered,
               Confirm, Bail, RenameKey, CopyKey, SealKey, Verify, Persist, DeleteKey,
               DeleteRest, Receive, SavePairing, WipePairing, LoseLine, NanoReset,
               WipeSketch, DaemonCommand, Touch, WriteBack, Kill, PowerLoss
      <4> QED
        BY <2>2, <4>1 DEF Paired
    <3>2. /\ files \in Files /\ optIn \in { "none", "given", "revived" }
          /\ PairFlow /\ cli.pc = "fresh" /\ optIn' = optIn
      BY <3>1 DEF FreshState, IInv, TypeInv, TypeOK, Shape
    <3>3. files'.allow = files.allow
      BY <3>1, <3>2 DEF FreshState, StateSaved, Files
    <3>4. medium'.allow = files.allow
      BY <3>1, <3>2, SyncedFields DEF FreshState, Sync
    <3> QED
      BY <2>2, <3>2, <3>3, <3>4 DEF IInv, GateInv
  <2> QED
    BY <2>1, <2>2
<1> QED
  BY <1>1, PairingInvariance, PTL DEF Spec, GateSpent

\* delete_key leaves no plaintext key a process could read and, unless a shred
\* has failed and no sync has followed, none on the medium either.
THEOREM ShredHolds == Spec => DeletedForGood
<1>1. IInv /\ [Next]_vars =>
        [cli.pc = "unlinkBak" /\ cli'.pc # "unlinkBak" /\ files' = BakRemoved(files)
           => /\ PlaintextKey(files') = None
              /\ warned \/ PlaintextKey(medium') = None]_vars
  <2> SUFFICES ASSUME IInv, Next, cli.pc = "unlinkBak", cli'.pc # "unlinkBak",
                      files' = BakRemoved(files)
               PROVE  /\ PlaintextKey(files') = None
                      /\ warned \/ PlaintextKey(medium') = None
    BY DEF vars
  <2>1. /\ files \in Files /\ None \notin Keys /\ files.key \notin Keys
        /\ ~warned => medium.key \notin Keys /\ medium.bak \notin Keys
    BY KeyFilesAssumption DEF IInv, TypeInv, TypeOK, ShredInv
  <2>2. files'.key = files.key /\ files'.bak = None
    BY <2>1, PlaintextFields
  <2>3. medium' = medium
    <3>1. CASE DeleteKey
      BY <3>1 DEF DeleteKey
    <3>2. CASE Kill \/ PowerLoss
      BY <3>2 DEF Kill, PowerLoss
    <3>3. ~CliStep \/ DeleteKey
      BY RecordFields
      DEF CliStep, PairAgain, CloseGate, SendPair, SpendCounter, SendUnpair, Answered,
          Confirm, Bail, RenameKey, CopyKey, SealKey, Verify, Persist, DeleteRest,
          FreshState, IInv, TypeInv, Shape, PairFlow
    <3>4. cli # Off
      BY RecordFields
    <3>5. UNCHANGED medium \/ UNCHANGED cli \/ DeleteKey
      BY <3>2, <3>3, <3>4 DEF Next, BeginPair, BeginReseal, BeginPolicy, BeginUnpair, Begin,
          Receive, SavePairing, WipePairing, LoseLine, NanoReset, WipeSketch,
          DaemonCommand, Touch, WriteBack
    <3> QED
      BY <3>1, <3>5
  <2> QED
    BY <2>1, <2>2, <2>3 DEF PlaintextKey
<1> QED
  BY <1>1, PairingInvariance, PTL DEF Spec, DeletedForGood
=============================================================================
