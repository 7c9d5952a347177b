----------------------------- MODULE KeyFiles ------------------------------
(***************************************************************************)
(* The host's record of a pairing (keystore.rs, tpm.rs, state.rs): the     *)
(* plaintext key and its backup, the sealed key.tpm, the counter of        *)
(* state.json and the allow-pair marker, with what the functions that      *)
(* write and read them do.  A key is a value, PCR digests are the values   *)
(* they stand for, and a file nobody can parse is Garbled.                 *)
(***************************************************************************)
EXTENDS Integers

CONSTANTS
  Keys,      \* the 128-bit keys
  Pcrs,      \* the PCRs an administrator seals to
  Values,    \* what a PCR may hold after a boot
  Ceiling,   \* COUNTER_CEILING (2^64 - 2^16 in the code); BOUND in the runs
  None,      \* a missing file
  Garbled,   \* contents that are not a key
  NoPolicy   \* SealPolicy::None

ASSUME KeyFilesAssumption ==
  /\ Ceiling \in Nat /\ Ceiling > 1
  /\ None \notin Keys /\ Garbled \notin Keys /\ None # Garbled
  /\ None \notin Int
  /\ \A pcrs \in SUBSET Pcrs : pcrs # NoPolicy

Counter == 1 .. Ceiling

-----------------------------------------------------------------------------
(* tpm.rs *)

\* SealPolicy; validate_pcrs refuses the empty list.
Policies == (SUBSET Pcrs \ {{}}) \cup { NoPolicy }

\* The PCR values of a boot.
Boots == [Pcrs -> Values]

\* trial_policy_pcr_digest: the digest of the chosen PCRs as they are now.
PolicyDigest(pcrs, boot) == [p \in pcrs |-> boot[p]]

\* seal_key_with_pcrs, seal_key_no_policy; serialize_blob keeps the policy.
SealWithPcrs(key, pcrs, boot) ==
  [key |-> key, policy |-> pcrs, digest |-> PolicyDigest(pcrs, boot)]

SealNoPolicy(key, boot) ==
  [key |-> key, policy |-> NoPolicy, digest |-> PolicyDigest({}, boot)]

Seal(key, policy, boot) ==
  IF policy = NoPolicy THEN SealNoPolicy(key, boot)
                       ELSE SealWithPcrs(key, policy, boot)

\* unseal_with_pcr_policy, unseal_with_no_policy, unseal_key: the key, or
\* Garbled for an error.
UnsealUnderPcrs(blob, boot) ==
  IF blob.digest = PolicyDigest(blob.policy, boot) THEN blob.key ELSE Garbled

UnsealNoPolicy(blob) == blob.key

Unseal(blob, boot) ==
  IF blob.policy = NoPolicy THEN UnsealNoPolicy(blob)
                            ELSE UnsealUnderPcrs(blob, boot)

\* The contents of a key.tpm: what can come out of a seal.
Blobs == { Seal(key, policy, boot) :
             key \in Keys \cup { Garbled }, policy \in Policies, boot \in Boots }

ASSUME BlobAssumption == None \notin Blobs

-----------------------------------------------------------------------------
(* keystore.rs, state.rs: reading *)

NoFiles ==
  [key |-> None, bak |-> None, tpm |-> None, state |-> None, allow |-> FALSE]

\* load_key: the key file, then its backup.
PlaintextKey(f) ==
  IF f.key \in Keys THEN f.key ELSE IF f.bak \in Keys THEN f.bak ELSE None

\* load_key_with_source: key.tpm alone counts where it exists; Garbled is the
\* error.
LoadKey(f, boot) ==
  IF f.tpm # None THEN Unseal(f.tpm, boot) ELSE PlaintextKey(f)

\* state::load, State::fresh
NextCounter(f) == IF f.state = None THEN 1 ELSE f.state

\* key is in the files, readable on some boot.
Keeps(f, key) == f.key = key \/ (f.tpm # None /\ f.tpm.key = key)

-----------------------------------------------------------------------------
(* keystore.rs, state.rs: writing.  sync_all makes the files so far durable, *)
(* all but the contents of a backup that fs::copy has just written.          *)

Synced(m, f) ==
  { f } \cup (IF f.bak \in Keys /\ m.bak # f.bak
              THEN { [f EXCEPT !.bak = Garbled] } ELSE {})

Opened(f) == [f EXCEPT !.allow = TRUE]
Closed(f) == [f EXCEPT !.allow = FALSE]

\* save_key: the rename; fs::copy truncates the backup and fills it.
KeyRenamed(f, key) == [f EXCEPT !.key = key]
BackupOpened(f) == [f EXCEPT !.bak = Garbled]
BackupFilled(f) == [f EXCEPT !.bak = f.key]

\* persist_sealed_blob and state::save: the rename.
BlobRenamed(f, blob) == [f EXCEPT !.tpm = blob]
StateSaved(f, ctr) == [f EXCEPT !.state = ctr]

\* shred_file that gets as far as its write: 0xFF over a file that is there.
\* One that fails earlier leaves the files as they are.
KeyShredded(f) == [f EXCEPT !.key = IF f.key = None THEN None ELSE Garbled]
BakShredded(f) == [f EXCEPT !.bak = IF f.bak = None THEN None ELSE Garbled]

\* delete_key (after each shred), delete_sealed_key, state::delete
KeyRemoved(f) == [f EXCEPT !.key = None]
BakRemoved(f) == [f EXCEPT !.bak = None]
BlobRemoved(f) == [f EXCEPT !.tpm = None]
StateRemoved(f) == [f EXCEPT !.state = None]
=============================================================================
