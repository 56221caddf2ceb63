----------------------------- MODULE ManifestStore -----------------------------
(***************************************************************************)
(* The wallet manifest of one chat on disk: how the bot creates, recovers, *)
(* expands, imports and seals it (wallet_generator.rs, manifest_crypto.rs, *)
(* multi_wallet.rs and the handlers of bot.rs that call them).  Updates    *)
(* are handled one at a time, so one write is under way at most; the       *)
(* process may die between any two file operations, any of which may fail, *)
(* and may come back with another passphrase.                              *)
(***************************************************************************)
EXTENDS BotLimits, Naturals, Sequences, FiniteSets

CONSTANTS
  Phrases,        \* recovery phrases
  Uploaded,       \* the wallets of the wallets.json the user may upload
  Passphrases     \* values of the passphrase setting, besides unset

ASSUME StoreAssumption ==
  /\ MaxWallets \in Nat /\ RecoveryCount \in 1..MaxWallets
  /\ IsFiniteSet(Phrases) /\ IsFiniteSet(Passphrases)
  /\ IsFiniteSet(Uploaded) /\ Uploaded # {}
  /\ Uploaded \cap (Phrases \X (0..(MaxWallets - 1))) = {}

(* A file: the wallets whose keys it holds, the passphrases it is sealed   *)
(* under, innermost first, and whether it is complete.                     *)
Missing == [keys |-> {}, seals |-> <<>>, whole |-> FALSE, exists |-> FALSE]
Torn == [keys |-> {}, seals |-> <<>>, whole |-> FALSE, exists |-> TRUE]
File(keys, seals) == [keys |-> keys, seals |-> seals, whole |-> TRUE, exists |-> TRUE]

VARIABLES
  disk,        \* <chat>.json
  temp,        \* <chat>.tmp
  pc,          \* "down", "idle", or the file operation that comes next
  passphrase,  \* the setting of this process, as a sequence of length 0 or 1
  pending,     \* what the operation under way has derived, read or fetched
  booting,     \* whether that operation is the migration at startup
  shown,       \* wallets whose addresses the chat was shown and may have funded
  expansionCut,\* an expansion stopped between its truncate and its write
  sealFailed   \* the sealing of an import failed

storeVars == <<disk, temp, pc, passphrase, pending, booting, shown, expansionCut, sealFailed>>

(* HD derivation: wallet i is the same whatever the count.                 *)
(* (DeriveFromOne is its mutant with the indices off by one.)              *)
DeriveFromOne(phrase, count) == {phrase} \X (1..count)
Derive(phrase, count) == {phrase} \X (0..(count - 1))

(* is_encrypted: an envelope cut short no longer looks like one.           *)
IsEncrypted(file) == file.whole /\ file.seals # <<>>

(* encrypt when a passphrase is configured: whatever is put in, even a     *)
(* torn file, comes out as a complete envelope.                            *)
Sealed(file) ==
  IF passphrase = <<>> THEN file ELSE File(file.keys, file.seals \o passphrase)

(* WalletManifest::load: opens one envelope, rejects a torn or empty file. *)
Loads(file) ==
  /\ file.whole /\ file.keys # {}
  /\ file.seals = <<>> \/ file.seals = passphrase

(* The wallets an operator holding the right passphrase finds on disk.     *)
Held(file) == IF file.whole /\ Len(file.seals) <= 1 THEN file.keys ELSE {}

-----------------------------------------------------------------------------
(* The process *)

Idle ==
  /\ pc' = "idle"
  /\ pending' = Missing
  /\ booting' = FALSE

(* Mutant: the startup leaves plaintext manifests as they are.             *)
BootWithoutMigration(setting) ==
  /\ pc = "down"
  /\ passphrase' = setting
  /\ Idle
  /\ UNCHANGED <<disk, temp, shown, expansionCut, sealFailed>>

(* prepare_encryption_at_rest and migrate_directory, up to the first write *)
Boot(setting) ==
  /\ pc = "down"
  /\ passphrase' = setting
  /\ IF setting # <<>> /\ disk.exists /\ ~IsEncrypted(disk)
     THEN pc' = "openTemp" /\ pending' = disk /\ booting' = TRUE
     ELSE Idle
  /\ UNCHANGED <<disk, temp, shown, expansionCut, sealFailed>>

Crash ==
  /\ pc # "down"
  /\ pc' = "down"
  /\ pending' = Missing
  /\ booting' = FALSE
  /\ expansionCut' = (expansionCut \/ pc = "rewrite")
  /\ UNCHANGED <<disk, temp, passphrase, shown, sealFailed>>

(* list_wallets *)
ListWallets ==
  /\ pc = "idle" /\ Loads(disk)
  /\ shown' = shown \cup disk.keys
  /\ UNCHANGED <<disk, temp, pc, passphrase, pending, booting, expansionCut, sealFailed>>

-----------------------------------------------------------------------------
(* wallet_generator::write_manifest_at, which creates or truncates the     *)
(* file and then fills it.                                                 *)

CreateNew(phrase, count) ==
  /\ pc = "idle" /\ ~disk.exists
  /\ disk' = Torn
  /\ pending' = File(Derive(phrase, count), <<>>)
  /\ pc' = "write"
  /\ UNCHANGED <<temp, passphrase, booting, shown, expansionCut, sealFailed>>

(* create_wallet_manifest: a phrase is drawn at random, so it is fresh.    *)
CreateManifest(phrase, count) ==
  /\ \A wallet \in shown : wallet[1] # phrase
  /\ CreateNew(phrase, count)

RecoverWallets(phrase) == CreateNew(phrase, RecoveryCount)

(* handle_wallet_expansion_phrase: the phrase must reproduce the wallets.  *)
VerifyExpansion(phrase, target) ==
  /\ pc = "idle" /\ Loads(disk)
  /\ Derive(phrase, Cardinality(disk.keys)) = disk.keys
  /\ Cardinality(disk.keys) < target
  /\ pending' = File(Derive(phrase, target), <<>>)
  /\ pc' = "truncate"
  /\ UNCHANGED <<disk, temp, passphrase, booting, shown, expansionCut, sealFailed>>

Truncate ==
  /\ pc = "truncate"
  /\ disk' = Torn
  /\ pc' = "rewrite"
  /\ UNCHANGED <<temp, passphrase, pending, booting, shown, expansionCut, sealFailed>>

Fill ==
  /\ pc \in {"write", "rewrite"}
  /\ disk' = Sealed(pending)
  /\ pc' = "sync"
  /\ UNCHANGED <<temp, passphrase, pending, booting, shown, expansionCut, sealFailed>>

(* write_all fails: the error is reported and the handler is over.         *)
FillFails ==
  /\ pc \in {"write", "rewrite"}
  /\ Idle
  /\ expansionCut' = (expansionCut \/ pc = "rewrite")
  /\ UNCHANGED <<disk, temp, passphrase, shown, sealFailed>>

(* The newline and sync_all: only on success are the addresses shown.      *)
Sync(succeeds) ==
  /\ pc = "sync"
  /\ shown' = IF succeeds THEN shown \cup pending.keys ELSE shown
  /\ Idle
  /\ UNCHANGED <<disk, temp, passphrase, expansionCut, sealFailed>>

-----------------------------------------------------------------------------
(* handle_document: never over an existing manifest *)

BeginImport(upload) ==
  /\ pc = "idle" /\ ~disk.exists
  /\ disk' = Torn
  /\ pending' = upload
  /\ pc' = "store"
  /\ UNCHANGED <<temp, passphrase, booting, shown, expansionCut, sealFailed>>

StoreImport ==
  /\ pc = "store"
  /\ disk' = pending
  /\ pc' = IF passphrase # <<>> /\ ~IsEncrypted(pending) THEN "openTemp" ELSE "announce"
  /\ UNCHANGED <<temp, passphrase, pending, booting, shown, expansionCut, sealFailed>>

StoreFails ==
  /\ pc = "store"
  /\ Idle
  /\ UNCHANGED <<disk, temp, passphrase, shown, expansionCut, sealFailed>>

Announce ==
  /\ pc = "announce"
  /\ shown' = IF Loads(disk) THEN shown \cup disk.keys ELSE shown
  /\ Idle
  /\ UNCHANGED <<disk, temp, passphrase, expansionCut, sealFailed>>

-----------------------------------------------------------------------------
(* manifest_crypto::write_manifest, which seals what a path already holds: *)
(* a temporary file is filled and renamed over it.                         *)

(* Mutant: the manifest is sealed in place, without the temporary file.    *)
SealInPlace ==
  /\ pc = "openTemp"
  /\ temp' = Torn /\ disk' = Torn
  /\ pc' = "fillTemp"
  /\ UNCHANGED <<passphrase, pending, booting, shown, expansionCut, sealFailed>>

OpenTemp ==
  /\ pc = "openTemp"
  /\ temp' = Torn
  /\ pc' = "fillTemp"
  /\ UNCHANGED <<disk, passphrase, pending, booting, shown, expansionCut, sealFailed>>

FillTemp ==
  /\ pc = "fillTemp"
  /\ temp' = Sealed(pending)
  /\ pc' = "rename"
  /\ UNCHANGED <<disk, passphrase, pending, booting, shown, expansionCut, sealFailed>>

Rename ==
  /\ pc = "rename"
  /\ disk' = temp
  /\ temp' = Missing
  /\ IF booting THEN Idle ELSE pc' = "announce" /\ UNCHANGED <<pending, booting>>
  /\ UNCHANGED <<passphrase, shown, expansionCut, sealFailed>>

(* Fatal at startup; an import only reports it.                            *)
SealFails ==
  /\ pc \in {"openTemp", "fillTemp", "rename"}
  /\ pc' = IF booting THEN "down" ELSE "idle"
  /\ pending' = Missing /\ booting' = FALSE
  /\ sealFailed' = (sealFailed \/ ~booting)
  /\ UNCHANGED <<disk, temp, passphrase, shown, expansionCut>>

-----------------------------------------------------------------------------
PassphraseSettings == {<<>>} \cup {<<p>> : p \in Passphrases}

(* A plain or an already sealed manifest, or text that is no manifest.     *)
Uploads == {File(Uploaded, seals) : seals \in PassphraseSettings} \cup {Torn}

StoreInit ==
  /\ disk = Missing /\ temp = Missing
  /\ pc = "down" /\ passphrase = <<>>
  /\ pending = Missing /\ booting = FALSE
  /\ shown = {} /\ expansionCut = FALSE /\ sealFailed = FALSE

StoreNext ==
  \/ \E setting \in PassphraseSettings : Boot(setting)
  \/ Crash
  \/ ListWallets
  \/ \E phrase \in Phrases, count \in 1..MaxWallets : CreateManifest(phrase, count)
  \/ \E phrase \in Phrases : RecoverWallets(phrase)
  \/ \E phrase \in Phrases, target \in 1..MaxWallets : VerifyExpansion(phrase, target)
  \/ Truncate \/ Fill \/ FillFails
  \/ \E succeeds \in BOOLEAN : Sync(succeeds)
  \/ \E upload \in Uploads : BeginImport(upload)
  \/ StoreImport \/ StoreFails \/ Announce
  \/ OpenTemp \/ FillTemp \/ Rename \/ SealFails

StoreSpec == StoreInit /\ [][StoreNext]_storeVars

-----------------------------------------------------------------------------
Wallets == (Phrases \X (0..(MaxWallets - 1))) \cup Uploaded
Files == [keys: SUBSET Wallets, seals: Seq(Passphrases), whole: BOOLEAN, exists: BOOLEAN]

(* Types of the store's variables. *)
StoreTypeOK ==
  /\ disk \in Files /\ temp \in Files /\ pending \in Files
  /\ pc \in {"down", "idle", "write", "truncate", "rewrite", "sync", "store",
             "announce", "openTemp", "fillTemp", "rename"}
  /\ passphrase \in PassphraseSettings
  /\ booting \in BOOLEAN
  /\ shown \in SUBSET Wallets
  /\ expansionCut \in BOOLEAN /\ sealFailed \in BOOLEAN

(* At every moment, so for a snipe reading the file in the background and  *)
(* for the next process alike, the keys of every wallet the chat was shown *)
(* are on disk under one seal at most, unless an expansion is rewriting    *)
(* the file or was cut short while it did.                                 *)
ShownKeysKept == shown \subseteq Held(disk) \/ expansionCut \/ pc = "rewrite"

(* A bot that has started with a passphrase serves no plaintext manifest   *)
(* unless the sealing of an import failed.                                 *)
PlainOnlyAfterFailedSeal ==
  pc = "idle" /\ passphrase # <<>> /\ disk.exists /\ disk.keys # {}
    => disk.seals # <<>> \/ sealFailed

(* The promise of expand_wallet_manifest's comment: an expansion only ever *)
(* adds wallets and never touches the ones already funded.                 *)
ShownKeysSurvive == pc \in {"idle", "down"} => shown \subseteq Held(disk)

=============================================================================
