----------------------------- MODULE BotProofs -------------------------------
(***************************************************************************)
(* The bot as one chat sees it, and the store of the chat's wallets.       *)
(*                                                                         *)
(* ManifestStore, for any phrases, uploads, passphrases and number of      *)
(* wallets: the store keeps its types, the keys of every wallet that was   *)
(* shown stay on disk unless an expansion is cut short, and what a started *)
(* bot with a passphrase serves is sealed unless the sealing of an import  *)
(* failed.                                                                 *)
(*                                                                         *)
(* ChatBot, for any limit on wallets and on running snipes, any offered    *)
(* increments and any recovery count: the bot keeps its types, no update   *)
(* ever takes a wallet out of the manifest, and what is armed is what was  *)
(* confirmed.                                                              *)
(***************************************************************************)
EXTENDS ChatBot, ManifestStore, FiniteSetTheorems, SequenceTheorems, TLAPS

-----------------------------------------------------------------------------
(* ManifestStore *)

(* A path without a file has no keys, and a file being written none yet.   *)
NothingMissing(file) == ~file.exists => file.keys = {} /\ ~file.whole

Empty ==
  /\ NothingMissing(disk) /\ NothingMissing(temp)
  /\ pc \in {"write", "rewrite", "store"} => disk = Torn

(* What a handler derived is complete and not sealed yet; once it is       *)
(* filled in it is sealed as this process seals.                           *)
Derived ==
  /\ pc \in {"write", "truncate", "rewrite", "sync"} =>
       pending.whole /\ pending.seals = <<>> /\ pending.exists
  /\ pc = "sync" => disk = Sealed(pending)

(* An expansion replaces the file by one that has all its keys.            *)
Expanding == pc \in {"truncate", "rewrite"} => expansionCut \/ shown \subseteq pending.keys

(* The migration seals what is on disk, an import what nobody was shown.   *)
Sealing ==
  /\ booting => /\ pc \in {"openTemp", "fillTemp", "rename"}
                /\ pending = disk /\ disk.exists /\ ~IsEncrypted(disk)
  /\ pc = "store" => pending.exists
  /\ pc \in {"store", "openTemp", "fillTemp", "rename"} /\ ~booting =>
       expansionCut \/ shown = {}
  /\ pc = "rename" => temp = Sealed(pending)
  /\ pc \in {"openTemp", "fillTemp", "rename"} => passphrase # <<>> /\ pending.exists

(* Wherever a handler may end or begin, a plain file is one not sealed.    *)
Serving ==
  pc \in {"idle", "truncate", "announce"} /\ passphrase # <<>> /\ disk.exists /\ disk.keys # {}
    => disk.seals # <<>> \/ sealFailed

StoreInv == StoreTypeOK /\ Empty /\ Derived /\ Expanding /\ Sealing /\ Serving /\ ShownKeysKept
-----------------------------------------------------------------------------
LEMMA FixedFiles ==
  /\ Missing \in Files /\ NothingMissing(Missing) /\ Held(Missing) = {} /\ ~Missing.exists
  /\ Torn \in Files /\ NothingMissing(Torn) /\ Held(Torn) = {} /\ Torn.keys = {} /\ Torn.exists
<1>1. <<>> \in Seq(Passphrases)
  OBVIOUS
<1>2. /\ Missing = [keys |-> {}, seals |-> <<>>, whole |-> FALSE, exists |-> FALSE]
      /\ Torn = [keys |-> {}, seals |-> <<>>, whole |-> FALSE, exists |-> TRUE]
  BY DEF Missing, Torn
<1>3. Missing \in Files /\ Torn \in Files
  BY <1>1, <1>2 DEF Files
<1> QED
  BY <1>2, <1>3 DEF NothingMissing, Held

LEMMA SettingsAreSeals ==
  ASSUME NEW s \in PassphraseSettings
  PROVE  s \in Seq(Passphrases) /\ Len(s) <= 1 /\ (s # <<>> => Len(s) = 1)
<1>1. CASE s = <<>>
  BY <1>1
<1>2. CASE \E p \in Passphrases : s = <<p>>
  BY <1>2
<1> QED
  BY <1>1, <1>2 DEF PassphraseSettings

(* Sealing keeps the keys and gives a plain file one seal.                 *)
LEMMA SealedIsAFile ==
  ASSUME passphrase \in PassphraseSettings, NEW f \in Files
  PROVE  /\ Sealed(f) \in Files
         /\ Sealed(f).keys = f.keys
         /\ NothingMissing(f) => NothingMissing(Sealed(f))
         /\ f.whole => Sealed(f).whole
         /\ f.exists => Sealed(f).exists
         /\ passphrase # <<>> => Sealed(f).seals # <<>>
         /\ f.whole /\ f.seals = <<>> => Held(Sealed(f)) = f.keys
<1>1. CASE passphrase = <<>>
  BY <1>1, SettingsAreSeals DEF Sealed, Held
<1>2. CASE passphrase # <<>>
  <2> DEFINE seals == f.seals \o passphrase
  <2>1. /\ f.seals \in Seq(Passphrases) /\ passphrase \in Seq(Passphrases)
        /\ Len(passphrase) = 1
    BY <1>2, SettingsAreSeals DEF Files
  <2>2. seals \in Seq(Passphrases) /\ Len(seals) = Len(f.seals) + Len(passphrase)
    BY <2>1, ConcatProperties
  <2>3. seals # <<>> /\ (f.seals = <<>> => Len(seals) <= 1)
    BY <2>1, <2>2, LenProperties
  <2>4. Sealed(f) = [keys |-> f.keys, seals |-> seals, whole |-> TRUE, exists |-> TRUE]
    BY <1>2 DEF Sealed, File
  <2> QED
    BY <2>2, <2>3, <2>4 DEF Files, NothingMissing, Held
<1> QED
  BY <1>1, <1>2

LEMMA DerivedWallets ==
  ASSUME NEW phrase \in Phrases, NEW count \in 1..MaxWallets
  PROVE  File(Derive(phrase, count), <<>>) \in Files
BY StoreAssumption DEF Derive, File, Files, Wallets

(* A larger count derives all the wallets of a smaller one.                *)
LEMMA ExpansionAddsWallets ==
  ASSUME NEW phrase \in Phrases, NEW target \in 1..MaxWallets, NEW keys \in SUBSET Wallets,
         Derive(phrase, Cardinality(keys)) = keys, Cardinality(keys) < target
  PROVE  keys \subseteq Derive(phrase, target)
<1>1. IsFiniteSet(Wallets)
  <2>1. IsFiniteSet(0..(MaxWallets - 1))
    BY StoreAssumption, FS_Interval
  <2>2. IsFiniteSet(Phrases \X (0..(MaxWallets - 1)))
    BY <2>1, StoreAssumption, FS_Product
  <2> QED
    BY <2>2, StoreAssumption, FS_Union DEF Wallets
<1>2. Cardinality(keys) \in Nat
  BY <1>1, FS_Subset, FS_CardinalityType
<1> QED
  BY <1>2, StoreAssumption DEF Derive

LEMMA InitStore == StoreInit => StoreInv
BY FixedFiles
DEF StoreInit, StoreInv, StoreTypeOK, Empty, Derived, Expanding, Sealing, Serving, ShownKeysKept, PassphraseSettings, Wallets

-----------------------------------------------------------------------------
LEMMA BootKeeps == ASSUME StoreInv, NEW setting \in PassphraseSettings, Boot(setting) PROVE StoreInv'
BY FixedFiles
DEF StoreInv, StoreTypeOK, Empty, Derived, Expanding, Sealing, Serving, ShownKeysKept, Boot, Idle,
    NothingMissing, IsEncrypted, Held

LEMMA CrashKeeps == StoreInv /\ Crash => StoreInv'
BY FixedFiles
DEF StoreInv, StoreTypeOK, Empty, Derived, Expanding, Sealing, Serving, ShownKeysKept, Crash, NothingMissing

LEMMA ListKeeps == StoreInv /\ ListWallets => StoreInv'
BY SettingsAreSeals
DEF StoreInv, StoreTypeOK, Empty, Derived, Expanding, Sealing, Serving, ShownKeysKept, ListWallets,
    NothingMissing, Loads, Held, Files

LEMMA CreateKeeps ==
  ASSUME StoreInv, NEW phrase \in Phrases, NEW count \in 1..MaxWallets, CreateNew(phrase, count)
  PROVE  StoreInv'
BY FixedFiles, DerivedWallets
DEF StoreInv, StoreTypeOK, Empty, Derived, Expanding, Sealing, Serving, ShownKeysKept, CreateNew,
    NothingMissing, File, Held

LEMMA VerifyExpansionKeeps ==
  ASSUME StoreInv, NEW phrase \in Phrases, NEW target \in 1..MaxWallets,
         VerifyExpansion(phrase, target)
  PROVE  StoreInv'
<1>1. disk.keys \in SUBSET Wallets
  BY DEF StoreInv, StoreTypeOK, Files
<1>2. disk.keys \subseteq Derive(phrase, target)
  BY <1>1, ExpansionAddsWallets DEF VerifyExpansion
<1> QED
  BY <1>2, DerivedWallets
  DEF StoreInv, StoreTypeOK, Empty, Derived, Expanding, Sealing, Serving, ShownKeysKept, VerifyExpansion,
      NothingMissing, File, Held

LEMMA TruncateKeeps == StoreInv /\ Truncate => StoreInv'
BY FixedFiles
DEF StoreInv, StoreTypeOK, Empty, Derived, Expanding, Sealing, Serving, ShownKeysKept, Truncate,
    NothingMissing

LEMMA FillKeeps == StoreInv /\ Fill => StoreInv'
<1> SUFFICES ASSUME StoreInv, Fill PROVE StoreInv'
  OBVIOUS
<1> USE SealedIsAFile, FixedFiles DEF StoreInv, StoreTypeOK, Fill
<1>1. StoreTypeOK'
  OBVIOUS
<1>2. Empty'
  BY DEF Empty, Derived, Expanding, Sealing, Serving, ShownKeysKept, NothingMissing
<1>3. Derived'
  <2>1. Sealed(pending)' = Sealed(pending)
    BY DEF Sealed
  <2> QED
    BY <2>1 DEF Derived
<1>4. Expanding'
  BY DEF Expanding, Empty, Derived, Sealing, Serving, ShownKeysKept, NothingMissing
<1>5. Sealing'
  BY DEF Sealing, Empty, Derived, Expanding, Serving, ShownKeysKept, NothingMissing
<1>6. Serving'
  BY DEF Serving, Empty, Derived, Expanding, Sealing, ShownKeysKept, NothingMissing
<1>7. ShownKeysKept'
  BY DEF ShownKeysKept, Empty, Derived, Expanding, Sealing, Serving, NothingMissing
<1> QED
  BY <1>1, <1>2, <1>3, <1>4, <1>5, <1>6, <1>7

LEMMA FillFailsKeeps == StoreInv /\ FillFails => StoreInv'
BY FixedFiles
DEF StoreInv, StoreTypeOK, Empty, Derived, Expanding, Sealing, Serving, ShownKeysKept, FillFails, Idle,
    NothingMissing

LEMMA SyncKeeps == ASSUME StoreInv, NEW succeeds \in BOOLEAN, Sync(succeeds) PROVE StoreInv'
<1> USE FixedFiles DEF StoreInv, StoreTypeOK, Sync, Idle
<1>1. /\ disk \in Files /\ disk.keys = pending.keys /\ pending.keys \subseteq Wallets
      /\ Held(disk) = pending.keys
      /\ passphrase # <<>> => disk.seals # <<>>
  BY SealedIsAFile DEF Derived, Files
<1>2. StoreTypeOK'
  BY <1>1
<1>3. Empty' /\ Derived' /\ Expanding' /\ Sealing'
  BY DEF Empty, Derived, Expanding, Sealing
<1>4. Serving'
  BY <1>1 DEF Serving
<1>5. ShownKeysKept'
  BY <1>1 DEF ShownKeysKept
<1> QED
  BY <1>2, <1>3, <1>4, <1>5

LEMMA BeginImportKeeps == ASSUME StoreInv, NEW upload \in Uploads, BeginImport(upload) PROVE StoreInv'
<1>1. upload \in Files /\ upload.exists
  <2>1. CASE upload = Torn
    BY <2>1, FixedFiles
  <2>2. CASE \E seals \in PassphraseSettings : upload = File(Uploaded, seals)
    BY <2>2, SettingsAreSeals DEF File, Files, Wallets
  <2> QED
    BY <2>1, <2>2 DEF Uploads
<1> USE <1>1, FixedFiles DEF StoreInv, StoreTypeOK, BeginImport
<1>2. StoreTypeOK'
  OBVIOUS
<1>3. Empty' /\ Derived' /\ Expanding'
  BY DEF Empty, Derived, Expanding
<1>4. Sealing'
  BY DEF Sealing, Empty, NothingMissing, ShownKeysKept, Held
<1>5. Serving' /\ ShownKeysKept'
  BY DEF Serving, ShownKeysKept, Empty, NothingMissing, Held
<1> QED
  BY <1>2, <1>3, <1>4, <1>5

LEMMA StoreImportKeeps == StoreInv /\ StoreImport => StoreInv'
BY FixedFiles
DEF StoreInv, StoreTypeOK, Empty, Derived, Expanding, Sealing, Serving, ShownKeysKept, StoreImport,
    NothingMissing, IsEncrypted, Held

LEMMA StoreFailsKeeps == StoreInv /\ StoreFails => StoreInv'
<1> SUFFICES ASSUME StoreInv, StoreFails PROVE StoreInv'
  OBVIOUS
<1> USE FixedFiles DEF StoreInv, StoreTypeOK, StoreFails
<1>1. StoreTypeOK'
  BY DEF Idle
<1>2. Empty'
  BY DEF Empty, Derived, Expanding, Sealing, Serving, ShownKeysKept, NothingMissing, Idle
<1>3. Derived'
  BY DEF Derived, Empty, Expanding, Sealing, Serving, ShownKeysKept, NothingMissing, Idle
<1>4. Expanding'
  BY DEF Expanding, Empty, Derived, Sealing, Serving, ShownKeysKept, NothingMissing, Idle
<1>5. Sealing'
  BY DEF Sealing, Empty, Derived, Expanding, Serving, ShownKeysKept, NothingMissing, Idle
<1>6. Serving'
  BY DEF Serving, Empty, Derived, Expanding, Sealing, ShownKeysKept, NothingMissing, Idle
<1>7. ShownKeysKept'
  BY DEF ShownKeysKept, Empty, Derived, Expanding, Sealing, Serving, NothingMissing, Idle
<1> QED
  BY <1>1, <1>2, <1>3, <1>4, <1>5, <1>6, <1>7

LEMMA AnnounceKeeps == StoreInv /\ Announce => StoreInv'
<1> SUFFICES ASSUME StoreInv, Announce PROVE StoreInv'
  OBVIOUS
<1> USE FixedFiles, SettingsAreSeals DEF StoreInv, StoreTypeOK, Announce
<1>1. StoreTypeOK'
  BY DEF Idle, Loads, Held, Files
<1>2. Empty'
  BY DEF Empty, Derived, Expanding, Sealing, Serving, ShownKeysKept, NothingMissing, Idle, Loads, Held, Files
<1>3. Derived'
  BY DEF Derived, Empty, Expanding, Sealing, Serving, ShownKeysKept, NothingMissing, Idle, Loads, Held, Files
<1>4. Expanding'
  BY DEF Expanding, Empty, Derived, Sealing, Serving, ShownKeysKept, NothingMissing, Idle, Loads, Held, Files
<1>5. Sealing'
  BY DEF Sealing, Empty, Derived, Expanding, Serving, ShownKeysKept, NothingMissing, Idle, Loads, Held, Files
<1>6. Serving'
  BY DEF Serving, Empty, Derived, Expanding, Sealing, ShownKeysKept, NothingMissing, Idle, Loads, Held, Files
<1>7. ShownKeysKept'
  BY DEF ShownKeysKept, Empty, Derived, Expanding, Sealing, Serving, NothingMissing, Idle, Loads, Held, Files
<1> QED
  BY <1>1, <1>2, <1>3, <1>4, <1>5, <1>6, <1>7

LEMMA OpenTempKeeps == StoreInv /\ OpenTemp => StoreInv'
BY FixedFiles
DEF StoreInv, StoreTypeOK, Empty, Derived, Expanding, Sealing, Serving, ShownKeysKept, OpenTemp,
    NothingMissing

LEMMA FillTempKeeps == StoreInv /\ FillTemp => StoreInv'
BY SealedIsAFile
DEF StoreInv, StoreTypeOK, Empty, Derived, Expanding, Sealing, Serving, ShownKeysKept, FillTemp,
    NothingMissing, Sealed

LEMMA RenameKeeps == StoreInv /\ Rename => StoreInv'
<1> SUFFICES ASSUME StoreInv, Rename PROVE StoreInv'
  OBVIOUS
<1> USE FixedFiles, SealedIsAFile DEF StoreInv, StoreTypeOK, Rename
<1>1. StoreTypeOK'
  BY DEF Idle, Held, IsEncrypted
<1>2. Empty'
  BY DEF Empty, Derived, Expanding, Sealing, Serving, ShownKeysKept, NothingMissing, Idle, Held, IsEncrypted
<1>3. Derived'
  BY DEF Derived, Empty, Expanding, Sealing, Serving, ShownKeysKept, NothingMissing, Idle, Held, IsEncrypted
<1>4. Expanding'
  BY DEF Expanding, Empty, Derived, Sealing, Serving, ShownKeysKept, NothingMissing, Idle, Held, IsEncrypted
<1>5. Sealing'
  BY DEF Sealing, Empty, Derived, Expanding, Serving, ShownKeysKept, NothingMissing, Idle, Held, IsEncrypted
<1>6. Serving'
  BY DEF Serving, Empty, Derived, Expanding, Sealing, ShownKeysKept, NothingMissing, Idle, Held, IsEncrypted
<1>7. ShownKeysKept'
  BY DEF ShownKeysKept, Empty, Derived, Expanding, Sealing, Serving, NothingMissing, Idle, Held, IsEncrypted
<1> QED
  BY <1>1, <1>2, <1>3, <1>4, <1>5, <1>6, <1>7

LEMMA SealFailsKeeps == StoreInv /\ SealFails => StoreInv'
<1> SUFFICES ASSUME StoreInv, SealFails PROVE StoreInv'
  OBVIOUS
<1> USE FixedFiles DEF StoreInv, StoreTypeOK, SealFails
<1>1. StoreTypeOK'
  BY Zenon
<1>2. Empty' /\ Derived' /\ Expanding'
  BY DEF Empty, Derived, Expanding
<1>3. Sealing' /\ ShownKeysKept'
  BY DEF Sealing, ShownKeysKept
<1>4. Serving'
  BY DEF Serving
<1> QED
  BY <1>1, <1>2, <1>3, <1>4

-----------------------------------------------------------------------------
(* Every step keeps the invariant. *)
LEMMA StoreStepKeeps == StoreInv /\ [StoreNext]_storeVars => StoreInv'
<1> SUFFICES ASSUME StoreInv, [StoreNext]_storeVars PROVE StoreInv'
  OBVIOUS
<1>1. ASSUME NEW phrase \in Phrases, NEW count \in 1..MaxWallets, CreateManifest(phrase, count)
      PROVE  StoreInv'
  BY <1>1, CreateKeeps DEF CreateManifest
<1>2. ASSUME NEW phrase \in Phrases, RecoverWallets(phrase)
      PROVE  StoreInv'
  BY <1>2, CreateKeeps, StoreAssumption DEF RecoverWallets
<1>3. CASE UNCHANGED storeVars
  BY <1>3
  DEF storeVars, StoreInv, StoreTypeOK, Empty, Derived, Expanding, Sealing, Serving, ShownKeysKept, Sealed
<1> QED
  BY <1>1, <1>2, <1>3, BootKeeps, CrashKeeps, ListKeeps, VerifyExpansionKeeps, TruncateKeeps,
     FillKeeps, FillFailsKeeps, SyncKeeps, BeginImportKeeps, StoreImportKeeps, StoreFailsKeeps,
     AnnounceKeeps, OpenTempKeeps, FillTempKeeps, RenameKeeps, SealFailsKeeps
  DEF StoreNext

THEOREM StoreInvariant == StoreSpec => []StoreInv
<1> QED
  BY InitStore, StoreStepKeeps, PTL DEF StoreSpec

(* Every file is a set of wallets under a sequence of seals, every address *)
(* shown one of the chat's wallets and the handler's state a known one,    *)
(* whatever is uploaded, derived or sealed, and wherever the process dies. *)
THEOREM StoreTypeCorrect == StoreSpec => []StoreTypeOK
<1>1. StoreInv => StoreTypeOK
  BY DEF StoreInv
<1> QED
  BY <1>1, StoreInvariant, PTL

(* Through every crash, failed write and restart under another passphrase, *)
(* the keys of each wallet the chat was shown are on disk under one seal   *)
(* at most, unless write_manifest_at's truncation for an expansion was the *)
(* last thing that happened to them.                                       *)
THEOREM ShownKeysStay == StoreSpec => []ShownKeysKept
<1>1. StoreInv => ShownKeysKept
  BY DEF StoreInv
<1> QED
  BY <1>1, StoreInvariant, PTL

(* prepare_encryption_at_rest, migrate_directory and handle_document: once *)
(* the bot serves with a passphrase, a manifest with keys is sealed unless *)
(* the sealing of an import failed.                                        *)
THEOREM SealedWhenServed == StoreSpec => []PlainOnlyAfterFailedSeal
<1>1. StoreInv => PlainOnlyAfterFailedSeal
  BY DEF StoreInv, Serving, PlainOnlyAfterFailedSeal
<1> QED
  BY <1>1, StoreInvariant, PTL
-----------------------------------------------------------------------------
(* ChatBot *)

(* What a wizard may hold while the chat's manifest has that many wallets. *)
Ready(w, total) ==
  /\ w \in Wizards
  /\ w.step \in {"Quantity", "Funding", "Confirm"} => w.chain
  /\ w.sponsored => w.step = "Confirm"
  /\ w.wallets <= total
  /\ w.previewed <= IF w.wallets = 0 THEN total ELSE w.wallets

(* The entry of active is removed exactly when the last snipe ends.        *)
Counted == active = tasks

(* The question about an expansion is asked about a manifest that is there *)
(* and smaller; every handler that could write it in between needs it not  *)
(* to be there.                                                            *)
Expandable == awaitingExpansion # 0 => manifest \in 1..MaxWallets /\ manifest < awaitingExpansion

Confirmed ==
  /\ Ready(wizard, Readable)
  /\ Ready(last.wizard, Readable)
  /\ last.handler = "armed" => last.wizard.chain

IInv == TypeOK /\ Counted /\ Expandable /\ Confirmed
-----------------------------------------------------------------------------
LEMMA FixedWizards ==
  /\ NewWizard \in Wizards /\ NoWizard \in Wizards
  /\ NewWizard.step = "Collection" /\ ~NewWizard.chain /\ ~NewWizard.sponsored
  /\ NewWizard.wallets = 0 /\ NewWizard.previewed = 0
  /\ NoWizard.step = "None"
  /\ \A total \in Nat : Ready(NewWizard, total) /\ Ready(NoWizard, total)
<1>1. /\ NewWizard \in Wizards
      /\ NewWizard.step = "Collection" /\ ~NewWizard.chain /\ ~NewWizard.sponsored
      /\ NewWizard.wallets = 0 /\ NewWizard.previewed = 0
  BY BotAssumption DEF NewWizard, Wizards
<1>2. /\ NoWizard \in Wizards
      /\ NoWizard.step = "None" /\ ~NoWizard.sponsored
      /\ NoWizard.wallets = 0 /\ NoWizard.previewed = 0
  BY <1>1 DEF NoWizard, Wizards
<1> QED
  BY <1>1, <1>2 DEF Ready

(* A manifest that only grows leaves a wizard fit.                         *)
LEMMA ReadyStays ==
  ASSUME NEW w, NEW a \in Nat, NEW b \in Nat, a <= b, Ready(w, a)
  PROVE  Ready(w, b)
BY BotAssumption DEF Ready, Wizards

LEMMA OfferedFit ==
  ASSUME NEW n \in Nat
  PROVE  {total \in {n + more : more \in Increments} : total <= MaxWallets} \subseteq 1..MaxWallets
<1> SUFFICES ASSUME NEW more \in Increments, n + more <= MaxWallets
             PROVE  n + more \in 1..MaxWallets
  OBVIOUS
<1>1. more \in Nat /\ more >= 1 /\ MaxWallets \in Nat
  BY BotAssumption
<1> QED
  BY <1>1

LEMMA ReadableTyped == TypeOK => Readable \in 0..MaxWallets
BY BotAssumption DEF TypeOK, Readable, Unreadable, NoFile

(* What every handler has to show for the invariant: it writes the         *)
(* manifest as below, leaves a wizard that is ready, and arms only a       *)
(* wizard that has a chain.                                                *)
LEMMA Step ==
  ASSUME IInv, TypeOK', Counted', Expandable',
         Readable <= Readable', Ready(wizard', Readable'),
         last'.wizard = wizard, last'.handler = "armed" => wizard.chain
  PROVE  IInv'
<1>1. Readable \in Nat /\ Readable' \in Nat
  BY BotAssumption DEF IInv, TypeOK, Readable, Unreadable, NoFile
<1>2. Ready(wizard, Readable')
  BY <1>1, ReadyStays DEF IInv, Confirmed
<1> QED
  BY <1>2 DEF IInv, Confirmed

(* show_confirm keeps a wizard that is ready, drops it or names wallets    *)
(* that are there.                                                         *)
LEMMA ConfirmIsReady ==
  ASSUME TypeOK, NEW w, Ready(w, Readable), w.step = "Confirm", NEW succeeds \in BOOLEAN,
         ShowConfirm(w, succeeds)
  PROVE  Ready(wizard', Readable) /\ wizard' \in Wizards /\ buttons' \in SUBSET {"fire", "wallets"}
<1>1. Readable \in 0..MaxWallets
  BY ReadableTyped
<1>2. CASE succeeds /\ Covered(w) \in 1..Readable
  BY <1>1, <1>2, BotAssumption DEF ShowConfirm, Ready, Wizards, Covered, TypeOK
<1>3. CASE ~(succeeds /\ Covered(w) \in 1..Readable)
  BY <1>1, <1>3, FixedWizards, BotAssumption DEF ShowConfirm, TypeOK
<1> QED
  BY <1>2, <1>3

LEMMA InitInv == Init => IInv
<1> SUFFICES ASSUME Init PROVE IInv
  OBVIOUS
<1>1. Readable = 0 /\ wizard = NoWizard /\ last.wizard = NoWizard /\ last.handler = "none"
  BY DEF Init, Readable, NoFile, Unreadable
<1>2. TypeOK
  <2>1. manifest \in {Unreadable, NoFile} \cup 1..MaxWallets /\ NoWizard \in Wizards
    BY FixedWizards DEF Init
  <2>2. awaitingExpansion \in 0..MaxWallets /\ active \in 0..MaxTasks /\ tasks \in 0..MaxTasks
    BY BotAssumption DEF Init
  <2>3. awaitingWalletCount \in BOOLEAN /\ awaitingRecovery \in BOOLEAN
    BY DEF Init
  <2>4. buttons \in SUBSET {"fire", "wallets"} /\ offered \in SUBSET (1..MaxWallets)
    BY DEF Init
  <2> QED
    BY <1>1, <2>1, <2>2, <2>3, <2>4 DEF Init, TypeOK
<1>3. Counted /\ Expandable /\ Confirmed
  BY <1>1, FixedWizards DEF Init, Counted, Expandable, Confirmed
<1> QED
  BY <1>2, <1>3 DEF IInv

-----------------------------------------------------------------------------
(* The handlers that write neither the manifest nor the wizard.            *)
LEMMA QuestionsKeep ==
  IInv /\ (Start \/ StartRecovery \/ StartAddWallets \/ SnipeEnds) => IInv' /\ Readable <= Readable'
<1> SUFFICES ASSUME IInv, Start \/ StartRecovery \/ StartAddWallets \/ SnipeEnds
             PROVE  IInv' /\ Readable <= Readable'
  OBVIOUS
<1> USE BotAssumption DEF IInv, TypeOK, questions, running, screens, Handled
<1>1. Readable' = Readable /\ Readable \in Nat /\ Ready(wizard, Readable)
  BY ReadableTyped DEF Start, StartRecovery, StartAddWallets, SnipeEnds, Confirmed, Readable
<1>2. wizard' = wizard /\ last'.wizard = wizard /\ last'.handler # "armed"
  BY DEF Start, StartRecovery, StartAddWallets, SnipeEnds
<1>3. TypeOK' /\ Counted' /\ Expandable'
  <2>1. CASE Start
    BY <2>1, <1>2 DEF Start, Counted, Expandable
  <2>2. CASE StartRecovery
    BY <2>2, <1>2 DEF StartRecovery, Counted, Expandable
  <2>3. CASE StartAddWallets
    <3>1. manifest \in Nat
      BY <2>3 DEF StartAddWallets, Readable, Unreadable, NoFile
    <3>2. offered' \subseteq 1..MaxWallets
      BY <2>3, <3>1, OfferedFit DEF StartAddWallets
    <3> QED
      BY <2>3, <3>2, <1>2 DEF StartAddWallets, Counted, Expandable
  <2>4. CASE SnipeEnds
    BY <2>4, <1>2 DEF SnipeEnds, Counted, Expandable
  <2> QED
    BY <2>1, <2>2, <2>3, <2>4
<1> QED
  BY <1>1, <1>2, <1>3, Step

LEMMA PressAddWalletsKeeps ==
  ASSUME IInv, NEW target \in offered, PressAddWallets(target)
  PROVE  IInv' /\ Readable <= Readable'
<1> USE BotAssumption DEF IInv, TypeOK, PressAddWallets, running, screens, Handled
<1>1. Readable' = Readable /\ Readable \in Nat /\ Ready(wizard, Readable)
  BY ReadableTyped DEF Confirmed, Readable
<1>2. TypeOK' /\ Counted'
  BY DEF Counted
<1>3. Expandable'
  BY DEF Expandable, Readable, Unreadable, NoFile
<1>4. wizard' = wizard /\ last'.wizard = wizard /\ last'.handler # "armed"
  OBVIOUS
<1> QED
  BY <1>1, <1>2, <1>3, <1>4, Step

(* A restart forgets the questions, the wizard and the snipes.             *)
LEMMA RestartKeeps ==
  ASSUME IInv, NEW configured \in Settings, Restart(configured)
  PROVE  IInv' /\ Readable <= Readable'
<1> USE BotAssumption DEF IInv, TypeOK, Restart, screens, Handled
<1>1. Readable' = Readable /\ Readable \in Nat
  BY ReadableTyped DEF Readable
<1>2. wizard' = NoWizard /\ Ready(NoWizard, Readable) /\ NoWizard \in Wizards
  BY <1>1, FixedWizards
<1>3. last'.wizard = wizard /\ last'.handler # "armed"
  OBVIOUS
<1>4. Counted' /\ Expandable'
  BY DEF Counted, Expandable
<1>5. TypeOK'
  <2>1. awaitingWalletCount' \in BOOLEAN /\ awaitingRecovery' \in BOOLEAN
    OBVIOUS
  <2>2. awaitingExpansion' \in 0..MaxWallets /\ active' \in 0..MaxTasks /\ tasks' \in 0..MaxTasks
    OBVIOUS
  <2> QED
    BY <1>2, <1>3, <2>1, <2>2
<1> QED
  BY <1>1, <1>2, <1>3, <1>4, <1>5, Step

-----------------------------------------------------------------------------
(* The handlers that write the manifest: all but one only when there is    *)
(* none, and the expansion one that is larger.                             *)
LEMMA WritersKeep ==
  ASSUME IInv,
         wizard' = wizard, last'.wizard = wizard, last'.handler # "armed", TypeOK', Counted',
         manifest' # manifest =>
           \/ manifest = NoFile /\ awaitingExpansion' = awaitingExpansion
           \/ /\ awaitingExpansion # 0 /\ manifest' = awaitingExpansion
              /\ awaitingExpansion' = 0,
         awaitingExpansion' \in {0, awaitingExpansion}
  PROVE  IInv' /\ Readable <= Readable'
<1> USE BotAssumption DEF IInv, TypeOK
<1>1. Readable \in Nat /\ Readable' \in Nat /\ Readable <= Readable'
  <2>1. Readable \in Nat /\ Readable' \in Nat
    BY DEF Readable, Unreadable, NoFile
  <2>2. CASE manifest' = manifest
    BY <2>1, <2>2 DEF Readable
  <2>3. CASE manifest = NoFile
    BY <2>1, <2>3 DEF Readable, NoFile, Unreadable
  <2>4. CASE awaitingExpansion # 0 /\ manifest' = awaitingExpansion
    BY <2>4 DEF Expandable, Readable, Unreadable
  <2> QED
    BY <2>1, <2>2, <2>3, <2>4
<1>2. Expandable'
  BY DEF Expandable, NoFile
<1>3. Ready(wizard', Readable')
  BY <1>1, ReadyStays DEF Confirmed
<1> QED
  BY <1>1, <1>2, <1>3, Step

LEMMA UploadKeeps ==
  ASSUME IInv, NEW content \in {Unreadable} \cup 1..MaxWallets, Upload(content)
  PROVE  IInv' /\ Readable <= Readable'
<1>1. TypeOK' /\ Counted'
  BY DEF IInv, TypeOK, Counted, Upload, questions, running, screens, Handled
<1> QED
  BY <1>1, WritersKeep DEF Upload, HasManifest, questions, Handled

LEMMA CreateWalletsWrites ==
  ASSUME TypeOK, NEW count, CreateWallets(count)
  PROVE  /\ manifest' \in {Unreadable, NoFile} \cup 1..MaxWallets
         /\ awaitingWalletCount' \in BOOLEAN
         /\ manifest' # manifest => manifest = NoFile
BY DEF TypeOK, CreateWallets, HasManifest

LEMMA PressWalletsKeeps ==
  ASSUME IInv, NEW count \in 1..MaxWallets, PressWallets(count)
  PROVE  IInv' /\ Readable <= Readable'
<1>1. TypeOK' /\ Counted'
  BY CreateWalletsWrites DEF IInv, TypeOK, Counted, PressWallets, running, screens, Handled
<1> QED
  BY <1>1, WritersKeep, CreateWalletsWrites DEF IInv, PressWallets, Handled

LEMMA AnswerRecoveryKeeps ==
  ASSUME IInv, NEW text \in Texts, AnswerRecovery(text)
  PROVE  IInv' /\ Readable <= Readable'
<1>1. manifest' \in {manifest, RecoveryCount} /\ (manifest' # manifest => manifest = NoFile)
  BY DEF AnswerRecovery, HasManifest
<1>2. awaitingRecovery' \in BOOLEAN
  BY DEF AnswerRecovery, TwelveWords, Valid
<1>3. TypeOK' /\ Counted'
  BY <1>1, <1>2, BotAssumption
  DEF IInv, TypeOK, Counted, AnswerRecovery, running, screens, Handled
<1> QED
  BY <1>1, <1>3, WritersKeep DEF AnswerRecovery, Handled

LEMMA AnswerExpansionKeeps ==
  ASSUME IInv, NEW text \in Texts, AnswerExpansion(text)
  PROVE  IInv' /\ Readable <= Readable'
<1>1. /\ awaitingExpansion # 0 /\ awaitingExpansion' \in {0, awaitingExpansion}
      /\ manifest' \in {manifest, awaitingExpansion}
      /\ manifest' # manifest => manifest' = awaitingExpansion /\ awaitingExpansion' = 0
  BY DEF AnswerExpansion, TwelveWords, Valid
<1>2. TypeOK' /\ Counted'
  BY <1>1, BotAssumption
  DEF IInv, TypeOK, Counted, AnswerExpansion, running, screens, Handled
<1> QED
  BY <1>1, <1>2, WritersKeep DEF AnswerExpansion, Handled

LEMMA AnswerCountKeeps ==
  ASSUME IInv, NEW text \in Texts, AnswerCount(text)
  PROVE  IInv' /\ Readable <= Readable'
<1>1. /\ manifest' \in {Unreadable, NoFile} \cup 1..MaxWallets
      /\ awaitingWalletCount' \in BOOLEAN
      /\ manifest' # manifest => manifest = NoFile
  <2>1. CASE text.kind = "number"
    BY <2>1, CreateWalletsWrites DEF AnswerCount, IInv
  <2>2. CASE text.kind # "number"
    BY <2>2 DEF AnswerCount, IInv, TypeOK
  <2> QED
    BY <2>1, <2>2
<1>2. TypeOK' /\ Counted'
  BY <1>1 DEF IInv, TypeOK, Counted, AnswerCount, running, screens, Handled
<1> QED
  BY <1>1, <1>2, WritersKeep DEF AnswerCount, Handled

-----------------------------------------------------------------------------
(* The handlers that write the wizard: it is dropped, or goes on knowing   *)
(* its chain before anything of it is confirmed.                           *)
LEMMA WizardKeeps ==
  ASSUME IInv, UNCHANGED <<settings, manifest, awaitingWalletCount, offered>>,
         awaitingRecovery' \in BOOLEAN, awaitingExpansion' \in {0, awaitingExpansion},
         buttons' \in SUBSET {"fire", "wallets"},
         active' \in 0..MaxTasks, tasks' \in 0..MaxTasks, active' = tasks',
         Ready(wizard', Readable),
         last'.wizard = wizard, last'.handler = "armed" => wizard.chain
  PROVE  IInv' /\ Readable <= Readable'
<1> USE BotAssumption DEF IInv, TypeOK
<1>1. Readable' = Readable /\ Readable \in Nat
  BY ReadableTyped DEF Readable
<1>2. TypeOK'
  BY DEF Ready
<1>3. Counted' /\ Expandable'
  BY DEF Counted, Expandable
<1> QED
  BY <1>1, <1>2, <1>3, Step

(* Snipe, cancel and pressing cancel.                                      *)
LEMMA ResetKeeps ==
  IInv /\ (Snipe \/ CancelCommand \/ PressCancel) => IInv' /\ Readable <= Readable'
<1> SUFFICES ASSUME IInv, Snipe \/ CancelCommand \/ PressCancel
             PROVE  IInv' /\ Readable <= Readable'
  OBVIOUS
<1>1. Readable \in Nat
  BY ReadableTyped, BotAssumption DEF IInv
<1>2. wizard' \in {NewWizard, NoWizard} /\ last'.wizard = wizard /\ last'.handler # "armed"
  BY DEF Snipe, CancelCommand, PressCancel, Handled
<1>3. /\ awaitingRecovery' \in BOOLEAN /\ awaitingExpansion' \in {0, awaitingExpansion}
      /\ UNCHANGED <<settings, manifest, awaitingWalletCount, offered, buttons, active, tasks>>
  BY DEF Snipe, CancelCommand, PressCancel, IInv, TypeOK, questions, running, screens
<1> QED
  BY <1>1, <1>2, <1>3, FixedWizards, WizardKeeps DEF IInv, TypeOK, Counted

LEMMA PressChainKeeps == IInv /\ PressChain => IInv' /\ Readable <= Readable'
<1> SUFFICES ASSUME IInv, PressChain PROVE IInv' /\ Readable <= Readable'
  OBVIOUS
<1>1. Ready(wizard', Readable)
  BY DEF PressChain, IInv, Confirmed, Ready, Wizards
<1> QED
  BY <1>1, WizardKeeps
  DEF PressChain, IInv, TypeOK, Counted, questions, running, screens, Handled

LEMMA PressFundKeeps ==
  ASSUME IInv, NEW sponsored \in BOOLEAN, NEW succeeds \in BOOLEAN,
         PressFund(sponsored, succeeds)
  PROVE  IInv' /\ Readable <= Readable'
<1> DEFINE w == [wizard EXCEPT !.sponsored = sponsored, !.step = "Confirm"]
           shows == succeeds /\ (sponsored => settings.sponsor)
<1>1. Ready(w, Readable) /\ w.step = "Confirm"
  BY DEF PressFund, IInv, Confirmed, Ready, Wizards
<1>2. ShowConfirm(w, shows)
  BY DEF PressFund
<1>3. shows \in BOOLEAN
  BY DEF IInv, TypeOK, Settings
<1> HIDE DEF w, shows
<1>4. Ready(wizard', Readable) /\ buttons' \in SUBSET {"fire", "wallets"}
  BY <1>1, <1>2, <1>3, ConfirmIsReady DEF IInv
<1> QED
  BY <1>4, WizardKeeps DEF PressFund, IInv, TypeOK, Counted, questions, running, Handled

LEMMA PressFireKeeps == IInv /\ PressFire => IInv' /\ Readable <= Readable'
<1> SUFFICES ASSUME IInv, PressFire PROVE IInv' /\ Readable <= Readable'
  OBVIOUS
<1>1. Readable \in Nat
  BY ReadableTyped, BotAssumption DEF IInv
<1>2. Ready(wizard', Readable)
  BY <1>1, FixedWizards DEF PressFire
<1>3. HasWizard /\ Armable(wizard) => wizard.chain
  BY DEF Armable, IInv, Confirmed, Ready
<1>4. /\ last'.wizard = wizard
      /\ last'.handler = "armed" => wizard.chain
  BY <1>3 DEF PressFire, Handled
<1>5. active' \in 0..MaxTasks /\ tasks' \in 0..MaxTasks /\ active' = tasks'
  BY BotAssumption DEF PressFire, IInv, TypeOK, Counted, running
<1> QED
  BY <1>2, <1>4, <1>5, WizardKeeps DEF PressFire, IInv, TypeOK, questions, screens

LEMMA AnswerCollectionKeeps == IInv /\ AnswerCollection => IInv' /\ Readable <= Readable'
<1> SUFFICES ASSUME IInv, AnswerCollection PROVE IInv' /\ Readable <= Readable'
  OBVIOUS
<1>1. Ready(wizard', Readable)
  BY DEF AnswerCollection, IInv, Confirmed, Ready, Wizards
<1> QED
  BY <1>1, WizardKeeps
  DEF AnswerCollection, IInv, TypeOK, Counted, questions, running, screens, Handled

LEMMA AnswerQuantityKeeps ==
  ASSUME IInv, NEW text \in Texts, NEW succeeds \in BOOLEAN, AnswerQuantity(text, succeeds)
  PROVE  IInv' /\ Readable <= Readable'
<1> DEFINE w == [wizard EXCEPT !.step = "Confirm"]
<1>1. Ready(wizard', Readable) /\ buttons' \in SUBSET {"fire", "wallets"}
  <2>1. CASE settings.sponsor
    BY <2>1 DEF AnswerQuantity, IInv, TypeOK, Confirmed, Ready, Wizards
  <2>2. CASE ~settings.sponsor
    <3>1. Ready(w, Readable) /\ w.step = "Confirm"
      BY DEF AnswerQuantity, IInv, Confirmed, Ready, Wizards
    <3>2. ShowConfirm(w, succeeds)
      BY <2>2 DEF AnswerQuantity
    <3> HIDE DEF w
    <3> QED
      BY <3>1, <3>2, ConfirmIsReady DEF IInv
  <2> QED
    BY <2>1, <2>2
<1> QED
  BY <1>1, WizardKeeps DEF AnswerQuantity, IInv, TypeOK, Counted, questions, running, Handled

LEMMA PasteLinkKeeps ==
  ASSUME IInv, NEW text \in Texts, PasteLink(text)
  PROVE  IInv' /\ Readable <= Readable'
<1>1. Readable \in Nat
  BY ReadableTyped, BotAssumption DEF IInv
<1>2. Ready(wizard', Readable)
  <2>1. /\ Ready([NewWizard EXCEPT !.chain = TRUE, !.step = "Quantity"], Readable)
        /\ Ready([NewWizard EXCEPT !.step = "Chain"], Readable)
    BY <1>1, FixedWizards DEF Ready, Wizards
  <2> QED
    BY <2>1 DEF PasteLink
<1> QED
  BY <1>2, WizardKeeps DEF PasteLink, IInv, TypeOK, Counted, questions, running, screens, Handled

LEMMA ProposeKeeps ==
  ASSUME IInv, NEW count \in 0..(MaxWallets + 1), NEW chain \in BOOLEAN,
         NEW succeeds \in BOOLEAN, Propose(count, chain, succeeds)
  PROVE  IInv' /\ Readable <= Readable'
<1> DEFINE proposal == [NewWizard EXCEPT !.wallets = Least(count, Readable), !.chain = chain]
           w == [proposal EXCEPT !.step = "Confirm"]
<1>1. Readable \in 0..MaxWallets
  BY ReadableTyped DEF IInv
<1>2. Least(count, Readable) \in 0..MaxWallets /\ Least(count, Readable) <= Readable
  BY <1>1, BotAssumption DEF Least
<1>3. /\ proposal \in Wizards /\ proposal.previewed = 0 /\ ~proposal.sponsored
      /\ proposal.chain = chain /\ proposal.wallets <= Readable
  BY <1>2, FixedWizards DEF Wizards
<1>4. Ready(wizard', Readable) /\ buttons' \in SUBSET {"fire", "wallets"}
  <2>1. CASE chain
    <3>1. ShowConfirm(w, succeeds)
      BY <2>1 DEF Propose
    <3> HIDE DEF proposal
    <3>2. /\ w \in Wizards /\ w.step = "Confirm" /\ w.chain /\ w.previewed = 0
          /\ w.wallets <= Readable
      BY <1>3, <2>1 DEF Wizards
    <3> HIDE DEF w
    <3>3. Ready(w, Readable)
      BY <1>1, <3>2, BotAssumption DEF Ready, Wizards
    <3> QED
      BY <3>1, <3>2, <3>3, ConfirmIsReady DEF IInv
  <2>2. CASE ~chain
    <3>1. wizard' = [proposal EXCEPT !.step = "Chain"] /\ UNCHANGED buttons
      BY <2>2 DEF Propose
    <3> HIDE DEF proposal
    <3> QED
      BY <3>1, <1>1, <1>3, BotAssumption DEF Ready, Wizards, IInv, TypeOK
  <2> QED
    BY <2>1, <2>2
<1> QED
  BY <1>4, WizardKeeps DEF Propose, IInv, TypeOK, Counted, questions, running, Handled

-----------------------------------------------------------------------------
LEMMA NextKeeps == IInv /\ Next => IInv' /\ Readable <= Readable'
BY QuestionsKeep, PressAddWalletsKeeps, RestartKeeps, UploadKeeps, PressWalletsKeeps,
   AnswerRecoveryKeeps, AnswerExpansionKeeps, AnswerCountKeeps, ResetKeeps, PressChainKeeps,
   PressFundKeeps, PressFireKeeps, AnswerCollectionKeeps, AnswerQuantityKeeps, PasteLinkKeeps,
   ProposeKeeps
DEF Next

LEMMA BotInvariant == Spec => []IInv
<1>1. IInv /\ UNCHANGED vars => IInv'
  BY DEF vars, questions, running, screens, IInv, TypeOK, Counted, Expandable, Confirmed, Readable
<1> QED
  BY <1>1, InitInv, NextKeeps, PTL DEF Spec

(* Whatever the chat sends and presses, in whatever order: the manifest    *)
(* never exceeds MAX_WALLETS_PER_USER, no more snipes than admitted run,   *)
(* and the wizard and the questions hold values of their types.            *)
THEOREM BotTypeCorrect == Spec => []TypeOK
<1>1. IInv => TypeOK
  BY DEF IInv
<1> QED
  BY <1>1, BotInvariant, PTL

(* What handle_callback arms for "fire" has its chain, wallets that are in *)
(* the manifest, and no fewer of them than the confirm screen named, even  *)
(* when the button is older than the wizard or the manifest has grown.     *)
THEOREM ArmedWasConfirmed == Spec => []ArmedIsComplete
<1>1. IInv => ArmedIsComplete
  BY DEF IInv, Confirmed, Ready, ArmedIsComplete, Covered
<1> QED
  BY <1>1, BotInvariant, PTL

(* No update takes a wallet out of the manifest: handlers that create one  *)
(* find none, and the expansion writes the larger total it was asked with. *)
THEOREM NoWalletIsLost == Spec => WalletsOnlyGrow
<1>1. IInv /\ Next => Readable <= Readable'
  BY NextKeeps
<1>2. IInv /\ UNCHANGED vars => Readable <= Readable'
  BY ReadableTyped, BotAssumption DEF vars, IInv, Readable
<1> QED
  BY <1>1, <1>2, BotInvariant, PTL DEF Spec, WalletsOnlyGrow
=============================================================================
