-------------------------------- MODULE ChatBot --------------------------------
(***************************************************************************)
(* The Telegram bot as one chat sees it (bot.rs): the snipe wizard, the    *)
(* pending questions, the buttons that stay in the chat, the wallet        *)
(* manifest and the snipes running in the background.  run_bot handles one *)
(* update at a time, so a handler is one step; snipes end on their own and *)
(* the process may restart between updates.  Chats share no state.  What a *)
(* write to disk goes through is ManifestStore's subject: here a manifest  *)
(* is written or not.                                                      *)
(***************************************************************************)
EXTENDS BotLimits, Integers, FiniteSets

CONSTANTS
  Increments,      \* what "+ Add Wallets" offers on top of the wallets there are
  MaxTasks         \* bound on the snipes running at once

ASSUME BotAssumption ==
  /\ MaxWallets \in Nat \ {0} /\ MaxTasks \in Nat \ {0}
  /\ Increments \subseteq Nat \ {0} /\ IsFiniteSet(Increments)
  /\ RecoveryCount \in 1..MaxWallets

Unreadable == -1       \* a file is there but WalletManifest::load rejects it
NoFile == 0

VARIABLES
  settings,            \* [sponsor, assistant]: what the environment configures
  manifest,            \* the wallets in the chat's manifest, NoFile or Unreadable
  wizard,              \* the chat's entry of wizards, or NoWizard
  awaitingWalletCount,
  awaitingRecovery,
  awaitingExpansion,   \* the target total, 0 when none is awaited
  active,              \* the chat's entry of active
  tasks,               \* snipes running in the background
  buttons,             \* which of "fire" and "wallets" were ever displayed
  offered,             \* the totals "+ Add Wallets" ever offered
  last                 \* the last update: its handler and the wizard before it

questions == <<awaitingWalletCount, awaitingRecovery, awaitingExpansion>>
screens == <<buttons, offered>>
running == <<active, tasks>>
vars == <<settings, manifest, wizard, questions, running, screens, last>>

(* chain and previewed abstract what was chosen and shown: wallets is the  *)
(* number of leading indices selected, 0 for all; previewed the number of  *)
(* wallets the confirm screen of this wizard named, 0 before there is one. *)
NewWizard == [step |-> "Collection", chain |-> FALSE, wallets |-> 0,
              sponsored |-> FALSE, previewed |-> 0]
NoWizard == [NewWizard EXCEPT !.step = "None"]

HasManifest == manifest # NoFile
Readable == IF manifest = Unreadable THEN 0 ELSE manifest
HasWizard == wizard # NoWizard
Covered(w) == IF w.wallets = 0 THEN Readable ELSE w.wallets

Handled(handler) == last' = [handler |-> handler, wizard |-> wizard]

-----------------------------------------------------------------------------
(* show_confirm: a failed preview drops the wizard.                        *)
ShowConfirm(w, succeeds) ==
  IF succeeds /\ Covered(w) \in 1..Readable
  THEN /\ wizard' = [w EXCEPT !.previewed = Covered(w)]
       /\ buttons' = buttons \cup {"fire"}
  ELSE wizard' = NoWizard /\ UNCHANGED buttons

-----------------------------------------------------------------------------
(* Commands, the main menu and uploads *)

Start ==
  /\ awaitingWalletCount' = (awaitingWalletCount \/ ~HasManifest)
  /\ buttons' = IF HasManifest THEN buttons ELSE buttons \cup {"wallets"}
  /\ Handled("onboarding")
  /\ UNCHANGED <<settings, manifest, wizard, awaitingRecovery, awaitingExpansion, running, offered>>

Snipe ==
  /\ wizard' = NewWizard
  /\ Handled("wizard")
  /\ UNCHANGED <<settings, manifest, questions, running, screens>>

StartRecovery ==
  /\ awaitingRecovery' = (awaitingRecovery \/ ~HasManifest)
  /\ Handled("recovery")
  /\ UNCHANGED <<settings, manifest, wizard, awaitingWalletCount, awaitingExpansion, running, screens>>

CancelCommand ==
  /\ wizard' = NoWizard
  /\ awaitingRecovery' = FALSE /\ awaitingExpansion' = 0
  /\ Handled("cancel")
  /\ UNCHANGED <<settings, manifest, awaitingWalletCount, running, screens>>

(* Mutant: totals beyond MAX_WALLETS_PER_USER are offered.                 *)
OfferUnlimited ==
  /\ Readable > 0
  /\ offered' = offered \cup {manifest + more : more \in Increments}
  /\ Handled("addwallets")
  /\ UNCHANGED <<settings, manifest, wizard, questions, running, buttons>>

StartAddWallets ==
  /\ Readable > 0
  /\ offered' = offered \cup {total \in {manifest + more : more \in Increments} : total <= MaxWallets}
  /\ Handled("addwallets")
  /\ UNCHANGED <<settings, manifest, wizard, questions, running, buttons>>

(* handle_document: imports over nothing; a file that is no manifest stays.*)
Upload(content) ==
  /\ ~HasManifest
  /\ manifest' = content
  /\ Handled("import")
  /\ UNCHANGED <<settings, wizard, questions, running, screens>>

-----------------------------------------------------------------------------
(* Buttons: any that was ever displayed may be pressed at any time.        *)

CreateWallets(count) ==
  IF count \in 1..MaxWallets
  THEN /\ awaitingWalletCount' = FALSE
       /\ manifest' = IF HasManifest THEN manifest ELSE count
  ELSE UNCHANGED <<awaitingWalletCount, manifest>>

PressWallets(count) ==
  /\ "wallets" \in buttons
  /\ CreateWallets(count)
  /\ Handled("create")
  /\ UNCHANGED <<settings, wizard, awaitingRecovery, awaitingExpansion, running, screens>>

(* Mutant: an old button's total is not compared with the manifest.        *)
ExpandToAnyTotal(target) ==
  /\ target \in offered /\ Readable > 0
  /\ awaitingExpansion' = target
  /\ Handled("expansion")
  /\ UNCHANGED <<settings, manifest, wizard, awaitingWalletCount, awaitingRecovery, running, screens>>

(* begin_wallet_expansion *)
PressAddWallets(target) ==
  /\ target \in offered
  /\ target > Readable /\ Readable > 0 /\ target <= MaxWallets
  /\ awaitingExpansion' = target
  /\ Handled("expansion")
  /\ UNCHANGED <<settings, manifest, wizard, awaitingWalletCount, awaitingRecovery, running, screens>>

PressChain ==
  /\ wizard.step = "Chain"
  /\ wizard' = [wizard EXCEPT !.chain = TRUE, !.step = "Quantity"]
  /\ Handled("wizard")
  /\ UNCHANGED <<settings, manifest, questions, running, screens>>

PressFund(sponsored, succeeds) ==
  /\ wizard.step = "Funding"
  /\ ShowConfirm([wizard EXCEPT !.sponsored = sponsored, !.step = "Confirm"],
                 succeeds /\ (sponsored => settings.sponsor))
  /\ Handled("wizard")
  /\ UNCHANGED <<settings, manifest, questions, running, offered>>

Armable(w) == IF w.sponsored THEN settings.sponsor ELSE w.chain

(* fire:yes takes the wizard out, whatever its step, and fires it.         *)
PressFire ==
  /\ "fire" \in buttons
  /\ wizard' = NoWizard
  /\ IF HasWizard /\ Armable(wizard)
     THEN /\ tasks < MaxTasks
          /\ active' = active + 1 /\ tasks' = tasks + 1
          /\ Handled("armed")
     ELSE UNCHANGED running /\ Handled("refused")
  /\ UNCHANGED <<settings, manifest, questions, screens>>

PressCancel ==
  /\ "fire" \in buttons
  /\ wizard' = NoWizard
  /\ Handled("cancelled")
  /\ UNCHANGED <<settings, manifest, questions, running, screens>>

-----------------------------------------------------------------------------
(* Plain text goes to the first question that awaits an answer.            *)

Valid(text) == text.kind \in {"phrase", "otherPhrase"}
TwelveWords(text) == Valid(text) \/ text.kind = "misspelled"

(* handle_recovery_phrase: only a wrong number of words asks again.        *)
AnswerRecovery(text) ==
  /\ awaitingRecovery
  /\ awaitingRecovery' = ~TwelveWords(text)
  /\ manifest' = IF Valid(text) /\ ~HasManifest THEN RecoveryCount ELSE manifest
  /\ Handled("recovery")
  /\ UNCHANGED <<settings, wizard, awaitingWalletCount, awaitingExpansion, running, screens>>

(* handle_wallet_expansion_phrase: "phrase" is the one behind the manifest.*)
AnswerExpansion(text) ==
  /\ ~awaitingRecovery /\ awaitingExpansion # 0
  /\ awaitingExpansion' = IF TwelveWords(text) THEN 0 ELSE awaitingExpansion
  /\ manifest' = IF text.kind = "phrase" /\ Readable > 0 THEN awaitingExpansion ELSE manifest
  /\ Handled("expansion")
  /\ UNCHANGED <<settings, wizard, awaitingWalletCount, awaitingRecovery, running, screens>>

AnswerCount(text) ==
  /\ ~awaitingRecovery /\ awaitingExpansion = 0 /\ awaitingWalletCount
  /\ IF text.kind = "number" THEN CreateWallets(text.number)
     ELSE UNCHANGED <<awaitingWalletCount, manifest>>
  /\ Handled("count")
  /\ UNCHANGED <<settings, wizard, awaitingRecovery, awaitingExpansion, running, screens>>

NothingAwaited == ~awaitingRecovery /\ awaitingExpansion = 0 /\ ~awaitingWalletCount

(* advance_wizard: any text names the collection.                          *)
AnswerCollection ==
  /\ NothingAwaited /\ wizard.step = "Collection"
  /\ wizard' = [wizard EXCEPT !.step = "Chain"]
  /\ Handled("wizard")
  /\ UNCHANGED <<settings, manifest, questions, running, screens>>

(* advance_wizard; at the other steps, and for anything but a positive     *)
(* number, it only repeats what it wants.                                  *)
AnswerQuantity(text, succeeds) ==
  /\ NothingAwaited /\ wizard.step = "Quantity"
  /\ text.kind = "number" /\ text.number > 0
  /\ IF settings.sponsor
     THEN wizard' = [wizard EXCEPT !.step = "Funding"] /\ UNCHANGED buttons
     ELSE ShowConfirm([wizard EXCEPT !.step = "Confirm"], succeeds)
  /\ Handled("wizard")
  /\ UNCHANGED <<settings, manifest, questions, running, offered>>

(* start_from_locator: an item link carries its chain.                     *)
PasteLink(text) ==
  /\ NothingAwaited /\ ~HasWizard
  /\ text.kind \in {"link", "itemLink"}
  /\ wizard' = IF text.kind = "itemLink"
               THEN [NewWizard EXCEPT !.chain = TRUE, !.step = "Quantity"]
               ELSE [NewWizard EXCEPT !.step = "Chain"]
  /\ Handled("locator")
  /\ UNCHANGED <<settings, manifest, questions, running, screens>>

(* Clamps the proposed count; Unclamped is its mutant.                     *)
Unclamped(m, n) == m
Least(m, n) == IF m < n THEN m ELSE n

(* handle_natural_language: a proposal fills the wizard in.                *)
Propose(count, chain, succeeds) ==
  /\ NothingAwaited /\ ~HasWizard /\ settings.assistant
  /\ LET proposal == [NewWizard EXCEPT !.wallets = Least(count, Readable), !.chain = chain]
     IN IF chain THEN ShowConfirm([proposal EXCEPT !.step = "Confirm"], succeeds)
        ELSE wizard' = [proposal EXCEPT !.step = "Chain"] /\ UNCHANGED buttons
  /\ Handled("assistant")
  /\ UNCHANGED <<settings, manifest, questions, running, offered>>

-----------------------------------------------------------------------------
(* The background task of a snipe ends, with or without an error.          *)
SnipeEnds ==
  /\ tasks > 0
  /\ tasks' = tasks - 1
  /\ active' = IF active > 0 THEN active - 1 ELSE 0
  /\ Handled("none")
  /\ UNCHANGED <<settings, manifest, wizard, questions, screens>>

(* A restart forgets everything but the files and the chat's history.      *)
Restart(configured) ==
  /\ settings' = configured
  /\ wizard' = NoWizard
  /\ awaitingWalletCount' = FALSE /\ awaitingRecovery' = FALSE /\ awaitingExpansion' = 0
  /\ active' = 0 /\ tasks' = 0
  /\ Handled("none")
  /\ UNCHANGED <<manifest, screens>>

Settings == [sponsor: BOOLEAN, assistant: BOOLEAN]

Texts ==
  [kind: {"phrase", "otherPhrase", "misspelled", "link", "itemLink", "chatter"}, number: {0}]
  \cup [kind: {"number"}, number: 0..(MaxWallets + 1)]

Init ==
  /\ settings \in Settings
  /\ manifest = NoFile /\ wizard = NoWizard
  /\ awaitingWalletCount = FALSE /\ awaitingRecovery = FALSE /\ awaitingExpansion = 0
  /\ active = 0 /\ tasks = 0
  /\ buttons = {} /\ offered = {}
  /\ last = [handler |-> "none", wizard |-> NoWizard]

Next ==
  \/ Start \/ Snipe \/ StartRecovery \/ CancelCommand \/ StartAddWallets
  \/ \E content \in {Unreadable} \cup 1..MaxWallets : Upload(content)
  \/ \E count \in 1..MaxWallets : PressWallets(count)
  \/ \E target \in offered : PressAddWallets(target)
  \/ PressChain
  \/ \E sponsored, succeeds \in BOOLEAN : PressFund(sponsored, succeeds)
  \/ PressFire \/ PressCancel
  \/ \E text \in Texts :
       AnswerRecovery(text) \/ AnswerExpansion(text) \/ AnswerCount(text) \/ PasteLink(text)
  \/ AnswerCollection
  \/ \E text \in Texts, succeeds \in BOOLEAN : AnswerQuantity(text, succeeds)
  \/ \E count \in 0..(MaxWallets + 1), chain, succeeds \in BOOLEAN : Propose(count, chain, succeeds)
  \/ SnipeEnds
  \/ \E configured \in Settings : Restart(configured)

Spec == Init /\ [][Next]_vars

-----------------------------------------------------------------------------
Wizards == [step: {"None", "Collection", "Chain", "Quantity", "Funding", "Confirm"},
            chain: BOOLEAN, wallets: 0..MaxWallets, sponsored: BOOLEAN,
            previewed: 0..MaxWallets]

(* Types of the bot's variables. *)
TypeOK ==
  /\ settings \in Settings
  /\ manifest \in {Unreadable, NoFile} \cup 1..MaxWallets
  /\ wizard \in Wizards
  /\ awaitingWalletCount \in BOOLEAN /\ awaitingRecovery \in BOOLEAN
  /\ awaitingExpansion \in 0..MaxWallets
  /\ active \in 0..MaxTasks /\ tasks \in 0..MaxTasks
  /\ buttons \in SUBSET {"fire", "wallets"} /\ offered \in SUBSET (1..MaxWallets)
  /\ last.wizard \in Wizards

(* No update ever takes a wallet out of the manifest: neither an old       *)
(* "+ Add Wallets" button pressed after the manifest outgrew it, nor a     *)
(* question answered after another handler wrote the file.                 *)
WalletsOnlyGrow == [][Readable <= Readable']_vars

(* A snipe that is armed knows its chain, uses only wallets the manifest   *)
(* holds, and uses no fewer than the screen the user confirmed named.      *)
ArmedIsComplete ==
  last.handler = "armed" =>
    /\ last.wizard.chain
    /\ last.wizard.wallets <= Readable
    /\ last.wizard.previewed <= Covered(last.wizard)

=============================================================================
