------------------------ MODULE SponsoredMintExecutor ------------------------
(***************************************************************************)
(* The on-chain half of a sponsored mint: SponsoredMintExecutor.sol, both  *)
(* as the dispatcher that a sponsor calls (executeBatch) and as the code   *)
(* an EIP-7702 wallet runs (executeSponsoredMint and the token receivers). *)
(*                                                                         *)
(* A transaction is a stack of call frames.  Everything a revert undoes is *)
(* kept in the record  world , and a frame remembers the world it was      *)
(* entered with, so that reverting a frame restores it.  Code that is not  *)
(* the contract's (the transaction sender, the mint target, the NFT        *)
(* contract, the recipient's hook) is an "external" frame: it may make any *)
(* call, return, or revert, in any order.  A call the contract rejects at  *)
(* its first checks leaves no trace and is therefore not a step.           *)
(***************************************************************************)
EXTENDS Integers, Sequences, FiniteSets, FiniteSetsExt

CONSTANTS
  Wallets,        \* the EOAs that may delegate to an executor
  Dispatchers,    \* deployed executors
  Sponsors,       \* accounts that call executeBatch
  BatchIds,       \* non-zero batch identifiers
  Ops,            \* operation payloads (everything signed but the position)
  WalletOf,       \* [Ops -> Wallets]       MintOperation.wallet
  UnitsOf,        \* [Ops -> Nat]           MintOperation.expectedUnits
  ValueOf,        \* [Ops -> Nat]           MintOperation.mintValue
  DeadlineOf,     \* [Ops -> Nat]           MintOperation.deadline
  ShapeOf,        \* [Ops -> Shapes]        what the shape checks say of it
  Signed,         \* the digests the wallets signed, see Authorization
  InitialEther,   \* each wallet's native balance before the first transaction
  MaxBatch,       \* longest batch submitted (MAX_BATCH_SIZE is 25)
  MaxDepth,       \* bound on the call stack
  MaxSupply,      \* bound on the NFT units in existence
  MaxDonation,    \* bound on the ether strangers send to the wallets
  MaxTime,        \* bound on block.timestamp
  NoDelegate      \* no delegation installed

(***************************************************************************)
(* "oversized" calldata is seen by executeBatch; every other defect found  *)
(* by _validateOperationShape is "malformed".                              *)
(***************************************************************************)
Shapes == {"ok", "malformed", "oversized"}

(***************************************************************************)
(* What one signature covers: the position of the operation (sponsor,      *)
(* batch, index, dispatcher) and its payload.                              *)
(***************************************************************************)
Authorization ==
  [sponsor: Sponsors, batch: BatchIds, index: Nat, dispatcher: Dispatchers, op: Ops]

ASSUME ConstantsAssumption ==
  /\ WalletOf \in [Ops -> Wallets]
  /\ UnitsOf \in [Ops -> Nat]
  /\ ValueOf \in [Ops -> Nat]
  /\ DeadlineOf \in [Ops -> Nat]
  /\ ShapeOf \in [Ops -> Shapes]
  /\ \A op \in Ops : ShapeOf[op] = "ok" => UnitsOf[op] > 0
  /\ Signed \subseteq Authorization
  /\ InitialEther \in Nat
  /\ MaxBatch \in 1..25
  /\ MaxDepth \in Nat /\ MaxSupply \in Nat /\ MaxDonation \in Nat /\ MaxTime \in Nat
  /\ NoDelegate \notin Dispatchers

VARIABLES
  world,     \* everything a revert undoes
  stack,     \* the call frames of the transaction in progress
  ret,       \* what the frame just popped returned to the one below
  delegate,  \* the dispatcher each wallet's EIP-7702 designator names
  now        \* block.timestamp

vars == <<world, stack, ret, delegate, now>>

BatchKey == Dispatchers \X Sponsors \X BatchIds
NoKey == <<>>

ClearContext == [active |-> FALSE, expected |-> 0, forwarded |-> 0]

(***************************************************************************)
(* used, held, delivered, ether and runs persist; guard, seen and ctx are  *)
(* transient storage and vanish with the transaction.  held and delivered  *)
(* count units of the signed NFT contract: those a wallet owns, and those  *)
(* it has forwarded to the signed recipient.  runs counts the successful   *)
(* WalletExecution events of each authorization.                           *)
(***************************************************************************)
GenesisWorld ==
  [used      |-> {},
   guard     |-> {},
   seen      |-> [d \in Dispatchers |-> [w \in Wallets |-> NoKey]],
   ctx       |-> [w \in Wallets |-> ClearContext],
   held      |-> [w \in Wallets |-> 0],
   delivered |-> [w \in Wallets |-> 0],
   ether     |-> [w \in Wallets |-> InitialEther],
   donated   |-> [w \in Wallets |-> 0],
   minted    |-> 0,
   runs      |-> [a \in Signed |-> 0]]

ClearTransient(wld) ==
  [wld EXCEPT !.guard = {},
              !.seen  = [d \in Dispatchers |-> [w \in Wallets |-> NoKey]],
              !.ctx   = [w \in Wallets |-> ClearContext]]

ExternalFrame(wld) == [kind |-> "external", saved |-> wld]
CallbackFrame(wld, w) == [kind |-> "callback", saved |-> wld, wallet |-> w]
MintFrame(wld, w, op) == [kind |-> "mint", saved |-> wld, wallet |-> w, op |-> op]
BatchFrame(wld, d, s, b, ops) ==
  [kind |-> "batch", saved |-> wld, dispatcher |-> d, sponsor |-> s, batch |-> b,
   ops |-> ops, next |-> 1]

Top == stack[Len(stack)]
Below == SubSeq(stack, 1, Len(stack) - 1)
Running(kind) == stack # <<>> /\ Top.kind = kind

(* A frame that reverts gives the world back as it found it.               *)
RevertTop ==
  /\ world' = Top.saved
  /\ stack' = Below
  /\ ret' = "fail"

KeySwapped(f) == <<f.sponsor, f.dispatcher, f.batch>>
Key(f) == <<f.dispatcher, f.sponsor, f.batch>>

(***************************************************************************)
(* The batch frame's current entry, at the zero-based index the signature  *)
(* is bound to.                                                            *)
(***************************************************************************)
Entry(f) == f.ops[f.next]
EntryWallet(f) == WalletOf[Entry(f)]
EntryDigest(f) ==
  [sponsor |-> f.sponsor, batch |-> f.batch, index |-> f.next - 1,
   dispatcher |-> f.dispatcher, op |-> Entry(f)]

-----------------------------------------------------------------------------
Reusable(d, s, b) == TRUE
BatchUnused(d, s, b) == <<d, s, b>> \notin world.used

Unguarded(d) == TRUE
NotReentered(d) == d \notin world.guard

(* executeBatch: the checks, the replay mark and the guard.                *)
ExecuteBatch(d, s, b, ops) ==
  /\ Running("external")
  /\ Len(stack) < MaxDepth
  /\ BatchUnused(d, s, b)
  /\ NotReentered(d)
  /\ world' = [world EXCEPT !.used = @ \cup {<<d, s, b>>}, !.guard = @ \cup {d}]
  /\ stack' = Append(stack, BatchFrame(world, d, s, b, ops))
  /\ ret' = "none"
  /\ UNCHANGED <<delegate, now>>

AtEntry == Running("batch") /\ ret = "none" /\ Top.next <= Len(Top.ops)

NextEntry == stack' = [stack EXCEPT ![Len(stack)].next = @ + 1]

MarkSeen == [world EXCEPT !.seen[Top.dispatcher][EntryWallet(Top)] = Key(Top)]

InvalidDelegation(f) == delegate[EntryWallet(f)] # f.dispatcher
DuplicateWallet(f) == world.seen[f.dispatcher][EntryWallet(f)] = Key(f)

(* Entries the loop refuses before it marks the wallet as seen.            *)
RefuseEntry ==
  /\ AtEntry
  /\ InvalidDelegation(Top) \/ DuplicateWallet(Top)
  /\ NextEntry
  /\ UNCHANGED <<world, ret, delegate, now>>

(***************************************************************************)
(* executeSponsoredMint's checks, in the order that decides nothing but    *)
(* the error selector.  The wallet runs the dispatcher's code and is       *)
(* called by it, so the context checks hold whenever the loop calls.       *)
(***************************************************************************)
MintAllowed(f) ==
  LET op == Entry(f)
      w  == EntryWallet(f)
  IN /\ ShapeOf[op] = "ok"
     /\ now <= DeadlineOf[op]
     /\ EntryDigest(f) \in Signed
     /\ ~world.ctx[w].active
     /\ world.ether[w] >= ValueOf[op]

(***************************************************************************)
(* Entries marked as seen that fail without reaching the mint target:      *)
(* oversized calldata, too little gas to forward the wallet's limit (any   *)
(* entry may meet that), or a check of executeSponsoredMint.               *)
(***************************************************************************)
FailEntry ==
  /\ AtEntry
  /\ ~InvalidDelegation(Top) /\ ~DuplicateWallet(Top)
  /\ world' = MarkSeen
  /\ NextEntry
  /\ UNCHANGED <<ret, delegate, now>>

(***************************************************************************)
(* The wallet call: the mint context is armed, the mint value leaves the   *)
(* wallet and the mint target runs.                                        *)
(***************************************************************************)
OpenContext(wld, w, op) ==
  [wld EXCEPT !.ctx[w] = [active |-> TRUE, expected |-> UnitsOf[op], forwarded |-> 0]]

PayMintValue(wld, w, op) == [wld EXCEPT !.ether[w] = @ - ValueOf[op]]

CallWallet ==
  /\ AtEntry
  /\ Len(stack) + 1 < MaxDepth
  /\ ~InvalidDelegation(Top) /\ ~DuplicateWallet(Top)
  /\ MintAllowed(Top)
  /\ LET op     == Entry(Top)
         w      == EntryWallet(Top)
         opened == OpenContext(MarkSeen, w, op)
     IN /\ world' = PayMintValue(opened, w, op)
        /\ stack' = Append(Append(stack, MintFrame(MarkSeen, w, op)), ExternalFrame(opened))
  /\ ret' = "none"
  /\ UNCHANGED <<delegate, now>>

(***************************************************************************)
(* The rest of executeSponsoredMint once the mint target has returned: the *)
(* wallet must have paid exactly the mint value and forwarded exactly the  *)
(* expected units, or the whole wallet call is undone.                     *)
(***************************************************************************)
UnitsIgnored(f) == world.ether[f.wallet] = f.saved.ether[f.wallet] - ValueOf[f.op]
MintResultMatches(f) ==
  /\ world.ether[f.wallet] = f.saved.ether[f.wallet] - ValueOf[f.op]
  /\ world.ctx[f.wallet].forwarded = UnitsOf[f.op]

ClearMintContext(wld, w) == [wld EXCEPT !.ctx[w] = ClearContext]

FinishMint ==
  /\ Running("mint")
  /\ ret = "ok" /\ MintResultMatches(Top)
  /\ world' = ClearMintContext(world, Top.wallet)
  /\ stack' = Below
  /\ ret' = "ok"
  /\ UNCHANGED <<delegate, now>>

RevertMint ==
  /\ Running("mint")
  /\ ret = "fail" \/ ~MintResultMatches(Top)
  /\ RevertTop
  /\ UNCHANGED <<delegate, now>>

(* The event of the entry whose wallet call has just ended.                *)
EmitWalletExecution ==
  /\ Running("batch") /\ ret # "none"
  /\ world' = IF ret = "ok" THEN [world EXCEPT !.runs[EntryDigest(Top)] = @ + 1] ELSE world
  /\ NextEntry
  /\ ret' = "none"
  /\ UNCHANGED <<delegate, now>>

FinishBatch ==
  /\ Running("batch") /\ ret = "none"
  /\ Top.next > Len(Top.ops)
  /\ world' = [world EXCEPT !.guard = @ \ {Top.dispatcher}]
  /\ stack' = Below
  /\ UNCHANGED <<ret, delegate, now>>

(* executeBatch itself can run out of gas, between any two of its steps.   *)
BatchOutOfGas ==
  /\ Running("batch") /\ ret = "none"
  /\ world' = Top.saved
  /\ stack' = Below
  /\ UNCHANGED <<ret, delegate, now>>

-----------------------------------------------------------------------------
(* The token receivers of a delegated wallet.                              *)

(***************************************************************************)
(* What _validateTokenCallback and the unit count accept while a mint is   *)
(* open: units minted (from = 0) by the signed NFT contract, and no more   *)
(* of them in total than were signed.                                      *)
(***************************************************************************)
AnyTokenAccepted(ctx, isNft, isMint, units) ==
  isMint /\ ctx.forwarded + units <= ctx.expected

CallbackAccepted(ctx, isNft, isMint, units) ==
  /\ isNft /\ isMint
  /\ ctx.forwarded + units <= ctx.expected

(***************************************************************************)
(* Units reach a wallet and nothing is forwarded: a safe mint or transfer  *)
(* while no mint is open (_acceptPassiveTokenReceipt: the wallet just      *)
(* keeps them), or, at any time, a mint that makes no callback.            *)
(***************************************************************************)
KeepReceipt(w, units) ==
  /\ Running("external")
  /\ world.minted + units <= MaxSupply
  /\ world' = [world EXCEPT !.held[w] = @ + units, !.minted = @ + units]
  /\ UNCHANGED <<stack, ret, delegate, now>>

(* Units of another token contract are nothing the wallet's count is about.*)
Credit(wld, w, isNft, units) ==
  IF isNft THEN [wld EXCEPT !.held[w] = @ + units, !.minted = @ + units] ELSE wld

Forward(wld, w, isNft, units) ==
  IF isNft THEN [wld EXCEPT !.held[w] = @ - units, !.delivered[w] = @ + units] ELSE wld

(***************************************************************************)
(* A token contract has credited a wallet with an open mint and calls its  *)
(* receiver, which counts the units and forwards them: safeTransferFrom    *)
(* credits the recipient and then runs the recipient's hook.               *)
(***************************************************************************)
ForwardReceipt(w, isNft, isMint, units) ==
  /\ Running("external")
  /\ Len(stack) + 1 < MaxDepth
  /\ world.ctx[w].active
  /\ CallbackAccepted(world.ctx[w], isNft, isMint, units)
  /\ world.minted + units <= MaxSupply
  /\ LET counted == [Credit(world, w, isNft, units) EXCEPT !.ctx[w].forwarded = @ + units]
     IN /\ world' = Forward(counted, w, isNft, units)
        /\ stack' = Append(Append(stack, CallbackFrame(world, w)), ExternalFrame(counted))
  /\ ret' = "none"
  /\ UNCHANGED <<delegate, now>>

(* The receiver returns its magic value, or reverts with the forward.      *)
FinishCallback ==
  /\ Running("callback") /\ ret = "ok"
  /\ stack' = Below
  /\ ret' = "none"
  /\ UNCHANGED <<world, delegate, now>>

RevertCallback ==
  /\ Running("callback") /\ ret = "fail"
  /\ world' = Top.saved
  /\ stack' = Below
  /\ ret' = "none"
  /\ UNCHANGED <<delegate, now>>

-----------------------------------------------------------------------------
(* The rest of what external code can do.                                  *)

(***************************************************************************)
(* receive() and fallback() of a delegated wallet accept ether.  What      *)
(* comes while the wallet's mint is open is a refund, not a donation.      *)
(***************************************************************************)
SendEther(w, amount) ==
  /\ Running("external")
  /\ world.ether[w] + amount <= InitialEther + MaxDonation
  /\ world' = [world EXCEPT !.ether[w] = @ + amount,
                            !.donated[w] = IF world.ctx[w].active THEN @ ELSE @ + amount]
  /\ UNCHANGED <<stack, ret, delegate, now>>

(* The last frame to return ends the transaction.                          *)
ExternalReturn ==
  /\ Running("external")
  /\ world' = IF Below = <<>> THEN ClearTransient(world) ELSE world
  /\ stack' = Below
  /\ ret' = IF Below = <<>> THEN "none" ELSE "ok"
  /\ UNCHANGED <<delegate, now>>

ExternalRevert ==
  /\ Running("external")
  /\ world' = Top.saved
  /\ stack' = Below
  /\ ret' = IF Below = <<>> THEN "none" ELSE "fail"
  /\ UNCHANGED <<delegate, now>>

BeginTransaction ==
  /\ stack = <<>>
  /\ stack' = <<ExternalFrame(world)>>
  /\ UNCHANGED <<world, ret, delegate, now>>

(***************************************************************************)
(* Between transactions time passes and a wallet may install, change or    *)
(* clear its delegation.  An EIP-7702 transaction processes its            *)
(* authorizations before it executes and keeps them if it reverts.         *)
(***************************************************************************)
Delegate(w, d) ==
  /\ stack = <<>>
  /\ delegate' = [delegate EXCEPT ![w] = d]
  /\ UNCHANGED <<world, stack, ret, now>>

Tick ==
  /\ stack = <<>>
  /\ now < MaxTime
  /\ now' = now + 1
  /\ UNCHANGED <<world, stack, ret, delegate>>

Batches == UNION {[1..n -> Ops] : n \in 1..MaxBatch}

Init ==
  /\ world = GenesisWorld
  /\ stack = <<>>
  /\ ret = "none"
  /\ delegate = [w \in Wallets |-> NoDelegate]
  /\ now = 0

Contract ==
  \/ \E d \in Dispatchers, s \in Sponsors, b \in BatchIds, ops \in Batches :
       ExecuteBatch(d, s, b, ops)
  \/ RefuseEntry
  \/ FailEntry
  \/ CallWallet
  \/ FinishMint
  \/ RevertMint
  \/ EmitWalletExecution
  \/ FinishBatch
  \/ BatchOutOfGas
  \/ \E w \in Wallets, isNft, isMint \in BOOLEAN, units \in 1..MaxSupply :
       ForwardReceipt(w, isNft, isMint, units)
  \/ FinishCallback
  \/ RevertCallback

Environment ==
  \/ \E w \in Wallets, units \in 1..MaxSupply : KeepReceipt(w, units)
  \/ \E w \in Wallets, amount \in 1..MaxDonation : SendEther(w, amount)
  \/ ExternalReturn
  \/ ExternalRevert
  \/ BeginTransaction
  \/ \E w \in Wallets, d \in Dispatchers \cup {NoDelegate} : Delegate(w, d)
  \/ Tick

Next == Contract \/ Environment

Spec == Init /\ [][Next]_vars

-----------------------------------------------------------------------------
World ==
  [used: SUBSET BatchKey,
   guard: SUBSET Dispatchers,
   seen: [Dispatchers -> [Wallets -> BatchKey \cup {NoKey}]],
   ctx: [Wallets -> [active: BOOLEAN, expected: Nat, forwarded: Nat]],
   held: [Wallets -> Int],
   delivered: [Wallets -> Nat],
   ether: [Wallets -> Int],
   donated: [Wallets -> Nat],
   minted: Nat,
   runs: [Signed -> Nat]]

Frame ==
  [kind: {"external"}, saved: World]
    \cup [kind: {"callback"}, saved: World, wallet: Wallets]
    \cup [kind: {"mint"}, saved: World, wallet: Wallets, op: Ops]
    \cup [kind: {"batch"}, saved: World, dispatcher: Dispatchers, sponsor: Sponsors,
          batch: BatchIds, ops: Seq(Ops), next: Nat \ {0}]

(***************************************************************************)
(* Type correctness: the shape of the storage, of every snapshot and of    *)
(* every frame (the mappings and transient slots of the contract).         *)
(***************************************************************************)
TypeOK ==
  /\ world \in World
  /\ stack \in Seq(Frame)
  /\ ret \in {"none", "ok", "fail"}
  /\ delegate \in [Wallets -> Dispatchers \cup {NoDelegate}]
  /\ now \in 0..MaxTime

KeyOf(a) == <<a.dispatcher, a.sponsor, a.batch>>
Counted(a) == world.runs[a] > 0
AuthorizedBy(w) == {a \in Signed : WalletOf[a.op] = w}

(***************************************************************************)
(* No replay: a signature yields at most one successful WalletExecution,   *)
(* whatever batches, reentrant calls, reverted transactions and changes of *)
(* delegation come after it (_usedBatches with the digest's position).     *)
(***************************************************************************)
ReplayOnce == \A a \in Signed : world.runs[a] <= 1

(***************************************************************************)
(* Within one batch a wallet succeeds at most once, even when it signed    *)
(* several of its entries and a mint target reenters executeBatch          *)
(* (_seenWalletSlot holds the batch's own marker; _BATCH_GUARD_SLOT).      *)
(***************************************************************************)
OneSuccessPerWallet ==
  \A a, b \in Signed :
    a # b /\ KeyOf(a) = KeyOf(b) /\ WalletOf[a.op] = WalletOf[b.op]
      => ~(Counted(a) /\ Counted(b))

(***************************************************************************)
(* While a mint is open, what its context counts as forwarded is what the  *)
(* wallet has really handed over since it opened, except inside a receiver *)
(* whose forward has just failed and is about to be undone.                *)
(***************************************************************************)
ForwardedIsDelivered ==
  \A i \in 1..Len(stack) :
    stack[i].kind = "mint" /\ ~Running("callback") =>
      LET f == stack[i]
      IN world.delivered[f.wallet] - f.saved.delivered[f.wallet]
           = world.ctx[f.wallet].forwarded

-----------------------------------------------------------------------------
(***************************************************************************)
(* The abstract specification, seen at transaction boundaries: while a     *)
(* transaction runs, the chain's state is still the one it started from.   *)
(***************************************************************************)
Committed == IF stack = <<>> THEN world ELSE stack[1].saved

Promise == INSTANCE SponsoredMintPromise WITH
  settled   <- {a \in Signed : Committed.runs[a] > 0},
  consumed  <- Committed.used,
  delivered <- Committed.delivered,
  paid      <- [w \in Wallets |-> InitialEther + Committed.donated[w] - Committed.ether[w]]

(***************************************************************************)
(* The contract implements the promise: every transaction, however it      *)
(* reenters, fails or reverts, either changes nothing or settles a set of  *)
(* fresh authorizations of batches nobody used before, all at once.        *)
(***************************************************************************)
KeepsPromise == Promise!Spec
=============================================================================
