# Drizzy in TLA+

Drizzy mints NFTs on EVM chains: a CLI that arms one wallet or many for an
OpenSea drop, a Telegram bot around it, and a Solidity executor through which
one sponsor pays the gas of a whole batch of wallets (EIP-7702). This directory
models the parts of it whose correctness depends on order, failure and retry,
checks them with TLC, and proves theorems about them with TLAPS. Paths below are
relative to the repository.

    tlc -workers 2 -config MCExecutor.cfg MCExecutor.tla
    tlapm SponsoredMintExecutorProofs.tla

Every `*Proofs` module is checked by `tlapm` the same way.

## 1. Inventory

| part | code | state it keeps | operations | what is hard |
| --- | --- | --- | --- | --- |
| Sponsored mint executor | `contracts/src/SponsoredMintExecutor.sol` | per wallet: used (executor, batch) pairs, nonces, the context of an open mint; transient reentrancy guard | `executeBatch`, `executeSponsoredMint`, the ERC-721/1155 receivers, batch and result checks | calls to token contracts and recipients that call back in at any depth; partial failure of one wallet in a batch; replay under a rotated delegation |
| Single-wallet session | `src/command.rs` | a state per phase job, the phases last read, nonce and fees of the launch, the hashes already sent | `run_schedule`, `refresh_job_states`, `execute_mint`, `submit_replacements`, `apply_job_outcome` | phases that move, a node that lags or answers wrongly, sends that fail after arriving, receipts that race the replacement timer |
| Wallet manifest on disk | `src/wallet_generator.rs`, `src/manifest_crypto.rs`, `src/multi_wallet.rs` | `<chat>.json`, sealed or plain; a temporary file | create, recover, expand, import, seal, migrate at startup, load | crash or full disk between two file operations; readers in the background; changed passphrase |
| Telegram bot | `src/bot.rs` | per chat: wizard, three pending questions, count of active snipes | commands, buttons, text, uploads, background snipes and sweeps | buttons that stay in the chat forever, questions nobody withdraws, restarts |
| Multi-wallet mint | `src/multi_mint.rs` | a session per wallet, nonces and fees, delegation state | self-funded wallets in parallel, one sponsored batch, forwarding, undelegation | n replacement loops at once, one sponsor nonce, EIP-7702 authorisation nonces, deadlines |
| Pre-signed snipe | `src/snipe.rs`, `src/blast.rs` | transactions signed before the phase opens | sign, wait, blast to every endpoint, wait for receipts | stale nonces and fees at T-0, endpoints that answer differently |
| Sponsored snipe | `src/sponsored_snipe.rs`, `src/sponsored.rs` | a signed batch with its deadline | the sponsored batch, pre-signed | a deadline fixed when the batch is armed; gas for n wallets |
| Funding, withdrawing, sweeping | `src/funds.rs`, `src/sweep.rs` | the sender's nonce, the outcome of each transfer | fund directly or by multicall, withdraw, sweep | retry after an uncertain send, exact balances |
| Fees, gas and value arithmetic | `src/domain/fees.rs`, `src/fee.rs`, `src/sponsored.rs` | none | initial and replacement fees, spend limits, batch gas | rounding, overflow, the bump a node demands |
| Phase timing | `src/domain/timing.rs` | none | classify a phase, sleep until a wake time | clock and block time disagree |
| Chain gateway | `src/chain.rs` | RPC endpoints | reads, sends, receipt polling | lag, timeouts, partial answers |
| OpenSea client | `src/opensea.rs` | rate limit state | drops, eligibility, calldata with retries | recoverable against fatal errors |
| Calldata checks | `src/seadrop.rs`, `src/nft.rs`, `src/transaction.rs` | none | decode and verify mint actions, sign | byte-level formats |
| Assistant | `src/assistant.rs` | none | text to proposal | model output |
| Configuration, terminal, logging, executor deployment | `src/config.rs`, `src/terminal.rs`, `src/logging.rs`, `src/executor_deployment.rs` | none | parse, prompt, print, deploy once | — |

How they interact. The CLI runs a session or a multi-wallet mint; the bot fires
snipes and sweeps as background tasks that read the chat's manifest and report
back over a channel. Everything that reaches a chain goes through the gateway
and the wallet's nonce, which is the only thing that orders two transactions of
one wallet. The sponsored modes sign EIP-712 batches and EIP-7702
authorisations for the executor, which runs inside each delegated wallet.

What makes each part correct:

* executor: a delegated wallet pays for and receives what its signed batch
  says or nothing at all; a batch takes effect once; a context never outlives
  the mint it was opened for.
* session: a phase is paid for once whatever the RPC does; what is reported is
  what the chain did; a launch always ends.
* manifest: a funded wallet's key is never lost; with a passphrase nothing
  stays in plaintext.
* bot: nothing is fired that the user did not confirm; no update removes a
  wallet; a question is answered by the text meant for it.
* multi-wallet, snipe: one accepted mint per wallet and phase, one true outcome
  per wallet, a failing wallet never blocks another, the cap is never exceeded.
* sponsored batch: an authorization is the one the chain wants, what was revoked
  stays revoked, every wallet's call gets the gas the wallet signed.
* funds: no recipient is paid twice, no balance is overdrawn, what is reported is
  what the blocks say.
* OpenSea client: nothing is asked on behalf of another account, and nothing is
  signed but the mint that was chosen, at the price that was told.
* arithmetic: the amount checked before the first attempt covers every attempt.

The hazards this comes down to are listed with their lines in `PROJECT.json`.

## 2. Modules

| module | models | against |
| --- | --- | --- |
| `SponsoredMintPromise` | what the executor promises a wallet, in one atomic step | abstract specification |
| `SponsoredMintExecutor` | the executor contract, its call stack and the world it calls into | refines the promise |
| `SponsoredMintExecutorProofs` | `TypeCorrect`, `NoReplay`, `OncePerWallet`, `CountIsDelivered`, `ExecutorKeepsPromise` | TLAPS |
| `SponsoredGas` | the gas limit of a sponsored batch and the dispatcher that spends it | opens up the "too little gas" of `SponsoredMintExecutor` |
| `SponsoredBatch` | phase, snipe and revocation as the sponsor's client runs them, with EIP-7702 nonces | takes a batch on chain as one step, as the promise allows |
| `SponsoredBatchProofs` | `AuthorizationsTakeEffect`, `UserIsToldTheTruth`, `OthersStayClear`, `RevocationHolds` | TLAPS |
| `MintSession` | scheduling, launching and replacing of one wallet, with pool and chain | takes OpenSea's answers as input |
| `MultiMint` | the phases of a self-funded batch, one worker per wallet | takes OpenSea's answers as input |
| `MultiMintProofs` | `PaidOncePerPhase`, `CompletedMeansForwarded`, `TransfersStayFunded` | TLAPS |
| `MintAction` | what of OpenSea's answers is accepted | operators, used by `OpenSeaSession` |
| `OpenSeaSession` | sign-in, eligibility, refresh and launch of one client | what `MintSession` and `MultiMint` take as input |
| `MintSessionProofs` | of `MintSession`: `SessionTypeCorrect`, `PhaseMintedAtMostOnce`, `SuspendedWasNeverSent`, `SessionReportsChain`; of `OpenSeaSession`: `SignedAsAsked`, `OneStageIsChosen`, `EligibilityIsTheWallets` | TLAPS |
| `FeeLadder` | fees of one transaction and its replacements, the funding gates and the chain's base fee | stands beside `MintSession`, which leaves fees out |
| `FeesAndGasProofs` | of `FeeLadder`: `LadderTypeCorrect`, `Funded`, `Unstranded`, `KeepsPace`; of `SponsoredGas`: `TypesHold`, `GasReachesEveryWallet`, `ReserveStays`, `EstimatesAreBounds` | TLAPS |
| `AccountChain` | accounts, pool, blocks, and what a lagging node answers | external; used by the next two |
| `PublicSnipe` | pre-signed snipes and sweeps of one chat, side by side | composes `snipe.rs`, `blast.rs` and `sweep.rs` over one chain |
| `NativeFunds` | `--fund` and `--withdraw` | over `AccountChain` |
| `AccountChainProofs` | of `PublicSnipe`: `CapBoundsSpending`, `ReceiptsAreOwn`; of `NativeFunds`: `PaidAtMostOnce`, `SummariesAreTrue`, `AttemptsArePaid` | TLAPS |
| `FiniteSums` | lemmas about sums over finite sets | used by the proofs of the promise and of the chain |
| `ManifestStore` | the manifest file, operation by operation | — |
| `ChatBot` | the dialogue of one chat | takes writes as atomic; `ManifestStore` opens them up |
| `BotLimits` | the largest manifest and the recovery counts | constants of the two above |
| `BotProofs` | of `ManifestStore`: `StoreTypeCorrect`, `ShownKeysStay`, `SealedWhenServed`; of `ChatBot`: `BotTypeCorrect`, `ArmedWasConfirmed`, `NoWalletIsLost` | TLAPS |
| `MC*` | the instances | — |

Modules whose theorems stand in one proof module share no names: a component's
initial states, steps and specification are `Init`, `Next` and `Spec`, or
`GasInit`, `StoreInit`, `FundsInit`, `OpenSeaInit` and so on.

### SponsoredMintExecutor

`stack` is the EVM call stack: one frame per open call of
`executeBatch`, `executeSponsoredMint`, of a token contract (`"external"`) and of a receiver.
`world` holds what a revert undoes (balances, holdings, used batches, open
contexts); each frame keeps the snapshot it reverts to, so a failing wallet mint
undoes its own effects and its batch goes on. While an external frame is on
top, anything a contract may do is enabled: minting to wallets, calling the
receivers, re-entering `executeBatch` or `executeSponsoredMint`, donating value,
reverting. Signatures are abstracted to the set `Signed` of batches that were
really signed, digests and keys to the tuples they are computed from. The
executor may be deployed at several addresses (`Dispatchers`) and a wallet may
re-delegate between transactions (EIP-7702).

The one assumption on the environment is that wallets send no transactions of
their own while delegated: the promise counts mints and donations only.

### MintSession

`pc` follows `run_schedule` (`schedule`), `prepare_single_wallet_launch`
(`prepare`), the calldata hot path (`hot`) and `submit_replacements` (`submit`,
`await`). The three error classes of `apply_job_outcome` are the sets of error
names in `MustStopSession` and the results `completed`, `failed`, `suspended`.
OpenSea's phases may move or vanish at any time (`served` against `snapshot`),
the node may lag (`NodeLag`, `NonceReads`), a send may fail after the transaction
arrived (`BroadcastFails`), pools forget, and the owner may spend nonces of the
same wallet elsewhere (`ForeignTransaction`).

Fairness is `WF(Session)` and `WF(Tick)`. The code justifies the first by
construction: every await is bounded by a timeout (`REQUEST_TIMEOUT`, the pending
timeout of a receipt) or by a retry limit, so the session always takes some step;
nothing is assumed of the chain or of OpenSea. One of the two windows therefore
ends beyond the bound of the clock, where only the attempts limit can end a launch.

### ManifestStore

`pc` is the next file operation of the handler under way. `write_manifest_at` is
open (create-new or truncate), fill, sync; `manifest_crypto::write_manifest` is
open temporary, fill, rename. `Crash` is possible between any two, and each may
fail. A file is the set of wallets whose keys it holds, the passphrases it is
sealed under, and whether it is complete. `shown` are the wallets the chat has
seen and so may have funded. `expansionCut` and `sealFailed` remember the two
failures the code does not recover from, so that the passing run can say nothing
else goes wrong; `manifest_expansion_cut` shows that the first does.

Out of the model: power loss that undoes unsynced writes, and two processes in
one directory during a rolling redeploy.

### ChatBot

One action per handler; `run_bot` awaits each handler before the next update, so
handlers do not interleave, and a background snipe touches only `active`. Any
button that was ever displayed may be pressed at any time, also after a restart.
`last` remembers the handler of the last update and the wizard before it, for
the properties that talk about one step. Texts are six kinds plus numbers. A reply's
wording, the quantity and the gas settings are left out.

### FeeLadder

The arithmetic of `domain/fees.rs` and `fee.rs` with its checks (`MaxWord` stands
for the largest U256), used the way `execute_mint` (flow `"mint"`) and
`deploy_executor` (flow `"deploy"`) use it. Each funding gate climbs the ladder of
replacement fees to its top, `ladder`, one turn of the loop of
`maximum_transaction_fees` at a time, and compares the top with the balance; the
attempts later climb the same fees again, one rung per receipt timeout, and
`sent` remembers what each offered and the base fee it met. A mint's second gate
uses the balance and estimate of the one snapshot with the value its calldata
brought; a deployment takes a second snapshot after it was confirmed. Blocks are
external: each moves the base fee by at most an eighth (EIP-1559). The balance
does not change behind the snapshot in this module.

### MultiMint

`pc` follows `run_self_funded`: `sessions`, `setup`, `confirm`, `wake`,
`candidates`, `hot`, `work`, then `Join` and the next selected phase. `work` holds
one worker per wallet (`execute_self_funded_wallet` with
`submit_eip1559_with_replacements`): send, await, replace, and after the mint one
transfer per token with a fresh nonce and a fresh fee estimate. OpenSea may serve
another window at every read, name another price with the calldata, and find other
wallets eligible at every question; nodes lag, sends fail after arriving, the owner
may spend the balance elsewhere. A gas limit is one unit, so that a transaction
costs its fee and its value; how fees grow is `FeeLadder`'s subject and here one
unit per attempt.

Fairness is `WF` of each worker and of the join: a worker is a task of its own and
each of its awaits has a timeout, and the join awaits them all. Nothing is assumed
of the preparation of a phase, which waits for the user.

### SponsoredBatch

Jobs of three kinds run at the same time over the same wallets, one sponsor and
one chain: a phase of the CLI (`run_sponsored`), a sponsored snipe of the bot
(`run_sponsored_snipe`), a revocation (`undelegate_chunk`). A job's record holds
its step and what it read and signed. `Include` is what EIP-7702 does: the sender's
nonce is raised first, then each authorization that still fits takes effect and
stays whatever the execution does, then each wallet's operation succeeds or not,
as `SponsoredMintPromise` allows. `Seen` stamps each read with what was known then,
so that a property can tell a stale authorization from a wrong one. Funding
prompts, RPC errors, refused simulations and time-outs end a job at the steps where
the code has them (`Unsupported`, `Underfunded`, `Fails`). No liveness: the funding
prompts wait for the user.

### SponsoredGas

The three estimates of `sponsored.rs` (at setup, provisional, final) are summed
side by side, one operation per step, with the constants of the code; then the
dispatcher's loop of `executeBatch` spends the limit, keeping `spent` within
the reserves (`WithinReserves`) and checking `_canForwardExactGas` before each
wallet. `WithinReserves` is the one assumption: that the opcodes of the loop cost
no more than the reserve added for them. It is not derived here, and no test of the
repository measures it.

### AccountChain, PublicSnipe, NativeFunds

`AccountChain` is the chain both use: accounts with nonce and balance, a pool,
blocks, and `Views`, what `eth_getTransactionCount` and `eth_getBalance` at
`pending` may answer: any part of the pooled transactions may already be counted.

`PublicSnipe` runs any number of snipes and sweeps of one chat at once, as
`bot.rs` spawns them. A snipe plans, reads its accounts in parallel, checks cap and
balances, signs, waits, sends each wallet's transaction to every endpoint (`flight`,
one answer per endpoint and wallet in any order), and reads receipts wallet by
wallet; what an endpoint returns is reduced to the best answer seen (`got`). A sweep
takes the wallets one by one and waits for no receipt. Fairness is `WF` of each
job's steps (request timeouts and a receipt deadline) and of the clock reaching the
stage.

`NativeFunds` is one `--fund` or `--withdraw`, `doing` the step it is at, `summary`
what it tells of each wallet: quotes, confirmation, then per transfer a fresh snapshot and up to three attempts under one nonce; `bumps` counts
the replacements, which alone raise the fee, against `attempt`, which a rate-limited
send uses up too. Fairness is `WF(Program)`, with the user answering the question.
Two things are assumed: a request answered with "too many requests" was not taken,
and the code of an account, which the program checks, is a check that may fail at
any time.

### MintAction, OpenSeaSession

`MintAction` has the decisions of `opensea.rs` on data as operators: which stage
lists are accepted, which stage a phase and a token select, what a wallet may still
mint, which offered transaction is accepted. `OpenSeaSession` is the client around
them: `request` is the request it is about to make, `why` whether it starts, refreshes
or launches, `account` whose session OpenSea holds, which OpenSea may forget at any
time. `SignInFails`, `Retries`, `HotRetries` are the retry loops; `FailsWith` is what
`command.rs` makes of an error at start, in a refresh and in a launch. Command
`"batch"` is the hot path of `multi_mint.rs`, where one request through the
first wallet's client brings the transactions of all. Fairness is `WF(Client)`:
every request has a timeout and every loop a bound.

## 3. Runs

| run | question | result |
| --- | --- | --- |
| `executor` | two wallets in a batch, two deployments, rotated delegations, tokens that mint too few, refund, re-enter or send other tokens: does every wallet get exactly what it signed, once, and does the executor refine the promise? | holds |
| `session` | two phases, two attempts, lagging node, moving phases, foreign transactions: paid once, reported truly, and does every launch end? | holds |
| `multi_mint` | two wallets, one of them the recipient, two phases: paid once, delivered as reported, funded to the last transfer, and does every batch end? | holds |
| `sponsored_batch` | any two of phase, snipe and revocation at once: do authorizations apply, are reports true, does a revocation stay? | holds |
| `sponsored_gas` | wallet limits about a multiple of 63, extreme payloads, a dispatcher that spends its reserves anywhere: does every wallet get its gas, does each estimate bound the next? | holds |
| `public_snipe` | a snipe next to a second snipe or a sweep of the same wallets: is the cap kept, the report true, does every job end? | holds |
| `native_funds` | funding and withdrawing with replacements and lost answers: is anyone paid twice or told a wrong amount, is every attempt affordable? | holds |
| `opensea` | every answer that differs from the right one in a field, every loss and every forgotten session: what may be signed, on whose behalf, does it end? | holds |
| `fee_ladder` | does the gate pay for every replacement, can a replacement overflow after a broadcast, do replacements keep up with the base fee? | holds |
| `manifest_store` | crash or failure at every file operation | holds |
| `manifest_expansion_cut` | does an expansion never touch the funded wallets? | violated |
| `bot_chat` | every order of updates in one chat | holds |

The violation is described under `findings` in `PROJECT.json`:
`expand_wallet_manifest` truncates the live file before it writes it.

### Disagreements that have no run

The following are visible in the definitions; each contradicts a comment or a
document and would be a short run of its own.

* An import that cannot be sealed stays in plaintext and in use (`bot.rs:1266`
  against the comment at 1261); in `ManifestStore` the flag `sealFailed` is why
  `PlainOnlyAfterFailedSeal` has its condition.
* The FIRE button of an old preview fires whatever is staged now (`bot.rs:1390`;
  the README of the repository, line 490, has the wizard end in a confirmation). `ChatBot`
  therefore promises that what fires is complete (`ArmedIsComplete`), not that it
  was shown.
* `/cancel` leaves the wallet-count question pending that offers `/cancel`
  (`bot.rs:596` against 810).
* A typed text goes to a pending question before the running wizard (`bot.rs:630`).
* The fee buffer grows per attempt, the base fee per block, and many blocks fit into
  one receipt timeout (`fees.rs:58` against the comment at 11): `ReplacementsKeepPace`
  is about at most one block between two attempts. A priority fee of zero stays zero
  in every replacement (`fees.rs:48`).
* A sponsored snipe counts its deadline from arming (`sponsored_snipe.rs:274`),
  though it may wait for hours; the operations it fires then are expired. `Expire`
  models it.
* Send-only endpoints are dropped by the probe (`snipe.rs:470`) although the comments
  at 83 and 436 keep them for the blast: `Answering`.
* A refresh that is deferred after a failed re-login finds the client signed out, and
  the next one ends the session as not recoverable (`opensea.rs:425`,
  `command.rs:1496`): `MayAnswer` with `Recoverable`.
* "Never broadcast" (`snipe.rs:1170`) is said of a wallet whose transaction was
  accepted and whose every answer was lost; `ReportIsTrue` is about the wallets
  reported minted or reverted only.

### Hazards that are not listed

`PROJECT.json` lists the hazards that matter most. Left out for space: a second
delegation of a wallet while its first is in use (in the executor's instance all the
same); a failed sync after the keys are on disk (`wallet_generator.rs:173`); updates
that are delivered again after a restart (`bot.rs:467`, in `ChatBot` any update may
come at any time); a recovery phrase whose message is lost (`bot.rs:834`); a refused
import that stays on disk (`bot.rs:1255`, `Unreadable` in `ChatBot`); a batch still
in a pool while its wallets are undelegated (`multi_mint.rs:2287`, in
`SponsoredBatch`); a drop that is postponed after a snipe read its start
(`snipe.rs:1102`); two snipes that sign the identical transaction and both report it;
a second `--fund` after an uncertain first one, which pays again (`funds.rs:674`).

### Bounds, and why they are enough

* Executor: call depth (`MaxDepth`) deep enough for batch → wallet mint → token →
  receiver or re-entered batch. A replay needs two executions of one batch, a
  duplicate two wallets of one batch. The constraint `OneScenario` explores two
  scenarios side by side, as their product is out of reach: one batch of both
  wallets with donations, kept tokens and time (`Delivering`), and any batches of
  both dispatchers for one wallet (`Replaying`).
* Session: two jobs (one can be launched while the other waits), two attempts
  (one replacement), a window that ends within the clock and one that does not.
  The clock bound stops time, not the session.
* Multi-wallet: two wallets, one of them the recipient, so that one forwards and one
  does not; two phases, so that a transaction of the first may still be in a pool in
  the second; two attempts, prices and estimates; one wallet spent from elsewhere.
* Sponsored batch: two jobs are enough for each pair of kinds, and the second may
  fall between any two steps of the first; two wallets, one of them the sponsor, one
  delegated at first. The jobs are symmetric.
* Sponsored gas: three operations (first, middle, last), limits on either side of a
  multiple of 63, payloads at both ends; the theorems have no bound.
* Snipe: two wallets, so that the receipt loop may stop between them, two endpoints
  that may disagree, a cap one unit below what the dearest plan would spend.
* Funds: two wallets besides the payer, the three attempts of the code, two fee
  bases, one account another program spends from.
* OpenSea: two wallets with different quantities (swapped entries differ), two stages
  over every relation of token ranges, two attempts of each loop.
* Fees: three attempts (two replacements of different sizes), small fees so that
  rounding up matters, a word the steepest ladder overflows, a balance between
  the foot and the top of a ladder. One block per attempt.
* Manifest: three wallets, two phrases (one wrong), two passphrases (a
  rotation), all file operations. No counter is bounded.
* Bot: four wallets with totals offered one and two above, so an offer can be
  outgrown; two snipes, so one may end before the other.

Deadlock is checked where the modelled part runs forever or its end is a step of its
own (`AllEnded`, `Stopped`). It is switched off where a part really stops: in
`MCSession.cfg`, `MCMultiMint.cfg`, `MCSponsoredBatch.cfg`, `MCSponsoredGas.cfg` and
`MCFeeLadder.cfg`.

## 4. Proofs

`SponsoredMintExecutorProofs` proves for any sets of executors, wallets and
batches, any depth and any signed set:

* `TypeCorrect`: `Spec => []TypeOK`.
* `NoReplay`: `Spec => []ReplayOnce`: an authorization a wallet signed runs at
  most once. `ReplayOnce` alone is not inductive: a revert restores a snapshot,
  and a batch is marked used before its entries run. The strengthening
  `ReplayInv` says of the current world *and of every snapshot on the stack*
  that each authorization ran at most once and only in a used batch (`Sound`),
  and that for every batch frame below that world its batch is used there and
  only entries before the frame's current one have run (`OpenIn`); and that the
  batch was unused in the snapshot the frame itself would revert to. Each action
  pushes a snapshot of the current world (`PushReplayInv`), pops one
  (`PopReplayInv`), or leaves the evidence alone (`KeepReplayInv`).
* `OncePerWallet`: `Spec => []OneSuccessPerWallet`. On top of `ReplayInv`,
  `OnceInv` says of the world and of every snapshot that a dispatcher with an open
  batch is guarded and its marks name every wallet the batch has counted
  (`MarkedIn`), and that the wallet whose call runs is marked and not counted yet
  (`CallingIn`). Two open batches are of different dispatchers, so neither
  overwrites the other's marks.
* `CountIsDelivered`: `Spec => []ForwardedIsDelivered`. `DeliveryInv` says that a
  wallet with an open mint has an active context, so that no second mint of it opens
  inside the first, and that in every world its count is what it delivered, but for
  the one world a receiver's forward was entered with (`Forwarding`).
* `ExecutorKeepsPromise`: `Spec => KeepsPromise`, that the contract implements
  `SponsoredMintPromise`. `Committed` maps a running transaction to the world it
  began in, so every step stutters (`CommitsAtTheEnd`) but the return of the last
  frame, which must settle one set of authorizations (`TransactionSettles`): those
  counted since the transaction began. `ReplayInv` says that they belong to batches
  it used itself, `OnceInv` that no wallet succeeded twice in one of them. That
  deliveries and payments are what they name needs a third invariant, `Ledger`: in
  the world and in every snapshot a wallet's account balances against the
  transaction's first world (`Balanced`), except while its mint is open, when its
  frame remembers where it started (`SameAccount`) and nothing is counted for it, and
  except between the return of a mint and its event, when the batch owes exactly
  that entry (`WorldOwes`). `Returning` tells that moment from the others, which is
  why the invariant also says which frames call which (`Nested`). The promise sums
  over sets with a fold; `AmountsAdd` is all the proof uses of it: the sum over no
  authorizations is 0, and one more adds its amount. It follows, without recursion,
  from the well-foundedness of finite sets (`LeastSubset`).

The only assumption is `ConstantsAssumption`, the types of the constants.

`SponsoredBatchProofs` proves, for any manifest and any number of jobs:

* `AuthorizationsTakeEffect`: `Spec => []AuthorizationsApply`. `SignedInv` follows
  the nonce an authorization was signed for from the job that holds it through the
  pool into a block (`JobsBound`, `PoolBound`, `BlocksBound`).
* `UserIsToldTheTruth`: `Spec => []ReportsAreTrue`, with the types alone.
* `RevocationHolds`: `Spec => []ClearedStaysClear` if the sponsor is not in the
  manifest, and `OthersStayClear`: the same of every wallet but the sponsor's own in
  any case. `ClearInv` says that whatever a job has read or signed for a wallet that
  was revoked since was read before the nonce the chain has now (`Fresh`), so that a
  batch from before a revocation no longer fits; and that only a revocation makes a
  delegated wallet clear again (`Traced`).

For the sponsor's own wallet the last property is false in general. It is read at its
pending nonce, which runs ahead of the chain while other batches of the sponsor are
pooled, so that a phase prepared before a revocation may be mined after it and fit.
Six jobs at once can do it: one delegates, three fill the nonces behind it, a phase
reads the pending nonce before the revocation is mined and signs for one that comes
after it. With at most three jobs TLC finds no such behaviour; `sponsored_batch`
checks two, with the sponsor in the manifest. Nothing in the code bounds how many
processes and snipes of one sponsor run at a time.

`MultiMintProofs` proves, for any wallets, phases, quantities, prices and estimates,
attempts up to the ten the configuration admits:

* `PaidOncePerPhase`: `Spec => []MintedOncePerPhase`. `OnceInv` says that a nonce
  is mined once and the pool holds no nonce below the chain's (`NonceMinedOnce`,
  `PoolAhead`), that all attempts at one asset share a nonce (`OneNonceEach`), and
  that nothing of the present asset is out when its nonce is chosen (`Numbered`).
* `CompletedMeansForwarded`: `Spec => []CompletedIsForwarded`. A worker turns to an
  asset when the one before it is in a block (`Progress`).
* `TransfersStayFunded`: `Spec => []ForwardingStaysFunded`. `Budgeted` keeps, per
  wallet whose owner stays away, enough for the transfers that are left, and before
  the present asset is mined for that one too; it needs to know that the pool holds
  nothing but the attempts at the present asset (`Settled`).

`MultiMintAssumption` has the types of the constants, a quantity of at least one
(a wallet that may mint none is no candidate) and at most ten attempts.

`AccountChainProofs` proves, for any accounts and what they hold at first, about
the two programs over that chain. What both rest on is `ChainOK`: a node holds no
transaction whose nonce is used, a block holds one for a nonce and takes at most the
fee that was signed. `IncludeKeeps` and `TakenKeeps` say that blocks and nodes keep
it, `ViewsRead` what an answer of a lagging node is worth: no nonce that is used, no
more than is held, and the very next nonce when nothing of the account is waiting.

Of `PublicSnipe`, for any number of snipes and sweeps side by side, any wallets,
price, gas costs and cap:

* `CapBoundsSpending`: `Spec => []SpendStaysInCap`. `SnipeInv` says that a snipe has
  signed for all its wallets at one price and one gas cost the cap allows for all of
  them, or for none (`SignedForAll`). The blocks that took something of it then map
  into its wallets one to one, and a sum of so many bounded terms is bounded
  (`SpendingIsBounded`).
* `ReceiptsAreOwn`: `Spec => []ReportIsTrue`. A receipt is of the transaction the job
  signed (`ReportedIsMined`); that it is not both mined and reverted needs that one
  nonce has one block, since other jobs may have sent the identical transaction.

Of `NativeFunds`, for any wallets, amount, fees, number of attempts and gas limits,
with other programs that spend from the same accounts:

* `PaidAtMostOnce`: `FundsSpec => []FundedAtMostOnce`. Nothing short of the whole
  `FundsInv` is inductive. Any two fundings of one wallet, in a pool or in a block,
  have one nonce (`OneNonceForAWallet`). A new transfer may take a new nonce because
  nothing that is out pays a wallet that was neither told of nor is being paid
  (`FundingOK`). The rest is arithmetic: a sum in which at most one term is not zero.
* `SummariesAreTrue`: `FundsSpec => []SummaryIsTrue`. "Reverted" is final since a
  receipt of any attempt uses up the nonce of all of them (`ReceiptOfAttempt`);
  "limited" is told only when no node took an attempt (`Exhausted`).
* `AttemptsArePaid`: `FundsSpec => []AttemptsAreFunded`. A balance is read when no
  node holds anything of the account (`NothingElseIsHeld`) or another program
  has spent from it; it pays the dearest attempt (`IsFunded`), and a block that
  lowers the balance raises the nonce as well.

The assumptions are the types of the constants, that the payer is not the only
account and that no withdrawal goes to the payer.

`MintSessionProofs` proves of `MintSession`, for any phases, windows, attempts and
clock bounds:

* `SessionTypeCorrect`: `Spec => []TypeOK`.
* `PhaseMintedAtMostOnce`: `Spec => []MintedAtMostOnce`, `SuspendedWasNeverSent`:
  `Spec => []SuspendedIsUnsent`, `SessionReportsChain`: `Spec =>
  []OutcomeMatchesChain`. One invariant serves all: the chain takes a nonce once and
  in order (`Ordered`), all that was sent for a phase shares a nonce (`OneNonce`), a
  launch knows every transaction sent for its phase (`Launched`), and a phase that
  may be launched has nothing sent for it (`Unsent`). Without the last two a deferred
  phase could be launched under a second nonce.

and of `OpenSeaSession`, for any wallets, quantities, stage lists, prices and
attempts:

* `SignedAsAsked`: `OpenSeaSpec => []ActionsAreBound`. An answer is decoded only if
  each of its swaps is (`BatchFits`): the error that is given for a batch is that of
  the first swap that does not fit, and no error is taken for success
  (`ErrorsAreRefused`).
* `OneStageIsChosen`: `OpenSeaSpec => []NeverAmbiguous`. Two stages of one index have
  ranges that do not overlap, so no token is in both (`OneStageForAToken`).
* `EligibilityIsTheWallets`: `OpenSeaSpec => ToldAsTheWallet`, an action property. It
  needs that a client that counts itself signed in was signed in as its wallet last,
  or was forgotten since (`SignedInAsTheWallet`).

`BotProofs` proves of `ManifestStore`, for any phrases, uploads, passphrases and
wallets:

* `StoreTypeCorrect`: `StoreSpec => []StoreTypeOK`.
* `ShownKeysStay`: `StoreSpec => []ShownKeysKept` and `SealedWhenServed`: `StoreSpec =>
  []PlainOnlyAfterFailedSeal`. The invariant says at each file operation what is in
  hand: a derived manifest is complete and not sealed yet (`Derived`), an expansion
  holds every key it replaces (`Expanding`), the migration seals what is on disk and
  an import what nobody was shown (`Sealing`).

and of `ChatBot`, for any limits, offers and recovery counts:

* `BotTypeCorrect`: `Spec => []TypeOK`.
* `ArmedWasConfirmed`: `Spec => []ArmedIsComplete`. The invariant describes every
  wizard that may be staged while the manifest has so many wallets (`Ready`), as a
  FIRE button of any age fires the one that is.
* `NoWalletIsLost`: `Spec => WalletsOnlyGrow`, an action property. It needs that the
  question about an expansion is pending only for a manifest that is there and
  smaller (`Expandable`).

`FeesAndGasProofs` proves of `FeeLadder`, for every setting `config.rs` admits and
every base fee, tip, balance, price, gas limit and word size (`LadderAssumption`):

* `LadderTypeCorrect`: `Spec => []TypeOK`. Fees are naturals only because a
  replacement never meets fees below their tip, so this needs the whole invariant.
* `Funded`: `Spec => []EveryAttemptIsFunded`, and `Unstranded`:
  `Spec => []NeverStranded`. The invariant `LadderInv` says that the ladder is a
  chain of replacements which all fit and none of which costs more than its top
  (`LadderIsClimbed`), and that the attempts follow it rung by rung once a gate has
  paid for its top (`AttemptsFollowTheLadder`). The lemmas below it are about
  the arithmetic: rounding up keeps the order of amounts (`CeilMonotone`), never
  lowers one (`CeilGrows`), and so a replacement costs no less and covers its tip
  (`ReplacementClimbs`).
* `KeepsPace`: `Spec => []ReplacementsKeepPace`. One growth of the buffer covers one
  block's growth of a nonzero base fee (`BufferCoversBlock`), and
  `BaseSinceLastAttempt` bounds how far the base fee went since.

and of `SponsoredGas`, for any number of operations, any wallet limits, payloads of 4
to 16384 bytes and any zero bytes (`SponsoredGasAssumption`):

* `TypesHold` and `ReserveStays`: sums are natural numbers, the final reserve is left.
* `GasReachesEveryWallet`: `GasSpec => []EveryWalletGetsItsGas`. The property is not
  inductive: that the dispatcher can still forward to the i-th wallet depends on what
  the client added for it and all after it. `tally` therefore keeps the limit before
  each operation, and the invariant says that gas left and spent together are at
  least what the tally still owes from the current operation on, plus the reserves
  not yet earned (`Spending`); the rest is `BufferSuffices`, that one 63rd more,
  rounded up, survives the 64th that EIP-150 keeps back.
* `EstimatesAreBounds`: `GasSpec => []EstimatesBound`, from a bound on the encoded
  length of each operation (`EncodedIsBounded`) and the monotony of the sums.

It assumes of the dispatcher only `WithinReserves`, a conjunct of its steps.

Every invariant, the refinement and every action property of a passing run is
stated by a theorem. Only model-checked is liveness (`LaunchSettles`, `BatchEnds`,
`JobsEnd`, `CommandEnds`, `RequestsEnd`): it needs fairness and ENABLED, which the
prover does not reach. What a recursive definition computes over arbitrary data is
out of reach too, but for sums over finite sets: a fold is whatever function meets
its recursion, `SumExists` and `SumsAgree` say there is one and only one, and all the
proofs use of it (`FiniteSums`) follows from the well-foundedness of finite sets.

`ClearedStaysClear` is a theorem for a sponsor outside the manifest only, as said
above.

Each invariant above was checked by TLC on the instance of its run before it was
proved.

## 5. Not modelled, and why

* ABI and EIP-712 encoding, RLP, key derivation, encryption, parsing of JSON, dates and
  URLs: byte-level transformations without state; the models take their results. Of
  an ERC-1155 mint call the code itself decodes nothing, and `ActionsAreBound` claims
  nothing of it.
* Choice, order and failover of RPC endpoints (`chain.rs`): what any of them may
  answer is an input of each component, so a failover adds no answer.
* The sign-ins of the other wallets of a batch: each is its own client and goes
  through the steps of `OpenSeaSession`; in a batch only the first one's session
  carries the hot path.
* Terminal, configuration, logging: straight-line input and output. Of the
  executor's deployment, the prediction and verification of its address. The
  diagnosis commands, which change nothing.
* Two processes in one directory during a rolling redeploy (`bot.rs:1246`): needs
  open files and renamed paths kept apart. Power loss that undoes unsynced writes.

## 6. Plan

1. *(done)* executor, session, manifest, bot, fees.
2. *(done)* multi-wallet mint, sponsored batches and their gas, snipes and sweeps,
   funding and withdrawing, the OpenSea client; the ten theorems above.
3. *(done)* theorems for every invariant the runs of executor, session, multi-wallet
   mint, sponsored batch, manifest and bot check, and the refinement of the promise.
4. *(done)* theorems for the snipes, the funds and the OpenSea client: every
   invariant and action property of the passing runs is now proved.
5. Next: `ManifestStore` with two processes.
