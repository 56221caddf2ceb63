------------------------------ MODULE MultiMint ------------------------------
(***************************************************************************)
(* A self-funded multi-wallet mint (multi_mint.rs): the selected phases    *)
(* run one after the other; in each, the wallets of the manifest are       *)
(* authenticated, checked for funds, given calldata in one request, and    *)
(* then mint and forward their tokens in parallel, each wallet with its    *)
(* own replacement loop.  OpenSea, the node and the chain are external.    *)
(* A gas limit is one unit: a transaction costs its fee and its value.     *)
(***************************************************************************)
EXTENDS Integers, FiniteSets

CONSTANTS
  Wallets,      \* the manifest
  Recipient,    \* the address tokens go to, perhaps one of the wallets
  Quantity,     \* tokens each wallet mints, each a transfer of its own
  LastPhase,    \* the selected phases are 1..LastPhase, sorted by their start
  Prices,       \* what a wallet's mint may cost
  Unpriced,     \* no price captured with the eligibility
  Estimates,    \* the fees a node may suggest
  Funds,        \* what each wallet holds at first
  MaxAttempts,  \* TRANSACTION_MAX_ATTEMPTS
  MaxFetches,   \* OPENSEA_CALLDATA_MAX_ATTEMPTS
  Shared        \* the wallets their owner may spend from elsewhere, once

ASSUME MultiMintAssumption ==
  /\ IsFiniteSet(Wallets) /\ Wallets # {}
  /\ Quantity \in [Wallets -> Nat \ {0}]
  /\ LastPhase \in Nat \ {0}
  /\ Prices \subseteq Nat /\ Unpriced \notin Prices
  /\ Estimates \subseteq Nat \ {0} /\ Funds \in [Wallets -> Nat]
  /\ MaxAttempts \in 1..10 /\ MaxFetches \in Nat \ {0}
  /\ Shared \subseteq Wallets

VARIABLES
  pc,          \* where the run is
  phase,       \* the position in the sequence of selected phases
  stage,       \* how far the phase is, by the window that was last read
  fetches,     \* calldata requests made for this phase
  batch,       \* the wallets that are still part of this phase
  captured,    \* price per wallet that came with its eligibility
  seen,        \* the account and fee snapshot of each wallet
  work,        \* the worker of each wallet
  results,     \* [phase, wallet, ok] of each worker that ended
  chainNonce,  \* transactions of each wallet that are mined
  balance,     \* what each wallet holds
  pool,        \* transactions of each wallet some node may still include
  mined,       \* the run's transactions in blocks, with their status
  foreign      \* transactions the owner sent elsewhere

selection == <<phase, stage, fetches, batch, captured, seen>>
run == <<pc, selection>>
chain == <<chainNonce, balance, pool, mined, foreign>>
vars == <<run, work, results, chain>>

Phases == 1..LastPhase

(***************************************************************************)
(* What the clock says of a window: before its wake time, before its hot   *)
(* time, not over, over (execution_timing, STANDARD_WAKE_LEAD_SECONDS,     *)
(* CALLDATA_HOT_LEAD_MS).  OpenSea may serve any window at any read.       *)
(***************************************************************************)
Stages == {"far", "near", "hot", "over"}
Later(s) == CASE s = "far" -> "near" [] s = "near" -> "hot" [] OTHER -> "over"

-----------------------------------------------------------------------------
(* What a wallet must hold. *)

(* The fees of an attempt, and the dearest one the policy may reach.       *)
Fee(estimate, attempt) == estimate + attempt - 1
TopFee(estimate) == Fee(estimate, MaxAttempts)

(* MintOnly is a mutant of TransactionCount.                               *)
MintOnly(w) == 1
Transfers(w) == IF w = Recipient THEN 0 ELSE Quantity[w]
TransactionCount(w) == Transfers(w) + 1

Required(w, value, estimate) == value + TransactionCount(w) * TopFee(estimate)
ValueOr0(price) == IF price = Unpriced THEN 0 ELSE price

Idle == [step |-> "idle", asset |-> 0, nonce |-> 0, attempt |-> 0, value |-> 0,
         estimate |-> 0, sent |-> {}]
Unseen == [nonce |-> 0, balance |-> 0, estimate |-> 0]

(* eth_getTransactionCount(pending): a node may miss the latest of them.   *)
Occupied(w) == {tx.nonce : tx \in pool[w]}
PendingNonce(w) ==
  CHOOSE n \in chainNonce[w]..(chainNonce[w] + Cardinality(pool[w])) :
    n \notin Occupied(w) /\ \A m \in chainNonce[w]..(n - 1) : m \in Occupied(w)
NonceReads(w) == {n \in (chainNonce[w] - 1)..PendingNonce(w) : n >= 0}
Nonces == {f \in [Wallets -> UNION {NonceReads(w) : w \in Wallets}] :
             \A w \in Wallets : f[w] \in NonceReads(w)}

-----------------------------------------------------------------------------
(* prepare_sessions, prepare_phase_setup and confirm_multi_mint *)

Stop == pc' = "stopped" /\ UNCHANGED selection

(* Sessions that authenticate and may attempt the phase with their         *)
(* quantity; a later phase reads OpenSea and the manifest again.           *)
PrepareSessions(eligible) ==
  /\ pc = "sessions"
  /\ eligible # {}
  /\ batch' = eligible
  /\ pc' = "setup"
  /\ UNCHANGED <<phase, stage, fetches, captured, seen, work, results, chain>>

(* No wallet is left, the answers do not fit, or the phase is gone.        *)
SessionsFail ==
  /\ pc = "sessions"
  /\ Stop
  /\ UNCHANGED <<work, results, chain>>

Underfunded(price, estimate) ==
  {w \in batch : balance[w] < Required(w, ValueOr0(price[w]), estimate[w])}

NextAfterSetup == IF phase = 1 THEN "confirm" ELSE "wake"

(* ensure_self_funded_setup_funding: with a shortfall the user is asked to *)
(* top up and recheck (a stutter), or to skip the wallets.                 *)
SetupFunding(price, estimate) ==
  /\ pc = "setup"
  /\ LET short == Underfunded(price, estimate) IN
       /\ batch' = batch \ short
       /\ pc' = IF batch = short THEN "stopped" ELSE NextAfterSetup
  /\ UNCHANGED <<phase, stage, fetches, captured, seen, work, results, chain>>

SetupFails ==
  /\ pc \in {"setup", "confirm"}
  /\ Stop
  /\ UNCHANGED <<work, results, chain>>

Confirm ==
  /\ pc = "confirm"
  /\ pc' = "wake"
  /\ UNCHANGED <<selection, work, results, chain>>

-----------------------------------------------------------------------------
(* wait_for_launch_wake and validate_unique_active_stage *)

(* The phase is over or gone, or another is active when it starts.         *)
WakeFails ==
  /\ pc = "wake"
  /\ Stop
  /\ UNCHANGED <<work, results, chain>>

(* The refresh interval passed, or the phase moved while it was awaited.   *)
RefreshStage(read) ==
  /\ pc = "wake" /\ stage # "over"
  /\ "far" \in {stage, read}
  /\ stage' = read
  /\ UNCHANGED <<pc, phase, fetches, batch, captured, seen, work, results, chain>>

Wake(read) ==
  /\ pc = "wake" /\ stage \in {"near", "hot"} /\ read \in {"near", "hot"}
  /\ stage' = read
  /\ pc' = "candidates"
  /\ UNCHANGED <<phase, fetches, batch, captured, seen, work, results, chain>>

-----------------------------------------------------------------------------
(* prepare_action_candidates and filter_underfunded_launch_candidates *)

(* The wallets that are still eligible, each with its captured price and a *)
(* snapshot of its account and of the fees.  Who is short is left out.     *)
Candidates(eligible, price, nonce, estimate) ==
  LET short == {w \in eligible :
                  balance[w] < Required(w, ValueOr0(price[w]), estimate[w])} IN
  /\ pc = "candidates"
  /\ batch' = eligible \ short
  /\ captured' = [w \in Wallets |-> IF w \in batch' THEN price[w] ELSE Unpriced]
  /\ seen' = [w \in Wallets |->
                IF w \in batch'
                THEN [nonce |-> nonce[w], balance |-> balance[w], estimate |-> estimate[w]]
                ELSE Unseen]
  /\ pc' = IF batch' = {} THEN "stopped" ELSE "hot"
  /\ UNCHANGED <<phase, stage, fetches, work, results, chain>>

CandidatesFail ==
  /\ pc = "candidates"
  /\ Stop
  /\ UNCHANGED <<work, results, chain>>

-----------------------------------------------------------------------------
(* wait_for_calldata_hot_path and fetch_actions_hot *)

Fetching == pc = "hot" /\ stage \in {"hot", "over"}

PricesHonoured(values) ==
  \A w \in batch : captured[w] # Unpriced => values[w] = captured[w]

(* The requirement now has the value the action brought; who cannot pay    *)
(* for it is left out, and the others' workers are spawned.                *)
FetchActions(values) ==
  /\ Fetching /\ stage = "hot"
  /\ PricesHonoured(values)
  /\ LET funded == {w \in batch :
                      seen[w].balance >= Required(w, values[w], seen[w].estimate)} IN
       /\ batch' = funded
       /\ pc' = IF funded = {} THEN "stopped" ELSE "work"
       /\ work' = [w \in Wallets |->
                     IF w \in funded
                     THEN [Idle EXCEPT !.step = "send", !.nonce = seen[w].nonce,
                                       !.attempt = 1, !.value = values[w],
                                       !.estimate = seen[w].estimate]
                     ELSE Idle]
  /\ UNCHANGED <<phase, stage, fetches, captured, seen, results, chain>>

(* retryable_action_error; a value that is not the captured price is one.  *)
FetchAgain ==
  /\ Fetching /\ stage = "hot"
  /\ fetches + 1 < MaxFetches
  /\ fetches' = fetches + 1
  /\ UNCHANGED <<pc, phase, stage, batch, captured, seen, work, results, chain>>

(* StageEnded, CalldataRetriesExhausted or an error that is not retried.   *)
FetchFails ==
  /\ Fetching
  /\ Stop
  /\ UNCHANGED <<work, results, chain>>

-----------------------------------------------------------------------------
(* execute_self_funded_wallet and submit_eip1559_with_replacements *)

Transaction(w) ==
  [phase |-> phase, asset |-> work[w].asset, nonce |-> work[w].nonce,
   attempt |-> work[w].attempt, value |-> work[w].value,
   fee |-> Fee(work[w].estimate, work[w].attempt)]

Ends(w, ok) ==
  /\ work' = [work EXCEPT ![w] = [Idle EXCEPT !.step = "ended"]]
  /\ results' = results \cup {[phase |-> phase, wallet |-> w, ok |-> ok]}

(* A node refuses a mined nonce and a transaction its sender cannot pay.   *)
Affordable(w) == balance[w] >= Transaction(w).value + Transaction(w).fee
Accepted(w) == Transaction(w).nonce >= chainNonce[w] /\ Affordable(w)

Send(w) ==
  /\ work[w].step = "send"
  /\ Accepted(w)
  /\ pool' = [pool EXCEPT ![w] = @ \cup {Transaction(w)}]
  /\ work' = [work EXCEPT ![w].step = "await", ![w].sent = @ \cup {Transaction(w)}]
  /\ UNCHANGED <<run, results, chainNonce, balance, mined, foreign>>

(* BroadcastUncertain: the send failed, and may have arrived anyway.       *)
SendFails(w, arrived) ==
  /\ work[w].step = "send"
  /\ arrived => Accepted(w)
  /\ pool' = IF arrived THEN [pool EXCEPT ![w] = @ \cup {Transaction(w)}] ELSE pool
  /\ Ends(w, FALSE)
  /\ UNCHANGED <<run, chainNonce, balance, mined, foreign>>

(* After a mint its tokens are forwarded one by one, unless the wallet is  *)
(* the recipient.  ForwardsAllButOne is a mutant of IsLast.                *)
ForwardsAllButOne(w) == work[w].asset + 1 >= Transfers(w)
IsLast(w) == work[w].asset = Transfers(w)

(* The receipt of any attempt of this nonce counts.                        *)
Confirmed(w, tx) ==
  /\ work[w].step = "await" /\ tx \in work[w].sent
  /\ [wallet |-> w, tx |-> tx, ok |-> TRUE] \in mined
  /\ IF IsLast(w) THEN Ends(w, TRUE)
     ELSE /\ work' = [work EXCEPT ![w] = [Idle EXCEPT !.step = "forward",
                                                      !.asset = work[w].asset + 1]]
          /\ UNCHANGED results
  /\ UNCHANGED <<run, chain>>

Reverted(w, tx) ==
  /\ work[w].step = "await" /\ tx \in work[w].sent
  /\ [wallet |-> w, tx |-> tx, ok |-> FALSE] \in mined
  /\ Ends(w, FALSE)
  /\ UNCHANGED <<run, chain>>

(* Every transfer reads nonce and fees anew.                               *)
Forward(w, nonce, estimate) ==
  /\ work[w].step = "forward"
  /\ work' = [work EXCEPT ![w].step = "send", ![w].nonce = nonce, ![w].attempt = 1,
                          ![w].estimate = estimate]
  /\ UNCHANGED <<run, results, chain>>

MayReplace(w) == work[w].attempt < MaxAttempts
(* The second of each pair is modelled, the first is a mutant of it.       *)
SameAttempt(n) == n
NextAttempt(n) == n + 1
FreshNonce(w) == PendingNonce(w)
ReplacementNonce(w) == work[w].nonce

Replace(w) ==
  /\ work[w].step = "await" /\ MayReplace(w)
  /\ work' = [work EXCEPT ![w].step = "send", ![w].attempt = NextAttempt(@),
                          ![w].nonce = ReplacementNonce(w)]
  /\ UNCHANGED <<run, results, chain>>

(* The last timeout passed, the node or the receipt cannot be read, the    *)
(* minted tokens cannot be told from the receipt, or no fee fits.          *)
WorkerFails(w) ==
  /\ work[w].step \in {"await", "forward"}
  /\ Ends(w, FALSE)
  /\ UNCHANGED <<run, chain>>

Running == {w \in Wallets : work[w].step \in {"send", "await", "forward"}}

(* run_self_funded joins the workers; without one success the run ends.    *)
Join ==
  /\ pc = "work" /\ Running = {}
  /\ LET succeeded == \E r \in results : r.phase = phase /\ r.ok
         more == phase + 1 \in Phases
     IN /\ pc' = IF ~succeeded THEN "stopped" ELSE IF more THEN "sessions" ELSE "finished"
        /\ phase' = IF succeeded /\ more THEN phase + 1 ELSE phase
  /\ work' = [w \in Wallets |-> Idle]
  /\ stage' = "far" /\ fetches' = 0
  /\ batch' = {}
  /\ captured' = [w \in Wallets |-> Unpriced]
  /\ seen' = [w \in Wallets |-> Unseen]
  /\ UNCHANGED <<results, chain>>

-----------------------------------------------------------------------------
(* The world.  The run reads the clock only before its workers start, so   *)
(* it ticks only then.                                                     *)

Tick ==
  /\ pc \in {"wake", "hot"} /\ stage # "over"
  /\ stage' = Later(stage)
  /\ UNCHANGED <<pc, phase, fetches, batch, captured, seen, work, results, chain>>

(* A transfer needs the token its wallet minted in the same phase.         *)
Owned(w, tx) ==
  tx.asset > 0 => \E m \in mined : /\ m.wallet = w /\ m.ok /\ m.tx.asset = 0
                                   /\ m.tx.phase = tx.phase

Include(w, tx, ok) ==
  /\ tx \in pool[w] /\ tx.nonce = chainNonce[w]
  /\ ok => Owned(w, tx)
  /\ balance[w] >= tx.fee + tx.value
  /\ chainNonce' = [chainNonce EXCEPT ![w] = @ + 1]
  /\ balance' = [balance EXCEPT ![w] = @ - tx.fee - (IF ok THEN tx.value ELSE 0)]
  /\ mined' = mined \cup {[wallet |-> w, tx |-> tx, ok |-> ok]}
  /\ pool' = [pool EXCEPT ![w] = {other \in @ : other.nonce # tx.nonce}]
  /\ UNCHANGED <<run, work, results, foreign>>

(* The owner spends from the wallet elsewhere, or a snipe of the bot does. *)
ForeignTransaction(w) ==
  /\ w \in Shared \ foreign
  /\ foreign' = foreign \cup {w}
  /\ chainNonce' = [chainNonce EXCEPT ![w] = @ + 1]
  /\ balance' = [balance EXCEPT ![w] = 0]
  /\ pool' = [pool EXCEPT ![w] = {tx \in @ : tx.nonce # chainNonce[w]}]
  /\ UNCHANGED <<run, work, results, mined>>

-----------------------------------------------------------------------------
Init ==
  /\ pc = "sessions" /\ phase = 1 /\ stage = "far" /\ fetches = 0
  /\ batch = {}
  /\ captured = [w \in Wallets |-> Unpriced]
  /\ seen = [w \in Wallets |-> Unseen]
  /\ work = [w \in Wallets |-> Idle]
  /\ results = {}
  /\ chainNonce = [w \in Wallets |-> 0]
  /\ balance = Funds
  /\ pool = [w \in Wallets |-> {}]
  /\ mined = {} /\ foreign = {}

PrepareAPhase ==
  \/ \E eligible \in SUBSET Wallets : PrepareSessions(eligible)
  \/ SessionsFail
  \/ \E price \in [Wallets -> Prices \cup {Unpriced}], estimate \in [Wallets -> Estimates] :
       SetupFunding(price, estimate)
  \/ SetupFails
  \/ Confirm
  \/ WakeFails
  \/ \E read \in Stages : RefreshStage(read) \/ Wake(read)
  \/ \E eligible \in SUBSET batch, price \in [Wallets -> Prices \cup {Unpriced}],
        nonce \in Nonces, estimate \in [Wallets -> Estimates] :
       Candidates(eligible, price, nonce, estimate)
  \/ CandidatesFail
  \/ \E values \in [Wallets -> Prices] : FetchActions(values)
  \/ FetchAgain
  \/ FetchFails

Worker(w) ==
  \/ Send(w)
  \/ \E arrived \in BOOLEAN : SendFails(w, arrived)
  \/ \E tx \in work[w].sent : Confirmed(w, tx) \/ Reverted(w, tx)
  \/ \E nonce \in NonceReads(w), estimate \in Estimates : Forward(w, nonce, estimate)
  \/ Replace(w)
  \/ WorkerFails(w)

World ==
  \/ Tick
  \/ \E w \in Wallets : \/ \E tx \in pool[w], ok \in BOOLEAN : Include(w, tx, ok)
                        \/ ForeignTransaction(w)

Next == PrepareAPhase \/ (\E w \in Wallets : Worker(w)) \/ Join \/ World

(* Every await of a worker is bounded by a timeout and the workers are     *)
(* tasks of their own.                                                     *)
Spec == Init /\ [][Next]_vars /\ (\A w \in Wallets : WF_vars(Worker(w))) /\ WF_vars(Join)

-----------------------------------------------------------------------------
MinedFor(w, p) == {m \in mined : m.wallet = w /\ m.tx.phase = p}

(***************************************************************************)
(* Replacements, lost answers and later phases never make a wallet pay for *)
(* a phase twice: at most one mint of each phase is mined, and at most one *)
(* transfer of each of its tokens.                                         *)
(***************************************************************************)
MintedOncePerPhase ==
  \A m, n \in mined :
    m.wallet = n.wallet /\ m.tx.phase = n.tx.phase /\ m.tx.asset = n.tx.asset => m = n

(***************************************************************************)
(* "Wallet mint and forwarding completed" (run_self_funded): the mint and  *)
(* a transfer of every token are in blocks, whichever attempt got there.   *)
(***************************************************************************)
CompletedIsForwarded ==
  \A r \in results : r.ok =>
    \A asset \in 0..Transfers(r.wallet) :
      \E m \in MinedFor(r.wallet, r.phase) : m.ok /\ m.tx.asset = asset

(***************************************************************************)
(* The balance checked before the mint pays for its replacements and for   *)
(* every transfer after it, for as long as the fees the node suggests do   *)
(* not rise, no earlier worker of the wallet failed (which may leave a     *)
(* transaction in some pool) and the owner spends nothing elsewhere.       *)
(***************************************************************************)
ForwardingStaysFunded ==
  \A w \in Wallets :
    /\ work[w].step = "send" /\ work[w].nonce >= chainNonce[w]
    /\ w \notin foreign
    /\ \A r \in results : r.wallet = w => r.ok
    /\ work[w].estimate <= seen[w].estimate
    /\ \A m \in MinedFor(w, phase) : m.tx.fee <= TopFee(seen[w].estimate)
    => Affordable(w)

(***************************************************************************)
(* The workers of a phase all end, whatever a node answers or forgets: no  *)
(* wallet holds up the batch or the phases after it.                       *)
(***************************************************************************)
BatchEnds == pc = "work" ~> pc # "work"
=============================================================================
