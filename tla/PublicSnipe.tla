----------------------------- MODULE PublicSnipe -----------------------------
(***************************************************************************)
(* The pre-signed public mint (snipe.rs, blast.rs) and the sweep of all    *)
(* wallets (sweep.rs), as a chat of the bot starts them: each runs in a    *)
(* task of its own over the same manifest and the same chain, and nothing  *)
(* orders one after the other (bot.rs:1165, bot.rs:1818).  Wallets are     *)
(* numbered by their place in the manifest.                                *)
(***************************************************************************)
EXTENDS AccountChain

CONSTANTS
  Jobs,        \* what the chat has started
  Kinds,       \* the kinds each job may be of
  Selected,    \* the wallets of a job when it is a snipe (wallet_indices)
  Endpoints,   \* the configured RPC endpoints
  SendOnly,    \* those that answer eth_sendRawTransaction and nothing else
  Price,       \* what a mint of the chosen quantity costs
  GasCosts,    \* gas limit times max fee: what each job may be told
  SpendCap     \* MAX_TOTAL_SPEND_WEI

ASSUME PublicSnipeAssumption ==
  /\ Accounts \subseteq Nat
  /\ \A j \in Jobs : Kinds[j] \subseteq {"snipe", "sweep"} /\ Selected[j] \subseteq Accounts
  /\ SendOnly \subseteq Endpoints
  /\ Price \in Nat /\ SpendCap \in Nat
  /\ \A j \in Jobs : GasCosts[j] \subseteq Nat \ {0}

VARIABLES
  stage,    \* whether the public stage is open
  kind,     \* what each job is
  early,    \* it fires ahead of the stage: early_fire_ms or fire_now
  pc,       \* where it is
  most,     \* the gas cost its transactions are signed with
  targets,  \* the endpoints that answered its probe
  seen,     \* the accounts it has read
  signed,   \* the transaction of each wallet it has signed
  flight,   \* the requests no answer came to yet
  got,      \* the best answer of any endpoint for each wallet
  report    \* what it told the chat of each wallet

job == <<kind, early, pc, most, targets, seen, signed, flight, got, report>>
vars == <<chain, stage, job>>

None == << >>
Ended == {"done", "aborted", "broken"}
WalletsOf(j) == IF kind[j] = "snipe" THEN Selected[j] ELSE Accounts
First(s) == CHOOSE w \in s : \A v \in s : w <= v
Following(j) == First(WalletsOf(j) \ DOMAIN report[j])

Init ==
  /\ ChainInit
  /\ stage = "closed"
  /\ kind \in {k \in [Jobs -> {"snipe", "sweep"}] : \A j \in Jobs : k[j] \in Kinds[j]}
  /\ early \in [Jobs -> BOOLEAN] /\ \A j \in Jobs : kind[j] = "sweep" => ~early[j]
  /\ pc = [j \in Jobs |-> IF kind[j] = "snipe" THEN "plan" ELSE "sweep"]
  /\ most = [j \in Jobs |-> 0]
  /\ targets = [j \in Jobs |-> {}]
  /\ seen = [j \in Jobs |-> None] /\ signed = [j \in Jobs |-> None]
  /\ flight = [j \in Jobs |-> None] /\ got = [j \in Jobs |-> None]
  /\ report = [j \in Jobs |-> None]

At(j, here) == pc[j] = here
Goto(j, next) == pc' = [pc EXCEPT ![j] = next]

(* Once it has ended, a job keeps what it signed and what it reported.     *)
Forget(j) ==
  /\ early' = [early EXCEPT ![j] = FALSE] /\ most' = [most EXCEPT ![j] = 0]
  /\ seen' = [seen EXCEPT ![j] = None] /\ flight' = [flight EXCEPT ![j] = None]
  /\ got' = [got EXCEPT ![j] = None] /\ targets' = [targets EXCEPT ![j] = {}]

-----------------------------------------------------------------------------
(* run_snipe up to the fire moment *)

(* run_probe keeps the endpoints that answer eth_chainId.                  *)
Answering(reachable) == reachable \ SendOnly

Plan(j, reachable, gas) ==
  /\ At(j, "plan") /\ Answering(reachable) # {}
  /\ targets' = [targets EXCEPT ![j] = Answering(reachable)]
  /\ most' = [most EXCEPT ![j] = gas]
  /\ Goto(j, "accounts")
  /\ UNCHANGED <<chain, stage, kind, early, seen, signed, flight, got, report>>

Aborts(j) ==
  /\ Goto(j, "aborted")
  /\ Forget(j)
  /\ UNCHANGED <<chain, stage, kind, signed, report>>

(* The collection cannot be resolved to a contract; no endpoint of the     *)
(* wanted chain answers; the contract has no public stage to mint from.    *)
ResolveFails(j) == At(j, "plan") /\ Aborts(j)
NoTarget(j, reachable) == At(j, "plan") /\ Answering(reachable) = {} /\ Aborts(j)
NoPublicStage(j) == At(j, "plan") /\ Aborts(j)

(* Each wallet's account is read by a task of its own.                     *)
ReadAccount(j, w) ==
  /\ At(j, "accounts") /\ w \in WalletsOf(j) \ DOMAIN seen[j]
  /\ \E view \in Views(w) : seen' = [seen EXCEPT ![j] = With(@, {w}, view)]
  /\ UNCHANGED <<chain, stage, kind, early, pc, most, targets, signed, flight, got, report>>

ReadFails(j) == At(j, "accounts") /\ DOMAIN seen[j] # WalletsOf(j) /\ Aborts(j)

(* IgnoresCap is a mutant of Affordable.                                   *)
IgnoresCap(j, gas) == \A w \in WalletsOf(j) : seen[j][w].coins >= Price + gas
Affordable(j, gas) ==
  /\ Cardinality(WalletsOf(j)) * (Price + gas) <= SpendCap
  /\ \A w \in WalletsOf(j) : seen[j][w].coins >= Price + gas

Mint(w, view, gas) ==
  [what |-> "mint", from |-> w, nonce |-> view.nonce, to |-> {}, value |-> Price, most |-> gas]

(* The simulation of the first wallet may raise the gas limit; before the  *)
(* stage opens it reverts, and that is expected.  Then all wallets are     *)
(* signed, or none.                                                        *)
Arm(j, gas) ==
  /\ At(j, "accounts") /\ DOMAIN seen[j] = WalletsOf(j)
  /\ gas = most[j] \/ (stage = "open" /\ gas > most[j])
  /\ Affordable(j, gas)
  /\ signed' = [signed EXCEPT ![j] = [w \in WalletsOf(j) |-> Mint(w, seen[j][w], gas)]]
  /\ most' = [most EXCEPT ![j] = 0] /\ seen' = [seen EXCEPT ![j] = None]
  /\ Goto(j, "wait")
  /\ UNCHANGED <<chain, stage, kind, early, targets, flight, got, report>>

(* Once the stage is open a simulation that fails is final, too.           *)
Refuse(j) ==
  /\ At(j, "accounts") /\ DOMAIN seen[j] = WalletsOf(j)
  /\ stage = "open" \/ ~Affordable(j, most[j])
  /\ Aborts(j)

Due(j) == stage = "open" \/ early[j]

(* blast_to_all for every wallet, once the time has come.                  *)
Fire(j) ==
  /\ At(j, "wait") /\ Due(j)
  /\ flight' = [flight EXCEPT ![j] = [w \in WalletsOf(j) |-> targets[j]]]
  /\ got' = [got EXCEPT ![j] = [w \in WalletsOf(j) |-> "nothing"]]
  /\ targets' = [targets EXCEPT ![j] = {}] /\ early' = [early EXCEPT ![j] = FALSE]
  /\ Goto(j, "blast")
  /\ UNCHANGED <<chain, stage, kind, most, seen, signed, report>>

-----------------------------------------------------------------------------
(* blast_to_all and collect_results *)

(* What an endpoint's answer shows: the hash of the transaction that was   *)
(* sent, that it is already known, or neither (an error, another hash, a   *)
(* body that is no JSON, no answer within the timeout).                    *)
Better(old, answer) == IF old = "hash" \/ answer = "hash" THEN "hash"
                       ELSE IF "known" \in {old, answer} THEN "known" ELSE "nothing"

(* The request may be lost or refused, or the transaction taken and the    *)
(* answer lost; one the node holds or has mined is already known.          *)
Delivered(tx, answer) ==
  \/ /\ answer = "nothing" /\ UNCHANGED pool
  \/ /\ answer \in {"hash", "nothing"} /\ Takes(tx)
     /\ pool' = pool \cup {tx}
  \/ /\ answer = "known" /\ tx \in pool \cup Landed
     /\ UNCHANGED pool

Answer(j, w, e, answer) ==
  /\ At(j, "blast") /\ e \in flight[j][w]
  /\ flight' = [flight EXCEPT ![j][w] = @ \ {e}]
  /\ Delivered(signed[j][w], answer)
  /\ got' = [got EXCEPT ![j][w] = Better(@, answer)]
  /\ UNCHANGED <<nonce, coins, mined, stage, kind, early, pc, most, targets, seen, signed, report>>

Accepted(j) == {w \in WalletsOf(j) : got[j][w] # "nothing"}

Collect(j) ==
  /\ At(j, "blast") /\ \A w \in WalletsOf(j) : flight[j][w] = {}
  /\ report' = [report EXCEPT ![j] = [w \in WalletsOf(j) \ Accepted(j) |-> "rejected"]]
  /\ IF Accepted(j) = {}
       THEN Goto(j, "done") /\ Forget(j)
       ELSE Goto(j, "receipts") /\ UNCHANGED <<early, most, seen, flight, got, targets>>
  /\ UNCHANGED <<chain, stage, kind, signed>>

-----------------------------------------------------------------------------
(* the receipt loop: one wallet after the other *)

Receipts(j, w) ==
  {IF m.ok THEN "minted" ELSE "reverted" : m \in {r \in mined : r.tx = signed[j][w]}}

(* TakesAnyReceipt and WaitsForReceipt are mutants of Found.               *)
TakesAnyReceipt(j, w) ==
  {"timeout"} \cup {IF m.ok THEN "minted" ELSE "reverted" :
                     m \in {r \in mined : r.tx.from = w /\ r.tx.nonce = signed[j][w].nonce}}
WaitsForReceipt(j, w) == IF got[j][w] = "hash" THEN Receipts(j, w) ELSE {"timeout"}

(* Of a transaction that was only "already known" there is no hash to ask  *)
(* for.  A node that answers nothing, or too many requests, for a minute   *)
(* ends the wait.                                                          *)
Found(j, w) ==
  {"timeout"} \cup (IF got[j][w] = "hash" THEN Receipts(j, w) ELSE {})

Receipt(j, found) ==
  /\ At(j, "receipts")
  /\ LET w == Following(j)
         all == With(report[j], {w}, found)
     IN /\ found \in Found(j, w)
        /\ report' = [report EXCEPT ![j] = all]
        /\ IF DOMAIN all = WalletsOf(j)
             THEN Goto(j, "done") /\ Forget(j)
             ELSE UNCHANGED <<early, pc, most, seen, flight, got, targets>>
  /\ UNCHANGED <<chain, stage, kind, signed>>

(* Any other error of a receipt read ends the run without its summary.     *)
ReceiptFails(j) ==
  /\ At(j, "receipts")
  /\ got[j][Following(j)] = "hash"
  /\ Goto(j, "broken")
  /\ Forget(j)
  /\ UNCHANGED <<chain, stage, kind, signed, report>>

-----------------------------------------------------------------------------
(* sweep: every wallet of the manifest, one after the other *)

Outcome(j, w, outcome) ==
  LET all == With(report[j], {w}, outcome) IN
    /\ report' = [report EXCEPT ![j] = all]
    /\ Goto(j, IF DOMAIN all = WalletsOf(j) THEN "done" ELSE "sweep")

Transfer(w, view, gas) ==
  [what |-> "sweep", from |-> w, nonce |-> view.nonce, to |-> {},
   value |-> view.coins - gas, most |-> gas]

(* The manifest cannot be read, or no endpoint answers.                    *)
SweepFails(j) == At(j, "sweep") /\ report[j] = None /\ Aborts(j)

(* submission_inputs for the fee, then account_state; signed in between.   *)
SweepRead(j, gas) ==
  /\ At(j, "sweep")
  /\ LET w == Following(j) IN
       \E view \in Views(w) :
         IF view.coins > gas
           THEN /\ signed' = [signed EXCEPT ![j] = With(None, {w}, Transfer(w, view, gas))]
                /\ Goto(j, "send")
                /\ UNCHANGED report
           ELSE Outcome(j, w, "dust") /\ UNCHANGED signed
  /\ UNCHANGED <<chain, stage, kind, early, most, targets, seen, flight, got>>

SweepReadFails(j) ==
  /\ At(j, "sweep")
  /\ Outcome(j, Following(j), "failed")
  /\ UNCHANGED <<chain, stage, kind, early, most, targets, seen, signed, flight, got>>

(* One send, no receipt: an error, or another hash than the one that was   *)
(* signed, is a failure.                                                   *)
SweepSend(j, answer) ==
  /\ At(j, "send")
  /\ Delivered(signed[j][Following(j)], answer)
  /\ Outcome(j, Following(j), IF answer = "hash" THEN "swept" ELSE "failed")
  /\ signed' = [signed EXCEPT ![j] = None]
  /\ UNCHANGED <<nonce, coins, mined, stage, kind, early, most, targets, seen, flight, got>>

-----------------------------------------------------------------------------
(* The chain, and the clock. *)

(* A mint reverts before its stage, and for reasons of its own (sold out,  *)
(* a wallet's limit); a transfer when the destination refuses it.          *)
Block(tx, ok, paid) ==
  /\ ok /\ tx.what = "mint" => stage = "open"
  /\ Include(tx, ok, paid)
  /\ UNCHANGED <<stage, job>>

Open == stage = "closed" /\ stage' = "open" /\ UNCHANGED <<chain, job>>

Snipe(j) ==
  \/ \E reachable \in SUBSET Endpoints, gas \in GasCosts[j] : Plan(j, reachable, gas)
  \/ \E reachable \in SUBSET Endpoints : NoTarget(j, reachable)
  \/ \E w \in Accounts : ReadAccount(j, w)
  \/ \E gas \in GasCosts[j] : Arm(j, gas)
  \/ Refuse(j)
  \/ Fire(j)
  \/ \E w \in WalletsOf(j), e \in Endpoints, answer \in {"hash", "known", "nothing"} :
       Answer(j, w, e, answer)
  \/ Collect(j)
  \/ \E found \in {"minted", "reverted", "timeout"} : Receipt(j, found)

SnipeFails(j) == ResolveFails(j) \/ NoPublicStage(j) \/ ReadFails(j) \/ ReceiptFails(j)

Sweep(j) ==
  \/ \E gas \in GasCosts[j] : SweepRead(j, gas)
  \/ SweepFails(j)
  \/ SweepReadFails(j)
  \/ \E answer \in {"hash", "known", "nothing"} : SweepSend(j, answer)

World ==
  \/ \E tx \in pool, ok \in BOOLEAN : \E paid \in 1..tx.most : Block(tx, ok, paid)
  \/ Open

AllEnded == (\A j \in Jobs : pc[j] \in Ended) /\ UNCHANGED vars

Next ==
  \/ \E j \in Jobs : Snipe(j) \/ SnipeFails(j) \/ Sweep(j)
  \/ World
  \/ AllEnded

(***************************************************************************)
(* Every request has a timeout, the receipt wait a deadline, and the clock *)
(* reaches the stage.  A node need not include anything, and no read need  *)
(* fail.                                                                   *)
(***************************************************************************)
Fairness ==
  /\ \A j \in Jobs : WF_vars(Snipe(j)) /\ WF_vars(Sweep(j))
  /\ WF_vars(Open)

Spec == Init /\ [][Next]_vars /\ Fairness

-----------------------------------------------------------------------------
Txs(j) == {signed[j][w] : w \in DOMAIN signed[j]}
SpentOf(m) == m.paid + (IF m.ok THEN m.tx.value ELSE 0)

(* What the blocks took from the wallets for a snipe stays within the cap  *)
(* it was armed under (snipe.rs:999), whatever else spends from them.      *)
SpendStaysInCap ==
  \A j \in Jobs : kind[j] = "snipe" =>
    MapThenSumSet(SpentOf, {m \in mined : m.tx \in Txs(j)}) <= SpendCap

(* A wallet reported as minted or as reverted has just that in a block, by *)
(* the very transaction the snipe signed: not by another job's transaction *)
(* of the same nonce (snipe.rs:1180).                                      *)
ReportIsTrue ==
  \A j \in Jobs : \A w \in DOMAIN report[j] :
    /\ report[j][w] = "minted" => signed[j][w] \in Succeeded
    /\ report[j][w] = "reverted" => signed[j][w] \in Landed \ Succeeded

(* Whatever the endpoints and the chain do, a snipe and a sweep end.       *)
JobsEnd == \A j \in Jobs : <>(pc[j] \in Ended)

=============================================================================
