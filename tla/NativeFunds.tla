----------------------------- MODULE NativeFunds -----------------------------
(***************************************************************************)
(* The commands --fund and --withdraw (funds.rs): a payer sends the same   *)
(* amount to every wallet of the manifest, in one Multicall3 transaction   *)
(* or one transfer after the other; or every wallet sends what it holds to *)
(* the recipient.  A transfer is sent up to three times under one nonce,   *)
(* each time a receipt does not come at a higher fee.  Wallets are         *)
(* numbered by their place in the manifest, which is never empty           *)
(* (multi_wallet.rs); account code is left out, a check of it may fail at  *)
(* any time.                                                               *)
(***************************************************************************)
EXTENDS AccountChain, Sequences

CONSTANTS
  Payer,       \* the account of SPONSOR_KEY
  Recipients,  \* where --withdraw may be told to send
  Amount,      \* what --fund is told to send each wallet
  Bases,       \* max fees the fee estimate may come to
  BatchGas,    \* gas limit of the Multicall3 transaction; a transfer's is 1
  Attempts,    \* DIRECT_TRANSFER_MAX_ATTEMPTS
  Foreigners   \* bound: accounts some other program spends from

ASSUME NativeFundsAssumption ==
  /\ Accounts \subseteq Nat /\ Payer \in Accounts /\ Accounts # {Payer}
  /\ Recipients \subseteq Nat \ {Payer}
  /\ Amount \in Nat \ {0} /\ Bases \subseteq Nat \ {0} /\ BatchGas \in Nat \ {0}
  /\ Attempts \in Nat \ {0} /\ Foreigners \in Nat

VARIABLES
  command,    \* "fund" or "withdraw"
  route,      \* "batch": Multicall3 is there; "direct"
  recipient,  \* WITHDRAW_RECIPIENT
  doing,      \* where the command is
  plans,      \* the wallets --withdraw has planned for
  sub,        \* the nonce, base fee and balance a transfer is sent under
  attempt,    \* 1..Attempts
  bumps,      \* replacements: the fee is bumped only after a receipt's wait
  submitted,  \* the attempts a node has taken
  summary,    \* what the command tells of each wallet
  others      \* the accounts another program has spent from

run == <<command, route, recipient, doing, plans, sub, attempt, bumps, submitted, summary>>
fundsVars == <<chain, run, others>>

Unset == << >>
Wallets == Accounts \ {Payer}
Over == {"done", "broken", "aborted"}

FundsInit ==
  /\ ChainInit
  /\ command \in {"fund", "withdraw"} /\ route = "direct"
  /\ recipient \in Recipients
  /\ doing = "start" /\ plans = {}
  /\ sub = Unset /\ attempt = 0 /\ bumps = 0 /\ submitted = << >>
  /\ summary = Unset /\ others = {}

Doing(here) == doing = here
Left == Wallets \ DOMAIN summary
NextWallet == CHOOSE w \in Left : \A v \in Left : w <= v
Batch == command = "fund" /\ route = "batch"
Sender == IF command = "fund" THEN Payer ELSE NextWallet
Paid == IF Batch THEN Wallets ELSE IF command = "fund" THEN {NextWallet} ELSE {recipient}

(* initial_transaction_fees, then one bump for each replacement: FeeLadder *)
(* says how large a bump is.                                               *)
FeeAt(base, bump) == base + bump
MaximumFee(base) == FeeAt(base, Attempts - 1)

(* The command stops with an error, before or after it has sent something. *)
Stop(how) ==
  /\ doing' = how
  /\ plans' = {} /\ sub' = Unset /\ attempt' = 0 /\ bumps' = 0 /\ submitted' = << >>

(* One wallet is done, or with Multicall3 all of them.                     *)
Tell(told) ==
  LET of == IF Batch THEN Wallets ELSE {NextWallet} IN
    /\ summary' = With(summary, of, told)
    /\ sub' = Unset /\ attempt' = 0 /\ bumps' = 0 /\ submitted' = << >>
    /\ IF of = Left
         THEN doing' = "done" /\ plans' = {}
         ELSE doing' = "submit" /\ UNCHANGED plans

Told(what, value) == [what |-> what, value |-> value]

-----------------------------------------------------------------------------
(* Up to the confirmation *)

(* No key, the payer is in the manifest, a target with code of its own, no *)
(* RPC, a recipient that is a contract, an answer that cannot be read or   *)
(* too many requests three times; the user says no; code that has changed  *)
(* since: nothing has been sent, unless other wallets came before.         *)
Fails ==
  /\ doing \in {"start", "quote", "plan", "confirm", "submit"}
  /\ Stop(IF doing = "submit" THEN "broken" ELSE "aborted")
  /\ UNCHANGED <<chain, command, route, recipient, summary, others>>

StartFund(way) ==
  /\ Doing("start") /\ command = "fund"
  /\ route' = way /\ doing' = "quote"
  /\ UNCHANGED <<chain, command, recipient, plans, sub, attempt, bumps, submitted, summary,
                 others>>

StartWithdraw ==
  /\ Doing("start") /\ command = "withdraw" /\ doing' = "plan"
  /\ UNCHANGED <<chain, command, route, recipient, plans, sub, attempt, bumps, submitted,
                 summary, others>>

(* The value and the highest fees of all that is left to send.             *)
Required(base) ==
  Cardinality(Left) * Amount
    + (IF Batch THEN BatchGas ELSE Cardinality(Left)) * MaximumFee(base)

QuoteFunding(base) ==
  /\ Doing("quote")
  /\ \E view \in Views(Payer) :
       IF view.coins >= Required(base)
         THEN doing' = "confirm" /\ UNCHANGED <<plans, sub, attempt, bumps, submitted>>
         ELSE Stop("aborted")
  /\ UNCHANGED <<chain, command, route, recipient, summary, others>>

(* quote_withdrawal: the last attempt's fee must leave something to send.  *)
WorthIt(view, base) == view.coins > MaximumFee(base)

PlanWallet(base) ==
  /\ Doing("plan") /\ Left \ plans # {}
  /\ LET w == CHOOSE x \in Left \ plans : \A y \in Left \ plans : x <= y
     IN \E view \in Views(w) :
          IF w # recipient /\ WorthIt(view, base)
            THEN plans' = plans \cup {w} /\ UNCHANGED summary
            ELSE summary' = With(summary, {w}, Told("skipped", 0)) /\ UNCHANGED plans
  /\ UNCHANGED <<chain, command, route, recipient, doing, sub, attempt, bumps, submitted,
                 others>>

(* The recipient refuses the estimate of a wallet.                         *)
EstimateRefused ==
  /\ Doing("plan") /\ Left \ plans # {}
  /\ LET w == CHOOSE x \in Left \ plans : \A y \in Left \ plans : x <= y
     IN summary' = With(summary, {w}, Told("skipped", 0))
  /\ UNCHANGED <<chain, command, route, recipient, doing, plans, sub, attempt, bumps, submitted,
                 others>>

Planned ==
  /\ Doing("plan") /\ Left = plans
  /\ IF plans = {}
       THEN Stop("aborted")
       ELSE doing' = "confirm" /\ UNCHANGED <<plans, sub, attempt, bumps, submitted>>
  /\ UNCHANGED <<chain, command, route, recipient, summary, others>>

Confirm ==
  /\ Doing("confirm") /\ doing' = "submit"
  /\ UNCHANGED <<chain, command, route, recipient, plans, sub, attempt, bumps, submitted,
                 summary, others>>

-----------------------------------------------------------------------------
(* What a transfer is sent under is read again before each of them. *)

Submit(view, base) ==
  /\ sub' = [nonce |-> view.nonce, base |-> base, coins |-> view.coins]
  /\ attempt' = 1 /\ doing' = "send"
  /\ UNCHANGED <<plans, bumps, submitted, summary>>

FundingSubmission(base) ==
  /\ Doing("submit") /\ command = "fund"
  /\ \E view \in Views(Payer) :
       IF view.coins >= Required(base)
         THEN Submit(view, base)
         ELSE Stop("broken") /\ UNCHANGED summary
  /\ UNCHANGED <<chain, command, route, recipient, others>>

RefreshWithdrawal(base) ==
  /\ Doing("submit") /\ command = "withdraw"
  /\ \E view \in Views(NextWallet) :
       IF WorthIt(view, base) THEN Submit(view, base) ELSE Tell(Told("failed", 0))
  /\ UNCHANGED <<chain, command, route, recipient, others>>

(* The wallet's code is another than the one that was planned for, or the  *)
(* recipient refuses the estimate now.                                     *)
RefreshRefused ==
  /\ Doing("submit") /\ command = "withdraw"
  /\ Tell(Told("failed", 0))
  /\ UNCHANGED <<chain, command, route, recipient, others>>

-----------------------------------------------------------------------------
(* submit_transfer *)

(* SweepOnce is a mutant of Value, FreshNonce of Transaction.              *)
SweepOnce(most) == IF command = "withdraw" THEN sub.coins - FeeAt(sub.base, 0)
                   ELSE Amount * Cardinality(Paid)
Value(most) == IF command = "withdraw" THEN sub.coins - most ELSE Amount * Cardinality(Paid)

TransferGas == IF Batch THEN BatchGas ELSE 1

FreshNonce ==
  LET most == TransferGas * FeeAt(sub.base, bumps)
  IN [what |-> command, from |-> Sender, nonce |-> sub.nonce + Len(submitted), to |-> Paid,
      value |-> Value(most), most |-> most]
Transaction ==
  LET most == TransferGas * FeeAt(sub.base, bumps)
  IN [what |-> command, from |-> Sender, nonce |-> sub.nonce, to |-> Paid,
      value |-> Value(most), most |-> most]

(* What an error of submit_transfer makes of the wallet: --withdraw goes   *)
(* on after any, --fund after a revert and when no attempt was taken.      *)
Error(what) ==
  IF command = "withdraw" THEN Tell(Told("failed", 0))
  ELSE IF ~Batch /\ what \in {"reverted", "limited"} THEN Tell(Told(what, 0))
  ELSE Stop("broken") /\ UNCHANGED summary

Taken ==
  /\ Takes(Transaction)
  /\ pool' = pool \cup {Transaction}
  /\ submitted' = Append(submitted, Transaction)
  /\ doing' = "receipt"
  /\ UNCHANGED <<plans, sub, attempt, bumps, summary>>

Exhausted == IF submitted = << >> THEN "limited" ELSE "pending"
(* AsksAgain is a mutant of RateLimited.                                   *)
AsksAgain ==
  /\ attempt' = IF attempt < Attempts THEN attempt + 1 ELSE 1
  /\ UNCHANGED <<pool, doing, plans, sub, bumps, submitted, summary>>
(* A request that is answered with too many requests was not taken.        *)
RateLimited ==
  /\ IF attempt < Attempts
       THEN attempt' = attempt + 1 /\ UNCHANGED <<doing, plans, sub, bumps, submitted, summary>>
       ELSE Error(Exhausted)
  /\ UNCHANGED pool

(* Any other error leaves open whether the node took it.                   *)
BroadcastUncertain ==
  /\ \/ UNCHANGED pool
     \/ Takes(Transaction) /\ pool' = pool \cup {Transaction}
  /\ Error("uncertain")

Send ==
  /\ Doing("send")
  /\ Taken \/ RateLimited \/ BroadcastUncertain
  /\ UNCHANGED <<nonce, coins, mined, command, route, recipient, others>>

(* The block of whichever attempt was included; LastValue is a mutant of   *)
(* ConfirmedValue.                                                         *)
TransferReceipts == {m \in mined : \E k \in DOMAIN submitted : m.tx = submitted[k]}
LastValue(m) == submitted[Len(submitted)].value
ConfirmedValue(m) == m.tx.value

TransferReceipt ==
  /\ Doing("receipt")
  /\ \E m \in TransferReceipts :
       IF m.ok THEN Tell(Told(command, ConfirmedValue(m))) ELSE Error("reverted")
  /\ UNCHANGED <<chain, command, route, recipient, others>>

NoReceipt ==
  /\ Doing("receipt")
  /\ IF attempt < Attempts
       THEN /\ attempt' = attempt + 1 /\ bumps' = bumps + 1 /\ doing' = "send"
            /\ UNCHANGED <<plans, sub, submitted, summary>>
       ELSE Error("pending")
  /\ UNCHANGED <<chain, command, route, recipient, others>>

(* A read that fails, or too many requests until the deadline.             *)
ReceiptUncertain ==
  /\ Doing("receipt") /\ Error("uncertain")
  /\ UNCHANGED <<chain, command, route, recipient, others>>

-----------------------------------------------------------------------------
(* The chain, and other programs with the same keys. *)

BlockTakes(tx, ok, paid) == Include(tx, ok, paid) /\ UNCHANGED <<run, others>>

Foreign(a) ==
  /\ a \notin others /\ Cardinality(others) < Foreigners
  /\ \E view \in Views(a) :
       LET tx == [what |-> "foreign", from |-> a, nonce |-> view.nonce, to |-> {},
                  value |-> 1, most |-> 1]
       IN Takes(tx) /\ pool' = pool \cup {tx}
  /\ others' = others \cup {a}
  /\ UNCHANGED <<nonce, coins, mined, run>>

Program ==
  \/ \E way \in {"batch", "direct"} : StartFund(way)
  \/ StartWithdraw
  \/ \E base \in Bases :
       \/ QuoteFunding(base) \/ PlanWallet(base)
       \/ FundingSubmission(base) \/ RefreshWithdrawal(base)
  \/ Planned \/ Confirm
  \/ Send \/ TransferReceipt \/ NoReceipt

Refusals == Fails \/ EstimateRefused \/ RefreshRefused \/ ReceiptUncertain

Outside ==
  \/ \E tx \in pool, ok \in BOOLEAN : \E paid \in 1..tx.most : BlockTakes(tx, ok, paid)
  \/ \E a \in Accounts : Foreign(a)

IsOver == doing \in Over /\ UNCHANGED fundsVars

FundsNext == Program \/ Refusals \/ Outside \/ IsOver

(***************************************************************************)
(* Every request has a timeout, the receipt wait a deadline, and the user  *)
(* answers the question.                                                   *)
(***************************************************************************)
FundsSpec == FundsInit /\ [][FundsNext]_fundsVars /\ WF_fundsVars(Program)

-----------------------------------------------------------------------------
Received(w) ==
  MapThenSumSet(LAMBDA m : Credit(m.tx, w), {m \in mined : m.ok /\ m.tx.what = "fund"})
OnTheWay(w) == \E tx \in pool : tx.what = "fund" /\ w \in tx.to

(* However often a transfer is retried and replaced, and whichever of the  *)
(* attempts a block takes, no wallet is sent more than the amount          *)
(* (funds.rs:827: every attempt is signed under one nonce).                *)
FundedAtMostOnce == \A w \in Wallets : Received(w) <= Amount

(* The summary says what the blocks say: a wallet that is told funded has  *)
(* the amount, one that reverted or was rate limited has nothing and       *)
(* nothing is on its way; a wallet has withdrawn the value of the attempt  *)
(* that was included, not of the one sent last (funds.rs:871).             *)
SummaryIsTrue ==
  \A w \in DOMAIN summary :
    /\ summary[w].what = "fund" => Received(w) = Amount
    /\ summary[w].what \in {"reverted", "limited"} => Received(w) = 0 /\ ~OnTheWay(w)
    /\ summary[w].what = "withdraw" =>
         \E m \in mined : /\ m.ok /\ m.tx.from = w /\ m.tx.what = "withdraw"
                          /\ m.tx.value = summary[w].value

(* No attempt is refused for want of funds, the last and most expensive    *)
(* one included, unless another program has spent from the account         *)
(* (funds.rs:745, funds.rs:1134).                                          *)
AttemptsAreFunded ==
  Doing("send") /\ Sender \notin others /\ nonce[Sender] = sub.nonce =>
    /\ Cost(Transaction) <= coins[Sender]
    /\ Transaction.value > 0

(* Whatever the node answers, the command ends.                            *)
CommandEnds == <>(doing \in Over)

=============================================================================
