----------------------------- MODULE MintSession -----------------------------
(***************************************************************************)
(* A single-wallet mint session (command.rs): run_schedule watches the     *)
(* selected phases, launches one job at a time, and submit_replacements    *)
(* broadcasts a launched job's transaction with same-nonce replacements    *)
(* until a receipt settles it.  OpenSea, the RPC node and the chain are    *)
(* external: phases move, reads lag, sends fail after they arrived, and    *)
(* the owner may spend nonces of the same wallet elsewhere.                *)
(***************************************************************************)
EXTENDS Integers, FiniteSets

CONSTANTS
  Jobs,          \* the configured phases, numbered in their configured order
  Windows,       \* [starts, ends] records OpenSea may serve for a phase; one
                 \* without an end has its end beyond MaxTime
  Absent,        \* a phase OpenSea does not list at the moment
  MaxAttempts,   \* TRANSACTION_MAX_ATTEMPTS
  WakeLead,      \* STANDARD_WAKE_LEAD_SECONDS
  HotLead,       \* CALLDATA_HOT_LEAD_MS
  NodeLag,       \* how far the node's latest block may trail the clock
  MaxTime,       \* bound on the clock
  MaxNonce       \* bound on the wallet's transactions

ASSUME SessionAssumption ==
  /\ Jobs \subseteq Nat /\ Jobs # {} /\ IsFiniteSet(Jobs)
  /\ Windows \subseteq [starts: Nat, ends: Nat]
  /\ \A win \in Windows : win.starts < win.ends
  /\ Absent \notin Windows
  /\ MaxAttempts \in 1..10
  /\ WakeLead \in Nat /\ HotLead \in 0..WakeLead /\ NodeLag \in Nat
  /\ MaxTime \in Nat /\ MaxNonce \in Nat

VARIABLES
  now,             \* the wall clock
  served,          \* the phase windows OpenSea serves
  snapshot,        \* the phase windows the session last read
  blockTimestamp,  \* the time the session last assessed its jobs at
  refreshDue,      \* Instant::now() >= next_refresh
  jobs,            \* PhaseJobState of each job
  pc,              \* where the session is
  launch,          \* the job being executed
  chainNonce,      \* transactions of the wallet that are mined
  pool,            \* transactions some node knows and may still include
  mined            \* the session's transactions in blocks, with their status

session == <<snapshot, blockTimestamp, refreshDue, jobs, pc, launch>>
chain == <<chainNonce, pool, mined>>
vars == <<now, served, session, chain>>

Unfinished == {"pending", "suspended"}
NoLaunch == [job |-> 0, scheduled |-> FALSE, nonce |-> 0, attempt |-> 0, submitted |-> {}]

Timing(win, t) ==
  CASE t < win.starts -> "scheduled"
    [] t >= win.ends  -> "ended"
    [] OTHER          -> "immediate"

(***************************************************************************)
(* refresh_job_states: what an unfinished job becomes.  barred are the     *)
(* jobs the eligibility answer, the probes or the wallet limit hold back.  *)
(***************************************************************************)
Assess(windows, barred, t) ==
  [j \in Jobs |->
     IF jobs[j] \notin Unfinished THEN jobs[j]
     ELSE IF windows[j] = Absent \/ j \in barred THEN "suspended"
     ELSE IF Timing(windows[j], t) = "ended" THEN "suspended"
     ELSE "pending"]

Pending == {j \in Jobs : jobs[j] = "pending"}
Active == {j \in Pending : Timing(snapshot[j], blockTimestamp) = "immediate"}
Soonest == {j \in Pending : \A k \in Pending : snapshot[j].starts <= snapshot[k].starts}
IsFirst(j, S) == j \in S /\ \A k \in S : j <= k

(* runnable_job *)
IsRunnable(j, scheduled) ==
  \/ IsFirst(j, Active) /\ ~scheduled
  \/ /\ Active = {} /\ IsFirst(j, Soonest) /\ scheduled
     /\ now + WakeLead >= snapshot[j].starts

-----------------------------------------------------------------------------
(* apply_job_outcome *)

(* Job errors by name; "UnsafeMintAction" also stands for Compatibility.   *)
(* RetriesPending and RetriesEnded are mutants of MustStopSession.         *)
RetriesPending ==
  {"BroadcastOutcomeUncertain", "ReceiptTrackingUncertain", "ReplacementUnavailable",
   "PhaseEndedWithPendingTransaction", "UnsafeMintAction"}
RetriesEnded ==
  {"BroadcastOutcomeUncertain", "ReceiptTrackingUncertain", "PendingAfterRetries",
   "ReplacementUnavailable", "UnsafeMintAction"}
MustStopSession ==
  {"BroadcastOutcomeUncertain", "ReceiptTrackingUncertain", "PendingAfterRetries",
   "ReplacementUnavailable", "PhaseEndedWithPendingTransaction", "UnsafeMintAction"}

JobEnds(state, refresh) ==
  /\ jobs' = [jobs EXCEPT ![launch.job] = state]
  /\ refreshDue' = (refreshDue \/ refresh)
  /\ pc' = "schedule"
  /\ launch' = NoLaunch

JobFails(error) ==
  IF error \in MustStopSession
  THEN pc' = "stopped" /\ UNCHANGED <<jobs, refreshDue, launch>>
  ELSE JobEnds("suspended", error = "CollectionChanged")

-----------------------------------------------------------------------------
(* run_schedule *)

Finish ==
  /\ pc = "schedule"
  /\ \A j \in Jobs : jobs[j] \notin Unfinished
  /\ pc' = "finished"
  /\ UNCHANGED <<now, served, snapshot, blockTimestamp, refreshDue, jobs, launch, chain>>

Scheduling == pc = "schedule" /\ \E j \in Jobs : jobs[j] \in Unfinished

Refresh(barred) ==
  /\ Scheduling /\ refreshDue
  /\ snapshot' = served
  /\ blockTimestamp' = now
  /\ jobs' = Assess(served, barred, now)
  /\ refreshDue' = FALSE
  /\ UNCHANGED <<now, served, pc, launch, chain>>

(* A recoverable error defers the refresh, any other ends the session.     *)
RefreshFails(recoverable) ==
  /\ Scheduling /\ refreshDue
  /\ refreshDue' = (refreshDue /\ ~recoverable)
  /\ pc' = IF recoverable THEN pc ELSE "stopped"
  /\ UNCHANGED <<now, served, snapshot, blockTimestamp, jobs, launch, chain>>

Launch(j, scheduled) ==
  /\ Scheduling /\ ~refreshDue
  /\ IsRunnable(j, scheduled)
  /\ launch' = [NoLaunch EXCEPT !.job = j, !.scheduled = scheduled]
  /\ pc' = "prepare"
  /\ UNCHANGED <<now, served, snapshot, blockTimestamp, refreshDue, jobs, chain>>

WaitForProgress ==
  /\ Scheduling /\ ~refreshDue
  /\ ~\E j \in Jobs, scheduled \in BOOLEAN : IsRunnable(j, scheduled)
  /\ blockTimestamp' = now
  /\ UNCHANGED <<now, served, snapshot, refreshDue, jobs, pc, launch, chain>>

-----------------------------------------------------------------------------
(* execute_mint up to the first signature *)

PoolNonces == {tx.nonce : tx \in pool}
PendingNonce ==
  CHOOSE n \in chainNonce..(chainNonce + Cardinality(pool)) :
    n \notin PoolNonces /\ \A m \in chainNonce..(n - 1) : m \in PoolNonces

(* eth_getTransactionCount: a node may not know the latest transaction yet. *)
NonceReads == {n \in chainNonce - 1..PendingNonce : n >= 0}

(***************************************************************************)
(* prepare_single_wallet_launch reads nonce, fees and the collection       *)
(* before the phase opens; the collection must be what the session saw.    *)
(***************************************************************************)
PrepareLaunch(nonce) ==
  /\ pc = "prepare"
  /\ served[launch.job] = snapshot[launch.job]
  /\ launch' = [launch EXCEPT !.nonce = nonce]
  /\ pc' = "hot"
  /\ UNCHANGED <<now, served, snapshot, blockTimestamp, refreshDue, jobs, chain>>

PrepareFails(error) ==
  /\ pc = "prepare"
  /\ error = "CollectionChanged" => served[launch.job] # snapshot[launch.job]
  /\ JobFails(error)
  /\ UNCHANGED <<now, served, snapshot, blockTimestamp, chain>>

Ends == snapshot[launch.job].ends
HotPathOpen ==
  pc = "hot" /\ (launch.scheduled => now + HotLead >= snapshot[launch.job].starts)

(* request_single_wallet_action_hot, the funding check and the signature.  *)
ReceiveAction ==
  /\ HotPathOpen
  /\ now < Ends
  /\ pc' = "submit"
  /\ launch' = [launch EXCEPT !.attempt = 1]
  /\ UNCHANGED <<now, served, snapshot, blockTimestamp, refreshDue, jobs, chain>>

ActionFails(error) ==
  /\ HotPathOpen
  /\ error = "StageEnded" => now >= Ends
  /\ JobFails(error)
  /\ UNCHANGED <<now, served, snapshot, blockTimestamp, chain>>

-----------------------------------------------------------------------------
(* submit_replacements *)

Transaction == [job |-> launch.job, nonce |-> launch.nonce, attempt |-> launch.attempt]

(* The first attempt trusts the clock, the others the node's latest block. *)
PhaseClock ==
  IF launch.attempt = 1 THEN {now} ELSE {t \in (now - NodeLag)..now : t >= 0}

Submitting(t) == pc = "submit" /\ t \in PhaseClock

PhaseEnds(t) ==
  /\ Submitting(t) /\ t >= Ends
  /\ JobFails(IF launch.submitted = {} THEN "StageEnded"
              ELSE "PhaseEndedWithPendingTransaction")
  /\ UNCHANGED <<now, served, snapshot, blockTimestamp, chain>>

BlockUnreadable ==
  /\ pc = "submit" /\ launch.attempt > 1
  /\ JobFails("ReceiptTrackingUncertain")
  /\ UNCHANGED <<now, served, snapshot, blockTimestamp, chain>>

(* A node refuses a nonce that is already mined.                           *)
Broadcast(t) ==
  /\ Submitting(t) /\ t < Ends
  /\ launch.nonce >= chainNonce
  /\ pool' = pool \cup {Transaction}
  /\ launch' = [launch EXCEPT !.submitted = @ \cup {Transaction}]
  /\ pc' = "await"
  /\ UNCHANGED <<now, served, snapshot, blockTimestamp, refreshDue, jobs, chainNonce, mined>>

(* The send failed, or answered another hash; it may have arrived anyway.  *)
BroadcastFails(t, arrived) ==
  /\ Submitting(t) /\ t < Ends
  /\ arrived => launch.nonce >= chainNonce
  /\ pool' = IF arrived THEN pool \cup {Transaction} ELSE pool
  /\ JobFails("BroadcastOutcomeUncertain")
  /\ UNCHANGED <<now, served, snapshot, blockTimestamp, chainNonce, mined>>

(* StatusIgnored is a mutant of FinalState.                                *)
StatusIgnored(ok) == "completed"
FinalState(ok) == IF ok THEN "completed" ELSE "failed"

(* A receipt of any attempt settles the job: finalize_mined_receipt.       *)
SettleJob(tx, ok) ==
  /\ pc = "await"
  /\ tx \in launch.submitted
  /\ [tx |-> tx, ok |-> ok] \in mined
  /\ JobEnds(FinalState(ok), ok)
  /\ UNCHANGED <<now, served, snapshot, blockTimestamp, chain>>

TrackingLost ==
  /\ pc = "await"
  /\ JobFails("ReceiptTrackingUncertain")
  /\ UNCHANGED <<now, served, snapshot, blockTimestamp, chain>>

(* SameAttempt is a mutant of NextAttempt, OneTooMany of MayReplace.       *)
SameAttempt(n) == n
NextAttempt(n) == n + 1

OneTooMany == launch.attempt <= MaxAttempts
MayReplace == launch.attempt < MaxAttempts

(* The pending timeout passed: bump the fees and replace, with one nonce.  *)
Replace ==
  /\ pc = "await" /\ MayReplace
  /\ launch' = [launch EXCEPT !.attempt = NextAttempt(@)]
  /\ pc' = "submit"
  /\ UNCHANGED <<now, served, snapshot, blockTimestamp, refreshDue, jobs, chain>>

ReplacementFails ==
  /\ pc = "await" /\ MayReplace
  /\ JobFails("ReplacementUnavailable")
  /\ UNCHANGED <<now, served, snapshot, blockTimestamp, chain>>

AttemptsExhausted ==
  /\ pc = "await" /\ ~MayReplace
  /\ JobFails("PendingAfterRetries")
  /\ UNCHANGED <<now, served, snapshot, blockTimestamp, chain>>

-----------------------------------------------------------------------------
(* The world outside the session. *)

Tick ==
  /\ now < MaxTime
  /\ now' = now + 1
  /\ UNCHANGED <<served, session, chain>>

RefreshTimer ==
  /\ ~refreshDue
  /\ refreshDue' = TRUE
  /\ UNCHANGED <<now, served, snapshot, blockTimestamp, jobs, pc, launch, chain>>

MovePhase(j, win) ==
  /\ served' = [served EXCEPT ![j] = win]
  /\ UNCHANGED <<now, session, chain>>

(* Of the transactions with one nonce the chain includes one.              *)
Include(tx, ok) ==
  /\ tx \in pool /\ tx.nonce = chainNonce
  /\ chainNonce' = chainNonce + 1
  /\ mined' = mined \cup {[tx |-> tx, ok |-> ok]}
  /\ pool' = {other \in pool : other.nonce # tx.nonce}
  /\ UNCHANGED <<now, served, session>>

(* The owner uses the wallet elsewhere.                                    *)
ForeignTransaction ==
  /\ chainNonce < MaxNonce
  /\ chainNonce' = chainNonce + 1
  /\ pool' = {tx \in pool : tx.nonce # chainNonce}
  /\ UNCHANGED <<now, served, session, mined>>

Forget(tx) ==
  /\ tx \in pool
  /\ pool' = pool \ {tx}
  /\ UNCHANGED <<now, served, session, chainNonce, mined>>

-----------------------------------------------------------------------------
Init ==
  /\ now = 0
  /\ served \in [Jobs -> Windows \cup {Absent}]
  /\ snapshot = served
  /\ blockTimestamp = 0
  /\ refreshDue = FALSE
  /\ jobs \in [Jobs -> Unfinished]
  /\ \A j \in Jobs : served[j] = Absent => jobs[j] = "suspended"
  /\ pc = "schedule"
  /\ launch = NoLaunch
  /\ chainNonce = 0
  /\ pool = {}
  /\ mined = {}

Session ==
  \/ Finish
  \/ \E barred \in SUBSET Jobs : Refresh(barred)
  \/ \E recoverable \in BOOLEAN : RefreshFails(recoverable)
  \/ \E j \in Jobs, scheduled \in BOOLEAN : Launch(j, scheduled)
  \/ WaitForProgress
  \/ \E nonce \in NonceReads : PrepareLaunch(nonce)
  \/ \E error \in {"CollectionChanged", "Chain", "UnsafeMintAction"} : PrepareFails(error)
  \/ ReceiveAction
  \/ \E error \in {"StageEnded", "CalldataRetriesExhausted", "UnsafeMintAction"} :
       ActionFails(error)
  \/ \E t \in 0..MaxTime : PhaseEnds(t) \/ Broadcast(t)
  \/ BlockUnreadable
  \/ \E t \in 0..MaxTime, arrived \in BOOLEAN : BroadcastFails(t, arrived)
  \/ \E tx \in launch.submitted, ok \in BOOLEAN : SettleJob(tx, ok)
  \/ TrackingLost
  \/ Replace
  \/ ReplacementFails
  \/ AttemptsExhausted

World ==
  \/ Tick
  \/ RefreshTimer
  \/ \E j \in Jobs, win \in Windows \cup {Absent} : MovePhase(j, win)
  \/ \E tx \in pool, ok \in BOOLEAN : Include(tx, ok)
  \/ ForeignTransaction
  \/ \E tx \in pool : Forget(tx)

Next == Session \/ World

(***************************************************************************)
(* Every await of the session has a timeout or a bounded number of         *)
(* retries, and the clock advances.                                        *)
(***************************************************************************)
Spec == Init /\ [][Next]_vars /\ WF_vars(Session) /\ WF_vars(Tick)

-----------------------------------------------------------------------------
TransactionOf == [job: Jobs, nonce: Nat, attempt: 1..MaxAttempts]

(* Types of the session's and the chain's state.                           *)
TypeOK ==
  /\ now \in 0..MaxTime
  /\ served \in [Jobs -> Windows \cup {Absent}]
  /\ snapshot \in [Jobs -> Windows \cup {Absent}]
  /\ blockTimestamp \in 0..MaxTime
  /\ refreshDue \in BOOLEAN
  /\ jobs \in [Jobs -> {"pending", "suspended", "completed", "failed"}]
  /\ pc \in {"schedule", "prepare", "hot", "submit", "await", "stopped", "finished"}
  /\ launch \in [job: Jobs \cup {0}, scheduled: BOOLEAN, nonce: Nat,
                 attempt: 0..MaxAttempts, submitted: SUBSET TransactionOf]
  /\ chainNonce \in Nat
  /\ pool \in SUBSET TransactionOf
  /\ mined \in SUBSET [tx: TransactionOf, ok: BOOLEAN]

SentFor(j) == {tx \in pool \cup {m.tx : m \in mined} : tx.job = j}
MinedFor(j) == {m \in mined : m.tx.job = j}

(***************************************************************************)
(* However often a phase is suspended, resumed, replaced or timed out, the *)
(* wallet never pays for it twice (one nonce per launch, and no relaunch   *)
(* after an uncertain outcome: must_stop_session).                         *)
(***************************************************************************)
MintedAtMostOnce == \A j \in Jobs : Cardinality(MinedFor(j)) <= 1

(***************************************************************************)
(* "Stage suspended before broadcast": a job that will be tried again has  *)
(* nothing in flight, in any node's pool or in a block.                    *)
(***************************************************************************)
SuspendedIsUnsent ==
  \A j \in Jobs : jobs[j] \in Unfinished /\ launch.job # j => SentFor(j) = {}

(***************************************************************************)
(* What the session reports of a job is what the chain did with it, also   *)
(* when the receipt of an older attempt settles it.                        *)
(***************************************************************************)
OutcomeMatchesChain ==
  \A j \in Jobs :
    /\ jobs[j] = "completed" => \E m \in MinedFor(j) : m.ok
    /\ jobs[j] = "failed" => \E m \in MinedFor(j) : ~m.ok

(***************************************************************************)
(* A launched job is never left hanging: it settles, is suspended or stops *)
(* the session, after at most MaxAttempts timeouts.                        *)
(***************************************************************************)
LaunchSettles ==
  pc \in {"prepare", "hot", "submit", "await"} ~> pc \in {"schedule", "stopped"}
=============================================================================
