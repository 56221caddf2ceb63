--------------------------- MODULE MintSessionProofs ---------------------------
(***************************************************************************)
(* For any phases, windows, attempts and clock bounds: the session keeps   *)
(* its types, pays for no phase twice, suspends only what was never sent   *)
(* and reports of each phase what the chain did with it.  For any wallets, *)
(* stages and prices: the OpenSea client the session asks gives it only    *)
(* transactions that mint what was asked for, as the wallet that asked.    *)
(***************************************************************************)
EXTENDS MintSession, OpenSeaSession, FiniteSetTheorems, SequenceTheorems,
        WellFoundedInduction, TLAPS

(* What ever reached a node, as far as it can still have an effect.        *)
Sent == pool \cup {m.tx : m \in mined}

Executing == {"prepare", "hot", "submit", "await"}

(* The chain takes the transactions of the wallet in the order of their    *)
(* nonces, one for each.                                                   *)
Ordered ==
  /\ \A tx \in pool : tx.nonce >= chainNonce
  /\ \A m \in mined : m.tx.nonce < chainNonce
  /\ \A m, n \in mined : m.tx.nonce = n.tx.nonce => m = n

(* All that is sent for a phase shares a nonce: replacements keep it, and  *)
(* a phase is launched again only while nothing is sent for it.            *)
OneNonce == \A x, y \in Sent : x.job = y.job => x.nonce = y.nonce

(* A launch knows everything that was sent for its phase.                  *)
Launched ==
  /\ pc = "schedule" => launch = NoLaunch
  /\ pc \in Executing =>
       /\ launch.job \in Jobs
       /\ \A tx \in Sent : tx.job = launch.job => tx \in launch.submitted
  /\ pc \in {"prepare", "hot"} => launch.submitted = {}
  /\ pc \in {"submit", "await"} => launch.attempt >= 1
  /\ \A tx \in launch.submitted : tx.job = launch.job /\ tx.nonce = launch.nonce

(* A phase that may be launched has nothing sent for it.                   *)
Unsent ==
  \A j \in Jobs :
    jobs[j] \in Unfinished /\ (pc = "schedule" \/ launch.job # j) => \A tx \in Sent : tx.job # j

IInv == TypeOK /\ Ordered /\ OneNonce /\ Launched /\ Unsent /\ OutcomeMatchesChain
-----------------------------------------------------------------------------
LEMMA FixedLaunch ==
  /\ NoLaunch \in [job: Jobs \cup {0}, scheduled: BOOLEAN, nonce: Nat,
                   attempt: 0..MaxAttempts, submitted: SUBSET TransactionOf]
  /\ NoLaunch.submitted = {}
  /\ \A j \in Jobs, s \in BOOLEAN :
       LET l == [NoLaunch EXCEPT !.job = j, !.scheduled = s]
       IN /\ l \in [job: Jobs \cup {0}, scheduled: BOOLEAN, nonce: Nat,
                    attempt: 0..MaxAttempts, submitted: SUBSET TransactionOf]
          /\ l.job = j /\ l.submitted = {}
<1>1. /\ NoLaunch \in [job: Jobs \cup {0}, scheduled: BOOLEAN, nonce: Nat,
                       attempt: 0..MaxAttempts, submitted: SUBSET TransactionOf]
      /\ NoLaunch.submitted = {}
  BY SessionAssumption DEF NoLaunch
<1> QED
  BY <1>1

LEMMA InitInv == Init => IInv
<1> SUFFICES ASSUME Init PROVE IInv
  OBVIOUS
<1>1. TypeOK
  <2>1. jobs \in [Jobs -> {"pending", "suspended", "completed", "failed"}]
    BY DEF Init, Unfinished
  <2>2. now \in 0..MaxTime /\ blockTimestamp \in 0..MaxTime
    BY SessionAssumption DEF Init
  <2> QED
    BY <2>1, <2>2, FixedLaunch DEF Init, TypeOK
<1>2. Ordered /\ OneNonce /\ Unsent
  BY DEF Init, Ordered, OneNonce, Unsent, Sent
<1>3. Launched
  BY FixedLaunch DEF Init, Launched, Executing
<1>4. OutcomeMatchesChain
  BY DEF Init, OutcomeMatchesChain, Unfinished
<1> QED
  BY <1>1, <1>2, <1>3, <1>4 DEF IInv

(* The refreshes and the waiting leave the launches alone: what becomes    *)
(* unfinished was unfinished.                                              *)
LEMMA AssessTyped ==
  ASSUME TypeOK, NEW windows \in [Jobs -> Windows \cup {Absent}], NEW barred \in SUBSET Jobs, NEW t \in Nat
  PROVE  /\ Assess(windows, barred, t) \in [Jobs -> {"pending", "suspended", "completed", "failed"}]
         /\ \A j \in Jobs : IF jobs[j] \in Unfinished
                            THEN Assess(windows, barred, t)[j] \in Unfinished
                            ELSE Assess(windows, barred, t)[j] = jobs[j]
BY DEF TypeOK, Assess, Unfinished

LEMMA ScheduleKeeps ==
  ASSUME IInv, UNCHANGED <<now, served, launch, chain>>,
         snapshot' \in {snapshot, served}, blockTimestamp' \in {blockTimestamp, now},
         refreshDue' \in BOOLEAN,
         jobs' = jobs \/ \E barred \in SUBSET Jobs : jobs' = Assess(served, barred, now),
         pc = "schedule", pc' \in {"schedule", "finished", "stopped"}
  PROVE  IInv'
<1> USE DEF IInv, chain
<1>1. /\ jobs' \in [Jobs -> {"pending", "suspended", "completed", "failed"}]
      /\ \A j \in Jobs : IF jobs[j] \in Unfinished THEN jobs'[j] \in Unfinished
                         ELSE jobs'[j] = jobs[j]
  <2>1. now \in Nat
    BY SessionAssumption DEF TypeOK
  <2> QED
    BY <2>1, AssessTyped DEF TypeOK
<1>2. TypeOK'
  BY <1>1 DEF TypeOK
<1>3. Sent' = Sent
  BY DEF Sent
<1>4. Ordered' /\ OneNonce'
  BY <1>3 DEF Ordered, OneNonce
<1>5. Launched'
  BY <1>3, FixedLaunch DEF Launched, Executing
<1>6. Unsent'
  BY <1>1, <1>3 DEF Unsent
<1>7. OutcomeMatchesChain'
  BY <1>1 DEF OutcomeMatchesChain, Unfinished, MinedFor
<1> QED
  BY <1>2, <1>4, <1>5, <1>6, <1>7

-----------------------------------------------------------------------------
(* The ends of a job. *)

(* A job may end as suspended if nothing was sent for it, and with a       *)
(* receipt's status if that receipt is in a block.                         *)
LEMMA JobEndsKeeps ==
  ASSUME IInv, UNCHANGED <<now, served, snapshot, blockTimestamp, chain>>, pc \in Executing,
         NEW refresh \in BOOLEAN, NEW state, JobEnds(state, refresh),
         \/ state = "suspended" /\ launch.submitted = {}
         \/ \E tx \in launch.submitted, ok \in BOOLEAN :
              state = FinalState(ok) /\ [tx |-> tx, ok |-> ok] \in mined
  PROVE  IInv'
<1> USE DEF IInv, chain
<1>1. launch.job \in Jobs /\ \A tx \in Sent : tx.job = launch.job => tx \in launch.submitted
  BY DEF Launched
<1>2. /\ jobs' = [jobs EXCEPT ![launch.job] = state] /\ launch' = NoLaunch /\ pc' = "schedule"
      /\ refreshDue' = (refreshDue \/ refresh)
  BY DEF JobEnds
<1>3. state \in {"suspended", "completed", "failed"}
  BY DEF FinalState
<1>4. Sent' = Sent
  BY DEF Sent
<1>5. TypeOK'
  <2>1. refreshDue' \in BOOLEAN
    BY <1>2 DEF TypeOK
  <2>2. jobs' \in [Jobs -> {"pending", "suspended", "completed", "failed"}]
    BY <1>2, <1>3 DEF TypeOK
  <2> QED
    BY <1>2, <2>1, <2>2, FixedLaunch DEF TypeOK
<1>6. Ordered' /\ OneNonce'
  BY <1>4 DEF Ordered, OneNonce
<1>7. Launched'
  BY <1>2, <1>4, FixedLaunch DEF Launched, Executing
<1>8. Unsent'
  <2> SUFFICES ASSUME NEW j \in Jobs, jobs'[j] \in Unfinished, NEW tx \in Sent
               PROVE  tx.job # j
    BY <1>4 DEF Unsent
  <2>1. CASE j = launch.job
    <3>1. state \in Unfinished
      BY <1>1, <1>2, <2>1 DEF TypeOK
    <3>2. launch.submitted = {}
      BY <3>1 DEF FinalState, Unfinished
    <3> QED
      BY <1>1, <2>1, <3>2
  <2>2. CASE j # launch.job
    BY <1>2, <2>2 DEF Unsent, TypeOK
  <2> QED
    BY <2>1, <2>2
<1>9. OutcomeMatchesChain'
  <2> SUFFICES ASSUME NEW j \in Jobs
               PROVE  /\ jobs'[j] = "completed" => \E m \in MinedFor(j) : m.ok
                      /\ jobs'[j] = "failed" => \E m \in MinedFor(j) : ~m.ok
    BY DEF OutcomeMatchesChain, MinedFor
  <2>1. CASE j = launch.job /\ state # "suspended"
    <3>1. PICK tx \in launch.submitted, ok \in BOOLEAN :
            state = FinalState(ok) /\ [tx |-> tx, ok |-> ok] \in mined
      BY <2>1
    <3>2. tx.job = j
      BY <2>1 DEF Launched
    <3>3. [tx |-> tx, ok |-> ok] \in MinedFor(j)
      BY <3>1, <3>2 DEF MinedFor
    <3> QED
      BY <1>2, <2>1, <3>1, <3>3 DEF FinalState, TypeOK
  <2>2. CASE j # launch.job \/ state = "suspended"
    BY <1>2, <2>2 DEF OutcomeMatchesChain, TypeOK
  <2> QED
    BY <2>1, <2>2
<1> QED
  BY <1>5, <1>6, <1>7, <1>8, <1>9

(* An error that does not stop the session is one of before the broadcast. *)
LEMMA JobFailsKeeps ==
  ASSUME IInv, UNCHANGED <<now, served, snapshot, blockTimestamp, chain>>, pc \in Executing,
         NEW error, JobFails(error), error \in MustStopSession \/ launch.submitted = {}
  PROVE  IInv'
<1>1. CASE error \notin MustStopSession
  <2>1. JobEnds("suspended", error = "CollectionChanged")
    BY <1>1 DEF JobFails
  <2>2. (error = "CollectionChanged") \in BOOLEAN
    OBVIOUS
  <2> QED
    BY <1>1, <2>1, <2>2, JobEndsKeeps
<1>2. CASE error \in MustStopSession
  <2>1. pc' = "stopped" /\ UNCHANGED <<jobs, refreshDue, launch>>
    BY <1>2 DEF JobFails
  <2>2. Sent' = Sent
    BY DEF Sent, chain
  <2>3. TypeOK'
    BY <2>1 DEF IInv, TypeOK, chain
  <2>4. Ordered' /\ OneNonce' /\ OutcomeMatchesChain'
    BY <2>1, <2>2 DEF IInv, Ordered, OneNonce, OutcomeMatchesChain, MinedFor, chain
  <2>5. Launched' /\ Unsent'
    BY <2>1, <2>2 DEF IInv, Launched, Unsent, Executing
  <2> QED
    BY <2>3, <2>4, <2>5 DEF IInv
<1> QED
  BY <1>1, <1>2

-----------------------------------------------------------------------------
(* The steps of a launch. *)

(* While a launch goes on without sending, only it changes.                *)
LEMMA LaunchStepKeeps ==
  ASSUME IInv, UNCHANGED <<now, served, snapshot, blockTimestamp, refreshDue, jobs, chain>>,
         pc' \in Executing, Launched',
         launch' \in [job: Jobs \cup {0}, scheduled: BOOLEAN, nonce: Nat,
                      attempt: 0..MaxAttempts, submitted: SUBSET TransactionOf],
         pc # "schedule" => launch'.job = launch.job
  PROVE  IInv'
<1> USE DEF IInv, chain
<1>1. TypeOK'
  BY DEF TypeOK, Executing
<1>2. Sent' = Sent
  BY DEF Sent
<1>3. Ordered' /\ OneNonce' /\ OutcomeMatchesChain'
  BY <1>2 DEF Ordered, OneNonce, OutcomeMatchesChain, MinedFor
<1>4. Unsent'
  BY <1>2 DEF Unsent, Executing
<1> QED
  BY <1>1, <1>3, <1>4

LEMMA LaunchKeeps ==
  ASSUME IInv, NEW j \in Jobs, NEW scheduled \in BOOLEAN, Launch(j, scheduled)
  PROVE  IInv'
<1>1. /\ launch' \in [job: Jobs \cup {0}, scheduled: BOOLEAN, nonce: Nat,
                       attempt: 0..MaxAttempts, submitted: SUBSET TransactionOf]
      /\ launch'.job = j /\ launch'.submitted = {}
  BY FixedLaunch DEF Launch
<1>2. jobs[j] = "pending"
  BY DEF Launch, IsRunnable, IsFirst, Active, Soonest, Pending
<1>3. pc = "schedule" /\ pc' = "prepare"
  BY DEF Launch, Scheduling
<1>4. \A tx \in Sent : tx.job # j
  BY <1>2, <1>3 DEF IInv, Unsent, Unfinished
<1>5. Launched'
  BY <1>1, <1>3, <1>4 DEF Launch, Launched, Executing, Sent, chain
<1> QED
  BY <1>1, <1>3, <1>5, LaunchStepKeeps DEF Launch, Executing

LEMMA PrepareLaunchKeeps ==
  ASSUME IInv, NEW nonce \in NonceReads, PrepareLaunch(nonce)
  PROVE  IInv'
<1>1. nonce \in Nat
  BY DEF NonceReads
<1>2. /\ launch' \in [job: Jobs \cup {0}, scheduled: BOOLEAN, nonce: Nat,
                       attempt: 0..MaxAttempts, submitted: SUBSET TransactionOf]
      /\ launch'.job = launch.job /\ launch'.submitted = launch.submitted
  BY <1>1 DEF PrepareLaunch, IInv, TypeOK
<1>3. Launched'
  BY <1>2 DEF PrepareLaunch, IInv, Launched, Executing, Sent, chain
<1> QED
  BY <1>2, <1>3, LaunchStepKeeps DEF PrepareLaunch, Executing

LEMMA AttemptKeeps == IInv /\ (ReceiveAction \/ Replace) => IInv'
<1> SUFFICES ASSUME IInv, ReceiveAction \/ Replace PROVE IInv'
  OBVIOUS
<1>1. /\ pc \in {"hot", "await"} /\ pc' = "submit"
      /\ UNCHANGED <<now, served, snapshot, blockTimestamp, refreshDue, jobs, chain>>
  BY DEF ReceiveAction, Replace, HotPathOpen
<1>2. \E n \in 1..MaxAttempts : launch' = [launch EXCEPT !.attempt = n]
  BY SessionAssumption
  DEF ReceiveAction, Replace, MayReplace, NextAttempt, IInv, TypeOK, Launched
<1>3. /\ launch' \in [job: Jobs \cup {0}, scheduled: BOOLEAN, nonce: Nat,
                       attempt: 0..MaxAttempts, submitted: SUBSET TransactionOf]
      /\ launch'.job = launch.job /\ launch'.submitted = launch.submitted
      /\ launch'.nonce = launch.nonce /\ launch'.attempt >= 1
  BY <1>2, SessionAssumption DEF IInv, TypeOK
<1>4. Launched'
  BY <1>1, <1>3 DEF IInv, Launched, Executing, Sent, chain
<1> QED
  BY <1>1, <1>3, <1>4, LaunchStepKeeps DEF Executing

LEMMA SettleKeeps ==
  ASSUME IInv, NEW tx \in launch.submitted, NEW ok \in BOOLEAN, SettleJob(tx, ok)
  PROVE  IInv'
BY JobEndsKeeps DEF SettleJob, Executing

(* Each failure of a launch either stops the session or precedes the first *)
(* broadcast.                                                              *)
LEMMA FailuresKeep ==
  ASSUME IInv,
         \/ \E error \in {"CollectionChanged", "Chain", "UnsafeMintAction"} : PrepareFails(error)
         \/ \E error \in {"StageEnded", "CalldataRetriesExhausted", "UnsafeMintAction"} :
              ActionFails(error)
         \/ \E t \in 0..MaxTime : PhaseEnds(t)
         \/ BlockUnreadable \/ TrackingLost \/ ReplacementFails \/ AttemptsExhausted
  PROVE  IInv'
<1> USE DEF Executing
<1>1. ASSUME NEW error, PrepareFails(error) PROVE IInv'
  BY <1>1, JobFailsKeeps DEF PrepareFails, IInv, Launched
<1>2. ASSUME NEW error, ActionFails(error) PROVE IInv'
  BY <1>2, JobFailsKeeps DEF ActionFails, HotPathOpen, IInv, Launched
<1>3. ASSUME NEW t \in 0..MaxTime, PhaseEnds(t) PROVE IInv'
  <2>1. "PhaseEndedWithPendingTransaction" \in MustStopSession
    BY DEF MustStopSession
  <2> QED
    BY <1>3, <2>1, JobFailsKeeps DEF PhaseEnds, Submitting
<1>4. CASE BlockUnreadable \/ TrackingLost \/ ReplacementFails \/ AttemptsExhausted
  <2>1. {"ReceiptTrackingUncertain", "ReplacementUnavailable", "PendingAfterRetries"}
          \subseteq MustStopSession
    BY DEF MustStopSession
  <2> QED
    BY <1>4, <2>1, JobFailsKeeps
    DEF BlockUnreadable, TrackingLost, ReplacementFails, AttemptsExhausted
<1> QED
  BY <1>1, <1>2, <1>3, <1>4

-----------------------------------------------------------------------------
(* What is sent. *)

LEMMA TransactionTyped ==
  ASSUME IInv, pc = "submit"
  PROVE  /\ Transaction \in TransactionOf
         /\ Transaction.job = launch.job /\ Transaction.nonce = launch.nonce
BY DEF IInv, TypeOK, Launched, Executing, Transaction, TransactionOf

(* A transaction of the launch fits among those sent already.              *)
LEMMA SendingKeeps ==
  ASSUME IInv, pc = "submit", launch.nonce >= chainNonce,
         pool' = pool \cup {Transaction}, UNCHANGED <<jobs, chainNonce, mined>>,
         pc' \in {"await", "stopped"}, launch'.job = launch.job
  PROVE  /\ Sent' = Sent \cup {Transaction}
         /\ Ordered' /\ OneNonce' /\ Unsent' /\ OutcomeMatchesChain'
<1> USE TransactionTyped DEF IInv
<1>1. Sent' = Sent \cup {Transaction}
  BY DEF Sent
<1>2. \A tx \in Sent : tx.job = launch.job => tx.nonce = launch.nonce
  BY DEF Launched, Executing
<1>3. Ordered'
  BY DEF Ordered
<1>4. OneNonce'
  BY <1>1, <1>2 DEF OneNonce
<1>5. Unsent'
  BY <1>1 DEF Unsent
<1>6. OutcomeMatchesChain'
  BY DEF OutcomeMatchesChain, MinedFor
<1> QED
  BY <1>1, <1>3, <1>4, <1>5, <1>6

LEMMA BroadcastKeeps == ASSUME IInv, NEW t \in 0..MaxTime, Broadcast(t) PROVE IInv'
<1>1. /\ pc = "submit" /\ pc' = "await" /\ launch.nonce >= chainNonce
      /\ pool' = pool \cup {Transaction}
      /\ launch' = [launch EXCEPT !.submitted = @ \cup {Transaction}]
      /\ UNCHANGED <<now, served, snapshot, blockTimestamp, refreshDue, jobs, chainNonce, mined>>
  BY DEF Broadcast, Submitting
<1>2. Transaction \in TransactionOf
  BY <1>1, TransactionTyped
<1>3. /\ launch' \in [job: Jobs \cup {0}, scheduled: BOOLEAN, nonce: Nat,
                       attempt: 0..MaxAttempts, submitted: SUBSET TransactionOf]
      /\ launch'.submitted = launch.submitted \cup {Transaction}
      /\ launch'.job = launch.job /\ launch'.nonce = launch.nonce
      /\ launch'.attempt = launch.attempt
  BY <1>1, <1>2 DEF IInv, TypeOK
<1>4. TypeOK'
  BY <1>1, <1>2, <1>3 DEF IInv, TypeOK
<1>5. /\ Sent' = Sent \cup {Transaction}
      /\ Ordered' /\ OneNonce' /\ Unsent' /\ OutcomeMatchesChain'
  BY <1>1, <1>3, SendingKeeps
<1>6. Launched'
  BY <1>1, <1>3, <1>5, TransactionTyped DEF IInv, Launched, Executing
<1> QED
  BY <1>4, <1>5, <1>6 DEF IInv

(* An uncertain broadcast stops the session, arrived or not.               *)
LEMMA BroadcastFailsKeeps ==
  ASSUME IInv, NEW t \in 0..MaxTime, NEW arrived \in BOOLEAN, BroadcastFails(t, arrived)
  PROVE  IInv'
<1>1. /\ pc = "submit" /\ JobFails("BroadcastOutcomeUncertain")
      /\ UNCHANGED <<now, served, snapshot, blockTimestamp, chainNonce, mined>>
  BY DEF BroadcastFails, Submitting
<1>2. "BroadcastOutcomeUncertain" \in MustStopSession
  BY DEF MustStopSession
<1>3. CASE arrived
  <2>1. pc' = "stopped" /\ UNCHANGED <<jobs, refreshDue, launch>>
    BY <1>1, <1>2 DEF JobFails
  <2>2. launch.nonce >= chainNonce /\ pool' = pool \cup {Transaction}
    BY <1>3 DEF BroadcastFails
  <2>3. Ordered' /\ OneNonce' /\ Unsent' /\ OutcomeMatchesChain'
    BY <1>1, <2>1, <2>2, SendingKeeps
  <2>4. TypeOK'
    BY <1>1, <2>1, <2>2, TransactionTyped DEF IInv, TypeOK
  <2>5. Launched'
    BY <2>1 DEF IInv, Launched, Executing
  <2> QED
    BY <2>3, <2>4, <2>5 DEF IInv
<1>4. CASE ~arrived
  BY <1>1, <1>2, <1>4, JobFailsKeeps DEF BroadcastFails, Executing, chain
<1> QED
  BY <1>3, <1>4

-----------------------------------------------------------------------------
(* The world only ever reduces what is sent. *)
LEMMA WorldKeeps ==
  ASSUME IInv, UNCHANGED <<snapshot, blockTimestamp, jobs, pc, launch>>,
         now' \in 0..MaxTime, served' \in [Jobs -> Windows \cup {Absent}], refreshDue' \in BOOLEAN,
         chainNonce' \in Nat, pool' \subseteq pool, mined \subseteq mined',
         mined' \subseteq [tx: TransactionOf, ok: BOOLEAN],
         \A m \in mined' \ mined : m.tx \in pool,
         Ordered'
  PROVE  IInv'
<1> USE DEF IInv
<1>1. TypeOK'
  BY DEF TypeOK
<1>2. Sent' \subseteq Sent
  BY DEF Sent
<1>3. OneNonce' /\ Launched' /\ Unsent'
  BY <1>2 DEF OneNonce, Launched, Unsent
<1>4. OutcomeMatchesChain'
  BY DEF OutcomeMatchesChain, MinedFor
<1> QED
  BY <1>1, <1>3, <1>4

LEMMA IncludeKeeps ==
  ASSUME IInv, NEW tx \in pool, NEW ok \in BOOLEAN, Include(tx, ok)
  PROVE  IInv'
<1>1. /\ tx \in TransactionOf /\ tx.nonce = chainNonce /\ chainNonce' = chainNonce + 1
      /\ chainNonce \in Nat
      /\ mined' = mined \cup {[tx |-> tx, ok |-> ok]}
      /\ pool' = {other \in pool : other.nonce # tx.nonce}
  BY DEF Include, IInv, TypeOK
<1>2. \A other \in pool : other.nonce \in Nat
  BY DEF IInv, TypeOK, TransactionOf
<1>3. \A m \in mined : m.tx.nonce \in Nat
  BY DEF IInv, TypeOK, TransactionOf
<1>4. Ordered'
  BY <1>1, <1>2, <1>3 DEF IInv, Ordered
<1> QED
  BY <1>1, <1>4, WorldKeeps DEF Include, session, IInv, TypeOK

LEMMA NextKeeps == IInv /\ [Next]_vars => IInv'
<1> SUFFICES ASSUME IInv, [Next]_vars PROVE IInv'
  OBVIOUS
<1>1. CASE Finish \/ WaitForProgress \/ (\E barred \in SUBSET Jobs : Refresh(barred))
           \/ \E recoverable \in BOOLEAN : RefreshFails(recoverable)
  BY <1>1, ScheduleKeeps
  DEF Finish, WaitForProgress, Refresh, RefreshFails, Scheduling, IInv, TypeOK, chain
<1>2. CASE Session
  BY <1>1, <1>2, LaunchKeeps, PrepareLaunchKeeps, AttemptKeeps, SettleKeeps, FailuresKeep,
     BroadcastKeeps, BroadcastFailsKeeps
  DEF Session
<1>3. CASE Tick \/ RefreshTimer \/ \E j \in Jobs, win \in Windows \cup {Absent} : MovePhase(j, win)
  <2>1. /\ UNCHANGED <<snapshot, blockTimestamp, jobs, pc, launch, chainNonce, pool, mined>>
        /\ now' \in 0..MaxTime /\ served' \in [Jobs -> Windows \cup {Absent}]
        /\ refreshDue' \in BOOLEAN
    <3>1. CASE Tick
      BY <3>1, SessionAssumption DEF Tick, session, chain, IInv, TypeOK
    <3>2. CASE RefreshTimer
      BY <3>2 DEF RefreshTimer, chain, IInv, TypeOK
    <3>3. CASE \E j \in Jobs, win \in Windows \cup {Absent} : MovePhase(j, win)
      BY <3>3 DEF MovePhase, session, chain, IInv, TypeOK
    <3> QED
      BY <1>3, <3>1, <3>2, <3>3
  <2>2. Ordered'
    BY <2>1 DEF IInv, Ordered
  <2> QED
    BY <2>1, <2>2, WorldKeeps DEF IInv, TypeOK
<1>4. CASE ForeignTransaction \/ \E tx \in pool : Forget(tx)
  <2>1. /\ UNCHANGED <<now, served, snapshot, blockTimestamp, refreshDue, jobs, pc, launch, mined>>
        /\ pool' \subseteq pool /\ chainNonce' \in {chainNonce, chainNonce + 1}
        /\ chainNonce' # chainNonce => \A tx \in pool' : tx.nonce # chainNonce
    BY <1>4 DEF ForeignTransaction, Forget, session
  <2>2. chainNonce \in Nat /\ (\A tx \in pool : tx.nonce \in Nat) /\ \A m \in mined : m.tx.nonce \in Nat
    BY DEF IInv, TypeOK, TransactionOf
  <2>3. Ordered'
    BY <2>1, <2>2 DEF IInv, Ordered
  <2> QED
    BY <2>1, <2>2, <2>3, WorldKeeps DEF IInv, TypeOK
<1>5. CASE UNCHANGED vars
  BY <1>5 DEF vars, session, chain, IInv, TypeOK, Ordered, OneNonce, Launched, Unsent,
              OutcomeMatchesChain, Sent, MinedFor
<1> QED
  BY <1>2, <1>3, <1>4, <1>5, IncludeKeeps DEF Next, World

LEMMA SessionInvariant == Spec => []IInv
BY InitInv, NextKeeps, PTL DEF Spec

-----------------------------------------------------------------------------
(* Whatever OpenSea, the node and the owner do: the session stays in known *)
(* states, launches configured phases only and bounds their attempts.      *)
THEOREM SessionTypeCorrect == Spec => []TypeOK
<1>1. IInv => TypeOK
  BY DEF IInv
<1> QED
  BY <1>1, SessionInvariant, PTL

(* apply_job_outcome and must_stop_session: no phase is mined for twice,   *)
(* through any number of replacements, suspensions and relaunches, also    *)
(* when a send that failed arrived nevertheless.                           *)
THEOREM PhaseMintedAtMostOnce == Spec => []MintedAtMostOnce
<1>1. IInv => MintedAtMostOnce
  <2> SUFFICES ASSUME IInv, NEW j \in Jobs PROVE Cardinality(MinedFor(j)) <= 1
    BY DEF MintedAtMostOnce
  <2>1. \A m, n \in MinedFor(j) : m = n
    BY DEF IInv, OneNonce, Ordered, Sent, MinedFor
  <2>2. CASE MinedFor(j) = {}
    BY <2>2, FS_EmptySet
  <2>3. CASE \E m : m \in MinedFor(j)
    <3>1. PICK m : m \in MinedFor(j)
      BY <2>3
    <3>2. MinedFor(j) = {m}
      BY <2>1, <3>1
    <3> QED
      BY <3>2, FS_Singleton
  <2> QED
    BY <2>2, <2>3
<1> QED
  BY <1>1, SessionInvariant, PTL

(* "Stage suspended before broadcast" is true of every suspended phase:    *)
(* nothing of it is in a pool or a block when it is tried again.           *)
THEOREM SuspendedWasNeverSent == Spec => []SuspendedIsUnsent
<1>1. IInv => SuspendedIsUnsent
  <2> SUFFICES ASSUME IInv, NEW j \in Jobs, jobs[j] \in Unfinished, launch.job # j
               PROVE  SentFor(j) = {}
    BY DEF SuspendedIsUnsent
  <2> QED
    BY DEF IInv, Unsent, Sent, SentFor
<1> QED
  BY <1>1, SessionInvariant, PTL

(* finalize_mined_receipt: a phase reported completed or failed has a      *)
(* transaction in a block with that status.                                *)
THEOREM SessionReportsChain == Spec => []OutcomeMatchesChain
<1>1. IInv => OutcomeMatchesChain
  BY DEF IInv
<1> QED
  BY <1>1, SessionInvariant, PTL


-----------------------------------------------------------------------------
(* The OpenSea client *)

(* A smallest number is one of the numbers.                                *)
LEMMA MinIsThere ==
  ASSUME NEW S \in SUBSET Nat, S # {}
  PROVE  Min(S) \in S
<1>1. PICK m \in S : \A k \in S : ~(<<k, m>> \in OpToRel(<, Nat))
  <2>1. \E m \in S : \A k \in S : ~(<<k, m>> \in OpToRel(<, Nat))
    BY NatLessThanWellFounded, WFMin
  <2> QED
    BY <2>1
<1>2. ASSUME NEW k \in S PROVE m <= k
  <2>1. k \in Nat /\ m \in Nat
    BY <1>1
  <2>2. ~(k < m)
    BY <1>1, <2>1 DEF OpToRel
  <2> QED
    BY <2>1, <2>2
<1> QED
  BY <1>2 DEF Min

LEMMA AskedAreNumbered == DOMAIN Asked \subseteq Nat
<1>1. Wallets \in Seq(DOMAIN Quantity)
  BY OpenSeaSessionAssumption
<1>2. Len(Wallets) \in Nat /\ DOMAIN Wallets = 1..Len(Wallets)
  BY <1>1
<1>3. CASE command = "single"
  <2>1. Asked = [i \in 1..1 |-> Wallets[i]]
    BY <1>3 DEF Asked
  <2> QED
    BY <2>1
<1>4. CASE command # "single"
  BY <1>2, <1>4 DEF Asked
<1> QED
  BY <1>3, <1>4

(* A swap with errors is never one to sign.                                *)
LEMMA ErrorsAreRefused ==
  ASSUME NEW errors
  PROVE  ErrorOf(errors) # "ok"
<1> DEFINE those == {i \in DOMAIN ErrorOrder : ErrorOrder[i] \in errors}
<1>1. CASE those # {}
  <2>1. those \in SUBSET Nat /\ those \subseteq 1..6
    BY DEF ErrorOrder
  <2>2. Min(those) \in 1..6
    BY <1>1, <2>1, MinIsThere
  <2>3. ErrorOf(errors) = ErrorOrder[Min(those)]
    BY <1>1 DEF ErrorOf
  <2>4. \A i \in 1..6 : ErrorOrder[i] # "ok"
    BY DEF ErrorOrder
  <2> QED
    BY <2>2, <2>3, <2>4
<1>2. CASE those = {}
  BY <1>2 DEF ErrorOf
<1> QED
  BY <1>1, <1>2

(* A swap that is accepted offers one transaction, and it fits.            *)
LEMMA AcceptedFits ==
  ASSUME NEW drop, NEW swap, NEW w, NEW s, Validated(drop, swap, w, s) = "ok"
  PROVE  /\ swap.txs[1].target # Zero /\ swap.txs[1].chain = ChainId
         /\ CallFits(drop, swap.txs[1], w, s)
<1>1. swap.errors = {}
  BY ErrorsAreRefused DEF Validated
<1> QED
  BY <1>1 DEF Validated

(* An answer that is accepted has one such swap for each wallet: the first *)
(* that does not fit refuses them all.                                     *)
LEMMA BatchFits ==
  ASSUME NEW answer, DecodedBatch(kind, answer, Asked, stage) = "ok"
  PROVE  /\ DOMAIN answer = DOMAIN Asked
         /\ \A i \in DOMAIN Asked : Validated(kind, answer[i], Asked[i], stage) = "ok"
<1> DEFINE verdict == [i \in DOMAIN Asked |-> Validated(kind, answer[i], Asked[i], stage)]
           wrong == {i \in DOMAIN Asked : verdict[i] # "ok"}
<1>1. DOMAIN answer = DOMAIN Asked
  BY DEF DecodedBatch
<1>2. DecodedBatch(kind, answer, Asked, stage) =
        IF wrong = {} THEN "ok" ELSE verdict[Min(wrong)]
  BY <1>1 DEF DecodedBatch
<1>3. wrong = {}
  <2> SUFFICES ASSUME wrong # {} PROVE FALSE
    OBVIOUS
  <2>1. wrong \in SUBSET Nat
    BY AskedAreNumbered
  <2>2. Min(wrong) \in wrong
    BY <2>1, MinIsThere
  <2> QED
    BY <1>2, <2>2
<1>4. \A i \in DOMAIN Asked : verdict[i] = "ok"
  BY <1>3
<1> QED
  BY <1>1, <1>4

(***************************************************************************)
(* Two stages of one index are a phase over token ranges that do not       *)
(* overlap, so a token is in one of them; and a stage of all tokens is     *)
(* alone in its index.                                                     *)
(***************************************************************************)
LEMMA OneStageForAToken ==
  ASSUME NEW stages \in StageLists, NEW index, NEW token \in Tokens,
         DecodesStages(kind, stages)
  PROVE  ~(Cardinality(Selected(stages, index, token)) > 1)
<1>1. ASSUME NEW i \in Selected(stages, index, token), NEW j \in Selected(stages, index, token),
             i # j
      PROVE  FALSE
  <2>1. /\ i \in DOMAIN stages /\ j \in DOMAIN stages
        /\ stages[i].index = stages[j].index
        /\ Supports(stages[i], token) /\ Supports(stages[j], token)
    BY DEF Selected
  <2> DEFINE a == stages[i].range
             b == stages[j].range
  <2>2. ~Overlap(a, b)
    BY <1>1, <2>1 DEF DecodesStages, Siblings
  <2>3. a # None /\ b # None /\ ~(a[1] <= b[2] /\ b[1] <= a[2])
    BY <2>2 DEF Overlap
  <2>4. a \in Nat \X Nat /\ b \in Nat \X Nat
    BY <2>1, <2>3, OpenSeaSessionAssumption
  <2>5. token \in a[1]..a[2] /\ token \in b[1]..b[2]
    BY <2>1, <2>3 DEF Supports
  <2> HIDE DEF a, b
  <2>6. a[1] \in Nat /\ a[2] \in Nat /\ b[1] \in Nat /\ b[2] \in Nat
    BY <2>4
  <2> QED
    BY <2>3, <2>5, <2>6
<1>2. CASE Selected(stages, index, token) = {}
  BY <1>2, FS_EmptySet
<1>3. CASE Selected(stages, index, token) # {}
  <2>1. PICK i : i \in Selected(stages, index, token)
    BY <1>3
  <2>2. Selected(stages, index, token) = {i}
    BY <1>1, <2>1
  <2>3. Cardinality({i}) = 1
    BY FS_Singleton
  <2> QED
    BY <2>2, <2>3
<1> QED
  BY <1>2, <1>3

(* A sign-in that came out as someone else, or whose answer was lost,      *)
(* leaves the client signed out, whatever session OpenSea now holds.       *)
SignedInAsTheWallet == authenticated => account \in {"wallet", "none"}

OpenSeaInv == SignedInAsTheWallet /\ ActionsAreBound /\ NeverAmbiguous

LEMMA FailingGoesBack ==
  ASSUME NEW error, FailsWith(error) \/ SignInFails(error)
  PROVE  request' \notin {"ready", "ambiguous"} /\ (told' = told \/ told' = None)
BY DEF FailsWith, SignInFails, Goto

LEMMA HotFailingGoesBack ==
  ASSUME NEW error, request = "hot", HotFails(error)
  PROVE  request' \notin {"ready", "ambiguous"} /\ (told' = told \/ told' = None)
BY FailingGoesBack DEF HotFails

(* Only a batch that was decoded makes transactions ready to be signed.    *)
LEMMA MintActionsBind ==
  ASSUME OpenSeaInv, NEW answer, MintActions(answer)
  PROVE  ActionsAreBound' /\ NeverAmbiguous' /\ (told' = told \/ told' = None)
<1>1. At("hot") /\ UNCHANGED <<command, kind, stage, authenticated, account>>
  BY DEF MintActions
<1>2. CASE Decoded(answer) = "ok"
  <2>1. /\ action' = [i \in DOMAIN Asked |-> answer[i].txs[1]]
        /\ request' = "ready" /\ told' = told
    BY <1>2 DEF MintActions, Goto
  <2>2. DecodedBatch(kind, answer, Asked, stage) = "ok" /\ ValueFits(answer)
    BY <1>2 DEF Decoded
  <2>3. Asked' = Asked
    BY <1>1 DEF Asked
  <2>4. ASSUME NEW i \in DOMAIN Asked
        PROVE  LET tx == answer[i].txs[1] w == Asked[i] IN
                 /\ tx.chain = ChainId /\ tx.target # Zero
                 /\ told.prices[w] # None => tx.value = told.prices[w][1] * Quantity[w]
                 /\ kind = "Erc721SeaDropV1" =>
                      /\ tx.nft = Drop /\ MinterOf(tx, w) = w /\ tx.quantity = Quantity[w]
                      /\ tx.selector = stage.type
                      /\ tx.stage = stage.index \/ stage.type = "PUBLIC_SALE"
    <3> DEFINE tx == answer[i].txs[1]
               w == Asked[i]
    <3>1. tx.chain = ChainId /\ tx.target # Zero /\ CallFits(kind, tx, w, stage)
      <4>1. Validated(kind, answer[i], w, stage) = "ok"
        BY <2>2, BatchFits
      <4> QED
        BY <4>1, AcceptedFits
    <3>2. told.prices[w] # None => tx.value = told.prices[w][1] * Quantity[w]
      BY <2>2 DEF ValueFits
    <3> HIDE DEF tx, w
    <3>3. kind = "Erc721SeaDropV1" =>
            /\ tx.nft = Drop /\ MinterOf(tx, w) = w /\ tx.quantity = Quantity[w]
            /\ tx.selector = stage.type
            /\ tx.stage = stage.index \/ stage.type = "PUBLIC_SALE"
      BY <3>1 DEF CallFits, MinterOf
    <3> QED
      BY <3>1, <3>2, <3>3 DEF tx, w
  <2>5. \A i \in DOMAIN Asked : action'[i] = answer[i].txs[1]
    BY <2>1
  <2>6. ActionsAreBound'
    BY <1>1, <2>1, <2>3, <2>4, <2>5 DEF ActionsAreBound
  <2> QED
    BY <2>1, <2>6 DEF NeverAmbiguous
<1>3. CASE Decoded(answer) # "ok"
  <2>1. HotFails(Decoded(answer))
    BY <1>3 DEF MintActions
  <2>2. request' \notin {"ready", "ambiguous"} /\ (told' = told \/ told' = None)
    BY <1>1, <2>1, HotFailingGoesBack DEF At
  <2> QED
    BY <2>2 DEF ActionsAreBound, NeverAmbiguous, At
<1> QED
  BY <1>2, <1>3

(* Every other step of the client leaves it short of a transaction, and    *)
(* learns of the wallet only in its session.                               *)
GoesBack ==
  /\ request' \notin {"ready", "ambiguous"}
  /\ told' # told /\ told' # None => account = "wallet"

LEMMA ResolvingGoesBack ==
  ASSUME NEW stages \in StageLists, NEW index, NEW token \in Tokens,
         Resolve(stages, index, token) \/ ResolveFails
  PROVE  GoesBack /\ UNCHANGED <<authenticated, account>>
<1>1. told' = told /\ UNCHANGED <<authenticated, account>>
  BY DEF Resolve, ResolveFails
<1>2. CASE ResolveFails
  BY <1>1, <1>2 DEF ResolveFails, Goto, GoesBack
<1>3. CASE Resolve(stages, index, token)
  <2>1. CASE ~DecodesStages(kind, stages) \/ Selected(stages, index, token) = {}
    BY <1>1, <1>3, <2>1 DEF Resolve, Goto, GoesBack
  <2>2. CASE DecodesStages(kind, stages) /\ Selected(stages, index, token) # {}
    <3>1. ~(Cardinality(Selected(stages, index, token)) > 1)
      BY <2>2, OneStageForAToken
    <3> QED
      BY <1>1, <1>3, <2>2, <3>1 DEF Resolve, Goto, GoesBack
  <2> QED
    BY <2>1, <2>2
<1> QED
  BY <1>1, <1>2, <1>3 DEF GoesBack

LEMMA SigningInGoesBack ==
  ASSUME SignedInAsTheWallet, NEW answer, NEW who,
         RequestNonce(answer) \/ VerifyFails(answer) \/ Verify(who, answer)
  PROVE  GoesBack /\ SignedInAsTheWallet'
<1>1. CASE RequestNonce(answer)
  <2>1. authenticated' = FALSE
    BY <1>1 DEF RequestNonce
  <2>2. CASE answer = "ok"
    BY <1>1, <2>1, <2>2 DEF RequestNonce, GoesBack, SignedInAsTheWallet
  <2>3. CASE answer # "ok"
    BY <1>1, <2>1, <2>3, FailingGoesBack DEF RequestNonce, GoesBack, SignedInAsTheWallet
  <2> QED
    BY <2>2, <2>3
<1>2. CASE VerifyFails(answer)
  BY <1>2, FailingGoesBack DEF VerifyFails, GoesBack, SignedInAsTheWallet
<1>3. CASE Verify(who, answer)
  <2>1. SignedInAsTheWallet'
    BY <1>3 DEF Verify, SignedIn, SignedInAsTheWallet
  <2>2. CASE answer = "ok" /\ who = "wallet"
    BY <1>3, <2>1, <2>2 DEF Verify, GoesBack, Goto
  <2>3. CASE ~(answer = "ok" /\ who = "wallet")
    <3>1. SignInFails(IF answer = "ok" THEN "refused" ELSE answer)
      BY <1>3, <2>3 DEF Verify
    <3> QED
      BY <2>1, <3>1, FailingGoesBack DEF GoesBack
  <2> QED
    BY <2>2, <2>3
<1> QED
  BY <1>1, <1>2, <1>3

(* An answer about the wallet is given to a session, and the client only   *)
(* asks with one it knows to be the wallet's.                              *)
LEMMA QueryingGoesBack ==
  ASSUME SignedInAsTheWallet,
         (\E answer \in Answers : \E tells : Query(answer, tells)) \/ PersistedQueryUnknown
  PROVE  GoesBack /\ UNCHANGED <<authenticated, account>>
<1>1. CASE PersistedQueryUnknown
  BY <1>1 DEF PersistedQueryUnknown, GoesBack
<1>2. ASSUME NEW answer \in Answers, NEW tells, Query(answer, tells)
      PROVE  GoesBack /\ UNCHANGED <<authenticated, account>>
  <2>1. /\ MayAnswer(answer) /\ told' = (IF answer = "ok" THEN tells ELSE told)
        /\ UNCHANGED <<authenticated, account>>
    BY <1>2 DEF Query
  <2>2. request' \notin {"ready", "ambiguous"}
    BY <1>2 DEF Query, Goto
  <2>3. answer = "ok" => account = "wallet"
    BY <2>1 DEF MayAnswer, SignedInAsTheWallet
  <2> QED
    BY <2>1, <2>2, <2>3 DEF GoesBack
<1> QED
  BY <1>1, <1>2

LEMMA OthersGoBack ==
  ASSUME NEW c, Join(c) \/ Probe(c) \/ HotRequestFails(c) \/ CollectionChanged \/ ProbeFails
                \/ StageEnded \/ RefreshEligibility \/ LaunchPhase
  PROVE  GoesBack /\ UNCHANGED <<authenticated, account>>
<1>1. CASE Join(c)
  <2>1. UNCHANGED <<authenticated, account>>
    BY <1>1 DEF Join
  <2>2. CASE \E error : FailsWith(error)
    BY <2>1, <2>2, FailingGoesBack DEF GoesBack
  <2>3. CASE ~\E error : FailsWith(error)
    <3>1. told' = told /\ request' \in {"nonce", "hot", "probe"}
      BY <1>1, <2>3 DEF Join, Goto
    <3> QED
      BY <2>1, <3>1 DEF GoesBack
  <2> QED
    BY <2>2, <2>3
<1>2. CASE HotRequestFails(c)
  BY <1>2, HotFailingGoesBack DEF HotRequestFails, GoesBack, At
<1>3. CASE CollectionChanged \/ ProbeFails \/ StageEnded
  BY <1>3, FailingGoesBack DEF CollectionChanged, ProbeFails, StageEnded, GoesBack
<1>4. CASE Probe(c) \/ RefreshEligibility \/ LaunchPhase
  BY <1>4 DEF Probe, RefreshEligibility, LaunchPhase, Goto, GoesBack
<1> QED
  BY <1>1, <1>2, <1>3, <1>4

LEMMA OpenSeaKeeps ==
  ASSUME OpenSeaInv, [OpenSeaNext]_openSeaVars
  PROVE  OpenSeaInv' /\ (told' # told /\ told' # None => account = "wallet")
<1>1. ASSUME GoesBack, SignedInAsTheWallet'
      PROVE  OpenSeaInv' /\ (told' # told /\ told' # None => account = "wallet")
  BY <1>1 DEF OpenSeaInv, GoesBack, ActionsAreBound, NeverAmbiguous, At
<1>2. UNCHANGED <<authenticated, account>> => SignedInAsTheWallet'
  BY DEF OpenSeaInv, SignedInAsTheWallet
<1>3. ASSUME NEW stages \in StageLists, NEW index, NEW token \in Tokens,
             Resolve(stages, index, token)
      PROVE  GoesBack /\ SignedInAsTheWallet'
  BY <1>2, <1>3, ResolvingGoesBack
<1>4. CASE Client
  <2>1. ASSUME NEW answer, NEW who,
               RequestNonce(answer) \/ VerifyFails(answer) \/ Verify(who, answer)
        PROVE  GoesBack /\ SignedInAsTheWallet'
    BY <2>1, SigningInGoesBack DEF OpenSeaInv
  <2>2. CASE (\E answer \in Answers : \E tells : Query(answer, tells)) \/ PersistedQueryUnknown
    BY <1>1, <1>2, <2>2, QueryingGoesBack DEF OpenSeaInv
  <2>3. ASSUME NEW c, Join(c) \/ Probe(c) \/ HotRequestFails(c)
        PROVE  GoesBack /\ SignedInAsTheWallet'
    BY <1>2, <2>3, OthersGoBack
  <2>4. ASSUME NEW answer, MintActions(answer)
        PROVE  OpenSeaInv' /\ (told' # told /\ told' # None => account = "wallet")
    <3>1. SignedInAsTheWallet'
      BY <1>2, <2>4 DEF MintActions
    <3> QED
      BY <2>4, <3>1, MintActionsBind DEF OpenSeaInv
  <2> QED
    BY <1>1, <1>3, <1>4, <2>1, <2>2, <2>3, <2>4 DEF Client
<1>5. CASE ResolveFails
  <2>1. GoesBack /\ UNCHANGED <<authenticated, account>>
    BY <1>5 DEF ResolveFails, Goto, GoesBack
  <2> QED
    BY <1>1, <1>2, <2>1
<1>6. CASE CollectionChanged \/ ProbeFails \/ StageEnded \/ RefreshEligibility \/ LaunchPhase
  BY <1>1, <1>2, <1>6, OthersGoBack
<1>7. CASE Expire \/ UNCHANGED openSeaVars
  <2>1. UNCHANGED client /\ account' \in {account, "none"}
    BY <1>7 DEF Expire, openSeaVars
  <2>2. UNCHANGED <<command, kind, stage, request, authenticated, told, action>>
    BY <2>1 DEF client
  <2>3. Asked' = Asked
    BY <2>2 DEF Asked
  <2>4. ActionsAreBound'
    BY <2>2, <2>3 DEF OpenSeaInv, ActionsAreBound, At
  <2> QED
    BY <2>1, <2>2, <2>4 DEF OpenSeaInv, SignedInAsTheWallet, NeverAmbiguous
<1> QED
  BY <1>4, <1>5, <1>6, <1>7 DEF OpenSeaNext, Refusals, Stopped, Waiting

LEMMA InitOpenSea == OpenSeaInit => OpenSeaInv
BY DEF OpenSeaInit, OpenSeaInv, SignedInAsTheWallet, ActionsAreBound, NeverAmbiguous, At

LEMMA OpenSeaInvariant == OpenSeaSpec => []OpenSeaInv
<1>1. OpenSeaInv /\ [OpenSeaNext]_openSeaVars => OpenSeaInv'
  BY OpenSeaKeeps
<1> QED
  BY <1>1, InitOpenSea, PTL DEF OpenSeaSpec

(***************************************************************************)
(* Whatever OpenSea answers, what may be signed mints the quantity that    *)
(* was asked for, from the drop, for the wallet that will send it, at the  *)
(* price its last eligibility told: one wallet's swap that does not fit    *)
(* refuses the whole batch (opensea.rs:1282).  An ERC-1155 call is not     *)
(* decoded.                                                                *)
(***************************************************************************)
THEOREM SignedAsAsked == OpenSeaSpec => []ActionsAreBound
<1>1. OpenSeaInv => ActionsAreBound
  BY DEF OpenSeaInv
<1> QED
  BY <1>1, OpenSeaInvariant, PTL

(***************************************************************************)
(* The error for a selection of more than one stage is never given: what   *)
(* decoding accepts has one stage for each index and token                 *)
(* (opensea.rs:1703 for command.rs:2282).                                  *)
(***************************************************************************)
THEOREM OneStageIsChosen == OpenSeaSpec => []NeverAmbiguous
<1>1. OpenSeaInv => NeverAmbiguous
  BY DEF OpenSeaInv
<1> QED
  BY <1>1, OpenSeaInvariant, PTL

(***************************************************************************)
(* Whatever sign-ins are lost, refused or come out as someone else, what   *)
(* the client takes for the wallet's eligibility was told to the wallet's  *)
(* session (opensea.rs:487).                                               *)
(***************************************************************************)
THEOREM EligibilityIsTheWallets == OpenSeaSpec => ToldAsTheWallet
<1>1. OpenSeaInv /\ [OpenSeaNext]_openSeaVars =>
        [told' # told /\ told' # None => account = "wallet"]_openSeaVars
  BY OpenSeaKeeps
<1> QED
  BY <1>1, OpenSeaInvariant, PTL DEF OpenSeaSpec, ToldAsTheWallet
================================================================================
