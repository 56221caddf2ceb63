--------------------------- MODULE MultiMintProofs ---------------------------
(***************************************************************************)
(* Proofs about MultiMint for every manifest, every number of phases and   *)
(* tokens, and whatever OpenSea, the nodes and the owners do.              *)
(***************************************************************************)
EXTENDS MultiMint, TLAPS

TxRecord ==
  [phase: Phases, asset: Nat, nonce: Nat, attempt: Nat, value: Nat, fee: Int]
WorkRecord ==
  [step: {"idle", "send", "await", "forward", "ended"}, asset: Nat, nonce: Nat,
   attempt: Nat, value: Nat, estimate: Nat, sent: SUBSET TxRecord]
SeenRecord == [nonce: Nat, balance: Int, estimate: Nat]
MinedRecord == [wallet: Wallets, tx: TxRecord, ok: BOOLEAN]
ResultRecord == [phase: Phases, wallet: Wallets, ok: BOOLEAN]

Typed ==
  /\ phase \in Phases
  /\ batch \subseteq Wallets
  /\ seen \in [Wallets -> SeenRecord]
  /\ work \in [Wallets -> WorkRecord]
  /\ results \subseteq ResultRecord
  /\ chainNonce \in [Wallets -> Nat]
  /\ balance \in [Wallets -> Int]
  /\ pool \in [Wallets -> SUBSET TxRecord]
  /\ mined \subseteq MinedRecord

(* A transaction that is out, or in a block.                               *)
Out(w) == pool[w] \cup {m.tx : m \in {n \in mined : n.wallet = w}}

Busy(w) == work[w].step \in {"send", "await", "forward"}

-----------------------------------------------------------------------------
(***************************************************************************)
(* Why a wallet pays once.  All attempts at a mint or a transfer share one *)
(* nonce, whether they are pooled, mined or still to be sent by the worker *)
(* of the phase; and a nonce is mined once.                                *)
(***************************************************************************)
MinedBehind == \A m \in mined : m.tx.nonce < chainNonce[m.wallet]
PoolAhead == \A w \in Wallets : \A tx \in pool[w] : tx.nonce >= chainNonce[w]
NonceMinedOnce ==
  \A m, n \in mined : m.wallet = n.wallet /\ m.tx.nonce = n.tx.nonce => m = n

OneNonceEach ==
  \A w \in Wallets : \A t, u \in Out(w) :
    t.phase = u.phase /\ t.asset = u.asset => t.nonce = u.nonce

(* Nothing of a phase is out before its workers start.                     *)
Started == {"work", "stopped", "finished"}
Numbered ==
  \A w \in Wallets : \A tx \in Out(w) :
    /\ tx.phase <= phase
    /\ tx.phase = phase =>
         /\ pc \in Started
         /\ Busy(w) => \/ tx.asset < work[w].asset
                       \/ /\ work[w].step # "forward"
                          /\ tx.asset = work[w].asset /\ tx.nonce = work[w].nonce

Quiet == pc # "work" => \A w \in Wallets : work[w].step = "idle"
SentFits ==
  \A w \in Wallets : Busy(w) =>
    \A tx \in work[w].sent :
      /\ tx.phase = phase /\ tx.asset = work[w].asset
      /\ work[w].step # "forward" /\ tx.nonce = work[w].nonce

OnceInv ==
  /\ MinedBehind /\ PoolAhead /\ NonceMinedOnce
  /\ OneNonceEach /\ Numbered /\ Quiet /\ SentFits

-----------------------------------------------------------------------------
(* Why a completed wallet has forwarded everything: the worker turns to an *)
(* asset when the one before it is in a block.                             *)
Delivered(w, p, asset) ==
  \E m \in mined : m.wallet = w /\ m.tx.phase = p /\ m.ok /\ m.tx.asset = asset

Progress ==
  \A w \in Wallets : Busy(w) =>
    /\ work[w].asset <= Transfers(w)
    /\ \A asset \in 0..(work[w].asset - 1) : Delivered(w, phase, asset)

DoneInv == Progress /\ CompletedIsForwarded

-----------------------------------------------------------------------------
(***************************************************************************)
(* Why the transfers stay funded.  Of a wallet whose earlier workers all   *)
(* completed and whose owner left it alone, the pool holds at most the     *)
(* attempts at the present asset; so from the snapshot on, the balance     *)
(* only pays for what the requirement has counted.                         *)
(***************************************************************************)
Clean(w) == w \notin foreign /\ \A r \in results : r.wallet = w => r.ok
Cheap(w) == \A m \in MinedFor(w, phase) : m.tx.fee <= TopFee(seen[w].estimate)
Unmined(w) == \A m \in MinedFor(w, phase) : m.tx.asset # work[w].asset

Settled ==
  \A w \in Wallets : Clean(w) => \A tx \in pool[w] :
    /\ work[w].step \in {"send", "await"}
    /\ tx.phase = phase /\ tx.asset = work[w].asset
    /\ tx.nonce = work[w].nonce /\ tx.value = work[w].value

Attempted ==
  \A w \in Wallets : work[w].step \in {"send", "await"} => work[w].attempt <= MaxAttempts

Left(w) == Transfers(w) - work[w].asset
Budget(w) ==
  /\ pc = "hot" /\ w \in batch => balance[w] >= seen[w].balance
  /\ Busy(w) => /\ balance[w] >= Left(w) * TopFee(seen[w].estimate)
                /\ Unmined(w) => balance[w] >= work[w].value
                                               + (Left(w) + 1) * TopFee(seen[w].estimate)
Budgeted == \A w \in Wallets : Clean(w) /\ Cheap(w) => Budget(w)

FundsInv == Settled /\ Attempted /\ Budgeted

-----------------------------------------------------------------------------
(* What the steps change, in the terms the invariants speak of. *)

LEMMA IdleFacts ==
  /\ Idle \in WorkRecord
  /\ Idle.step = "idle" /\ Idle.asset = 0 /\ Idle.value = 0 /\ Idle.sent = {}
  BY DEF Idle, WorkRecord

LEMMA UnseenFacts == Unseen \in SeenRecord
  BY DEF Unseen, SeenRecord

(* Before the workers start: what is known of the wallets may change, the  *)
(* workers and the chain do not; and a phase is ready to fetch its actions *)
(* with a snapshot of every balance.                                       *)
PreparesMove ==
  /\ pc \notin Started /\ pc' # "work"
  /\ UNCHANGED <<phase, work, results, chain>>
  /\ batch' \subseteq Wallets
  /\ seen' \in [Wallets -> SeenRecord]
  /\ pc' = "hot" => \A w \in batch' : \/ seen'[w].balance = balance[w]
                                      \/ pc = "hot" /\ w \in batch /\ seen'[w] = seen[w]

LEMMA NonceReadsNat ==
  ASSUME Typed, NEW nonce \in Nonces, NEW w \in Wallets
  PROVE  nonce[w] \in Nat
  BY DEF Nonces, NonceReads

LEMMA CandidatesMove ==
  ASSUME Typed, NEW eligible \in SUBSET batch,
         NEW price \in [Wallets -> Prices \cup {Unpriced}], NEW nonce \in Nonces,
         NEW estimate \in [Wallets -> Estimates],
         Candidates(eligible, price, nonce, estimate)
  PROVE  PreparesMove
  <1>1. /\ pc = "candidates" /\ pc' \in {"stopped", "hot"}
        /\ batch' \subseteq eligible
        /\ UNCHANGED <<phase, work, results, chain>>
    BY DEF Candidates
  <1>2. seen' = [w \in Wallets |->
                  IF w \in batch'
                  THEN [nonce |-> nonce[w], balance |-> balance[w], estimate |-> estimate[w]]
                  ELSE Unseen]
    BY DEF Candidates
  <1>3. ASSUME NEW w \in Wallets
        PROVE  [nonce |-> nonce[w], balance |-> balance[w], estimate |-> estimate[w]]
                 \in SeenRecord
    BY NonceReadsNat, MultiMintAssumption DEF Typed, SeenRecord
  <1>4. seen' \in [Wallets -> SeenRecord]
    BY <1>2, <1>3, UnseenFacts
  <1>5. batch' \subseteq Wallets
    BY <1>1 DEF Typed
  <1>6. \A w \in batch' : seen'[w].balance = balance[w]
    BY <1>2, <1>5
  <1> QED BY <1>1, <1>4, <1>5, <1>6 DEF PreparesMove, Started

LEMMA PreparesMoves ==
  ASSUME Typed, PrepareAPhase \/ Tick,
         \A values \in [Wallets -> Prices] : ~FetchActions(values)
  PROVE  PreparesMove
  <1> USE DEF Typed, PreparesMove, Started, selection
  <1>1. ASSUME NEW eligible \in SUBSET Wallets, PrepareSessions(eligible)
        PROVE  PreparesMove
    BY <1>1 DEF PrepareSessions
  <1>2. CASE SessionsFail \/ SetupFails \/ WakeFails \/ CandidatesFail \/ FetchFails
    BY <1>2 DEF SessionsFail, SetupFails, WakeFails, CandidatesFail, FetchFails, Fetching, Stop
  <1>3. ASSUME NEW price \in [Wallets -> Prices \cup {Unpriced}],
               NEW estimate \in [Wallets -> Estimates], SetupFunding(price, estimate)
        PROVE  PreparesMove
    BY <1>3 DEF SetupFunding, NextAfterSetup
  <1>4. CASE Confirm
    BY <1>4 DEF Confirm
  <1>5. ASSUME NEW read \in Stages, RefreshStage(read) \/ Wake(read)
        PROVE  PreparesMove
    BY <1>5 DEF RefreshStage, Wake
  <1>6. CASE FetchAgain
    BY <1>6 DEF FetchAgain, Fetching
  <1>7. CASE Tick
    BY <1>7 DEF Tick
  <1> QED BY <1>1, <1>2, <1>3, <1>4, <1>5, <1>6, <1>7, CandidatesMove DEF PrepareAPhase

(* The workers start: with the snapshot the requirement was checked for.   *)
FetchMove ==
  /\ pc = "hot" /\ pc' \in {"stopped", "work"}
  /\ UNCHANGED <<phase, seen, results, chain>>
  /\ batch' \subseteq batch
  /\ work' \in [Wallets -> WorkRecord]
  /\ pc' # "work" => \A w \in Wallets : work'[w].step = "idle"
  /\ \A w \in Wallets :
       \/ work'[w].step = "idle"
       \/ /\ w \in batch
          /\ work'[w].step = "send" /\ work'[w].asset = 0 /\ work'[w].attempt = 1
          /\ work'[w].sent = {}
          /\ seen[w].balance >= work'[w].value + (Transfers(w) + 1) * TopFee(seen[w].estimate)

LEMMA TransfersNat == \A w \in Wallets : Transfers(w) \in Nat
  BY MultiMintAssumption DEF Transfers

LEMMA FetchMoves ==
  ASSUME Typed, NEW values \in [Wallets -> Prices], FetchActions(values)
  PROVE  FetchMove
  <1> DEFINE q(w) == [Idle EXCEPT !.step = "send", !.nonce = seen[w].nonce, !.attempt = 1,
                                  !.value = values[w], !.estimate = seen[w].estimate]
             funded == {w \in batch :
                          seen[w].balance >= Required(w, values[w], seen[w].estimate)}
  <1>1. /\ pc = "hot" /\ UNCHANGED <<phase, seen, results, chain>>
        /\ batch' = funded
        /\ pc' = IF funded = {} THEN "stopped" ELSE "work"
        /\ work' = [w \in Wallets |-> IF w \in funded THEN q(w) ELSE Idle]
    BY DEF FetchActions, Fetching
  <1>2. ASSUME NEW w \in Wallets
        PROVE  /\ q(w) \in WorkRecord
               /\ q(w).step = "send" /\ q(w).asset = 0 /\ q(w).attempt = 1 /\ q(w).sent = {}
               /\ q(w).value = values[w]
    <2>1. values[w] \in Nat /\ seen[w].nonce \in Nat /\ seen[w].estimate \in Nat
      BY MultiMintAssumption DEF Typed, SeenRecord
    <2> QED BY <2>1, IdleFacts DEF WorkRecord
  <1>3. \A w \in funded : /\ w \in batch
                          /\ seen[w].balance >= Required(w, values[w], seen[w].estimate)
    OBVIOUS
  <1>4. funded \subseteq Wallets
    BY DEF Typed
  <1> HIDE DEF q, funded
  <1>5. work' \in [Wallets -> WorkRecord]
    BY <1>1, <1>2, IdleFacts
  <1>6. ASSUME NEW w \in funded
        PROVE  seen[w].balance >= values[w] + (Transfers(w) + 1) * TopFee(seen[w].estimate)
    BY <1>3 DEF Required, TransactionCount
  <1>7. \A w \in Wallets :
          \/ work'[w].step = "idle"
          \/ /\ w \in batch
             /\ work'[w].step = "send" /\ work'[w].asset = 0 /\ work'[w].attempt = 1
             /\ work'[w].sent = {}
             /\ seen[w].balance >= work'[w].value + (Transfers(w) + 1) * TopFee(seen[w].estimate)
    BY <1>1, <1>2, <1>3, <1>6, IdleFacts
  <1>8. pc' # "work" => \A w \in Wallets : work'[w].step = "idle"
    BY <1>1, IdleFacts
  <1> QED BY <1>1, <1>3, <1>5, <1>7, <1>8 DEF FetchMove

(* A worker's step touches only its wallet, and of the chain only the pool.*)
WorkerFrame(w) ==
  /\ work' \in [Wallets -> WorkRecord]
  /\ \A v \in Wallets \ {w} : work'[v] = work[v]
  /\ UNCHANGED <<run, chainNonce, balance, mined, foreign>>

(* It sends the attempt it has prepared,                                   *)
Sends(w) ==
  /\ work[w].step = "send" /\ Transaction(w).nonce >= chainNonce[w]
  /\ pool' = [pool EXCEPT ![w] = @ \cup {Transaction(w)}]
  /\ results' = results
  /\ work'[w].step = "await" /\ work'[w].asset = work[w].asset
  /\ work'[w].nonce = work[w].nonce /\ work'[w].value = work[w].value
  /\ work'[w].attempt = work[w].attempt
  /\ work'[w].sent = work[w].sent \cup {Transaction(w)}

(* ends without success,                                                   *)
GivesUp(w) ==
  /\ Busy(w)
  /\ \/ pool' = pool
     \/ /\ work[w].step = "send" /\ Transaction(w).nonce >= chainNonce[w]
        /\ pool' = [pool EXCEPT ![w] = @ \cup {Transaction(w)}]
  /\ work'[w].step = "ended"
  /\ results' = results \cup {[phase |-> phase, wallet |-> w, ok |-> FALSE]}

(* finds its transaction in a block, and turns to the next asset or ends,  *)
Advances(w) ==
  /\ work[w].step = "await" /\ pool' = pool
  /\ \E tx \in work[w].sent : [wallet |-> w, tx |-> tx, ok |-> TRUE] \in mined
  /\ \/ /\ work[w].asset = Transfers(w)
        /\ work'[w].step = "ended"
        /\ results' = results \cup {[phase |-> phase, wallet |-> w, ok |-> TRUE]}
     \/ /\ work[w].asset # Transfers(w)
        /\ work'[w].step = "forward" /\ work'[w].asset = work[w].asset + 1
        /\ work'[w].value = 0 /\ work'[w].sent = {}
        /\ results' = results

(* or prepares another attempt, at the same asset.                         *)
Retries(w) ==
  /\ pool' = pool /\ results' = results
  /\ work'[w].step = "send" /\ work'[w].asset = work[w].asset
  /\ work'[w].value = work[w].value /\ work'[w].sent = work[w].sent
  /\ work'[w].attempt <= MaxAttempts
  /\ \/ work[w].step = "forward"
     \/ work[w].step = "await" /\ work'[w].nonce = work[w].nonce

LEMMA TransactionFacts ==
  ASSUME Typed, NEW w \in Wallets
  PROVE  /\ Transaction(w) \in TxRecord
         /\ Transaction(w).phase = phase /\ Transaction(w).asset = work[w].asset
         /\ Transaction(w).nonce = work[w].nonce /\ Transaction(w).value = work[w].value
  <1>1. work[w] \in WorkRecord
    BY DEF Typed
  <1>2. Fee(work[w].estimate, work[w].attempt) \in Int
    BY <1>1 DEF Fee, WorkRecord
  <1> QED BY <1>1, <1>2 DEF Transaction, TxRecord, WorkRecord, Typed

LEMMA EndsMove ==
  ASSUME Typed, NEW w \in Wallets, NEW ok, Ends(w, ok)
  PROVE  /\ work' \in [Wallets -> WorkRecord]
         /\ \A v \in Wallets \ {w} : work'[v] = work[v]
         /\ work'[w].step = "ended"
         /\ results' = results \cup {[phase |-> phase, wallet |-> w, ok |-> ok]}
  <1> DEFINE q == [Idle EXCEPT !.step = "ended"]
  <1>1. q \in WorkRecord /\ q.step = "ended"
    BY IdleFacts DEF WorkRecord
  <1>2. work' = [work EXCEPT ![w] = q]
    BY DEF Ends
  <1>3. results' = results \cup {[phase |-> phase, wallet |-> w, ok |-> ok]}
    BY DEF Ends
  <1> HIDE DEF q
  <1> QED BY <1>1, <1>2, <1>3 DEF Typed

LEMMA SendMove ==
  ASSUME Typed, NEW w \in Wallets, Send(w)
  PROVE  WorkerFrame(w) /\ Sends(w)
  <1> DEFINE tx == Transaction(w)
             q == [work[w] EXCEPT !.step = "await", !.sent = @ \cup {tx}]
  <1>1. work[w] \in WorkRecord /\ tx \in TxRecord
    BY TransactionFacts DEF Typed
  <1>2. /\ work[w].step = "send" /\ tx.nonce >= chainNonce[w]
        /\ pool' = [pool EXCEPT ![w] = @ \cup {tx}]
        /\ work' = [work EXCEPT ![w] = q]
        /\ UNCHANGED <<run, results, chainNonce, balance, mined, foreign>>
    BY DEF Send, Accepted
  <1> HIDE DEF tx
  <1>3. /\ q \in WorkRecord
        /\ q.step = "await" /\ q.asset = work[w].asset /\ q.nonce = work[w].nonce
        /\ q.value = work[w].value /\ q.attempt = work[w].attempt
        /\ q.sent = work[w].sent \cup {tx}
    BY <1>1 DEF WorkRecord
  <1> HIDE DEF q
  <1>4. work' \in [Wallets -> WorkRecord] /\ work'[w] = q /\ \A v \in Wallets \ {w} : work'[v] = work[v]
    BY <1>2, <1>3 DEF Typed
  <1> QED BY <1>2, <1>3, <1>4 DEF WorkerFrame, Sends, tx

LEMMA SendFailsMove ==
  ASSUME Typed, NEW w \in Wallets, NEW arrived \in BOOLEAN, SendFails(w, arrived)
  PROVE  WorkerFrame(w) /\ GivesUp(w)
  <1>1. Ends(w, FALSE)
    BY DEF SendFails
  <1>2. /\ work' \in [Wallets -> WorkRecord]
        /\ \A v \in Wallets \ {w} : work'[v] = work[v]
        /\ work'[w].step = "ended"
        /\ results' = results \cup {[phase |-> phase, wallet |-> w, ok |-> FALSE]}
    BY <1>1, EndsMove
  <1> QED BY <1>2 DEF SendFails, Accepted, Busy, WorkerFrame, GivesUp

LEMMA FailMove ==
  ASSUME Typed, NEW w \in Wallets,
         WorkerFails(w) \/ \E tx \in work[w].sent : Reverted(w, tx)
  PROVE  WorkerFrame(w) /\ GivesUp(w)
  <1>1. Ends(w, FALSE) /\ Busy(w) /\ UNCHANGED <<run, chain>>
    BY DEF WorkerFails, Reverted, Busy
  <1>2. /\ work' \in [Wallets -> WorkRecord]
        /\ \A v \in Wallets \ {w} : work'[v] = work[v]
        /\ work'[w].step = "ended"
        /\ results' = results \cup {[phase |-> phase, wallet |-> w, ok |-> FALSE]}
    BY <1>1, EndsMove
  <1> QED BY <1>1, <1>2 DEF WorkerFrame, GivesUp, chain

LEMMA ConfirmedMove ==
  ASSUME Typed, NEW w \in Wallets, NEW tx \in work[w].sent, Confirmed(w, tx)
  PROVE  WorkerFrame(w) /\ Advances(w)
  <1>1. /\ work[w].step = "await" /\ [wallet |-> w, tx |-> tx, ok |-> TRUE] \in mined
        /\ UNCHANGED <<run, chain>>
    BY DEF Confirmed
  <1>2. CASE IsLast(w)
    <2>1. Ends(w, TRUE)
      BY <1>2 DEF Confirmed
    <2>2. /\ work' \in [Wallets -> WorkRecord]
          /\ \A v \in Wallets \ {w} : work'[v] = work[v]
          /\ work'[w].step = "ended"
          /\ results' = results \cup {[phase |-> phase, wallet |-> w, ok |-> TRUE]}
      BY <2>1, EndsMove
    <2> QED BY <1>1, <1>2, <2>2 DEF WorkerFrame, Advances, chain, IsLast
  <1>3. CASE ~IsLast(w)
    <2> DEFINE next == work[w].asset + 1
               q == [Idle EXCEPT !.step = "forward", !.asset = next]
    <2>1. work' = [work EXCEPT ![w] = q] /\ results' = results
      BY <1>3 DEF Confirmed
    <2>2. next \in Nat
      BY DEF Typed, WorkRecord
    <2> HIDE DEF next
    <2>3. /\ q \in WorkRecord
          /\ q.step = "forward" /\ q.asset = next /\ q.value = 0 /\ q.sent = {}
      BY <2>2, IdleFacts DEF WorkRecord
    <2> HIDE DEF q
    <2> USE DEF next
    <2>4. work' \in [Wallets -> WorkRecord] /\ work'[w] = q /\ \A v \in Wallets \ {w} : work'[v] = work[v]
      BY <2>1, <2>3 DEF Typed
    <2> QED BY <1>1, <1>3, <2>1, <2>3, <2>4 DEF WorkerFrame, Advances, chain, IsLast
  <1> QED BY <1>2, <1>3

LEMMA ForwardMove ==
  ASSUME Typed, NEW w \in Wallets, NEW nonce \in NonceReads(w), NEW estimate \in Estimates,
         Forward(w, nonce, estimate)
  PROVE  WorkerFrame(w) /\ Retries(w)
  <1> DEFINE q == [work[w] EXCEPT !.step = "send", !.nonce = nonce, !.attempt = 1,
                                  !.estimate = estimate]
  <1>1. work[w] \in WorkRecord /\ nonce \in Nat /\ estimate \in Nat /\ 1 <= MaxAttempts
    BY MultiMintAssumption DEF Typed, NonceReads
  <1>2. /\ work[w].step = "forward" /\ UNCHANGED <<run, results, chain>>
        /\ work' = [work EXCEPT ![w] = q]
    BY DEF Forward
  <1>3. /\ q \in WorkRecord
        /\ q.step = "send" /\ q.asset = work[w].asset /\ q.value = work[w].value
        /\ q.sent = work[w].sent /\ q.attempt = 1
    BY <1>1 DEF WorkRecord
  <1> HIDE DEF q
  <1>4. work' \in [Wallets -> WorkRecord] /\ work'[w] = q /\ \A v \in Wallets \ {w} : work'[v] = work[v]
    BY <1>2, <1>3 DEF Typed
  <1> QED BY <1>1, <1>2, <1>3, <1>4 DEF WorkerFrame, Retries, chain

LEMMA ReplaceMove ==
  ASSUME Typed, NEW w \in Wallets, Replace(w)
  PROVE  WorkerFrame(w) /\ Retries(w)
  <1> DEFINE next == work[w].attempt + 1
             q == [work[w] EXCEPT !.step = "send", !.attempt = next, !.nonce = work[w].nonce]
  <1>1. work[w] \in WorkRecord /\ work[w].attempt \in Nat /\ MaxAttempts \in Nat
    BY MultiMintAssumption DEF Typed, WorkRecord
  <1>2. /\ work[w].step = "await" /\ work[w].attempt < MaxAttempts
        /\ UNCHANGED <<run, results, chain>>
        /\ work' = [work EXCEPT ![w] = q]
    BY DEF Replace, MayReplace, NextAttempt, ReplacementNonce
  <1>a. next \in Nat
    BY <1>1
  <1> HIDE DEF next
  <1>3. /\ q \in WorkRecord
        /\ q.step = "send" /\ q.asset = work[w].asset /\ q.value = work[w].value
        /\ q.sent = work[w].sent /\ q.attempt = next /\ q.nonce = work[w].nonce
    BY <1>1, <1>a DEF WorkRecord
  <1> HIDE DEF q
  <1>4. work' \in [Wallets -> WorkRecord] /\ work'[w] = q /\ \A v \in Wallets \ {w} : work'[v] = work[v]
    BY <1>2, <1>3 DEF Typed
  <1> QED BY <1>1, <1>2, <1>3, <1>4 DEF WorkerFrame, Retries, chain, next

LEMMA WorkerMoves ==
  ASSUME Typed, NEW w \in Wallets, Worker(w)
  PROVE  WorkerFrame(w) /\ (Sends(w) \/ GivesUp(w) \/ Advances(w) \/ Retries(w))
  BY SendMove, SendFailsMove, FailMove, ConfirmedMove, ForwardMove, ReplaceMove DEF Worker

(* The workers are joined: the next phase, or the end of the run.          *)
JoinMove ==
  /\ pc = "work" /\ \A w \in Wallets : ~Busy(w)
  /\ phase' \in Phases /\ batch' = {} /\ seen' \in [Wallets -> SeenRecord]
  /\ work' \in [Wallets -> WorkRecord] /\ \A w \in Wallets : work'[w].step = "idle"
  /\ UNCHANGED <<results, chain>>
  /\ \/ pc' \in {"stopped", "finished"} /\ phase' = phase
     \/ pc' = "sessions" /\ phase' = phase + 1

LEMMA JoinMoves == Typed /\ Join => JoinMove
  <1> SUFFICES ASSUME Typed, Join PROVE JoinMove
    OBVIOUS
  <1>1. /\ work' = [w \in Wallets |-> Idle] /\ seen' = [w \in Wallets |-> Unseen]
        /\ batch' = {} /\ pc = "work" /\ UNCHANGED <<results, chain>>
        /\ \A w \in Wallets : ~Busy(w)
    BY DEF Join, Running, Busy
  <1>2. \/ pc' \in {"stopped", "finished"} /\ phase' = phase
        \/ pc' = "sessions" /\ phase' = phase + 1
    BY DEF Join
  <1>3. phase' \in Phases
    BY DEF Join, Typed
  <1> QED BY <1>1, <1>2, <1>3, IdleFacts, UnseenFacts DEF JoinMove

(* A nonce of a wallet is used up in a block, by a transaction of the run, *)
(* or by one of its owner's.                                               *)
Uses(w) ==
  /\ UNCHANGED <<run, work, results>>
  /\ chainNonce' = [chainNonce EXCEPT ![w] = @ + 1]
  /\ pool' = [pool EXCEPT ![w] = {tx \in @ : tx.nonce # chainNonce[w]}]
  /\ balance' \in [Wallets -> Int] /\ \A v \in Wallets \ {w} : balance'[v] = balance[v]

Includes(w, tx, m) ==
  /\ tx \in pool[w] /\ tx.nonce = chainNonce[w]
  /\ m.wallet = w /\ m.tx = tx /\ mined' = mined \cup {m}
  /\ balance'[w] >= balance[w] - tx.fee - tx.value
  /\ foreign' = foreign

Spends(w) == mined' = mined /\ foreign' = foreign \cup {w}

LEMMA IncludeMove ==
  ASSUME Typed, NEW w \in Wallets, NEW tx \in pool[w], NEW ok \in BOOLEAN, Include(w, tx, ok)
  PROVE  Uses(w) /\ \E m \in MinedRecord : Includes(w, tx, m)
  <1> DEFINE m == [wallet |-> w, tx |-> tx, ok |-> ok]
  <1>1. tx \in TxRecord /\ tx.fee \in Int /\ tx.value \in Nat /\ balance[w] \in Int
    BY DEF Typed, TxRecord
  <1>2. m \in MinedRecord /\ m.wallet = w /\ m.tx = tx
    BY <1>1 DEF MinedRecord
  <1>3. /\ tx.nonce = chainNonce[w] /\ mined' = mined \cup {m} /\ foreign' = foreign
        /\ chainNonce' = [chainNonce EXCEPT ![w] = @ + 1]
        /\ pool' = [pool EXCEPT ![w] = {other \in @ : other.nonce # tx.nonce}]
        /\ balance' = [balance EXCEPT ![w] = @ - tx.fee - (IF ok THEN tx.value ELSE 0)]
        /\ UNCHANGED <<run, work, results>>
    BY DEF Include
  <1> HIDE DEF m
  <1>4. /\ balance' \in [Wallets -> Int] /\ \A v \in Wallets \ {w} : balance'[v] = balance[v]
        /\ balance'[w] >= balance[w] - tx.fee - tx.value
    BY <1>1, <1>3 DEF Typed
  <1>5. Uses(w)
    BY <1>3, <1>4 DEF Uses
  <1>6. Includes(w, tx, m)
    BY <1>2, <1>3, <1>4 DEF Includes
  <1> QED BY <1>2, <1>5, <1>6

LEMMA ForeignMove ==
  ASSUME Typed, NEW w \in Wallets, ForeignTransaction(w)
  PROVE  Uses(w) /\ Spends(w)
  <1>1. balance' = [balance EXCEPT ![w] = 0]
    BY DEF ForeignTransaction
  <1>2. balance' \in [Wallets -> Int] /\ \A v \in Wallets \ {w} : balance'[v] = balance[v]
    BY <1>1 DEF Typed
  <1> QED BY <1>2 DEF ForeignTransaction, Uses, Spends

LEMMA NextMoves ==
  ASSUME Typed, [Next]_vars
  PROVE  \/ UNCHANGED vars
         \/ PreparesMove
         \/ FetchMove
         \/ \E w \in Wallets :
              WorkerFrame(w) /\ (Sends(w) \/ GivesUp(w) \/ Advances(w) \/ Retries(w))
         \/ JoinMove
         \/ \E w \in Wallets : Uses(w) /\ \E tx \in pool[w], m \in MinedRecord : Includes(w, tx, m)
         \/ \E w \in Wallets : Uses(w) /\ Spends(w)
  <1>1. CASE PrepareAPhase \/ Tick
    BY <1>1, PreparesMoves, FetchMoves
  <1>2. CASE \E w \in Wallets : Worker(w)
    BY <1>2, WorkerMoves
  <1>3. CASE Join
    BY <1>3, JoinMoves
  <1>4. ASSUME NEW w \in Wallets, NEW tx \in pool[w], NEW ok \in BOOLEAN, Include(w, tx, ok)
        PROVE  Uses(w) /\ \E m \in MinedRecord : Includes(w, tx, m)
    BY <1>4, IncludeMove
  <1>5. ASSUME NEW w \in Wallets, ForeignTransaction(w)
        PROVE  Uses(w) /\ Spends(w)
    BY <1>5, ForeignMove
  <1> QED BY <1>1, <1>2, <1>3, <1>4, <1>5 DEF Next, World

LEMMA TypedStep == Typed /\ [Next]_vars => Typed'
  <1> SUFFICES ASSUME Typed, [Next]_vars PROVE Typed'
    OBVIOUS
  <1>0. CASE UNCHANGED vars
    BY <1>0 DEF vars, run, selection, chain, Typed
  <1>1. CASE PreparesMove
    BY <1>1 DEF PreparesMove, chain, Typed
  <1>2. CASE FetchMove
    BY <1>2 DEF FetchMove, chain, Typed
  <1>3. ASSUME NEW w \in Wallets, WorkerFrame(w),
               Sends(w) \/ GivesUp(w) \/ Advances(w) \/ Retries(w)
        PROVE  Typed'
    <2>1. /\ work' \in [Wallets -> WorkRecord]
          /\ UNCHANGED <<phase, batch, seen, chainNonce, balance, mined>>
      BY <1>3 DEF WorkerFrame, run, selection
    <2>2. results' \subseteq ResultRecord
      <3>1. \A ok \in BOOLEAN : [phase |-> phase, wallet |-> w, ok |-> ok] \in ResultRecord
        BY DEF Typed, ResultRecord
      <3> QED BY <1>3, <3>1 DEF Typed, Sends, GivesUp, Advances, Retries
    <2>3. pool' \in [Wallets -> SUBSET TxRecord]
      <3>1. Transaction(w) \in TxRecord
        BY TransactionFacts
      <3> QED BY <1>3, <3>1 DEF Typed, Sends, GivesUp, Advances, Retries
    <2> QED BY <2>1, <2>2, <2>3 DEF Typed
  <1>4. CASE JoinMove
    BY <1>4 DEF JoinMove, chain, Typed
  <1>5. ASSUME NEW w \in Wallets, Uses(w), mined' \subseteq MinedRecord
        PROVE  Typed'
    BY <1>5 DEF Uses, run, selection, Typed
  <1>6. ASSUME NEW w \in Wallets, NEW tx \in pool[w], NEW m \in MinedRecord, Includes(w, tx, m)
        PROVE  mined' \subseteq MinedRecord
    BY <1>6 DEF Includes, Typed
  <1>7. ASSUME NEW w \in Wallets, Spends(w)
        PROVE  mined' \subseteq MinedRecord
    BY <1>7 DEF Spends, Typed
  <1> QED BY <1>0, <1>1, <1>2, <1>3, <1>4, <1>5, <1>6, <1>7, NextMoves

LEMMA InitTyped == Init => Typed
  <1> SUFFICES ASSUME Init PROVE Typed
    OBVIOUS
  <1>1. phase \in Phases /\ batch = {} /\ results = {} /\ mined = {}
    BY MultiMintAssumption DEF Init, Phases
  <1>2. seen \in [Wallets -> SeenRecord] /\ work \in [Wallets -> WorkRecord]
    BY IdleFacts, UnseenFacts DEF Init
  <1>3. /\ chainNonce \in [Wallets -> Nat] /\ balance \in [Wallets -> Int]
        /\ pool \in [Wallets -> SUBSET TxRecord]
    BY MultiMintAssumption DEF Init
  <1> QED BY <1>1, <1>2, <1>3 DEF Typed

-----------------------------------------------------------------------------
(* OnceInv is inductive. *)

LEMMA InitOnce == Init => OnceInv
  <1> SUFFICES ASSUME Init PROVE OnceInv
    OBVIOUS
  <1>1. mined = {} /\ \A w \in Wallets : pool[w] = {} /\ work[w].step = "idle"
    BY IdleFacts DEF Init
  <1>2. \A w \in Wallets : Out(w) = {}
    BY <1>1 DEF Out
  <1> QED BY <1>1, <1>2 DEF OnceInv, MinedBehind, PoolAhead, NonceMinedOnce, OneNonceEach,
                            Numbered, Quiet, SentFits, Busy

(* What a worker adds to the transactions that are out.                    *)
Adds(w, tx) ==
  tx = Transaction(w) /\ work[w].step = "send" /\ tx.nonce >= chainNonce[w]

LEMMA WorkerPool ==
  ASSUME Typed, NEW w \in Wallets, WorkerFrame(w),
         Sends(w) \/ GivesUp(w) \/ Advances(w) \/ Retries(w)
  PROVE  /\ Busy(w)
         /\ \A v \in Wallets : \A tx \in pool'[v] : tx \in pool[v] \/ (v = w /\ Adds(w, tx))
         /\ \A v \in Wallets : \A tx \in Out(v)' : tx \in Out(v) \/ (v = w /\ Adds(w, tx))
  <1>1. Busy(w)
    BY DEF Sends, GivesUp, Advances, Retries, Busy
  <1>2. \/ pool' = pool
        \/ /\ Adds(w, Transaction(w))
           /\ pool' = [pool EXCEPT ![w] = @ \cup {Transaction(w)}]
    BY DEF Sends, GivesUp, Advances, Retries, Adds
  <1>3. \A v \in Wallets : \A tx \in pool'[v] : tx \in pool[v] \/ (v = w /\ Adds(w, tx))
    BY <1>2 DEF Typed
  <1>4. mined' = mined
    BY DEF WorkerFrame
  <1> QED BY <1>1, <1>3, <1>4 DEF Out

LEMMA OnceWorker ==
  ASSUME Typed, Typed', OnceInv, NEW w \in Wallets, WorkerFrame(w),
         Sends(w) \/ GivesUp(w) \/ Advances(w) \/ Retries(w)
  PROVE  OnceInv'
  <1>1. /\ \A v \in Wallets \ {w} : work'[v] = work[v]
        /\ pc' = pc /\ phase' = phase /\ chainNonce' = chainNonce /\ mined' = mined
    BY DEF WorkerFrame, run, selection
  <1>2. /\ Busy(w)
        /\ \A v \in Wallets : \A tx \in pool'[v] : tx \in pool[v] \/ (v = w /\ Adds(w, tx))
        /\ \A v \in Wallets : \A tx \in Out(v)' : tx \in Out(v) \/ (v = w /\ Adds(w, tx))
    BY WorkerPool
  <1>3. pc = "work" /\ pc \in Started
    BY <1>2 DEF OnceInv, Quiet, Busy, Started
  <1>4. /\ Transaction(w).phase = phase /\ Transaction(w).asset = work[w].asset
        /\ Transaction(w).nonce = work[w].nonce
        /\ work[w].asset \in Nat /\ phase \in Nat
    BY TransactionFacts DEF Typed, WorkRecord, Phases
  <1>5. MinedBehind' /\ NonceMinedOnce'
    BY <1>1 DEF OnceInv, MinedBehind, NonceMinedOnce
  <1>6. PoolAhead'
    BY <1>1, <1>2 DEF OnceInv, PoolAhead, Adds
  <1>7. Quiet'
    BY <1>1, <1>3 DEF Quiet
  <1>8. \A tx \in Out(w) : tx.phase \in Nat /\ tx.asset \in Nat
    BY DEF Out, Typed, TxRecord, MinedRecord, Phases
  <1>9. \A tx \in Out(w) : work[w].step # "forward" /\ tx.phase = phase /\ tx.asset = work[w].asset
                             => tx.nonce = work[w].nonce
    BY <1>2, <1>4, <1>8 DEF OnceInv, Numbered
  <1>10. OneNonceEach'
    <2> SUFFICES ASSUME NEW v \in Wallets, NEW t \in Out(v)', NEW u \in Out(v)',
                        t.phase = u.phase, t.asset = u.asset
                 PROVE  t.nonce = u.nonce
      BY DEF OneNonceEach
    <2>1. CASE t \in Out(v) /\ u \in Out(v)
      BY <2>1 DEF OnceInv, OneNonceEach
    <2>2. CASE v = w /\ Adds(w, t) /\ u \in Out(v)
      BY <1>4, <1>9, <2>2 DEF Adds
    <2>3. CASE v = w /\ t \in Out(v) /\ Adds(w, u)
      BY <1>4, <1>9, <2>3 DEF Adds
    <2>4. CASE Adds(w, t) /\ Adds(w, u)
      BY <2>4 DEF Adds
    <2> QED BY <1>2, <2>1, <2>2, <2>3, <2>4
  <1>11. Numbered'
    <2> SUFFICES ASSUME NEW v \in Wallets, NEW tx \in Out(v)'
                 PROVE  /\ tx.phase <= phase
                        /\ tx.phase = phase /\ Busy(v)' =>
                             \/ tx.asset < work'[v].asset
                             \/ /\ work'[v].step # "forward"
                                /\ tx.asset = work'[v].asset /\ tx.nonce = work'[v].nonce
      BY <1>1, <1>3 DEF Numbered
    <2>1. CASE v # w
      <3>1. tx \in Out(v) /\ work'[v] = work[v]
        BY <1>1, <1>2, <2>1
      <3> QED BY <3>1 DEF OnceInv, Numbered, Busy
    <2>2. CASE v = w
      <3>1. /\ tx.phase <= phase
            /\ tx.phase = phase => \/ tx.asset < work[w].asset
                                   \/ /\ work[w].step # "forward"
                                      /\ tx.asset = work[w].asset /\ tx.nonce = work[w].nonce
        <4>1. CASE tx \in Out(w)
          BY <1>2, <4>1 DEF OnceInv, Numbered
        <4>2. CASE Adds(w, tx)
          BY <1>4, <4>2 DEF Adds
        <4> QED BY <1>2, <2>2, <4>1, <4>2
      <3>2. tx.asset \in Nat
        BY <1>2, <1>4, <1>8, <2>2 DEF Adds
      <3>3. CASE Sends(w)
        BY <2>2, <3>1, <3>3 DEF Sends
      <3>4. CASE GivesUp(w)
        BY <2>2, <3>1, <3>4 DEF GivesUp, Busy
      <3>5. CASE Advances(w)
        BY <1>4, <2>2, <3>1, <3>2, <3>5 DEF Advances, Busy
      <3>6. CASE Retries(w)
        BY <2>2, <3>1, <3>6 DEF Retries
      <3> QED BY <3>3, <3>4, <3>5, <3>6
    <2> QED BY <2>1, <2>2
  <1>12. SentFits'
    <2> SUFFICES ASSUME NEW v \in Wallets, Busy(v)', NEW tx \in work'[v].sent
                 PROVE  /\ tx.phase = phase /\ tx.asset = work'[v].asset
                        /\ work'[v].step # "forward" /\ tx.nonce = work'[v].nonce
      BY <1>1 DEF SentFits
    <2>1. CASE v # w
      BY <1>1, <2>1 DEF OnceInv, SentFits, Busy
    <2>2. CASE v = w
      <3>1. \A t \in work[w].sent : /\ t.phase = phase /\ t.asset = work[w].asset
                                    /\ work[w].step # "forward" /\ t.nonce = work[w].nonce
        BY <1>2 DEF OnceInv, SentFits
      <3>2. CASE Sends(w)
        BY <1>4, <2>2, <3>1, <3>2 DEF Sends
      <3>3. CASE GivesUp(w)
        BY <2>2, <3>3 DEF GivesUp, Busy
      <3>4. CASE Advances(w)
        BY <2>2, <3>4 DEF Advances, Busy
      <3>5. CASE Retries(w)
        BY <2>2, <3>1, <3>5 DEF Retries
      <3> QED BY <3>2, <3>3, <3>4, <3>5
    <2> QED BY <2>1, <2>2
  <1> QED BY <1>5, <1>6, <1>7, <1>10, <1>11, <1>12 DEF OnceInv

(* Using up a nonce takes transactions from the pool, into a block or not  *)
(* at all.                                                                 *)
LEMMA OnceUses ==
  ASSUME Typed, Typed', OnceInv, NEW w \in Wallets, Uses(w),
         Spends(w) \/ \E tx \in pool[w], m \in MinedRecord : Includes(w, tx, m)
  PROVE  OnceInv'
  <1>1. /\ work' = work /\ pc' = pc /\ phase' = phase
        /\ chainNonce' = [chainNonce EXCEPT ![w] = @ + 1]
        /\ pool' = [pool EXCEPT ![w] = {tx \in @ : tx.nonce # chainNonce[w]}]
    BY DEF Uses, run, selection
  <1>2. /\ chainNonce'[w] = chainNonce[w] + 1 /\ chainNonce[w] \in Nat
        /\ \A v \in Wallets \ {w} : chainNonce'[v] = chainNonce[v]
        /\ \A v \in Wallets \ {w} : pool'[v] = pool[v]
        /\ pool'[w] = {tx \in pool[w] : tx.nonce # chainNonce[w]}
        /\ \A v \in Wallets : chainNonce[v] \in Nat
    BY <1>1 DEF Typed
  <1>3. \/ mined' = mined
        \/ \E m \in MinedRecord : /\ m.wallet = w /\ m.tx \in pool[w]
                                  /\ m.tx.nonce = chainNonce[w]
                                  /\ mined' = mined \cup {m}
    BY DEF Spends, Includes
  <1>4. \A v \in Wallets : Out(v)' \subseteq Out(v)
    BY <1>2, <1>3 DEF Out
  <1>5. \A m \in mined : m.tx.nonce \in Nat /\ m.wallet \in Wallets
    BY DEF Typed, MinedRecord, TxRecord
  <1>6. MinedBehind'
    <2> SUFFICES ASSUME NEW m \in mined' PROVE m.tx.nonce < chainNonce'[m.wallet]
      BY DEF MinedBehind
    <2>1. CASE m \in mined
      <3>1. m.tx.nonce < chainNonce[m.wallet]
        BY <2>1 DEF OnceInv, MinedBehind
      <3> QED BY <1>2, <1>5, <2>1, <3>1
    <2>2. CASE m.wallet = w /\ m.tx.nonce = chainNonce[w]
      BY <1>2, <2>2
    <2> QED BY <1>3, <2>1, <2>2
  <1>7. PoolAhead'
    <2> SUFFICES ASSUME NEW v \in Wallets, NEW tx \in pool'[v] PROVE tx.nonce >= chainNonce'[v]
      BY DEF PoolAhead
    <2>1. tx \in pool[v] /\ tx.nonce >= chainNonce[v]
      BY <1>2 DEF OnceInv, PoolAhead
    <2>2. tx.nonce \in Nat
      BY <2>1 DEF Typed, TxRecord
    <2> QED BY <1>2, <2>1, <2>2
  <1>8. NonceMinedOnce'
    <2> SUFFICES ASSUME NEW m \in mined', NEW n \in mined', m.wallet = n.wallet,
                        m.tx.nonce = n.tx.nonce
                 PROVE  m = n
      BY DEF NonceMinedOnce
    <2>1. \A k \in mined : k.wallet = w => k.tx.nonce # chainNonce[w]
      BY <1>2, <1>5 DEF OnceInv, MinedBehind
    <2>2. CASE m \in mined /\ n \in mined
      BY <2>2 DEF OnceInv, NonceMinedOnce
    <2> QED BY <1>3, <2>1, <2>2
  <1>9. OneNonceEach'
    BY <1>4 DEF OnceInv, OneNonceEach
  <1>10. Numbered' /\ Quiet' /\ SentFits'
    BY <1>1, <1>4 DEF OnceInv, Numbered, Quiet, SentFits, Busy
  <1> QED BY <1>6, <1>7, <1>8, <1>9, <1>10 DEF OnceInv

LEMMA OnceStep == Typed /\ OnceInv /\ [Next]_vars => OnceInv'
  <1> SUFFICES ASSUME Typed, OnceInv, [Next]_vars PROVE OnceInv'
    OBVIOUS
  <1> USE DEF OnceInv
  <1>0. Typed'
    BY TypedStep
  <1>a. UNCHANGED chain => /\ MinedBehind' /\ PoolAhead' /\ NonceMinedOnce' /\ OneNonceEach'
                           /\ \A w \in Wallets : Out(w)' = Out(w)
    BY DEF chain, MinedBehind, PoolAhead, NonceMinedOnce, OneNonceEach, Out
  <1>b. \A w \in Wallets : \A tx \in Out(w) : tx.phase \in Nat /\ tx.phase <= phase
    BY DEF Numbered, Out, Typed, TxRecord, MinedRecord, Phases
  <1>1. CASE UNCHANGED vars
    BY <1>1, <1>a DEF vars, run, selection, Numbered, Quiet, SentFits, Busy
  <1>2. CASE PreparesMove
    <2>1. \A w \in Wallets : ~Busy(w) /\ work[w].step = "idle"
      BY <1>2 DEF PreparesMove, Quiet, Started, Busy
    <2>2. \A w \in Wallets : \A tx \in Out(w) : tx.phase # phase
      BY <1>2 DEF PreparesMove, Numbered
    <2> QED BY <1>2, <1>a, <1>b, <2>1, <2>2 DEF PreparesMove, Numbered, Quiet, SentFits, Busy
  <1>3. CASE FetchMove
    <2>1. \A w \in Wallets : \A tx \in Out(w) : tx.phase # phase
      BY <1>3 DEF FetchMove, Numbered, Started
    <2> QED BY <1>3, <1>a, <1>b, <2>1 DEF FetchMove, Numbered, Quiet, SentFits, Busy
  <1>4. ASSUME NEW w \in Wallets, WorkerFrame(w),
               Sends(w) \/ GivesUp(w) \/ Advances(w) \/ Retries(w)
        PROVE  OnceInv'
    BY <1>0, <1>4, OnceWorker
  <1>5. CASE JoinMove
    <2>1. phase \in Nat /\ \A w \in Wallets : ~Busy(w)'
      BY <1>5 DEF JoinMove, Busy, Typed, Phases
    <2>2. Quiet' /\ SentFits'
      BY <1>5, <2>1 DEF JoinMove, Quiet, SentFits
    <2>3. Numbered'
      BY <1>5, <1>a, <1>b, <2>1 DEF JoinMove, Numbered, Started
    <2> QED BY <1>5, <1>a, <2>2, <2>3 DEF JoinMove
  <1>6. ASSUME NEW w \in Wallets, Uses(w),
               Spends(w) \/ \E tx \in pool[w], m \in MinedRecord : Includes(w, tx, m)
        PROVE  OnceInv'
    BY <1>0, <1>6, OnceUses
  <1> QED BY <1>1, <1>2, <1>3, <1>4, <1>5, <1>6, NextMoves

LEMMA OnceInvariant == Spec => [](Typed /\ OnceInv)
  BY InitTyped, InitOnce, TypedStep, OnceStep, PTL DEF Spec

LEMMA OnceInvMeans == Typed /\ OnceInv => MintedOncePerPhase
  <1> SUFFICES ASSUME Typed, OnceInv, NEW m \in mined, NEW n \in mined,
                      m.wallet = n.wallet, m.tx.phase = n.tx.phase, m.tx.asset = n.tx.asset
               PROVE  m = n
    BY DEF MintedOncePerPhase
  <1>1. m.wallet \in Wallets /\ m.tx \in Out(m.wallet) /\ n.tx \in Out(m.wallet)
    BY DEF Typed, MinedRecord, Out
  <1>2. m.tx.nonce = n.tx.nonce
    BY <1>1 DEF OnceInv, OneNonceEach
  <1> QED BY <1>2 DEF OnceInv, NonceMinedOnce

(***************************************************************************)
(* Replacements, lost answers, owners who spend elsewhere and later phases *)
(* never make a wallet pay twice: each mint of a phase, and each transfer  *)
(* of its tokens, is in at most one block (execute_self_funded_wallet).    *)
(***************************************************************************)
THEOREM PaidOncePerPhase == Spec => []MintedOncePerPhase
  BY OnceInvariant, OnceInvMeans, PTL

-----------------------------------------------------------------------------
(* DoneInv is inductive. *)

LEMMA BlocksStay ==
  ASSUME mined \subseteq mined', NEW w, NEW p, NEW asset, Delivered(w, p, asset)
  PROVE  Delivered(w, p, asset)'
  BY DEF Delivered

(* A result that says so is told of a wallet that has delivered everything.*)
LEMMA CompletedStays ==
  ASSUME CompletedIsForwarded, mined \subseteq mined',
         \A r \in results' \ results : r.ok =>
           \A asset \in 0..Transfers(r.wallet) : Delivered(r.wallet, r.phase, asset)
  PROVE  CompletedIsForwarded'
  <1> SUFFICES ASSUME NEW r \in results', r.ok, NEW asset \in 0..Transfers(r.wallet)
               PROVE  \E m \in MinedFor(r.wallet, r.phase)' : m.ok /\ m.tx.asset = asset
    BY DEF CompletedIsForwarded, Transfers
  <1>1. CASE r \in results
    <2>1. PICK m \in MinedFor(r.wallet, r.phase) : m.ok /\ m.tx.asset = asset
      BY <1>1 DEF CompletedIsForwarded
    <2> QED BY <2>1 DEF MinedFor
  <1>2. CASE r \notin results
    BY <1>2 DEF Delivered, MinedFor
  <1> QED BY <1>1, <1>2

LEMMA DoneWorker ==
  ASSUME Typed, Typed', OnceInv, DoneInv, NEW w \in Wallets, WorkerFrame(w),
         Sends(w) \/ GivesUp(w) \/ Advances(w) \/ Retries(w)
  PROVE  DoneInv'
  <1>1. /\ \A v \in Wallets \ {w} : work'[v] = work[v]
        /\ phase' = phase /\ mined' = mined /\ mined \subseteq mined'
        /\ \A v, p, asset : Delivered(v, p, asset)' <=> Delivered(v, p, asset)
    BY DEF WorkerFrame, run, selection, Delivered
  <1>2. Busy(w)
    BY WorkerPool
  <1>3. /\ work[w].asset \in Nat /\ work[w].asset <= Transfers(w) /\ Transfers(w) \in Nat
        /\ \A asset \in 0..(work[w].asset - 1) : Delivered(w, phase, asset)
    BY <1>2, TransfersNat DEF DoneInv, Progress, Typed, WorkRecord
  <1>4. Advances(w) => Delivered(w, phase, work[w].asset)
    <2> SUFFICES ASSUME NEW tx \in work[w].sent, [wallet |-> w, tx |-> tx, ok |-> TRUE] \in mined
                 PROVE  Delivered(w, phase, work[w].asset)
      BY DEF Advances
    <2>1. tx.phase = phase /\ tx.asset = work[w].asset
      BY <1>2 DEF OnceInv, SentFits
    <2> QED BY <2>1 DEF Delivered
  <1>5. Advances(w) => \A asset \in 0..work[w].asset : Delivered(w, phase, asset)
    BY <1>3, <1>4
  <1>6. Progress'
    <2> SUFFICES ASSUME NEW v \in Wallets, Busy(v)'
                 PROVE  /\ work'[v].asset <= Transfers(v)
                        /\ \A asset \in 0..(work'[v].asset - 1) : Delivered(v, phase, asset)
      BY <1>1 DEF Progress, Transfers
    <2>1. CASE v # w
      BY <1>1, <2>1 DEF DoneInv, Progress, Busy
    <2>2. CASE v = w /\ (Sends(w) \/ Retries(w))
      BY <1>3, <2>2 DEF Sends, Retries
    <2>3. CASE v = w /\ GivesUp(w)
      BY <2>3 DEF GivesUp, Busy
    <2>4. CASE v = w /\ Advances(w)
      <3>1. work'[w].asset = work[w].asset + 1 /\ work[w].asset # Transfers(w)
        BY <2>4 DEF Advances, Busy
      <3> QED BY <1>3, <1>5, <2>4, <3>1
    <2> QED BY <2>1, <2>2, <2>3, <2>4
  <1>7. ASSUME NEW r \in results' \ results, r.ok, NEW asset \in 0..Transfers(r.wallet)
        PROVE  Delivered(r.wallet, r.phase, asset)
    <2>1. CASE GivesUp(w)
      <3>1. r = [phase |-> phase, wallet |-> w, ok |-> FALSE]
        BY <2>1 DEF GivesUp
      <3> QED BY <1>7, <3>1
    <2>2. CASE Advances(w)
      <3>1. r = [phase |-> phase, wallet |-> w, ok |-> TRUE] /\ work[w].asset = Transfers(w)
        BY <2>2 DEF Advances
      <3>2. r.phase = phase /\ r.wallet = w
        BY <3>1
      <3> QED BY <1>5, <1>7, <2>2, <3>1, <3>2
    <2>3. CASE Sends(w) \/ Retries(w)
      BY <2>3 DEF Sends, Retries
    <2> QED BY <2>1, <2>2, <2>3
  <1>8. CompletedIsForwarded'
    BY <1>1, <1>7, CompletedStays DEF DoneInv
  <1> QED BY <1>6, <1>8 DEF DoneInv

LEMMA DoneStep == Typed /\ OnceInv /\ DoneInv /\ [Next]_vars => DoneInv'
  <1> SUFFICES ASSUME Typed, OnceInv, DoneInv, [Next]_vars PROVE DoneInv'
    OBVIOUS
  <1>0. Typed'
    BY TypedStep
  <1>a. mined \subseteq mined' /\ results' = results => CompletedIsForwarded'
    BY CompletedStays DEF DoneInv
  <1>1. CASE UNCHANGED vars
    <2>1. Progress'
      BY <1>1 DEF vars, run, selection, chain, DoneInv, Progress, Busy, Delivered, Transfers
    <2> QED BY <1>1, <1>a, <2>1 DEF vars, chain, DoneInv
  <1>2. CASE PreparesMove
    <2>1. Progress'
      BY <1>2 DEF PreparesMove, OnceInv, Quiet, Started, Progress, Busy
    <2> QED BY <1>2, <1>a, <2>1 DEF PreparesMove, chain, DoneInv
  <1>3. CASE FetchMove
    <2>1. Progress'
      BY <1>3, TransfersNat DEF FetchMove, Progress, Busy, Transfers
    <2> QED BY <1>3, <1>a, <2>1 DEF FetchMove, chain, DoneInv
  <1>4. ASSUME NEW w \in Wallets, WorkerFrame(w),
               Sends(w) \/ GivesUp(w) \/ Advances(w) \/ Retries(w)
        PROVE  DoneInv'
    BY <1>0, <1>4, DoneWorker
  <1>5. CASE JoinMove
    <2>1. Progress'
      BY <1>5 DEF JoinMove, Progress, Busy
    <2> QED BY <1>5, <1>a, <2>1 DEF JoinMove, chain, DoneInv
  <1>6. ASSUME NEW w \in Wallets, Uses(w),
               Spends(w) \/ \E tx \in pool[w], m \in MinedRecord : Includes(w, tx, m)
        PROVE  DoneInv'
    <2>1. mined \subseteq mined' /\ work' = work /\ phase' = phase /\ results' = results
      BY <1>6 DEF Uses, run, selection, Spends, Includes
    <2>2. Progress'
      BY <2>1 DEF DoneInv, Progress, Busy, Delivered, Transfers
    <2> QED BY <1>a, <2>1, <2>2 DEF DoneInv
  <1> QED BY <1>1, <1>2, <1>3, <1>4, <1>5, <1>6, NextMoves

LEMMA InitDone == Init => DoneInv
  BY IdleFacts DEF Init, DoneInv, Progress, Busy, CompletedIsForwarded

(***************************************************************************)
(* A wallet that the summary counts as completed has its mint and the      *)
(* transfer of every token in a block, whichever attempt got there         *)
(* (run_self_funded, execute_self_funded_wallet).                          *)
(***************************************************************************)
THEOREM CompletedMeansForwarded == Spec => []CompletedIsForwarded
  <1>1. DoneInv => CompletedIsForwarded
    BY DEF DoneInv
  <1> QED BY <1>1, InitTyped, InitOnce, InitDone, TypedStep, OnceStep, DoneStep, PTL DEF Spec

-----------------------------------------------------------------------------
(* FundsInv is inductive. *)

LEMMA OneMore ==
  ASSUME NEW k \in Int, NEW t \in Nat
  PROVE  k * t \in Int /\ (k + 1) * t = k * t + t
  OBVIOUS

LEMMA BudgetTypes ==
  ASSUME Typed, NEW w \in Wallets
  PROVE  /\ TopFee(seen[w].estimate) \in Nat /\ seen[w].balance \in Int
         /\ Left(w) \in Int /\ work[w].value \in Nat /\ work[w].asset \in Nat
         /\ balance[w] \in Int
  <1>1. MaxAttempts \in Nat /\ MaxAttempts >= 1
    BY MultiMintAssumption
  <1>2. seen[w].estimate \in Nat /\ seen[w].balance \in Int
    BY DEF Typed, SeenRecord
  <1>3. work[w].value \in Nat /\ work[w].asset \in Nat
    BY DEF Typed, WorkRecord
  <1> QED BY <1>1, <1>2, <1>3, TransfersNat DEF Typed, TopFee, Fee, Left

LEMMA FundsWorker ==
  ASSUME Typed, Typed', OnceInv, DoneInv, FundsInv, NEW w \in Wallets, WorkerFrame(w),
         Sends(w) \/ GivesUp(w) \/ Advances(w) \/ Retries(w)
  PROVE  FundsInv'
  <1>1. /\ \A v \in Wallets \ {w} : work'[v] = work[v]
        /\ pc' = pc /\ phase' = phase /\ batch' = batch /\ seen' = seen
        /\ chainNonce' = chainNonce /\ mined' = mined /\ balance' = balance
        /\ foreign' = foreign
    BY DEF WorkerFrame, run, selection
  <1>2. /\ Busy(w)
        /\ \A v \in Wallets : \A tx \in pool'[v] : tx \in pool[v] \/ (v = w /\ Adds(w, tx))
    BY WorkerPool
  <1>3. pc = "work"
    BY <1>2 DEF OnceInv, Quiet, Busy
  <1>4. results \subseteq results'
    BY DEF Sends, GivesUp, Advances, Retries
  <1>5. \A v \in Wallets : /\ Clean(v)' => Clean(v)
                           /\ Cheap(v)' <=> Cheap(v)
    BY <1>1, <1>4 DEF Clean, Cheap, MinedFor, TopFee, Fee
  <1>6. GivesUp(w) => ~Clean(w)'
    <2> SUFFICES ASSUME GivesUp(w) PROVE ~Clean(w)'
      OBVIOUS
    <2> DEFINE r == [phase |-> phase, wallet |-> w, ok |-> FALSE]
    <2>1. r \in results' /\ r.wallet = w /\ ~r.ok
      BY DEF GivesUp
    <2> HIDE DEF r
    <2> QED BY <2>1 DEF Clean
  <1>7. /\ Transaction(w).phase = phase /\ Transaction(w).asset = work[w].asset
        /\ Transaction(w).nonce = work[w].nonce /\ Transaction(w).value = work[w].value
    BY TransactionFacts
  <1>8. Advances(w) /\ Clean(w) => pool[w] = {}
    <2> SUFFICES ASSUME Clean(w), NEW tx \in work[w].sent,
                        [wallet |-> w, tx |-> tx, ok |-> TRUE] \in mined, NEW u \in pool[w]
                 PROVE  FALSE
      BY DEF Advances
    <2>1. tx.nonce < chainNonce[w]
      BY DEF OnceInv, MinedBehind
    <2>2. tx.nonce = work[w].nonce
      BY <1>2 DEF OnceInv, SentFits
    <2>3. u.nonce = work[w].nonce /\ u.nonce >= chainNonce[w]
      BY DEF FundsInv, Settled, OnceInv, PoolAhead
    <2>4. tx.nonce \in Nat /\ chainNonce[w] \in Nat
      BY DEF Typed, WorkRecord, TxRecord
    <2> QED BY <2>1, <2>2, <2>3, <2>4
  <1>9. Settled'
    <2> SUFFICES ASSUME NEW v \in Wallets, Clean(v)', NEW tx \in pool'[v]
                 PROVE  /\ work'[v].step \in {"send", "await"}
                        /\ tx.phase = phase /\ tx.asset = work'[v].asset
                        /\ tx.nonce = work'[v].nonce /\ tx.value = work'[v].value
      BY <1>1 DEF Settled
    <2>1. CASE v # w
      BY <1>1, <1>2, <1>5, <2>1 DEF FundsInv, Settled
    <2>2. CASE v = w
      <3>1. \/ tx \in pool[w] /\ work[w].step \in {"send", "await"}
            \/ tx = Transaction(w) /\ work[w].step = "send"
        BY <1>2, <1>5, <2>2 DEF FundsInv, Settled, Adds
      <3>2. /\ tx.phase = phase /\ tx.asset = work[w].asset
            /\ tx.nonce = work[w].nonce /\ tx.value = work[w].value
        BY <1>5, <1>7, <2>2, <3>1 DEF FundsInv, Settled
      <3>3. CASE Sends(w)
        BY <2>2, <3>2, <3>3 DEF Sends
      <3>4. CASE GivesUp(w)
        BY <1>6, <2>2, <3>4
      <3>5. CASE Advances(w)
        BY <1>5, <1>8, <2>2, <3>1, <3>5 DEF Advances
      <3>6. CASE Retries(w)
        BY <2>2, <3>1, <3>2, <3>6 DEF Retries
      <3> QED BY <3>3, <3>4, <3>5, <3>6
    <2> QED BY <2>1, <2>2
  <1>10. Attempted'
    <2> SUFFICES ASSUME NEW v \in Wallets, work'[v].step \in {"send", "await"}
                 PROVE  work'[v].attempt <= MaxAttempts
      BY DEF Attempted
    <2>1. CASE v # w
      BY <1>1, <2>1 DEF FundsInv, Attempted
    <2>2. CASE v = w
      BY <2>2 DEF FundsInv, Attempted, Sends, GivesUp, Advances, Retries
    <2> QED BY <2>1, <2>2
  <1>11. Budgeted'
    <2> SUFFICES ASSUME NEW v \in Wallets, Clean(v)', Cheap(v)', Busy(v)'
                 PROVE  /\ balance[v] >= Left(v)' * TopFee(seen[v].estimate)
                        /\ Unmined(v)' => balance[v] >= work'[v].value
                                            + (Left(v)' + 1) * TopFee(seen[v].estimate)
      BY <1>1, <1>3 DEF Budgeted, Budget, TopFee, Fee
    <2>0. Clean(v) /\ Cheap(v)
      BY <1>5
    <2>1. CASE v # w
      <3>1. /\ work'[v] = work[v] /\ Busy(v) /\ Left(v)' = Left(v)
            /\ Unmined(v)' <=> Unmined(v)
        BY <1>1, <2>1 DEF Busy, Left, Transfers, Unmined, MinedFor
      <3> QED BY <2>0, <3>1 DEF FundsInv, Budgeted, Budget
    <2>2. CASE v = w /\ (Sends(w) \/ Retries(w))
      <3>1. work'[w].asset = work[w].asset /\ work'[w].value = work[w].value
        BY <2>2 DEF Sends, Retries
      <3>2. Left(w)' = Left(w) /\ (Unmined(w)' <=> Unmined(w))
        BY <1>1, <3>1 DEF Left, Transfers, Unmined, MinedFor
      <3> QED BY <1>2, <2>0, <2>2, <3>1, <3>2 DEF FundsInv, Budgeted, Budget
    <2>3. CASE v = w /\ GivesUp(w)
      BY <1>6, <2>3
    <2>4. CASE v = w /\ Advances(w)
      <3> DEFINE top == TopFee(seen[w].estimate)
      <3>1. work'[w].asset = work[w].asset + 1 /\ work'[w].value = 0
        BY <2>4 DEF Advances, Busy
      <3>2. /\ top \in Nat /\ Left(w) \in Int /\ balance[w] \in Int /\ work[w].asset \in Nat
            /\ balance[w] >= Left(w) * top
        BY <1>2, <2>0, <2>4, BudgetTypes DEF FundsInv, Budgeted, Budget
      <3>3. Left(w)' = Left(w) - 1
        BY <3>1, <3>2, TransfersNat DEF Left, Transfers
      <3> HIDE DEF top
      <3>4. /\ (Left(w) - 1) * top \in Int
            /\ ((Left(w) - 1) + 1) * top = (Left(w) - 1) * top + top
            /\ (Left(w) - 1) + 1 = Left(w)
        BY <3>2, OneMore
      <3>5. balance[w] >= (Left(w) - 1) * top /\ balance[w] >= 0 + ((Left(w) - 1) + 1) * top
        BY <3>2, <3>4
      <3> QED BY <2>4, <3>1, <3>3, <3>5 DEF top
    <2> QED BY <2>1, <2>2, <2>3, <2>4
  <1> QED BY <1>9, <1>10, <1>11 DEF FundsInv

LEMMA FundsUses ==
  ASSUME Typed, Typed', OnceInv, FundsInv, NEW w \in Wallets, Uses(w),
         Spends(w) \/ \E tx \in pool[w], m \in MinedRecord : Includes(w, tx, m)
  PROVE  FundsInv'
  <1>1. /\ work' = work /\ pc' = pc /\ phase' = phase /\ batch' = batch /\ seen' = seen
        /\ results' = results
        /\ \A v \in Wallets \ {w} : balance'[v] = balance[v]
        /\ mined \subseteq mined' /\ foreign \subseteq foreign'
    BY DEF Uses, run, selection, Spends, Includes
  <1>2. \A v \in Wallets : pool'[v] \subseteq pool[v]
    BY DEF Uses, Typed
  <1>3. \A v \in Wallets : /\ Clean(v)' => Clean(v)
                           /\ Cheap(v)' => Cheap(v)
                           /\ Unmined(v)' => Unmined(v)
    BY <1>1 DEF Clean, Cheap, Unmined, MinedFor, TopFee, Fee
  <1>4. Settled' /\ Attempted'
    BY <1>1, <1>2, <1>3 DEF FundsInv, Settled, Attempted
  <1>5. \A v \in Wallets : Left(v)' = Left(v) /\ (Busy(v)' <=> Busy(v))
    BY <1>1 DEF Left, Transfers, Busy
  <1>6. ASSUME NEW v \in Wallets, Clean(v)', Cheap(v)'
        PROVE  Budget(v)'
    <2>0. Clean(v) /\ Cheap(v) /\ Budget(v)
      BY <1>3, <1>6 DEF FundsInv, Budgeted
    <2>1. CASE v # w
      BY <1>1, <1>3, <1>5, <2>0, <2>1 DEF Budget, TopFee, Fee
    <2>2. CASE v = w /\ Spends(w)
      BY <1>6, <2>2 DEF Spends, Clean
    <2>3. CASE v = w /\ \E tx \in pool[w], m \in MinedRecord : Includes(w, tx, m)
      <3> DEFINE top == TopFee(seen[w].estimate)
      <3>1. PICK tx \in pool[w], m \in MinedRecord : Includes(w, tx, m)
        BY <2>3
      <3>2. /\ work[w].step \in {"send", "await"}
            /\ tx.phase = phase /\ tx.asset = work[w].asset /\ tx.value = work[w].value
        BY <2>0, <2>3 DEF FundsInv, Settled
      <3>3. Busy(w) /\ pc = "work"
        BY <3>2 DEF Busy, OnceInv, Quiet
      <3>4. m \in MinedFor(w, phase)' /\ m.tx = tx
        BY <1>1, <3>1, <3>2 DEF Includes, MinedFor
      <3>5. tx.fee <= top
        BY <1>1, <1>6, <2>3, <3>4 DEF Cheap, TopFee, Fee
      <3>6. ~Unmined(w)'
        BY <1>1, <3>2, <3>4 DEF Unmined
      <3>7. Unmined(w)
        <4> SUFFICES ASSUME NEW k \in MinedFor(w, phase), k.tx.asset = work[w].asset
                     PROVE  FALSE
          BY DEF Unmined
        <4>1. /\ k \in mined /\ k.wallet = w /\ k.tx.phase = phase
              /\ k.tx \in Out(w) /\ tx \in Out(w)
          BY DEF MinedFor, Out
        <4>2. k.tx.nonce = tx.nonce
          BY <3>2, <4>1 DEF OnceInv, OneNonceEach
        <4>3. k.tx.nonce < chainNonce[w] /\ tx.nonce = chainNonce[w]
          BY <3>1, <4>1 DEF Includes, OnceInv, MinedBehind
        <4>4. chainNonce[w] \in Nat
          BY DEF Typed
        <4> QED BY <4>2, <4>3, <4>4
      <3>8. balance[w] >= work[w].value + (Left(w) + 1) * top
        BY <2>0, <2>3, <3>3, <3>7 DEF Budget
      <3>9. /\ top \in Nat /\ Left(w) \in Int /\ balance[w] \in Int /\ work[w].value \in Nat
            /\ balance'[w] \in Int /\ tx.fee \in Int
        BY BudgetTypes DEF Typed, TxRecord
      <3> HIDE DEF top
      <3>10. Left(w) * top \in Int /\ (Left(w) + 1) * top = Left(w) * top + top
        BY <3>9, OneMore
      <3>11. balance'[w] >= balance[w] - tx.fee - work[w].value
        BY <3>1, <3>2 DEF Includes
      <3>12. balance'[w] >= Left(w) * top
        BY <3>5, <3>8, <3>9, <3>10, <3>11
      <3> QED BY <1>1, <1>5, <2>3, <3>3, <3>6, <3>12 DEF Budget, top, TopFee, Fee
    <2> QED BY <2>1, <2>2, <2>3
  <1>7. Budgeted'
    BY <1>6 DEF Budgeted
  <1> QED BY <1>4, <1>7 DEF FundsInv

LEMMA FundsStep == Typed /\ OnceInv /\ DoneInv /\ FundsInv /\ [Next]_vars => FundsInv'
  <1> SUFFICES ASSUME Typed, OnceInv, DoneInv, FundsInv, [Next]_vars PROVE FundsInv'
    OBVIOUS
  <1>0. Typed'
    BY TypedStep
  <1>a. pc # "work" => \A w \in Wallets : /\ work[w].step = "idle" /\ ~Busy(w)
                                          /\ Clean(w) => pool[w] = {}
    BY DEF OnceInv, Quiet, Busy, FundsInv, Settled
  <1>b. UNCHANGED <<results, chain>> => \A w \in Wallets : Clean(w)' <=> Clean(w)
    BY DEF chain, Clean
  <1>1. CASE UNCHANGED vars
    <2>1. UNCHANGED <<pc, phase, batch, seen, work, results, balance, pool, mined, foreign>>
      BY <1>1 DEF vars, run, selection, chain
    <2>2. Settled' /\ Attempted'
      BY <2>1 DEF FundsInv, Settled, Attempted, Clean
    <2>3. \A w \in Wallets : /\ Clean(w)' <=> Clean(w)
                             /\ Cheap(w)' <=> Cheap(w)
                             /\ Unmined(w)' <=> Unmined(w)
                             /\ Left(w)' = Left(w)
                             /\ Busy(w)' <=> Busy(w)
      BY <2>1 DEF Clean, Cheap, Unmined, MinedFor, Left, Busy, Transfers, TopFee, Fee
    <2>4. Budgeted'
      BY <2>1, <2>3 DEF FundsInv, Budgeted, Budget, TopFee, Fee
    <2> QED BY <2>2, <2>4 DEF FundsInv
  <1>2. CASE PreparesMove
    <2>1. /\ pc # "work" /\ pc' # "work"
          /\ UNCHANGED <<phase, work, results, balance, pool, mined, foreign>>
      BY <1>2 DEF PreparesMove, chain, Started
    <2>2. Settled' /\ Attempted'
      BY <2>1, <1>a DEF Settled, Attempted, Clean
    <2>3. ASSUME NEW w \in Wallets, Clean(w)', Cheap(w)', pc' = "hot", w \in batch'
          PROVE  balance[w] >= seen'[w].balance
      <3>1. CASE seen'[w].balance = balance[w]
        BY <3>1 DEF Typed
      <3>2. CASE pc = "hot" /\ w \in batch /\ seen'[w] = seen[w]
        <4>1. Clean(w) /\ Cheap(w)
          BY <2>1, <2>3, <3>2 DEF Clean, Cheap, MinedFor, TopFee, Fee
        <4> QED BY <3>2, <4>1 DEF FundsInv, Budgeted, Budget
      <3> QED BY <1>2, <2>3, <3>1, <3>2 DEF PreparesMove
    <2>4. Budgeted'
      BY <1>a, <2>1, <2>3 DEF Budgeted, Budget, Busy
    <2> QED BY <2>2, <2>4 DEF FundsInv
  <1>3. CASE FetchMove
    <2>1. /\ pc = "hot" /\ pc' # "hot"
          /\ UNCHANGED <<phase, seen, results, balance, pool, mined, foreign>>
          /\ MaxAttempts >= 1
      BY <1>3, MultiMintAssumption DEF FetchMove, chain
    <2>2. Settled'
      BY <1>a, <2>1 DEF Settled, Clean
    <2>3. Attempted'
      BY <1>3, <2>1 DEF FetchMove, Attempted
    <2>4. ASSUME NEW w \in Wallets, Clean(w)', Cheap(w)', Busy(w)'
          PROVE  /\ balance[w] >= Left(w)' * TopFee(seen[w].estimate)
                 /\ balance[w] >= work'[w].value + (Left(w)' + 1) * TopFee(seen[w].estimate)
      <3> DEFINE top == TopFee(seen[w].estimate)
                 value == work'[w].value
      <3>1. /\ w \in batch /\ work'[w].asset = 0
            /\ seen[w].balance >= value + (Transfers(w) + 1) * top
        BY <1>3, <2>4 DEF FetchMove, Busy
      <3>2. Clean(w) /\ Cheap(w)
        BY <2>1, <2>4 DEF Clean, Cheap, MinedFor, TopFee, Fee
      <3>3. balance[w] >= seen[w].balance
        BY <2>1, <3>1, <3>2 DEF FundsInv, Budgeted, Budget
      <3>4. /\ top \in Nat /\ Transfers(w) \in Nat /\ balance[w] \in Int
            /\ seen[w].balance \in Int /\ value \in Nat
        BY <1>0, BudgetTypes, TransfersNat DEF Typed, WorkRecord
      <3>5. Left(w)' = Transfers(w)
        BY <3>1, <3>4 DEF Left, Transfers
      <3> HIDE DEF top, value
      <3>6. Transfers(w) * top \in Int /\ (Transfers(w) + 1) * top = Transfers(w) * top + top
        BY <3>4, OneMore
      <3>7. balance[w] >= Transfers(w) * top /\ balance[w] >= value + (Transfers(w) + 1) * top
        BY <3>1, <3>3, <3>4, <3>6
      <3> QED BY <3>5, <3>7 DEF top, value
    <2>5. Budgeted'
      BY <2>1, <2>4 DEF Budgeted, Budget, TopFee, Fee
    <2> QED BY <2>2, <2>3, <2>5 DEF FundsInv
  <1>4. ASSUME NEW w \in Wallets, WorkerFrame(w),
               Sends(w) \/ GivesUp(w) \/ Advances(w) \/ Retries(w)
        PROVE  FundsInv'
    BY <1>0, <1>4, FundsWorker
  <1>5. CASE JoinMove
    <2>1. /\ pc' # "hot" /\ \A w \in Wallets : ~Busy(w) /\ ~Busy(w)'
          /\ UNCHANGED <<results, pool, foreign>>
          /\ \A w \in Wallets : work'[w].step = "idle"
      BY <1>5 DEF JoinMove, chain, Busy
    <2>2. \A w \in Wallets : Clean(w)' => pool[w] = {}
      BY <2>1 DEF FundsInv, Settled, Clean, Busy
    <2> QED BY <2>1, <2>2 DEF FundsInv, Settled, Attempted, Budgeted, Budget
  <1>6. ASSUME NEW w \in Wallets, Uses(w),
               Spends(w) \/ \E tx \in pool[w], m \in MinedRecord : Includes(w, tx, m)
        PROVE  FundsInv'
    BY <1>0, <1>6, FundsUses
  <1> QED BY <1>1, <1>2, <1>3, <1>4, <1>5, <1>6, NextMoves

LEMMA InitFunds == Init => FundsInv
  <1> SUFFICES ASSUME Init PROVE FundsInv
    OBVIOUS
  <1>1. pc = "sessions" /\ \A w \in Wallets : pool[w] = {} /\ work[w].step = "idle"
    BY IdleFacts DEF Init
  <1> QED BY <1>1 DEF FundsInv, Settled, Attempted, Budgeted, Budget, Busy

LEMMA FundsInvMeans == Typed /\ OnceInv /\ DoneInv /\ FundsInv => ForwardingStaysFunded
  <1> SUFFICES ASSUME Typed, OnceInv, DoneInv, FundsInv, NEW w \in Wallets,
                      work[w].step = "send", work[w].nonce >= chainNonce[w], Clean(w),
                      work[w].estimate <= seen[w].estimate, Cheap(w)
               PROVE  Affordable(w)
    BY DEF ForwardingStaysFunded, Clean, Cheap
  <1> DEFINE top == TopFee(seen[w].estimate)
  <1>1. Busy(w)
    BY DEF Busy
  <1>2. Unmined(w)
    <2> SUFFICES ASSUME NEW m \in MinedFor(w, phase), m.tx.asset = work[w].asset
                 PROVE  FALSE
      BY DEF Unmined
    <2>1. /\ m \in mined /\ m.wallet = w /\ m.tx.phase = phase /\ m.tx \in Out(w)
          /\ m.tx.nonce \in Nat /\ chainNonce[w] \in Nat /\ work[w].asset \in Nat
      BY DEF MinedFor, Out, Typed, MinedRecord, TxRecord, WorkRecord
    <2>2. m.tx.nonce = work[w].nonce
      BY <1>1, <2>1 DEF OnceInv, Numbered
    <2>3. m.tx.nonce < chainNonce[w]
      BY <2>1 DEF OnceInv, MinedBehind
    <2> QED BY <2>1, <2>2, <2>3
  <1>3. balance[w] >= work[w].value + (Left(w) + 1) * top
    BY <1>1, <1>2 DEF FundsInv, Budgeted, Budget
  <1>4. /\ top \in Nat /\ Left(w) \in Nat
        /\ work[w].value \in Nat /\ work[w].asset \in Nat /\ balance[w] \in Int
    <2>1. work[w].asset <= Transfers(w)
      BY <1>1 DEF DoneInv, Progress
    <2> QED BY <2>1, BudgetTypes, TransfersNat DEF Left
  <1>5. /\ Transaction(w).value = work[w].value
        /\ Transaction(w).fee = Fee(work[w].estimate, work[w].attempt)
    BY DEF Transaction
  <1>6. /\ Fee(work[w].estimate, work[w].attempt) \in Int
        /\ Fee(work[w].estimate, work[w].attempt) <= top
    <2>1. /\ work[w].attempt <= MaxAttempts /\ work[w].attempt \in Nat /\ MaxAttempts \in Nat
          /\ work[w].estimate \in Nat /\ seen[w].estimate \in Nat
      BY MultiMintAssumption DEF FundsInv, Attempted, Typed, WorkRecord, SeenRecord
    <2> QED BY <2>1 DEF TopFee, Fee
  <1> DEFINE fee == Fee(work[w].estimate, work[w].attempt)
  <1> HIDE DEF top, fee
  <1>7. Left(w) * top \in Nat /\ (Left(w) + 1) * top = Left(w) * top + top
    BY <1>4, OneMore
  <1>8. balance[w] >= work[w].value + fee
    BY <1>3, <1>4, <1>6, <1>7 DEF fee
  <1> QED BY <1>5, <1>8 DEF Affordable, fee

(***************************************************************************)
(* The balance that was checked before the mint pays for every replacement *)
(* and every transfer after it, at any position of a sequence of phases,   *)
(* as long as the suggested fees do not rise, no earlier worker of the     *)
(* wallet failed and its owner spends nothing elsewhere                    *)
(* (required_balance, filter_underfunded_launch_candidates).               *)
(***************************************************************************)
THEOREM TransfersStayFunded == Spec => []ForwardingStaysFunded
  BY InitTyped, InitOnce, InitDone, InitFunds, TypedStep, OnceStep, DoneStep, FundsStep,
     FundsInvMeans, PTL DEF Spec
=============================================================================
