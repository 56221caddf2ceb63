------------------------- MODULE SponsoredBatchProofs -------------------------
(***************************************************************************)
(* Proofs about SponsoredBatch for every manifest, every number of phases, *)
(* snipes and revocations that run at once, and every use the owners make  *)
(* of their wallets elsewhere.                                             *)
(***************************************************************************)
EXTENDS SponsoredBatch, FiniteSetTheorems, TLAPS

(* What a job has read of a wallet, and what it signs for it.              *)
SeenRecord == [wallet: Wallets, nonce: Int, code: Targets, again: BOOLEAN]
AuthRecord == [wallet: Wallets, nonce: Int, target: Targets, base: Int, again: BOOLEAN]

Steps ==
  {"start", "launch", "ready", "sponsor", "armed", "validate", "send", "await", "verify", "ended"}

JobRecord ==
  [kind: Kinds, step: Steps, seen: SUBSET SeenRecord, nonce: Int, auths: SUBSET AuthRecord,
   members: SUBSET Wallets, expired: BOOLEAN]

OuterRecord == [job: Jobs, nonce: Int, auths: SUBSET AuthRecord, members: SUBSET Wallets]

MinedRecord ==
  [tx: OuterRecord, ok: BOOLEAN, succeeded: SUBSET Wallets, valid: SUBSET AuthRecord,
   before: [Accounts -> Nat]]

Typed ==
  /\ job \in [Jobs -> JobRecord]
  /\ code \in [Accounts -> Targets]
  /\ nonce \in [Accounts -> Nat]
  /\ pool \subseteq OuterRecord
  /\ mined \subseteq MinedRecord
  /\ cleared \subseteq Wallets

LEMMA ReadTypes ==
  ASSUME Typed
  PROVE  /\ \A a \in Accounts : NonceReads(a) \subseteq Int
         /\ \A read \in Reads : \A w \in Wallets : read[w] \in NonceReads(w) /\ read[w] \in Int
         /\ \A w \in Wallets : w \in Accounts
  <1>1. ASSUME NEW a \in Accounts PROVE NonceReads(a) \subseteq Int
    BY DEF NonceReads
  <1> QED BY <1>1 DEF Reads, Accounts

LEMMA SeenType ==
  ASSUME Typed, NEW read \in Reads, NEW set \in SUBSET Wallets
  PROVE  Seen(read, set) \subseteq SeenRecord
  <1>1. ASSUME NEW w \in set
        PROVE  [wallet |-> w, nonce |-> read[w], code |-> code[w], again |-> Revoked(w)]
                 \in SeenRecord
    <2>1. read[w] \in Int /\ code[w] \in Targets
      BY ReadTypes DEF Typed
    <2>2. Revoked(w) \in BOOLEAN
      BY DEF Revoked
    <2> QED BY <2>1, <2>2 DEF SeenRecord
  <1> QED BY <1>1 DEF Seen

LEMMA AuthorizationType ==
  ASSUME NEW s \in SeenRecord, NEW target \in Targets
  PROVE  /\ Authorization(s, target, AuthorizationNonce(s.wallet, s.nonce)) \in AuthRecord
         /\ Authorization(s, target, SameNonce(s.wallet, s.nonce)) \in AuthRecord
         /\ \A base \in Int :
              [Authorization(s, target, AuthorizationNonce(s.wallet, s.nonce))
                 EXCEPT !.base = base] \in AuthRecord
  BY DEF SeenRecord, AuthRecord, Authorization, AuthorizationNonce, SameNonce

LEMMA InitTyped == Init => Typed
  <1> SUFFICES ASSUME Init PROVE Typed
    OBVIOUS
  <1>1. \A kind \in Kinds : NewJob(kind) \in JobRecord
    BY DEF NewJob, JobRecord, Steps
  <1>2. job \in [Jobs -> JobRecord]
    BY <1>1 DEF Init
  <1> QED BY <1>2 DEF Init, Typed, Targets

(* The one job a step is about, and all the others.                        *)
LEMMA EndsJob ==
  ASSUME Typed, NEW j \in Jobs, Ends(j)
  PROVE  /\ job' \in [Jobs -> JobRecord]
         /\ \A k \in Jobs : /\ job'[k].kind = job[k].kind
                            /\ job'[k].auths \in {job[k].auths, {}}
                            /\ job'[k].seen \in {job[k].seen, {}}
  <1> DEFINE n == NewJob(job[j].kind)
             r == [n EXCEPT !.step = "ended", !.expired = job[j].expired]
  <1>1. job[j] \in JobRecord
    BY DEF Typed
  <1>a. n \in JobRecord /\ n.kind = job[j].kind /\ n.auths = {} /\ n.seen = {}
    BY <1>1 DEF JobRecord, NewJob, Steps
  <1>2. r \in JobRecord /\ r.kind = job[j].kind /\ r.auths = {} /\ r.seen = {}
    <2> HIDE DEF n
    <2> QED BY <1>1, <1>a DEF JobRecord, Steps
  <1>3. job' = [job EXCEPT ![j] = r]
    BY DEF Ends
  <1> HIDE DEF r
  <1> QED BY <1>2, <1>3 DEF Typed

LEMMA StepJob ==
  ASSUME Typed, NEW j \in Jobs, NEW step \in Steps, Step(j, step)
  PROVE  /\ job' \in [Jobs -> JobRecord]
         /\ \A k \in Jobs : /\ job'[k].kind = job[k].kind
                            /\ job'[k].auths = job[k].auths
                            /\ job'[k].seen = job[k].seen
  BY DEF Typed, JobRecord, Step

-----------------------------------------------------------------------------
(* What a job of a kind signs for a wallet, from what it has read of it.   *)
TargetOf(kind) == IF kind = "revoke" THEN "clear" ELSE "executor"

Signs(kind, s, a) ==
  /\ a.wallet = s.wallet /\ a.base = s.nonce /\ a.again = s.again
  /\ a.target = TargetOf(kind)
  /\ a.nonce = IF kind = "snipe" THEN s.nonce ELSE AuthorizationNonce(s.wallet, s.nonce)

ReadNow(s) == \E read \in Reads : s \in Seen(read, Wallets)

(* How the jobs change when one of them prepares its batch.                *)
JobsPrepare ==
  /\ job' \in [Jobs -> JobRecord]
  /\ \A k \in Jobs :
       /\ job'[k].kind = job[k].kind
       /\ \A s \in job'[k].seen :
            s \in job[k].seen \/ (ReadNow(s) /\ (job[k].kind = "revoke" => s.code # "clear"))
       /\ \A a \in job'[k].auths :
            a \in job[k].auths \/ \E s \in SeenRecord : /\ s \in job[k].seen \/ ReadNow(s)
                                                        /\ Signs(job[k].kind, s, a)

LEMMA SnapshotJob ==
  ASSUME Typed, NEW j \in Jobs, NEW read \in Reads, Snapshot(j, read)
  PROVE  JobsPrepare
  <1>1. Seen(read, Wallets) \subseteq SeenRecord
    BY SeenType
  <1>2. job' = [job EXCEPT ![j].step = "launch", ![j].seen = Seen(read, Wallets)]
    BY DEF Snapshot
  <1>3. job' \in [Jobs -> JobRecord]
    <2> DEFINE q == [job[j] EXCEPT !.step = "launch", !.seen = Seen(read, Wallets)]
    <2>1. q \in JobRecord
      BY <1>1 DEF Typed, JobRecord, Steps
    <2>2. job' = [job EXCEPT ![j] = q]
      BY <1>2
    <2> HIDE DEF q
    <2> QED BY <2>1, <2>2 DEF Typed
  <1>4. /\ \A k \in Jobs : job'[k].kind = job[k].kind /\ job'[k].auths = job[k].auths
        /\ \A k \in Jobs : job'[k].seen = IF k = j THEN Seen(read, Wallets) ELSE job[k].seen
        /\ job[j].kind = "phase"
    BY <1>1, <1>2, <1>3 DEF Typed, JobRecord, Snapshot, At
  <1> QED BY <1>3, <1>4 DEF JobsPrepare, ReadNow

LEMMA LaunchJob ==
  ASSUME Typed, NEW j \in Jobs, NEW n \in Int, PrepareSponsoredLaunch(j, n)
  PROVE  JobsPrepare
  <1> DEFINE A == {Authorization(s, "executor", AuthorizationNonce(s.wallet, s.nonce)) :
                     s \in {t \in job[j].seen : NeedsAuthorization(t)}}
  <1>1. job[j].seen \subseteq SeenRecord /\ "executor" \in Targets
    BY DEF Typed, JobRecord, Targets
  <1>2. A \subseteq AuthRecord
    BY <1>1, AuthorizationType
  <1>3. job' = [job EXCEPT ![j].step = "ready", ![j].nonce = n, ![j].auths = A]
    BY DEF PrepareSponsoredLaunch
  <1>4. job[j].kind = "phase"
    BY DEF PrepareSponsoredLaunch, At
  <1>5. \A a \in A : \E s \in SeenRecord : s \in job[j].seen /\ Signs(job[j].kind, s, a)
    BY <1>1, <1>4 DEF Signs, TargetOf, Authorization
  <1> HIDE DEF A
  <1> DEFINE q == [job[j] EXCEPT !.step = "ready", !.nonce = n, !.auths = A]
  <1>a. q \in JobRecord
    BY <1>2 DEF Typed, JobRecord, Steps
  <1>b. job' = [job EXCEPT ![j] = q]
    BY <1>3
  <1>6. job' \in [Jobs -> JobRecord]
    <2> HIDE DEF q
    <2> QED BY <1>a, <1>b DEF Typed
  <1>7. /\ \A k \in Jobs : job'[k].kind = job[k].kind /\ job'[k].seen = job[k].seen
        /\ \A k \in Jobs : job'[k].auths = IF k = j THEN A ELSE job[k].auths
    BY <1>2, <1>3 DEF Typed, JobRecord
  <1> QED BY <1>5, <1>6, <1>7 DEF JobsPrepare

LEMMA SignBatchJob ==
  ASSUME Typed, NEW j \in Jobs, NEW acted \in SUBSET {s.wallet : s \in job[j].seen},
         SignBatch(j, acted)
  PROVE  JobsPrepare
  <1> DEFINE M == acted \ {Recipient}
             A == {a \in job[j].auths : a.wallet \in M}
  <1>1. job[j].seen \subseteq SeenRecord
    BY DEF Typed, JobRecord
  <1>2. M \subseteq Wallets
    BY <1>1 DEF SeenRecord
  <1>3. job' = [job EXCEPT ![j].step = "send", ![j].members = M, ![j].seen = {}, ![j].auths = A]
    BY DEF SignBatch
  <1>4. A \subseteq job[j].auths
    OBVIOUS
  <1> HIDE DEF A, M
  <1> DEFINE q == [job[j] EXCEPT !.step = "send", !.members = M, !.seen = {}, !.auths = A]
  <1>a. q \in JobRecord
    BY <1>2, <1>4 DEF Typed, JobRecord, Steps
  <1>b. job' = [job EXCEPT ![j] = q]
    BY <1>3
  <1>5. job' \in [Jobs -> JobRecord]
    <2> HIDE DEF q
    <2> QED BY <1>a, <1>b DEF Typed
  <1>6. /\ \A k \in Jobs : job'[k].kind = job[k].kind
        /\ \A k \in Jobs : job'[k].seen = IF k = j THEN {} ELSE job[k].seen
        /\ \A k \in Jobs : job'[k].auths = IF k = j THEN A ELSE job[k].auths
    BY <1>3 DEF Typed, JobRecord
  <1> QED BY <1>4, <1>5, <1>6 DEF JobsPrepare

LEMMA SignSnipeJob ==
  ASSUME Typed, NEW j \in Jobs, NEW chosen \in SUBSET Wallets, NEW read \in Reads,
         SignSnipe(j, chosen, read)
  PROVE  JobsPrepare
  <1> DEFINE A == {Authorization(s, "executor", SameNonce(s.wallet, s.nonce)) :
                     s \in {t \in Seen(read, chosen) : NeedsAuthorization(t)}}
  <1>1. Seen(read, chosen) \subseteq SeenRecord /\ "executor" \in Targets
    BY SeenType DEF Targets
  <1>2. A \subseteq AuthRecord
    BY <1>1, AuthorizationType
  <1>3. job' = [job EXCEPT ![j].step = "sponsor", ![j].members = chosen, ![j].auths = A]
    BY DEF SignSnipe
  <1>4. job[j].kind = "snipe"
    BY DEF SignSnipe, At
  <1>5. \A s \in Seen(read, chosen) : ReadNow(s)
    BY DEF Seen, ReadNow
  <1>6. \A a \in A : \E s \in SeenRecord : ReadNow(s) /\ Signs(job[j].kind, s, a)
    BY <1>1, <1>4, <1>5 DEF Signs, TargetOf, Authorization, SameNonce
  <1> HIDE DEF A
  <1> DEFINE q == [job[j] EXCEPT !.step = "sponsor", !.members = chosen, !.auths = A]
  <1>a. q \in JobRecord
    BY <1>2 DEF Typed, JobRecord, Steps
  <1>b. job' = [job EXCEPT ![j] = q]
    BY <1>3
  <1>7. job' \in [Jobs -> JobRecord]
    <2> HIDE DEF q
    <2> QED BY <1>a, <1>b DEF Typed
  <1>8. /\ \A k \in Jobs : job'[k].kind = job[k].kind /\ job'[k].seen = job[k].seen
        /\ \A k \in Jobs : job'[k].auths = IF k = j THEN A ELSE job[k].auths
    BY <1>2, <1>3 DEF Typed, JobRecord
  <1> QED BY <1>6, <1>7, <1>8 DEF JobsPrepare

LEMMA ArmJob ==
  ASSUME Typed, NEW j \in Jobs, NEW n \in Int, Arm(j, n)
  PROVE  JobsPrepare
  <1>1. job' = [job EXCEPT ![j].step = "armed", ![j].nonce = n]
    BY DEF Arm
  <1>2. job' \in [Jobs -> JobRecord]
    <2> DEFINE q == [job[j] EXCEPT !.step = "armed", !.nonce = n]
    <2>1. q \in JobRecord
      BY DEF Typed, JobRecord, Steps
    <2>2. job' = [job EXCEPT ![j] = q]
      BY <1>1
    <2> HIDE DEF q
    <2> QED BY <2>1, <2>2 DEF Typed
  <1>3. \A k \in Jobs : /\ job'[k].kind = job[k].kind /\ job'[k].seen = job[k].seen
                        /\ job'[k].auths = job[k].auths
    BY <1>1 DEF Typed, JobRecord
  <1> QED BY <1>2, <1>3 DEF JobsPrepare

LEMMA RevocationsJob ==
  ASSUME Typed, NEW j \in Jobs, NEW n \in Int, NEW read \in Reads,
         PrepareRevocations(j, read, n)
  PROVE  JobsPrepare
  <1> DEFINE delegated == {s \in Seen(read, Wallets) : s.code # "clear"}
  <1>1. delegated \subseteq SeenRecord
    BY SeenType
  <1>2. CASE delegated = {}
    <2>1. Ends(j)
      BY <1>2 DEF PrepareRevocations
    <2> QED BY <2>1, EndsJob DEF JobsPrepare
  <1>3. CASE delegated # {}
    <2>1. job' = [job EXCEPT ![j].step = "validate", ![j].seen = delegated, ![j].nonce = n]
      BY <1>3 DEF PrepareRevocations
    <2>2. \A s \in delegated : ReadNow(s) /\ s.code # "clear"
      BY DEF ReadNow
    <2> HIDE DEF delegated
    <2> DEFINE q == [job[j] EXCEPT !.step = "validate", !.seen = delegated, !.nonce = n]
    <2>a. q \in JobRecord
      BY <1>1 DEF Typed, JobRecord, Steps
    <2>b. job' = [job EXCEPT ![j] = q]
      BY <2>1
    <2>3. job' \in [Jobs -> JobRecord]
      <3> HIDE DEF q
      <3> QED BY <2>a, <2>b DEF Typed
    <2>4. /\ \A k \in Jobs : job'[k].kind = job[k].kind /\ job'[k].auths = job[k].auths
          /\ \A k \in Jobs : job'[k].seen = IF k = j THEN delegated ELSE job[k].seen
      BY <1>1, <2>1 DEF Typed, JobRecord
    <2> QED BY <2>2, <2>3, <2>4 DEF JobsPrepare
  <1> QED BY <1>2, <1>3

LEMMA ValidateJob ==
  ASSUME Typed, NEW j \in Jobs, NEW n \in Int, NEW read \in Reads,
         ValidateRevocations(j, read, n)
  PROVE  JobsPrepare
  <1> DEFINE signed(s) == Authorization(s, "clear", AuthorizationNonce(s.wallet, s.nonce))
             A == {[signed(s) EXCEPT !.base = read[s.wallet]] : s \in job[j].seen}
  <1>1. job[j].seen \subseteq SeenRecord /\ "clear" \in Targets
    BY DEF Typed, JobRecord, Targets
  <1>2. \A s \in job[j].seen : s.wallet \in Wallets /\ read[s.wallet] \in Int
    BY <1>1, ReadTypes DEF SeenRecord
  <1>3. A \subseteq AuthRecord
    BY <1>1, <1>2, AuthorizationType
  <1>4. job' = [job EXCEPT ![j].step = "send", ![j].nonce = n, ![j].auths = A]
    BY DEF ValidateRevocations
  <1>5. job[j].kind = "revoke" /\ \A s \in job[j].seen : read[s.wallet] = s.nonce
    BY DEF ValidateRevocations, At, Unmoved
  <1>6. ASSUME NEW s \in job[j].seen
        PROVE  Signs(job[j].kind, s, [signed(s) EXCEPT !.base = read[s.wallet]])
    <2>1. signed(s) \in AuthRecord
      BY <1>1, <1>6, AuthorizationType
    <2>2. /\ signed(s).wallet = s.wallet /\ signed(s).again = s.again
          /\ signed(s).target = "clear"
          /\ signed(s).nonce = AuthorizationNonce(s.wallet, s.nonce)
      BY DEF Authorization
    <2> HIDE DEF signed
    <2> QED BY <1>5, <1>6, <2>1, <2>2 DEF Signs, TargetOf, AuthRecord
  <1>7. \A a \in A : \E s \in SeenRecord : s \in job[j].seen /\ Signs(job[j].kind, s, a)
    BY <1>1, <1>6
  <1> HIDE DEF A
  <1> DEFINE q == [job[j] EXCEPT !.step = "send", !.nonce = n, !.auths = A]
  <1>a. q \in JobRecord
    BY <1>3 DEF Typed, JobRecord, Steps
  <1>b. job' = [job EXCEPT ![j] = q]
    BY <1>4
  <1>8. job' \in [Jobs -> JobRecord]
    <2> HIDE DEF q
    <2> QED BY <1>a, <1>b DEF Typed
  <1>9. /\ \A k \in Jobs : job'[k].kind = job[k].kind /\ job'[k].seen = job[k].seen
        /\ \A k \in Jobs : job'[k].auths = IF k = j THEN A ELSE job[k].auths
    BY <1>3, <1>4 DEF Typed, JobRecord
  <1> QED BY <1>7, <1>8, <1>9 DEF JobsPrepare

LEMMA PrepareMoves ==
  ASSUME Typed, NEW j \in Jobs, Prepare(j)
  PROVE  JobsPrepare /\ UNCHANGED <<told, chain>>
  <1>1. Sponsor \in Accounts
    BY DEF Accounts
  <1>2. CASE \E read \in Reads : \/ Snapshot(j, read)
                                 \/ \E chosen \in SUBSET Wallets : SignSnipe(j, chosen, read)
    BY <1>2, SnapshotJob, SignSnipeJob DEF Snapshot, SignSnipe
  <1>3. CASE \E n \in NonceReads(Sponsor) : PrepareSponsoredLaunch(j, n) \/ Arm(j, n)
    BY <1>1, <1>3, ReadTypes, LaunchJob, ArmJob DEF PrepareSponsoredLaunch, Arm
  <1>4. CASE \E acted \in SUBSET {s.wallet : s \in job[j].seen} : SignBatch(j, acted)
    BY <1>4, SignBatchJob DEF SignBatch
  <1>5. CASE \E read \in Reads, n \in NonceReads(Sponsor) :
               PrepareRevocations(j, read, n) \/ ValidateRevocations(j, read, n)
    <2> SUFFICES ASSUME NEW read \in Reads, NEW n \in NonceReads(Sponsor),
                        PrepareRevocations(j, read, n) \/ ValidateRevocations(j, read, n)
                 PROVE  JobsPrepare /\ UNCHANGED <<told, chain>>
      BY <1>5
    <2>1. n \in Int
      BY <1>1, ReadTypes
    <2> QED BY <2>1, RevocationsJob, ValidateJob DEF PrepareRevocations, ValidateRevocations
  <1> QED BY <1>2, <1>3, <1>4, <1>5 DEF Prepare

-----------------------------------------------------------------------------
(* The steps that send a batch, hear of it or give it up: what jobs have   *)
(* read and signed is kept or dropped, and the chain only gains the        *)
(* transaction in its pool.                                                *)
JobsKeep ==
  /\ job' \in [Jobs -> JobRecord]
  /\ \A k \in Jobs : /\ job'[k].kind = job[k].kind
                     /\ job'[k].auths \in {job[k].auths, {}}
                     /\ job'[k].seen \in {job[k].seen, {}}

ToldOf(j, m) ==
  reports \cup {[job |-> j, wallet |-> w, success |-> w \in m.succeeded] : w \in job[j].members}

FinishMove(j) ==
  /\ JobsKeep
  /\ UNCHANGED <<code, nonce, mined, foreign>>
  /\ pool' \in {pool, pool \cup {Outer(j)}}
  /\ \/ reports' = reports
     \/ \E m \in mined : m.tx = Outer(j) /\ reports' = ToldOf(j, m)
  /\ \/ cleared' = cleared
     \/ /\ job[j].kind = "revoke"
        /\ \A s \in job[j].seen : code[s.wallet] = "clear"
        /\ cleared' = cleared \cup {s.wallet : s \in job[j].seen}

LEMMA SentMoves ==
  ASSUME Typed, NEW j \in Jobs, Sent(j)
  PROVE  FinishMove(j)
  <1>1. Step(j, "await") /\ "await" \in Steps
    BY DEF Sent, Steps
  <1>2. JobsKeep
    BY <1>1, StepJob DEF JobsKeep
  <1> QED BY <1>2 DEF Sent, FinishMove, told

LEMMA TellMoves ==
  ASSUME Typed, NEW j \in Jobs, NEW m \in mined, m.tx = Outer(j), Tell(j, EventsOf(m))
  PROVE  FinishMove(j)
  <1>1. JobsKeep
    BY EndsJob DEF Tell, JobsKeep
  <1>2. reports' = ToldOf(j, m)
    BY DEF Tell, EventsOf, ToldOf
  <1> QED BY <1>1, <1>2 DEF Tell, FinishMove, chain

LEMMA EndsMoves ==
  ASSUME Typed, NEW j \in Jobs, Ends(j), UNCHANGED <<told, chain>>
  PROVE  FinishMove(j)
  BY EndsJob DEF FinishMove, JobsKeep, told, chain

LEMMA FinishMoves ==
  ASSUME Typed, NEW j \in Jobs, Finish(j)
  PROVE  FinishMove(j)
  <1>1. CASE Submit(j) \/ Fire(j)
    BY <1>1, SentMoves DEF Submit, Fire
  <1>2. ASSUME NEW arrived \in BOOLEAN, SubmitFails(j, arrived)
        PROVE  FinishMove(j)
    BY <1>2, EndsJob DEF SubmitFails, FinishMove, JobsKeep, told
  <1>3. ASSUME NEW m \in mined, Confirmed(j, m) \/ Landed(j, m)
        PROVE  FinishMove(j)
    BY <1>3, TellMoves DEF Confirmed, Landed
  <1>4. ASSUME NEW m \in mined, RevocationMined(j, m)
        PROVE  FinishMove(j)
    <2>1. Step(j, "verify") /\ "verify" \in Steps
      BY <1>4 DEF RevocationMined, Steps
    <2>2. JobsKeep
      BY <2>1, StepJob DEF JobsKeep
    <2> QED BY <1>4, <2>2 DEF RevocationMined, FinishMove, told, chain
  <1>5. CASE VerifyRevocations(j)
    BY <1>5, EndsJob DEF VerifyRevocations, VerifiedClear, At, FinishMove, JobsKeep, chain
  <1>6. CASE RevocationIncomplete(j)
    BY <1>6, EndsMoves DEF RevocationIncomplete
  <1>7. CASE Unsupported(j) \/ Underfunded(j) \/ Fails(j)
    BY <1>7, EndsMoves DEF Unsupported, Underfunded, Fails, GivesUp
  <1> QED BY <1>1, <1>2, <1>3, <1>4, <1>5, <1>6, <1>7 DEF Finish

LEMMA ExpireMoves ==
  ASSUME Typed, NEW j \in Jobs, Expire(j)
  PROVE  JobsKeep /\ UNCHANGED <<told, chain>>
  BY DEF Expire, JobsKeep, Typed, JobRecord

(* What a block with a batch does: the authorizations that took effect,    *)
(* and the accounts they changed.                                          *)
RaisedNonce(w) == IF w = Sponsor THEN nonce[w] + 1 ELSE nonce[w]

Included(tx, m) ==
  /\ m \in MinedRecord /\ mined' = mined \cup {m}
  /\ m.tx = tx /\ m.before = nonce /\ m.valid \subseteq tx.auths
  /\ \A a \in tx.auths : a \in m.valid <=> a.nonce = RaisedNonce(a.wallet)
  /\ nonce' \in [Accounts -> Nat]
  /\ \A w \in Accounts : nonce'[w] >= nonce[w]
  /\ \A a \in m.valid : nonce'[a.wallet] > nonce[a.wallet]
  /\ code' \in [Accounts -> Targets]
  /\ \A w \in Accounts : \/ code'[w] = code[w] /\ \A a \in m.valid : a.wallet # w
                         \/ \E a \in m.valid : a.wallet = w /\ code'[w] = a.target

LEMMA IncludeMoves ==
  ASSUME Typed, NEW tx \in pool, NEW ok \in BOOLEAN, NEW succeeded \in SUBSET tx.members,
         Include(tx, ok, succeeded)
  PROVE  /\ \E m : Included(tx, m)
         /\ pool' \subseteq pool
         /\ UNCHANGED <<job, told, foreign>>
  <1> DEFINE sent == [nonce EXCEPT ![Sponsor] = @ + 1]
             valid == {a \in tx.auths : a.nonce = sent[a.wallet]}
             authorities == {a.wallet : a \in valid}
             m == [tx |-> tx, ok |-> ok, succeeded |-> succeeded, valid |-> valid,
                   before |-> nonce]
  <1>1. /\ tx \in OuterRecord /\ tx.auths \subseteq AuthRecord /\ tx.members \subseteq Wallets
        /\ \A a \in tx.auths : a.wallet \in Accounts /\ a.target \in Targets
        /\ Sponsor \in Accounts
    BY DEF Typed, OuterRecord, AuthRecord, Accounts
  <1>2. /\ sent \in [Accounts -> Nat]
        /\ \A w \in Accounts : sent[w] = RaisedNonce(w) /\ sent[w] >= nonce[w]
    BY <1>1 DEF Typed, RaisedNonce
  <1>3. /\ nonce' = [w \in Accounts |-> IF w \in authorities THEN sent[w] + 1 ELSE sent[w]]
        /\ code' = [w \in Accounts |-> IF w \in authorities
                                       THEN (CHOOSE a \in valid : a.wallet = w).target
                                       ELSE code[w]]
        /\ mined' = mined \cup {m}
        /\ pool' = {other \in pool : other.nonce > tx.nonce}
        /\ UNCHANGED <<job, told, foreign>>
    BY DEF Include
  <1>4. valid \subseteq tx.auths /\ \A a \in tx.auths : a \in valid <=> a.nonce = RaisedNonce(a.wallet)
    BY <1>1, <1>2
  <1>5. \A w \in Accounts : w \in authorities => \E a \in valid : a.wallet = w /\ code'[w] = a.target
    BY <1>3
  <1>6. \A w \in Accounts : w \notin authorities =>
          code'[w] = code[w] /\ \A a \in valid : a.wallet # w
    BY <1>3
  <1>7. m \in MinedRecord /\ m.tx = tx /\ m.before = nonce /\ m.valid = valid
    <2>1. succeeded \subseteq Wallets /\ valid \subseteq AuthRecord
      BY <1>1
    <2> HIDE DEF valid
    <2> QED BY <1>1, <2>1 DEF Typed, MinedRecord
  <1>8. \A a \in valid : a.wallet \in authorities
    OBVIOUS
  <1> HIDE DEF valid, sent, m, authorities
  <1>9. /\ nonce' \in [Accounts -> Nat]
        /\ \A w \in Accounts : nonce'[w] >= nonce[w]
        /\ \A a \in valid : nonce'[a.wallet] > nonce[a.wallet]
    BY <1>1, <1>2, <1>3, <1>4, <1>8 DEF Typed
  <1>10. code' \in [Accounts -> Targets]
    <2>1. \A w \in Accounts : code'[w] \in Targets
      BY <1>1, <1>4, <1>5, <1>6 DEF Typed
    <2> QED BY <1>3, <2>1
  <1>11. Included(tx, m)
    BY <1>3, <1>4, <1>5, <1>6, <1>7, <1>9, <1>10 DEF Included
  <1> QED BY <1>3, <1>11

LEMMA ForeignMoves ==
  ASSUME Typed, NEW w \in Wallets, ForeignTransaction(w)
  PROVE  /\ nonce' \in [Accounts -> Nat]
         /\ \A v \in Accounts : nonce'[v] >= nonce[v]
         /\ pool' \subseteq pool
         /\ UNCHANGED <<job, told, code, mined>>
  BY DEF ForeignTransaction, Typed, Accounts

(* Every step, in the terms the invariants speak of.                       *)
LEMMA NextMoves ==
  ASSUME Typed, [Next]_vars
  PROVE  \/ JobsPrepare /\ UNCHANGED <<told, chain>>
         \/ \E j \in Jobs : FinishMove(j)
         \/ \E tx \in pool, m \in MinedRecord :
              /\ Included(tx, m)
              /\ pool' \subseteq pool /\ UNCHANGED <<job, told, foreign>>
         \/ /\ nonce' \in [Accounts -> Nat] /\ \A v \in Accounts : nonce'[v] >= nonce[v]
            /\ pool' \subseteq pool
            /\ JobsKeep /\ UNCHANGED <<told, code, mined>>
  <1>0. UNCHANGED job => JobsKeep
    BY DEF Typed, JobsKeep
  <1>1. CASE UNCHANGED vars
    BY <1>0, <1>1 DEF vars, chain, told, Typed
  <1>2. ASSUME NEW j \in Jobs, Prepare(j)
        PROVE  JobsPrepare /\ UNCHANGED <<told, chain>>
    BY <1>2, PrepareMoves
  <1>3. ASSUME NEW j \in Jobs, Finish(j)
        PROVE  FinishMove(j)
    BY <1>3, FinishMoves
  <1>4. ASSUME NEW tx \in pool, NEW ok \in BOOLEAN, NEW succeeded \in SUBSET tx.members,
               Include(tx, ok, succeeded)
        PROVE  \E m \in MinedRecord : /\ Included(tx, m)
                                      /\ pool' \subseteq pool /\ UNCHANGED <<job, told, foreign>>
    BY <1>4, IncludeMoves DEF Included
  <1>5. ASSUME NEW j \in Jobs, Expire(j)
        PROVE  /\ nonce' \in [Accounts -> Nat] /\ \A v \in Accounts : nonce'[v] >= nonce[v]
               /\ pool' \subseteq pool
               /\ JobsKeep /\ UNCHANGED <<told, code, mined>>
    BY <1>5, ExpireMoves DEF chain, Typed
  <1>6. ASSUME NEW w \in Wallets, ForeignTransaction(w)
        PROVE  /\ nonce' \in [Accounts -> Nat] /\ \A v \in Accounts : nonce'[v] >= nonce[v]
               /\ pool' \subseteq pool
               /\ JobsKeep /\ UNCHANGED <<told, code, mined>>
    BY <1>0, <1>6, ForeignMoves
  <1> QED BY <1>1, <1>2, <1>3, <1>4, <1>5, <1>6 DEF Next, World

LEMMA TypedStep == Typed /\ [Next]_vars => Typed'
  <1> SUFFICES ASSUME Typed, [Next]_vars PROVE Typed'
    OBVIOUS
  <1>1. CASE JobsPrepare /\ UNCHANGED <<told, chain>>
    BY <1>1 DEF Typed, JobsPrepare, told, chain
  <1>2. ASSUME NEW j \in Jobs, FinishMove(j)
        PROVE  Typed'
    <2>1. job[j] \in JobRecord
      BY DEF Typed
    <2>2. Outer(j) \in OuterRecord
      BY <2>1 DEF Outer, OuterRecord, JobRecord
    <2>3. {s.wallet : s \in job[j].seen} \subseteq Wallets
      BY <2>1 DEF JobRecord, SeenRecord
    <2> QED BY <1>2, <2>2, <2>3 DEF FinishMove, JobsKeep, Typed
  <1>3. ASSUME NEW tx \in pool, NEW m \in MinedRecord, Included(tx, m),
               pool' \subseteq pool, UNCHANGED <<job, told, foreign>>
        PROVE  Typed'
    BY <1>3 DEF Included, Typed, told
  <1>4. CASE /\ nonce' \in [Accounts -> Nat] /\ \A v \in Accounts : nonce'[v] >= nonce[v]
             /\ pool' \subseteq pool
             /\ JobsKeep /\ UNCHANGED <<told, code, mined>>
    BY <1>4 DEF JobsKeep, Typed, told
  <1> QED BY <1>1, <1>2, <1>3, <1>4, NextMoves

-----------------------------------------------------------------------------
(* What was signed stays what the kind of its job signs, whether a job     *)
(* still holds it, the pool does, or a block; and a block applies every    *)
(* authorization that has the nonce it asks for.                           *)
Bound(kind, a) ==
  /\ a.target = TargetOf(kind)
  /\ (kind = "snipe" => a.wallet # Sponsor) => a.nonce = AuthorizationNonce(a.wallet, a.base)

JobsBound == \A j \in Jobs : \A a \in job[j].auths : Bound(job[j].kind, a)
PoolBound == \A tx \in pool : \A a \in tx.auths : Bound(job[tx.job].kind, a)
BlocksBound ==
  \A m \in mined : \A a \in m.tx.auths :
    /\ Bound(job[m.tx.job].kind, a)
    /\ a.nonce = (IF a.wallet = Sponsor THEN m.before[a.wallet] + 1 ELSE m.before[a.wallet])
         => a \in m.valid

SignedInv == Typed /\ JobsBound /\ PoolBound /\ BlocksBound

LEMMA InitSigned == Init => SignedInv
  <1> SUFFICES ASSUME Init PROVE SignedInv
    OBVIOUS
  <1>1. \A j \in Jobs : job[j].auths = {}
    BY DEF Init, NewJob
  <1> QED BY <1>1, InitTyped DEF Init, SignedInv, JobsBound, PoolBound, BlocksBound

LEMMA SignedStep == SignedInv /\ [Next]_vars => SignedInv'
  <1> SUFFICES ASSUME SignedInv, [Next]_vars PROVE SignedInv'
    OBVIOUS
  <1> USE DEF SignedInv
  <1>0. Typed'
    BY TypedStep
  <1>1. CASE JobsPrepare /\ UNCHANGED <<told, chain>>
    <2>1. \A k \in Jobs : job'[k].kind = job[k].kind
      BY <1>1 DEF JobsPrepare
    <2>2. ASSUME NEW k \in Jobs, NEW s \in SeenRecord, NEW a, Signs(job[k].kind, s, a)
          PROVE  Bound(job[k].kind, a)
      BY <2>2 DEF Signs, Bound, AuthorizationNonce
    <2>3. JobsBound'
      <3> SUFFICES ASSUME NEW k \in Jobs, NEW a \in job'[k].auths PROVE Bound(job'[k].kind, a)
        BY DEF JobsBound, Bound, TargetOf, AuthorizationNonce
      <3>1. \/ a \in job[k].auths
            \/ \E s \in SeenRecord : Signs(job[k].kind, s, a)
        BY <1>1 DEF JobsPrepare
      <3> QED BY <2>1, <2>2, <3>1 DEF JobsBound
    <2>4. PoolBound' /\ BlocksBound'
      BY <1>1, <2>1 DEF chain, PoolBound, BlocksBound, Typed, OuterRecord, MinedRecord,
                        Bound, TargetOf, AuthorizationNonce
    <2> QED BY <1>0, <2>3, <2>4
  <1>2. ASSUME NEW j \in Jobs, FinishMove(j)
        PROVE  SignedInv'
    <2>1. /\ \A k \in Jobs : job'[k].kind = job[k].kind
          /\ \A k \in Jobs : job'[k].auths \in {job[k].auths, {}}
      BY <1>2 DEF FinishMove, JobsKeep
    <2>2. JobsBound'
      BY <2>1 DEF JobsBound, Bound, TargetOf, AuthorizationNonce
    <2>3. Outer(j).job = j /\ Outer(j).auths = job[j].auths
      BY DEF Outer
    <2>4. ASSUME NEW tx \in pool', NEW a \in tx.auths PROVE Bound(job'[tx.job].kind, a)
      <3>1. tx \in pool \/ tx = Outer(j)
        BY <1>2 DEF FinishMove
      <3>2. tx.job \in Jobs
        BY <1>0 DEF Typed, OuterRecord
      <3>3. Bound(job[tx.job].kind, a)
        BY <2>3, <3>1 DEF JobsBound, PoolBound
      <3> QED BY <2>1, <3>2, <3>3
    <2>5. PoolBound'
      BY <2>4 DEF PoolBound, Bound, TargetOf, AuthorizationNonce
    <2>6. BlocksBound'
      BY <1>2, <2>1 DEF FinishMove, BlocksBound, Typed, OuterRecord, MinedRecord,
                        Bound, TargetOf, AuthorizationNonce
    <2> QED BY <1>0, <2>2, <2>5, <2>6
  <1>3. ASSUME NEW tx \in pool, NEW m \in MinedRecord, Included(tx, m),
               pool' \subseteq pool, UNCHANGED <<job, told, foreign>>
        PROVE  SignedInv'
    <2>1. JobsBound' /\ PoolBound'
      BY <1>3 DEF JobsBound, PoolBound, Bound, TargetOf, AuthorizationNonce
    <2>2. mined' = mined \cup {m} /\ m.tx = tx /\ m.before = nonce
          /\ \A a \in tx.auths : a \in m.valid <=> a.nonce = RaisedNonce(a.wallet)
      BY <1>3 DEF Included
    <2>3. \A a \in tx.auths : Bound(job[tx.job].kind, a)
      BY DEF PoolBound
    <2>4. BlocksBound'
      BY <1>3, <2>2, <2>3 DEF BlocksBound, RaisedNonce, Bound, TargetOf, AuthorizationNonce
    <2> QED BY <1>0, <2>1, <2>4
  <1>4. CASE /\ nonce' \in [Accounts -> Nat] /\ \A v \in Accounts : nonce'[v] >= nonce[v]
             /\ pool' \subseteq pool
             /\ JobsKeep /\ UNCHANGED <<told, code, mined>>
    <2>1. /\ \A k \in Jobs : job'[k].kind = job[k].kind
          /\ \A k \in Jobs : job'[k].auths \in {job[k].auths, {}}
      BY <1>4 DEF JobsKeep
    <2>2. JobsBound'
      BY <2>1 DEF JobsBound, Bound, TargetOf, AuthorizationNonce
    <2>3. PoolBound' /\ BlocksBound'
      BY <1>4, <2>1 DEF PoolBound, BlocksBound, Typed, OuterRecord, MinedRecord,
                        Bound, TargetOf, AuthorizationNonce
    <2> QED BY <1>0, <2>2, <2>3
  <1> QED BY <1>1, <1>2, <1>3, <1>4, NextMoves

LEMMA SignedInvariant == Spec => []SignedInv
  BY InitSigned, SignedStep, PTL DEF Spec

(***************************************************************************)
(* Every authorization of a phase or a revocation carries the nonce the    *)
(* chain wants of it, one more for a wallet that is the sponsor: unless    *)
(* its wallet's nonce moved after the job read it, it takes effect         *)
(* (authorization_nonce in multi_mint.rs).                                 *)
(***************************************************************************)
THEOREM AuthorizationsTakeEffect == Spec => []AuthorizationsApply
  <1>1. SignedInv => AuthorizationsApply
    BY DEF SignedInv, BlocksBound, Bound, AuthorizationNonce, AuthorizationsApply
  <1> QED BY <1>1, SignedInvariant, PTL

-----------------------------------------------------------------------------
(* The reports only ever quote a block, and blocks stay.                   *)
TruthInv == Typed /\ ReportsAreTrue

LEMMA TruthStep == TruthInv /\ [Next]_vars => TruthInv'
  <1> SUFFICES ASSUME TruthInv, [Next]_vars PROVE TruthInv'
    OBVIOUS
  <1> USE DEF TruthInv
  <1>0. Typed'
    BY TypedStep
  <1>1. ASSUME reports' = reports, mined \subseteq mined'
        PROVE  ReportsAreTrue'
    BY <1>1 DEF ReportsAreTrue
  <1>2. ASSUME NEW j \in Jobs, NEW m \in mined, m.tx = Outer(j), reports' = ToldOf(j, m),
               mined' = mined
        PROVE  ReportsAreTrue'
    <2>1. m.tx.job = j
      BY <1>2 DEF Outer
    <2>2. ASSUME NEW r \in reports'
          PROVE  \E b \in mined : b.tx.job = r.job /\ (r.success <=> r.wallet \in b.succeeded)
      <3>1. CASE r \in reports
        BY <3>1 DEF ReportsAreTrue
      <3>2. CASE \E w \in job[j].members :
                   r = [job |-> j, wallet |-> w, success |-> w \in m.succeeded]
        <4>1. PICK w \in job[j].members :
                r = [job |-> j, wallet |-> w, success |-> w \in m.succeeded]
          BY <3>2
        <4>2. r.job = j /\ r.wallet = w
          BY <4>1
        <4>3. CASE w \in m.succeeded
          <5>1. r = [job |-> j, wallet |-> w, success |-> TRUE]
            BY <4>1, <4>3
          <5>2. r.success
            BY <5>1
          <5> QED BY <2>1, <4>2, <4>3, <5>2
        <4>4. CASE w \notin m.succeeded
          <5>0. (w \in m.succeeded) = FALSE
            BY <4>4
          <5>1. r = [job |-> j, wallet |-> w, success |-> FALSE]
            BY <4>1, <5>0
          <5>2. ~r.success
            BY <5>1
          <5> QED BY <2>1, <4>2, <4>4, <5>2
        <4> QED BY <4>3, <4>4
      <3> QED BY <1>2, <3>1, <3>2 DEF ToldOf
    <2> QED BY <1>2, <2>2 DEF ReportsAreTrue
  <1>3. \/ reports' = reports /\ mined \subseteq mined'
        \/ \E j \in Jobs, m \in mined :
             m.tx = Outer(j) /\ reports' = ToldOf(j, m) /\ mined' = mined
    BY NextMoves DEF told, chain, FinishMove, Included
  <1> QED BY <1>0, <1>1, <1>2, <1>3

(***************************************************************************)
(* What a phase or a snipe tells its user of a wallet is what the executor *)
(* did for it in a block that holds that very batch, whatever the status   *)
(* of the outer transaction (decode_sponsored_outcomes,                    *)
(* count_minted_units).                                                    *)
(***************************************************************************)
THEOREM UserIsToldTheTruth == Spec => []ReportsAreTrue
  <1>1. Init => TruthInv
    BY InitTyped DEF Init, TruthInv, ReportsAreTrue
  <1>2. TruthInv => ReportsAreTrue
    BY DEF TruthInv
  <1> QED BY <1>1, <1>2, TruthStep, PTL DEF Spec

-----------------------------------------------------------------------------
(***************************************************************************)
(* Why a cleared wallet stays clear.  Whatever a job holds or has sent for *)
(* a wallet is no newer than the chain, and older if a revocation took     *)
(* effect that it did not know: the block that revoked the wallet raised   *)
(* its nonce.  The sponsor's own pending nonce may run ahead of the chain, *)
(* and nothing of the kind holds of a wallet that is the sponsor.          *)
(***************************************************************************)
Delegates(w) == \E m \in mined : \E a \in m.valid : a.wallet = w /\ a.target = "executor"
Again(w) ==
  \E m \in mined : \E a \in m.valid : a.wallet = w /\ a.target = "executor" /\ a.again
Touched(w) == w \in Delegated \/ Delegates(w)

Fresh(w, base, again) ==
  w # Sponsor => base <= nonce[w] /\ (Revoked(w) /\ ~again => base < nonce[w])

JobsFresh ==
  \A j \in Jobs : /\ \A s \in job[j].seen : Fresh(s.wallet, s.nonce, s.again)
                  /\ \A a \in job[j].auths : Fresh(a.wallet, a.base, a.again)
PoolFresh == \A tx \in pool : \A a \in tx.auths : Fresh(a.wallet, a.base, a.again)

(* A delegated wallet was so at first or by a batch, and only a revocation *)
(* makes it clear again.                                                   *)
Traced ==
  \A w \in Wallets : /\ code[w] # "clear" => Touched(w)
                     /\ code[w] = "clear" /\ Touched(w) => Revoked(w)
SeenTouched == \A j \in Jobs : job[j].kind = "revoke" => \A s \in job[j].seen : Touched(s.wallet)
ClearedRevoked == \A w \in cleared : Revoked(w)
Renewed == \A w \in Wallets \ {Sponsor} : Revoked(w) /\ code[w] # "clear" => Again(w)

ClearInv ==
  /\ JobsFresh /\ PoolFresh
  /\ Traced /\ SeenTouched /\ ClearedRevoked
  /\ Renewed

LEMMA ReadNowFacts ==
  ASSUME Typed, NEW s, ReadNow(s)
  PROVE  /\ s \in SeenRecord
         /\ s.code = code[s.wallet]
         /\ Fresh(s.wallet, s.nonce, s.again)
  <1>1. PICK read \in Reads : s \in Seen(read, Wallets)
    BY DEF ReadNow
  <1>2. PICK w \in Wallets :
          s = [wallet |-> w, nonce |-> read[w], code |-> code[w], again |-> Revoked(w)]
    BY <1>1 DEF Seen
  <1>3. s \in SeenRecord
    BY <1>1, SeenType
  <1>4. s.wallet = w /\ s.nonce = read[w] /\ s.code = code[w]
    BY <1>2
  <1>5. w # Sponsor => read[w] = nonce[w]
    <2>1. read[w] \in NonceReads(w) /\ w \in Accounts
      BY ReadTypes
    <2> SUFFICES ASSUME w # Sponsor PROVE read[w] = nonce[w]
      OBVIOUS
    <2>2. Pooled(w) = {} /\ Cardinality({}) = 0
      BY FS_EmptySet DEF Pooled
    <2>3. nonce[w] \in Nat
      BY <2>1 DEF Typed
    <2> QED BY <2>1, <2>2, <2>3 DEF NonceReads
  <1>6. Revoked(w) => s.again
    <2> SUFFICES ASSUME Revoked(w) PROVE s.again
      OBVIOUS
    <2>1. Revoked(w) = TRUE
      BY DEF Revoked
    <2>2. s = [wallet |-> w, nonce |-> read[w], code |-> code[w], again |-> TRUE]
      BY <1>2, <2>1
    <2> QED BY <2>2
  <1>7. w \in Accounts /\ nonce[w] \in Nat
    BY ReadTypes DEF Typed
  <1>8. Fresh(w, read[w], s.again)
    BY <1>5, <1>6, <1>7 DEF Fresh
  <1> QED BY <1>3, <1>4, <1>8

(* Blocks are only added.                                                  *)
LEMMA BlocksStay ==
  ASSUME mined \subseteq mined', NEW w
  PROVE  /\ Revoked(w) => Revoked(w)'
         /\ Touched(w) => Touched(w)'
         /\ Again(w) => Again(w)'
  BY DEF Revoked, Touched, Delegates, Again

(* An authorization stays fresh while the nonces only grow, and grow when  *)
(* a revocation takes effect.                                              *)
LEMMA FreshStays ==
  ASSUME Typed, Typed', mined \subseteq mined',
         \A w \in Accounts : nonce'[w] >= nonce[w],
         \A w \in Accounts : Revoked(w)' => Revoked(w) \/ nonce'[w] > nonce[w],
         NEW w \in Wallets, NEW base \in Int, NEW again, Fresh(w, base, again)
  PROVE  Fresh(w, base, again)'
  <1>1. w \in Accounts /\ nonce[w] \in Nat /\ nonce'[w] \in Nat
    BY DEF Typed, Accounts
  <1>2. nonce'[w] >= nonce[w] /\ (Revoked(w)' => Revoked(w) \/ nonce'[w] > nonce[w])
    BY <1>1
  <1>3. CASE w = Sponsor
    BY <1>3 DEF Fresh
  <1>4. CASE w # Sponsor
    <2>1. base <= nonce[w] /\ (Revoked(w) /\ ~again => base < nonce[w])
      BY <1>4 DEF Fresh
    <2>2. base <= nonce'[w]
      BY <1>1, <1>2, <2>1
    <2>3. Revoked(w)' /\ ~again => base < nonce'[w]
      BY <1>1, <1>2, <2>1
    <2> QED BY <2>2, <2>3 DEF Fresh
  <1> QED BY <1>3, <1>4

LEMMA ClearInit == Init => ClearInv
  <1> SUFFICES ASSUME Init PROVE ClearInv
    OBVIOUS
  <1>1. \A j \in Jobs : job[j].auths = {} /\ job[j].seen = {}
    BY DEF Init, NewJob
  <1>2. mined = {} /\ pool = {} /\ cleared = {}
    BY DEF Init
  <1>3. JobsFresh /\ PoolFresh /\ SeenTouched /\ ClearedRevoked
    BY <1>1, <1>2 DEF JobsFresh, PoolFresh, SeenTouched, ClearedRevoked
  <1>4. \A w : ~Revoked(w) /\ ~Delegates(w)
    BY <1>2 DEF Revoked, Delegates
  <1>5. Traced /\ Renewed
    BY <1>4 DEF Traced, Touched, Renewed, Init, Accounts
  <1> QED BY <1>3, <1>5 DEF ClearInv

(* The part of the invariant that follows when no block is added.          *)
LEMMA NoBlockStep ==
  ASSUME SignedInv, Typed', ClearInv, mined' = mined, code' = code,
         \A w \in Accounts : nonce'[w] >= nonce[w]
  PROVE  /\ Traced' /\ Renewed'
         /\ \A w : (Revoked(w)' <=> Revoked(w)) /\ (Touched(w)' <=> Touched(w))
         /\ \A w \in Wallets, base \in Int : \A again :
              Fresh(w, base, again) => Fresh(w, base, again)'
  <1>1. \A w : /\ Revoked(w)' <=> Revoked(w)
               /\ Touched(w)' <=> Touched(w)
               /\ Again(w)' <=> Again(w)
    BY DEF Revoked, Touched, Delegates, Again
  <1>2. Traced' /\ Renewed'
    BY <1>1 DEF ClearInv, Traced, Renewed
  <1>3. ASSUME NEW w \in Wallets, NEW base \in Int, NEW again, Fresh(w, base, again)
        PROVE  Fresh(w, base, again)'
    BY <1>1, <1>3, FreshStays DEF SignedInv
  <1> QED BY <1>1, <1>2, <1>3

LEMMA ClearPrepares ==
  ASSUME SignedInv, SignedInv', ClearInv, JobsPrepare, UNCHANGED <<told, chain>>
  PROVE  ClearInv'
  <1>1. /\ mined' = mined /\ code' = code /\ nonce' = nonce /\ pool' = pool
        /\ cleared' = cleared
        /\ Typed /\ Typed'
    BY DEF told, chain, SignedInv
  <1>2. \A w \in Accounts : nonce'[w] >= nonce[w]
    BY <1>1 DEF Typed
  <1>3. /\ Traced' /\ Renewed'
        /\ \A w : (Revoked(w)' <=> Revoked(w)) /\ (Touched(w)' <=> Touched(w))
        /\ \A w \in Wallets, base \in Int : \A again :
             Fresh(w, base, again) => Fresh(w, base, again)'
    BY <1>1, <1>2, NoBlockStep
  <1>4. ASSUME NEW k \in Jobs, NEW s \in SeenRecord, s \in job[k].seen \/ ReadNow(s)
        PROVE  Fresh(s.wallet, s.nonce, s.again)
    BY <1>1, <1>4, ReadNowFacts DEF ClearInv, JobsFresh
  <1>5. ASSUME NEW k \in Jobs, NEW s \in job'[k].seen
        PROVE  Fresh(s.wallet, s.nonce, s.again)'
    <2>1. s \in SeenRecord /\ s.wallet \in Wallets /\ s.nonce \in Int
      BY <1>1 DEF Typed, JobRecord, SeenRecord
    <2>2. s \in job[k].seen \/ ReadNow(s)
      BY DEF JobsPrepare
    <2> QED BY <1>3, <1>4, <2>1, <2>2
  <1>6. ASSUME NEW k \in Jobs, NEW a \in job'[k].auths
        PROVE  Fresh(a.wallet, a.base, a.again)'
    <2>1. a.wallet \in Wallets /\ a.base \in Int
      BY <1>1 DEF Typed, JobRecord, AuthRecord
    <2>2. Fresh(a.wallet, a.base, a.again)
      <3>1. CASE a \in job[k].auths
        BY <3>1 DEF ClearInv, JobsFresh
      <3>2. CASE \E s \in SeenRecord : /\ s \in job[k].seen \/ ReadNow(s)
                                       /\ Signs(job[k].kind, s, a)
        <4>1. PICK s \in SeenRecord : /\ s \in job[k].seen \/ ReadNow(s)
                                      /\ Signs(job[k].kind, s, a)
          BY <3>2
        <4>2. Fresh(s.wallet, s.nonce, s.again)
          BY <1>4, <4>1
        <4> QED BY <4>1, <4>2 DEF Signs
      <3> QED BY <3>1, <3>2 DEF JobsPrepare
    <2> QED BY <1>3, <2>1, <2>2
  <1>7. JobsFresh'
    BY <1>5, <1>6 DEF JobsFresh
  <1>8. PoolFresh'
    BY <1>1, <1>3 DEF ClearInv, PoolFresh, Typed, OuterRecord, AuthRecord
  <1>9. ASSUME NEW k \in Jobs, job'[k].kind = "revoke", NEW s \in job'[k].seen
        PROVE  Touched(s.wallet)'
    <2>1. job[k].kind = "revoke"
      BY <1>9 DEF JobsPrepare
    <2>2. CASE s \in job[k].seen
      BY <1>3, <2>1, <2>2 DEF ClearInv, SeenTouched
    <2>3. CASE ReadNow(s) /\ s.code # "clear"
      <3>1. s.wallet \in Wallets /\ code[s.wallet] # "clear"
        BY <1>1, <2>3, ReadNowFacts DEF SeenRecord
      <3> QED BY <1>3, <3>1 DEF ClearInv, Traced
    <2> QED BY <2>1, <2>2, <2>3 DEF JobsPrepare
  <1>10. SeenTouched'
    BY <1>9 DEF SeenTouched
  <1>11. ClearedRevoked'
    BY <1>1, <1>3 DEF ClearInv, ClearedRevoked
  <1> QED BY <1>3, <1>7, <1>8, <1>10, <1>11 DEF ClearInv

(* Jobs that keep or drop what they hold, and a chain without a new block. *)
LEMMA ClearKeeps ==
  ASSUME SignedInv, SignedInv', ClearInv, JobsKeep, mined' = mined, code' = code,
         \A w \in Accounts : nonce'[w] >= nonce[w]
  PROVE  Traced' /\ Renewed' /\ JobsFresh' /\ SeenTouched'
  <1>1. Typed /\ Typed'
    BY DEF SignedInv
  <1>2. /\ Traced' /\ Renewed'
        /\ \A w : (Revoked(w)' <=> Revoked(w)) /\ (Touched(w)' <=> Touched(w))
        /\ \A w \in Wallets, base \in Int : \A again :
             Fresh(w, base, again) => Fresh(w, base, again)'
    BY <1>1, NoBlockStep
  <1>3. \A k \in Jobs : /\ job'[k].kind = job[k].kind
                        /\ job'[k].auths \subseteq job[k].auths
                        /\ job'[k].seen \subseteq job[k].seen
    BY DEF JobsKeep
  <1>4. /\ \A k \in Jobs : \A s \in job'[k].seen : s.wallet \in Wallets /\ s.nonce \in Int
        /\ \A k \in Jobs : \A a \in job'[k].auths : a.wallet \in Wallets /\ a.base \in Int
    BY <1>1 DEF Typed, JobRecord, SeenRecord, AuthRecord
  <1>5. ASSUME NEW k \in Jobs, NEW s \in job'[k].seen
        PROVE  Fresh(s.wallet, s.nonce, s.again)'
    BY <1>2, <1>3, <1>4 DEF ClearInv, JobsFresh
  <1>6. ASSUME NEW k \in Jobs, NEW a \in job'[k].auths
        PROVE  Fresh(a.wallet, a.base, a.again)'
    BY <1>2, <1>3, <1>4 DEF ClearInv, JobsFresh
  <1>7. JobsFresh'
    BY <1>5, <1>6 DEF JobsFresh
  <1>8. SeenTouched'
    BY <1>2, <1>3 DEF ClearInv, SeenTouched
  <1> QED BY <1>2, <1>7, <1>8

LEMMA ClearFinishes ==
  ASSUME SignedInv, SignedInv', ClearInv, NEW j \in Jobs, FinishMove(j)
  PROVE  ClearInv'
  <1>1. /\ JobsKeep /\ mined' = mined /\ code' = code /\ nonce' = nonce
        /\ pool' \in {pool, pool \cup {Outer(j)}}
        /\ Typed /\ Typed'
    BY DEF FinishMove, SignedInv
  <1>2. \A w \in Accounts : nonce'[w] >= nonce[w]
    BY <1>1 DEF Typed
  <1>3. Traced' /\ Renewed' /\ JobsFresh' /\ SeenTouched'
    BY <1>1, <1>2, ClearKeeps
  <1>4. /\ \A w : (Revoked(w)' <=> Revoked(w)) /\ (Touched(w)' <=> Touched(w))
        /\ \A w \in Wallets, base \in Int : \A again :
             Fresh(w, base, again) => Fresh(w, base, again)'
    BY <1>1, <1>2, NoBlockStep
  <1>5. ASSUME NEW tx \in pool', NEW a \in tx.auths
        PROVE  Fresh(a.wallet, a.base, a.again)'
    <2>1. a.wallet \in Wallets /\ a.base \in Int
      BY <1>1 DEF Typed, OuterRecord, AuthRecord
    <2>2. tx \in pool \/ tx.auths = job[j].auths
      BY <1>1 DEF Outer
    <2>3. Fresh(a.wallet, a.base, a.again)
      BY <2>2 DEF ClearInv, PoolFresh, JobsFresh
    <2> QED BY <1>4, <2>1, <2>3
  <1>6. PoolFresh'
    BY <1>5 DEF PoolFresh
  <1>7. ASSUME NEW w \in cleared'
        PROVE  Revoked(w)'
    <2>1. CASE w \in cleared
      BY <1>4, <2>1 DEF ClearInv, ClearedRevoked
    <2>2. CASE /\ job[j].kind = "revoke"
               /\ \E s \in job[j].seen : s.wallet = w /\ code[w] = "clear"
      <3>1. w \in Wallets /\ Touched(w)
        BY <1>1, <2>2 DEF Typed, JobRecord, SeenRecord, ClearInv, SeenTouched
      <3>2. Revoked(w)
        BY <2>2, <3>1 DEF ClearInv, Traced
      <3> QED BY <1>4, <3>2
    <2> QED BY <2>1, <2>2 DEF FinishMove
  <1>8. ClearedRevoked'
    BY <1>7 DEF ClearedRevoked
  <1> QED BY <1>3, <1>6, <1>8 DEF ClearInv

LEMMA ClearForeign ==
  ASSUME SignedInv, SignedInv', ClearInv, JobsKeep, UNCHANGED <<told, code, mined>>,
         pool' \subseteq pool, \A w \in Accounts : nonce'[w] >= nonce[w]
  PROVE  ClearInv'
  <1>1. Typed /\ Typed' /\ mined' = mined /\ code' = code /\ cleared' = cleared
    BY DEF SignedInv, told
  <1>2. Traced' /\ Renewed' /\ JobsFresh' /\ SeenTouched'
    BY <1>1, ClearKeeps
  <1>3. /\ \A w : (Revoked(w)' <=> Revoked(w)) /\ (Touched(w)' <=> Touched(w))
        /\ \A w \in Wallets, base \in Int : \A again :
             Fresh(w, base, again) => Fresh(w, base, again)'
    BY <1>1, NoBlockStep
  <1>4. ASSUME NEW tx \in pool', NEW a \in tx.auths
        PROVE  Fresh(a.wallet, a.base, a.again)'
    <2>1. a.wallet \in Wallets /\ a.base \in Int
      BY <1>1 DEF Typed, OuterRecord, AuthRecord
    <2>2. Fresh(a.wallet, a.base, a.again)
      BY DEF ClearInv, PoolFresh
    <2> QED BY <1>3, <2>1, <2>2
  <1>5. PoolFresh' /\ ClearedRevoked'
    BY <1>1, <1>3, <1>4 DEF PoolFresh, ClearInv, ClearedRevoked
  <1> QED BY <1>2, <1>5 DEF ClearInv

(* A block with a batch: an account changes only by an authorization, and  *)
(* one that delegates a wallet was signed at its present nonce, so after   *)
(* every revocation that took effect.                                      *)
LEMMA ClearIncludes ==
  ASSUME SignedInv, SignedInv', ClearInv, NEW tx \in pool, NEW m \in MinedRecord,
         Included(tx, m), pool' \subseteq pool, UNCHANGED <<job, told, foreign>>
  PROVE  ClearInv'
  <1>1. /\ mined' = mined \cup {m} /\ mined \subseteq mined' /\ m \in mined'
        /\ m.tx = tx /\ m.valid \subseteq tx.auths
        /\ job' = job /\ cleared' = cleared
        /\ Typed /\ Typed'
    BY DEF SignedInv, Included, told
  <1>2. /\ \A a \in tx.auths : a \in m.valid <=> a.nonce = RaisedNonce(a.wallet)
        /\ \A w \in Accounts : nonce'[w] >= nonce[w]
        /\ \A a \in m.valid : nonce'[a.wallet] > nonce[a.wallet]
        /\ \A w \in Accounts : \/ code'[w] = code[w] /\ \A a \in m.valid : a.wallet # w
                               \/ \E a \in m.valid : a.wallet = w /\ code'[w] = a.target
    BY DEF Included
  <1>3. /\ tx.job \in Jobs
        /\ \A a \in tx.auths : a.target = TargetOf(job[tx.job].kind) /\ a \in AuthRecord
    BY <1>1 DEF SignedInv, PoolBound, Bound, Typed, OuterRecord
  <1>4. \A a \in AuthRecord : a.wallet \in Wallets /\ a.wallet \in Accounts
    BY DEF AuthRecord, Accounts
  <1>5. \A w : (Revoked(w) => Revoked(w)') /\ (Touched(w) => Touched(w)') /\ (Again(w) => Again(w)')
    BY <1>1, BlocksStay
  <1>6. \A w : /\ Revoked(w)' => Revoked(w) \/ \E a \in m.valid : a.wallet = w /\ a.target = "clear"
               /\ Touched(w)' => Touched(w) \/ \E a \in m.valid : a.wallet = w
    BY <1>1 DEF Revoked, Touched, Delegates
  <1>7. \A w : \A a \in m.valid : a.wallet = w =>
          /\ a.target = "clear" => Revoked(w)'
          /\ a.target = "executor" => Touched(w)'
          /\ a.target = "executor" /\ a.again => Again(w)'
    BY <1>1 DEF Revoked, Touched, Delegates, Again
  <1>8. \A w \in Accounts : Revoked(w)' => Revoked(w) \/ nonce'[w] > nonce[w]
    BY <1>2, <1>6
  <1>9. \A w \in Wallets, base \in Int : \A again :
          Fresh(w, base, again) => Fresh(w, base, again)'
    BY <1>1, <1>2, <1>8, FreshStays
  <1>10. JobsFresh'
    BY <1>1, <1>9 DEF ClearInv, JobsFresh, Typed, JobRecord, SeenRecord, AuthRecord
  <1>11. PoolFresh'
    BY <1>1, <1>9 DEF ClearInv, PoolFresh, Typed, OuterRecord, AuthRecord
  <1>12. SeenTouched' /\ ClearedRevoked'
    BY <1>1, <1>5 DEF ClearInv, SeenTouched, ClearedRevoked
  <1>13. ASSUME NEW w \in Wallets
         PROVE  /\ code'[w] # "clear" => Touched(w)'
                /\ code'[w] = "clear" /\ Touched(w)' => Revoked(w)'
    <2>1. w \in Accounts
      BY DEF Accounts
    <2>2. CASE code'[w] = code[w] /\ \A a \in m.valid : a.wallet # w
      BY <1>5, <1>6, <2>2 DEF ClearInv, Traced
    <2>3. CASE \E a \in m.valid : a.wallet = w /\ code'[w] = a.target
      <3>1. PICK a \in m.valid : a.wallet = w /\ code'[w] = a.target
        BY <2>3
      <3>2. a.target \in {"clear", "executor"}
        BY <1>1, <1>3 DEF AuthRecord, Targets
      <3> QED BY <1>7, <3>1, <3>2
    <2> QED BY <1>2, <2>1, <2>2, <2>3
  <1>14. Traced'
    BY <1>13 DEF Traced
  <1>15. ASSUME NEW w \in Wallets \ {Sponsor}, Revoked(w)', code'[w] # "clear"
         PROVE  Again(w)'
    <2>1. w \in Accounts /\ w # Sponsor /\ nonce[w] \in Nat
      BY <1>1 DEF Accounts, Typed
    <2>2. CASE code'[w] = code[w] /\ \A a \in m.valid : a.wallet # w
      <3>1. Revoked(w) /\ code[w] # "clear"
        BY <1>6, <1>15, <2>2
      <3> QED BY <1>5, <3>1 DEF ClearInv, Renewed
    <2>3. CASE \E a \in m.valid : a.wallet = w /\ code'[w] = a.target
      <3>1. PICK a \in m.valid : a.wallet = w /\ code'[w] = a.target
        BY <2>3
      <3>2. a \in tx.auths /\ a \in AuthRecord /\ a.target = TargetOf(job[tx.job].kind)
        BY <1>1, <1>3
      <3>3. a.target = "executor"
        BY <1>15, <3>1, <3>2 DEF TargetOf
      <3>4. \A b \in m.valid : b.target = "executor"
        BY <1>1, <1>3, <3>2, <3>3
      <3>5. Revoked(w)
        BY <1>6, <1>15, <3>4
      <3>6. a.nonce = nonce[w]
        BY <1>2, <2>1, <3>1, <3>2 DEF RaisedNonce
      <3>7. a.base = nonce[w]
        BY <2>1, <3>1, <3>2, <3>6 DEF SignedInv, PoolBound, Bound, AuthorizationNonce
      <3>8. Fresh(w, a.base, a.again)
        BY <3>1, <3>2 DEF ClearInv, PoolFresh
      <3>9. a.again
        BY <2>1, <3>5, <3>7, <3>8 DEF Fresh
      <3> QED BY <1>7, <3>1, <3>3, <3>9
    <2> QED BY <1>2, <2>1, <2>2, <2>3
  <1>16. Renewed'
    BY <1>15 DEF Renewed
  <1> QED BY <1>10, <1>11, <1>12, <1>14, <1>16 DEF ClearInv

LEMMA ClearStep == SignedInv /\ ClearInv /\ [Next]_vars => ClearInv'
  <1> SUFFICES ASSUME SignedInv, ClearInv, [Next]_vars PROVE ClearInv'
    OBVIOUS
  <1>0. SignedInv' /\ Typed
    BY SignedStep DEF SignedInv
  <1>1. CASE JobsPrepare /\ UNCHANGED <<told, chain>>
    BY <1>0, <1>1, ClearPrepares
  <1>2. ASSUME NEW j \in Jobs, FinishMove(j)
        PROVE  ClearInv'
    BY <1>0, <1>2, ClearFinishes
  <1>3. ASSUME NEW tx \in pool, NEW m \in MinedRecord, Included(tx, m),
               pool' \subseteq pool, UNCHANGED <<job, told, foreign>>
        PROVE  ClearInv'
    BY <1>0, <1>3, ClearIncludes
  <1>4. CASE /\ nonce' \in [Accounts -> Nat] /\ \A v \in Accounts : nonce'[v] >= nonce[v]
             /\ pool' \subseteq pool
             /\ JobsKeep /\ UNCHANGED <<told, code, mined>>
    BY <1>0, <1>4, ClearForeign
  <1> QED BY <1>0, <1>1, <1>2, <1>3, <1>4, NextMoves

LEMMA ClearInvariant == Spec => [](SignedInv /\ ClearInv)
  BY InitSigned, ClearInit, SignedStep, ClearStep, PTL DEF Spec

(* What ClearedStaysClear asks of one wallet.                              *)
StaysClear(w) ==
  code[w] # "clear" =>
    \E m \in mined : \E a \in m.valid : a.wallet = w /\ a.target = "executor" /\ a.again

(***************************************************************************)
(* Once a revocation has reported a wallet as cleared, no batch prepared   *)
(* before it took effect delegates it again, however late that batch is    *)
(* mined and however many jobs run (undelegate_chunk,                      *)
(* verify_revocations_cleared).  The sponsor's own wallet is left out: it  *)
(* is read at its pending nonce, which may run ahead of the revocation.    *)
(***************************************************************************)
THEOREM OthersStayClear == Spec => [](\A w \in cleared \ {Sponsor} : StaysClear(w))
  <1>1. SignedInv /\ ClearInv => \A w \in cleared \ {Sponsor} : StaysClear(w)
    BY DEF SignedInv, Typed, ClearInv, ClearedRevoked, Renewed, Again, StaysClear
  <1> QED BY <1>1, ClearInvariant, PTL

(***************************************************************************)
(* The same for all of the wallets when the sponsor is a wallet of its     *)
(* own, outside the manifest.                                              *)
(***************************************************************************)
THEOREM RevocationHolds ==
  ASSUME Sponsor \notin Wallets
  PROVE  Spec => []ClearedStaysClear
  <1>1. SignedInv /\ ClearInv => ClearedStaysClear
    BY DEF SignedInv, Typed, ClearInv, ClearedRevoked, Renewed, Again, ClearedStaysClear
  <1> QED BY <1>1, ClearInvariant, PTL
=============================================================================
