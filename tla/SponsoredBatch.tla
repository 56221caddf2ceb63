---------------------------- MODULE SponsoredBatch ----------------------------
(***************************************************************************)
(* The off-chain half of sponsored mints: a phase of the CLI               *)
(* (multi_mint.rs), a sponsored snipe of the bot (sponsored_snipe.rs) and  *)
(* a revocation (undelegate), as jobs that share wallets, a sponsor and    *)
(* one chain with EIP-7702 delegations.  What the executor does inside a   *)
(* transaction is SponsoredMintExecutor; here a batch is one step.         *)
(***************************************************************************)
EXTENDS Integers, FiniteSets

CONSTANTS
  Wallets,      \* the manifest
  Sponsor,      \* pays for the outer transactions, perhaps one of the wallets
  Recipient,    \* the address the tokens go to
  Jobs,         \* what is run, each once and perhaps at the same time
  Delegated,    \* the wallets that run the executor at first
  Shared        \* the wallets their owner may spend from elsewhere, once

ASSUME SponsoredBatchAssumption ==
  /\ IsFiniteSet(Wallets) /\ Wallets # {}
  /\ Delegated \subseteq Wallets /\ Shared \subseteq Wallets

VARIABLES
  job,      \* each job: its step, what it read, signed and was told
  reports,  \* what it told its user of each wallet
  cleared,  \* the wallets a revocation reported as cleared
  code,     \* "clear", or what an account is delegated to
  nonce,    \* of each account
  pool,     \* outer transactions some node may still include
  mined,    \* outer transactions in blocks
  foreign   \* wallets whose owner spent from them elsewhere

told == <<reports, cleared>>
chain == <<code, nonce, pool, mined, foreign>>
vars == <<job, told, chain>>

Accounts == Wallets \cup {Sponsor}
Targets == {"clear", "executor"}

Kinds == {"phase", "snipe", "revoke"}
NewJob(kind) ==
  [kind |-> kind, step |-> "start", seen |-> {}, nonce |-> 0, auths |-> {}, members |-> {},
   expired |-> FALSE]

(* The pending nonce: a node may know the pooled transactions or not.      *)
Pooled(a) == IF a = Sponsor THEN {tx.nonce : tx \in pool} ELSE {}
NonceReads(a) ==
  {n \in nonce[a]..(nonce[a] + Cardinality(Pooled(a))) :
     \A m \in nonce[a]..(n - 1) : m \in Pooled(a)}
Reads == {f \in [Wallets -> UNION {NonceReads(w) : w \in Wallets}] :
            \A w \in Wallets : f[w] \in NonceReads(w)}

Step(j, step) == job' = [job EXCEPT ![j].step = step]
Ends(j) ==
  job' = [job EXCEPT ![j] = [NewJob(@.kind) EXCEPT !.step = "ended", !.expired = job[j].expired]]
At(j, kind, step) == job[j].kind = kind /\ job[j].step = step

(***************************************************************************)
(* What a job reads of a set of wallets, and when: again says that a       *)
(* revocation of the wallet was in a block by then.                        *)
(***************************************************************************)
Revoked(w) == \E m \in mined : \E a \in m.valid : a.wallet = w /\ a.target = "clear"
Seen(read, set) ==
  {[wallet |-> w, nonce |-> read[w], code |-> code[w], again |-> Revoked(w)] : w \in set}

(* A sender's nonce is raised before the authorizations are processed.     *)
(* SameNonce is what a snipe signs, and a mutant of AuthorizationNonce.    *)
SameNonce(w, pending) == pending
AuthorizationNonce(w, pending) == IF w = Sponsor THEN pending + 1 ELSE pending

Authorization(s, target, authorized) ==
  [wallet |-> s.wallet, nonce |-> authorized, target |-> target, base |-> s.nonce,
   again |-> s.again]
NeedsAuthorization(s) == s.code # "executor"

-----------------------------------------------------------------------------
(* A phase of run_sponsored *)

(* prepare_action_candidates: the account state of each candidate.  Those  *)
(* that are not eligible or short of funds are left out by SignBatch.      *)
Snapshot(j, read) ==
  /\ At(j, "phase", "start")
  /\ job' = [job EXCEPT ![j].step = "launch", ![j].seen = Seen(read, Wallets)]
  /\ UNCHANGED <<told, chain>>

(* prepare_sponsored_launch: the sponsor's inputs, an authorization for    *)
(* each wallet that needs one.                                             *)
PrepareSponsoredLaunch(j, sponsorNonce) ==
  /\ At(j, "phase", "launch")
  /\ job' = [job EXCEPT ![j].step = "ready", ![j].nonce = sponsorNonce,
       ![j].auths = {Authorization(s, "executor", AuthorizationNonce(s.wallet, s.nonce)) :
                       s \in {t \in job[j].seen : NeedsAuthorization(t)}}]
  /\ UNCHANGED <<told, chain>>

(* run_sponsored up to the signature: the operations of the wallets that   *)
(* were given an action, with the deadline counted from here.              *)
SignBatch(j, acted) ==
  LET members == acted \ {Recipient} IN
  /\ At(j, "phase", "ready") /\ members # {}
  /\ job' = [job EXCEPT ![j].step = "send", ![j].members = members,
                        ![j].seen = {}, ![j].auths = {a \in @ : a.wallet \in members}]
  /\ UNCHANGED <<told, chain>>

-----------------------------------------------------------------------------
(* run_sponsored_snipe *)

(* Every chosen wallet signs its operation and, unless it runs the         *)
(* executor, an authorization at its own nonce.  The deadline is counted   *)
(* from here.                                                              *)
SignSnipe(j, chosen, read) ==
  /\ At(j, "snipe", "start") /\ chosen # {} /\ Recipient \notin chosen
  /\ job' = [job EXCEPT ![j].step = "sponsor", ![j].members = chosen,
       ![j].auths = {Authorization(s, "executor", SameNonce(s.wallet, s.nonce)) :
                       s \in {t \in Seen(read, chosen) : NeedsAuthorization(t)}}]
  /\ UNCHANGED <<told, chain>>

(* Sponsor inputs and balance; a simulation must pass once the stage is    *)
(* live.  Then the outer transaction is signed.                            *)
Arm(j, sponsorNonce) ==
  /\ At(j, "snipe", "sponsor")
  /\ job' = [job EXCEPT ![j].step = "armed", ![j].nonce = sponsorNonce]
  /\ UNCHANGED <<told, chain>>

-----------------------------------------------------------------------------
(* undelegate_chunk *)

(* The sponsor's snapshot and the state of each wallet of the chunk; only  *)
(* delegated ones are revoked.                                             *)
PrepareRevocations(j, read, sponsorNonce) ==
  LET delegated == {s \in Seen(read, Wallets) : s.code # "clear"} IN
  /\ At(j, "revoke", "start")
  /\ IF delegated = {} THEN Ends(j)
     ELSE job' = [job EXCEPT ![j].step = "validate", ![j].seen = delegated,
                             ![j].nonce = sponsorNonce]
  /\ UNCHANGED <<told, chain>>

(* validate_revocation_state: after the funding prompt nothing may have    *)
(* moved.  AnythingGoes is a mutant of Unmoved.                            *)
AnythingGoes(j, read, sponsorNonce) == TRUE
Unmoved(j, read, sponsorNonce) ==
  /\ \A s \in job[j].seen : read[s.wallet] = s.nonce /\ code[s.wallet] = s.code
  /\ sponsorNonce = job[j].nonce

ValidateRevocations(j, read, sponsorNonce) ==
  /\ At(j, "revoke", "validate")
  /\ Unmoved(j, read, sponsorNonce)
  /\ job' = [job EXCEPT ![j].step = "send", ![j].nonce = sponsorNonce,
       ![j].auths = {[Authorization(s, "clear", AuthorizationNonce(s.wallet, s.nonce))
                        EXCEPT !.base = read[s.wallet]] : s \in job[j].seen}]
  /\ UNCHANGED <<told, chain>>

(* verify_revocations_cleared.  TrustReceipt is a mutant of VerifiedClear. *)
TrustReceipt(j) == TRUE
VerifiedClear(j) == \A s \in job[j].seen : code[s.wallet] = "clear"
VerifyRevocations(j) ==
  /\ At(j, "revoke", "verify")
  /\ VerifiedClear(j)
  /\ Ends(j)
  /\ cleared' = cleared \cup {s.wallet : s \in job[j].seen}
  /\ UNCHANGED <<reports, chain>>

RevocationIncomplete(j) ==
  /\ At(j, "revoke", "verify")
  /\ ~VerifiedClear(j)
  /\ Ends(j)
  /\ UNCHANGED <<told, chain>>

-----------------------------------------------------------------------------
(* submit_outer, the blast of a snipe, and what is made of the receipt *)

Outer(j) ==
  [job |-> j, nonce |-> job[j].nonce, auths |-> job[j].auths, members |-> job[j].members]
Ready(j) == job[j].step \in {"send", "armed"}

Sent(j) ==
  /\ job[j].nonce >= nonce[Sponsor]
  /\ pool' = pool \cup {Outer(j)}
  /\ Step(j, "await")
  /\ UNCHANGED <<told, code, nonce, mined, foreign>>

Submit(j) == job[j].step = "send" /\ Sent(j)

(* When its time has come the armed transaction goes to every endpoint,    *)
(* and one of them accepts it.                                             *)
Fire(j) == job[j].step = "armed" /\ Sent(j)

(* BroadcastUncertain, or every endpoint refused: it may have arrived.     *)
SubmitFails(j, arrived) ==
  /\ Ready(j)
  /\ arrived => job[j].nonce >= nonce[Sponsor]
  /\ pool' = IF arrived THEN pool \cup {Outer(j)} ELSE pool
  /\ Ends(j)
  /\ UNCHANGED <<told, code, nonce, mined, foreign>>

Tell(j, succeeded) ==
  /\ reports' = reports \cup {[job |-> j, wallet |-> w, success |-> w \in succeeded] :
                               w \in job[j].members}
  /\ Ends(j)
  /\ UNCHANGED <<cleared, chain>>

(* The executor's event of each wallet says what became of it.  OuterStatus*)
(* is a mutant of EventsOf.                                                *)
OuterStatus(m) == IF m.ok THEN m.tx.members ELSE {}
EventsOf(m) == m.succeeded

(* decode_sponsored_outcomes; a reverted outer transaction has no event.   *)
Confirmed(j, m) ==
  /\ At(j, "phase", "await")
  /\ m.tx = Outer(j)
  /\ Tell(j, EventsOf(m))

(* wait_for_receipt and count_minted_units.                                *)
Landed(j, m) ==
  /\ At(j, "snipe", "await")
  /\ m.tx = Outer(j)
  /\ Tell(j, EventsOf(m))

(* A revocation is verified whatever its status.                           *)
RevocationMined(j, m) ==
  /\ At(j, "revoke", "await")
  /\ m.tx = Outer(j)
  /\ Step(j, "verify")
  /\ UNCHANGED <<told, chain>>

GivesUp(j, kinds, steps) ==
  /\ job[j].kind \in kinds /\ job[j].step \in steps
  /\ Ends(j)
  /\ UNCHANGED <<told, chain>>

(* The chain has no EIP-7702 or EIP-1153, or the executor is not the one   *)
(* that was audited (verify_sponsored_environment, undelegate).            *)
Unsupported(j) == GivesUp(j, {"phase", "revoke"}, {"start"})

(* A shortfall of the sponsor or of every wallet that is not topped up.    *)
Underfunded(j) == GivesUp(j, Kinds, {"start", "launch", "validate", "sponsor"})

(* An RPC error, a price or an action that is gone, a refused simulation,  *)
(* a wallet that moved, or the receipt timeout (PendingTransaction).       *)
Fails(j) == GivesUp(j, Kinds, {"launch", "ready", "sponsor", "validate", "await", "verify"})

-----------------------------------------------------------------------------
(* The world *)

(* A block: the sender's nonce, the authorizations that still fit, which   *)
(* stay whatever the execution does, then each operation on its own.  The  *)
(* status of a revocation changes nothing and is taken to be a success.    *)
Include(tx, ok, succeeded) ==
  LET sent == [nonce EXCEPT ![Sponsor] = @ + 1]
      valid == {a \in tx.auths : a.nonce = sent[a.wallet]}
      authorities == {a.wallet : a \in valid}
      after == [w \in Accounts |-> IF w \in authorities
                                   THEN (CHOOSE a \in valid : a.wallet = w).target
                                   ELSE code[w]]
  IN /\ tx \in pool /\ tx.nonce = nonce[Sponsor]
     /\ succeeded \subseteq {w \in tx.members : after[w] = "executor"}
     /\ succeeded # {} => ok /\ ~job[tx.job].expired
     /\ tx.members = {} => ok
     /\ code' = after
     /\ nonce' = [w \in Accounts |-> IF w \in authorities THEN sent[w] + 1 ELSE sent[w]]
     /\ mined' = mined \cup {[tx |-> tx, ok |-> ok, succeeded |-> succeeded,
                              valid |-> valid, before |-> nonce]}
     /\ pool' = {other \in pool : other.nonce > tx.nonce}
     /\ UNCHANGED <<job, told, foreign>>

(* The deadline of an armed snipe passes.  One that passes later makes     *)
(* operations fail, which Include allows for any of them.                  *)
Expire(j) ==
  /\ At(j, "snipe", "armed") /\ ~job[j].expired
  /\ job' = [job EXCEPT ![j].expired = TRUE]
  /\ UNCHANGED <<told, chain>>

ForeignTransaction(w) ==
  /\ w \in Shared \ foreign
  /\ foreign' = foreign \cup {w}
  /\ nonce' = [nonce EXCEPT ![w] = @ + 1]
  /\ pool' = IF w = Sponsor THEN {tx \in pool : tx.nonce > nonce[w]} ELSE pool
  /\ UNCHANGED <<job, told, code, mined>>

-----------------------------------------------------------------------------
Init ==
  /\ job \in [Jobs -> {NewJob(kind) : kind \in Kinds}]
  /\ reports = {} /\ cleared = {}
  /\ code = [w \in Accounts |-> IF w \in Delegated THEN "executor" ELSE "clear"]
  /\ nonce = [w \in Accounts |-> 0]
  /\ pool = {} /\ mined = {} /\ foreign = {}

Prepare(j) ==
  \/ \E read \in Reads : \/ Snapshot(j, read)
                         \/ \E chosen \in SUBSET Wallets : SignSnipe(j, chosen, read)
  \/ \E n \in NonceReads(Sponsor) : PrepareSponsoredLaunch(j, n) \/ Arm(j, n)
  \/ \E acted \in SUBSET {s.wallet : s \in job[j].seen} : SignBatch(j, acted)
  \/ \E read \in Reads, n \in NonceReads(Sponsor) :
       PrepareRevocations(j, read, n) \/ ValidateRevocations(j, read, n)

Finish(j) ==
  \/ Submit(j) \/ Fire(j)
  \/ \E arrived \in BOOLEAN : SubmitFails(j, arrived)
  \/ \E m \in mined : Confirmed(j, m) \/ Landed(j, m) \/ RevocationMined(j, m)
  \/ VerifyRevocations(j)
  \/ RevocationIncomplete(j)
  \/ Unsupported(j) \/ Underfunded(j) \/ Fails(j)

World ==
  \/ \E tx \in pool, ok \in BOOLEAN : \E succeeded \in SUBSET tx.members : Include(tx, ok, succeeded)
  \/ \E j \in Jobs : Expire(j)
  \/ \E w \in Wallets : ForeignTransaction(w)

Next == (\E j \in Jobs : Prepare(j) \/ Finish(j)) \/ World

Spec == Init /\ [][Next]_vars

-----------------------------------------------------------------------------
(***************************************************************************)
(* An authorization in a phase or a revocation is the one the chain wants: *)
(* unless the wallet's nonce moved after the job last read it, it takes    *)
(* effect, also for a sponsor that is itself in the manifest.  A snipe     *)
(* promises it for the wallets that are not the sponsor.                   *)
(***************************************************************************)
AuthorizationsApply ==
  \A m \in mined : \A a \in m.tx.auths :
    /\ m.before[a.wallet] = a.base
    /\ job[m.tx.job].kind = "snipe" => a.wallet # Sponsor
    => a \in m.valid

(***************************************************************************)
(* What the user is told of a wallet is what the executor did for it, not  *)
(* what the outer transaction's status suggests.                           *)
(***************************************************************************)
ReportsAreTrue ==
  \A r \in reports : \E m \in mined :
    m.tx.job = r.job /\ (r.success <=> r.wallet \in m.succeeded)

(***************************************************************************)
(* "Delegation cleared": no batch prepared before the revocation took      *)
(* effect, however late it is mined, delegates the wallet again; only one  *)
(* prepared afterwards may.                                                *)
(***************************************************************************)
ClearedStaysClear ==
  \A w \in cleared : code[w] # "clear" =>
    \E m \in mined : \E a \in m.valid : a.wallet = w /\ a.target = "executor" /\ a.again

=============================================================================
