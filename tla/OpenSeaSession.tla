--------------------------- MODULE OpenSeaSession ----------------------------
(***************************************************************************)
(* A wallet's OpenSea client (opensea.rs) as a mint uses it: it signs in,  *)
(* asks for the wallet's eligibility, waits for its phase, signs in again, *)
(* and asks for the transaction to send.  The single-wallet command        *)
(* refreshes the eligibility while it waits (command.rs); the multi-wallet *)
(* command asks for the transactions of all wallets through the first      *)
(* wallet's client (multi_mint.rs).  Every request may be lost, or         *)
(* answered with an error, and OpenSea may forget the session at any time. *)
(***************************************************************************)
EXTENDS MintAction

CONSTANTS
  Wallets,          \* the wallets of a batch, the client's own first
  StageLists,       \* the stages OpenSea may list
  Tokens,           \* the tokens the user may choose
  Attempts,         \* OPENSEA_MAX_ATTEMPTS
  CalldataAttempts, \* OPENSEA_CALLDATA_MAX_ATTEMPTS
  Prices            \* what a mint may cost

ASSUME OpenSeaSessionAssumption ==
  /\ Wallets \in Seq(DOMAIN Quantity) /\ Wallets # << >>
  /\ Attempts \in Nat \ {0} /\ CalldataAttempts \in Nat \ {0}
  /\ Prices \subseteq Nat /\ \A i \in DOMAIN Wallets : Quantity[Wallets[i]] \in Nat \ {0}
  /\ Tokens \subseteq Nat
  /\ \A stages \in StageLists : \A i \in DOMAIN stages :
       stages[i].range = None \/ stages[i].range \in Nat \X Nat

VARIABLES
  command,        \* "single" or "batch"
  kind,           \* what the drop is
  stage,          \* the stage that was chosen
  request,        \* the request the client is about to make, or that it waits or is done
  why,            \* "start", "refresh" or "launch"
  attempt,        \* of the request, or of the hot path
  again,          \* the refresh has signed in once more
  job,            \* "pending" or "suspended"
  authenticated,  \* is_authenticated
  result,         \* what the eligibility request came to
  told,           \* what the wallets were told: [enough, prices]
  action,         \* the transactions that may be signed
  account         \* whose session OpenSea holds: "none", "wallet", "stranger"

client == <<command, kind, stage, request, why, attempt, again, job, authenticated, result,
            told, action>>
openSeaVars == <<client, account>>

Transient == {"transient"}
Answers == {"ok", "transient", "unauthorized", "incompatible", "refused"}
Asked == IF command = "single" THEN SubSeq(Wallets, 1, 1) ELSE Wallets

OpenSeaInit ==
  /\ command \in {"single", "batch"} /\ kind \in Kinds /\ stage = None
  /\ request = "resolve" /\ why = "start" /\ attempt = 1 /\ again = FALSE /\ job = "pending"
  /\ authenticated = FALSE /\ result = "none"
  /\ told = None /\ action = None /\ account = "none"

At(here) == request = here
Goto(next) == request' = next /\ attempt' = 1

(* A refresh is deferred by what may pass, everything else ends the        *)
(* session; a launch that fails suspends its phase, unless the answer was  *)
(* incompatible.                                                           *)
Recoverable == {"transient", "unauthorized"}
FailsWith(error) ==
  /\ result' = "none" /\ again' = FALSE /\ told' = None
  /\ IF why = "refresh" /\ error \in Recoverable
       THEN Goto("wait") /\ UNCHANGED job
     ELSE IF why = "launch" /\ command = "single" /\ error # "incompatible"
       THEN Goto("wait") /\ job' = "suspended"
       ELSE Goto("ended") /\ UNCHANGED job

-----------------------------------------------------------------------------
(* resolve_collection, and the user's choice of a stage and token *)

Resolve(stages, index, token) ==
  /\ At("resolve")
  /\ IF ~DecodesStages(kind, stages) \/ Selected(stages, index, token) = {}
       THEN Goto("ended") /\ UNCHANGED stage
     ELSE IF Cardinality(Selected(stages, index, token)) > 1
       THEN Goto("ambiguous") /\ UNCHANGED stage
       ELSE /\ \E i \in Selected(stages, index, token) :
                 stage' = [index |-> index, type |-> stages[i].type, cap |-> stages[i].cap]
            /\ Goto("nonce")
  /\ UNCHANGED <<command, kind, why, again, job, authenticated, result, told, action,
                 account>>

ResolveFails ==
  /\ At("resolve") /\ Goto("ended")
  /\ UNCHANGED <<command, kind, stage, why, again, job, authenticated, result, told,
                 action, account>>

-----------------------------------------------------------------------------
(* authenticate: a nonce is asked for and signed, up to Attempts times *)

(* AlwaysAgain is a mutant of Retries.                                     *)
AlwaysAgain(error) == error \in Transient
Retries(error) == error \in Transient /\ attempt < Attempts

SignInFails(error) ==
  IF Retries(error)
    THEN /\ request' = "nonce" /\ attempt' = IF attempt < Attempts THEN attempt + 1 ELSE 1
         /\ UNCHANGED <<result, again, job, told>>
    ELSE FailsWith(error)

RequestNonce(answer) ==
  /\ At("nonce") /\ answer \in {"ok", "transient", "incompatible", "refused"}
  /\ authenticated' = FALSE
  /\ IF answer = "ok"
       THEN request' = "verify" /\ UNCHANGED <<attempt, result, again, job, told>>
       ELSE SignInFails(answer)
  /\ UNCHANGED <<command, kind, stage, why, action, account>>

(* EarlySignIn is a mutant of SignedIn.                                    *)
EarlySignIn(who) == TRUE
SignedIn(who) == who = "wallet"

(* OpenSea signs the client in, as the wallet or as someone else; the      *)
(* answer may be lost.  Whatever failed, the next attempt asks for a new   *)
(* nonce.                                                                  *)
Verify(who, answer) ==
  /\ At("verify")
  /\ account' = who /\ who \in {"wallet", "stranger"}
  /\ authenticated' = (answer = "ok" /\ SignedIn(who))
  /\ IF answer = "ok" /\ who = "wallet"
       THEN Goto("query") /\ UNCHANGED <<result, again, job, told>>
       ELSE SignInFails(IF answer = "ok" THEN "refused" ELSE answer)
  /\ UNCHANGED <<command, kind, stage, why, action>>

(* The request is lost, or refused.                                        *)
VerifyFails(answer) ==
  /\ At("verify") /\ answer \in {"transient", "incompatible", "refused"}
  /\ SignInFails(answer)
  /\ UNCHANGED <<command, kind, stage, why, authenticated, action, account>>

-----------------------------------------------------------------------------
(* eligibility: a persisted query, or the whole query when OpenSea does    *)
(* not know it; the collection is read at the same time                    *)

(* Without a session there is no request, and no answer but unauthorized   *)
(* when OpenSea has forgotten it.                                          *)
MayAnswer(answer) ==
  IF ~authenticated THEN answer = "refused"
  ELSE (answer = "ok" => account # "none") /\ (answer = "unauthorized" => account = "none")

Query(answer, tells) ==
  /\ request \in {"query", "fallback"} /\ MayAnswer(answer)
  /\ IF Retries(answer)
       THEN request' = "query" /\ attempt' = attempt + 1 /\ UNCHANGED result
       ELSE Goto("join") /\ result' = answer
  /\ told' = IF answer = "ok" THEN tells ELSE told
  /\ UNCHANGED <<command, kind, stage, why, again, job, authenticated, action, account>>

PersistedQueryUnknown ==
  /\ At("query") /\ authenticated
  /\ request' = "fallback"
  /\ UNCHANGED <<command, kind, stage, why, attempt, again, job, authenticated, result,
                 told, action, account>>

Enough == told.enough

(* Both answers are there: an error of the collection counts first.  A     *)
(* refresh signs in once more when OpenSea has forgotten the session, and  *)
(* then only asks for the eligibility.                                     *)
SignsInAgain == why = "refresh" /\ result = "unauthorized" /\ ~again

Join(collection) ==
  /\ At("join") /\ collection \in {"ok", "transient", "incompatible", "refused"}
  /\ again => collection = "ok"
  /\ IF collection # "ok" THEN FailsWith(collection)
     ELSE IF SignsInAgain
       THEN /\ again' = TRUE /\ result' = "none" /\ Goto("nonce")
            /\ UNCHANGED <<job, told>>
     ELSE IF result # "ok" THEN FailsWith(result)
     ELSE IF why = "launch" /\ ~Enough THEN FailsWith("refused")
     ELSE /\ result' = "none" /\ again' = FALSE /\ UNCHANGED <<job, told>>
          /\ Goto(IF why = "launch" THEN "hot" ELSE "probe")
  /\ UNCHANGED <<command, kind, stage, why, authenticated, action, account>>

(* The collection is not the one that was resolved.                        *)
CollectionChanged ==
  /\ At("join") /\ result = "ok" /\ FailsWith("refused")
  /\ UNCHANGED <<command, kind, stage, why, authenticated, action, account>>

(* A private phase that is active is tried with a mint action of one; what *)
(* says nothing about the wallet, or may pass, leaves the phase unverified.*)
Probe(verdict) ==
  /\ At("probe") /\ verdict \in {"eligible", "ineligible", "unverified"}
  /\ job' = IF verdict = "ineligible" \/ ~Enough THEN "suspended" ELSE "pending"
  /\ told' = None /\ Goto("wait")
  /\ UNCHANGED <<command, kind, stage, why, again, authenticated, result, action, account>>
ProbeFails ==
  /\ At("probe") /\ FailsWith("refused")
  /\ UNCHANGED <<command, kind, stage, why, authenticated, action, account>>

-----------------------------------------------------------------------------
(* waiting, and the launch *)

RefreshEligibility ==
  /\ At("wait") /\ command = "single"
  /\ why' = "refresh" /\ Goto("query")
  /\ UNCHANGED <<command, kind, stage, again, job, authenticated, result, told, action,
                 account>>

LaunchPhase ==
  /\ At("wait") /\ job = "pending"
  /\ why' = "launch" /\ Goto("nonce")
  /\ UNCHANGED <<command, kind, stage, again, job, authenticated, result, told, action,
                 account>>

Lost == {"transient", "incompatible", "unsafe", "not_open", "rejected"}

(* AnyValue is a mutant of ValueFits.                                      *)
AnyValue(answer) == TRUE
ValueFits(answer) ==
  \A i \in DOMAIN Asked :
    told.prices[Asked[i]] # None =>
      answer[i].txs[1].value = told.prices[Asked[i]][1] * Quantity[Asked[i]]

Decoded(answer) ==
  LET batch == DecodedBatch(kind, answer, Asked, stage)
  IN IF batch = "ok" /\ ~ValueFits(answer) THEN "unsafe" ELSE batch

HotRetries(error) == error \in Lost /\ attempt < CalldataAttempts
HotFails(error) ==
  IF HotRetries(error)
    THEN attempt' = attempt + 1 /\ UNCHANGED <<request, result, again, job, told>>
    ELSE FailsWith("refused")

MintActions(answer) ==
  /\ At("hot") /\ account # "none"
  /\ LET verdict == Decoded(answer) IN
       IF verdict = "ok"
         THEN /\ action' = [i \in DOMAIN Asked |-> answer[i].txs[1]]
              /\ Goto("ready") /\ UNCHANGED <<result, again, job, told>>
         ELSE HotFails(verdict) /\ UNCHANGED action
  /\ UNCHANGED <<command, kind, stage, why, authenticated, account>>

(* No answer that can be read, or OpenSea has forgotten the session, which *)
(* the hot path does not try to mend; the phase has ended.                 *)
HotRequestFails(error) ==
  /\ At("hot") /\ error \in {"transient", "incompatible", "unauthorized"}
  /\ error = "unauthorized" => account = "none"
  /\ HotFails(error)
  /\ UNCHANGED <<command, kind, stage, why, authenticated, action, account>>
StageEnded ==
  /\ At("hot") /\ FailsWith("refused")
  /\ UNCHANGED <<command, kind, stage, why, authenticated, action, account>>

-----------------------------------------------------------------------------
(* What OpenSea may answer. *)

Expire == account # "none" /\ account' = "none" /\ UNCHANGED client

(* A transaction that fits, or differs in one field.                       *)
Fitting(w, value) ==
  [target |-> "seadrop", chain |-> ChainId, value |-> value, readable |-> TRUE,
   selector |-> stage.type, nft |-> Drop, minter |-> w, quantity |-> Quantity[w],
   stage |-> stage.index]
Offers(w, value) ==
  LET fitting == Fitting(w, value) IN
    {fitting, [fitting EXCEPT !.target = Zero], [fitting EXCEPT !.chain = ChainId + 1],
     [fitting EXCEPT !.readable = FALSE], [fitting EXCEPT !.nft = "other"],
     [fitting EXCEPT !.quantity = @ + 1], [fitting EXCEPT !.stage = @ + 1]}
    \cup {[fitting EXCEPT !.selector = type] : type \in StageTypes}
    \cup {[fitting EXCEPT !.minter = m] : m \in {Zero} \cup {Wallets[i] : i \in DOMAIN Wallets}}
Swap(errors, actions, txs) == [errors |-> errors, actions |-> actions, txs |-> txs]
Swaps(w, value) ==
  {Swap({}, <<"MintAction">>, <<tx>>) : tx \in Offers(w, value)}
  \cup {Swap({error}, << >>, << >>) : error \in {"ineligible", "limit", "not_open", "other"}}
  \cup {Swap({}, <<"ApprovalAction", "MintAction">>, <<Fitting(w, value)>>),
        Swap({}, <<"MintAction">>, <<Fitting(w, value), Fitting(w, value)>>)}
(* All wallets' swaps but one fit, or an alias is missing.                 *)
ActionAnswers ==
  LET Value(i) == {p * Quantity[Asked[i]] : p \in Prices}
      fits == [i \in DOMAIN Asked |->
                 Swap({}, <<"MintAction">>, <<Fitting(Asked[i], Max(Value(i)))>>)]
  IN {SubSeq(fits, 1, Len(fits) - 1)}
     \cup UNION {{[fits EXCEPT ![i] = swap] :
                    swap \in UNION {Swaps(Asked[i], v) : v \in Value(i)}} :
                 i \in DOMAIN Asked}

Verdicts ==
  [own : {None, <<1>>, <<2>>}, perToken : {None, <<1>>}, minted : 0..1, linked : BOOLEAN]
Tells == {[enough |-> enough, prices |-> prices] :
            enough \in {Available(stage, v) >= Quantity[Wallets[1]] : v \in Verdicts},
            prices \in [{Asked[i] : i \in DOMAIN Asked} -> {None, <<Max(Prices)>>}]}

Client ==
  \/ /\ At("resolve")
     /\ \E stages \in StageLists, index \in 0..1, token \in Tokens :
          Resolve(stages, index, token)
  \/ \E answer \in Answers : RequestNonce(answer) \/ VerifyFails(answer)
  \/ \E who \in {"wallet", "stranger"}, answer \in {"ok", "transient"} : Verify(who, answer)
  \/ \E answer \in Answers :
       /\ request \in {"query", "fallback"}
       /\ \E tells \in (IF answer = "ok" THEN Tells ELSE {None}) : Query(answer, tells)
  \/ PersistedQueryUnknown
  \/ \E collection \in Answers : Join(collection)
  \/ \E verdict \in {"eligible", "ineligible", "unverified"} : Probe(verdict)
  \/ At("hot") /\ \E answer \in ActionAnswers : MintActions(answer)
  \/ \E error \in {"transient", "incompatible", "unauthorized"} : HotRequestFails(error)

Refusals == ResolveFails \/ CollectionChanged \/ ProbeFails \/ StageEnded

Stopped == request \in {"ended", "ready", "ambiguous"} /\ UNCHANGED openSeaVars
(* A batch whose wallet has no phase to launch waits for ever.             *)
Waiting == At("wait") /\ command = "batch" /\ job = "suspended" /\ UNCHANGED openSeaVars

OpenSeaNext ==
  \/ Client \/ Refusals \/ RefreshEligibility \/ LaunchPhase
  \/ Expire \/ Stopped \/ Waiting

(***************************************************************************)
(* Every request has a timeout and the refresh an interval.  OpenSea need  *)
(* not answer anything, nor keep a session.                                *)
(***************************************************************************)
OpenSeaSpec == OpenSeaInit /\ [][OpenSeaNext]_openSeaVars /\ WF_openSeaVars(Client)

-----------------------------------------------------------------------------
(* What a wallet is told it may mint, and at which price, was told to a    *)
(* session OpenSea had confirmed to be the wallet's (opensea.rs:487), also *)
(* after an earlier sign-in came out as someone else.                      *)
ToldAsTheWallet == [][told' # told /\ told' # None => account = "wallet"]_openSeaVars

(* The transactions that may be signed mint what was asked for, for the    *)
(* wallet that will send them, and cost what its last eligibility said     *)
(* (opensea.rs:1282, command.rs:1857).  An ERC-1155 call is not decoded.   *)
ActionsAreBound ==
  At("ready") =>
    \A i \in DOMAIN Asked :
      LET tx == action[i] w == Asked[i] IN
        /\ tx.chain = ChainId /\ tx.target # Zero
        /\ told.prices[w] # None => tx.value = told.prices[w][1] * Quantity[w]
        /\ kind = "Erc721SeaDropV1" =>
             /\ tx.nft = Drop /\ MinterOf(tx, w) = w /\ tx.quantity = Quantity[w]
             /\ tx.selector = stage.type
             /\ tx.stage = stage.index \/ stage.type = "PUBLIC_SALE"

(* A stage list that was decoded gives a phase and a token one stage       *)
(* (opensea.rs:1703 for command.rs:2282).                                  *)
NeverAmbiguous == request # "ambiguous"

(* Every sign-in, query and launch comes to an end: the client waits for   *)
(* its next refresh or phase, has its transactions, or has stopped.        *)
RequestsEnd == []<>(request \in {"wait", "ready", "ended", "ambiguous"})

=============================================================================
