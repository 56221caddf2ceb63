------------------------------ MODULE FeeLadder ------------------------------
(***************************************************************************)
(* The fees of one transaction and its same-nonce replacements             *)
(* (domain/fees.rs, fee.rs) as the single-wallet mint and the executor     *)
(* deployment (command.rs) use them: a funding gate climbs the whole       *)
(* ladder of replacement fees and compares its top with the balance, then  *)
(* the attempts climb the same ladder one rung at a time while the chain's *)
(* base fee moves.  The chain is external: a block moves the base fee by   *)
(* at most an eighth, and may include any attempt that pays for it.        *)
(***************************************************************************)
EXTENDS Integers, Sequences

CONSTANTS
  Bumps,             \* REPLACEMENT_BUMP_BPS values a run may be configured with
  Multipliers,       \* INITIAL_FEE_MULTIPLIER_BPS values
  ManualFees,        \* the fees of FeeMode::Manual
  Automatic,         \* FeeMode::Automatic
  Flows,             \* what is sent: a "mint", the executor's "deploy"ment
  Bases, Tips,       \* base fees and priority fees the node may report
  Balances, Values,  \* the wallet's balance and the mint's price
  GasLimit,          \* gas units of the transaction
  MaxAttempts,       \* TRANSACTION_MAX_ATTEMPTS
  MaxWord,           \* the largest amount a U256 holds
  BlocksBeforeSend,  \* bound: blocks from the snapshot to the first attempt
  BlocksPerAttempt   \* bound: blocks within one PENDING_TIMEOUT_SECONDS

BasisPoints == 10000
Fees == [max: Nat, tip: Nat]

ASSUME LadderAssumption ==
  /\ Bumps \subseteq Nat
  /\ \A bump \in Bumps : bump > BasisPoints /\ bump <= 2 * BasisPoints
  /\ Multipliers \subseteq Nat
  /\ \A m \in Multipliers : m >= BasisPoints /\ m <= 5 * BasisPoints
  /\ ManualFees \subseteq Fees
  /\ \A f \in ManualFees : f.max # 0 /\ f.max >= f.tip
  /\ Automatic \notin ManualFees
  /\ Flows \subseteq {"mint", "deploy"}
  /\ Bases \subseteq Nat /\ Tips \subseteq Nat
  /\ Balances \subseteq Nat /\ Values \subseteq Nat
  /\ GasLimit \in Nat /\ MaxAttempts \in 1..10 /\ MaxWord \in Nat
  /\ BlocksBeforeSend \in Nat /\ BlocksPerAttempt \in Nat

VARIABLES
  config,   \* the fee settings: [mode, bump, multiplier]
  flow,     \* which of Flows this is
  pc,       \* "snapshot", "gate", "hot", "send", "waiting", or how it ended
  gate,     \* which of the two funding gates runs or ran last
  base,     \* the chain's base fee
  blocks,   \* blocks since the snapshot, or since the last attempt
  fees,     \* the fees the next attempt is signed with
  ladder,   \* the rungs maximum_transaction_fees has climbed in this gate
  balance,  \* the balance the snapshot read
  priced,   \* the snapshot knows the price of the mint
  value,    \* the value of the transaction as far as it is known
  sent      \* history: fees of each attempt, the base fee it met, and the
            \* blocks since the one before

vars == <<config, flow, pc, gate, base, blocks, fees, ladder, balance,
          priced, value, sent>>

Last(s) == s[Len(s)]
Larger(a, b) == IF a >= b THEN a ELSE b
Lesser(a, b) == IF a <= b THEN a ELSE b

(***************************************************************************)
(* domain/fees.rs: products and sums are checked, so each operator has a   *)
(* condition under which it returns Ok.                                    *)
(***************************************************************************)
MaxBaseFeeGrowth == 11250

MultiplyFits(v, bps) == v * bps + (BasisPoints - 1) <= MaxWord
MultiplyCeil(v, bps) == (v * bps + (BasisPoints - 1)) \div BasisPoints

(* LowerCap is a mutant of BufferBump, BufferReversed of Replacement.      *)
LowerCap(bump) == Lesser(bump, 11000)
BufferBump(bump) == Lesser(bump, MaxBaseFeeGrowth)

BufferReversed(bump, f) ==
  LET tip == MultiplyCeil(f.tip, bump)
  IN  [max |-> tip + MultiplyCeil(f.tip - f.max, BufferBump(bump)),
       tip |-> tip]

Replacement(bump, f) ==
  LET tip == MultiplyCeil(f.tip, bump)
  IN  [max |-> tip + MultiplyCeil(f.max - f.tip, BufferBump(bump)),
       tip |-> tip]

ReplacementFits(bump, f) ==
  /\ f.max >= f.tip
  /\ MultiplyFits(f.tip, bump)
  /\ MultiplyFits(f.max - f.tip, BufferBump(bump))
  /\ Replacement(bump, f).max <= MaxWord

Estimate(tip) == [max |-> 2 * base + tip, tip |-> tip]

InitialFees(estimate) ==
  IF config.mode # Automatic THEN config.mode
  ELSE [max |-> MultiplyCeil(estimate.max, config.multiplier),
        tip |-> MultiplyCeil(estimate.tip, config.multiplier)]

InitialFeesFit(estimate) ==
  /\ estimate.max <= MaxWord
  /\ config.mode = Automatic =>
       /\ MultiplyFits(estimate.max, config.multiplier)
       /\ MultiplyFits(estimate.tip, config.multiplier)

(* FundingRequirement::maximum_native_cost and maximum_deployment_cost. *)
MaximumCost(maxFee, v) == GasLimit * maxFee + v

-----------------------------------------------------------------------------
Init ==
  /\ config \in [mode: ManualFees \cup {Automatic}, bump: Bumps,
                 multiplier: Multipliers]
  /\ flow \in Flows
  /\ pc = "snapshot" /\ gate = 1
  /\ base \in Bases /\ blocks = 0
  /\ fees = [max |-> 0, tip |-> 0] /\ ladder = <<>>
  /\ balance = 0 /\ priced = FALSE /\ value = 0
  /\ sent = <<>>

(* Nonce, fees and balance are read and the gate starts at the initial     *)
(* fees.  A mint takes one snapshot; a deployment takes another after it   *)
(* was confirmed, and all its numbers come from that one.                  *)
TakeSnapshot(tip, funds, known, price) ==
  /\ pc = "snapshot" \/ (pc = "hot" /\ flow = "deploy")
  /\ gate' = IF pc = "snapshot" THEN 1 ELSE 2
  /\ balance' = funds /\ blocks' = 0
  /\ priced' = (flow = "mint" /\ known)
  /\ value' = IF flow = "mint" /\ known THEN price ELSE 0
  /\ IF InitialFeesFit(Estimate(tip))
     THEN /\ fees' = InitialFees(Estimate(tip))
          /\ ladder' = <<fees'>>
          /\ pc' = "gate"
     ELSE pc' = "refused" /\ UNCHANGED <<fees, ladder>>
  /\ UNCHANGED <<config, flow, base, sent>>

(* One turn of the loop of maximum_transaction_fees. *)
ClimbGate ==
  /\ pc = "gate" /\ Len(ladder) < MaxAttempts
  /\ IF ReplacementFits(config.bump, Last(ladder))
     THEN /\ ladder' = Append(ladder, Replacement(config.bump, Last(ladder)))
          /\ UNCHANGED pc
     ELSE pc' = "refused" /\ UNCHANGED ladder
  /\ UNCHANGED <<config, flow, gate, base, blocks, fees, balance, priced,
                 value, sent>>

(* The top of the ladder, when the loop is done, is compared with the      *)
(* balance.  OneRungShort is a mutant of GateIsClimbed, FirstRung of       *)
(* GateRung.                                                               *)
OneRungShort == Len(ladder) >= MaxAttempts - 1
GateIsClimbed == Len(ladder) = MaxAttempts

FirstRung == ladder[1]
GateRung == Last(ladder)

PassGate ==
  /\ pc = "gate" /\ GateIsClimbed
  /\ LET cost == MaximumCost(GateRung.max, value)
     IN  pc' = IF cost <= MaxWord /\ cost <= balance
               THEN (IF gate = 1 THEN "hot" ELSE "send")
               ELSE "refused"
  /\ UNCHANGED <<config, flow, gate, base, blocks, fees, ladder, balance,
                 priced, value, sent>>

(* The calldata request returns the value; a second gate checks it against *)
(* the fees and the balance of the snapshot.                               *)
RequestAction(price) ==
  /\ pc = "hot" /\ flow = "mint"
  /\ IF priced /\ price # value
     THEN pc' = "refused" /\ UNCHANGED <<gate, ladder, value>>
     ELSE /\ pc' = "gate" /\ gate' = 2
          /\ value' = price /\ ladder' = <<fees>>
  /\ UNCHANGED <<config, flow, base, blocks, fees, balance, priced, sent>>

(* No calldata came, or the owner did not confirm the deployment. *)
GiveUp ==
  /\ pc = "hot" /\ pc' = "refused"
  /\ UNCHANGED <<config, flow, gate, base, blocks, fees, ladder, balance,
                 priced, value, sent>>

(* Nothing is sent: the phase of a mint ended, the latest block could not  *)
(* be read, or the transaction could not be announced.                     *)
Abandon ==
  /\ pc = "send" /\ pc' = "stopped"
  /\ UNCHANGED <<config, flow, gate, base, blocks, fees, ladder, balance,
                 priced, value, sent>>

(* Sign with the current fees and broadcast; the outcome may stay unknown. *)
Send(answered) ==
  /\ pc = "send"
  /\ sent' = Append(sent, [max |-> fees.max, tip |-> fees.tip,
                           base |-> base, blocks |-> blocks])
  /\ blocks' = 0
  /\ pc' = IF answered THEN "waiting" ELSE "stopped"
  /\ UNCHANGED <<config, flow, gate, base, fees, ladder, balance, priced,
                 value>>

(* A receipt of any attempt that can pay the base fee, or a failed read. *)
Receipt ==
  /\ pc = "waiting"
  /\ \/ (\E i \in DOMAIN sent : sent[i].max >= base) /\ pc' = "mined"
     \/ pc' = "stopped"
  /\ UNCHANGED <<config, flow, gate, base, blocks, fees, ladder, balance,
                 priced, value, sent>>

(* The receipt timeout passed: climb one rung, unless it was the last. *)
TimeOut ==
  /\ pc = "waiting"
  /\ IF Len(sent) >= MaxAttempts THEN pc' = "stopped" /\ UNCHANGED fees
     ELSE IF ReplacementFits(config.bump, fees)
     THEN pc' = "send" /\ fees' = Replacement(config.bump, fees)
     ELSE pc' = "replacement unavailable" /\ UNCHANGED fees
  /\ UNCHANGED <<config, flow, gate, base, blocks, ladder, balance, priced,
                 value, sent>>

(* EIP-1559: a full block raises the base fee by an eighth, at least by 1; *)
(* the gates compute without waiting for anything, so blocks come outside. *)
GrownBase(b) == b + Larger(b \div 8, 1)

NewBlock ==
  /\ pc \in {"hot", "send", "waiting"}
  /\ blocks < IF sent = <<>> THEN BlocksBeforeSend ELSE BlocksPerAttempt
  /\ blocks' = blocks + 1
  /\ base' \in (base - base \div 8)..GrownBase(base)
  /\ UNCHANGED <<config, flow, pc, gate, fees, ladder, balance, priced, value,
                 sent>>

Next ==
  \/ \E tip \in Tips, funds \in Balances, known \in BOOLEAN, price \in Values :
       TakeSnapshot(tip, funds, known, price)
  \/ ClimbGate
  \/ PassGate
  \/ \E price \in Values : RequestAction(price)
  \/ GiveUp
  \/ Abandon
  \/ \E answered \in BOOLEAN : Send(answered)
  \/ Receipt
  \/ TimeOut
  \/ NewBlock

Spec == Init /\ [][Next]_vars

-----------------------------------------------------------------------------
(* Every variable keeps its type (config.rs validation, fees.rs). *)
TypeOK ==
  /\ config \in [mode: ManualFees \cup {Automatic}, bump: Bumps,
                 multiplier: Multipliers]
  /\ flow \in Flows
  /\ pc \in {"snapshot", "gate", "hot", "send", "waiting", "mined", "refused",
             "stopped", "replacement unavailable"}
  /\ gate \in {1, 2} /\ base \in Nat /\ blocks \in Nat
  /\ fees \in Fees /\ ladder \in Seq(Fees)
  /\ balance \in Nat /\ priced \in BOOLEAN /\ value \in Nat
  /\ sent \in Seq([max: Nat, tip: Nat, base: Nat, blocks: Nat])

(* ensure_single_wallet_funding runs before the transaction is signed:     *)
(* whatever is broadcast later, the first attempt or any replacement, is   *)
(* covered with its value by the balance the snapshot read.                *)
EveryAttemptIsFunded ==
  \A i \in DOMAIN sent : MaximumCost(sent[i].max, value) <= balance

(* Once an attempt is out, replacing it never fails in the fee arithmetic: *)
(* the gate has already computed every rung the attempts will need, so     *)
(* CommandError::ReplacementUnavailable strands no transaction.            *)
NeverStranded == pc # "replacement unavailable"

(* fees.rs, MAX_BASE_FEE_GROWTH_BPS: with the bump at or above the         *)
(* protocol's growth, a replacement whose predecessor could pay the base   *)
(* fee and which follows it within one block can pay the base fee too.  A  *)
(* base fee of zero is left out: it grows to 1, and an empty buffer stays. *)
Buffer(f) == f.max - f.tip

ReplacementsKeepPace ==
  \A i \in 2..Len(sent) :
    /\ config.bump >= MaxBaseFeeGrowth
    /\ sent[i].blocks <= 1
    /\ Buffer(sent[i - 1]) >= sent[i - 1].base
    /\ sent[i - 1].base > 0
    => Buffer(sent[i]) >= sent[i].base

-----------------------------------------------------------------------------
(* The inductive invariant.  The ladder is made of replacements, each of   *)
(* which fits, and its top is its dearest rung.                            *)
Climbed(bump, s) ==
  /\ Len(s) <= MaxAttempts
  /\ \A i \in 1..Len(s) : s[i].max >= s[i].tip /\ s[i].max <= Last(s).max
  /\ \A i \in 2..Len(s) : /\ ReplacementFits(bump, s[i - 1])
                         /\ s[i] = Replacement(bump, s[i - 1])

LadderIsClimbed == Climbed(config.bump, ladder)

(* Until the first attempt the fees are the foot of the ladder. *)
FeesStartTheLadder ==
  /\ pc \in {"snapshot", "gate", "hot", "refused"} => sent = <<>>
  /\ pc \in {"gate", "hot"} => ladder # <<>> /\ fees = ladder[1]

(* The attempts replay a ladder that was climbed to its top and paid for. *)
AttemptsFollowTheLadder ==
  pc \in {"send", "waiting", "mined", "stopped"} =>
    /\ Len(ladder) = MaxAttempts
    /\ MaximumCost(Last(ladder).max, value) <= balance
    /\ Len(sent) <= MaxAttempts
    /\ \A i \in 1..Len(sent) :
         sent[i].max = ladder[i].max /\ sent[i].tip = ladder[i].tip
    /\ pc = "send" => Len(sent) < MaxAttempts /\ fees = ladder[Len(sent) + 1]
    /\ pc = "waiting" => sent # <<>> /\ fees = ladder[Len(sent)]

LadderInv ==
  /\ TypeOK /\ LadderIsClimbed /\ FeesStartTheLadder
  /\ AttemptsFollowTheLadder /\ NeverStranded

(* How far one block can have moved the base fee since the last attempt. *)
BaseSinceLastAttempt ==
  pc \in {"send", "waiting"} /\ sent # <<>> =>
    /\ blocks = 0 => base = Last(sent).base
    /\ blocks = 1 => base <= GrownBase(Last(sent).base)
=============================================================================
